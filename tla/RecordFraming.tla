---------------------------- MODULE RecordFraming ----------------------------
(* The receiver's side of a socket payload (payload-format-utils.js,         *)
(* socket-payload-receiver.js).  A TCP stream arrives in chunks cut anywhere, *)
(* in the middle of a character, a quoted field or a document; the decoder   *)
(* keeps the bytes of an unfinished character and the text of an unfinished  *)
(* record, and scans that text again from its start with every chunk.  A UDP *)
(* datagram is one record, and may be lost, repeated or overtaken.           *)
(*                                                                           *)
(* Bytes are the tokens of PayloadFormats, except that "E" arrives as a lead *)
(* "L" and one continuation byte, "F" as "M" and two.  "C" and "B" are        *)
(* continuation bytes; "B" may not follow "M" (an overlong form).            *)
EXTENDS PayloadFormats

CONSTANTS
  Sessions,    \* what is sent: [protocol, origin, format, limit, payloads, bytes]
  MaxChunk,    \* longest chunk of a TCP stream
  MaxDatagrams \* datagrams that arrive, repetitions included

ASSUME RecordFramingAssumption == MaxChunk \in Nat \ {0} /\ MaxDatagrams \in Nat

VARIABLES
  session,   \* the member of Sessions under way
  arrived,   \* bytes read from the stream, or datagrams read
  carry,     \* bytes of a character that is not complete
  buffer,    \* text of a record that is not complete
  records,   \* delivered: [payload, warned]
  warnings,  \* delivered: what each warning is about
  ended,     \* the receiver's `ended`: end, close or error was seen
  strict     \* the strict decoder, fed with the same chunks

vars == <<session, arrived, carry, buffer, records, warnings, ended, strict>>

\* ------------------------------------------------------------------- UTF-8

Utf8Bytes(c) == IF c = "E" THEN <<"L", "C">> ELSE IF c = "F" THEN <<"M", "C", "C">> ELSE <<c>>
EncodeUtf8(text) == FlattenSeq([i \in 1..Len(text) |-> Utf8Bytes(text[i])])

Continuation == {"C", "B"}
Utf8SequenceLength(byte) ==
  IF byte \in Continuation THEN 0 ELSE IF byte = "L" THEN 2 ELSE IF byte = "M" THEN 3 ELSE 1
IsValidUtf8Sequence(bytes, i, n) ==
  /\ \A k \in i + 1 .. i + n - 1 : bytes[k] \in Continuation
  /\ bytes[i] = "M" => bytes[i + 1] # "B"
Character(byte) == IF byte = "L" THEN "E" ELSE IF byte = "M" THEN "F" ELSE byte

\* A segment of decoded text, or (dropped > 0) a run of bytes that is no text.
Text(t) == IF t = <<>> THEN <<>> ELSE <<[text |-> t, dropped |-> 0]>>
Dropped(n) == <<[text |-> <<>>, dropped |-> n]>>

RECURSIVE DecodeFrom(_, _, _, _)
DecodeFrom(bytes, i, text, ending) ==
  IF i > Len(bytes) THEN [segments |-> Text(text), carry |-> <<>>]
  ELSE
    LET n == Utf8SequenceLength(bytes[i])
        Resume(k, lost) ==
          LET rest == DecodeFrom(bytes, k, <<>>, ending)
          IN  [rest EXCEPT !.segments = Text(text) \o Dropped(lost) \o @]
        run == CHOOSE k \in i..Len(bytes) :
                 /\ \A j \in i..k : bytes[j] \in Continuation
                 /\ CharAt(bytes, k + 1) \notin Continuation
    IN  IF n = 0 THEN Resume(run + 1, run + 1 - i)
          ELSE IF i + n - 1 > Len(bytes) /\ ~ending THEN
               [segments |-> Text(text), carry |-> From(bytes, i)]
          ELSE IF i + n - 1 > Len(bytes) THEN
               [segments |-> Text(text) \o Dropped(Len(bytes) + 1 - i), carry |-> <<>>]
          ELSE IF n > 0 /\ i + n - 1 <= Len(bytes) /\ ~IsValidUtf8Sequence(bytes, i, n) THEN
               Resume(i + 1, 1)
          ELSE DecodeFrom(bytes, i + n, Append(text, Character(bytes[i])), ending)

DecodeUtf8(bytes, ending) == DecodeFrom(bytes, 1, <<>>, ending)

\* ------------------------------------------------- one record, kept or warned of

(* A batch under construction: the text not yet framed, the records and the  *)
(* warnings.  A record that is too long, cut short or not valid for the      *)
(* format is delivered all the same, with a warning.                         *)
Batch(text) == [buffer |-> text, records |-> <<>>, warnings |-> <<>>]

Problem(o, payload, problem) ==
  IF problem # "none" THEN problem
  ELSE IF ByteLength(payload) > o.limit THEN "oversize"
  ELSE IF ~ValidatePayload(o.format, payload) THEN "invalid"
  ELSE "none"

WithRecord(b, payload, reason) ==
  [b EXCEPT !.records = Append(@, [payload |-> payload, warned |-> reason # "none"]),
            !.warnings = IF reason # "none" THEN Append(@, reason) ELSE @]

AddReceiveRecord(b, o, payload, problem) == WithRecord(b, payload, Problem(o, payload, problem))

\* ------------------------------------------------------- the delimited framer

ScanStart(b) == [i |-> 1, quoted |-> FALSE, fieldStart |-> TRUE, malformed |-> FALSE,
                 begun |-> 1, out |-> b]

EndRecord(s, o, text, next, malformed) ==
  LET payload == SubSeq(text, s.begun, s.i - 1)
  IN  [i |-> next, quoted |-> FALSE, fieldStart |-> TRUE, malformed |-> FALSE, begun |-> next,
       out |-> IF IsBlank(payload) THEN s.out
               ELSE AddReceiveRecord(s.out, o, payload,
                      IF malformed THEN "malformed" ELSE "none")]

ScanDelimited(s, o, text) ==
  LET c == text[s.i]
      next == CharAt(text, s.i + 1)
  IN  IF s.quoted /\ c = "q" /\ next = "q" THEN [s EXCEPT !.i = @ + 2]
        ELSE IF s.quoted /\ c = "q" THEN [s EXCEPT !.i = @ + 1, !.quoted = FALSE]
        ELSE IF s.quoted THEN [s EXCEPT !.i = @ + 1]
        ELSE IF c = "q" /\ s.fieldStart THEN
             [s EXCEPT !.i = @ + 1, !.quoted = TRUE, !.fieldStart = FALSE]
        ELSE IF c = "q" THEN [s EXCEPT !.i = @ + 1, !.malformed = TRUE]
        ELSE IF c = "," THEN [s EXCEPT !.i = @ + 1, !.fieldStart = TRUE]
        ELSE IF c = "n" THEN EndRecord(s, o, text, s.i + 1, s.malformed)
        ELSE IF c = "r" /\ next = "n" THEN EndRecord(s, o, text, s.i + 2, s.malformed)
        ELSE IF c = "r" THEN EndRecord(s, o, text, s.i + 1, TRUE)
        ELSE [s EXCEPT !.i = @ + 1, !.fieldStart = FALSE]

\* Mutant: a carriage return at the end of a chunk is taken for a lone one.
EveryReturnEnds(s, text, ending) == FALSE

\* A carriage return that ends the text may be half of a line break.
HalfLineBreak(s, text, ending) ==
  ~ending /\ ~s.quoted /\ s.i = Len(text) /\ text[s.i] = "r"

\* Scan to the end of the text; at the end of the stream the rest is a record too.
RECURSIVE DelimitedFrom(_, _, _, _)
DelimitedFrom(s, o, text, ending) ==
  IF s.i <= Len(text) /\ ~HalfLineBreak(s, text, ending)
  THEN DelimitedFrom(ScanDelimited(s, o, text), o, text, ending)
  ELSE LET rest == From(text, s.begun)
           incomplete == IF s.quoted \/ s.malformed THEN "incomplete" ELSE "none"
       IN  IF ~ending THEN [s.out EXCEPT !.buffer = rest]
             ELSE IF IsBlank(rest) THEN [s.out EXCEPT !.buffer = <<>>]
             ELSE [AddReceiveRecord(s.out, o, rest, incomplete) EXCEPT !.buffer = <<>>]

ConsumeDelimited(b, o, ending) == DelimitedFrom(ScanStart(b), o, b.buffer, ending)

\* ------------------------------------------------------------ the JSON framer

ValueStart(i) == [i |-> i, stack |-> <<>>, string |-> FALSE, escaped |-> FALSE,
                  malformed |-> FALSE, at |-> "reading"]

\* Mutant: an escaped quote closes the string.
ScanUnescaped(s, c) ==
  IF s.string /\ c = "q" THEN [s EXCEPT !.i = @ + 1, !.string = FALSE]
  ELSE IF s.string THEN [s EXCEPT !.i = @ + 1, !.malformed = @ \/ c \in Separators]
  ELSE IF c = "q" THEN [s EXCEPT !.i = @ + 1, !.string = TRUE]
  ELSE IF c \in {"{", "["} THEN [s EXCEPT !.i = @ + 1, !.stack = Append(@, c)]
  ELSE IF c \in {"}", "]"} THEN
         [s EXCEPT !.i = @ + 1, !.stack = Front(@),
                   !.at = IF Len(s.stack) = 1 THEN "complete" ELSE @]
  ELSE [s EXCEPT !.i = @ + 1]

ScanValue(s, c) ==
  IF s.string /\ s.escaped THEN [s EXCEPT !.i = @ + 1, !.escaped = FALSE]
    ELSE IF s.string /\ c = "b" THEN [s EXCEPT !.i = @ + 1, !.escaped = TRUE]
    ELSE IF s.string /\ c = "q" THEN [s EXCEPT !.i = @ + 1, !.string = FALSE]
    ELSE IF s.string THEN [s EXCEPT !.i = @ + 1, !.malformed = @ \/ c \in Separators]
    ELSE IF c = "q" THEN [s EXCEPT !.i = @ + 1, !.string = TRUE]
    ELSE IF c \in {"{", "["} THEN [s EXCEPT !.i = @ + 1, !.stack = Append(@, c)]
    ELSE IF c \in {"}", "]"} /\ Last(s.stack) # (IF c = "}" THEN "{" ELSE "[") THEN
         [s EXCEPT !.malformed = TRUE, !.at = "mismatch"]
    ELSE IF c \in {"}", "]"} THEN
         [s EXCEPT !.i = @ + 1, !.stack = Front(@),
                   !.at = IF Len(s.stack) = 1 THEN "complete" ELSE @]
    ELSE [s EXCEPT !.i = @ + 1]

\* Scan until the value is complete, cannot be, or the text is at its end.
RECURSIVE ValueFrom(_, _)
ValueFrom(s, text) ==
  IF s.at = "reading" /\ s.i <= Len(text) THEN ValueFrom(ScanValue(s, text[s.i]), text) ELSE s

\* The position after the blanks at i, and the newline at or after i (0: none).
AfterBlanks(text, i) ==
  CHOOSE k \in i .. Len(text) + 1 :
    /\ CharAt(text, k) \notin Whitespace
    /\ \A j \in i .. k - 1 : text[j] \in Whitespace
NewlineFrom(text, i) == SelectInSubSeq(text, i, Len(text), LAMBDA c : c = "n")
WithoutReturn(text) == IF text # <<>> /\ Last(text) = "r" THEN Front(text) ELSE text

RECURSIVE JsonFrom(_, _, _, _, _)
JsonFrom(b, o, text, i, ending) ==
  LET start == IF i > Len(text) THEN i ELSE AfterBlanks(text, i)
      stray == CharAt(text, start) \notin {"{", "["}
      value == IF stray THEN ValueStart(start) ELSE ValueFrom(ValueStart(start), text)
      newline == NewlineFrom(text, value.i)
      end == IF newline = 0 THEN Len(text) + 1 ELSE newline
      Record(last, next, problem) ==
        JsonFrom(AddReceiveRecord(b, o, last, problem), o, text, next, ending)
  IN  IF start > Len(text) THEN [b EXCEPT !.buffer = <<>>]
        ELSE IF value.at = "complete" THEN Record(SubSeq(text, start, value.i - 1), value.i, "none")
        ELSE IF (stray \/ value.malformed) /\ (ending \/ newline # 0) THEN
             Record(WithoutReturn(SubSeq(text, start, end - 1)), end + 1, "malformed")
        ELSE IF ending THEN
             [AddReceiveRecord(b, o, From(text, start), "incomplete") EXCEPT !.buffer = <<>>]
        ELSE [b EXCEPT !.buffer = From(text, start)]

ConsumeJson(b, o, ending) == JsonFrom(b, o, b.buffer, 1, ending)

\* ----------------------------------------------------------- the TCP decoder

\* Mutant: a record as long as the limit is given up before its line feed arrives.
GiveUpAtLimit(framed, o, ending) ==
  IF ~ending /\ ByteLength(framed.buffer) >= o.limit
  THEN [AddReceiveRecord(framed, o, framed.buffer, "reset") EXCEPT !.buffer = <<>>]
  ELSE framed

\* What stays unframed and is longer than a record may be is given up.
GiveUp(framed, o, ending) ==
  IF ~ending /\ ByteLength(framed.buffer) > o.limit
  THEN [AddReceiveRecord(framed, o, framed.buffer, "reset") EXCEPT !.buffer = <<>>]
  ELSE framed

Consume(b, o, ending) ==
  GiveUp(IF o.format = "delimited" THEN ConsumeDelimited(b, o, ending)
         ELSE ConsumeJson(b, o, ending), o, ending)

\* Bytes that are no text discard the record under way along with them.
ProcessSegment(b, o, segment) ==
  IF segment.dropped = 0 THEN Consume([b EXCEPT !.buffer = @ \o segment.text], o, FALSE)
  ELSE [b EXCEPT !.buffer = <<>>, !.warnings = Append(@, "bytes")]

RECURSIVE ProcessSegments(_, _, _)
ProcessSegments(b, o, segments) ==
  IF segments = <<>> THEN b
  ELSE ProcessSegments(ProcessSegment(b, o, Head(segments)), o, Tail(segments))

Decoder == [carry |-> <<>>, buffer |-> <<>>]

Carrying(b, carried) == b @@ [carry |-> carried]

\* createTcpRecordDecoder: push(chunk) and end().
Decode(d, o, utf8) == Carrying(ProcessSegments(Batch(d.buffer), o, utf8.segments), utf8.carry)
Push(d, o, chunk) == Decode(d, o, DecodeUtf8(d.carry \o chunk, FALSE))
EndOfStream(d, o) ==
  Carrying(Consume(ProcessSegments(Batch(d.buffer), o, DecodeUtf8(d.carry, TRUE).segments), o, TRUE),
           <<>>)

\* --------------------------------------------------------- the strict decoder

(* createTcpPayloadDecoder frames the same stream and throws at the first    *)
(* thing it cannot accept.  Its delimited half follows the file parser; its  *)
(* JSON half does not scan text twice but remembers where it stopped.        *)
StrictStart == [buffer |-> <<>>, started |-> FALSE, begun |-> 1, depth |-> 0, string |-> FALSE,
                escaped |-> FALSE, i |-> 1, payloads |-> <<>>, failed |-> FALSE]

Accepts(o, payload) == ByteLength(payload) <= o.limit /\ ValidatePayload(o.format, payload)

RECURSIVE StrictRows(_, _, _)
StrictRows(text, s, ending) ==
  IF s.i > Len(text) \/ s.at = "error" \/ (s.at # "quoted" /\ HalfLineBreak(
       [quoted |-> FALSE, i |-> s.i], text, ending))
  THEN s
  ELSE StrictRows(text, ParseStep(text, s), ending)

StrictDelimited(z, o, ending) ==
  LET s == StrictRows(z.buffer, ParseStart, ending)
      rest == From(z.buffer, s.begun)
      payloads == IF ending /\ rest # <<>> THEN Append(s.raws, rest) ELSE s.raws
  IN  IF \/ s.at = "error"
         \/ ending /\ s.at = "quoted"
         \/ \E k \in 1..Len(payloads) : ~Accepts(o, payloads[k])
      THEN [z EXCEPT !.failed = TRUE]
      ELSE [z EXCEPT !.buffer = IF ending THEN <<>> ELSE rest, !.payloads = @ \o payloads]

StrictJsonChar(z, o, c) ==
  LET payload == SubSeq(z.buffer, z.begun, z.i)
      Next == [z EXCEPT !.i = @ + 1]
  IN  IF ~z.started /\ c \in Whitespace THEN Next
      ELSE IF ~z.started /\ c \notin {"{", "["} THEN [z EXCEPT !.failed = TRUE]
      ELSE IF ~z.started
        THEN [Next EXCEPT !.started = TRUE, !.begun = z.i, !.depth = 1]
      ELSE IF z.string /\ z.escaped THEN [Next EXCEPT !.escaped = FALSE]
      ELSE IF z.string /\ c = "b" THEN [Next EXCEPT !.escaped = TRUE]
      ELSE IF z.string THEN [Next EXCEPT !.string = c # "q"]
      ELSE IF c = "q" THEN [Next EXCEPT !.string = TRUE]
      ELSE IF c \in {"{", "["} THEN [Next EXCEPT !.depth = @ + 1]
      ELSE IF c \notin {"}", "]"} THEN Next
      ELSE IF z.depth > 1 THEN [Next EXCEPT !.depth = @ - 1]
      ELSE IF ~Accepts(o, payload) THEN [z EXCEPT !.failed = TRUE]
      ELSE [StrictStart EXCEPT !.buffer = From(z.buffer, z.i + 1),
                               !.payloads = Append(z.payloads, payload)]

RECURSIVE StrictJsonFrom(_, _)
StrictJsonFrom(z, o) ==
  IF z.failed THEN z
  ELSE IF z.i <= Len(z.buffer) THEN StrictJsonFrom(StrictJsonChar(z, o, z.buffer[z.i]), o)
  ELSE IF z.started THEN z
  ELSE [z EXCEPT !.buffer = <<>>, !.i = 1]

\* An exception loses the payloads of the call that threw it.
StrictConsume(z, o, ending) ==
  LET done == IF o.format = "delimited" THEN StrictDelimited(z, o, ending)
              ELSE StrictJsonFrom(z, o)
      bad == \/ done.failed
             \/ ~ending /\ ByteLength(done.buffer) > o.limit
             \/ ending /\ ~IsBlank(done.buffer)
  IN  IF z.failed \/ bad THEN [z EXCEPT !.failed = TRUE] ELSE done

\* Text with a replacement character for each run of bytes that is no text.
Lossy(segments) ==
  FlattenSeq([k \in 1..Len(segments) |->
                IF segments[k].dropped = 0 THEN segments[k].text ELSE <<"x">>])
StrictPush(z, o, segments) ==
  StrictConsume([z EXCEPT !.buffer = @ \o Lossy(segments)], o, FALSE)
StrictEnd(z, o, segments) ==
  StrictConsume([z EXCEPT !.buffer = @ \o Lossy(segments)], o, TRUE)

\* ------------------------------------------------------------------ the wire

\* TransportManager.send: every payload is one line of the stream.
TcpStream(payloads) ==
  FlattenSeq([i \in 1..Len(payloads) |-> EncodeUtf8(payloads[i]) \o <<"n">>])

\* encodeUdpPayload with Append LF: a delimited datagram ends with a line feed.
Framed(o, payload) ==
  IF o.format = "delimited" /\ (payload = <<>> \/ Last(payload) # "n")
  THEN Append(payload, "n") ELSE payload
UdpDatagrams(o, payloads) == {EncodeUtf8(Framed(o, payloads[i])) : i \in 1..Len(payloads)}

Registration == <<"hello">>

\* decodeUdpDatagram: one record, or none when the bytes are too many or no text.
DecodeUdpDatagram(datagram, o) ==
  LET utf8 == DecodeUtf8(datagram, TRUE)
  IN  IF Len(datagram) > o.limit \/ \E k \in 1..Len(utf8.segments) : utf8.segments[k].dropped > 0
      THEN [Batch(<<>>) EXCEPT !.warnings = <<"bytes">>]
      ELSE AddReceiveRecord(Batch(<<>>), [o EXCEPT !.limit = ByteLength(datagram)],
                            Lossy(utf8.segments), "none")

\* -------------------------------------------------------------- the receivers

Init ==
  /\ session \in Sessions
  /\ arrived = 0
  /\ carry = <<>> /\ buffer = <<>>
  /\ records = <<>> /\ warnings = <<>>
  /\ ended = FALSE
  /\ strict = StrictStart

\* deliverRecords: the batch reaches the listeners.
DeliverRecords(batch) ==
  /\ records' = records \o batch.records
  /\ warnings' = warnings \o batch.warnings

\* The decoder keeps its state and hands on what it framed.
Receives(after) == carry' = after.carry /\ buffer' = after.buffer /\ DeliverRecords(after)

\* attachTcpPayloadReceiver: a chunk of the stream arrives.
ReceiveChunk ==
  /\ session.protocol = "tcp"
  /\ ~ended
  /\ \E n \in 1..MaxChunk :
       /\ arrived + n <= Len(session.bytes)
       /\ LET chunk == SubSeq(session.bytes, arrived + 1, arrived + n)
          IN  /\ arrived' = arrived + n
              /\ Receives(Push([carry |-> carry, buffer |-> buffer], session, chunk))
              /\ strict' = StrictPush(strict, session,
                                      DecodeUtf8(carry \o chunk, FALSE).segments)
  /\ UNCHANGED <<session, ended>>

\* The peer ends the stream, or it closes, or fails: the first of them is heard.
Finish ==
  /\ session.protocol = "tcp"
  /\ ~ended
  /\ Receives(EndOfStream([carry |-> carry, buffer |-> buffer], session))
  /\ strict' = StrictEnd(strict, session, DecodeUtf8(carry, TRUE).segments)
  /\ ended' = TRUE
  /\ UNCHANGED <<session, arrived>>

\* createUdpPayloadReceiver: some datagram arrives; a registration is no payload.
ReceiveDatagram ==
  /\ session.protocol = "udp"
  /\ arrived < MaxDatagrams
  /\ arrived' = arrived + 1
  /\ \E datagram \in session.datagrams \cup {Registration} :
       IF datagram = Registration THEN UNCHANGED <<records, warnings>>
       ELSE DeliverRecords(DecodeUdpDatagram(datagram, session))
  /\ UNCHANGED <<session, carry, buffer, ended, strict>>

Next == ReceiveChunk \/ Finish \/ ReceiveDatagram

Spec == Init /\ [][Next]_vars

\* ----------------------------------------------------------------- properties

Prefix == SubSeq(session.bytes, 1, arrived)
Unlimited == [session EXCEPT !.limit = 2 * Len(session.bytes) + 1]
IsText(bytes) ==
  LET utf8 == DecodeUtf8(bytes, ended)
  IN  \A k \in 1..Len(utf8.segments) : utf8.segments[k].dropped = 0
Fits == \A n \in 1..arrived :
          ByteLength(Push(Decoder, Unlimited, SubSeq(Prefix, 1, n)).buffer) <= session.limit
Delivered == [i \in 1..Len(records) |-> records[i].payload]

(* What a stream says does not depend on how it was cut (consume and the     *)
(* carry of createFatalUtf8Stream): as long as no unfinished record outgrows *)
(* the limit, the records and their warnings are those of the whole stream   *)
(* arriving at once, wherever the chunks end and wherever the peer stops.    *)
RecordsIgnoreChunking ==
  ended /\ Fits =>
    \A once \in {Push(Decoder, session, Prefix)} :
    \A rest \in {EndOfStream(once, session)} :
      LET Records(w) == SelectSeq(w, LAMBDA x : x # "bytes")
      IN  /\ records = once.records \o rest.records
          /\ Records(warnings) = Records(once.warnings \o rest.warnings)

(* What was published is what is received: the payloads a file was converted *)
(* to (loadReplayPayloadsFromFile) come out of the stream they are sent in,  *)
(* one record each, in order, unchanged and with no warning, whatever quoted *)
(* line breaks, delimiters and multi-byte characters they hold and even when *)
(* one of them is as long as the limit allows; a stream cut short adds one   *)
(* piece of a record at most.  A datagram that arrives, late or twice, is    *)
(* one of the payloads too.                                                  *)
PublishedIsReceived ==
  LET Cut == ended /\ arrived < Len(session.bytes)
      Sent(d) == \E k \in 1..Len(session.payloads) : d = Framed(session, session.payloads[k])
  IN  session.origin = "file" =>
        /\ ~Cut => warnings = <<>>
        /\ IF session.protocol = "udp" THEN \A i \in 1..Len(records) : Sent(Delivered[i])
           ELSE IF Cut THEN records = <<>> \/ IsPrefix(Front(Delivered), session.payloads)
           ELSE IF arrived = Len(session.bytes) THEN Delivered = session.payloads
           ELSE IsPrefix(Delivered, session.payloads)

TypeOK ==
  /\ session.format \in Formats /\ session.protocol \in {"tcp", "udp"}
  /\ arrived \in 0 .. Len(session.bytes) + MaxDatagrams
  /\ Len(carry) < 3
  /\ ended \in BOOLEAN
  /\ ByteLength(buffer) <= session.limit

(* Nothing of a stream is lost without a word: in a stream that is text,     *)
(* every character that is not a separator or a blank between records is in  *)
(* a record that was delivered or in the record under way, in the order it   *)
(* was sent, through recoveries, resets at the limit and the end.            *)
NothingVanishes ==
  session.protocol = "tcp" /\ IsText(Prefix) =>
    LET Solid(text) == SelectSeq(text, LAMBDA c : c \notin Whitespace)
        utf8 == DecodeUtf8(Prefix, ended)
    IN  /\ carry = utf8.carry
        /\ Solid(FlattenSeq(Delivered) \o buffer) = Solid(Lossy(utf8.segments))

(* The two decoders of the repository read the same language: what the       *)
(* strict one (createTcpPayloadDecoder) accepts, however it was cut, the     *)
(* receiver delivers record for record with no warning, blank lines apart;   *)
(* what it throws at, the receiver warns of, unless it was a stray carriage  *)
(* return on a line that is otherwise blank.                                 *)
DecodersAgree ==
  LET Stray == \E i \in 1..arrived :
                 Prefix[i] = "r" /\ CharAt(Prefix, i + 1) # "n"
  IN  ended /\ IsText(Prefix) =>
    /\ ~strict.failed =>
         /\ warnings = <<>>
         /\ Delivered = SelectSeq(strict.payloads, LAMBDA p : ~IsBlank(p))
    /\ strict.failed => warnings # <<>> \/ Stray

(* A receiver keeps all of what it is sent, and no less than the strict decoder would. *)
StreamsAreKept == TypeOK /\ NothingVanishes /\ DecodersAgree
=============================================================================
