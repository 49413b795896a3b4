-------------------------- MODULE MCRecordFraming --------------------------
(* Streams for RecordFraming: the payloads of every small file, and every    *)
(* short sequence of bytes over a few alphabets.                             *)
EXTENDS RecordFraming

CONSTANT WireLength

Options(formats, headers, mapped, limit) ==
  [format : formats, header : headers, mapped : mapped, limit : {limit}]

\* Fields as they are written in the file: plain, empty, a number, quoted.
Fields == {<<>>, <<"1">>, <<"E">>, <<"q", "x", "n", "x", "q">>, <<"q", "q", "q", ",", "q">>}
LineBreaks == {<<"n">>, <<"r", "n">>}

Names == <<"x", ",", "F">>
Row(a, b) == a \o <<",">> \o b
File(a, b, e, f) == Names \o e \o Row(a, b) \o e \o Row(<<"1">>, a) \o f
CsvFiles == {File(a, b, e, f) : a, b \in Fields, e \in LineBreaks, f \in {<<>>, <<"n">>}}
Files == {File(a, b, <<"n">>, <<>>) : a, b \in Fields}
Scraps == BoundedSeq({"q", ",", "r", "n", "s", "x"}, 4)

Loaded(texts, options) == {p \in texts \X options : CanLoad(p[1], p[2])}

Session(protocol, o, payloads) ==
  [protocol |-> protocol, origin |-> "file", format |-> o.format, limit |-> o.limit,
   payloads |-> payloads,
   bytes |-> IF protocol = "tcp" THEN TcpStream(payloads) ELSE <<>>,
   datagrams |-> IF protocol = "udp" THEN UdpDatagrams(o, payloads) ELSE {}]

Longest(payloads) ==
  LET lengths == {ByteLength(payloads[i]) : i \in 1..Len(payloads)}
  IN  IF lengths = {} THEN 1 ELSE CHOOSE n \in lengths : \A k \in lengths : k <= n

\* A TCP receiver whose limit is the longest payload itself.
FileSessions ==
  LET loaded == Loaded(CsvFiles, Options({"delimited"}, {TRUE}, {FALSE}, 1000))
                  \cup Loaded(Files, Options(Formats, {TRUE}, BOOLEAN, 1000))
                  \cup Loaded(Scraps, Options({"delimited", "json"}, {FALSE}, {FALSE}, 1000))
      Sent(p) == LoadReplayPayloads(p[1], p[2])
  IN  {Session("tcp", [p[2] EXCEPT !.limit = IF Longest(Sent(p)) = 0 THEN 1 ELSE Longest(Sent(p))],
               Sent(p)) : p \in loaded}
        \cup {Session("udp", p[2], Sent(p)) : p \in loaded}

Wire(protocol, format, limit, bytes) ==
  [protocol |-> protocol, origin |-> "wire", format |-> format, limit |-> limit,
   payloads |-> <<>>, bytes |-> IF protocol = "tcp" THEN bytes ELSE <<>>,
   datagrams |-> IF protocol = "udp" THEN {bytes} ELSE {}]

Streams(S) == [1..WireLength -> S]
Behind(head, S) == {head \o tail : tail \in Streams(S)}
WireSessions ==
  UNION {
    {Wire("tcp", "delimited", n, b) : n \in {3, 100}, b \in Streams({"q", ",", "r", "n", "x"})},
    {Wire("tcp", "delimited", 100, b) : b \in Behind(<<"q", "x">>, {"q", ",", "r", "n"})},
    {Wire("tcp", "json", n, b) : n \in {3, 100}, b \in Streams({"{", "}", "]", "q", "n", "x"})},
    {Wire("tcp", "json", n, b) : n \in {4, 100}, b \in Behind(<<"{", "q">>, {"}", "q", "b", "n"})},
    {Wire("tcp", "delimited", 3, b) : b \in Streams({"x", "n", "L", "M", "C", "B"})},
    {Wire("udp", "delimited", 3, b) : b \in Streams({"x", "n", "L", "M", "C", "B"})}}

MCSessions == FileSessions \cup WireSessions
=============================================================================
