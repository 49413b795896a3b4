--------------------------- MODULE PayloadFormats ---------------------------
(* The sender's side of a socket payload (payload-format-utils.js,           *)
(* file-source.js): a delimited file is parsed, its rows become payloads of  *)
(* the chosen format, and every payload is checked against the size limit.   *)
(* The same parser and the same schema checks validate what a receiver gets. *)
(*                                                                           *)
(* A text is a sequence of tokens.  "q" is a double quote, "," the           *)
(* delimiter, "r" and "n" the line-break characters, "s" a space, "b" a      *)
(* backslash, "1" a digit, "E" and "F" characters of two and three UTF-8     *)
(* bytes, "x" any other character; a fixed phrase of a generated document    *)
(* ("Feature:", "geometry:", "attributes:", "Point:", "null") is one token.  *)
EXTENDS Integers, Sequences, FiniteSets, SequencesExt

Formats == {"delimited", "json", "geo-json", "esri-json"}
Separators == {"r", "n"}
Whitespace == Separators \cup {"s"}

Count(text, c) == Cardinality({i \in 1..Len(text) : text[i] = c})
ByteLength(text) == Len(text) + Count(text, "E") + 2 * Count(text, "F")
IsBlank(text) == ToSet(text) \subseteq Whitespace
From(text, i) == SubSeq(text, i, Len(text))
CharAt(text, i) == IF i \in 1..Len(text) THEN text[i] ELSE "end"

\* ---------------------------------------------------------------- the parser

(* Where the parser stands: inside a field that has begun ("plain"), before  *)
(* its first character ("start"), between its quotes, or after the closing   *)
(* one.  "error" is the exception, after which nothing is read.              *)
ParseStart == [i |-> 1, at |-> "start", row |-> <<>>, field |-> <<>>,
               begun |-> 1, rows |-> <<>>, raws |-> <<>>]

FinishRow(text, s, next) ==
  [s EXCEPT !.rows = Append(@, Append(s.row, s.field)),
            !.raws = Append(@, SubSeq(text, s.begun, s.i - 1)),
            !.row = <<>>, !.field = <<>>, !.at = "start", !.begun = next, !.i = next]

ParseStep(text, s) ==
  LET c == text[s.i]
      next == CharAt(text, s.i + 1)
      Read(field, at, n) == [s EXCEPT !.field = field, !.at = at, !.i = @ + n]
  IN  IF s.at = "quoted" /\ c = "q" /\ next = "q" THEN Read(Append(s.field, "q"), "quoted", 2)
        ELSE IF s.at = "quoted" /\ c = "q" THEN Read(s.field, "closed", 1)
        ELSE IF s.at = "quoted" THEN Read(Append(s.field, c), "quoted", 1)
        ELSE IF c = "," THEN [Read(<<>>, "start", 1) EXCEPT !.row = Append(@, s.field)]
        ELSE IF c = "n" THEN FinishRow(text, s, s.i + 1)
        ELSE IF c = "r" /\ next = "n" THEN FinishRow(text, s, s.i + 2)
        ELSE IF c = "r" \/ s.at = "closed" THEN [s EXCEPT !.at = "error"]
        ELSE IF c = "q" /\ s.at = "start" THEN Read(s.field, "quoted", 1)
        ELSE IF c = "q" THEN [s EXCEPT !.at = "error"]
        ELSE Read(Append(s.field, c), "plain", 1)

RECURSIVE ParseFrom(_, _)
ParseFrom(text, s) ==
  IF s.at = "error" THEN s
  ELSE IF s.i <= Len(text) THEN ParseFrom(text, ParseStep(text, s))
  ELSE IF s.at = "quoted" THEN [s EXCEPT !.at = "error"]
  ELSE IF s.begun <= Len(text) THEN FinishRow(text, s, s.i)
  ELSE s

ParseDelimitedRows(text) == ParseFrom(text, ParseStart)

\* The rows that are not blank when blank records are skipped.
Kept(parsed, skipEmpty) ==
  LET keep == SelectSeq([i \in 1..Len(parsed.raws) |-> i],
                        LAMBDA i : ~skipEmpty \/ ~IsBlank(parsed.raws[i]))
  IN  [rows |-> [k \in 1..Len(keep) |-> parsed.rows[keep[k]]],
       raws |-> [k \in 1..Len(keep) |-> parsed.raws[keep[k]]]]

FieldNames(rows, header) ==
  IF header THEN rows[1] ELSE [i \in 1..Len(rows[1]) |-> <<"f", ToString(i)>>]

ValidFieldNames(names) ==
  /\ \A i \in 1..Len(names) : ~IsBlank(names[i])
  /\ \A i, j \in 1..Len(names) : names[i] = names[j] => i = j

\* What parseDelimitedSource accepts: every row as wide as the first.
SourceParses(text, header, skipEmpty) ==
  LET parsed == ParseDelimitedRows(text)
      rows == Kept(parsed, skipEmpty).rows
  IN  /\ parsed.at # "error"
      /\ IF rows = <<>> THEN ~header
         ELSE /\ ValidFieldNames(FieldNames(rows, header))
              /\ \A i \in 1..Len(rows) : Len(rows[i]) = Len(rows[1])

ParseDelimitedSource(text, header, skipEmpty) ==
  LET kept == Kept(ParseDelimitedRows(text), skipEmpty)
      first == IF header THEN 2 ELSE 1
  IN  IF kept.rows = <<>> THEN [names |-> <<>>, rows |-> <<>>, raws |-> <<>>]
      ELSE [names |-> FieldNames(kept.rows, header),
            rows |-> From(kept.rows, first), raws |-> From(kept.raws, first)]

\* -------------------------------------------------------------- the encoders

\* An empty field is null, digits are a number, anything else stays text.
InferScalar(field) ==
  IF field = <<>> THEN "null"
    ELSE IF field # <<>> /\ ToSet(field) = {"1"} THEN "number"
    ELSE "string"

Escaped(c) ==
  IF c \in {"q", "b"} THEN <<"b", c>> ELSE IF c \in Separators THEN <<"b", "x">> ELSE <<c>>
JsonString(text) ==
  <<"q">> \o FlattenSeq([i \in 1..Len(text) |-> Escaped(text[i])]) \o <<"q">>
JsonScalar(field) ==
  IF InferScalar(field) = "null" THEN <<"null">>
    ELSE IF InferScalar(field) = "number" THEN field
    ELSE JsonString(field)

JsonObject(names, row) ==
  LET Member(i) == JsonString(names[i]) \o <<":">> \o JsonScalar(row[i])
  IN  <<"{">> \o FlattenSeq([i \in 1..Len(names) |->
                   IF i = 1 THEN Member(i) ELSE <<",">> \o Member(i)]) \o <<"}">>

\* The coordinates, when the X and Y fields are mapped to the first two columns.
Coordinates(row) == row[1] \o <<",">> \o row[2]
CanBuildPoint(row) == Len(row) >= 2 /\ \A i \in 1..2 : InferScalar(row[i]) = "number"

Geometry(format, mapped, row) ==
  IF ~mapped THEN <<"null">>
    ELSE IF format = "geo-json" THEN <<"{", "Point:", "[">> \o Coordinates(row) \o <<"]", "}">>
    ELSE <<"{">> \o Coordinates(row) \o <<",", "wkid:", "}">>

EncodeRecord(format, mapped, names, row) ==
  IF format = "json" THEN JsonObject(names, row)
    ELSE IF format = "geo-json" THEN
         <<"{", "Feature:">> \o JsonObject(names, row) \o <<",", "geometry:">>
           \o Geometry(format, mapped, row) \o <<"}">>
    ELSE
         <<"{", "attributes:">> \o JsonObject(names, row) \o <<",", "geometry:">>
           \o Geometry(format, mapped, row) \o <<"}">>

\* A delimited payload is the row's own text, quotes and all.
ConvertDelimitedSource(text, o) ==
  LET parsed == ParseDelimitedSource(text, o.header, TRUE)
  IN  IF o.format = "delimited" THEN parsed.raws
      ELSE [i \in 1..Len(parsed.rows) |->
             EncodeRecord(o.format, o.mapped, parsed.names, parsed.rows[i])]

\* ------------------------------------------------------------ the validation

(* JSON.parse, in the tokens of this module: brackets that match, strings    *)
(* that are closed and hold no line break, nothing after the value.          *)
JsonStart == [depth |-> <<>>, string |-> FALSE, escaped |-> FALSE, ok |-> TRUE, done |-> FALSE]
JsonStep(s, c) ==
  IF s.string /\ s.escaped THEN [s EXCEPT !.escaped = FALSE]
    ELSE IF s.string /\ c = "b" THEN [s EXCEPT !.escaped = TRUE]
    ELSE IF s.string /\ c = "q" THEN [s EXCEPT !.string = FALSE]
    ELSE IF s.string THEN [s EXCEPT !.ok = @ /\ c \notin Separators]
    ELSE IF c \in Whitespace THEN s
    ELSE IF s.done THEN [s EXCEPT !.ok = FALSE]
    ELSE IF c \in {"{", "["} THEN [s EXCEPT !.depth = Append(@, c)]
    ELSE IF s.depth = <<>> THEN [s EXCEPT !.ok = FALSE]
    ELSE IF c \in {"}", "]"} THEN
         [s EXCEPT !.ok = @ /\ Last(s.depth) = (IF c = "}" THEN "{" ELSE "["),
                   !.depth = Front(@), !.done = Len(s.depth) = 1]
    ELSE IF c = "q" THEN [s EXCEPT !.string = TRUE]
    ELSE s
ParseJsonPayload(payload) ==
  LET read[i \in 0..Len(payload)] ==
        IF i = 0 THEN JsonStart ELSE JsonStep(read[i - 1], payload[i])
      s == read[Len(payload)]
  IN  s.ok /\ s.done

ValidateGeoJsonFeature(payload) ==
  Len(payload) > 1 /\ payload[1] = "{" /\ payload[2] = "Feature:" /\ Contains(payload, "geometry:")
ValidateEsriFeature(payload) ==
  Len(payload) > 1 /\ payload[1] = "{" /\ payload[2] = "attributes:"

ValidatePayload(format, payload) ==
  IF format = "delimited"
  THEN payload = <<>> \/ /\ SourceParses(payload, FALSE, FALSE)
                         /\ Len(ParseDelimitedRows(payload).raws) = 1
  ELSE /\ ParseJsonPayload(payload)
       /\ format = "geo-json" => ValidateGeoJsonFeature(payload)
       /\ format = "esri-json" => ValidateEsriFeature(payload)

\* -------------------------------------------------------- the file as payloads

\* loadReplayPayloadsFromFile succeeds: the source converts and each payload fits.
CanLoad(text, o) ==
  /\ SourceParses(text, o.header, TRUE)
  /\ LET parsed == ParseDelimitedSource(text, o.header, TRUE)
         payloads == ConvertDelimitedSource(text, o)
         pointed == o.mapped /\ o.format \in {"geo-json", "esri-json"}
     IN  \A i \in 1..Len(parsed.rows) :
           /\ pointed => CanBuildPoint(parsed.rows[i])
           /\ ByteLength(payloads[i]) <= o.limit

LoadReplayPayloads(text, o) == ConvertDelimitedSource(text, o)
=============================================================================
