-------------------------- MODULE MessageFormatter --------------------------
(* SolidSyslogMessageFormatter: one RFC 5424 line.  The header, then the      *)
(* structured data of the logger and of the message, whose elements and       *)
(* values their authors stream through SolidSyslogSdElement and SdValue, then *)
(* the text.  A name is one character, a number one digit.                 *)
EXTENDS Formatter, Integers, SequencesExt

CONSTANTS
  Messages,       \* by the logger's structured data: the size of the buffer, the
                  \* header, the message's own structured data and, a bound, how
                  \* many bytes are streamed into the values of both
  Calls,          \* the calls a value's author makes
  Fixed,          \* the strings a configuration holds
  Texts,          \* the Msg of a message
  MAX_VALUE,      \* ORIGIN_SOFTWARE_MAX and its like
  MAX_FIELD,      \* the width of a header field
  MAX_MESSAGE_SIZE

VARIABLES
  line,       \* the formatter
  stage,      \* how far the line is
  element,    \* the SdElement and the Pending of its Value
  sds,        \* the structured data still to format
  script,     \* the params its Format has still to write
  before,     \* FormatStructuredData's lengthBefore
  given,      \* what was given: each element's params and the text
  budget      \* how many more bytes the authors stream into it

lineVars == <<line, stage, element, sds, script, before, given, budget>>

ClosedElement == [ValueOpen |-> FALSE, Suppressed |-> FALSE, Pending |-> <<>>]
NothingGiven == [elements |-> <<>>, text |-> <<>>]

InitLine ==
  /\ line = FormatterOf(0) /\ stage = "idle" /\ element = ClosedElement
  /\ sds = <<>> /\ script = <<>> /\ before = 0 /\ given = NothingGiven /\ budget = 0

-----------------------------------------------------------------------------
\* The callbacks' calls on their sinks: PrintUsAscii or Uint32 on a HeaderField,
\* String, BoundedString or Uint32 on an SdValue
String(source) == [op |-> "String", source |-> source, max |-> Unbounded]
Bounded(source, max) == [op |-> "Bounded", source |-> source, max |-> max]
Uint32 == [op |-> "Uint32", source |-> <<"d">>, max |-> Unbounded]

\* HeaderField_PrintUsAscii and HeaderField_Uint32: a number is written whole
HeaderFieldCalls(f, calls, width) ==
  FoldLeft(LAMBDA g, c :
             LET Remaining == width - (Len(g.bytes) - Len(f.bytes))
                 limit == IF c.max < Remaining THEN c.max ELSE Remaining
             IN  IF c.op = "String" THEN PrintUsAsciiString(g, c.source, limit)
                 ELSE IF Remaining > 0 THEN Digits(g, 1) ELSE g,
           f, calls)

NilIfNothing(f, g) == IF Len(g.bytes) = Len(f.bytes) THEN NilValue(g) ELSE g

FormatStringField(f, calls) == NilIfNothing(f, HeaderFieldCalls(f, calls, MAX_FIELD))
FormatMsgId(f, id) == NilIfNothing(f, PrintUsAsciiString(f, id, MAX_FIELD))

\* MakePrival; an invalid pair becomes SYSLOG's ERROR
MakePrival(facility, severity) ==
  IF facility <= 23 /\ severity <= 7 THEN facility * 8 + severity ELSE 5 * 8 + 3

CountDigits(n) == IF n < 10 THEN 1 ELSE IF n < 100 THEN 2 ELSE 3

FormatPrival(f, prival) ==
  AsciiCharacters(Digits(AsciiCharacters(f, <<"<">>), CountDigits(prival)), <<">">>)

\* TimestampFormatter_Format: year, month, day, time and offset of a timestamp
\* none of whose components is out of its range; "a" stands for T, Z, + : and .
FormatTimestamp(f, ts) ==
  IF ts.outOfRange # {} THEN NilValue(f)
  ELSE AsciiCharacters(f, <<"d", "-", "d", "-", "d", "a", "d", "a", "d", "a", "d", "a", "d">>
                            \o (IF ts.UtcOffset = 0 THEN <<"a">>
                                ELSE <<IF ts.UtcOffset > 0 THEN "a" ELSE "-", "d", "a", "d">>))

FormatHeader(f, h) ==
  LET sp(g) == AsciiCharacters(g, <<"sp">>)
      one == sp(Digits(FormatPrival(f, MakePrival(h.facility, h.severity)), 1))
      stamped == sp(FormatTimestamp(one, h.timestamp))
      host == sp(FormatStringField(stamped, h.hostname))
      app == sp(FormatStringField(host, h.appName))
      process == sp(FormatStringField(app, h.processId))
  IN  sp(FormatMsgId(process, h.msgId))

-----------------------------------------------------------------------------
(* What each Format writes: the element's name and its params in order, each  *)
(* with the calls it makes on the value, or its author makes in a callback.   *)
NULL == "NULL"
Param(calls) == [name |-> "a", calls |-> calls, author |-> FALSE]
Authored(name) == [name |-> name, calls |-> <<>>, author |-> TRUE]
Optional(params) == {<<>>} \cup {<<p>> : p \in params}
Concats(A, B) == {a \o b : a \in A, b \in B}
Element(enterprise, params) == [name |-> "a", enterprise |-> enterprise, params |-> params]

MetaSd_Format ==
  {Element(FALSE, p) : p \in
     Concats({<<Param(<<Uint32>>)>>}, Concats(Optional({Param(<<Uint32>>)}), Optional({Authored("a")})))}

OriginSd_Format ==
  LET Emit == Optional({Param(<<Bounded(s, MAX_VALUE)>>) : s \in Fixed})
      EmitIps == {<<>>, <<Authored("a")>>, <<Authored("a"), Authored("a")>>}
  IN  {Element(FALSE, p) : p \in Concats(Emit, Concats(Emit, EmitIps))}

TimeQualitySd_Format ==
  {Element(FALSE, <<Param(<<Uint32>>), Param(<<Uint32>>)>> \o accuracy) : accuracy \in Optional({Param(<<Uint32>>)})}

EventSd_Int32 == {<<Uint32>>, <<String(<<"-">>), Uint32>>}

EventSd_Format ==
  LET source == Optional({Param(<<String(<<"a">>)>>)})
      category == {<<Param(<<String(<<"a">>)>>)>>}
      detail == {<<Param(calls)>> : calls \in {<<String(<<"a">>)>>} \cup EventSd_Int32}
      native == Optional({Param(calls) : calls \in EventSd_Int32})
  IN  {Element(TRUE, p) : p \in Concats(source, Concats(category, Concats(detail, native)))}

\* An application's own: a name it forgot is NULL
CustomSd_Format ==
  {[name |-> n, enterprise |-> FALSE, params |-> <<Authored(p), Param(<<Uint32>>)>>] :
     n \in {"a", NULL}, p \in {"a", NULL}}

\* NullSd_Format writes nothing, and a NULL entry is passed over
FormatOf(sd) ==
  CASE sd = "MetaSd" -> MetaSd_Format
    [] sd = "OriginSd" -> OriginSd_Format
    [] sd = "TimeQualitySd" -> TimeQualitySd_Format
    [] sd = "EventSd" -> EventSd_Format
    [] sd = "CustomSd" -> CustomSd_Format
    [] OTHER -> {}

-----------------------------------------------------------------------------
\* Formatter_Create, and MessageFormatter_Format up to the structured data
BeginMessage(m, base) ==
  /\ stage = "idle"
  /\ line' = FormatHeader(FormatterOf(m.size), m.header)
  /\ stage' = "sd" /\ sds' = <<base, m.sd>> /\ before' = Len(line'.bytes)
  /\ budget' = m.budget
  /\ UNCHANGED <<element, script, given>>

PassOver ==
  /\ stage = "sd" /\ sds # <<>> /\ FormatOf(Head(sds)) = {}
  /\ sds' = Tail(sds)
  /\ UNCHANGED <<line, stage, element, script, before, given, budget>>

\* SdElement_Begin
Begin(e) ==
  /\ stage = "sd" /\ sds # <<>> /\ e \in FormatOf(Head(sds))
  /\ sds' = Tail(sds) /\ script' = e.params /\ stage' = "element"
  /\ element' = [ClosedElement EXCEPT !.Suppressed = e.name = NULL]
  /\ line' = IF e.name = NULL THEN line
             ELSE LET named == PrintUsAsciiString(AsciiCharacters(line, <<"[">>), <<e.name>>, MAX_FIELD)
                  IN  IF e.enterprise THEN Digits(AsciiCharacters(named, <<"@">>), 1) ELSE named
  /\ given' = IF e.name = NULL THEN given ELSE [given EXCEPT !.elements = Append(@, <<>>)]
  /\ UNCHANGED <<before, budget>>

\* SdElement_CloseOpenValue
CloseOpenValue(f) ==
  IF element.ValueOpen
  THEN AsciiCharacters(FlushPendingIfHeld([f |-> f, Pending |-> element.Pending]).f, <<"dq">>)
  ELSE f

ValueCall(v, c) ==
  CASE c.op = "String" -> ValueString(v, c.source)
    [] c.op = "Bounded" -> ValueBoundedString(v, c.source, c.max)
    [] c.op = "Uint32" -> ValueUint32(v)

ValueCalls(v, calls) == FoldLeft(ValueCall, v, calls)

\* A param was opened, or calls were made on its value
ReplaceLast(seq, x) == [seq EXCEPT ![Len(seq)] = x]
LastElement == given.elements[Len(given.elements)]
AddParam(calls) == [given EXCEPT !.elements = ReplaceLast(@, Append(LastElement, calls))]
AddCall(c) ==
  [given EXCEPT !.elements = ReplaceLast(@, ReplaceLast(LastElement, Append(LastElement[Len(LastElement)], c)))]

\* SdElement_Param, or its SkipParam, and the calls that Format itself makes
OpenParam ==
  /\ stage = "element" /\ script # <<>>
  /\ LET p == Head(script)
         closed == CloseOpenValue(line)
         open == ~element.Suppressed /\ p.name # NULL
         opened == AsciiCharacters(PrintUsAsciiString(AsciiCharacters(closed, <<"sp">>), <<p.name>>, MAX_FIELD),
                                   <<"=", "dq">>)
         v == ValueCalls(ValueOn(IF open THEN opened ELSE FormatterOf(0)), p.calls)
     IN  /\ line' = IF open THEN v.f ELSE closed
         /\ element' = [element EXCEPT !.ValueOpen = open, !.Pending = v.Pending]
         /\ given' = IF open THEN AddParam(p.calls) ELSE given
         /\ stage' = IF p.author THEN "author" ELSE "element"
  /\ script' = Tail(script)
  /\ UNCHANGED <<sds, before, budget>>

\* A call of the value's author
AuthorCalls(c) ==
  /\ stage = "author" /\ Len(c.source) <= budget
  /\ LET v == ValueCall([f |-> IF element.ValueOpen THEN line ELSE FormatterOf(0), Pending |-> element.Pending], c)
     IN  /\ line' = IF element.ValueOpen THEN v.f ELSE line
         /\ element' = [element EXCEPT !.Pending = v.Pending]
  /\ given' = IF element.ValueOpen THEN AddCall(c) ELSE given
  /\ budget' = budget - Len(c.source)
  /\ UNCHANGED <<stage, sds, script, before>>

AuthorReturns ==
  /\ stage = "author" /\ stage' = "element"
  /\ UNCHANGED <<line, element, sds, script, before, given, budget>>

\* SdElement_End
End ==
  /\ stage = "element" /\ script = <<>>
  /\ line' = IF element.Suppressed THEN CloseOpenValue(line) ELSE AsciiCharacters(CloseOpenValue(line), <<"]">>)
  /\ element' = [element EXCEPT !.ValueOpen = FALSE] /\ stage' = "sd"
  /\ UNCHANGED <<sds, script, before, given, budget>>

SkipLeadingBom(msg) == IF Len(msg) >= 3 /\ SubSeq(msg, 1, 3) = UTF8_BOM THEN SubSeq(msg, 4, Len(msg)) ELSE msg

\* The end of FormatStructuredData, FormatMsg and AsFormattedBuffer
FormatMsg(msg) ==
  /\ stage = "sd" /\ sds = <<>>
  /\ LET body == SkipLeadingBom(msg)
         f == IF Len(line.bytes) = before THEN NilValue(line) ELSE line
         g == IF body = <<>> THEN f
              ELSE BoundedString(WriteBytes(AsciiCharacters(f, <<"sp">>), UTF8_BOM), body, MAX_MESSAGE_SIZE)
     IN  line' = TrimTruncatedMultiByteTail(g) /\ given' = [given EXCEPT !.text = body]
  /\ stage' = "done"
  /\ UNCHANGED <<element, sds, script, before, budget>>

\* The buffer has the line: the next one starts from an empty formatter.
Handed ==
  /\ stage = "done" /\ stage' = "idle"
  /\ line' = FormatterOf(0) /\ element' = ClosedElement /\ before' = 0 /\ given' = NothingGiven /\ budget' = 0
  /\ UNCHANGED <<sds, script>>

LineNext ==
  \/ Handed \/ PassOver \/ OpenParam \/ AuthorReturns \/ End
  \/ stage = "sd" /\ sds # <<>> /\ \E e \in FormatOf(Head(sds)) : Begin(e)
  \/ \E c \in Calls : AuthorCalls(c)
  \/ \E t \in Texts : FormatMsg(t)

-----------------------------------------------------------------------------
(* A collector's reading of the line, by RFC 5424 and the table of RFC 3629.  *)
Tails == {"c8", "c9", "cA", "BB", "BF", "BD"}
Second ==
  [C2 |-> Tails, E0 |-> Tails \ {"c8", "c9"}, E1 |-> Tails, ED |-> {"c8", "c9"}, EF |-> Tails,
   F0 |-> Tails \ {"c8"}, F1 |-> Tails, F4 |-> {"c8"}]
UnitLength ==
  [b \in AsciiBytes |-> 1] @@ [C2 |-> 2, E0 |-> 3, E1 |-> 3, ED |-> 3, EF |-> 3, F0 |-> 4, F1 |-> 4, F4 |-> 4]

IsUnit(bytes) ==
  /\ bytes[1] \in DOMAIN UnitLength /\ Len(bytes) = UnitLength[bytes[1]]
  /\ Len(bytes) > 1 => bytes[2] \in Second[bytes[1]]
  /\ \A i \in 3..Len(bytes) : bytes[i] \in Tails

\* The code points of bytes, with ill in place of a byte that is part of none
Units(bytes, ill) ==
  LET from[i \in Nat] ==
        IF i > Len(bytes) THEN <<>>
        ELSE LET n == {k \in 1..4 : i + k - 1 <= Len(bytes) /\ IsUnit(SubSeq(bytes, i, i + k - 1))}
             IN  IF n = {} THEN <<ill>> \o from[i + 1]
                 ELSE LET k == CHOOSE k \in n : TRUE IN <<SubSeq(bytes, i, i + k - 1)>> \o from[i + k]
  IN  from[1]

\* How often an ill-formed stretch is replaced depends on how it was split
Collapsed(units) ==
  LET upTo[k \in Nat] ==
        IF k = 0 THEN <<>>
        ELSE IF k > 1 /\ units[k - 1] = REPLACEMENT_CHARACTER /\ units[k] = REPLACEMENT_CHARACTER THEN upTo[k - 1]
        ELSE Append(upTo[k - 1], units[k])
  IN  upTo[Len(units)]

WellFormed(bytes) == LET units == Units(bytes, <<>>) IN \A i \in DOMAIN units : units[i] # <<>>
Decoded(bytes) == Collapsed(Units(bytes, REPLACEMENT_CHARACTER))

\* The longest prefix of a string's code points within max, a replaced byte
\* counted as illCost; the code point that the bound cuts may be replaced too
PrefixReadings(source, max, illCost) ==
  LET units == Units(source, REPLACEMENT_CHARACTER)
      cost[k \in 0..Len(units)] ==
        IF k = 0 THEN 0
        ELSE cost[k - 1] + IF units[k] = REPLACEMENT_CHARACTER THEN illCost ELSE Len(units[k])
      longest == CHOOSE k \in 0..Len(units) : cost[k] <= max /\ (k < Len(units) => cost[k + 1] > max)
      prefix == SubSeq(units, 1, longest)
  IN  {prefix} \cup (IF longest < Len(units) THEN {Append(prefix, REPLACEMENT_CHARACTER)} ELSE {})

\* What a value's calls mean: Strings one after another are one string
Readings(calls) ==
  LET decoded(bytes) == Units(bytes, REPLACEMENT_CHARACTER)
      string[k \in Nat] == IF k = 0 \/ calls[k].op # "String" THEN <<>> ELSE string[k - 1] \o calls[k].source
      closed[k \in Nat] ==
        IF k = 0 THEN {<<>>}
        ELSE IF calls[k].op = "String" THEN closed[k - 1]
        ELSE {a \o decoded(string[k - 1]) \o b :
                a \in closed[k - 1], b \in PrefixReadings(calls[k].source, calls[k].max, 3)}
  IN  {a \o decoded(string[Len(calls)]) : a \in closed[Len(calls)]}

Begins(bytes, start) == Len(bytes) >= Len(start) /\ SubSeq(bytes, 1, Len(start)) = start
Rest(bytes, n) == SubSeq(bytes, n + 1, Len(bytes))

\* What is left when n fields, none of them empty, and the space after each are
\* read
AfterFields(bytes, n) ==
  LET after[k \in Nat] ==
        IF k = 0 THEN bytes
        ELSE LET rest == after[k - 1]
                 spaces == {i \in DOMAIN rest : rest[i] = "sp"}
             IN  IF spaces = {} \/ 1 \in spaces THEN <<>> ELSE Rest(rest, Min(spaces))
  IN  after[n]

\* A reading from a position on: what was read and the position after it, 0 if
\* it is not by the grammar
Unreadable == [value |-> <<>>, next |-> 0]
IsAt(bytes, i, chars) == i \in DOMAIN bytes /\ bytes[i] \in chars
Onto(x, reading) == [reading EXCEPT !.value = <<x>> \o @]

ReadValue(bytes, start) ==
  LET from[i \in Nat] ==
        CASE IsAt(bytes, i, {"dq"}) -> [value |-> <<>>, next |-> i + 1]
          [] IsAt(bytes, i, {"bs"}) /\ IsAt(bytes, i + 1, {"dq", "bs", "]"}) -> Onto(bytes[i + 1], from[i + 2])
          [] i \in DOMAIN bytes /\ ~IsAt(bytes, i, {"dq", "bs", "]"}) -> Onto(bytes[i], from[i + 1])
          [] OTHER -> Unreadable
  IN  from[start]

ReadParams(bytes, start) ==
  LET from[i \in Nat] ==
        IF IsAt(bytes, i, {"]"}) THEN [value |-> <<>>, next |-> i + 1]
        ELSE IF i > 0 /\ Begins(Rest(bytes, i - 1), <<"sp", "a", "=", "dq">>)
        THEN LET v == ReadValue(bytes, i + 4) IN Onto(v.value, from[v.next])
        ELSE Unreadable
  IN  from[start]

ReadElements(bytes, start) ==
  LET from[i \in Nat] ==
        IF ~IsAt(bytes, i, {"["}) THEN [value |-> <<>>, next |-> i]
        ELSE LET e == ReadParams(bytes, i + IF IsAt(bytes, i + 2, {"@"}) THEN 4 ELSE 2)
             IN  Onto(e.value, from[e.next])
  IN  from[start]

ReadSd(bytes) ==
  IF IsAt(bytes, 1, {"-"}) THEN [value |-> <<>>, next |-> 2]
  ELSE IF IsAt(bytes, 1, {"["}) THEN ReadElements(bytes, 1)
  ELSE Unreadable

ReadsBack ==
  LET afterHeader == AfterFields(line.bytes, 6)
      sd == ReadSd(afterHeader)
      rest == Rest(afterHeader, sd.next - 1)
      meant(readings) == {Collapsed(r) : r \in readings}
  IN  /\ sd.next # 0
      /\ \E n \in 1..3 : Begins(line.bytes, <<"<">> \o [i \in 1..n |-> "d"] \o <<">", "d", "sp">>)
      /\ Len(sd.value) = Len(given.elements)
      /\ \A i \in DOMAIN sd.value :
           /\ Len(sd.value[i]) = Len(given.elements[i])
           /\ \A j \in DOMAIN sd.value[i] : Decoded(sd.value[i][j]) \in meant(Readings(given.elements[i][j]))
      /\ IF given.text = <<>> THEN rest = <<>>
         ELSE /\ Begins(rest, <<"sp">> \o UTF8_BOM)
              /\ Decoded(Rest(rest, 4)) \in meant(PrefixReadings(given.text, MAX_MESSAGE_SIZE, 1))

\* Whatever the callbacks and the authors of structured data stream, and however
\* they split it, the line is well-formed UTF-8 up to the NULs that mask a cut
\* code point, and one that the buffer did not cut reads back, by the grammar, as
\* what was given: seven fields, each element and param in its place (those with
\* no name left out), and every value and the text with their code points whole,
\* a replacement character for what was ill-formed, and nothing beyond the bounds.
MessageReadsBack ==
  stage = "done" =>
    /\ WellFormed(SelectSeq(line.bytes, LAMBDA b : b # "NUL"))
    /\ Len(line.bytes) < line.size - 1 => ReadsBack
=============================================================================
