----------------------------- MODULE Formatter -----------------------------
(* SolidSyslogFormatter: text into a buffer of bounded size.  A byte is       *)
(* abstracted to what the code tells apart: the characters of the framing,    *)
(* one other printable character "a", a digit "d", a control character "n",   *)
(* and the lead and continuation bytes of UTF-8 by the ranges of RFC 3629:    *)
(* "C0" (C0-C1), "C2" (C2-DF), "E0", "E1" (E1-EC, EE, EF), "ED", "F0", "F1"   *)
(* (F1-F3), "F4", "F5" (F5-F7), "F8" (F8-FF), "c8" (80-8F), "c9" (90-9F) and  *)
(* "cA" (A0-BF).  EF, BB, BF and BD, of which the byte order mark and the     *)
(* replacement character are made, are bytes of their own.                    *)
EXTENDS Naturals, Sequences

AsciiBytes == {"a", "d", "n", "sp", "?", "-", "<", ">", "[", "]", "=", "@", "dq", "bs"}
Printable == AsciiBytes \ {"n", "sp"}

IsContinuationByte(b) == b \in {"c8", "c9", "cA", "BB", "BF", "BD"}
IsTwoByteLead(b) == b \in {"C0", "C2"}
IsThreeByteLead(b) == b \in {"E0", "E1", "ED", "EF"}
IsFourByteLead(b) == b \in {"F0", "F1", "F4", "F5"}

REPLACEMENT_CHARACTER == <<"EF", "BF", "BD">>
UTF8_BOM == <<"EF", "BB", "BF">>
Unbounded == 99       \* SIZE_MAX

-----------------------------------------------------------------------------
FormatterOf(size) == [size |-> size, bytes |-> <<>>]

\* HasCapacity holds for as many more bytes: one is the terminator's
Capacity(f) == IF f.size = 0 THEN 0 ELSE f.size - 1 - Len(f.bytes)

WriteBytes(f, bytes) ==
  [f EXCEPT !.bytes = @ \o SubSeq(bytes, 1, IF Capacity(f) < Len(bytes) THEN Capacity(f) ELSE Len(bytes))]

\* AsciiCharacter, for each of chars
AsciiCharacters(f, chars) ==
  WriteBytes(f, [i \in DOMAIN chars |-> IF chars[i] \in Printable \cup {"sp"} THEN chars[i] ELSE "?"])

NilValue(f) == AsciiCharacters(f, <<"-">>)

PrintUsAsciiString(f, source, maxLength) ==
  WriteBytes(f, [i \in 1..(IF Len(source) < maxLength THEN Len(source) ELSE maxLength) |->
                   IF source[i] \in Printable THEN source[i] ELSE "?"])

\* Uint32 and the digits of a timestamp: as many as there are
Digits(f, count) == WriteBytes(f, [i \in 1..count |-> "d"])

IsOverlongOrOutOfRange(lead, continuation1) ==
  \/ lead = "E0" /\ continuation1 \in {"c8", "c9"}
  \/ lead = "ED" /\ continuation1 \notin {"c8", "c9"}
  \/ lead = "F0" /\ continuation1 = "c8"
  \/ lead = "F4" /\ continuation1 # "c8"
  \/ lead \in {"C0", "F5"}

\* Utf8CodepointLength of the bytes from i on, 0 if they are ill-formed
Utf8CodepointLength(source, i) ==
  LET continues(n) ==
        /\ i + n - 1 <= Len(source) /\ \A j \in i + 1..i + n - 1 : IsContinuationByte(source[j])
        /\ ~IsOverlongOrOutOfRange(source[i], source[i + 1])
  IN  IF source[i] \in AsciiBytes THEN 1
      ELSE IF IsTwoByteLead(source[i]) /\ continues(2) THEN 2
      ELSE IF IsThreeByteLead(source[i]) /\ continues(3) THEN 3
      ELSE IF IsFourByteLead(source[i]) /\ continues(4) THEN 4
      ELSE 0

\* The loop, from its i-th byte on: what it writes, whole code points of source
\* within maxLength of its bytes
BoundedString(f, source, maxLength) ==
  LET from[i \in Nat] ==
        IF i > maxLength \/ i > Len(source) THEN <<>>
        ELSE LET n == Utf8CodepointLength(source, i)
             IN  IF n > 0 /\ n <= maxLength - (i - 1) THEN SubSeq(source, i, i + n - 1) \o from[i + n]
                 ELSE REPLACEMENT_CHARACTER \o from[i + 1]
  IN  WriteBytes(f, from[1])

NeedsEscape(b) == b \in {"dq", "bs", "]"}

\* The same with escapes, and with a bound on what the reader decodes
EscapedBytes(source, maxDecodedLength) ==
  LET from[i \in Nat, remaining \in Nat] ==
        IF i > Len(source) THEN <<>>
        ELSE LET n == Utf8CodepointLength(source, i)
                 fits(k) == k > 0 /\ k <= remaining
             IN  IF NeedsEscape(source[i])
                 THEN IF fits(1) THEN <<"bs", source[i]>> \o from[i + 1, remaining - 1] ELSE <<>>
                 ELSE IF fits(n) THEN SubSeq(source, i, i + n - 1) \o from[i + n, remaining - n]
                 ELSE IF fits(3) THEN REPLACEMENT_CHARACTER \o from[i + 1, remaining - 3]
                 ELSE <<>>
  IN  from[1, maxDecodedLength]

EscapedString(f, source, maxDecodedLength) == WriteBytes(f, EscapedBytes(source, maxDecodedLength))

\* AsFormattedBuffer: a code point the end of the buffer cut is masked with NULs.
TrimTruncatedMultiByteTail(f) ==
  LET p == Len(f.bytes)
      b(k) == f.bytes[p + 1 - k]
      masked ==
        IF p >= 1 /\ (IsTwoByteLead(b(1)) \/ IsThreeByteLead(b(1)) \/ IsFourByteLead(b(1))) THEN 1
        ELSE IF p >= 2 /\ (IsThreeByteLead(b(2)) \/ IsFourByteLead(b(2))) THEN 2
        ELSE IF p >= 3 /\ IsFourByteLead(b(3)) THEN 3
        ELSE 0
  IN  [f EXCEPT !.bytes = [i \in 1..p |-> IF i > p - masked THEN "NUL" ELSE @[i]]]

-----------------------------------------------------------------------------
(* SolidSyslogSdValue: a value streamed in pieces.  v is the formatter and    *)
(* Pending, the start of a code point whose rest has not come yet.            *)
ValueOn(f) == [f |-> f, Pending |-> <<>>]

ExpectedLength(lead) ==
  IF IsTwoByteLead(lead) THEN 2 ELSE IF IsThreeByteLead(lead) THEN 3 ELSE IF IsFourByteLead(lead) THEN 4 ELSE 1

EmitUnit(v, unit) == [v EXCEPT !.f = EscapedString(@, unit, Unbounded)]

FlushPendingIfHeld(v) ==
  IF v.Pending = <<>> THEN v ELSE [EmitUnit(v, <<"c8">>) EXCEPT !.Pending = <<>>]

\* How many of the bytes from i on continue a code point of which have are there
Continues(source, i, have, expected) ==
  CHOOSE n \in 0..Len(source) :
    /\ have + n <= expected /\ i + n - 1 <= Len(source)
    /\ \A j \in i..i + n - 1 : IsContinuationByte(source[j])
    /\ have + n = expected \/ i + n > Len(source) \/ ~IsContinuationByte(source[i + n])

\* Nothing is pending where a byte is left to write.
WriteBody(v, source, start) ==
  LET from[i \in Nat] ==
        IF i > Len(source) THEN [bytes |-> <<>>, Pending |-> <<>>]
        ELSE LET expected == ExpectedLength(source[i])
                 avail == 1 + Continues(source, i + 1, 1, expected)
                 unit == SubSeq(source, i, i + avail - 1)
             IN  IF avail < expected /\ i + avail > Len(source) THEN [bytes |-> <<>>, Pending |-> unit]
                 ELSE [from[i + avail] EXCEPT !.bytes = EscapedBytes(unit, Unbounded) \o @]
  IN  IF start > Len(source) THEN v
      ELSE [f |-> WriteBytes(v.f, from[start].bytes), Pending |-> from[start].Pending]

\* A mutant: a code point that does not end with the piece is given up.
ValueStringUnjoined(v, source) == WriteBody(FlushPendingIfHeld(v), source, 1)

\* String: DrainPending and WriteBody
ValueString(v, source) ==
  IF v.Pending = <<>> THEN WriteBody(v, source, 1)
  ELSE LET expected == ExpectedLength(v.Pending[1])
           consumed == Continues(source, 1, Len(v.Pending), expected)
           pending == v.Pending \o SubSeq(source, 1, consumed)
           drained ==
             IF Len(pending) = expected THEN [EmitUnit(v, pending) EXCEPT !.Pending = <<>>]
             ELSE IF consumed < Len(source) THEN FlushPendingIfHeld(v)
             ELSE [v EXCEPT !.Pending = pending]
       IN  WriteBody(drained, source, consumed + 1)

ValueBoundedString(v, source, max) ==
  LET w == FlushPendingIfHeld(v) IN [w EXCEPT !.f = EscapedString(@, source, max)]

ValueUint32(v) == LET w == FlushPendingIfHeld(v) IN [w EXCEPT !.f = Digits(@, 1)]
=============================================================================
