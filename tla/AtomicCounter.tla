--------------------------- MODULE AtomicCounter ---------------------------
(* The counters behind the sequenceId of the meta element: Increment of the   *)
(* three platforms, called by several tasks at once.                          *)
EXTENDS Naturals, Sequences

CONSTANTS
  Callers,
  SEQUENCE_ID_MAX    \* SOLIDSYSLOG_SEQUENCE_ID_MAX, cut down

ASSUME SequenceIdAssumption == SEQUENCE_ID_MAX \in Nat \ {0}

VARIABLES
  value,      \* the counter's Value
  current,    \* the current of each caller inside Increment, <<>> outside it
  issued      \* the last SEQUENCE_ID_MAX ids handed out, oldest first

counterVars == <<value, current, issued>>

InitCounter == value = 0 /\ current = [c \in Callers |-> <<>>] /\ issued = <<>>

NextId(id) == IF id >= SEQUENCE_ID_MAX THEN 1 ELSE id + 1

Issue(id) ==
  issued' = Append(IF Len(issued) = SEQUENCE_ID_MAX THEN Tail(issued) ELSE issued, id)

\* The load before the compare-and-exchange loop of the C11 and the Windows
\* counter.
LoadValue(c) ==
  /\ current[c] = <<>>
  /\ current' = [current EXCEPT ![c] = <<value>>]
  /\ UNCHANGED <<value, issued>>

\* A mutant: the value is stored whatever it was meanwhile.
ExchangeWithoutCompare(c) ==
  /\ current[c] # <<>>
  /\ value' = NextId(current[c][1]) /\ Issue(value')
  /\ current' = [current EXCEPT ![c] = <<>>]

\* One turn of the loop: next is stored if the value still is current, which is
\* read anew if not.
CompareExchange(c) ==
  /\ current[c] # <<>>
  /\ \/ /\ current[c][1] = value
        /\ value' = NextId(current[c][1]) /\ Issue(value')
        /\ current' = [current EXCEPT ![c] = <<>>]
     \/ /\ current[c][1] # value
        /\ current' = [current EXCEPT ![c] = <<value>>]
        /\ UNCHANGED <<value, issued>>

\* The VxWorks counter: the whole of it with the interrupts locked out.
IncrementLocked(c) ==
  /\ value' = NextId(value) /\ Issue(value')
  /\ UNCHANGED current

\* Concurrent callers each get a distinct value across a whole cycle, and none
\* gets the 0 that RFC 5424 forbids, whichever values a caller that is slow in
\* the loop finds, the one it read a full cycle before included
\* (StdAtomicCounter_Increment and its siblings).
IdsDistinct ==
  /\ \A i \in 1..Len(issued) : issued[i] \in 1..SEQUENCE_ID_MAX
  /\ \A i, j \in 1..Len(issued) : issued[i] = issued[j] => i = j
=============================================================================
