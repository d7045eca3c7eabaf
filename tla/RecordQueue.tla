---------------------------- MODULE RecordQueue ----------------------------
(***************************************************************************)
(* What a SolidSyslog buffer promises: records leave it in the order in    *)
(* which they were kept, each one unaltered and once; a record is dropped  *)
(* from the front only to make room for one that is then really kept.      *)
(* A refused record never enters the queue, so refusing is not a step.     *)
(***************************************************************************)
EXTENDS Sequences

CONSTANTS Records,   \* everything a caller may write
          Nothing    \* no record has been delivered yet

VARIABLES queue,     \* the records kept and not yet taken, oldest first
          evicting,  \* records have been dropped for one that is not in yet
          out        \* the record the last successful Read returned

vars == <<queue, evicting, out>>

Init == queue = <<>> /\ evicting = FALSE /\ out = Nothing

Put == \E r \in Records : /\ queue' = Append(queue, r)
                          /\ evicting' = FALSE
                          /\ UNCHANGED out

Evict == /\ queue # <<>>
         /\ queue' = Tail(queue)
         /\ evicting' = TRUE
         /\ UNCHANGED out

Take == /\ ~evicting
        /\ queue # <<>>
        /\ queue' = Tail(queue)
        /\ out' = Head(queue)
        /\ UNCHANGED evicting

Next == Put \/ Evict \/ Take

Spec == Init /\ [][Next]_vars
=============================================================================
