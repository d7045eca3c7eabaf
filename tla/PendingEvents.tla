--------------------------- MODULE PendingEvents ---------------------------
(***************************************************************************)
(* Core/Source/SolidSyslogPendingEvents.c: one slot for every reported     *)
(* kind of event, written by whichever task meets the fault and taken by   *)
(* the Service task, with no lock between them.                            *)
(*                                                                         *)
(* Every volatile access is a step of its own, in the order of the code.   *)
(* An event is a record [kind, detail]: the events of a kind come from one *)
(* source and differ in their detail only.  Unset is what a field holds    *)
(* before its first event.                                                 *)
(***************************************************************************)
EXTENDS Integers, Sequences

CONSTANTS
  Tasks,      \* the tasks that raise events
  Kinds,      \* the reported kinds
  Unset       \* the initial value of a field, and the event of an idle task

ASSUME UnsetAssumption == Unset \notin Kinds

\* The stores of Record and the loads of Take, in order.
StoreOrder == <<"SeverityCode", "Source", "Detail", "NativeCode", "HasNativeCode">>
LoadOrder == <<"SeverityCode", "HasNativeCode", "Source", "Detail", "NativeCode">>
Fields == {StoreOrder[i] : i \in DOMAIN StoreOrder}
Blank == [f \in Fields |-> Unset]
Value(e, f) == IF f = "Detail" THEN e.detail ELSE e.kind

VARIABLES
  Pending,    \* for each kind, whether an event waits
  fields,     \* for each kind, the fields of its slot
  raising,    \* for each task, the event in hand and the store it is at
  taking,     \* the Service task's Take: the kind, the load it is at and the copy
  raised,     \* ghost: for each kind, the events raised since the last Clear
  due         \* ghost: the events no report has told of since they were due

slotVars == <<Pending, fields>>
eventVars == <<slotVars, raising, taking, raised, due>>

NotRaising == [event |-> Unset, at |-> 0]
NotTaking == [kind |-> Unset, at |-> 0, copy |-> Blank, tells |-> {}]

EventsInit ==
  /\ Pending = [k \in Kinds |-> FALSE]
  /\ fields = [k \in Kinds |-> Blank]
  /\ raising = [t \in Tasks |-> NotRaising]
  /\ taking = NotTaking
  /\ raised = [k \in Kinds |-> {}]
  /\ due = {}

\* SolidSyslog_Error: the handler has run, and Record starts.
StartRaising(t, event) ==
  /\ raising[t] = NotRaising
  /\ raising' = [raising EXCEPT ![t] = [event |-> event, at |-> 1]]
  /\ raised' = [raised EXCEPT ![event.kind] = @ \cup {event}]

IsRaising(e) == \E t \in Tasks : raising[t].event = e

\* Mutant: Pending is stored first.
RecordPendingFirst(t) ==
  LET e == raising[t].event  at == raising[t].at
  IN  /\ raising[t] # NotRaising
      /\ IF at > 1
         THEN fields' = [fields EXCEPT ![e.kind][StoreOrder[at - 1]] = Value(e, StoreOrder[at - 1])] /\ UNCHANGED Pending
         ELSE Pending' = [Pending EXCEPT ![e.kind] = TRUE] /\ UNCHANGED fields
      /\ raising' = [raising EXCEPT ![t] = IF at <= Len(StoreOrder) THEN [@ EXCEPT !.at = at + 1] ELSE NotRaising]
      /\ UNCHANGED <<taking, raised, due>>

\* One store of Record: the fields, and Pending last.
Record(t) ==
  LET e == raising[t].event  at == raising[t].at
  IN  /\ raising[t] # NotRaising
      /\ IF at <= Len(StoreOrder)
         THEN /\ fields' = [fields EXCEPT ![e.kind][StoreOrder[at]] = Value(e, StoreOrder[at])]
              /\ raising' = [raising EXCEPT ![t].at = at + 1]
              /\ UNCHANGED Pending
         ELSE /\ Pending' = [Pending EXCEPT ![e.kind] = TRUE]
              /\ raising' = [raising EXCEPT ![t] = NotRaising]
              /\ UNCHANGED fields
      /\ UNCHANGED <<taking, raised, due>>

\* HoldPendingReport calls Take where IsPending was true.
StartTake(k) ==
  /\ taking = NotTaking
  /\ Pending[k]
  /\ taking' = [NotTaking EXCEPT !.kind = k]
  /\ UNCHANGED <<slotVars, raising, raised, due>>

\* One load of a field.  The report made of the copy tells of the events that
\* were complete at the first load.
CopyField(n) ==
  LET k == taking.kind  f == LoadOrder[n]
  IN  taking' = [taking EXCEPT !.at = @ + 1, !.copy[f] = fields[k][f],
                               !.tells = IF n = 1 THEN {e \in due : e.kind = k /\ ~IsRaising(e)} ELSE @]

\* Mutant: Pending is cleared only once the fields have been copied.
TakeClearingLast ==
  /\ taking # NotTaking
  /\ IF taking.at < Len(LoadOrder)
     THEN CopyField(taking.at + 1) /\ UNCHANGED <<Pending, due>>
     ELSE /\ Pending' = [Pending EXCEPT ![taking.kind] = FALSE]
          /\ taking' = NotTaking
          /\ due' = due \ taking.tells
  /\ UNCHANGED <<fields, raising, raised>>

\* Take clears Pending, and then copies the fields one by one.
Take ==
  /\ taking # NotTaking
  /\ \/ /\ taking.at = 0
        /\ Pending' = [Pending EXCEPT ![taking.kind] = FALSE]
        /\ taking' = [taking EXCEPT !.at = 1]
        /\ UNCHANGED due
     \/ /\ taking.at \in DOMAIN LoadOrder
        /\ CopyField(taking.at)
        /\ UNCHANGED <<Pending, due>>
     \/ /\ taking.at > Len(LoadOrder)
        /\ taking' = NotTaking
        /\ due' = due \ taking.tells
        /\ UNCHANGED Pending
  /\ UNCHANGED <<fields, raising, raised>>

\* SolidSyslog_Destroy clears the slots, when no task logs any more.  The fields
\* but for the severity keep what they had.
Clear ==
  /\ taking = NotTaking /\ \A t \in Tasks : raising[t] = NotRaising
  /\ Pending' = [k \in Kinds |-> FALSE]
  /\ fields' = [k \in Kinds |-> [fields[k] EXCEPT !.SeverityCode = Unset]]
  /\ raised' = [k \in Kinds |-> {}]
  /\ due' = {}
  /\ UNCHANGED <<raising, taking>>

-----------------------------------------------------------------------------
\* The event will be reported: its slot is pending, or a Take that cleared the
\* slot has yet to copy it, or will tell of it.
WillBeTold(e) ==
  \/ Pending[e.kind]
  \/ taking.kind = e.kind /\ (taking.at <= 1 \/ e \in taking.tells)

\* The copy a Take makes is of events of the kind that were raised since the
\* last Clear, field by field: a report may mix two of them, and never says what
\* no task has raised.
ReportsWhatWasRaised ==
  taking.at > Len(LoadOrder) => 
    \A f \in Fields : \E e \in raised[taking.kind] : taking.copy[f] = Value(e, f)
=============================================================================
