------------------------- MODULE MessageQueueBuffer -------------------------
(***************************************************************************)
(* Platform/Posix/Source/SolidSyslogPosixMessageQueueBuffer.c: a buffer    *)
(* over a POSIX message queue, with the slots its reports go to.           *)
(*                                                                         *)
(* The kernel keeps the queue, so only the number of records in it is      *)
(* modelled.  Writers send under the mutex; the reader receives outside    *)
(* it, and takes it afterwards to note that there is room.  A process that *)
(* inherited the descriptor may fill the room a writer has just made.      *)
(***************************************************************************)
EXTENDS PendingEvents

CONSTANTS
  Writers,       \* the tasks that log
  Reader,        \* the Service task
  maxMessages,   \* the records the queue takes
  MaxFaults      \* bound: the sends and receives the system fails

ASSUME QueueAssumption == maxMessages \in Nat \ {0} /\ MaxFaults \in Nat

RECORDS_EVICTED == [kind |-> "BUFFER_RECORDS_LOST", detail |-> "EVICTED"]
RECORD_REFUSED == [kind |-> "BUFFER_RECORDS_LOST", detail |-> "REFUSED"]
SEND_FAILED == [kind |-> "BUFFER_BACKEND_FAILED", detail |-> "SEND"]
RECEIVE_FAILED == [kind |-> "BUFFER_BACKEND_FAILED", detail |-> "RECEIVE"]
Runs == {RECORDS_EVICTED, RECORD_REFUSED, SEND_FAILED, RECEIVE_FAILED}

NoTask == "none"

ASSUME TasksAssumption == Writers \subseteq Tasks /\ Reader \in Tasks \ Writers /\ NoTask \notin Tasks
ASSUME RunsAssumption == Unset \notin Runs /\ \A e \in Runs : e.kind \in Kinds

VARIABLES
  held,          \* the records in the kernel's queue
  mutex,         \* the task that has the mutex
  Reported,      \* the runs marked as reported: the four ...Reported flags
  Full,
  write,         \* for each writer, its place in Write and what it has found
  read,          \* the reader's place in Read
  faults,
  crowded        \* ghost: the last record found the kernel's queue full, and none was received since

bufferVars == <<held, mutex, Reported, Full, write, read, faults, crowded>>
vars == <<eventVars, bufferVars>>

Idle == [at |-> "out", policy |-> "NEWEST", evicted |-> FALSE, report |-> <<>>]
Fault == faults < MaxFaults /\ faults' = faults + 1

Init ==
  /\ EventsInit
  /\ held = 0 /\ mutex = NoTask /\ Reported = {} /\ Full = FALSE
  /\ write = [w \in Writers |-> Idle] /\ read = "out" /\ faults = 0 /\ crowded = FALSE

-----------------------------------------------------------------------------
(* Write *)

\* The policy is asked before the lock.
AskPolicy(w, policy) ==
  /\ write[w].at = "out" /\ raising[w] = NotRaising
  /\ write' = [write EXCEPT ![w] = [Idle EXCEPT !.at = "lock", !.policy = policy]]
  /\ UNCHANGED <<eventVars, held, mutex, Reported, Full, read, faults, crowded>>

Lock(w) ==
  /\ write[w].at = "lock" /\ mutex = NoTask
  /\ mutex' = w
  /\ write' = [write EXCEPT ![w].at = "send"]
  /\ UNCHANGED <<eventVars, held, Reported, Full, read, faults, crowded>>

\* NoteEvicted: an eviction starts the run of evictions or goes on with it, and
\* a send that evicted nothing ends it.
NoteEvicted(w) == IF write[w].evicted THEN {RECORDS_EVICTED} ELSE {}

\* The end of SendNotingRuns and the unlock: the runs are marked, and the ones
\* this write starts are left to report.
NoteRuns(w, kept, met, full) ==
  LET marked == (kept \ {RECORDS_EVICTED}) \cup NoteEvicted(w) \cup met
      started(run) == IF run \in marked \ Reported THEN <<run>> ELSE <<>>
  IN  /\ Reported' = marked
      /\ Full' = full
      /\ write' = [write EXCEPT ![w] = [Idle EXCEPT !.at = "report",
                      !.report = started(RECORDS_EVICTED) \o started(RECORD_REFUSED) \o started(SEND_FAILED)]]
      /\ due' = due \cup (marked \ Reported)
      /\ mutex' = NoTask
      /\ UNCHANGED <<slotVars, raising, taking, raised, read>>

\* Mutant: Full stays set under a record that was kept without evicting.
SentStaysFull(w) ==
  /\ write[w].at = "send" /\ held < maxMessages
  /\ held' = held + 1
  /\ NoteRuns(w, Reported \ {RECORD_REFUSED, SEND_FAILED}, {}, Full \/ write[w].evicted)
  /\ crowded' = (crowded /\ write[w].evicted)
  /\ UNCHANGED faults

\* mq_send takes the record: the refusals and the failures end, and Full is
\* whether room had to be made.
Sent(w) ==
  /\ write[w].at = "send" /\ held < maxMessages
  /\ held' = held + 1
  /\ NoteRuns(w, Reported \ {RECORD_REFUSED, SEND_FAILED}, {}, write[w].evicted)
  /\ crowded' = (crowded /\ write[w].evicted)
  /\ UNCHANGED faults

\* EAGAIN under Oldest, and nothing evicted yet: EvictOne comes next.
FindsFull(w) ==
  /\ write[w].at = "send" /\ held = maxMessages
  /\ write[w].policy = "OLDEST" /\ ~write[w].evicted
  /\ write' = [write EXCEPT ![w].at = "evict"]
  /\ crowded' = TRUE
  /\ UNCHANGED <<eventVars, held, mutex, Reported, Full, read, faults>>

\* The record is refused: EAGAIN under another policy, EAGAIN again after an
\* eviction, or a queue that emptied before the eviction.
Refuse(w) ==
  /\ NoteRuns(w, Reported, {RECORD_REFUSED}, TRUE)
  /\ UNCHANGED held

Refused(w) ==
  /\ write[w].at = "send" /\ held = maxMessages
  /\ write[w].policy # "OLDEST" \/ write[w].evicted
  /\ Refuse(w)
  /\ crowded' = TRUE
  /\ UNCHANGED faults

EvictOne(w) ==
  /\ write[w].at = "evict" /\ held > 0
  /\ held' = held - 1
  /\ write' = [write EXCEPT ![w].at = "send", ![w].evicted = TRUE]
  /\ UNCHANGED <<eventVars, mutex, Reported, Full, read, faults, crowded>>

\* Nothing was evicted, for want of a record or by a failed receive: the send is
\* not tried again.
EvictNothing(w) ==
  /\ write[w].at = "evict"
  /\ IF held = 0 THEN UNCHANGED faults ELSE Fault
  /\ Refuse(w)
  /\ UNCHANGED crowded

\* mq_send fails by any other error.
SendFails(w) ==
  /\ write[w].at = "send"
  /\ Fault
  /\ NoteRuns(w, Reported, {SEND_FAILED}, Full \/ write[w].evicted)
  /\ UNCHANGED <<held, crowded>>

\* The reports, the evictions' first, and the return.
Report(w) ==
  /\ write[w].at = "report"
  /\ IF write[w].report # <<>>
     THEN /\ StartRaising(w, Head(write[w].report))
          /\ write' = [write EXCEPT ![w].report = Tail(@)]
          /\ UNCHANGED <<slotVars, taking, due>>
     ELSE /\ raising[w] = NotRaising
          /\ write' = [write EXCEPT ![w] = Idle]
          /\ UNCHANGED eventVars
  /\ UNCHANGED <<held, mutex, Reported, Full, read, faults, crowded>>

-----------------------------------------------------------------------------
(* Read, on the Service task between its walks over the events *)

ServiceIdle == read = "out" /\ taking = NotTaking /\ raising[Reader] = NotRaising

Received ==
  /\ ServiceIdle /\ held > 0
  /\ held' = held - 1
  /\ Reported' = Reported \ {RECEIVE_FAILED}
  /\ read' = "note"
  /\ crowded' = FALSE
  /\ UNCHANGED <<eventVars, mutex, Full, write, faults>>

\* Lock, clear Full and unlock.
NoteRecordTaken ==
  /\ read = "note" /\ mutex = NoTask
  /\ Full' = FALSE
  /\ read' = "out"
  /\ UNCHANGED <<eventVars, held, mutex, Reported, write, faults, crowded>>

NoteReceiveFailed ==
  /\ ServiceIdle /\ Fault
  /\ Reported' = Reported \cup {RECEIVE_FAILED}
  /\ due' = due \cup (Reported' \ Reported)
  /\ IF RECEIVE_FAILED \in Reported THEN UNCHANGED <<raising, raised>> ELSE StartRaising(Reader, RECEIVE_FAILED)
  /\ UNCHANGED <<slotVars, taking, held, mutex, Full, write, read, crowded>>

\* External: a process with the descriptor sends.
OtherProcessSends ==
  /\ held < maxMessages /\ Fault
  /\ held' = held + 1
  /\ UNCHANGED <<eventVars, mutex, Reported, Full, write, read, crowded>>

-----------------------------------------------------------------------------
ReportEvents ==
  /\ \/ \E k \in Kinds : ServiceIdle /\ StartTake(k)
     \/ Take
     \/ \E t \in Tasks : Record(t)
  /\ UNCHANGED bufferVars

\* SolidSyslog_Destroy and a new Create over the same buffer, while nobody logs.
Recreate ==
  /\ ServiceIdle /\ \A w \in Writers : write[w] = Idle
  /\ Clear
  /\ UNCHANGED bufferVars

Next ==
  \/ \E w \in Writers :
       \/ \E policy \in {"OLDEST", "NEWEST"} : AskPolicy(w, policy)
       \/ Lock(w) \/ Sent(w) \/ FindsFull(w) \/ Refused(w) \/ EvictOne(w) \/ EvictNothing(w)
       \/ SendFails(w) \/ Report(w)
  \/ Received \/ NoteRecordTaken \/ NoteReceiveFailed \/ OtherProcessSends
  \/ ReportEvents \/ Recreate

Spec == Init /\ [][Next]_vars

-----------------------------------------------------------------------------
(* Properties *)

\* Every run of losses that was marked as reported is really reported: its event
\* is with a task on its way out of Write, or in its slot, or in a Take's copy,
\* until a report has told of it.
EveryRunTold ==
  \A e \in due : \/ \E w \in Writers : \E i \in DOMAIN write[w].report : write[w].report[i] = e
                \/ IsRaising(e)
                \/ WillBeTold(e)

\* Full is not left over: while it is set, the last record written found the
\* queue full and none has been received since, but for one whose reader waits
\* for the mutex to say so.  A flag left over would make Service drop or halt for
\* a buffer that has been emptied.
FullIsCurrent == Full /\ read # "note" => crowded

\* The header's promise of IsFull, the other way round: it answers true when the
\* last record written found no room and nothing has been taken out since.  It is
\* asked where the answer is settled, with no write and no Read under way.
FullWhenNoRoom == crowded /\ mutex = NoTask /\ read = "out" => Full
=============================================================================
