------------------------------ MODULE Service ------------------------------
(***************************************************************************)
(* Core/Source/SolidSyslog.c: Log and Service, with the buffer, store,     *)
(* sender and pending events behind the interfaces they call.              *)
(*                                                                         *)
(* A pass of Service takes one step for each call it makes, and Log runs   *)
(* on another task between any two of them.  The integrator's loop is the  *)
(* one the header describes: it waits for a Log on IDLE, and otherwise     *)
(* calls Service again.                                                    *)
(*                                                                         *)
(* The answers of the integrator's functions and of the sender and the     *)
(* store are arbitrary until the surroundings are calm, from when on the   *)
(* sender takes what it is given, the policy does not halt, reporting is   *)
(* on and the store opens its records.                                     *)
(***************************************************************************)
EXTENDS Integers, Sequences, FiniteSets

CONSTANTS
  MaxLogged,        \* bound: the records logged
  BufferCapacity,   \* the records the buffer takes
  StoreCapacity,    \* the records the store takes
  Policies          \* the answers of the discard policy

ASSUME ServiceBoundsAssumption ==
  MaxLogged \in Nat /\ BufferCapacity \in Nat \ {0} /\ StoreCapacity \in Nat \ {0}

\* The reported kinds, in the order of PendingEvents_Kinds.  The store's own kinds
\* (RECORDS_LOST, WRITE_FAILED, FROZEN) stand next to one another and are one here.
BUFFER_RECORDS_LOST == 1
STORE_TROUBLE == 2
LOGGER_HALTED == 3
Kinds == 1..3

Ids == 1..MaxLogged
NoItem == [report |-> FALSE, id |-> 0]
RecordOf(id) == [report |-> FALSE, id |-> id]
ReportOf(k) == [report |-> TRUE, id |-> k]

VARIABLES
  HoldsRecord, HeldRecordIsReport, Record,   \* the logger's slot
  HeldRecordLossReported, ReportTurnedDown, Halted,
  pc, phase, index, drained, storeBlocked,   \* the pass in progress
  status, wake,                              \* what the integrator's loop knows
  buffer, bufferFull, logging,               \* the buffer, and the Log in progress
  store, transient,                          \* the store; transient once it keeps nothing
  storeReported,                             \* the runs of losses the store has reported
  pending,                                   \* the kinds with an event waiting
  calm,
  fate, due, lastSent                        \* ghosts

slot == <<HoldsRecord, HeldRecordIsReport, Record>>
latches == <<HeldRecordLossReported, ReportTurnedDown>>
pass == <<phase, index, drained, storeBlocked>>
loop == <<status, wake>>
buffers == <<buffer, bufferFull, logging>>
stores == <<store, transient, storeReported>>
vars == <<slot, latches, Halted, pc, pass, loop, buffers, stores, pending, calm, fate, due, lastSent>>

-----------------------------------------------------------------------------
(* The surroundings. *)

Asked(policy) == policy \in (IF calm THEN Policies \ {"HALT"} ELSE Policies)
Accepts(ok) == calm => ok

\* SolidSyslog_Error raises an event: it waits until it is reported.
Raise(ks) == pending' = pending \cup ks /\ due' = due \cup ks

Settle == ~calm /\ calm' = TRUE
          /\ UNCHANGED <<slot, latches, Halted, pc, pass, loop, buffers, stores, pending, fate, due, lastSent>>

\* Records lost on the way.  A record is live from the Log that buffered it until
\* it is sent, lost, or left on the media of a store that froze.
Lost(ids) == fate' = [id \in Ids |-> IF id \in ids /\ fate[id] = "live" THEN "settled" ELSE fate[id]]
RecordIds(items) == {items[i].id : i \in {j \in DOMAIN items : ~items[j].report}}

-----------------------------------------------------------------------------
(* Log *)

\* FormatIntoScratch: Buffer_Write takes the record, or loses one under its
\* policy and is full.  The buffer reports the loss after it has unlocked.
Log(id, policy) ==
  /\ logging = 0 /\ Asked(policy)
  /\ fate[id] = "new" /\ \A i \in 1..id - 1 : fate[i] # "new"
  /\ \/ /\ Len(buffer) < BufferCapacity
        /\ buffer' = Append(buffer, id)
        /\ bufferFull' = FALSE
        /\ logging' = 1
        /\ fate' = [fate EXCEPT ![id] = "live"]
     \/ /\ Len(buffer) = BufferCapacity /\ policy = "OLDEST"
        /\ buffer' = Append(Tail(buffer), id)
        /\ bufferFull' = TRUE
        /\ logging' = 2
        /\ fate' = [fate EXCEPT ![id] = "live", ![Head(buffer)] = "settled"]
     \/ /\ Len(buffer) = BufferCapacity /\ policy # "OLDEST"
        /\ bufferFull' = TRUE
        /\ logging' = 2
        /\ fate' = [fate EXCEPT ![id] = "settled"]
        /\ UNCHANGED buffer
  /\ UNCHANGED <<slot, latches, Halted, pc, pass, loop, stores, pending, calm, due, lastSent>>

\* The buffer's report, where the write started a run of losses, and the return
\* that wakes the loop.
LogReturns(reports) ==
  /\ logging # 0
  /\ reports => logging = 2
  /\ IF reports THEN Raise({BUFFER_RECORDS_LOST}) ELSE UNCHANGED <<pending, due>>
  /\ logging' = 0
  /\ wake' = TRUE
  /\ UNCHANGED <<slot, latches, Halted, pc, pass, status, buffer, bufferFull, stores, calm, fate, lastSent>>

-----------------------------------------------------------------------------
(* Service *)

\* ResumeIfPolicyChanged, and ProcessMessages where the logger is not halted.
BeginPass(policy) ==
  LET halted == Halted /\ policy = "HALT"
  IN  /\ pc = "out" /\ (status = "IDLE" => wake)
      /\ Halted => Asked(policy)
      /\ ~Halted => policy = "OLDEST"                        \* not asked
      /\ Halted' = halted
      /\ wake' = FALSE
      /\ IF halted
         THEN status' = "HALTED" /\ UNCHANGED <<pc, latches>>
         ELSE /\ pc' = "policy"
              /\ ReportTurnedDown' = FALSE
              /\ UNCHANGED <<status, HeldRecordLossReported>>
      /\ UNCHANGED <<slot, pass, buffers, stores, pending, calm, fate, due, lastSent>>

\* ApplyPolicyToHeldRecordIfBufferFull: DropHeldRecord, Halt, or neither.
ApplyPolicy(policy) ==
  LET applies == HoldsRecord /\ bufferFull
      drops == applies /\ policy = "OLDEST" /\ ~HeldRecordIsReport
      halts == applies /\ policy = "HALT"
  IN  /\ pc = "policy" /\ Asked(policy)
      /\ HoldsRecord' = (HoldsRecord /\ ~drops) /\ Record' = IF drops THEN NoItem ELSE Record
      /\ HeldRecordLossReported' = (HeldRecordLossReported \/ drops)
      /\ Halted' = halts
      /\ Raise((IF drops /\ ~HeldRecordLossReported THEN {BUFFER_RECORDS_LOST} ELSE {})
                 \cup (IF halts THEN {LOGGER_HALTED} ELSE {}))
      /\ Lost(IF drops THEN {Record.id} ELSE {})
      /\ pc' = IF halts THEN "take" ELSE "deal"
      /\ UNCHANGED <<HeldRecordIsReport, ReportTurnedDown, pass, loop, buffers, stores, calm, lastSent>>

\* DealWithHeldRecord is done, and the slot holds its record or does not: the
\* walk over the events or the buffer goes on, or the draining ends.
Dealt(holds) ==
  /\ HoldsRecord' = holds /\ Record' = IF holds THEN Record ELSE NoItem
  /\ HeldRecordLossReported' = (HeldRecordLossReported /\ (holds \/ HeldRecordIsReport))
  /\ pc' = IF holds \/ Halted' THEN "take" ELSE IF phase = "drain" THEN "hold" ELSE "walk"
  /\ UNCHANGED <<HeldRecordIsReport, ReportTurnedDown, pass, loop, buffers, calm>>

\* What the ghosts make of an item the store kept or the sender took.
Delivered(item) ==
  due' = (IF item.report THEN due \ {item.id} ELSE due) \cup pending'

\* The store reports the first of a run of losses; a record kept without a loss
\* ends the run.
RunStarted(run) == IF run \in storeReported THEN {} ELSE {STORE_TROUBLE}

NothingHeld ==
  /\ pc = "deal" /\ ~HoldsRecord
  /\ pc' = IF phase = "drain" THEN "hold" ELSE "walk"
  /\ UNCHANGED <<slot, latches, Halted, pass, loop, buffers, stores, pending, calm, fate, due, lastSent>>

\* Store_Write keeps the record, evicting under Oldest where it is full.
StoreKeeps(policy) ==
  LET full == Len(store) = StoreCapacity
  IN  /\ pc = "deal" /\ HoldsRecord /\ ~transient
      /\ full => Asked(policy) /\ policy = "OLDEST"
      /\ store' = Append(IF full THEN Tail(store) ELSE store, Record)
      /\ Lost(IF full THEN RecordIds(<<Head(store)>>) ELSE {})
      /\ pending' = pending \cup (IF full THEN RunStarted("EVICTED") ELSE {})
      /\ storeReported' = (IF full THEN {"EVICTED"} ELSE {})
      /\ Delivered(Record)
      /\ UNCHANGED <<Halted, transient, lastSent>>
      /\ Dealt(FALSE)

\* Store_Write refuses the record under its policy...
StoreRefuses(policy) ==
  /\ pc = "deal" /\ HoldsRecord /\ ~transient
  /\ Len(store) = StoreCapacity /\ Asked(policy) /\ policy # "OLDEST"
  /\ Raise(RunStarted("REFUSED"))
  /\ storeReported' = storeReported \cup {"REFUSED"}
  /\ pc' = "refused"
  /\ UNCHANGED <<slot, latches, Halted, pass, loop, buffers, store, transient, calm, fate, lastSent>>

\* ...and HaltIfPolicyHalts.  A record is gone; a report goes to the sender,
\* unless the logger has halted.
Refused(policy) ==
  /\ pc = "refused" /\ Asked(policy)
  /\ Halted' = (policy = "HALT")
  /\ Raise(IF policy = "HALT" THEN {LOGGER_HALTED} ELSE {})
  /\ IF HeldRecordIsReport
     THEN IF Halted' THEN Dealt(TRUE) ELSE pc' = "sendHeld" /\ UNCHANGED <<slot, latches, pass, loop, buffers, calm>>
     ELSE Dealt(FALSE)
  /\ Lost(IF HeldRecordIsReport THEN {} ELSE {Record.id})
  /\ UNCHANGED <<stores, lastSent>>

\* Mutant: a record that could not be sealed goes to the sender, like a report.
StoreLosesEscapes ==
  /\ pc = "deal" /\ HoldsRecord /\ ~transient
  /\ Raise(RunStarted("LOST"))
  /\ storeReported' = storeReported \cup {"LOST"}
  /\ pc' = "sendHeld"
  /\ UNCHANGED <<slot, latches, Halted, pass, loop, buffers, store, transient, calm, fate, lastSent>>

\* Store_Write loses the record: it could not be sealed.
StoreLoses ==
  /\ pc = "deal" /\ HoldsRecord /\ ~transient
  /\ Raise(RunStarted("LOST"))
  /\ storeReported' = storeReported \cup {"LOST"}
  /\ UNCHANGED Halted
  /\ IF HeldRecordIsReport
     THEN pc' = "sendHeld" /\ UNCHANGED <<slot, latches, pass, loop, buffers, calm>>
     ELSE Dealt(FALSE)
  /\ Lost(IF HeldRecordIsReport THEN {} ELSE {Record.id})
  /\ UNCHANGED <<store, transient, lastSent>>

\* BlockStore_Freeze: what the store held stays on its media.
StoreFreezes ==
  /\ transient' = TRUE /\ store' = <<>> /\ UNCHANGED storeReported
  /\ fate' = [id \in Ids |-> IF id \in RecordIds(store) THEN "settled" ELSE fate[id]]
  /\ Raise(IF transient THEN {} ELSE {STORE_TROUBLE})

\* A store that keeps nothing, or that freezes now, leaves the record to the
\* sender.
StoreLeaves ==
  /\ pc = "deal" /\ HoldsRecord
  /\ pc' = "sendHeld"
  /\ StoreFreezes
  /\ UNCHANGED <<slot, latches, Halted, pass, loop, buffers, calm, lastSent>>

NoteSent(item) ==
  /\ fate' = IF item.report THEN fate ELSE [fate EXCEPT ![item.id] = "settled"]
  /\ lastSent' = IF item.report THEN lastSent ELSE item.id

\* Mutant: a record the sender refuses is not held for the next pass.
SendHeldOnce(ok) ==
  /\ pc = "sendHeld" /\ Accepts(ok)
  /\ UNCHANGED <<Halted, pending, stores>>
  /\ Dealt(FALSE)
  /\ IF ok THEN NoteSent(Record) /\ Delivered(Record) ELSE UNCHANGED <<fate, lastSent, due>>

\* StoreOrSenderTakesHeldRecord: Sender_Send of the held record.
SendHeld(ok) ==
  /\ pc = "sendHeld" /\ Accepts(ok)
  /\ UNCHANGED <<Halted, pending, stores>>
  /\ Dealt(~ok)
  /\ IF ok THEN NoteSent(Record) /\ Delivered(Record) ELSE UNCHANGED <<fate, lastSent, due>>

\* One turn of ReportPendingEvents: ReportIfPending and HoldPendingReport.
ReportIfPending(on) ==
  /\ pc = "walk" /\ Accepts(on)
  /\ \/ /\ index \notin Kinds
        /\ phase' = "drain" /\ pc' = "hold"
        /\ UNCHANGED <<slot, index, ReportTurnedDown, pending>>
     \/ /\ index \in Kinds \ pending
        /\ index' = index + 1
        /\ UNCHANGED <<slot, phase, pc, ReportTurnedDown, pending>>
     \/ /\ index \in Kinds \cap pending /\ ~on
        /\ ReportTurnedDown' = TRUE
        /\ phase' = "drain" /\ pc' = "hold"
        /\ UNCHANGED <<slot, index, pending>>
     \/ /\ index \in Kinds \cap pending /\ on
        /\ ReportTurnedDown' = FALSE
        /\ pending' = pending \ {index}
        /\ HoldsRecord' = TRUE /\ HeldRecordIsReport' = TRUE /\ Record' = ReportOf(index)
        /\ index' = index + 1
        /\ phase' = "walk" /\ pc' = "deal"
  /\ UNCHANGED <<HeldRecordLossReported, Halted, drained, storeBlocked, loop, buffers, stores, calm, fate, due, lastSent>>

\* HoldNextRecord: Buffer_Read into the slot.
HoldNextRecord ==
  /\ pc = "hold"
  /\ HeldRecordIsReport' = FALSE
  /\ HoldsRecord' = (buffer # <<>>)
  /\ IF buffer # <<>>
     THEN /\ Record' = RecordOf(Head(buffer))
          /\ buffer' = Tail(buffer) /\ bufferFull' = FALSE
          /\ drained' = TRUE /\ pc' = "deal"
     ELSE pc' = "take" /\ UNCHANGED <<Record, buffer, bufferFull, drained>>
  /\ UNCHANGED <<latches, Halted, phase, index, storeBlocked, loop, logging, stores, pending, calm, fate, due, lastSent>>

HasUnsent == store # <<>>

\* Mutant: the store's record is read into a slot that may be taken.
TakeNextIntoTakenSlot(opens) ==
  LET takes == ~Halted /\ HasUnsent /\ opens
  IN  /\ pc = "take" /\ Accepts(opens)
      /\ Record' = IF takes THEN Head(store) ELSE Record
      /\ storeBlocked' = (~Halted /\ ~takes /\ HasUnsent)
      /\ pc' = IF takes THEN "sendStored" ELSE "status"
      /\ UNCHANGED <<HoldsRecord, HeldRecordIsReport, latches, Halted, phase, index, drained, loop, buffers,
                     stores, pending, calm, fate, due, lastSent>>

\* SendOneFromStore: ReadNextUnsent into the slot, where the slot is free and
\* the store can open its next record...
TakeNextFromStore(opens) ==
  LET takes == ~Halted /\ ~HoldsRecord /\ HasUnsent /\ opens
  IN  /\ pc = "take" /\ Accepts(opens)
      /\ Record' = IF takes THEN Head(store) ELSE Record
      /\ storeBlocked' = (~Halted /\ ~takes /\ HasUnsent)
      /\ pc' = IF takes THEN "sendStored" ELSE "status"
      /\ UNCHANGED <<HoldsRecord, HeldRecordIsReport, latches, Halted, phase, index, drained, loop, buffers,
                     stores, pending, calm, fate, due, lastSent>>

\* ...or a store that freezes as it reads.
StoreFreezesReading ==
  /\ pc = "take" /\ ~Halted /\ ~HoldsRecord /\ HasUnsent
  /\ StoreFreezes
  /\ pc' = "status"
  /\ UNCHANGED <<slot, latches, Halted, pass, loop, buffers, calm, lastSent>>

\* Sender_Send of the store's record, and MarkSent once it is sent.
SendStored(ok) ==
  /\ pc = "sendStored" /\ Accepts(ok)
  /\ storeBlocked' = ~ok
  /\ Record' = NoItem
  /\ IF ok THEN NoteSent(Record) /\ store' = Tail(store) ELSE UNCHANGED <<fate, lastSent, store>>
  /\ pc' = "status"
  /\ UNCHANGED <<HoldsRecord, HeldRecordIsReport, latches, Halted, phase, index, drained, loop, buffers,
                 transient, storeReported, pending, calm, due>>

\* MarkSent of a store that freezes as it marks.
StoreFreezesMarking ==
  /\ pc = "sendStored"
  /\ Record' = NoItem
  /\ StoreFreezes
  /\ lastSent' = IF Record.report THEN lastSent ELSE Record.id
  /\ pc' = "status"
  /\ UNCHANGED <<HoldsRecord, HeldRecordIsReport, latches, Halted, pass, loop, buffers, calm>>

IsBlocked == HoldsRecord \/ (storeBlocked /\ ~drained)
IsReportWaiting == ~ReportTurnedDown /\ pending # {}

\* Mutants: the status forgets the store's records; it forgets the events.
StatusWithoutStore ==
  IF Halted THEN "HALTED"
  ELSE IF IsBlocked THEN "BLOCKED"
  ELSE IF drained \/ IsReportWaiting THEN "READY" ELSE "IDLE"
StatusWithoutEvents ==
  IF Halted THEN "HALTED"
  ELSE IF IsBlocked THEN "BLOCKED"
  ELSE IF drained \/ HasUnsent THEN "READY" ELSE "IDLE"

\* The rest of ProcessMessages.
PassStatus ==
  IF Halted THEN "HALTED"
  ELSE IF IsBlocked THEN "BLOCKED"
  ELSE IF drained \/ HasUnsent \/ IsReportWaiting THEN "READY" ELSE "IDLE"

EndPass ==
  /\ pc = "status"
  /\ status' = PassStatus
  /\ pc' = "out"
  /\ phase' = "first" /\ index' = 1 /\ drained' = FALSE /\ storeBlocked' = FALSE
  /\ UNCHANGED <<slot, latches, Halted, wake, buffers, stores, pending, calm, fate, due, lastSent>>

-----------------------------------------------------------------------------
\* SolidSyslog_Create with a store that retains records or one that does not.
Init ==
  /\ HoldsRecord = FALSE /\ HeldRecordIsReport = FALSE /\ Record = NoItem
  /\ HeldRecordLossReported = FALSE /\ ReportTurnedDown = FALSE /\ Halted = FALSE
  /\ pc = "out" /\ phase = "first" /\ index = 1 /\ drained = FALSE /\ storeBlocked = FALSE
  /\ status = "READY" /\ wake = FALSE
  /\ buffer = <<>> /\ bufferFull = FALSE /\ logging = 0
  /\ store = <<>> /\ transient \in BOOLEAN /\ storeReported = {}
  /\ pending = {} /\ calm = FALSE
  /\ fate = [id \in Ids |-> "new"] /\ due = {} /\ lastSent = 0

ServiceStep ==
  \/ \E policy \in Policies : \/ BeginPass(policy) \/ ApplyPolicy(policy)
                              \/ StoreKeeps(policy) \/ StoreRefuses(policy) \/ Refused(policy)
  \/ NothingHeld \/ StoreLoses \/ StoreLeaves
  \/ \E ok \in BOOLEAN : SendHeld(ok) \/ ReportIfPending(ok) \/ TakeNextFromStore(ok) \/ SendStored(ok)
  \/ StoreFreezesReading \/ StoreFreezesMarking \/ HoldNextRecord \/ EndPass

Next ==
  \/ ServiceStep
  \/ \E id \in Ids, policy \in Policies : Log(id, policy)
  \/ \E reports \in BOOLEAN : LogReturns(reports)
  \/ Settle

Spec == Init /\ [][Next]_vars

\* The integrator's loop runs, and a Log that started returns.
FairSpec == Spec /\ WF_vars(ServiceStep) /\ WF_vars(\E reports \in BOOLEAN : LogReturns(reports))

-----------------------------------------------------------------------------
(* Properties *)

\* The variables have their types.
TypeOK ==
  /\ Record.id \in {0} \cup Ids \cup Kinds
  /\ {HoldsRecord, HeldRecordIsReport, HeldRecordLossReported, ReportTurnedDown, Halted} \subseteq BOOLEAN
  /\ index \in 1..Cardinality(Kinds) + 1
  /\ Len(buffer) <= BufferCapacity /\ Len(store) <= StoreCapacity
  /\ transient => store = <<>>
  /\ pending \subseteq Kinds /\ due \subseteq Kinds

InBuffer(id) == \E i \in DOMAIN buffer : buffer[i] = id
InStore(id) == id \in RecordIds(store)
InSlot(id) == HoldsRecord /\ Record = RecordOf(id)

\* Every record logged and neither sent nor lost with a report is in the buffer,
\* in the slot or in the store: no pass overwrites a record it holds.  The
\* variables keep their types.
EveryRecordAccountedFor ==
  /\ TypeOK
  /\ \A id \in Ids : fate[id] = "live" => InBuffer(id) \/ InSlot(id) \/ InStore(id)

\* No record overtakes an older one: when a record has been sent, no record
\* logged before it is still to be sent.
NothingOvertaken == \A id \in 1..lastSent - 1 : fate[id] # "live"

\* An event raised is pending, or held as a report, until the store has kept the
\* report or the sender has taken it.
EventsKept == due \subseteq pending \cup (IF HoldsRecord /\ HeldRecordIsReport THEN {Record.id} ELSE {})

\* Once the surroundings are calm every record logged is sent, or lost to a
\* policy: the status never puts the loop to sleep over work left to do.
RecordsSettle == \A id \in Ids : (calm /\ fate[id] = "live") ~> fate[id] # "live"

\* The loop sleeps over events only where the reporting switch turned one down.
Dormant == pc = "out" /\ status = "IDLE" /\ ReportTurnedDown

\* Once the surroundings are calm every event raised is reported, but for those
\* left waiting by a switch that was off.
EventsReported == \A k \in Kinds : (calm /\ k \in due) ~> (k \notin due \/ Dormant)
=============================================================================
