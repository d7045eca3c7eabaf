--------------------------- MODULE CircularBuffer ---------------------------
(***************************************************************************)
(* Core/Source/SolidSyslogCircularBuffer.c: the byte ring between the      *)
(* tasks that call SolidSyslog_Log and the task that calls Service.        *)
(*                                                                         *)
(* A writer asks the integrator for the discard policy before it takes the *)
(* mutex, stores (evicting where the policy says so) while it holds it and *)
(* reports a loss after it gave it back.  The eviction loop is one step    *)
(* per record, under the mutex.  Reading is one step under the mutex.      *)
(*                                                                         *)
(* The bytes of the ring are abstracted to the extents written to it whose *)
(* bytes are still the ones written (mem): storing a record spoils every   *)
(* extent it overlaps.  held is a ghost: the extents the ring is supposed  *)
(* to be holding, oldest first.                                            *)
(***************************************************************************)
EXTENDS Integers, Sequences, FiniteSets

CONSTANTS
  Tasks,            \* the tasks that write
  NoTask,           \* the mutex is free
  Tags,             \* what tells two messages of one length apart
  Sizes,            \* the message lengths the callers write
  ReadSizes,        \* the lengths the reader offers as maxSize
  Capacity,         \* ringBytes
  MaxMessageSize,   \* SOLIDSYSLOG_MAX_MESSAGE_SIZE
  Policies,         \* the answers the integrator's policy function may give
  Nothing           \* no record

ASSUME CapacityAssumption == Capacity \in Nat
ASSUME SizesAssumption == Sizes \subseteq Nat /\ ReadSizes \subseteq Nat
ASSUME MaxMessageSizeAssumption == MaxMessageSize \in Nat
ASSUME PoliciesAssumption == Policies \subseteq {"OLDEST", "NEWEST", "HALT"}
ASSUME TaskAssumption == NoTask \notin Tasks /\ IsFiniteSet(Tasks)

HEADER_BYTES == 2

Records == [tag : Tags, size : Sizes]
Runs == {"NONE", "REFUSALS", "EVICTIONS"}

RecordBytes(r) == HEADER_BYTES + r.size

Extents == [at : Nat, rec : Records]
End(e) == e.at + RecordBytes(e.rec)
Overlap(e, f) == e.at < End(f) /\ f.at < End(e)

VARIABLES
  head, tail, wrapPoint,          \* the ring's offsets (Head, Tail, WrapPoint)
  Full, LossReported, EvictionReported, TooLargeReported,
  mem,                             \* the intact extents of Ring
  mutex,                           \* who holds the mutex
  pc, frame,                       \* where each writer is, and its locals
  readerReports,                   \* the reader owes RECORD_TOO_LARGE
  out,                             \* the record the last Read delivered
  held, lastWrite, owed            \* ghosts

ring == <<head, tail, wrapPoint>>
flags == <<Full, LossReported, EvictionReported, TooLargeReported>>
ghosts == <<held, lastWrite, owed>>
vars == <<ring, flags, mem, mutex, pc, frame, readerReports, out, ghosts>>

-----------------------------------------------------------------------------
(* The ring's arithmetic. *)

IsEmpty == head = tail
HeadAtWrapPoint == head >= wrapPoint
IsWrapped == head > tail

\* Mutants: the last byte before the head is used, so a full ring looks empty.
RecordFitsAtTailTouching(n) == IF IsWrapped THEN tail + n <= head ELSE tail + n <= Capacity
RecordFitsAfterWrapTouching(n) == ~IsWrapped /\ n <= head
RecordFitsAtTail(n) == IF IsWrapped THEN tail + n < head ELSE tail + n <= Capacity
RecordFitsAfterWrap(n) == ~IsWrapped /\ n < head
RecordFits(n) == RecordFitsAtTail(n) \/ RecordFitsAfterWrap(n)

CouldHoldWhenEmpty(n) == n <= Capacity
PolicyEvictsFor(n, p) == CouldHoldWhenEmpty(n) /\ p = "OLDEST"

\* Where the head record starts, once a wrap marker in front of it is consumed.
HeadOffset == IF HeadAtWrapPoint THEN 0 ELSE head

\* PeekRecordSize and LoadRecord: the record whose header is at the head.
HeadRecord == (CHOOSE e \in mem : e.at = HeadOffset).rec

ResetToStart == head' = 0 /\ tail' = 0 /\ wrapPoint' = Capacity

\* ConsumeWrapMarker where there is one, then step over the head record.
StepHead ==
  /\ head' = HeadOffset + RecordBytes(HeadRecord)
  /\ wrapPoint' = IF HeadAtWrapPoint THEN Capacity ELSE wrapPoint
  /\ UNCHANGED tail

DropHead ==
  IF HeadOffset + RecordBytes(HeadRecord) = tail THEN ResetToStart ELSE StepHead

\* StoreRecord at offset at: the new extent spoils whatever it overlaps.
Store(at, r) ==
  LET e == [at |-> at, rec |-> r]
  IN  /\ tail' = End(e)
      /\ mem' = {f \in mem : ~Overlap(e, f)} \cup {e}
      /\ held' = Append(held, e)

-----------------------------------------------------------------------------
(* Write *)

Init ==
  /\ head = 0 /\ tail = 0 /\ wrapPoint = Capacity
  /\ Full = FALSE /\ LossReported = FALSE
  /\ EvictionReported = FALSE /\ TooLargeReported = FALSE
  /\ mem = {} /\ mutex = NoTask
  /\ pc = [t \in Tasks |-> "idle"]
  /\ frame = [t \in Tasks |-> Nothing]
  /\ readerReports = FALSE /\ out = Nothing
  /\ held = <<>> /\ lastWrite = "KEPT" /\ owed = [k \in Runs |-> 0]

\* Write, up to the lock: the policy is whatever the integrator answers.  A
\* record longer than MaxMessageSize is only reported: it is no step of the ring.
AskPolicy(t, r, p) ==
  /\ pc[t] = "idle"
  /\ r.size <= MaxMessageSize
  /\ pc' = [pc EXCEPT ![t] = "asked"]
  /\ frame' = [frame EXCEPT ![t] = [rec |-> r, policy |-> p, evicted |-> FALSE]]
  /\ UNCHANGED <<ring, flags, mem, mutex, readerReports, out, ghosts>>

\* StoreApplyingPolicy: take the mutex and start an empty ring over.
LockToStore(t) ==
  /\ pc[t] = "asked"
  /\ mutex = NoTask
  /\ mutex' = t
  /\ pc' = [pc EXCEPT ![t] = "storing"]
  /\ IF IsEmpty THEN ResetToStart ELSE UNCHANGED ring
  /\ UNCHANGED <<flags, mem, frame, readerReports, out, ghosts>>

\* One turn of EvictUntilRecordFits.
EvictOne(t) ==
  LET n == RecordBytes(frame[t].rec)
  IN  /\ pc[t] = "storing"
      /\ ~RecordFits(n)
      /\ PolicyEvictsFor(n, frame[t].policy)
      /\ DropHead
      /\ frame' = [frame EXCEPT ![t].evicted = TRUE]
      /\ held' = Tail(held)
      /\ UNCHANGED <<flags, mem, mutex, pc, readerReports, out, lastWrite, owed>>

\* Mutant: the report path keeps the mutex.
FinishLocked(t, started) ==
  /\ mutex' = IF started = "NONE" THEN NoTask ELSE t
  /\ pc' = [pc EXCEPT ![t] = IF started = "NONE" THEN "idle" ELSE started]
  /\ frame' = [frame EXCEPT ![t] = Nothing]
  /\ UNCHANGED <<readerReports, out>>

\* Unlock, and report the run this write started, if it did.
Finish(t, started) ==
  /\ mutex' = NoTask
  /\ pc' = [pc EXCEPT ![t] = IF started = "NONE" THEN "idle" ELSE started]
  /\ frame' = [frame EXCEPT ![t] = Nothing]
  /\ UNCHANGED <<readerReports, out>>

\* The ghost of the runs of losses: a run starts when the outcome changes.
NoteOutcome(outcome) ==
  /\ lastWrite' = outcome
  /\ owed' = IF outcome \in Runs /\ outcome # lastWrite
             THEN [owed EXCEPT ![outcome] = @ + 1] ELSE owed

KeepRecord(t) ==
  LET r == frame[t].rec
      evicted == frame[t].evicted
  IN  /\ pc[t] = "storing"
      /\ RecordFits(RecordBytes(r))
      /\ IF RecordFitsAtTail(RecordBytes(r))
         THEN Store(tail, r) /\ UNCHANGED wrapPoint
         ELSE Store(0, r) /\ wrapPoint' = tail            \* WrapTail
      /\ UNCHANGED <<head, TooLargeReported>>
      /\ LossReported' = FALSE
      /\ EvictionReported' = evicted
      /\ Full' = evicted
      /\ NoteOutcome(IF evicted THEN "EVICTIONS" ELSE "KEPT")
      /\ Finish(t, IF evicted /\ ~EvictionReported THEN "EVICTIONS" ELSE "NONE")

\* Mutant: a refusal does not end the run of evictions.
RefuseRecordAmidEvictions(t) ==
  LET n == RecordBytes(frame[t].rec)
  IN  /\ pc[t] = "storing"
      /\ ~RecordFits(n)
      /\ ~PolicyEvictsFor(n, frame[t].policy)
      /\ LossReported' = TRUE
      /\ Full' = CouldHoldWhenEmpty(n)
      /\ NoteOutcome("REFUSALS")
      /\ Finish(t, IF LossReported THEN "NONE" ELSE "REFUSALS")
      /\ UNCHANGED <<ring, EvictionReported, TooLargeReported, mem, held>>

RefuseRecord(t) ==
  LET n == RecordBytes(frame[t].rec)
  IN  /\ pc[t] = "storing"
      /\ ~RecordFits(n)
      /\ ~PolicyEvictsFor(n, frame[t].policy)
      /\ LossReported' = TRUE
      /\ EvictionReported' = FALSE
      /\ Full' = CouldHoldWhenEmpty(n)
      /\ NoteOutcome("REFUSALS")
      /\ Finish(t, IF LossReported THEN "NONE" ELSE "REFUSALS")
      /\ UNCHANGED <<ring, TooLargeReported, mem, held>>

\* ReportRunStarted, after the unlock.
ReportRunStarted(t) ==
  /\ pc[t] \in {"REFUSALS", "EVICTIONS"}
  /\ owed' = [owed EXCEPT ![pc[t]] = @ - 1]
  /\ pc' = [pc EXCEPT ![t] = "idle"]
  /\ UNCHANGED <<ring, flags, mem, mutex, frame, readerReports, out, held, lastWrite>>

-----------------------------------------------------------------------------
(* Read *)

\* Mutant: taking a record does not make room.
DeliverStaysFull(maxSize) ==
  /\ HeadRecord.size <= maxSize
  /\ out' = HeadRecord
  /\ StepHead
  /\ held' = Tail(held)
  /\ TooLargeReported' = FALSE
  /\ UNCHANGED <<readerReports, Full>>

\* A record that fits the caller's room is taken.
Deliver(maxSize) ==
  /\ HeadRecord.size <= maxSize
  /\ out' = HeadRecord
  /\ StepHead
  /\ held' = Tail(held)
  /\ Full' = FALSE /\ TooLargeReported' = FALSE
  /\ UNCHANGED readerReports

\* One that does not is left at the head; the wrap marker is consumed all the same.
LeaveTooLarge(maxSize) ==
  /\ HeadRecord.size > maxSize
  /\ head' = HeadOffset
  /\ wrapPoint' = IF HeadAtWrapPoint THEN Capacity ELSE wrapPoint
  /\ readerReports' = ~TooLargeReported
  /\ TooLargeReported' = TRUE
  /\ UNCHANGED <<tail, Full, out, held>>

Read(maxSize) ==
  /\ ~readerReports
  /\ mutex = NoTask
  /\ ~IsEmpty
  /\ Deliver(maxSize) \/ LeaveTooLarge(maxSize)
  /\ UNCHANGED <<LossReported, EvictionReported, mem, mutex, pc, frame, lastWrite, owed>>

ReportRecordTooLarge ==
  /\ readerReports
  /\ readerReports' = FALSE
  /\ UNCHANGED <<ring, flags, mem, mutex, pc, frame, out, ghosts>>

WriterStep(t) == LockToStore(t) \/ EvictOne(t) \/ KeepRecord(t) \/ RefuseRecord(t) \/ ReportRunStarted(t)

Next ==
  \/ \E t \in Tasks : \/ \E r \in Records, p \in Policies : AskPolicy(t, r, p)
                      \/ WriterStep(t)
  \/ \E n \in ReadSizes : Read(n)
  \/ ReportRecordTooLarge

Spec == Init /\ [][Next]_vars

\* A task that holds the mutex keeps running until it gives it back.
Fairness == \A t \in Tasks : WF_vars(EvictOne(t) \/ KeepRecord(t) \/ RefuseRecord(t))
FairSpec == Spec /\ Fairness

-----------------------------------------------------------------------------
(* Properties *)

Frames == [rec : Records, policy : Policies, evicted : BOOLEAN]

\* The variables have their types, and a writer has a frame exactly while it
\* is between the policy question and the unlock.
TypeOK ==
  /\ head \in Nat /\ tail \in Nat /\ wrapPoint \in Nat
  /\ Full \in BOOLEAN /\ LossReported \in BOOLEAN
  /\ EvictionReported \in BOOLEAN /\ TooLargeReported \in BOOLEAN
  /\ mem \subseteq Extents
  /\ mutex \in Tasks \cup {NoTask}
  /\ pc \in [Tasks -> {"idle", "asked", "storing", "REFUSALS", "EVICTIONS"}]
  /\ DOMAIN frame = Tasks
  /\ \A t \in Tasks : pc[t] \in {"asked", "storing"} => frame[t] \in Frames
  /\ readerReports \in BOOLEAN
  /\ out \in Records \cup {Nothing}
  /\ held \in Seq(Extents)
  /\ lastWrite \in {"KEPT", "REFUSALS", "EVICTIONS"}
  /\ owed \in [Runs -> Int]

\* Mutual exclusion: only the task that holds the mutex is storing.
MutexHeld == \A t \in Tasks : pc[t] = "storing" <=> mutex = t

\* Every offset is in the ring, and an unwrapped ring has no wrap marker.
OffsetsInRing ==
  /\ tail <= Capacity /\ wrapPoint <= Capacity
  /\ IF IsWrapped THEN head <= wrapPoint /\ 0 < tail ELSE wrapPoint = Capacity

\* Which end of a wrapped ring an extent lies in: it never crosses a boundary.
Upper(e) == head <= e.at /\ End(e) <= IF IsWrapped THEN wrapPoint ELSE tail
Lower(e) == IsWrapped /\ End(e) <= tail

\* The records the ring is holding lie end to end, oldest first, from the head
\* to the tail: StoreRecord never leaves a gap the reader would take for a
\* record, except the one the wrap marker skips.
Chain ==
  /\ held = <<>> <=> IsEmpty
  /\ held # <<>> => held[1].at = HeadOffset /\ End(held[Len(held)]) = tail
  /\ \A i \in 1..Len(held) - 1 :
       held[i + 1].at = IF IsWrapped /\ End(held[i]) = wrapPoint THEN 0 ELSE End(held[i])

\* Every record held lies in one of the two occupied stretches, in order.
Placed ==
  /\ \A i \in 1..Len(held) : Upper(held[i]) \/ Lower(held[i])
  /\ \A i, j \in 1..Len(held) : i < j =>
       \/ End(held[i]) <= held[j].at
       \/ IsWrapped /\ head <= held[i].at /\ Lower(held[j])

\* No record is overwritten before it is taken: the bytes of every record held
\* are still the bytes its Write stored.
RecordsIntact ==
  /\ \A i \in 1..Len(held) : held[i] \in mem
  /\ \A e, f \in mem : e # f => ~Overlap(e, f)

Layout == OffsetsInRing /\ Chain /\ Placed /\ RecordsIntact

\* While a task stores, an emptied ring is back at its start, so that the
\* largest record it could hold fits and the eviction loop ends.
EmptyRingStartsOver == mutex # NoTask /\ IsEmpty => head = 0

\* The ring holds what it is supposed to hold, whatever was written, evicted
\* and read before, and however it wrapped: KeepRecord, EvictUntilRecordFits and
\* Read never touch a record another task is using or has yet to take.
RingInv == MutexHeld /\ EmptyRingStartsOver /\ Layout

\* Every run of losses is reported exactly once: the runs that started and are
\* not reported yet are the ones some task is on its way to report.
EveryRunReportedOnce ==
  \A k \in {"REFUSALS", "EVICTIONS"} : owed[k] = Cardinality({t \in Tasks : pc[t] = k})

\* While no write is under way, a ring that says it is full holds a record:
\* Service, which drops or halts on IsFull, never does so for an empty ring.
FullMeansRecords == mutex = NoTask /\ Full => held # <<>>

\* The ring is a queue: RecordQueue is what its callers see.
Queue == INSTANCE RecordQueue WITH
           queue <- [i \in 1..Len(held) |-> held[i].rec],
           evicting <- \E t \in Tasks : pc[t] = "storing" /\ frame[t].evicted
RefinesQueue == Queue!Spec

\* EvictUntilRecordFits ends: whoever takes the mutex gives it back.
MutexIsReleased == mutex # NoTask ~> mutex = NoTask
=============================================================================
