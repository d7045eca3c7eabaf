----------------------------- MODULE BlockStore -----------------------------
(***************************************************************************)
(* Core/Source/SolidSyslogBlockStore.c over SolidSyslogBlockSequence.c and *)
(* SolidSyslogRecordStore.c: the store that keeps records on a block       *)
(* device until they are sent, across power cuts.                          *)
(*                                                                         *)
(* One task (Service) calls the store.  A call runs from "idle" to "idle", *)
(* one step for each device call that changes the media, so that a power   *)
(* cut falls between any two of them.  Every device call may fail, and the *)
(* first that does freezes the store.                                      *)
(*                                                                         *)
(* fate is a ghost: what became of each record offered to the store.       *)
(***************************************************************************)
EXTENDS BlockSequence, RecordStore

CONSTANTS
  NoBlock,      \* a sequence number with no block on the device
  MaxRecords,   \* bound: the records offered to the store
  MaxCrashes,   \* bound: power cuts and restarts
  MaxDamage,    \* bound: records and blocks the media ruins
  RecordSizes,  \* the bytes RecordSize makes of the messages offered
  Policies      \* the answers of the discard policy

ASSUME RecordSizesAssumption == RecordSizes \subseteq 1..MaxBlockSize
ASSUME StoreBoundsAssumption == MaxRecords \in Nat /\ MaxCrashes \in Nat /\ MaxDamage \in Nat

VARIABLES
  media,            \* the block device: what a power cut leaves
  seq,              \* struct SolidSyslogBlockSequence
  lastRead,         \* HasReadRecord, LastReadBlockIndex and where the record ends
  reported,         \* the report latches that are set
  pc,               \* where the call in progress is
  writing,          \* the record StoreRecord was given
  readBlockChanged,
  delivered,        \* the id ReadNextUnsent handed out; 0 for none
  fate, crashes, damage

Ids == 1..MaxRecords
Records == [id : Ids, at : 0..MaxBlockSize, bytes : 1..MaxBlockSize,
            flag : {"UNSENT", "HALF", "SENT"}, state : {"OK", "DAMAGED", "REJECTED"}]
Blocks == [size : 0..MaxBlockSize, recs : SUBSET Records]
ASSUME NoBlockAssumption == NoBlock \notin Blocks
NothingRead == [block |-> -1, next |-> 0]
NoRecord == [id |-> 0, bytes |-> 0]

volatile == <<seq, lastRead, reported, pc, writing, readBlockChanged, delivered>>
vars == <<media, volatile, fate, crashes, damage>>

Present == {n \in SequenceNumbers : media[n] # NoBlock}
ReadBlock == media[seq.ReadSequence]
Without(n) == [media EXCEPT ![n] = NoBlock]
With(n, b) == [media EXCEPT ![n] = b]

\* The fates of the records still kept in recs all become f.
Lose(recs, f) ==
  fate' = [id \in Ids |-> IF fate[id] = "kept" /\ \E r \in recs : r.id = id THEN f ELSE fate[id]]

-----------------------------------------------------------------------------
(* Create: Initialise, and ResumeFromExistingBlock. *)

Init ==
  /\ media = [n \in SequenceNumbers |-> NoBlock]
  /\ seq = Initialised /\ lastRead = NothingRead /\ reported = {}
  /\ pc = "opening" /\ writing = NoRecord /\ readBlockChanged = FALSE
  /\ delivered = 0
  /\ fate = [id \in Ids |-> "new"] /\ crashes = 0 /\ damage = 0

\* BlockSequence_Open
Open(ok) ==
  LET s == ScanForExistingBlocks(seq, Present)
  IN  /\ pc = "opening"
      /\ pc' = IF ok THEN "scanning" ELSE "frozen"
      /\ IF ~ok THEN seq' = NoteDeviceFailure(seq) /\ UNCHANGED media
         ELSE IF Present # {}
         THEN /\ seq' = NotifyThresholdCrossed([s EXCEPT !.WritePosition = media[s.WriteSequence].size])
              /\ UNCHANGED media
         ELSE seq' = NotifyThresholdCrossed(Acquired(seq, 0)) /\ media' = With(0, EmptyBlock)
      /\ UNCHANGED <<lastRead, reported, writing, readBlockChanged, delivered, fate, crashes, damage>>

\* ReadNextBlockIfBehind where the read is behind: LeaveReadBlock and ForgetLastRead.
LeaveReadBlock(s, ok) ==
  /\ ReadIsBehindWrite(s)
  /\ lastRead' = NothingRead
  /\ IF ok THEN media' = Without(s.ReadSequence) /\ seq' = DisposeReadBlock(s)
     ELSE UNCHANGED media /\ seq' = NoteDeviceFailure(s)

\* Mutant: closing the write block is taken for moving on.
AbandonKeepsGoing(s, ok, onward, done) ==
  \/ /\ LeaveReadBlock(s, ok)
     /\ pc' = IF ok THEN onward ELSE "frozen"
     /\ reported' = IF ok THEN reported \cup {"LOSS"} ELSE reported
  \/ /\ ~ReadIsBehindWrite(s)
     /\ seq' = [s EXCEPT !.ReadCursor = s.WritePosition, !.WriteBlockCorrupt = TRUE]
     /\ pc' = onward
     /\ reported' = reported \cup {"LOSS"}
     /\ UNCHANGED <<media, lastRead>>

\* AbandonRestOfReadBlock: on to the next block, or the write block is closed.
AbandonRestOfReadBlock(s, ok, onward, done) ==
  \/ /\ LeaveReadBlock(s, ok)
     /\ pc' = IF ok THEN onward ELSE "frozen"
     /\ reported' = IF ok THEN reported \cup {"LOSS"} ELSE reported
  \/ /\ ~ReadIsBehindWrite(s)
     /\ seq' = [s EXCEPT !.ReadCursor = s.WritePosition, !.WriteBlockCorrupt = TRUE]
     /\ pc' = done
     /\ reported' = reported \cup {"LOSS"}
     /\ UNCHANGED <<media, lastRead>>

\* A device that fails, in a call that leaves the media as it was.
DeviceFails ==
  /\ pc' = "frozen"
  /\ seq' = NoteDeviceFailure(seq)
  /\ UNCHANGED <<media, lastRead, reported, delivered>>

\* One turn of ResumeFromExistingBlock: ScanReadBlock, and AbandonRestOfReadBlock.
ScanReadBlock(ok) ==
  LET sized == WithReadBlockSize(seq, ReadBlock.size)
      found == FindFirstUnsent(ReadBlock, ReadBlockSize(sized))
      s == [sized EXCEPT !.ReadCursor = found.cursor]
  IN  /\ pc = "scanning"
      /\ \/ ~ok /\ (ReadBlockSizeAsks(seq) \/ ReadBlockSize(sized) > 0) /\ DeviceFails
         \/ /\ found.scanned = "CLEAN" /\ ok
            /\ seq' = s /\ pc' = "checking"
            /\ UNCHANGED <<media, lastRead, reported, delivered>>
         \/ /\ found.scanned = "CORRUPT"
            /\ AbandonRestOfReadBlock(s, ok, "scanning", "checking")
            /\ UNCHANGED delivered
      /\ UNCHANGED <<writing, readBlockChanged, fate, crashes, damage>>

\* Mutant: a write block that ends inside a record is written to all the same.
CheckNothing(ok) ==
  /\ pc = "checking" /\ ok
  /\ pc' = "idle"
  /\ UNCHANGED <<media, seq, lastRead, reported, writing, readBlockChanged, delivered, fate, crashes, damage>>

CheckWriteBlock(ok) ==
  LET from == IF ReadIsBehindWrite(seq) THEN 0 ELSE seq.ReadCursor
      scanned == ScanToEnd(media[seq.WriteSequence], from, seq.WritePosition)
  IN  /\ pc = "checking"
      /\ IF ok
         THEN /\ seq' = [seq EXCEPT !.WriteBlockCorrupt = @ \/ scanned = "CORRUPT"]
              /\ pc' = "idle"
              /\ UNCHANGED <<media, lastRead, reported, delivered>>
         ELSE from < seq.WritePosition /\ DeviceFails
      /\ UNCHANGED <<writing, readBlockChanged, fate, crashes, damage>>

-----------------------------------------------------------------------------
(* Write *)

\* Mutant: a record read before the eviction is not forgotten.
ReadyWithoutForgetting(s, changed) ==
  /\ reported' = IF s.EvictedUnsent THEN reported \cup {"EVICTION"} ELSE reported \ {"EVICTION"}
  /\ pc' = "appending"
  /\ UNCHANGED lastRead

\* StoreRecord once there is room: ReportEviction, ForgetLastRead, then Append.
ReadyToAppend(s, changed) ==
  /\ reported' = IF s.EvictedUnsent THEN reported \cup {"EVICTION"} ELSE reported \ {"EVICTION"}
  /\ lastRead' = IF changed THEN NothingRead ELSE lastRead
  /\ pc' = "appending"

\* Write, up to the first device call.
Write(id, bytes, policy) ==
  /\ pc = "idle"
  /\ fate[id] = "new" /\ \A i \in 1..id - 1 : fate[i] # "new"
  /\ \/ /\ BlockIsFull(seq, bytes) /\ StoreIsFull(seq, policy)
        /\ seq' = Refused(seq)
        /\ reported' = reported \cup {"REFUSAL"}
        /\ fate' = [fate EXCEPT ![id] = "refused"]
        /\ UNCHANGED <<pc, writing, lastRead, readBlockChanged>>
     \/ /\ BlockIsFull(seq, bytes) /\ ~StoreIsFull(seq, policy)
        /\ pc' = "rotating"
        /\ readBlockChanged' = FALSE
        /\ writing' = [id |-> id, bytes |-> bytes]
        /\ fate' = [fate EXCEPT ![id] = "offered"]
        /\ UNCHANGED <<seq, reported, lastRead>>
     \/ /\ ~BlockIsFull(seq, bytes)
        /\ ReadyToAppend(seq, FALSE)
        /\ writing' = [id |-> id, bytes |-> bytes]
        /\ fate' = [fate EXCEPT ![id] = "offered"]
        /\ UNCHANGED <<seq, readBlockChanged>>
  /\ UNCHANGED <<media, delivered, crashes, damage>>

\* AcquireEmptyBlock: a stale block in the way is disposed of first...
DisposeStaleBlock(ok) ==
  LET next == NextSequence(seq.WriteSequence)
  IN  /\ pc = "rotating" /\ next \in Present
      /\ IF ok THEN media' = Without(next) /\ seq' = Disposed(seq, next) /\ UNCHANGED pc
         ELSE UNCHANGED media /\ seq' = NoteDeviceFailure(seq) /\ pc' = "frozen"
      /\ UNCHANGED <<lastRead, reported, writing, readBlockChanged, delivered, fate, crashes, damage>>

\* ...and the block acquired becomes the write block.
AcquireBlock(ok) ==
  LET next == NextSequence(seq.WriteSequence)
  IN  /\ pc = "rotating" /\ next \notin Present
      /\ IF ok
         THEN /\ media' = With(next, EmptyBlock)
              /\ seq' = [AdvanceWriteToNewBlock(Acquired(seq, next), next) EXCEPT !.EvictedUnsent = FALSE]
              /\ pc' = "draining"
         ELSE UNCHANGED media /\ seq' = NoteDeviceFailure(seq) /\ pc' = "frozen"
      /\ UNCHANGED <<lastRead, reported, writing, readBlockChanged, delivered, fate, crashes, damage>>

\* DisposeReadBlockIfDrained, after a rotation or a mark.
DisposeReadBlockIfDrained(ok) ==
  LET s == WithReadBlockSize(seq, ReadBlock.size)
      drained == ReadIsBehindWrite(seq) /\ IsReadBlockFullyDrained(s)
  IN  \/ /\ ~ok /\ (drained \/ ReadBlockSizeAsks(seq))
         /\ seq' = NoteDeviceFailure(seq)
         /\ UNCHANGED <<media, readBlockChanged>>
      \/ /\ ok /\ drained
         /\ media' = Without(seq.ReadSequence)
         /\ seq' = DisposeReadBlock(s)
         /\ readBlockChanged' = TRUE
      \/ /\ ok /\ ~drained
         /\ seq' = s
         /\ UNCHANGED <<media, readBlockChanged>>

DrainAfterRotation(ok) ==
  /\ pc = "draining"
  /\ DisposeReadBlockIfDrained(ok)
  /\ pc' = "evicting"
  /\ UNCHANGED <<lastRead, reported, writing, delivered, fate, crashes, damage>>

\* The rest of RotateToNextBlock, and StoreRecord up to the append: a block over
\* the ceiling is evicted, unless the device has failed.
EvictAfterRotation(ok) ==
  LET evicts == Evicts(seq)
      s == IF ~evicts THEN seq ELSE IF ok THEN DiscardOldestBlock(seq) ELSE NoteDeviceFailure(seq)
  IN  /\ pc = "evicting"
      /\ ok \/ evicts
      /\ seq' = s
      /\ IF evicts /\ ok
         THEN media' = Without(seq.OldestSequence) /\ Lose(media[seq.OldestSequence].recs, "evicted")
         ELSE UNCHANGED <<media, fate>>
      /\ IF s.DeviceFailed
         THEN pc' = "frozen" /\ UNCHANGED <<reported, lastRead>>
         ELSE ReadyToAppend(s, readBlockChanged \/ evicts)
      /\ UNCHANGED <<writing, readBlockChanged, delivered, crashes, damage>>

\* Append succeeds, fails with some of the bytes on the media, or the policy
\* would not seal the record.
AppendKept ==
  /\ pc = "appending"
  /\ media' = With(seq.WriteSequence,
                   AppendRecord(media[seq.WriteSequence], writing.id, writing.bytes, writing.bytes))
  /\ seq' = NoteRecordWritten(seq, writing.bytes)
  /\ reported' = reported \ {"REFUSAL", "SEAL"}
  /\ fate' = [fate EXCEPT ![writing.id] = "kept"]
  /\ pc' = "idle"
  /\ writing' = NoRecord
  /\ UNCHANGED <<lastRead, readBlockChanged, delivered, crashes, damage>>

TornAppend ==
  \E reached \in 0..writing.bytes :
    media' = With(seq.WriteSequence,
                  AppendRecord(media[seq.WriteSequence], writing.id, writing.bytes, reached))

AppendFails ==
  /\ pc = "appending"
  /\ TornAppend
  /\ pc' = "frozen"
  /\ UNCHANGED <<seq, lastRead, reported, writing, readBlockChanged, delivered, fate, crashes, damage>>

SealFails ==
  /\ pc = "appending"
  /\ reported' = reported \cup {"SEAL"}
  /\ fate' = [fate EXCEPT ![writing.id] = "lost"]
  /\ pc' = "idle"
  /\ writing' = NoRecord
  /\ UNCHANGED <<media, seq, lastRead, readBlockChanged, delivered, crashes, damage>>

-----------------------------------------------------------------------------
(* ReadNextUnsent *)

ReadNextUnsent ==
  /\ pc = "idle"
  /\ delivered' = 0
  /\ pc' = IF HasUnsent(seq) THEN "reading" ELSE "idle"
  /\ UNCHANGED <<media, seq, lastRead, reported, writing, readBlockChanged, fate, crashes, damage>>

\* StepPastCurrent: the cursor moves by the length the header gave.
StepPastCurrent(s, r) ==
  /\ seq' = [s EXCEPT !.ReadCursor = End(r)]
  /\ lastRead' = NothingRead
  /\ UNCHANGED <<media, pc, delivered>>

\* One turn of the loop: ReadCurrent, and StepPast what it met.
ReadCurrent(ok, opens) ==
  LET s == WithReadBlockSize(seq, ReadBlock.size)
      result == ReadAndValidateRecord(ReadBlock, s.ReadCursor, ReadBlockSize(s), opens)
      r == RecordAt(ReadBlock, s.ReadCursor)
  IN  /\ pc = "reading"
      /\ \/ ~ok /\ (ReadBlockSizeAsks(seq) \/ result # "END_OF_DATA") /\ DeviceFails
         \/ /\ ok /\ result = "SUCCEEDED"
            /\ lastRead' = [block |-> s.ReadSequence, next |-> End(r)]
            /\ delivered' = r.id
            /\ reported' = reported \ {"LOSS"}
            /\ seq' = s /\ pc' = "idle"
            /\ UNCHANGED media
         \/ /\ ok /\ result = "COULD_NOT_OPEN"
            /\ seq' = s /\ pc' = "idle"
            /\ UNCHANGED <<media, lastRead, reported, delivered>>
         \/ /\ ok /\ result = "FINISHED_WITH"
            /\ StepPastCurrent(s, r)
            /\ UNCHANGED reported
         \/ /\ ok /\ result = "REJECTED"
            /\ StepPastCurrent(s, r)
            /\ reported' = reported \cup {"LOSS"}
         \/ /\ result = "END_OF_DATA"
            /\ LeaveReadBlock(s, ok)
            /\ pc' = IF ok THEN "reading" ELSE "frozen"
            /\ UNCHANGED <<reported, delivered>>
         \/ /\ ok /\ result = "END_OF_DATA" /\ ~ReadIsBehindWrite(s)
            /\ seq' = s /\ pc' = "idle"
            /\ UNCHANGED <<media, lastRead, reported, delivered>>
         \/ /\ result = "CORRUPT"
            /\ AbandonRestOfReadBlock(s, ok, "reading", "idle")
            /\ UNCHANGED delivered
      /\ UNCHANGED <<writing, readBlockChanged, fate, crashes, damage>>

-----------------------------------------------------------------------------
(* MarkSent.  The caller marks a record it was handed and has sent. *)

Marked(flag) ==
  IF lastRead.block \in Present
  THEN With(lastRead.block, WriteSentFlag(media[lastRead.block], lastRead.next, flag))
  ELSE media

NoteMark(flag) ==
  /\ media' = Marked(flag)
  /\ fate' = IF flag = "SENT" /\ fate[delivered] = "kept" THEN [fate EXCEPT ![delivered] = "sent"] ELSE fate

MarkSent ==
  /\ pc = "idle" /\ delivered # 0
  /\ delivered' = 0
  /\ IF lastRead = NothingRead THEN UNCHANGED <<media, seq, lastRead, pc, readBlockChanged, fate>>
     ELSE /\ NoteMark("SENT")
          /\ seq' = [seq EXCEPT !.ReadCursor = lastRead.next]
          /\ lastRead' = NothingRead
          /\ readBlockChanged' = FALSE
          /\ pc' = "marking"
  /\ UNCHANGED <<reported, writing, crashes, damage>>

\* WriteSentFlag fails, whatever it did to the flag.
MarkSentFails(flag) ==
  /\ pc = "idle" /\ delivered # 0 /\ lastRead # NothingRead
  /\ NoteMark(flag)
  /\ delivered' = 0
  /\ pc' = "frozen"
  /\ UNCHANGED <<seq, lastRead, reported, writing, readBlockChanged, crashes, damage>>

\* The rest of MarkSent: a read block this drained is disposed of.
DrainAfterMark(ok) ==
  /\ pc = "marking"
  /\ DisposeReadBlockIfDrained(ok)
  /\ pc' = IF seq'.DeviceFailed THEN "frozen" ELSE "idle"
  /\ lastRead' = IF readBlockChanged' /\ ~seq'.DeviceFailed THEN NothingRead ELSE lastRead
  /\ UNCHANGED <<reported, writing, delivered, fate, crashes, damage>>

-----------------------------------------------------------------------------
(* What happens to the store.  A restart, after a freeze or a power cut, is *)
(* a new Initialise over what the media holds.                              *)

Restart ==
  /\ pc # "opening" /\ crashes < MaxCrashes
  /\ crashes' = crashes + 1
  /\ \/ pc = "appending" /\ TornAppend /\ UNCHANGED fate
     \/ \E flag \in {"HALF", "SENT"} : pc = "idle" /\ delivered # 0 /\ lastRead # NothingRead /\ NoteMark(flag)
     \/ UNCHANGED <<media, fate>>
  /\ seq' = Initialised /\ lastRead' = NothingRead /\ reported' = {}
  /\ pc' = "opening" /\ writing' = NoRecord /\ readBlockChanged' = FALSE
  /\ delivered' = 0
  /\ UNCHANGED damage

\* While the store is down the media ruins a record's header or content, or a
\* file system check removes a block.  A removed block leaves a hole shorter
\* than the free gap, as ScanForExistingBlocks assumes.
DamageRecord(n, r, state) ==
  /\ pc = "opening" /\ damage < MaxDamage
  /\ damage' = damage + 1
  /\ media' = With(n, [media[n] EXCEPT !.recs = (@ \ {r}) \cup {[r EXCEPT !.state = state]}])
  /\ Lose(IF state = "DAMAGED" THEN {q \in media[n].recs : q.at >= r.at} ELSE {r}, "ruined")
  /\ UNCHANGED <<volatile, crashes>>

RemoveBlock(n) ==
  /\ pc = "opening" /\ damage < MaxDamage
  /\ LargestGap(Present, n).Length > 1
  /\ damage' = damage + 1
  /\ media' = Without(n)
  /\ Lose(media[n].recs, "ruined")
  /\ UNCHANGED <<volatile, crashes>>

\* The media holds a block next to the run that the scan did not see: Exists
\* has no way to say that it failed.  It is nothing the store wrote.
StaleBlock ==
  LET next == NextSequence(seq.WriteSequence)
  IN  /\ pc = "idle" /\ damage < MaxDamage
      /\ next \notin Present
      /\ damage' = damage + 1
      /\ media' = With(next, [size |-> 1, recs |-> {}])
      /\ UNCHANGED <<volatile, fate, crashes>>

DeviceStep(ok) ==
  \/ ScanReadBlock(ok) \/ CheckWriteBlock(ok)
  \/ DisposeStaleBlock(ok) \/ AcquireBlock(ok) \/ DrainAfterRotation(ok) \/ EvictAfterRotation(ok)
  \/ \E opens \in BOOLEAN : ReadCurrent(ok, opens)
  \/ DrainAfterMark(ok)

StoreStep ==
  \/ \E ok \in BOOLEAN : Open(ok) \/ DeviceStep(ok)
  \/ AppendKept \/ AppendFails \/ SealFails

Next ==
  \/ StoreStep
  \/ \E id \in Ids, bytes \in RecordSizes, policy \in Policies : Write(id, bytes, policy)
  \/ ReadNextUnsent
  \/ MarkSent
  \/ \E flag \in {"UNSENT", "HALF", "SENT"} : MarkSentFails(flag)
  \/ Restart
  \/ StaleBlock
  \/ \E n \in Present : \/ \E r \in media[n].recs, state \in {"DAMAGED", "REJECTED"} : DamageRecord(n, r, state)
                        \/ RemoveBlock(n)

Spec == Init /\ [][Next]_vars

\* Service runs the call it made to its end: it never stops before a device call
\* that would do what it is asked.
FairSpec == Spec /\ WF_vars(DeviceStep(TRUE) \/ AppendKept \/ AppendFails \/ SealFails)

-----------------------------------------------------------------------------
(* Properties *)

Running == pc \notin {"opening", "frozen"}

\* The variables have their types.
TypeOK ==
  /\ pc \in {"opening", "scanning", "checking", "idle", "rotating", "draining", "evicting",
             "appending", "reading", "marking", "frozen"}
  /\ seq.BlockPresent \subseteq SequenceNumbers
  /\ {seq.OldestSequence, seq.ReadSequence, seq.WriteSequence} \subseteq SequenceNumbers
  /\ seq.ReadCursor \in 0..MaxBlockSize /\ seq.WritePosition \in 0..MaxBlockSize
  /\ seq.ReadBlockSize \in SizeUnknown..MaxBlockSize
  /\ reported \subseteq {"REFUSAL", "EVICTION", "SEAL", "LOSS"}
  /\ delivered \in {0} \cup Ids

\* The struct keeps its types and follows the device: the presence map (but for a stale block next
\* to the run), the write position and the size cached for the read block are
\* the device's, the read is on the oldest block, and both ends of the run are
\* present.
MapFollowsDevice ==
  /\ TypeOK
  /\ Running =>
    /\ seq.BlockPresent \subseteq Present
    /\ Present \subseteq seq.BlockPresent \cup {NextSequence(seq.WriteSequence)}
    /\ seq.ReadSequence = seq.OldestSequence
    /\ {seq.ReadSequence, seq.WriteSequence} \subseteq Present
    /\ seq.WritePosition = media[seq.WriteSequence].size
    /\ seq.ReadBlockSize \in {SizeUnknown, ReadBlock.size}

\* The record id is whole on the media and not marked sent.
IsRetained(id) ==
  \E n \in Present : \E r \in media[n].recs :
    /\ r.id = id /\ r.flag # "SENT" /\ r.state = "OK" /\ End(r) <= media[n].size
    /\ Running => /\ (n - seq.ReadSequence + Modulus) % Modulus < BlockCount(seq)
                  /\ n = seq.ReadSequence => seq.ReadCursor <= r.at

\* No record the store said it KEPT is lost, except one an eviction or the media
\* took: it stays on the media ahead of the read cursor until it is marked,
\* through rotations, failed calls, power cuts and resumes.
KeptIsRetained == \A id \in Ids : fate[id] = "kept" => IsRetained(id)

\* Records are handed out oldest first: none overtakes a record kept before it,
\* and none is handed out again once its mark is on the media.
OldestFirst ==
  delivered # 0 => /\ fate[delivered] # "sent"
                   /\ \A id \in 1..delivered - 1 : fate[id] # "kept"

\* MarkSent marks the record that was handed out, whatever was written, evicted
\* or disposed of in between.
MarksWhatWasDelivered ==
  pc = "idle" /\ delivered # 0 /\ lastRead # NothingRead =>
    /\ lastRead.block = seq.ReadSequence
    /\ \E r \in ReadBlock.recs : r.id = delivered /\ r.at = seq.ReadCursor /\ End(r) = lastRead.next

\* No write lands inside a record a power cut cut short.
RecordsApart ==
  \A n \in Present : \A r, q \in media[n].recs : r # q => End(r) <= q.at \/ End(q) <= r.at

\* The run grows past the ceiling only by a rotation that was interrupted, or by
\* a stale block a resume takes for its own.
CeilingHeld == Running /\ pc # "draining" /\ pc # "evicting" => BlockCount(seq) <= MaxBlocks + crashes + damage

\* The medium stays in order: every record has bytes of its own, and the blocks
\* stay below the ceiling but for the rotations a restart interrupted.
MediumInOrder == RecordsApart /\ CeilingHeld

\* Between calls the threshold latch says whether the store is above the
\* threshold, and no eviction is left unreported: a write whose record could not
\* be sealed is the one that may leave the first behind.
LatchesCurrent ==
  pc = "idle" =>
    /\ "SEAL" \notin reported => seq.ThresholdCrossed = IsAboveThreshold(seq)
    /\ seq.EvictedUnsent = ("EVICTION" \in reported)

\* A device that has failed is not called again: the media stays as the failed
\* call left it until the next start.
FailedDeviceLeftAlone ==
  [][(seq.DeviceFailed \/ pc = "frozen") /\ pc' # "opening" /\ damage' = damage => media' = media]_vars

\* Every call ends, and so does the resume scan: no loop over records or blocks
\* runs for ever.
CallsEnd == pc \notin {"idle", "frozen", "opening"} ~> pc \in {"idle", "frozen", "opening"}

\* What the comment on MAX_MAX_BLOCKS relies on: there is an absent number when
\* the store is opened.
AbsentNumberAtOpen == pc = "opening" => Present # SequenceNumbers
=============================================================================
