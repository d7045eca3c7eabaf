---------------------------- MODULE BlockSequence ----------------------------
(***************************************************************************)
(* Core/Source/SolidSyslogBlockSequence.c: the run of blocks in the        *)
(* circular space of sequence numbers.  An operator takes the struct (a    *)
(* record with the source's field names) and returns what it becomes; the  *)
(* device calls between them are the steps of BlockStore.                  *)
(***************************************************************************)
EXTENDS Integers, FiniteSets

CONSTANTS
  Modulus,        \* BLOCK_SEQUENCE_MODULUS, 100 in the source
  MaxBlocks,      \* the clamped block ceiling
  MaxBlockSize,
  Threshold       \* what GetCapacityThreshold answers; 0 disables

ASSUME ModulusAssumption == Modulus \in Nat /\ Modulus >= 4
ASSUME MaxBlocksAssumption == MaxBlocks \in 2..Modulus - 2     \* ClampToRange
ASSUME BlockSizeAssumption == MaxBlockSize \in Nat \ {0} /\ Threshold \in Nat

SequenceNumbers == 0..Modulus - 1
SizeUnknown == -1

Initialised ==
  [BlockPresent |-> {}, OldestSequence |-> 0, ReadSequence |-> 0, WriteSequence |-> 0,
   ReadCursor |-> 0, ReadBlockSize |-> SizeUnknown, WritePosition |-> 0,
   WriteBlockCorrupt |-> FALSE, AtCapacity |-> FALSE, ThresholdCrossed |-> FALSE,
   DeviceFailed |-> FALSE, EvictedUnsent |-> FALSE]

NextSequence(n) == (n + 1) % Modulus
CircularPrev(n) == (n + Modulus - 1) % Modulus

BlockCount(s) == ((s.WriteSequence - s.OldestSequence + Modulus) % Modulus) + 1
ReadIsBehindWrite(s) == s.ReadSequence # s.WriteSequence
HasUnsent(s) == ReadIsBehindWrite(s) \/ s.ReadCursor < s.WritePosition

NoteDeviceFailure(s) == [s EXCEPT !.DeviceFailed = TRUE]

-----------------------------------------------------------------------------
(* Where the run of blocks on the media begins and ends. *)

\* How many absent numbers there are from n on, up to the next present one.
GapLength(present, n) ==
  CHOOSE d \in 0..Modulus : /\ (n + d) % Modulus \in present
                            /\ \A e \in 0..d - 1 : (n + e) % Modulus \notin present

\* Mutant: the walk goes from 0 to the last number, and meets a gap across the
\* end in two halves.
LargestGapFromZero(present, lastPresent) ==
  LET length(n) == CHOOSE d \in 0..Modulus - n : /\ n + d \in present \cup {Modulus}
                                                /\ \A e \in 0..d - 1 : n + e \notin present
      start == CHOOSE n \in SequenceNumbers : \A m \in SequenceNumbers :
                 length(n) > length(m) \/ (length(n) = length(m) /\ n <= m)
  IN  [Start |-> start, Length |-> length(start)]

\* The first of the largest gaps, on a walk round the sequence space that starts
\* just after a present block.
LargestGap(present, lastPresent) ==
  LET start(step) == (lastPresent + step) % Modulus
      length(step) == GapLength(present, start(step))
      first == CHOOSE a \in 1..Modulus : \A b \in 1..Modulus :
                 length(a) > length(b) \/ (length(a) = length(b) /\ a <= b)
  IN  [Start |-> start(first), Length |-> length(first)]

\* Mutant: the run is taken to begin at the lowest number.
LowestToHighest(present) ==
  [oldest |-> CHOOSE n \in present : \A m \in present : n <= m,
   newest |-> CHOOSE n \in present : \A m \in present : m <= n]

LocateRunBoundaries(present) ==
  LET lastPresent == CHOOSE n \in present : \A m \in present : m <= n
      gap == LargestGap(present, lastPresent)
  IN  IF gap.Length > 0
      THEN [oldest |-> (gap.Start + gap.Length) % Modulus, newest |-> CircularPrev(gap.Start)]
      ELSE [oldest |-> 0, newest |-> Modulus - 1]

\* The next block of the run, over any hole in it.
NextPresentSequence(s, n) ==
  LET ahead == {d \in 1..Modulus : (n + d) % Modulus \in s.BlockPresent}
      nearest == CHOOSE d \in ahead : \A e \in ahead : d <= e
  IN  (n + nearest) % Modulus

\* Mutant: the size cached for the block the read leaves is kept.
StartReadingKeepsSize(s, n) == [s EXCEPT !.ReadSequence = n, !.ReadCursor = 0]

StartReadingBlock(s, n) ==
  [s EXCEPT !.ReadSequence = n, !.ReadCursor = 0, !.ReadBlockSize = SizeUnknown]

\* ScanForExistingBlocks, the device holding the blocks present.
ScanForExistingBlocks(s, present) ==
  LET run == LocateRunBoundaries(present)
  IN  [StartReadingBlock(s, run.oldest) EXCEPT
         !.BlockPresent = present, !.OldestSequence = run.oldest, !.WriteSequence = run.newest]

-----------------------------------------------------------------------------
(* Capacity. *)

TotalBytes == MaxBlocks * MaxBlockSize

UsedBytes(s) ==
  IF s.AtCapacity THEN TotalBytes
  ELSE (BlockCount(s) - 1) * MaxBlockSize + s.WritePosition

IsAboveThreshold(s) == Threshold # 0 /\ UsedBytes(s) >= Threshold

NotifyThresholdCrossed(s) == [s EXCEPT !.ThresholdCrossed = IsAboveThreshold(s)]

BlockIsFull(s, recordSize) == s.WriteBlockCorrupt \/ s.WritePosition + recordSize > MaxBlockSize

StoreIsFull(s, policy) == BlockCount(s) >= MaxBlocks /\ policy # "OLDEST"

ExceedsMaxBlocks(s) == BlockCount(s) > MaxBlocks

\* Mutant: a failed device is called again.
EvictsRegardless(s) == ExceedsMaxBlocks(s)

\* Whether RotateToNextBlock goes on to evict the oldest block.
Evicts(s) == ~s.DeviceFailed /\ ExceedsMaxBlocks(s)

\* What a full store that refuses becomes.
Refused(s) == NotifyThresholdCrossed([s EXCEPT !.AtCapacity = TRUE])

-----------------------------------------------------------------------------
(* Rotation, disposal and eviction, the device having done its part. *)

Acquired(s, n) == [s EXCEPT !.BlockPresent = @ \cup {n}]
Disposed(s, n) == [s EXCEPT !.BlockPresent = @ \ {n}]

AdvanceWriteToNewBlock(s, n) ==
  [s EXCEPT !.WriteSequence = n, !.WritePosition = 0, !.WriteBlockCorrupt = FALSE]

\* DisposeBlock of the oldest, then the read starts on the block after it.
ReadNextOldest(s) ==
  LET gone == Disposed(s, s.OldestSequence)
      next == NextPresentSequence(gone, s.OldestSequence)
  IN  StartReadingBlock([gone EXCEPT !.OldestSequence = next], next)

\* DiscardOldestBlock
DiscardOldestBlock(s) == [ReadNextOldest(s) EXCEPT !.EvictedUnsent = TRUE]

\* Mutant: the threshold is not looked at again when a block drains.
DisposeReadBlockQuietly(s) ==
  LET gone == Disposed(s, s.ReadSequence)
      next == NextPresentSequence(gone, s.OldestSequence)
  IN  [StartReadingBlock([gone EXCEPT !.OldestSequence = next], next) EXCEPT !.AtCapacity = FALSE]

\* DisposeReadBlock and AdvancePastDisposedReadBlock
DisposeReadBlock(s) ==
  LET gone == Disposed(s, s.ReadSequence)
      next == NextPresentSequence(gone, s.OldestSequence)
  IN  NotifyThresholdCrossed(
        [StartReadingBlock([gone EXCEPT !.OldestSequence = next], next) EXCEPT !.AtCapacity = FALSE])

NoteRecordWritten(s, recordSize) ==
  NotifyThresholdCrossed([s EXCEPT !.WritePosition = @ + recordSize, !.AtCapacity = FALSE])

\* ReadBlockSize asks the device only for a block the write has left behind
\* whose size is not known yet.
ReadBlockSizeAsks(s) == ReadIsBehindWrite(s) /\ s.ReadBlockSize = SizeUnknown

\* ...and remembers the answer.
WithReadBlockSize(s, size) == IF ReadBlockSizeAsks(s) THEN [s EXCEPT !.ReadBlockSize = size] ELSE s

ReadBlockSize(s) == IF ReadIsBehindWrite(s) THEN s.ReadBlockSize ELSE s.WritePosition

IsReadBlockFullyDrained(s) == s.ReadCursor >= ReadBlockSize(s)
=============================================================================
