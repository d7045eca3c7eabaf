------------------------- MODULE BlockSequenceProofs -------------------------
(***************************************************************************)
(* Lemmas about the operators of BlockSequence: what each leaves of the    *)
(* struct, the arithmetic of the circular sequence space, and where a run  *)
(* of blocks begins and ends.                                              *)
(***************************************************************************)
EXTENDS BlockSequence, WellFoundedInduction, TLAPS

-----------------------------------------------------------------------------
(* The struct *)

\* s has the fields of struct SolidSyslogBlockSequence and no others.
IsStruct(s) ==
  s = [BlockPresent |-> s.BlockPresent, OldestSequence |-> s.OldestSequence,
       ReadSequence |-> s.ReadSequence, WriteSequence |-> s.WriteSequence,
       ReadCursor |-> s.ReadCursor, ReadBlockSize |-> s.ReadBlockSize,
       WritePosition |-> s.WritePosition, WriteBlockCorrupt |-> s.WriteBlockCorrupt,
       AtCapacity |-> s.AtCapacity, ThresholdCrossed |-> s.ThresholdCrossed,
       DeviceFailed |-> s.DeviceFailed, EvictedUnsent |-> s.EvictedUnsent]

\* What a call may leave alone: the run, the read, the write, the latches.
SameRun(s, t) ==
  /\ t.BlockPresent = s.BlockPresent /\ t.OldestSequence = s.OldestSequence
  /\ t.WriteSequence = s.WriteSequence
SameRead(s, t) ==
  /\ t.ReadSequence = s.ReadSequence /\ t.ReadCursor = s.ReadCursor
  /\ t.ReadBlockSize = s.ReadBlockSize
SameWrite(s, t) == t.WritePosition = s.WritePosition /\ t.WriteBlockCorrupt = s.WriteBlockCorrupt
SameLatches(s, t) ==
  /\ t.AtCapacity = s.AtCapacity /\ t.ThresholdCrossed = s.ThresholdCrossed
  /\ t.EvictedUnsent = s.EvictedUnsent

LEMMA InitialisedFields ==
  /\ IsStruct(Initialised)
  /\ Initialised.BlockPresent = {} /\ Initialised.OldestSequence = 0
  /\ Initialised.ReadSequence = 0 /\ Initialised.WriteSequence = 0
  /\ Initialised.ReadCursor = 0 /\ Initialised.ReadBlockSize = SizeUnknown
  /\ Initialised.WritePosition = 0 /\ Initialised.EvictedUnsent = FALSE
  /\ Initialised.DeviceFailed = FALSE /\ Initialised.WriteBlockCorrupt = FALSE
BY DEF IsStruct, Initialised

LEMMA NoteDeviceFailureFields ==
  ASSUME NEW s, IsStruct(s), NEW t, t = NoteDeviceFailure(s)
  PROVE  /\ IsStruct(t) /\ SameRun(s, t) /\ SameRead(s, t) /\ SameWrite(s, t) /\ SameLatches(s, t)
         /\ t.DeviceFailed = TRUE
BY DEF IsStruct, NoteDeviceFailure, SameRun, SameRead, SameWrite, SameLatches

\* The level depends on four fields.
LEMMA LevelDepends ==
  ASSUME NEW s, NEW t, t.OldestSequence = s.OldestSequence, t.WriteSequence = s.WriteSequence,
         t.WritePosition = s.WritePosition, t.AtCapacity = s.AtCapacity
  PROVE  IsAboveThreshold(t) = IsAboveThreshold(s)
BY DEF IsAboveThreshold, UsedBytes, BlockCount

LEMMA NotifyFields ==
  ASSUME NEW s, IsStruct(s), NEW t, t = NotifyThresholdCrossed(s)
  PROVE  /\ IsStruct(t) /\ SameRun(s, t) /\ SameRead(s, t) /\ SameWrite(s, t)
         /\ t.AtCapacity = s.AtCapacity /\ t.EvictedUnsent = s.EvictedUnsent
         /\ t.DeviceFailed = s.DeviceFailed
         /\ t.ThresholdCrossed = IsAboveThreshold(t)
<1> DEFINE b == IsAboveThreshold(s)
<1>1. t = [s EXCEPT !.ThresholdCrossed = b]
  BY DEF NotifyThresholdCrossed
<1> HIDE DEF b
<1>2. /\ IsStruct(t) /\ SameRun(s, t) /\ SameRead(s, t) /\ SameWrite(s, t)
      /\ t.AtCapacity = s.AtCapacity /\ t.EvictedUnsent = s.EvictedUnsent
      /\ t.DeviceFailed = s.DeviceFailed /\ t.ThresholdCrossed = b
  BY <1>1 DEF IsStruct, SameRun, SameRead, SameWrite
<1>3. IsAboveThreshold(t) = b
  BY <1>2, LevelDepends DEF SameRun, SameWrite, b
<1> QED
  BY <1>2, <1>3

LEMMA RefusedFields ==
  ASSUME NEW s, IsStruct(s), NEW t, t = Refused(s)
  PROVE  /\ IsStruct(t) /\ SameRun(s, t) /\ SameRead(s, t) /\ SameWrite(s, t)
         /\ t.EvictedUnsent = s.EvictedUnsent /\ t.DeviceFailed = s.DeviceFailed
         /\ t.ThresholdCrossed = IsAboveThreshold(t)
<1>1. PICK k : k = [s EXCEPT !.AtCapacity = TRUE]
  OBVIOUS
<1>2. /\ IsStruct(k) /\ SameRun(s, k) /\ SameRead(s, k) /\ SameWrite(s, k)
      /\ k.EvictedUnsent = s.EvictedUnsent /\ k.DeviceFailed = s.DeviceFailed
  BY <1>1 DEF IsStruct, SameRun, SameRead, SameWrite
<1>3. t = NotifyThresholdCrossed(k)
  BY <1>1 DEF Refused
<1> QED
  BY <1>2, <1>3, NotifyFields DEF SameRun, SameRead, SameWrite

LEMMA NoteRecordWrittenFields ==
  ASSUME NEW s, IsStruct(s), NEW n, NEW t, t = NoteRecordWritten(s, n)
  PROVE  /\ IsStruct(t) /\ SameRun(s, t) /\ SameRead(s, t)
         /\ t.WritePosition = s.WritePosition + n /\ t.WriteBlockCorrupt = s.WriteBlockCorrupt
         /\ t.EvictedUnsent = s.EvictedUnsent /\ t.DeviceFailed = s.DeviceFailed
         /\ t.ThresholdCrossed = IsAboveThreshold(t)
<1>1. PICK k : k = [s EXCEPT !.WritePosition = @ + n, !.AtCapacity = FALSE]
  OBVIOUS
<1>2. /\ IsStruct(k) /\ SameRun(s, k) /\ SameRead(s, k)
      /\ k.WritePosition = s.WritePosition + n /\ k.WriteBlockCorrupt = s.WriteBlockCorrupt
      /\ k.EvictedUnsent = s.EvictedUnsent /\ k.DeviceFailed = s.DeviceFailed
  BY <1>1 DEF IsStruct, SameRun, SameRead
<1>3. t = NotifyThresholdCrossed(k)
  BY <1>1 DEF NoteRecordWritten
<1> QED
  BY <1>2, <1>3, NotifyFields DEF SameRun, SameRead, SameWrite

LEMMA StartReadingFields ==
  ASSUME NEW s, IsStruct(s), NEW n, NEW t, t = StartReadingBlock(s, n)
  PROVE  /\ IsStruct(t) /\ SameRun(s, t) /\ SameWrite(s, t) /\ SameLatches(s, t)
         /\ t.ReadSequence = n /\ t.ReadCursor = 0 /\ t.ReadBlockSize = SizeUnknown
         /\ t.DeviceFailed = s.DeviceFailed
BY DEF IsStruct, StartReadingBlock, SameRun, SameWrite, SameLatches

\* What is left of the run without block n: the read begins on the next.
LEMMA MoveOnFields ==
  ASSUME NEW s, IsStruct(s), NEW n, NEW k, NEW m, NEW t,
         k = Disposed(s, n), t = StartReadingBlock([k EXCEPT !.OldestSequence = m], m)
  PROVE  /\ IsStruct(t) /\ t.BlockPresent = s.BlockPresent \ {n} /\ k.BlockPresent = t.BlockPresent
         /\ t.OldestSequence = m /\ t.ReadSequence = m /\ t.WriteSequence = s.WriteSequence
         /\ t.ReadCursor = 0 /\ t.ReadBlockSize = SizeUnknown
         /\ SameWrite(s, t) /\ SameLatches(s, t) /\ t.DeviceFailed = s.DeviceFailed
<1>1. /\ IsStruct(k) /\ k.BlockPresent = s.BlockPresent \ {n} /\ k.WriteSequence = s.WriteSequence
      /\ SameWrite(s, k) /\ SameLatches(s, k) /\ k.DeviceFailed = s.DeviceFailed
  BY DEF IsStruct, Disposed, SameWrite, SameLatches
<1>2. PICK j : j = [k EXCEPT !.OldestSequence = m]
  OBVIOUS
<1>3. /\ IsStruct(j) /\ j.BlockPresent = s.BlockPresent \ {n} /\ j.WriteSequence = s.WriteSequence
      /\ j.OldestSequence = m
      /\ SameWrite(s, j) /\ SameLatches(s, j) /\ j.DeviceFailed = s.DeviceFailed
  BY <1>1, <1>2 DEF IsStruct, SameWrite, SameLatches
<1>4. t = StartReadingBlock(j, m)
  BY <1>2
<1>5. /\ IsStruct(t) /\ SameRun(j, t) /\ SameWrite(j, t) /\ SameLatches(j, t)
      /\ t.ReadSequence = m /\ t.ReadCursor = 0 /\ t.ReadBlockSize = SizeUnknown
      /\ t.DeviceFailed = j.DeviceFailed
  BY <1>3, <1>4, StartReadingFields
<1>6. SameLatches(s, t)
  BY <1>3, <1>5 DEF SameLatches
<1>7. SameWrite(s, t)
  BY <1>3, <1>5 DEF SameWrite
<1>8. t.BlockPresent = s.BlockPresent \ {n} /\ k.BlockPresent = t.BlockPresent
  BY <1>1, <1>3, <1>5 DEF SameRun
<1> QED
  BY <1>3, <1>5, <1>6, <1>7, <1>8 DEF SameRun

\* The block the read moves to once the oldest is gone.
NextOldest(s) == NextPresentSequence(Disposed(s, s.OldestSequence), s.OldestSequence)

\* Disposal of a drained or abandoned read block.
LEMMA DisposeReadBlockFields ==
  ASSUME NEW s, IsStruct(s), s.ReadSequence = s.OldestSequence, NEW t, t = DisposeReadBlock(s)
  PROVE  /\ IsStruct(t) /\ t.BlockPresent = s.BlockPresent \ {s.OldestSequence}
         /\ t.OldestSequence = NextOldest(s) /\ t.ReadSequence = NextOldest(s)
         /\ t.WriteSequence = s.WriteSequence
         /\ t.ReadCursor = 0 /\ t.ReadBlockSize = SizeUnknown /\ SameWrite(s, t)
         /\ t.EvictedUnsent = s.EvictedUnsent /\ t.DeviceFailed = s.DeviceFailed
         /\ t.ThresholdCrossed = IsAboveThreshold(t)
<1>1. PICK k : k = Disposed(s, s.OldestSequence)
  OBVIOUS
<1>2. PICK m : m = NextPresentSequence(k, s.OldestSequence)
  OBVIOUS
<1>3. PICK j : j = StartReadingBlock([k EXCEPT !.OldestSequence = m], m)
  OBVIOUS
<1>4. PICK i : i = [j EXCEPT !.AtCapacity = FALSE]
  OBVIOUS
<1>5. t = NotifyThresholdCrossed(i) /\ m = NextOldest(s)
  BY <1>1, <1>2, <1>3, <1>4 DEF DisposeReadBlock, NextOldest
<1>6. /\ IsStruct(j) /\ j.BlockPresent = s.BlockPresent \ {s.OldestSequence}
      /\ j.OldestSequence = m /\ j.ReadSequence = m /\ j.WriteSequence = s.WriteSequence
      /\ j.ReadCursor = 0 /\ j.ReadBlockSize = SizeUnknown
      /\ SameWrite(s, j) /\ SameLatches(s, j) /\ j.DeviceFailed = s.DeviceFailed
  BY <1>1, <1>3, MoveOnFields
<1>7. /\ IsStruct(i) /\ SameRun(j, i) /\ SameRead(j, i) /\ SameWrite(j, i)
      /\ i.EvictedUnsent = j.EvictedUnsent /\ i.DeviceFailed = j.DeviceFailed
  BY <1>4, <1>6 DEF IsStruct, SameRun, SameRead, SameWrite
<1>8. /\ IsStruct(t) /\ SameRun(i, t) /\ SameRead(i, t) /\ SameWrite(i, t)
      /\ t.EvictedUnsent = i.EvictedUnsent /\ t.DeviceFailed = i.DeviceFailed
      /\ t.ThresholdCrossed = IsAboveThreshold(t)
  BY <1>5, <1>7, NotifyFields
<1>9. t.EvictedUnsent = s.EvictedUnsent
  BY <1>6, <1>7, <1>8 DEF SameLatches
<1> QED
  BY <1>5, <1>6, <1>7, <1>8, <1>9 DEF SameRun, SameRead, SameWrite

\* Eviction of the oldest block.
LEMMA DiscardOldestFields ==
  ASSUME NEW s, IsStruct(s), NEW t, t = DiscardOldestBlock(s)
  PROVE  /\ IsStruct(t) /\ t.BlockPresent = s.BlockPresent \ {s.OldestSequence}
         /\ t.OldestSequence = NextOldest(s) /\ t.ReadSequence = NextOldest(s)
         /\ t.WriteSequence = s.WriteSequence
         /\ t.ReadCursor = 0 /\ t.ReadBlockSize = SizeUnknown /\ SameWrite(s, t)
         /\ t.EvictedUnsent = TRUE /\ t.DeviceFailed = s.DeviceFailed
<1>1. PICK k : k = Disposed(s, s.OldestSequence)
  OBVIOUS
<1>2. PICK m : m = NextPresentSequence(k, s.OldestSequence)
  OBVIOUS
<1>3. PICK j : j = StartReadingBlock([k EXCEPT !.OldestSequence = m], m)
  OBVIOUS
<1>4. t = [j EXCEPT !.EvictedUnsent = TRUE] /\ m = NextOldest(s)
  BY <1>1, <1>2, <1>3 DEF DiscardOldestBlock, ReadNextOldest, NextOldest
<1>5. /\ IsStruct(j) /\ j.BlockPresent = s.BlockPresent \ {s.OldestSequence}
      /\ j.OldestSequence = m /\ j.ReadSequence = m /\ j.WriteSequence = s.WriteSequence
      /\ j.ReadCursor = 0 /\ j.ReadBlockSize = SizeUnknown
      /\ SameWrite(s, j) /\ SameLatches(s, j) /\ j.DeviceFailed = s.DeviceFailed
  BY <1>1, <1>3, MoveOnFields
<1> QED
  BY <1>4, <1>5 DEF IsStruct, SameWrite

LEMMA WithReadBlockSizeFields ==
  ASSUME NEW s, IsStruct(s), NEW n, NEW t, t = WithReadBlockSize(s, n)
  PROVE  /\ IsStruct(t) /\ SameRun(s, t) /\ SameWrite(s, t) /\ SameLatches(s, t)
         /\ t.ReadSequence = s.ReadSequence /\ t.ReadCursor = s.ReadCursor
         /\ t.ReadBlockSize = IF ReadBlockSizeAsks(s) THEN n ELSE s.ReadBlockSize
         /\ t.DeviceFailed = s.DeviceFailed
<1>1. CASE ReadBlockSizeAsks(s)
  BY <1>1 DEF IsStruct, WithReadBlockSize, SameRun, SameWrite, SameLatches
<1>2. CASE ~ReadBlockSizeAsks(s)
  BY <1>2 DEF WithReadBlockSize, SameRun, SameWrite, SameLatches
<1> QED
  BY <1>1, <1>2

LEMMA AcquiredFields ==
  ASSUME NEW s, IsStruct(s), NEW n, NEW t, t = Acquired(s, n)
  PROVE  /\ IsStruct(t) /\ SameRead(s, t) /\ SameWrite(s, t) /\ SameLatches(s, t)
         /\ t.BlockPresent = s.BlockPresent \cup {n} /\ t.OldestSequence = s.OldestSequence
         /\ t.WriteSequence = s.WriteSequence /\ t.DeviceFailed = s.DeviceFailed
BY DEF IsStruct, Acquired, SameRead, SameWrite, SameLatches

LEMMA DisposedFields ==
  ASSUME NEW s, IsStruct(s), NEW n, NEW t, t = Disposed(s, n)
  PROVE  /\ IsStruct(t) /\ SameRead(s, t) /\ SameWrite(s, t) /\ SameLatches(s, t)
         /\ t.BlockPresent = s.BlockPresent \ {n} /\ t.OldestSequence = s.OldestSequence
         /\ t.WriteSequence = s.WriteSequence /\ t.DeviceFailed = s.DeviceFailed
BY DEF IsStruct, Disposed, SameRead, SameWrite, SameLatches

\* What AcquireEmptyBlock and AdvanceWriteToNewBlock leave of a rotation.
Rotated(s, n) == [AdvanceWriteToNewBlock(Acquired(s, n), n) EXCEPT !.EvictedUnsent = FALSE]

IsRotation(s, n, t) ==
  /\ IsStruct(t) /\ SameRead(s, t)
  /\ t.BlockPresent = s.BlockPresent \cup {n} /\ t.OldestSequence = s.OldestSequence
  /\ t.WriteSequence = n /\ t.WritePosition = 0 /\ t.DeviceFailed = s.DeviceFailed
  /\ ~t.WriteBlockCorrupt /\ t.EvictedUnsent = FALSE

LEMMA RotatedFields ==
  ASSUME NEW s, IsStruct(s), NEW n, NEW t, t = Rotated(s, n)
  PROVE  IsRotation(s, n, t)
<1>1. PICK k : k = Acquired(s, n)
  OBVIOUS
<1>2. PICK j : j = AdvanceWriteToNewBlock(k, n)
  OBVIOUS
<1>3. /\ IsStruct(k) /\ SameRead(s, k)
      /\ k.BlockPresent = s.BlockPresent \cup {n} /\ k.OldestSequence = s.OldestSequence
      /\ k.DeviceFailed = s.DeviceFailed
  BY <1>1, AcquiredFields
<1>4. /\ IsStruct(j) /\ SameRead(s, j)
      /\ j.BlockPresent = s.BlockPresent \cup {n} /\ j.OldestSequence = s.OldestSequence
      /\ j.WriteSequence = n /\ j.WritePosition = 0 /\ j.WriteBlockCorrupt = FALSE
      /\ j.DeviceFailed = s.DeviceFailed
  BY <1>2, <1>3 DEF IsStruct, AdvanceWriteToNewBlock, SameRead
<1>5. t = [j EXCEPT !.EvictedUnsent = FALSE]
  BY <1>1, <1>2 DEF Rotated
<1> QED
  BY <1>4, <1>5 DEF IsStruct, SameRead, IsRotation

LEMMA CursorFields ==
  ASSUME NEW s, IsStruct(s), NEW c, NEW t, t = [s EXCEPT !.ReadCursor = c]
  PROVE  /\ IsStruct(t) /\ SameRun(s, t) /\ SameWrite(s, t) /\ SameLatches(s, t)
         /\ t.ReadSequence = s.ReadSequence /\ t.ReadCursor = c
         /\ t.ReadBlockSize = s.ReadBlockSize /\ t.DeviceFailed = s.DeviceFailed
BY DEF IsStruct, SameRun, SameWrite, SameLatches

-----------------------------------------------------------------------------
(* Numbers *)

\* A set of naturals has a least member.
LEMMA LeastMember ==
  ASSUME NEW T, T \subseteq Nat, T # {}
  PROVE  \E x \in T : \A y \in T : x <= y
<1> DEFINE R == OpToRel(<, Nat)
<1>1. IsWellFoundedOn(R, Nat)
  BY NatLessThanWellFounded
<1>2. \A x, y \in Nat : x < y => <<x, y>> \in R
  BY DEF OpToRel
<1> HIDE DEF R
<1>3. PICK x \in T : \A y \in T : ~ (<<y, x>> \in R)
  BY <1>1, WFMin
<1>4. ASSUME NEW y \in T
      PROVE  x <= y
  <2>1. ~ (<<y, x>> \in R)
    BY <1>3
  <2>2. x \in Nat /\ y \in Nat
    OBVIOUS
  <2>3. ~ (y < x)
    BY <2>1, <2>2, <1>2
  <2> QED
    BY <2>2, <2>3
<1> QED
  BY <1>4

\* ...and a greatest one if it is bounded.
LEMMA GreatestMember ==
  ASSUME NEW N \in Nat, NEW T, T \subseteq 0..N, T # {}
  PROVE  \E x \in T : \A y \in T : y <= x
<1> DEFINE S == {N - y : y \in T}
<1>1. S \subseteq Nat /\ S # {}
  OBVIOUS
<1>2. PICK m \in S : \A y \in S : m <= y
  BY <1>1, LeastMember
<1>3. PICK x \in T : m = N - x
  BY <1>2
<1>4. ASSUME NEW y \in T
      PROVE  y <= x
  <2>1. N - y \in S
    OBVIOUS
  <2>2. N - x <= N - y
    BY <1>2, <1>3, <2>1
  <2>3. x \in 0..N /\ y \in 0..N
    OBVIOUS
  <2> QED
    BY <2>2, <2>3
<1> QED
  BY <1>4

LEMMA ModLow == ASSUME NEW x \in 0..Modulus - 1 PROVE x % Modulus = x
BY ModulusAssumption

LEMMA ModHigh == ASSUME NEW x \in Modulus..2 * Modulus - 1 PROVE x % Modulus = x - Modulus
BY ModulusAssumption

\* How far n lies ahead of o.
Offset(o, n) == (n - o + Modulus) % Modulus

LEMMA OffsetIs ==
  ASSUME NEW o \in SequenceNumbers, NEW n \in SequenceNumbers
  PROVE  /\ Offset(o, n) = IF n >= o THEN n - o ELSE n - o + Modulus
         /\ Offset(o, n) \in SequenceNumbers
<1>1. CASE n >= o
  <2>1. n - o + Modulus \in Modulus..2 * Modulus - 1
    BY <1>1, ModulusAssumption DEF SequenceNumbers
  <2>2. (n - o + Modulus) % Modulus = n - o
    BY <2>1, ModHigh, ModulusAssumption DEF SequenceNumbers
  <2> QED
    BY <1>1, <2>2, ModulusAssumption DEF SequenceNumbers, Offset
<1>2. CASE ~(n >= o)
  <2>1. n - o + Modulus \in 0..Modulus - 1
    BY <1>2, ModulusAssumption DEF SequenceNumbers
  <2>2. (n - o + Modulus) % Modulus = n - o + Modulus
    BY <2>1, ModLow
  <2> QED
    BY <1>2, <2>1, <2>2, ModulusAssumption DEF SequenceNumbers, Offset
<1> QED
  BY <1>1, <1>2

LEMMA StepIs ==
  ASSUME NEW n \in SequenceNumbers, NEW d \in 0..Modulus
  PROVE  /\ (n + d) % Modulus = IF n + d < Modulus THEN n + d ELSE n + d - Modulus
         /\ (n + d) % Modulus \in SequenceNumbers
<1>1. CASE n + d < Modulus
  <2>1. n + d \in 0..Modulus - 1
    BY <1>1, ModulusAssumption DEF SequenceNumbers
  <2> QED
    BY <1>1, <2>1, ModLow DEF SequenceNumbers
<1>2. CASE ~(n + d < Modulus)
  <2>1. n + d \in Modulus..2 * Modulus - 1
    BY <1>2, ModulusAssumption DEF SequenceNumbers
  <2>2. (n + d) % Modulus = n + d - Modulus
    BY <2>1, ModHigh, ModulusAssumption DEF SequenceNumbers
  <2> QED
    BY <1>2, <2>1, <2>2, ModulusAssumption DEF SequenceNumbers
<1> QED
  BY <1>1, <1>2

\* Offset and step undo one another.
LEMMA OffsetStep ==
  ASSUME NEW o \in SequenceNumbers, NEW n \in SequenceNumbers
  PROVE  (o + Offset(o, n)) % Modulus = n
<1>1. /\ Offset(o, n) = IF n >= o THEN n - o ELSE n - o + Modulus
      /\ Offset(o, n) \in SequenceNumbers
  BY OffsetIs
<1>2. Offset(o, n) \in 0..Modulus
  BY <1>1, ModulusAssumption DEF SequenceNumbers
<1>3. (o + Offset(o, n)) % Modulus =
        IF o + Offset(o, n) < Modulus THEN o + Offset(o, n) ELSE o + Offset(o, n) - Modulus
  BY <1>2, StepIs
<1> QED
  BY <1>1, <1>3, ModulusAssumption DEF SequenceNumbers

LEMMA StepOffset ==
  ASSUME NEW o \in SequenceNumbers, NEW d \in 0..Modulus - 1
  PROVE  Offset(o, (o + d) % Modulus) = d
<1>1. d \in 0..Modulus
  BY ModulusAssumption
<1>2. PICK m : m = (o + d) % Modulus
  OBVIOUS
<1>3. /\ m = IF o + d < Modulus THEN o + d ELSE o + d - Modulus
      /\ m \in SequenceNumbers
  BY <1>1, <1>2, StepIs
<1>4. Offset(o, m) = IF m >= o THEN m - o ELSE m - o + Modulus
  BY <1>3, OffsetIs
<1>5. Offset(o, m) = d
  BY <1>3, <1>4, ModulusAssumption DEF SequenceNumbers
<1> QED
  BY <1>2, <1>5

LEMMA NextIs ==
  ASSUME NEW n \in SequenceNumbers
  PROVE  /\ NextSequence(n) = IF n = Modulus - 1 THEN 0 ELSE n + 1
         /\ NextSequence(n) \in SequenceNumbers
<1>1. 1 \in 0..Modulus
  BY ModulusAssumption
<1>2. /\ (n + 1) % Modulus = IF n + 1 < Modulus THEN n + 1 ELSE n + 1 - Modulus
      /\ (n + 1) % Modulus \in SequenceNumbers
  BY <1>1, StepIs
<1> QED
  BY <1>2, ModulusAssumption DEF NextSequence, SequenceNumbers

LEMMA PrevIs ==
  ASSUME NEW n \in SequenceNumbers
  PROVE  /\ CircularPrev(n) = IF n = 0 THEN Modulus - 1 ELSE n - 1
         /\ CircularPrev(n) \in SequenceNumbers
<1>1. Modulus - 1 \in 0..Modulus
  BY ModulusAssumption
<1>2. /\ (n + (Modulus - 1)) % Modulus =
           IF n + (Modulus - 1) < Modulus THEN n + (Modulus - 1) ELSE n + (Modulus - 1) - Modulus
      /\ (n + (Modulus - 1)) % Modulus \in SequenceNumbers
  BY <1>1, StepIs
<1>3. n + Modulus - 1 = n + (Modulus - 1)
  BY ModulusAssumption DEF SequenceNumbers
<1> QED
  BY <1>2, <1>3, ModulusAssumption DEF CircularPrev, SequenceNumbers

LEMMA BlockCountIs ==
  ASSUME NEW s
  PROVE  BlockCount(s) = Offset(s.OldestSequence, s.WriteSequence) + 1
BY DEF BlockCount, Offset

-----------------------------------------------------------------------------
(* The run *)

\* NextPresentSequence finds the nearest present block ahead.
LEMMA NextPresentIs ==
  ASSUME NEW s, s.BlockPresent \subseteq SequenceNumbers,
         NEW n \in SequenceNumbers, NEW w \in s.BlockPresent
  PROVE  \E d \in 1..Modulus :
           /\ NextPresentSequence(s, n) = (n + d) % Modulus
           /\ (n + d) % Modulus \in s.BlockPresent
           /\ \A e \in 1..Modulus : (n + e) % Modulus \in s.BlockPresent => d <= e
<1> DEFINE ahead == {d \in 1..Modulus : (n + d) % Modulus \in s.BlockPresent}
           nearest == CHOOSE d \in ahead : \A e \in ahead : d <= e
<1>1. ahead # {}
  <2>1. /\ Offset(n, w) \in SequenceNumbers /\ (n + Offset(n, w)) % Modulus = w
    BY OffsetIs, OffsetStep
  <2>2. CASE Offset(n, w) # 0
    <3>1. Offset(n, w) \in 1..Modulus
      BY <2>1, <2>2, ModulusAssumption DEF SequenceNumbers
    <3> QED
      BY <2>1, <3>1
  <2>3. CASE Offset(n, w) = 0
    <3>1. w = n
      BY <2>1, <2>3, ModLow DEF SequenceNumbers
    <3>2. Modulus \in 0..Modulus /\ Modulus \in 1..Modulus
      BY ModulusAssumption
    <3>3. (n + Modulus) % Modulus = IF n + Modulus < Modulus THEN n + Modulus ELSE n + Modulus - Modulus
      BY <3>2, StepIs
    <3>4. (n + Modulus) % Modulus = w
      BY <3>1, <3>3, ModulusAssumption DEF SequenceNumbers
    <3> QED
      BY <3>2, <3>4
  <2> QED
    BY <2>2, <2>3
<1>2. ahead \subseteq Nat
  OBVIOUS
<1>3. \E d \in ahead : \A e \in ahead : d <= e
  <2> HIDE DEF ahead
  <2> QED  BY <1>1, <1>2, LeastMember
<1>4. nearest \in ahead /\ \A e \in ahead : nearest <= e
  <2> HIDE DEF ahead
  <2> QED  BY <1>3
<1>5. NextPresentSequence(s, n) = (n + nearest) % Modulus
  BY DEF NextPresentSequence
<1> HIDE DEF nearest
<1> QED
  BY <1>4, <1>5

\* The blocks from the oldest to the write block, in the order of the space.
IsArc(present, o, w) == \A n \in present : Offset(o, n) <= Offset(o, w)

\* Offsets from a block further on.
LEMMA OffsetFrom ==
  ASSUME NEW o \in SequenceNumbers, NEW m \in SequenceNumbers, NEW n \in SequenceNumbers,
         Offset(o, m) <= Offset(o, n)
  PROVE  Offset(m, n) = Offset(o, n) - Offset(o, m)
<1>1. Offset(o, m) = IF m >= o THEN m - o ELSE m - o + Modulus
  BY OffsetIs
<1>2. Offset(o, n) = IF n >= o THEN n - o ELSE n - o + Modulus
  BY OffsetIs
<1>3. Offset(m, n) = IF n >= m THEN n - m ELSE n - m + Modulus
  BY OffsetIs
<1> QED
  BY <1>1, <1>2, <1>3, ModulusAssumption DEF SequenceNumbers

\* The block after the oldest: it is on the media, all the others lie ahead of
\* it, and the run is shorter by at least one.
LEMMA NextOldestIs ==
  ASSUME NEW s, IsStruct(s), s.BlockPresent \subseteq SequenceNumbers,
         s.OldestSequence \in SequenceNumbers, s.WriteSequence \in s.BlockPresent,
         s.WriteSequence # s.OldestSequence,
         IsArc(s.BlockPresent, s.OldestSequence, s.WriteSequence),
         NEW m, m = NextOldest(s)
  PROVE  /\ m \in s.BlockPresent \ {s.OldestSequence}
         /\ IsArc(s.BlockPresent \ {s.OldestSequence}, m, s.WriteSequence)
         /\ Offset(m, s.WriteSequence) < Offset(s.OldestSequence, s.WriteSequence)
         /\ \A n \in s.BlockPresent \ {s.OldestSequence} :
              Offset(s.OldestSequence, m) <= Offset(s.OldestSequence, n)
<1>1. PICK k : k = Disposed(s, s.OldestSequence)
  OBVIOUS
<1>2. PICK o : o = s.OldestSequence
  OBVIOUS
<1>3. PICK w : w = s.WriteSequence
  OBVIOUS
<1>4. k.BlockPresent = s.BlockPresent \ {o} /\ m = NextPresentSequence(k, o)
  BY <1>1, <1>2, DisposedFields DEF NextOldest
<1>5. w \in k.BlockPresent /\ k.BlockPresent \subseteq SequenceNumbers /\ o \in SequenceNumbers
  BY <1>2, <1>3, <1>4
<1>6. PICK d \in 1..Modulus :
           /\ m = (o + d) % Modulus
           /\ m \in k.BlockPresent
           /\ \A e \in 1..Modulus : (o + e) % Modulus \in k.BlockPresent => d <= e
  BY <1>4, <1>5, NextPresentIs
<1>7. ASSUME NEW n \in k.BlockPresent
      PROVE  Offset(o, n) \in 1..Modulus - 1 /\ d <= Offset(o, n)
  <2>1. n \in SequenceNumbers /\ n # o
    BY <1>4, <1>5
  <2>2. /\ Offset(o, n) = IF n >= o THEN n - o ELSE n - o + Modulus
        /\ Offset(o, n) \in SequenceNumbers
    BY <1>5, <2>1, OffsetIs
  <2>3. Offset(o, n) \in 1..Modulus - 1 /\ Offset(o, n) \in 1..Modulus
    BY <1>5, <2>1, <2>2, ModulusAssumption DEF SequenceNumbers
  <2>4. (o + Offset(o, n)) % Modulus = n
    BY <1>5, <2>1, OffsetStep
  <2> QED
    BY <1>6, <2>3, <2>4
<1>8. d \in 1..Modulus - 1 /\ d \in 0..Modulus - 1
  BY <1>5, <1>7, ModulusAssumption
<1>9. Offset(o, m) = d
  BY <1>5, <1>6, <1>8, StepOffset
<1>10. \A n \in k.BlockPresent : Offset(o, m) <= Offset(o, n)
  BY <1>7, <1>9
<1>11. m \in SequenceNumbers /\ w \in SequenceNumbers
  BY <1>5, <1>6
<1>12. \A n \in k.BlockPresent : Offset(m, n) = Offset(o, n) - d
  BY <1>5, <1>6, <1>9, <1>10, OffsetFrom
<1>13. \A n \in k.BlockPresent : Offset(o, n) <= Offset(o, w)
  BY <1>2, <1>3, <1>4 DEF IsArc
<1>14. IsArc(k.BlockPresent, m, w)
  <2> SUFFICES ASSUME NEW n \in k.BlockPresent
               PROVE  Offset(m, n) <= Offset(m, w)
    BY DEF IsArc
  <2>1. Offset(m, n) = Offset(o, n) - d /\ Offset(m, w) = Offset(o, w) - d
    BY <1>5, <1>12
  <2>2. Offset(o, n) \in 1..Modulus - 1 /\ Offset(o, w) \in 1..Modulus - 1
    BY <1>5, <1>7
  <2> QED
    BY <1>8, <1>13, <2>1, <2>2, ModulusAssumption
<1>15. Offset(m, w) < Offset(o, w)
  <2>1. Offset(m, w) = Offset(o, w) - d /\ Offset(o, w) \in 1..Modulus - 1
    BY <1>5, <1>7, <1>12
  <2> QED
    BY <1>8, <2>1, ModulusAssumption
<1> QED
  BY <1>2, <1>3, <1>4, <1>6, <1>10, <1>14, <1>15

-----------------------------------------------------------------------------
(* Where a resume finds the run *)

LEMMA GapLengthIs ==
  ASSUME NEW present, present \subseteq SequenceNumbers, present # {}, NEW n \in SequenceNumbers,
         NEW g, g = GapLength(present, n)
  PROVE  /\ g \in 0..Modulus /\ (n + g) % Modulus \in present
         /\ \A e \in 0..g - 1 : (n + e) % Modulus \notin present
<1> DEFINE T == {d \in 0..Modulus : (n + d) % Modulus \in present}
<1>1. T # {}
  <2>1. PICK p \in present : TRUE
    OBVIOUS
  <2>2. Offset(n, p) \in SequenceNumbers /\ (n + Offset(n, p)) % Modulus = p
    BY OffsetIs, OffsetStep
  <2>3. Offset(n, p) \in 0..Modulus
    BY <2>2, ModulusAssumption DEF SequenceNumbers
  <2> QED
    BY <2>2, <2>3
<1>2. T \subseteq Nat
  OBVIOUS
<1>3. PICK d \in T : \A e \in T : d <= e
  <2> HIDE DEF T
  <2> QED  BY <1>1, <1>2, LeastMember
<1>4. /\ d \in 0..Modulus /\ (n + d) % Modulus \in present
      /\ \A e \in 0..d - 1 : (n + e) % Modulus \notin present
  <2>1. d \in 0..Modulus /\ (n + d) % Modulus \in present
    OBVIOUS
  <2>2. ASSUME NEW e \in 0..d - 1, (n + e) % Modulus \in present
        PROVE  FALSE
    <3>1. e \in 0..Modulus /\ ~(d <= e)
      BY <2>1, ModulusAssumption
    <3> QED
      BY <1>3, <2>2, <3>1
  <2> QED
    BY <2>1, <2>2
<1> QED
  BY <1>4 DEF GapLength

\* The gap found is a longest one.
LEMMA LargestGapIs ==
  ASSUME NEW present, present \subseteq SequenceNumbers, present # {},
         NEW last \in SequenceNumbers, NEW gap, gap = LargestGap(present, last)
  PROVE  /\ gap.Start \in SequenceNumbers /\ gap.Length = GapLength(present, gap.Start)
         /\ \A m \in SequenceNumbers : GapLength(present, m) <= gap.Length
<1> DEFINE start(step) == (last + step) % Modulus
           length(step) == GapLength(present, start(step))
           Best(a) == \A b \in 1..Modulus : length(a) > length(b) \/ (length(a) = length(b) /\ a <= b)
           first == CHOOSE a \in 1..Modulus : Best(a)
<1>1. \A a \in 1..Modulus : start(a) \in SequenceNumbers /\ length(a) \in 0..Modulus
  <2> SUFFICES ASSUME NEW a \in 1..Modulus
               PROVE  start(a) \in SequenceNumbers /\ length(a) \in 0..Modulus
    OBVIOUS
  <2>1. a \in 0..Modulus
    BY ModulusAssumption
  <2>2. start(a) \in SequenceNumbers
    BY <2>1, StepIs
  <2>3. PICK n : n = start(a)
    OBVIOUS
  <2>4. GapLength(present, n) \in 0..Modulus
    BY <2>2, <2>3, GapLengthIs
  <2> QED
    BY <2>2, <2>3, <2>4
<1>2. gap = [Start |-> start(first), Length |-> length(first)]
  BY DEF LargestGap
<1> HIDE DEF length
<1>3. PICK x \in {length(a) : a \in 1..Modulus} : \A y \in {length(a) : a \in 1..Modulus} : y <= x
  <2> DEFINE T == {length(a) : a \in 1..Modulus}
  <2>1. T \subseteq 0..Modulus
    BY <1>1
  <2>2. length(1) \in T
    BY ModulusAssumption
  <2> HIDE DEF T
  <2>3. \E x \in T : \A y \in T : y <= x
    BY <2>1, <2>2, ModulusAssumption, GreatestMember
  <2> QED
    BY <2>3 DEF T
<1>4. PICK a0 \in {a \in 1..Modulus : length(a) = x} : \A b \in {a \in 1..Modulus : length(a) = x} : a0 <= b
  <2> DEFINE T == {a \in 1..Modulus : length(a) = x}
  <2>1. T \subseteq Nat /\ T # {}
    BY <1>3
  <2> HIDE DEF T
  <2>2. \E a \in T : \A b \in T : a <= b
    BY <2>1, LeastMember
  <2> QED
    BY <2>2 DEF T
<1>5. Best(a0)
  <2> SUFFICES ASSUME NEW b \in 1..Modulus
               PROVE  length(a0) > length(b) \/ (length(a0) = length(b) /\ a0 <= b)
    OBVIOUS
  <2>1. length(a0) = x /\ length(b) <= x
    BY <1>3, <1>4
  <2>2. length(a0) \in 0..Modulus /\ length(b) \in 0..Modulus
    BY <1>1, <1>4
  <2>3. length(b) = x => a0 <= b
    BY <1>4
  <2> QED
    BY <2>1, <2>2, <2>3, ModulusAssumption
<1>6. first \in 1..Modulus /\ Best(first)
  <2> HIDE DEF Best
  <2> QED  BY <1>4, <1>5
<1>7. ASSUME NEW m \in SequenceNumbers
      PROVE  \E b \in 1..Modulus : start(b) = m
  <2>1. Offset(last, m) \in SequenceNumbers /\ (last + Offset(last, m)) % Modulus = m
    BY OffsetIs, OffsetStep
  <2>2. CASE Offset(last, m) # 0
    <3>1. Offset(last, m) \in 1..Modulus
      BY <2>1, <2>2, ModulusAssumption DEF SequenceNumbers
    <3> QED
      BY <2>1, <3>1
  <2>3. CASE Offset(last, m) = 0
    <3>1. m = last
      BY <2>1, <2>3, ModLow DEF SequenceNumbers
    <3>2. Modulus \in 0..Modulus /\ Modulus \in 1..Modulus
      BY ModulusAssumption
    <3>3. (last + Modulus) % Modulus = IF last + Modulus < Modulus THEN last + Modulus ELSE last + Modulus - Modulus
      BY <3>2, StepIs
    <3>4. (last + Modulus) % Modulus = m
      BY <3>1, <3>3, ModulusAssumption DEF SequenceNumbers
    <3> QED
      BY <3>2, <3>4
  <2> QED
    BY <2>2, <2>3
<1>8. ASSUME NEW m \in SequenceNumbers
      PROVE  GapLength(present, m) <= length(first)
  <2>1. PICK b \in 1..Modulus : start(b) = m
    BY <1>7
  <2>2. length(b) <= length(first)
    BY <1>1, <1>6, ModulusAssumption
  <2> QED
    BY <2>1, <2>2 DEF length
<1>9. gap.Start = start(first) /\ gap.Length = length(first)
  BY <1>2
<1> QED
  BY <1>1, <1>6, <1>8, <1>9 DEF length

\* What a resume takes for the run begins and ends with a present block, holds
\* every block there is, and is no longer than any arc that does.
LEMMA LocateIs ==
  ASSUME NEW present, present \subseteq SequenceNumbers, present # {},
         NEW o \in SequenceNumbers, NEW len \in 1..Modulus - 1,
         \A n \in present : Offset(o, n) < len,
         NEW run, run = LocateRunBoundaries(present)
  PROVE  /\ run.oldest \in present /\ run.newest \in present
         /\ IsArc(present, run.oldest, run.newest)
         /\ Offset(run.oldest, run.newest) < len
<1> DEFINE lastPresent == CHOOSE n \in present : \A m \in present : m <= n
<1>1. lastPresent \in SequenceNumbers
  <2>1. Modulus - 1 \in Nat /\ present \subseteq 0..Modulus - 1
    BY ModulusAssumption DEF SequenceNumbers
  <2>2. \E n \in present : \A m \in present : m <= n
    BY <2>1, GreatestMember
  <2>3. lastPresent \in present
    BY <2>2
  <2> QED
    BY <2>3
<1>2. PICK last : last = lastPresent
  OBVIOUS
<1>3. PICK gap : gap = LargestGap(present, last)
  OBVIOUS
<1>4. run = IF gap.Length > 0
            THEN [oldest |-> (gap.Start + gap.Length) % Modulus, newest |-> CircularPrev(gap.Start)]
            ELSE [oldest |-> 0, newest |-> Modulus - 1]
  BY <1>2, <1>3 DEF LocateRunBoundaries
<1> HIDE DEF lastPresent
<1>5. PICK g : g = gap.Length
  OBVIOUS
<1>6. PICK b : b = gap.Start
  OBVIOUS
<1>7. b \in SequenceNumbers /\ g = GapLength(present, b) /\ \A m \in SequenceNumbers : GapLength(present, m) <= g
  BY <1>1, <1>2, <1>3, <1>5, <1>6, LargestGapIs
<1>8. /\ g \in 0..Modulus /\ (b + g) % Modulus \in present
      /\ \A e \in 0..g - 1 : (b + e) % Modulus \notin present
  BY <1>7, GapLengthIs
\* The arc given leaves a gap, so the largest one is at least as long.
<1>9. g >= Modulus - len
  <2>1. len \in 0..Modulus
    BY ModulusAssumption
  <2>2. PICK a : a = (o + len) % Modulus
    OBVIOUS
  <2>3. a = (IF o + len < Modulus THEN o + len ELSE o + len - Modulus) /\ a \in SequenceNumbers
    BY <2>1, <2>2, StepIs
  <2>4. PICK h : h = GapLength(present, a)
    OBVIOUS
  <2>5. h \in 0..Modulus /\ (a + h) % Modulus \in present
    BY <2>3, <2>4, GapLengthIs
  <2>6. h <= g
    BY <1>7, <2>3, <2>4
  <2>7. PICK m : m = (a + h) % Modulus
    OBVIOUS
  <2>8. m = (IF a + h < Modulus THEN a + h ELSE a + h - Modulus) /\ m \in SequenceNumbers
    BY <2>3, <2>5, <2>7, StepIs
  <2>9. Offset(o, m) < len /\ Offset(o, m) = IF m >= o THEN m - o ELSE m - o + Modulus
    BY <2>5, <2>7, <2>8, OffsetIs
  <2>10. h >= Modulus - len
    BY <2>3, <2>5, <2>8, <2>9, ModulusAssumption DEF SequenceNumbers
  <2> QED
    BY <1>8, <2>5, <2>6, <2>10, ModulusAssumption
<1>10. g > 0
  BY <1>8, <1>9, ModulusAssumption
<1>11. PICK f : f = (b + g) % Modulus
  OBVIOUS
<1>12. PICK l : l = CircularPrev(b)
  OBVIOUS
<1>13. run.oldest = f /\ run.newest = l
  BY <1>4, <1>5, <1>6, <1>10, <1>11, <1>12
<1>14. f = (IF b + g < Modulus THEN b + g ELSE b + g - Modulus) /\ f \in SequenceNumbers /\ f \in present
  BY <1>7, <1>8, <1>11, StepIs
<1>15. l = (IF b = 0 THEN Modulus - 1 ELSE b - 1) /\ l \in SequenceNumbers
  BY <1>7, <1>12, PrevIs
\* The gap is as long as the space only if nothing is present.
<1>16. g < Modulus
  <2> SUFFICES ASSUME g = Modulus
               PROVE  FALSE
    BY <1>8, ModulusAssumption
  <2>1. b \in Nat /\ Modulus \in Nat /\ ~(b + g < Modulus) /\ b + g - Modulus = b
    BY <1>7, ModulusAssumption DEF SequenceNumbers
  <2>3. f = b
    BY <1>14, <2>1
  <2>2. 0 \in 0..g - 1 /\ (b + 0) % Modulus = b
    BY <1>7, ModLow, ModulusAssumption DEF SequenceNumbers
  <2> QED
    BY <1>8, <1>14, <2>2, <2>3
\* The gap cannot be made longer by beginning one earlier.
<1>17. l \in present
  <2> SUFFICES ASSUME l \notin present
               PROVE  FALSE
    OBVIOUS
  <2>1. PICK h : h = GapLength(present, l)
    OBVIOUS
  <2>2. /\ h \in 0..Modulus /\ (l + h) % Modulus \in present /\ h <= g
    BY <1>7, <1>15, <2>1, GapLengthIs
  <2>3. PICK m : m = (l + h) % Modulus
    OBVIOUS
  <2>4. m = (IF l + h < Modulus THEN l + h ELSE l + h - Modulus) /\ m \in SequenceNumbers
    BY <1>15, <2>2, <2>3, StepIs
  <2>5. h # 0
    <3> SUFFICES ASSUME h = 0 PROVE FALSE
      OBVIOUS
    <3>1. m = l
      BY <1>15, <2>4, ModulusAssumption DEF SequenceNumbers
    <3> QED
      BY <2>2, <2>3, <3>1
  <2>6. h - 1 \in 0..g - 1 /\ h - 1 \in 0..Modulus
    BY <1>8, <2>2, <2>5, ModulusAssumption
  <2>7. (b + (h - 1)) % Modulus = IF b + (h - 1) < Modulus THEN b + (h - 1) ELSE b + (h - 1) - Modulus
    BY <1>7, <2>6, StepIs
  <2>8. (b + (h - 1)) % Modulus = m
    BY <1>7, <1>15, <2>2, <2>4, <2>5, <2>7, ModulusAssumption DEF SequenceNumbers
  <2> QED
    BY <1>8, <2>2, <2>3, <2>6, <2>8
<1>18. Offset(f, l) = Modulus - g - 1
  <2>1. Offset(f, l) = IF l >= f THEN l - f ELSE l - f + Modulus
    BY <1>14, <1>15, OffsetIs
  <2>2. b \in Nat /\ g \in Nat /\ Modulus \in Nat /\ b < Modulus /\ 0 < g /\ g < Modulus
    BY <1>7, <1>8, <1>10, <1>16, ModulusAssumption DEF SequenceNumbers
  <2>3. CASE b + g < Modulus
    <3>1. f = b + g /\ (b = 0 => l = Modulus - 1) /\ (b # 0 => l = b - 1)
      BY <1>14, <1>15, <2>3
    <3> QED
      BY <2>1, <2>2, <2>3, <3>1
  <2>4. CASE ~(b + g < Modulus)
    <3>1. f = b + g - Modulus /\ b # 0 /\ l = b - 1
      BY <1>14, <1>15, <2>2, <2>4
    <3> QED
      BY <2>1, <2>2, <2>4, <3>1
  <2> QED
    BY <2>3, <2>4
<1>19. IsArc(present, f, l)
  <2> SUFFICES ASSUME NEW n \in present, ~(Offset(f, n) <= Offset(f, l))
               PROVE  FALSE
    BY DEF IsArc
  <2>1. n \in SequenceNumbers
    OBVIOUS
  <2>2. /\ Offset(f, n) = IF n >= f THEN n - f ELSE n - f + Modulus
        /\ Offset(f, n) \in SequenceNumbers
    BY <1>14, <2>1, OffsetIs
  <2>3. PICK e : e = Offset(b, n)
    OBVIOUS
  <2>4. e = (IF n >= b THEN n - b ELSE n - b + Modulus) /\ e \in SequenceNumbers
    BY <1>7, <2>1, <2>3, OffsetIs
  <2>5. e \in 0..g - 1
    BY <1>7, <1>8, <1>14, <1>16, <1>18, <2>1, <2>2, <2>4, ModulusAssumption DEF SequenceNumbers
  <2>6. (b + e) % Modulus = n
    BY <1>7, <2>1, <2>3, OffsetStep
  <2> QED
    BY <1>8, <2>5, <2>6
<1>20. Offset(f, l) < len
  BY <1>8, <1>9, <1>18, ModulusAssumption
<1> QED
  BY <1>13, <1>14, <1>17, <1>19, <1>20
=============================================================================
