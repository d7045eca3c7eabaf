--------------------------- MODULE BlockStoreProofs ---------------------------
(***************************************************************************)
(* What the block store promises for any sizes of block, record and        *)
(* sequence space, any discard policies and any number of records, power   *)
(* cuts and damaged blocks.                                                *)
(***************************************************************************)
EXTENDS BlockStore, BlockSequenceProofs, FiniteSetTheorems

Serving == {"idle", "rotating", "draining", "evicting", "appending", "reading", "marking"}
Writing == {"rotating", "draining", "evicting", "appending"}

-----------------------------------------------------------------------------
(* Where a failed device and a change of the level may be met. *)

ControlInv ==
  /\ IsStruct(seq)
  /\ seq.ReadSequence = seq.OldestSequence
  /\ seq.EvictedUnsent \in BOOLEAN
  /\ pc = "opening" => seq = Initialised /\ reported = {}
  /\ seq.DeviceFailed => pc \in {"evicting", "frozen"}
  /\ pc \in {"scanning", "checking", "idle", "rotating", "reading", "marking"} /\ "SEAL" \notin reported =>
        seq.ThresholdCrossed = IsAboveThreshold(seq)
  /\ pc \in {"scanning", "checking", "idle", "rotating", "reading", "marking", "appending"} =>
       seq.EvictedUnsent = ("EVICTION" \in reported)

-----------------------------------------------------------------------------
(* The records of a block *)

\* A cursor on a boundary is where a record may begin.
Boundary(b, c) == c = 0 \/ \E r \in b.recs : End(r) = c

\* Records lie end to end from the start of the block, and only the last may be
\* cut short.
Tiled(b) ==
  /\ \A r \in b.recs : r.at < b.size /\ End(r) <= MaxBlockSize
  /\ \A r, q \in b.recs : r # q => End(r) <= q.at \/ End(q) <= r.at
  /\ \A c \in 0..b.size - 1 : b.recs # {} /\ Boundary(b, c) => \E r \in b.recs : r.at = c

\* Every record is whole, its header reads, and the block ends with one.
IsSound(b) ==
  /\ \A r \in b.recs : End(r) <= b.size /\ r.state # "DAMAGED"
  /\ Boundary(b, b.size)

-----------------------------------------------------------------------------
(* The medium *)

\* There are more sequence numbers than blocks can ever lie between the oldest
\* and the newest one.
Room == MaxBlocks + MaxCrashes + MaxDamage < Modulus

Fates == {"new", "offered", "refused", "kept", "lost", "evicted", "ruined", "sent"}

MediumTypes ==
  /\ Room
  /\ media \in [SequenceNumbers -> Blocks \cup {NoBlock}]
  /\ fate \in [Ids -> Fates]
  /\ crashes \in 0..MaxCrashes /\ damage \in 0..MaxDamage

MediaInv == \A n \in Present : Tiled(media[n])

\* A record is on the media once, and not before it is offered.
IdsInv ==
  /\ \A n, m \in Present : \A r \in media[n].recs, q \in media[m].recs : r.id = q.id => n = m /\ r = q
  /\ \A n \in Present : \A r \in media[n].recs : fate[r.id] # "new"

\* What lies behind a header that does not read is given up.
DamageInv ==
  \A n \in Present : \A r, q \in media[n].recs :
    r.state = "DAMAGED" /\ r.at <= q.at => fate[q.id] # "kept"

MediumInv == MediumTypes /\ MediaInv /\ IdsInv /\ DamageInv

-----------------------------------------------------------------------------
(* The run *)

Bound == MaxBlocks + crashes + damage

StructTypes ==
  /\ seq.BlockPresent \subseteq SequenceNumbers
  /\ {seq.OldestSequence, seq.ReadSequence, seq.WriteSequence} \subseteq SequenceNumbers
  /\ seq.ReadCursor \in 0..MaxBlockSize /\ seq.WritePosition \in 0..MaxBlockSize
  /\ seq.ReadBlockSize \in SizeUnknown..MaxBlockSize

RunInv == Running =>
  /\ seq.BlockPresent \subseteq Present
  /\ Present \subseteq seq.BlockPresent \cup {NextSequence(seq.WriteSequence)}
  /\ {seq.OldestSequence, seq.WriteSequence} \subseteq seq.BlockPresent
  /\ IsArc(seq.BlockPresent, seq.OldestSequence, seq.WriteSequence)
  /\ BlockCount(seq) <= Bound + (IF pc \in {"draining", "evicting"} THEN 1 ELSE 0)
  /\ \A n \in Present \ seq.BlockPresent : media[n].recs = {} /\ BlockCount(seq) + 1 <= Bound

\* While the store is down the blocks lie in an arc no longer than the bound.
DownInv == ~Running =>
  \E o \in SequenceNumbers : \A n \in Present : Offset(o, n) < Bound + (IF pc = "frozen" THEN 1 ELSE 0)

PositionInv == Running =>
  /\ seq.WritePosition = media[seq.WriteSequence].size
  /\ seq.ReadBlockSize # SizeUnknown =>
       seq.ReadSequence # seq.WriteSequence /\ seq.ReadBlockSize = ReadBlock.size

\* The cursor is on a boundary, or at the end of a block that has been given up.
CursorInv ==
  /\ Running =>
       /\ seq.ReadCursor <= ReadBlock.size
       /\ \/ Boundary(ReadBlock, seq.ReadCursor)
          \/ /\ seq.ReadCursor = ReadBlock.size
             /\ seq.ReadSequence = seq.WriteSequence => seq.WriteBlockCorrupt
  /\ pc = "scanning" => seq.ReadCursor = 0
  /\ pc = "checking" /\ seq.ReadSequence = seq.WriteSequence =>
       seq.WriteBlockCorrupt \/ \A r \in ReadBlock.recs : r.at < seq.ReadCursor => r.state # "DAMAGED"

-----------------------------------------------------------------------------
(* The record being written, the record handed out, and the records kept *)

\* A write block that does not end with a whole record is closed.
WriteBlockInv ==
  pc \in Serving => seq.WriteBlockCorrupt \/ IsSound(media[seq.WriteSequence])

WritingInv ==
  /\ pc \in Writing =>
       /\ writing.id \in Ids /\ writing.bytes \in RecordSizes
       /\ fate[writing.id] = "offered"
       /\ \A n \in Present : \A r \in media[n].recs : r.id # writing.id
  /\ pc = "appending" => ~seq.WriteBlockCorrupt /\ seq.WritePosition + writing.bytes <= MaxBlockSize
  /\ pc \in {"draining", "evicting"} => ~seq.WriteBlockCorrupt /\ seq.WritePosition = 0

\* The record handed out is still where it was read from.
LastReadInv ==
  /\ delivered \in {0} \cup Ids
  /\ pc \in {"opening", "scanning", "checking", "reading", "marking"} => delivered = 0
  /\ /\ pc \in {"idle", "rotating", "appending"} \/ (pc \in {"draining", "evicting"} /\ ~readBlockChanged)
     /\ delivered # 0 /\ lastRead # NothingRead
     =>
       /\ lastRead.block = seq.ReadSequence /\ lastRead.next <= ReadBlock.size
       /\ \E r \in ReadBlock.recs : r.id = delivered /\ r.at = seq.ReadCursor /\ End(r) = lastRead.next

\* Record r of block b can still be sent.
IsSendable(b, r) == r.flag # "SENT" /\ r.state = "OK" /\ End(r) <= b.size

KeptInv ==
  \A id \in Ids : fate[id] = "kept" =>
    \E n \in Present : \E r \in media[n].recs :
      /\ r.id = id /\ IsSendable(media[n], r)
      /\ Running /\ n = seq.ReadSequence => seq.ReadCursor <= r.at

OtherTypes ==
  /\ pc \in Serving \cup {"opening", "scanning", "checking", "frozen"}
  /\ reported \subseteq {"REFUSAL", "EVICTION", "SEAL", "LOSS"}

WhereInv == StructTypes /\ RunInv /\ DownInv /\ PositionInv /\ CursorInv
CallInv == OtherTypes /\ WriteBlockInv /\ WritingInv /\ LastReadInv /\ KeptInv
IInv == ControlInv /\ MediumInv /\ WhereInv /\ CallInv

-----------------------------------------------------------------------------
(* The latches, and a device that has failed *)

Level == {"scanning", "checking", "idle", "rotating", "reading", "marking"}

LEMMA InitControl == Init => ControlInv
<1> SUFFICES ASSUME Init PROVE ControlInv
  OBVIOUS
<1>1. /\ IsStruct(seq) /\ seq.ReadSequence = seq.OldestSequence
      /\ seq.EvictedUnsent = FALSE /\ seq.DeviceFailed = FALSE
  BY InitialisedFields DEF Init
<1>2. pc = "opening" /\ reported = {} /\ seq = Initialised
  BY DEF Init
<1> QED
  BY <1>1, <1>2 DEF ControlInv

\* A step after which the store is frozen or restarted keeps the invariant.
LEMMA FrozenControl ==
  ASSUME ControlInv, pc' = "frozen", seq' = seq \/ seq' = NoteDeviceFailure(seq)
  PROVE  ControlInv'
<1>1. IsStruct(seq') /\ SameRun(seq, seq') /\ SameRead(seq, seq') /\ SameLatches(seq, seq')
  <2>1. CASE seq' = seq
    BY <2>1 DEF ControlInv, SameRun, SameRead, SameLatches
  <2>2. CASE seq' = NoteDeviceFailure(seq)
    BY <2>2, NoteDeviceFailureFields DEF ControlInv
  <2> QED
    BY <2>1, <2>2
<1> QED
  BY <1>1 DEF ControlInv, SameRun, SameRead, SameLatches

\* The struct moves within the read block: nothing the latches depend on changes.
ReadMoves(s, t) ==
  /\ IsStruct(t) /\ SameRun(s, t) /\ t.ReadSequence = s.ReadSequence /\ SameLatches(s, t)
  /\ t.WritePosition = s.WritePosition /\ t.DeviceFailed = s.DeviceFailed

LEMMA ReadMovesControl ==
  ASSUME ControlInv, ReadMoves(seq, seq'), pc \in Level, pc' \in Level,
         reported' \in {reported, reported \cup {"LOSS"}, reported \ {"LOSS"}}
  PROVE  ControlInv'
<1>1. IsAboveThreshold(seq') = IsAboveThreshold(seq)
  BY LevelDepends DEF ReadMoves, SameRun, SameLatches
<1>2. /\ "SEAL" \in reported' <=> "SEAL" \in reported
      /\ ("EVICTION" \in reported') = ("EVICTION" \in reported)
  OBVIOUS
<1>3. /\ IsStruct(seq') /\ seq'.ReadSequence = seq'.OldestSequence
      /\ seq'.EvictedUnsent \in BOOLEAN
  BY DEF ControlInv, ReadMoves, SameRun, SameLatches
<1>4. pc' # "opening" /\ ~seq'.DeviceFailed
  BY DEF ControlInv, ReadMoves, Level
<1>5. "SEAL" \notin reported' => seq'.ThresholdCrossed = IsAboveThreshold(seq')
  BY <1>1, <1>2 DEF ControlInv, ReadMoves, SameLatches, Level
<1>6. seq'.EvictedUnsent = ("EVICTION" \in reported')
  BY <1>2 DEF ControlInv, ReadMoves, SameLatches, Level
<1> QED
  BY <1>3, <1>4, <1>5, <1>6 DEF ControlInv

\* The latch is brought up to date.
LEMMA NotifiedControl ==
  ASSUME ControlInv, IsStruct(seq'), seq'.ReadSequence = seq'.OldestSequence, pc' \in Level,
         seq'.ThresholdCrossed = IsAboveThreshold(seq'), seq'.EvictedUnsent = seq.EvictedUnsent,
         ~seq'.DeviceFailed, pc \in Level \cup {"opening", "appending"},
         ("EVICTION" \in reported') = ("EVICTION" \in reported)
  PROVE  ControlInv'
<1>1. seq.EvictedUnsent = ("EVICTION" \in reported)
  <2>1. CASE pc = "opening"
    BY <2>1, InitialisedFields DEF ControlInv
  <2>2. CASE pc # "opening"
    BY <2>2 DEF ControlInv, Level
  <2> QED
    BY <2>1, <2>2
<1>2. seq'.EvictedUnsent = ("EVICTION" \in reported') /\ seq'.EvictedUnsent \in BOOLEAN
  BY <1>1 DEF ControlInv
<1>3. pc' # "opening"
  BY DEF Level
<1> QED
  BY <1>2, <1>3 DEF ControlInv

\* The size of the read block is asked for and remembered.
LEMMA SizedMoves ==
  ASSUME ControlInv, NEW n, NEW s, s = WithReadBlockSize(seq, n)
  PROVE  ReadMoves(seq, s) /\ s.ReadCursor = seq.ReadCursor /\ SameWrite(seq, s)
<1>1. IsStruct(seq)
  BY DEF ControlInv
<1> QED
  BY <1>1, WithReadBlockSizeFields DEF ReadMoves, SameWrite

LEMMA DisposedControl ==
  ASSUME ControlInv, NEW s, ReadMoves(seq, s), seq' = DisposeReadBlock(s), pc \in Level, pc' \in Level,
         reported' \in {reported, reported \cup {"LOSS"}}
  PROVE  ControlInv'
<1>1. IsStruct(s) /\ s.ReadSequence = s.OldestSequence
  BY DEF ControlInv, ReadMoves, SameRun
<1>2. /\ IsStruct(seq') /\ seq'.ReadSequence = seq'.OldestSequence
      /\ seq'.EvictedUnsent = s.EvictedUnsent /\ seq'.DeviceFailed = s.DeviceFailed
      /\ seq'.ThresholdCrossed = IsAboveThreshold(seq')
  BY <1>1, DisposeReadBlockFields
<1>3. seq'.EvictedUnsent = seq.EvictedUnsent /\ seq'.DeviceFailed = seq.DeviceFailed
  BY <1>2 DEF ReadMoves, SameLatches
<1>4. ~seq'.DeviceFailed
  BY <1>3 DEF ControlInv, Level
<1>5. ("EVICTION" \in reported') = ("EVICTION" \in reported)
  OBVIOUS
<1> QED
  BY <1>2, <1>3, <1>4, <1>5, NotifiedControl

LEMMA FailedControl ==
  ASSUME ControlInv, NEW s, ReadMoves(seq, s), seq' = NoteDeviceFailure(s), pc' = "frozen"
  PROVE  ControlInv'
<1>1. IsStruct(seq') /\ SameRun(s, seq') /\ SameRead(s, seq') /\ SameLatches(s, seq')
  BY NoteDeviceFailureFields DEF ReadMoves
<1> QED
  BY <1>1 DEF ControlInv, ReadMoves, SameRun, SameRead, SameLatches

LEMMA LeaveControl ==
  ASSUME ControlInv, NEW s, ReadMoves(seq, s), NEW ok \in BOOLEAN, LeaveReadBlock(s, ok),
         pc \in Level, ok => pc' \in Level, ~ok => pc' = "frozen",
         reported' \in {reported, reported \cup {"LOSS"}}
  PROVE  ControlInv'
<1>1. CASE ok
  <2>1. seq' = DisposeReadBlock(s) /\ pc' \in Level
    BY <1>1 DEF LeaveReadBlock
  <2> QED
    BY <2>1, DisposedControl
<1>2. CASE ~ok
  <2>1. seq' = NoteDeviceFailure(s) /\ pc' = "frozen"
    BY <1>2 DEF LeaveReadBlock
  <2> QED
    BY <2>1, FailedControl
<1> QED
  BY <1>1, <1>2

LEMMA AbandonControl ==
  ASSUME ControlInv, NEW s, ReadMoves(seq, s), NEW ok \in BOOLEAN,
         NEW onward \in Level, NEW done \in Level, pc \in Level,
         AbandonRestOfReadBlock(s, ok, onward, done)
  PROVE  ControlInv'
<1>1. CASE LeaveReadBlock(s, ok) /\ pc' = (IF ok THEN onward ELSE "frozen")
           /\ reported' = IF ok THEN reported \cup {"LOSS"} ELSE reported
  BY <1>1, LeaveControl
<1>2. CASE /\ seq' = [s EXCEPT !.ReadCursor = s.WritePosition, !.WriteBlockCorrupt = TRUE]
           /\ pc' = done /\ reported' = reported \cup {"LOSS"}
  <2>1. ReadMoves(s, seq')
    BY <1>2 DEF ReadMoves, IsStruct, SameRun, SameLatches
  <2>2. ReadMoves(seq, seq')
    BY <2>1 DEF ReadMoves, SameRun, SameLatches
  <2> QED
    BY <1>2, <2>2, ReadMovesControl
<1> QED
  BY <1>1, <1>2 DEF AbandonRestOfReadBlock

LEMMA OpenControl == ASSUME ControlInv, NEW ok \in BOOLEAN, Open(ok) PROVE ControlInv'
<1>1. pc = "opening" /\ seq = Initialised /\ reported' = reported
  BY DEF Open, ControlInv
<1>2. CASE ~ok
  BY <1>2, FrozenControl DEF Open
<1>3. CASE ok /\ Present # {}
  <2>1. PICK run : run = LocateRunBoundaries(Present)
    OBVIOUS
  <2>2. PICK k : k = StartReadingBlock(seq, run.oldest)
    OBVIOUS
  <2>3. PICK s : s = ScanForExistingBlocks(seq, Present)
    OBVIOUS
  <2>4. s = [k EXCEPT !.BlockPresent = Present, !.OldestSequence = run.oldest, !.WriteSequence = run.newest]
    BY <2>1, <2>2, <2>3 DEF ScanForExistingBlocks
  <2>5. IsStruct(seq) /\ ~seq.DeviceFailed
    BY <1>1, InitialisedFields
  <2>6. IsStruct(k) /\ k.ReadSequence = run.oldest /\ SameLatches(seq, k) /\ k.DeviceFailed = seq.DeviceFailed
    BY <2>2, <2>5, StartReadingFields
  <2>7. /\ IsStruct(s) /\ s.ReadSequence = s.OldestSequence
        /\ s.EvictedUnsent = seq.EvictedUnsent /\ s.DeviceFailed = seq.DeviceFailed
    BY <2>4, <2>6 DEF IsStruct, SameLatches
  <2>8. PICK j : j = [s EXCEPT !.WritePosition = media[s.WriteSequence].size]
    OBVIOUS
  <2>9. /\ IsStruct(j) /\ j.ReadSequence = j.OldestSequence
        /\ j.EvictedUnsent = seq.EvictedUnsent /\ j.DeviceFailed = seq.DeviceFailed
    BY <2>7, <2>8 DEF IsStruct
  <2>10. seq' = NotifyThresholdCrossed(j) /\ pc' = "scanning"
    BY <1>3, <2>3, <2>8 DEF Open
  <2>11. /\ IsStruct(seq') /\ seq'.ReadSequence = seq'.OldestSequence
         /\ seq'.EvictedUnsent = seq.EvictedUnsent /\ seq'.DeviceFailed = seq.DeviceFailed
         /\ seq'.ThresholdCrossed = IsAboveThreshold(seq')
    BY <2>9, <2>10, NotifyFields DEF SameRun, SameRead
  <2> QED
    BY <1>1, <2>5, <2>10, <2>11, NotifiedControl DEF Level
<1>4. CASE ok /\ Present = {}
  <2>1. PICK k : k = Acquired(seq, 0)
    OBVIOUS
  <2>2. IsStruct(seq) /\ ~seq.DeviceFailed /\ seq.ReadSequence = seq.OldestSequence
    BY <1>1, InitialisedFields
  <2>3. /\ IsStruct(k) /\ k.ReadSequence = k.OldestSequence
        /\ k.EvictedUnsent = seq.EvictedUnsent /\ k.DeviceFailed = seq.DeviceFailed
    BY <2>1, <2>2, AcquiredFields DEF SameRead, SameLatches
  <2>4. seq' = NotifyThresholdCrossed(k) /\ pc' = "scanning"
    BY <1>4, <2>1 DEF Open
  <2>5. /\ IsStruct(seq') /\ seq'.ReadSequence = seq'.OldestSequence
        /\ seq'.EvictedUnsent = seq.EvictedUnsent /\ seq'.DeviceFailed = seq.DeviceFailed
        /\ seq'.ThresholdCrossed = IsAboveThreshold(seq')
    BY <2>3, <2>4, NotifyFields DEF SameRun, SameRead
  <2> QED
    BY <1>1, <2>2, <2>4, <2>5, NotifiedControl DEF Level
<1> QED
  BY <1>2, <1>3, <1>4

LEMMA ScanControl == ASSUME ControlInv, NEW ok \in BOOLEAN, ScanReadBlock(ok) PROVE ControlInv'
<1>1. PICK sized : sized = WithReadBlockSize(seq, ReadBlock.size)
  OBVIOUS
<1>2. PICK found : found = FindFirstUnsent(ReadBlock, ReadBlockSize(sized))
  OBVIOUS
<1>3. PICK s : s = [sized EXCEPT !.ReadCursor = found.cursor]
  OBVIOUS
<1>4. ReadMoves(seq, sized)
  BY <1>1, SizedMoves
<1>5. ReadMoves(seq, s)
  <2>1. ReadMoves(sized, s)
    BY <1>3, <1>4, CursorFields DEF ReadMoves, SameWrite
  <2> QED
    BY <1>4, <2>1 DEF ReadMoves, SameRun, SameLatches
<1>6. /\ pc = "scanning"
      /\ \/ DeviceFails
         \/ seq' = s /\ pc' = "checking" /\ reported' = reported
         \/ AbandonRestOfReadBlock(s, ok, "scanning", "checking")
  BY <1>1, <1>2, <1>3 DEF ScanReadBlock
<1>7. CASE DeviceFails
  BY <1>7, FrozenControl DEF DeviceFails
<1>8. CASE seq' = s /\ pc' = "checking" /\ reported' = reported
  BY <1>5, <1>6, <1>8, ReadMovesControl DEF Level
<1>9. CASE AbandonRestOfReadBlock(s, ok, "scanning", "checking")
  BY <1>5, <1>6, <1>9, AbandonControl DEF Level
<1> QED
  BY <1>6, <1>7, <1>8, <1>9

LEMMA CheckControl == ASSUME ControlInv, NEW ok \in BOOLEAN, CheckWriteBlock(ok) PROVE ControlInv'
<1>1. CASE ok
  <2>1. PICK c : seq' = [seq EXCEPT !.WriteBlockCorrupt = c]
    BY <1>1 DEF CheckWriteBlock
  <2>2. pc = "checking" /\ pc' = "idle" /\ reported' = reported
    BY <1>1 DEF CheckWriteBlock
  <2>3. ReadMoves(seq, seq')
    BY <2>1 DEF ControlInv, ReadMoves, IsStruct, SameRun, SameLatches
  <2> QED
    BY <2>2, <2>3, ReadMovesControl DEF Level
<1>2. CASE ~ok
  BY <1>2, FrozenControl DEF CheckWriteBlock, DeviceFails
<1> QED
  BY <1>1, <1>2

LEMMA ReadCurrentControl ==
  ASSUME ControlInv, NEW ok \in BOOLEAN, NEW opens \in BOOLEAN, ReadCurrent(ok, opens)
  PROVE  ControlInv'
<1>1. PICK s : s = WithReadBlockSize(seq, ReadBlock.size)
  OBVIOUS
<1>2. ReadMoves(seq, s)
  BY <1>1, SizedMoves
<1>3. PICK r : r = RecordAt(ReadBlock, s.ReadCursor)
  OBVIOUS
<1>4. /\ pc = "reading"
      /\ \/ DeviceFails
         \/ seq' = s /\ pc' = "idle" /\ reported' \in {reported, reported \ {"LOSS"}}
         \/ StepPastCurrent(s, r) /\ reported' \in {reported, reported \cup {"LOSS"}}
         \/ LeaveReadBlock(s, ok) /\ pc' = (IF ok THEN "reading" ELSE "frozen") /\ reported' = reported
         \/ AbandonRestOfReadBlock(s, ok, "reading", "idle")
  BY <1>1, <1>3 DEF ReadCurrent
<1>5. CASE DeviceFails
  BY <1>5, FrozenControl DEF DeviceFails
<1>6. CASE seq' = s /\ pc' = "idle" /\ reported' \in {reported, reported \ {"LOSS"}}
  BY <1>2, <1>4, <1>6, ReadMovesControl DEF Level
<1>7. CASE StepPastCurrent(s, r) /\ reported' \in {reported, reported \cup {"LOSS"}}
  <2>1. PICK c : seq' = [s EXCEPT !.ReadCursor = c]
    BY <1>7 DEF StepPastCurrent
  <2>2. ReadMoves(s, seq')
    BY <1>2, <2>1 DEF ReadMoves, IsStruct, SameRun, SameLatches
  <2>3. ReadMoves(seq, seq')
    BY <1>2, <2>2 DEF ReadMoves, SameRun, SameLatches
  <2>4. pc' = pc
    BY <1>7 DEF StepPastCurrent
  <2> QED
    BY <1>4, <1>7, <2>3, <2>4, ReadMovesControl DEF Level
<1>8. CASE LeaveReadBlock(s, ok) /\ pc' = (IF ok THEN "reading" ELSE "frozen") /\ reported' = reported
  <2>1. (ok => pc' \in Level) /\ (~ok => pc' = "frozen") /\ pc \in Level
    BY <1>4, <1>8 DEF Level
  <2> QED
    BY <1>2, <1>8, <2>1, LeaveControl
<1>9. CASE AbandonRestOfReadBlock(s, ok, "reading", "idle")
  BY <1>2, <1>4, <1>9, AbandonControl DEF Level
<1> QED
  BY <1>4, <1>5, <1>6, <1>7, <1>8, <1>9

LEMMA WriteControl ==
  ASSUME ControlInv, NEW id, NEW bytes, NEW policy, Write(id, bytes, policy)
  PROVE  ControlInv'
<1>1. pc = "idle" /\ IsStruct(seq) /\ ~seq.DeviceFailed
  BY DEF Write, ControlInv
<1>2. CASE seq' = Refused(seq) /\ reported' = reported \cup {"REFUSAL"} /\ UNCHANGED pc
  <2>1. /\ IsStruct(seq') /\ SameRun(seq, seq') /\ SameRead(seq, seq')
        /\ seq'.EvictedUnsent = seq.EvictedUnsent /\ seq'.DeviceFailed = seq.DeviceFailed
        /\ seq'.ThresholdCrossed = IsAboveThreshold(seq')
    BY <1>1, <1>2, RefusedFields
  <2>2. seq'.ReadSequence = seq'.OldestSequence
    BY <2>1 DEF ControlInv, SameRun, SameRead
  <2>3. ("EVICTION" \in reported') = ("EVICTION" \in reported)
    BY <1>2
  <2> QED
    BY <1>1, <1>2, <2>1, <2>2, <2>3, NotifiedControl DEF Level
<1>3. CASE pc' = "rotating" /\ UNCHANGED <<seq, reported>>
  BY <1>1, <1>3 DEF ControlInv
<1>4. CASE ReadyToAppend(seq, FALSE) /\ UNCHANGED seq
  <2>1. pc' = "appending" /\ ("EVICTION" \in reported') = seq.EvictedUnsent
    BY <1>1, <1>4 DEF ReadyToAppend, ControlInv
  <2> QED
    BY <1>1, <1>4, <2>1 DEF ControlInv
<1> QED
  BY <1>2, <1>3, <1>4 DEF Write

LEMMA DisposeStaleControl == ASSUME ControlInv, NEW ok \in BOOLEAN, DisposeStaleBlock(ok) PROVE ControlInv'
<1>1. pc = "rotating" /\ reported' = reported /\ IsStruct(seq)
  BY DEF DisposeStaleBlock, ControlInv
<1>2. CASE ok
  <2>1. PICK n : seq' = Disposed(seq, n)
    BY <1>2 DEF DisposeStaleBlock
  <2>2. pc' = "rotating"
    BY <1>1, <1>2 DEF DisposeStaleBlock
  <2>3. /\ IsStruct(seq') /\ SameRead(seq, seq') /\ SameWrite(seq, seq') /\ SameLatches(seq, seq')
        /\ seq'.OldestSequence = seq.OldestSequence
        /\ seq'.WriteSequence = seq.WriteSequence /\ seq'.DeviceFailed = seq.DeviceFailed
    BY <1>1, <2>1, DisposedFields
  <2>4. IsAboveThreshold(seq') = IsAboveThreshold(seq)
    BY <2>3, LevelDepends DEF SameWrite, SameLatches
  <2>5. /\ seq'.ReadSequence = seq'.OldestSequence /\ seq'.EvictedUnsent = seq.EvictedUnsent
        /\ seq'.ThresholdCrossed = seq.ThresholdCrossed
    BY <2>3 DEF ControlInv, SameRead, SameLatches
  <2> QED
    BY <1>1, <2>2, <2>3, <2>4, <2>5 DEF ControlInv
<1>3. CASE ~ok
  BY <1>3, FrozenControl DEF DisposeStaleBlock
<1> QED
  BY <1>2, <1>3

LEMMA AcquireControl == ASSUME ControlInv, NEW ok \in BOOLEAN, AcquireBlock(ok) PROVE ControlInv'
<1>1. pc = "rotating" /\ IsStruct(seq) /\ ~seq.DeviceFailed
  BY DEF AcquireBlock, ControlInv
<1>2. CASE ok
  <2>1. PICK n : n = NextSequence(seq.WriteSequence)
    OBVIOUS
  <2>2. seq' = Rotated(seq, n) /\ pc' = "draining"
    BY <1>2, <2>1 DEF AcquireBlock, Rotated
  <2>3. IsRotation(seq, n, seq')
    BY <1>1, <2>2, RotatedFields
  <2> QED
    BY <1>1, <2>2, <2>3 DEF ControlInv, SameRead, IsRotation
<1>3. CASE ~ok
  BY <1>3, FrozenControl DEF AcquireBlock
<1> QED
  BY <1>2, <1>3

\* DisposeReadBlockIfDrained leaves a struct whose read is on the oldest block.
LEMMA DrainedFields ==
  ASSUME ControlInv, NEW ok \in BOOLEAN, DisposeReadBlockIfDrained(ok)
  PROVE  \/ ~ok /\ seq' = NoteDeviceFailure(seq)
         \/ ok /\ \E s : ReadMoves(seq, s) /\ (seq' = s \/ seq' = DisposeReadBlock(s))
<1>1. PICK s : s = WithReadBlockSize(seq, ReadBlock.size)
  OBVIOUS
<1>2. ReadMoves(seq, s)
  BY <1>1, SizedMoves
<1> QED
  BY <1>1, <1>2 DEF DisposeReadBlockIfDrained

LEMMA DrainAfterRotationControl ==
  ASSUME ControlInv, NEW ok \in BOOLEAN, DrainAfterRotation(ok) PROVE ControlInv'
<1>1. pc = "draining" /\ pc' = "evicting" /\ DisposeReadBlockIfDrained(ok)
  BY DEF DrainAfterRotation
<1>2. IsStruct(seq') /\ seq'.ReadSequence = seq'.OldestSequence /\ seq'.EvictedUnsent = seq.EvictedUnsent
  <2>1. CASE seq' = NoteDeviceFailure(seq)
    <3>1. IsStruct(seq') /\ SameRun(seq, seq') /\ SameRead(seq, seq') /\ SameLatches(seq, seq')
      BY <2>1, NoteDeviceFailureFields DEF ControlInv
    <3> QED
      BY <3>1 DEF ControlInv, SameRun, SameRead, SameLatches
  <2>2. CASE \E s : ReadMoves(seq, s) /\ (seq' = s \/ seq' = DisposeReadBlock(s))
    <3>1. PICK s : ReadMoves(seq, s) /\ (seq' = s \/ seq' = DisposeReadBlock(s))
      BY <2>2
    <3>2. IsStruct(s) /\ s.ReadSequence = s.OldestSequence /\ s.EvictedUnsent = seq.EvictedUnsent
      BY <3>1 DEF ControlInv, ReadMoves, SameRun, SameLatches
    <3>3. CASE seq' = s
      BY <3>2, <3>3
    <3>4. CASE seq' = DisposeReadBlock(s)
      <4>1. /\ IsStruct(seq') /\ seq'.ReadSequence = seq'.OldestSequence
            /\ seq'.EvictedUnsent = s.EvictedUnsent
        BY <3>2, <3>4, DisposeReadBlockFields
      <4> QED
        BY <3>2, <4>1
    <3> QED
      BY <3>1, <3>3, <3>4
  <2> QED
    BY <1>1, <2>1, <2>2, DrainedFields
<1> QED
  BY <1>1, <1>2 DEF ControlInv

LEMMA DrainAfterMarkControl ==
  ASSUME ControlInv, NEW ok \in BOOLEAN, DrainAfterMark(ok) PROVE ControlInv'
<1>1. /\ pc = "marking" /\ DisposeReadBlockIfDrained(ok) /\ reported' = reported
      /\ pc' = IF seq'.DeviceFailed THEN "frozen" ELSE "idle"
  BY DEF DrainAfterMark
<1>2. CASE ~ok /\ seq' = NoteDeviceFailure(seq)
  <2>1. seq'.DeviceFailed
    BY <1>2, NoteDeviceFailureFields DEF ControlInv
  <2> QED
    BY <1>1, <1>2, <2>1, FrozenControl
<1>3. CASE ok /\ \E s : ReadMoves(seq, s) /\ (seq' = s \/ seq' = DisposeReadBlock(s))
  <2>1. PICK s : ReadMoves(seq, s) /\ (seq' = s \/ seq' = DisposeReadBlock(s))
    BY <1>3
  <2>2. ~s.DeviceFailed /\ IsStruct(s) /\ s.ReadSequence = s.OldestSequence
    BY <1>1, <2>1 DEF ControlInv, ReadMoves, SameRun
  <2>3. CASE seq' = s
    BY <1>1, <2>1, <2>2, <2>3, ReadMovesControl DEF Level
  <2>4. CASE seq' = DisposeReadBlock(s)
    <3>1. ~seq'.DeviceFailed
      BY <2>2, <2>4, DisposeReadBlockFields
    <3> QED
      BY <1>1, <2>1, <2>4, <3>1, DisposedControl DEF Level
  <2> QED
    BY <2>1, <2>3, <2>4
<1> QED
  BY <1>1, <1>2, <1>3, DrainedFields

LEMMA EvictControl == ASSUME ControlInv, NEW ok \in BOOLEAN, EvictAfterRotation(ok) PROVE ControlInv'
<1>1. PICK s : s = IF ~Evicts(seq) THEN seq ELSE IF ok THEN DiscardOldestBlock(seq) ELSE NoteDeviceFailure(seq)
  OBVIOUS
<1>2. /\ pc = "evicting" /\ seq' = s
      /\ \/ s.DeviceFailed /\ pc' = "frozen"
         \/ ~s.DeviceFailed /\ ReadyToAppend(s, readBlockChanged \/ Evicts(seq))
  BY <1>1 DEF EvictAfterRotation
<1>3. IsStruct(s) /\ s.ReadSequence = s.OldestSequence /\ s.EvictedUnsent \in BOOLEAN
  <2>1. CASE s = seq
    BY <2>1 DEF ControlInv
  <2>2. CASE s = DiscardOldestBlock(seq)
    <3>1. IsStruct(seq)
      BY DEF ControlInv
    <3>2. IsStruct(s) /\ s.ReadSequence = s.OldestSequence /\ s.EvictedUnsent = TRUE
      BY <2>2, <3>1, DiscardOldestFields
    <3> QED
      BY <3>2
  <2>3. CASE s = NoteDeviceFailure(seq)
    <3>1. IsStruct(seq)
      BY DEF ControlInv
    <3>2. IsStruct(s) /\ SameRun(seq, s) /\ SameRead(seq, s) /\ SameLatches(seq, s)
      BY <2>3, <3>1, NoteDeviceFailureFields
    <3> QED
      BY <3>2 DEF ControlInv, SameRun, SameRead, SameLatches
  <2> QED
    BY <1>1, <2>1, <2>2, <2>3
<1>4. CASE s.DeviceFailed /\ pc' = "frozen"
  BY <1>2, <1>3, <1>4 DEF ControlInv
<1>5. CASE ~s.DeviceFailed /\ ReadyToAppend(s, readBlockChanged \/ Evicts(seq))
  <2>1. pc' = "appending" /\ ("EVICTION" \in reported') = s.EvictedUnsent
    BY <1>3, <1>5 DEF ReadyToAppend
  <2> QED
    BY <1>2, <1>3, <1>5, <2>1 DEF ControlInv
<1> QED
  BY <1>2, <1>4, <1>5

LEMMA AppendControl == ASSUME ControlInv, AppendKept \/ AppendFails \/ SealFails PROVE ControlInv'
<1>1. pc = "appending"
  BY DEF AppendKept, AppendFails, SealFails
<1>2. CASE AppendKept
  <2>1. PICK n : seq' = NoteRecordWritten(seq, n)
    BY <1>2 DEF AppendKept
  <2>2. pc' = "idle" /\ reported' = reported \ {"REFUSAL", "SEAL"}
    BY <1>2 DEF AppendKept
  <2>3. IsStruct(seq) /\ ~seq.DeviceFailed
    BY <1>1 DEF ControlInv
  <2>4. /\ IsStruct(seq') /\ SameRun(seq, seq') /\ SameRead(seq, seq')
        /\ seq'.EvictedUnsent = seq.EvictedUnsent /\ seq'.DeviceFailed = seq.DeviceFailed
        /\ seq'.ThresholdCrossed = IsAboveThreshold(seq')
    BY <2>1, <2>3, NoteRecordWrittenFields
  <2>5. seq'.ReadSequence = seq'.OldestSequence
    BY <2>4 DEF ControlInv, SameRun, SameRead
  <2>6. ("EVICTION" \in reported') = ("EVICTION" \in reported)
    BY <2>2
  <2> QED
    BY <1>1, <2>2, <2>3, <2>4, <2>5, <2>6, NotifiedControl DEF Level
<1>3. CASE AppendFails
  BY <1>3, FrozenControl DEF AppendFails
<1>4. CASE SealFails
  <2>1. pc' = "idle" /\ seq' = seq /\ "SEAL" \in reported' /\ ("EVICTION" \in reported') = ("EVICTION" \in reported)
    BY <1>4 DEF SealFails
  <2> QED
    BY <1>1, <2>1 DEF ControlInv
<1> QED
  BY <1>2, <1>3, <1>4

LEMMA OthersControl ==
  ASSUME ControlInv,
         \/ ReadNextUnsent \/ MarkSent \/ Restart \/ StaleBlock
         \/ \E flag \in {"UNSENT", "HALF", "SENT"} : MarkSentFails(flag)
         \/ \E n \in Present : \/ \E r \in media[n].recs, state \in {"DAMAGED", "REJECTED"} : DamageRecord(n, r, state)
                               \/ RemoveBlock(n)
  PROVE  ControlInv'
<1>1. CASE ReadNextUnsent
  BY <1>1 DEF ReadNextUnsent, ControlInv
<1>2. CASE MarkSent
  <2>1. pc = "idle" /\ reported' = reported
    BY <1>2 DEF MarkSent
  <2>2. CASE lastRead = NothingRead
    BY <1>2, <2>1, <2>2 DEF MarkSent, ControlInv
  <2>3. CASE lastRead # NothingRead
    <3>1. pc' = "marking" /\ seq' = [seq EXCEPT !.ReadCursor = lastRead.next]
      BY <1>2, <2>3 DEF MarkSent
    <3>2. PICK c : seq' = [seq EXCEPT !.ReadCursor = c]
      BY <3>1
    <3>3. ReadMoves(seq, seq')
      BY <3>2 DEF ControlInv, ReadMoves, IsStruct, SameRun, SameLatches
    <3> QED
      BY <2>1, <3>1, <3>3, ReadMovesControl DEF Level
  <2> QED
    BY <2>2, <2>3
<1>3. CASE Restart
  <2>1. seq' = Initialised /\ reported' = {} /\ pc' = "opening"
    BY <1>3 DEF Restart
  <2>2. /\ IsStruct(seq') /\ seq'.ReadSequence = seq'.OldestSequence
        /\ seq'.EvictedUnsent = FALSE /\ seq'.DeviceFailed = FALSE
    BY <2>1, InitialisedFields
  <2> QED
    BY <2>1, <2>2 DEF ControlInv
<1>4. CASE StaleBlock
  BY <1>4 DEF StaleBlock, volatile, ControlInv
<1>5. CASE \E flag \in {"UNSENT", "HALF", "SENT"} : MarkSentFails(flag)
  BY <1>5, FrozenControl DEF MarkSentFails
<1>6. CASE \E n \in Present : \/ \E r \in media[n].recs, state \in {"DAMAGED", "REJECTED"} : DamageRecord(n, r, state)
                              \/ RemoveBlock(n)
  <2>1. UNCHANGED volatile
    BY <1>6 DEF DamageRecord, RemoveBlock
  <2> QED
    BY <2>1 DEF volatile, ControlInv
<1> QED
  BY <1>1, <1>2, <1>3, <1>4, <1>5, <1>6

LEMMA NextControl == ControlInv /\ [Next]_vars => ControlInv'
<1> SUFFICES ASSUME ControlInv, [Next]_vars
             PROVE  ControlInv'
  OBVIOUS
<1>1. ASSUME NEW ok \in BOOLEAN, Open(ok) \/ DeviceStep(ok)
      PROVE  ControlInv'
  BY <1>1, OpenControl, ScanControl, CheckControl, DisposeStaleControl, AcquireControl,
     DrainAfterRotationControl, EvictControl, ReadCurrentControl, DrainAfterMarkControl DEF DeviceStep
<1>2. CASE StoreStep
  BY <1>1, <1>2, AppendControl DEF StoreStep
<1>3. CASE \E id \in Ids, bytes \in RecordSizes, policy \in Policies : Write(id, bytes, policy)
  BY <1>3, WriteControl
<1>4. CASE UNCHANGED vars
  BY <1>4 DEF vars, volatile, ControlInv
<1> QED
  BY <1>2, <1>3, <1>4, OthersControl DEF Next

\* Between calls the threshold latch says what the level is and no eviction is
\* left unreported, whatever failed in between (NotifyThresholdCrossed of
\* SolidSyslogBlockSequence.c and the reports of SolidSyslogBlockStore.c).
THEOREM LatchesKeptCurrent == Spec => []LatchesCurrent
<1>1. ControlInv => LatchesCurrent
  BY DEF ControlInv, LatchesCurrent
<1> QED
  BY <1>1, InitControl, NextControl, PTL DEF Spec

\* Once a device call has failed the store makes no other until the next start,
\* in particular not the eviction that follows a drain (RotateToNextBlock).
THEOREM FailedDeviceNotCalled == Spec => FailedDeviceLeftAlone
<1>1. ASSUME ControlInv, [Next]_vars,
             seq.DeviceFailed \/ pc = "frozen", pc' # "opening", damage' = damage
      PROVE  media' = media
  <2>1. pc \in {"evicting", "frozen"}
    BY <1>1 DEF ControlInv
  <2>2. CASE \E ok \in BOOLEAN : EvictAfterRotation(ok)
    <3>1. pc = "evicting" /\ seq.DeviceFailed
      BY <1>1, <2>2 DEF EvictAfterRotation
    <3>2. ~Evicts(seq)
      BY <3>1 DEF Evicts
    <3> QED
      BY <2>2, <3>2 DEF EvictAfterRotation
  <2>3. CASE Restart
    BY <1>1, <2>3 DEF Restart
  <2>4. CASE UNCHANGED vars
    BY <2>4 DEF vars
  <2>5. ASSUME NEW ok \in BOOLEAN, Open(ok) \/ DeviceStep(ok)
        PROVE  EvictAfterRotation(ok)
    BY <2>1, <2>5 DEF Open, DeviceStep, ScanReadBlock, CheckWriteBlock, DisposeStaleBlock, AcquireBlock,
         DrainAfterRotation, ReadCurrent, DrainAfterMark
  <2>6. CASE Next
    BY <2>1, <2>2, <2>3, <2>5, <2>6
       DEF Next, StoreStep, AppendKept, AppendFails, SealFails, Write, ReadNextUnsent, MarkSent,
           MarkSentFails, StaleBlock, DamageRecord, RemoveBlock
  <2> QED
    BY <1>1, <2>4, <2>6
<1>2. ControlInv /\ [Next]_vars =>
        [(seq.DeviceFailed \/ pc = "frozen") /\ pc' # "opening" /\ damage' = damage => media' = media]_vars
  BY <1>1
<1> QED
  BY <1>2, InitControl, NextControl, PTL DEF Spec, FailedDeviceLeftAlone

-----------------------------------------------------------------------------
(* The records of a block *)

\* A walk that moves forward until it meets a stop is well defined.
MovesForward(N, Stops, nxt, val) == \A c \in 0..N : c \notin Stops => nxt[c] \in c + 1..N
HasWalk(N, Stops, nxt, val) ==
  \E f : /\ f = [c \in 0..N |-> f[c]]
         /\ \A c \in 0..N : f[c] = IF c \in Stops THEN val[c] ELSE f[nxt[c]]

LEMMA WalkExists ==
  ASSUME NEW N \in Nat, NEW Stops, NEW nxt, NEW val, MovesForward(N, Stops, nxt, val)
  PROVE  HasWalk(N, Stops, nxt, val)
<1> USE DEF MovesForward
<1> DEFINE Walk(f, k) == /\ f = [c \in k..N |-> f[c]]
                         /\ \A c \in k..N : f[c] = IF c \in Stops THEN val[c] ELSE f[nxt[c]]
           Bad == {k \in 0..N : ~ \E f : Walk(f, k)}
<1>1. Bad = {}
  <2> SUFFICES ASSUME Bad # {} PROVE FALSE
    OBVIOUS
  <2>1. PICK k \in Bad : \A y \in Bad : y <= k
    <3>1. Bad \subseteq 0..N
      OBVIOUS
    <3> HIDE DEF Bad
    <3> QED
      BY <3>1, GreatestMember
  <2>2. k \in 0..N /\ ~ \E f : Walk(f, k)
    BY <2>1
  <2>3. CASE k = N
    <3>1. N \in Stops
      OBVIOUS
    <3>2. PICK f : f = [c \in k..N |-> val[c]]
      OBVIOUS
    <3>3. Walk(f, k)
      BY <2>3, <3>1, <3>2
    <3> QED
      BY <2>2, <3>3
  <2>4. CASE k # N
    <3>1. k + 1 \in 0..N /\ k + 1 \notin Bad
      BY <2>1, <2>2, <2>4
    <3>2. PICK g : Walk(g, k + 1)
      BY <3>1
    <3>3. PICK f : f = [c \in k..N |-> IF c = k THEN (IF k \in Stops THEN val[k] ELSE g[nxt[k]]) ELSE g[c]]
      OBVIOUS
    <3>4. \A c \in k..N : c = k \/ c \in k + 1..N
      BY <2>2
    <3>5. \A c \in k + 1..N : c \in k..N /\ c # k /\ f[c] = g[c]
      BY <2>2, <3>3
    <3>6. f = [c \in k..N |-> f[c]] /\ k \in k..N
      BY <2>2, <3>3
    <3>7. f[k] = IF k \in Stops THEN val[k] ELSE f[nxt[k]]
      BY <2>2, <3>3, <3>5, <3>6
    <3>8. ASSUME NEW c \in k + 1..N
          PROVE  f[c] = IF c \in Stops THEN val[c] ELSE f[nxt[c]]
      <4>1. c \in 0..N /\ (c \notin Stops => nxt[c] \in k + 1..N)
        BY <2>2
      <4>2. g[c] = IF c \in Stops THEN val[c] ELSE g[nxt[c]]
        BY <3>2
      <4> QED
        BY <3>5, <4>1, <4>2
    <3>9. Walk(f, k)
      BY <3>4, <3>6, <3>7, <3>8
    <3> QED
      BY <2>2, <3>9
  <2> QED
    BY <2>3, <2>4
<1>2. PICK f : Walk(f, 0)
  BY <1>1
<1> QED
  BY <1>2 DEF HasWalk

LEMMA RecordFacts ==
  ASSUME NEW b \in Blocks
  PROVE  /\ b.size \in 0..MaxBlockSize /\ b.size \in Nat /\ b.recs \subseteq Records
         /\ \A r \in b.recs : /\ r.id \in Ids /\ r.at \in Nat /\ r.bytes \in Nat \ {0}
                              /\ End(r) = r.at + r.bytes /\ End(r) \in Nat /\ r.at < End(r)
BY BlockSizeAssumption DEF Blocks, Records, End

\* There is one record at an offset.
LEMMA RecordAtIs ==
  ASSUME NEW b \in Blocks, Tiled(b), NEW r \in b.recs
  PROVE  /\ RecordAt(b, r.at) = r
         /\ \A q \in b.recs : q.at = r.at => q = r
<1>1. ASSUME NEW q \in b.recs, q.at = r.at
      PROVE  q = r
  <2>1. r.at \in Nat /\ End(r) \in Nat /\ End(q) \in Nat /\ r.at < End(r) /\ q.at < End(q)
    BY RecordFacts
  <2>2. q # r => End(q) <= r.at \/ End(r) <= q.at
    BY DEF Tiled
  <2> QED
    BY <1>1, <2>1, <2>2
<1> QED
  BY <1>1 DEF RecordAt

\* What reading a header tells.
LEMMA ExtentIs ==
  ASSUME NEW b \in Blocks, Tiled(b), NEW c \in 0..b.size
  PROVE  /\ ReadRecordExtent(b, c, b.size) \in {"END_OF_DATA", "SUCCEEDED", "CORRUPT"}
         /\ ReadRecordExtent(b, c, b.size) = "END_OF_DATA" <=> c = b.size
         /\ ReadRecordExtent(b, c, b.size) = "SUCCEEDED" =>
              /\ RecordAt(b, c) \in b.recs /\ RecordAt(b, c).at = c
              /\ RecordAt(b, c).state # "DAMAGED" /\ End(RecordAt(b, c)) \in c + 1..b.size
         /\ \A r \in b.recs : r.at = c /\ r.state # "DAMAGED" /\ End(r) <= b.size =>
              ReadRecordExtent(b, c, b.size) = "SUCCEEDED"
<1>1. b.size \in Nat
  BY RecordFacts
<1>2. /\ ReadRecordExtent(b, c, b.size) \in {"END_OF_DATA", "SUCCEEDED", "CORRUPT"}
      /\ ReadRecordExtent(b, c, b.size) = "END_OF_DATA" <=> c = b.size
  BY <1>1 DEF ReadRecordExtent
<1>3. ASSUME ReadRecordExtent(b, c, b.size) = "SUCCEEDED"
      PROVE  /\ RecordAt(b, c) \in b.recs /\ RecordAt(b, c).at = c
             /\ RecordAt(b, c).state # "DAMAGED" /\ End(RecordAt(b, c)) \in c + 1..b.size
  <2>1. PICK r \in b.recs : r.at = c /\ r.state # "DAMAGED" /\ End(r) <= b.size
    BY <1>3 DEF ReadRecordExtent
  <2>2. RecordAt(b, c) = r
    BY <2>1, RecordAtIs
  <2>3. End(r) \in c + 1..b.size
    BY <1>1, <2>1, RecordFacts
  <2> QED
    BY <2>1, <2>2, <2>3
<1>4. ASSUME NEW r \in b.recs, r.at = c, r.state # "DAMAGED", End(r) <= b.size
      PROVE  ReadRecordExtent(b, c, b.size) = "SUCCEEDED"
  <2>1. c < b.size
    BY <1>1, <1>4, RecordFacts
  <2> QED
    BY <1>1, <1>4, <2>1 DEF ReadRecordExtent
<1> QED
  BY <1>2, <1>3, <1>4

\* The scan for the first unsent record, step by step.
LEMMA FindFirstUnsentIs ==
  ASSUME NEW b \in Blocks, Tiled(b)
  PROVE  \E walk :
           /\ FindFirstUnsent(b, b.size) = walk[0]
           /\ \A c \in 0..b.size :
                walk[c] = IF ReadRecordExtent(b, c, b.size) = "CORRUPT"
                          THEN [cursor |-> b.size, scanned |-> "CORRUPT"]
                          ELSE IF IsFinishedWith(b, c, b.size) THEN walk[End(RecordAt(b, c))]
                          ELSE [cursor |-> c, scanned |-> "CLEAN"]
<1>1. PICK N : N = b.size
  OBVIOUS
<1> DEFINE rule(w, c) == IF ReadRecordExtent(b, c, N) = "CORRUPT" THEN [cursor |-> N, scanned |-> "CORRUPT"]
                         ELSE IF IsFinishedWith(b, c, N) THEN w[End(RecordAt(b, c))]
                         ELSE [cursor |-> c, scanned |-> "CLEAN"]
           walk == CHOOSE w : w = [c \in 0..N |-> rule(w, c)]
<1>2. FindFirstUnsent(b, N) = walk[0]
  BY DEF FindFirstUnsent
<1>3. \E w : w = [c \in 0..N |-> rule(w, c)]
  <2> DEFINE Stops == {c \in 0..N : ~IsFinishedWith(b, c, N)}
             val == [c \in 0..N |-> IF ReadRecordExtent(b, c, N) = "CORRUPT"
                                    THEN [cursor |-> N, scanned |-> "CORRUPT"]
                                    ELSE [cursor |-> c, scanned |-> "CLEAN"]]
             nxt == [c \in 0..N |-> End(RecordAt(b, c))]
  <2>1. N \in Nat
    BY <1>1, RecordFacts
  <2>2. MovesForward(N, Stops, nxt, val)
    BY <1>1, ExtentIs DEF IsFinishedWith, MovesForward
  <2>3. \A c \in 0..N : ReadRecordExtent(b, c, N) = "CORRUPT" => c \in Stops
    BY DEF IsFinishedWith
  <2>4. \A w : \A c \in 0..N : rule(w, c) = IF c \in Stops THEN val[c] ELSE w[nxt[c]]
    BY <2>3
  <2> HIDE DEF Stops, val, nxt, rule
  <2>5. PICK f : /\ f = [c \in 0..N |-> f[c]]
                 /\ \A c \in 0..N : f[c] = IF c \in Stops THEN val[c] ELSE f[nxt[c]]
    <3>1. HasWalk(N, Stops, nxt, val)
      BY <2>1, <2>2, WalkExists
    <3> QED
      BY <3>1 DEF HasWalk
  <2>6. f = [c \in 0..N |-> rule(f, c)]
    BY <2>4, <2>5
  <2> QED
    BY <2>6
<1> HIDE DEF rule
<1>4. walk = [c \in 0..N |-> rule(walk, c)]
  BY <1>3
<1> HIDE DEF walk
<1>5. \A c \in 0..N : walk[c] = rule(walk, c)
  BY <1>4
<1> QED
  BY <1>1, <1>2, <1>5 DEF rule

\* Induction from the end of a block back to its start.
LEMMA BackwardInduction ==
  ASSUME NEW N \in Nat, NEW Good,
         \A c \in 0..N : (\A d \in c + 1..N : d \in Good) => c \in Good
  PROVE  0..N \subseteq Good
<1> DEFINE Bad == {c \in 0..N : c \notin Good}
<1> SUFFICES ASSUME Bad # {} PROVE FALSE
  OBVIOUS
<1>1. PICK c \in Bad : \A y \in Bad : y <= c
  <2>1. Bad \subseteq 0..N
    OBVIOUS
  <2> HIDE DEF Bad
  <2> QED
    BY <2>1, GreatestMember
<1>2. \A d \in c + 1..N : d \in Good
  <2> SUFFICES ASSUME NEW d \in c + 1..N, d \notin Good PROVE FALSE
    OBVIOUS
  <2>1. c \in 0..N
    BY <1>1
  <2>2. d \in 0..N /\ ~(d <= c)
    BY <2>1
  <2> QED
    BY <1>1, <2>2
<1> QED
  BY <1>1, <1>2

\* From a boundary the next record is the one at it, and every other record at
\* or behind the boundary begins where this one ends, or later.
LEMMA BoundaryRecord ==
  ASSUME NEW b \in Blocks, Tiled(b), NEW c \in 0..b.size, Boundary(b, c), NEW r \in b.recs, c <= r.at
  PROVE  \E q \in b.recs : q.at = c /\ (q = r \/ (End(q) <= r.at /\ End(q) \in c + 1..b.size))
<1>1. b.size \in Nat /\ r.at \in Nat /\ r.at < b.size
  BY RecordFacts DEF Tiled
<1>2. c \in 0..b.size - 1
  BY <1>1
<1>3. PICK q \in b.recs : q.at = c
  BY <1>2 DEF Tiled
<1>4. q.at < End(q) /\ End(q) \in Nat /\ End(r) \in Nat /\ r.at < End(r)
  BY RecordFacts
<1>5. q # r => End(q) <= r.at
  BY <1>1, <1>3, <1>4 DEF Tiled
<1> QED
  BY <1>1, <1>3, <1>4, <1>5

\* What the scan for unsent records finds from a cursor on.
IsScanFrom(b, c, found) ==
  /\ found.scanned \in {"CLEAN", "CORRUPT"} /\ found.cursor \in c..b.size
  /\ found.scanned = "CORRUPT" => found.cursor = b.size
  /\ found.scanned = "CLEAN" =>
       /\ Boundary(b, found.cursor)
       /\ \A r \in b.recs : r.at \in c..found.cursor - 1 => r.state # "DAMAGED"
  /\ \A r \in b.recs : /\ c <= r.at /\ IsSendable(b, r)
                       /\ \A q \in b.recs : q.at <= r.at => q.state # "DAMAGED"
                       => found.scanned = "CLEAN" /\ found.cursor <= r.at

LEMMA ScanFrom ==
  ASSUME NEW b \in Blocks, Tiled(b), NEW found, found = FindFirstUnsent(b, b.size)
  PROVE  IsScanFrom(b, 0, found)
<1>1. PICK N : N = b.size
  OBVIOUS
<1>2. PICK walk :
         /\ found = walk[0]
         /\ \A c \in 0..N :
              walk[c] = IF ReadRecordExtent(b, c, N) = "CORRUPT"
                        THEN [cursor |-> N, scanned |-> "CORRUPT"]
                        ELSE IF IsFinishedWith(b, c, N) THEN walk[End(RecordAt(b, c))]
                        ELSE [cursor |-> c, scanned |-> "CLEAN"]
  BY <1>1, FindFirstUnsentIs
<1>3. N \in Nat
  BY <1>1, RecordFacts
<1> DEFINE Good == {c \in 0..N : Boundary(b, c) => IsScanFrom(b, c, walk[c])}
<1>4. ASSUME NEW c \in 0..N, \A d \in c + 1..N : d \in Good
      PROVE  c \in Good
  <2> SUFFICES ASSUME Boundary(b, c)
               PROVE  IsScanFrom(b, c, walk[c])
    OBVIOUS
  <2>1. CASE ReadRecordExtent(b, c, N) = "CORRUPT"
    <3>1. walk[c] = [cursor |-> N, scanned |-> "CORRUPT"]
      BY <1>2, <2>1
    <3>2. ASSUME NEW r \in b.recs, c <= r.at, IsSendable(b, r),
                 \A q \in b.recs : q.at <= r.at => q.state # "DAMAGED"
          PROVE  FALSE
      <4>1. PICK q \in b.recs : q.at = c /\ (q = r \/ (End(q) <= r.at /\ End(q) \in c + 1..b.size))
        BY <1>1, <3>2, BoundaryRecord
      <4>2. End(q) <= b.size /\ q.state # "DAMAGED"
        BY <1>1, <1>3, <3>2, <4>1 DEF IsSendable
      <4> QED
        BY <1>1, <2>1, <4>1, <4>2, ExtentIs
    <3> QED
      BY <1>1, <1>3, <3>1, <3>2 DEF IsScanFrom
  <2>2. CASE ReadRecordExtent(b, c, N) # "CORRUPT" /\ ~IsFinishedWith(b, c, N)
    <3>1. walk[c] = [cursor |-> c, scanned |-> "CLEAN"]
      BY <1>2, <2>2
    <3> QED
      BY <1>1, <1>3, <3>1 DEF IsScanFrom
  <2>3. CASE ReadRecordExtent(b, c, N) # "CORRUPT" /\ IsFinishedWith(b, c, N)
    <3>1. PICK q : q = RecordAt(b, c)
      OBVIOUS
    <3>2. PICK e : e = End(q)
      OBVIOUS
    <3>3. PICK f : f = walk[e]
      OBVIOUS
    <3>4. walk[c] = f
      BY <1>2, <2>3, <3>1, <3>2, <3>3
    <3>5. ReadRecordExtent(b, c, N) = "SUCCEEDED" /\ q.flag = "SENT"
      BY <2>3, <3>1 DEF IsFinishedWith, FlagMarksSentOrDiscarded
    <3>6. q \in b.recs /\ q.at = c /\ q.state # "DAMAGED" /\ e \in c + 1..N
      BY <1>1, <3>1, <3>2, <3>5, ExtentIs
    <3>7. IsScanFrom(b, e, f)
      BY <1>4, <3>2, <3>3, <3>6 DEF Boundary
    <3>8. ASSUME NEW r \in b.recs, c <= r.at
          PROVE  r = q \/ e <= r.at
      BY <1>1, <3>2, <3>6, <3>8, BoundaryRecord, RecordAtIs
    <3>9. \A r \in b.recs : r.at \in Nat
      BY RecordFacts
    <3>10. f.cursor \in c..b.size /\ f.scanned \in {"CLEAN", "CORRUPT"} /\ (f.scanned = "CORRUPT" => f.cursor = b.size)
      BY <1>1, <1>3, <3>6, <3>7 DEF IsScanFrom
    <3>11. ASSUME f.scanned = "CLEAN", NEW r \in b.recs, r.at \in c..f.cursor - 1
           PROVE  r.state # "DAMAGED"
      <4>1. CASE r = q
        BY <3>6, <4>1
      <4>2. CASE e <= r.at
        <5>1. r.at \in e..f.cursor - 1
          BY <1>1, <1>3, <3>6, <3>9, <3>10, <3>11, <4>2
        <5> QED
          BY <3>7, <3>11, <5>1 DEF IsScanFrom
      <4> QED
        BY <3>8, <3>9, <3>11, <4>1, <4>2
    <3>12. ASSUME NEW r \in b.recs, c <= r.at, IsSendable(b, r),
                 \A p \in b.recs : p.at <= r.at => p.state # "DAMAGED"
           PROVE  f.scanned = "CLEAN" /\ f.cursor <= r.at
      <4>1. e <= r.at
        BY <3>5, <3>8, <3>12 DEF IsSendable
      <4> QED
        BY <3>7, <3>12, <4>1 DEF IsScanFrom
    <3>13. f.scanned = "CLEAN" => Boundary(b, f.cursor)
      BY <3>7 DEF IsScanFrom
    <3>14. IsScanFrom(b, c, f)
      BY <3>10, <3>11, <3>12, <3>13 DEF IsScanFrom
    <3> QED
      BY <3>4, <3>14
  <2> QED
    BY <2>1, <2>2, <2>3
<1>5. 0 \in Good
  <2> HIDE DEF Good
  <2>1. 0..N \subseteq Good
    BY <1>3, <1>4, BackwardInduction
  <2> QED
    BY <1>3, <2>1
<1> QED
  BY <1>2, <1>5 DEF Boundary

\* The scan of the write block, step by step.
LEMMA ScanToEndIs ==
  ASSUME NEW b \in Blocks, Tiled(b)
  PROVE  \E walk :
           /\ \A c \in 0..b.size : ScanToEnd(b, c, b.size) = walk[c]
           /\ \A c \in 0..b.size :
                walk[c] = IF ReadRecordExtent(b, c, b.size) = "SUCCEEDED" THEN walk[End(RecordAt(b, c))]
                          ELSE IF ReadRecordExtent(b, c, b.size) = "CORRUPT" THEN "CORRUPT"
                          ELSE "CLEAN"
<1>1. PICK N : N = b.size
  OBVIOUS
<1> DEFINE rule(w, c) == IF ReadRecordExtent(b, c, N) = "SUCCEEDED" THEN w[End(RecordAt(b, c))]
                         ELSE IF ReadRecordExtent(b, c, N) = "CORRUPT" THEN "CORRUPT"
                         ELSE "CLEAN"
           walk == CHOOSE w : w = [c \in 0..N |-> rule(w, c)]
<1>2. \A c \in 0..N : ScanToEnd(b, c, N) = walk[c]
  BY DEF ScanToEnd
<1>3. \E w : w = [c \in 0..N |-> rule(w, c)]
  <2> DEFINE Stops == {c \in 0..N : ReadRecordExtent(b, c, N) # "SUCCEEDED"}
             val == [c \in 0..N |-> IF ReadRecordExtent(b, c, N) = "CORRUPT" THEN "CORRUPT" ELSE "CLEAN"]
             nxt == [c \in 0..N |-> End(RecordAt(b, c))]
  <2>1. N \in Nat
    BY <1>1, RecordFacts
  <2>2. MovesForward(N, Stops, nxt, val)
    BY <1>1, ExtentIs DEF MovesForward
  <2>3. \A w : \A c \in 0..N : rule(w, c) = IF c \in Stops THEN val[c] ELSE w[nxt[c]]
    OBVIOUS
  <2> HIDE DEF Stops, val, nxt, rule
  <2>4. PICK f : /\ f = [c \in 0..N |-> f[c]]
                 /\ \A c \in 0..N : f[c] = IF c \in Stops THEN val[c] ELSE f[nxt[c]]
    <3>1. HasWalk(N, Stops, nxt, val)
      BY <2>1, <2>2, WalkExists
    <3> QED
      BY <3>1 DEF HasWalk
  <2>5. f = [c \in 0..N |-> rule(f, c)]
    BY <2>3, <2>4
  <2> QED
    BY <2>5
<1> HIDE DEF rule
<1>4. walk = [c \in 0..N |-> rule(walk, c)]
  BY <1>3
<1> HIDE DEF walk
<1>5. \A c \in 0..N : walk[c] = rule(walk, c)
  BY <1>4
<1> QED
  BY <1>1, <1>2, <1>5 DEF rule

\* A write block the scan finds clean is sound, if what lies before the cursor is.
LEMMA ScannedSound ==
  ASSUME NEW b \in Blocks, Tiled(b), NEW c \in 0..b.size, Boundary(b, c),
         \A r \in b.recs : r.at < c => r.state # "DAMAGED",
         ScanToEnd(b, c, b.size) # "CORRUPT"
  PROVE  IsSound(b)
<1>1. PICK N : N = b.size
  OBVIOUS
<1>2. PICK walk :
         /\ \A a \in 0..N : ScanToEnd(b, a, N) = walk[a]
         /\ \A a \in 0..N :
              walk[a] = IF ReadRecordExtent(b, a, N) = "SUCCEEDED" THEN walk[End(RecordAt(b, a))]
                        ELSE IF ReadRecordExtent(b, a, N) = "CORRUPT" THEN "CORRUPT"
                        ELSE "CLEAN"
  BY <1>1, ScanToEndIs
<1>3. N \in Nat
  BY <1>1, RecordFacts
<1> DEFINE Clean(a) == /\ Boundary(b, N)
                       /\ \A r \in b.recs : a <= r.at => End(r) <= N /\ r.state # "DAMAGED"
           Good == {a \in 0..N : Boundary(b, a) /\ walk[a] # "CORRUPT" => Clean(a)}
<1>4. ASSUME NEW a \in 0..N, \A d \in a + 1..N : d \in Good
      PROVE  a \in Good
  <2> SUFFICES ASSUME Boundary(b, a), walk[a] # "CORRUPT"
               PROVE  Clean(a)
    OBVIOUS
  <2>1. CASE ReadRecordExtent(b, a, N) = "SUCCEEDED"
    <3>1. PICK q : q = RecordAt(b, a)
      OBVIOUS
    <3>2. PICK e : e = End(q)
      OBVIOUS
    <3>3. q \in b.recs /\ q.at = a /\ q.state # "DAMAGED" /\ e \in a + 1..N
      BY <1>1, <2>1, <3>1, <3>2, ExtentIs
    <3>4. walk[e] # "CORRUPT"
      BY <1>2, <2>1, <3>1, <3>2
    <3>5. Clean(e)
      BY <1>4, <3>2, <3>3, <3>4 DEF Boundary
    <3>6. ASSUME NEW r \in b.recs, a <= r.at
          PROVE  r = q \/ e <= r.at
      BY <1>1, <3>2, <3>3, <3>6, BoundaryRecord, RecordAtIs
    <3> QED
      BY <1>3, <3>2, <3>3, <3>5, <3>6
  <2>2. CASE ReadRecordExtent(b, a, N) = "END_OF_DATA"
    <3>1. a = N
      BY <1>1, <2>2, ExtentIs
    <3>2. \A r \in b.recs : r.at \in Nat /\ r.at < N
      BY <1>1, RecordFacts DEF Tiled
    <3> QED
      BY <1>3, <3>1, <3>2
  <2> QED
    BY <1>1, <1>2, <2>1, <2>2, ExtentIs
<1>5. c \in Good
  <2> HIDE DEF Good
  <2>1. 0..N \subseteq Good
    BY <1>3, <1>4, BackwardInduction
  <2> QED
    BY <1>1, <2>1
<1>6. Clean(c)
  BY <1>1, <1>2, <1>5
<1>7. ASSUME NEW r \in b.recs, ~(c <= r.at)
      PROVE  End(r) <= N
  <2>1. r.at \in Nat /\ End(r) \in Nat /\ r.at < End(r)
    BY RecordFacts
  <2>2. PICK q \in b.recs : End(q) = c
    BY <1>1, <1>3, <1>7, <2>1 DEF Boundary
  <2>3. q.at \in Nat /\ q.at < End(q)
    BY RecordFacts
  <2>4. q = r \/ End(r) <= q.at \/ End(q) <= r.at
    BY DEF Tiled
  <2> QED
    BY <1>1, <1>3, <1>7, <2>1, <2>2, <2>3, <2>4
<1>8. \A r \in b.recs : r.at \in Nat
  BY RecordFacts
<1> QED
  BY <1>1, <1>3, <1>6, <1>7, <1>8 DEF IsSound

\* A record appended to a sound block, all of it or the first bytes.
IsAppend(b, q, b2) ==
  /\ b2 \in Blocks /\ Tiled(b2) /\ b.recs \subseteq b2.recs /\ b2.recs \subseteq b.recs \cup {q}
  /\ b.size <= b2.size
  /\ \A c : Boundary(b, c) => Boundary(b2, c)

LEMMA AppendIs ==
  ASSUME NEW b \in Blocks, Tiled(b), IsSound(b), NEW id \in Ids, NEW bytes \in Nat \ {0},
         b.size + bytes <= MaxBlockSize, NEW reached \in 0..bytes,
         NEW b2, b2 = AppendRecord(b, id, bytes, reached),
         NEW q, q = [id |-> id, at |-> b.size, bytes |-> bytes, flag |-> "UNSENT", state |-> "OK"]
  PROVE  /\ IsAppend(b, q, b2)
         /\ reached = bytes => /\ IsSound(b2) /\ q \in b2.recs /\ End(q) = b2.size
                               /\ b2.size = b.size + bytes
<1>1. b.size \in Nat /\ MaxBlockSize \in Nat
  BY RecordFacts, BlockSizeAssumption
<1>2. q \in Records /\ End(q) = b.size + bytes /\ q.at = b.size /\ q.state = "OK"
  BY <1>1 DEF Records, End
<1>3. CASE reached = 0
  BY <1>1, <1>3 DEF AppendRecord, IsAppend
<1>4. CASE reached # 0
  <2>1. b2 = [size |-> b.size + reached, recs |-> b.recs \cup {q}]
    BY <1>4 DEF AppendRecord
  <2>2. b2.size = b.size + reached /\ b2.recs = b.recs \cup {q} /\ b2.size \in 0..MaxBlockSize
    BY <1>1, <2>1
  <2>3. b2 \in Blocks
    BY <1>2, <2>1, <2>2, RecordFacts DEF Blocks
  <2>4. \A r \in b.recs : End(r) <= b.size /\ End(r) \in Nat /\ r.at \in Nat /\ r.at < b.size
    BY RecordFacts DEF Tiled, IsSound
  <2>5. \A c : Boundary(b, c) => Boundary(b2, c)
    BY <2>2 DEF Boundary
  <2>6. ASSUME NEW c \in 0..b2.size - 1, Boundary(b2, c)
        PROVE  \E r \in b2.recs : r.at = c
    <3>1. CASE c = b.size
      BY <1>2, <2>2, <3>1
    <3>2. CASE c # b.size
      <4>1. Boundary(b, c) /\ c \in 0..b.size - 1 /\ b.recs # {}
        <5>1. c # End(q)
          BY <1>1, <1>2, <2>2
        <5>2. Boundary(b, c)
          BY <2>2, <2>6, <5>1 DEF Boundary
        <5>3. c <= b.size
          BY <1>1, <2>4, <5>2 DEF Boundary
        <5>4. b.recs # {}
          BY <1>1, <3>2, <5>2 DEF IsSound, Boundary
        <5> QED
          BY <1>1, <2>2, <3>2, <5>2, <5>3, <5>4
      <4> QED
        BY <2>2, <4>1 DEF Tiled
    <3> QED
      BY <3>1, <3>2
  <2>7. \A r \in b2.recs : r.at < b2.size /\ End(r) <= MaxBlockSize
    BY <1>1, <1>2, <1>4, <2>2, <2>4
  <2>8. \A r, p \in b2.recs : r # p => End(r) <= p.at \/ End(p) <= r.at
    BY <1>2, <2>2, <2>4 DEF Tiled
  <2>9. Tiled(b2)
    BY <2>6, <2>7, <2>8 DEF Tiled
  <2>10. IsAppend(b, q, b2)
    BY <1>1, <2>2, <2>3, <2>5, <2>9 DEF IsAppend
  <2>11. reached = bytes => IsSound(b2) /\ End(q) = b2.size
    <3>1. reached = bytes => End(q) = b2.size
      BY <1>2, <2>2
    <3>2. reached = bytes => \A r \in b2.recs : End(r) <= b2.size /\ r.state # "DAMAGED"
      BY <1>1, <1>2, <2>2, <2>4 DEF IsSound
    <3>3. reached = bytes => Boundary(b2, b2.size)
      BY <2>2, <3>1 DEF Boundary
    <3> QED
      BY <3>1, <3>2, <3>3 DEF IsSound
  <2> QED
    BY <2>2, <2>10, <2>11
<1> QED
  BY <1>3, <1>4

\* The records of a block keep their places while a flag or a state changes.
IsReflag(b, f, b2) ==
  /\ f \in [b.recs -> Records]
  /\ \A r \in b.recs : f[r].id = r.id /\ f[r].at = r.at /\ f[r].bytes = r.bytes
  /\ b2 = [size |-> b.size, recs |-> {f[r] : r \in b.recs}]

LEMMA ReflagIs ==
  ASSUME NEW b \in Blocks, Tiled(b), NEW f, NEW b2, IsReflag(b, f, b2)
  PROVE  /\ b2 \in Blocks /\ Tiled(b2) /\ b2.size = b.size /\ b2.recs = {f[r] : r \in b.recs}
         /\ \A r \in b.recs : f[r] \in b2.recs /\ f[r].id = r.id /\ f[r].at = r.at /\ End(f[r]) = End(r)
         /\ \A c : Boundary(b2, c) <=> Boundary(b, c)
<1>1. b2.size = b.size /\ b2.recs = {f[r] : r \in b.recs} /\ b.size \in 0..MaxBlockSize
  BY RecordFacts DEF IsReflag
<1>2. b2 \in Blocks
  BY <1>1 DEF IsReflag, Blocks
<1>3. \A r \in b.recs : f[r] \in b2.recs /\ f[r].id = r.id /\ f[r].at = r.at /\ End(f[r]) = End(r)
  BY <1>1 DEF IsReflag, End
<1>4. \A q \in b2.recs : \E r \in b.recs : q = f[r]
  BY <1>1
<1>5. \A c : Boundary(b2, c) <=> Boundary(b, c)
  BY <1>3, <1>4 DEF Boundary
<1>6. \A r \in b2.recs : r.at < b2.size /\ End(r) <= MaxBlockSize
  BY <1>1, <1>3, <1>4 DEF Tiled
<1>7. \A r, q \in b2.recs : r # q => End(r) <= q.at \/ End(q) <= r.at
  BY <1>3, <1>4 DEF Tiled
<1>8. \A c \in 0..b2.size - 1 : b2.recs # {} /\ Boundary(b2, c) => \E r \in b2.recs : r.at = c
  <2> SUFFICES ASSUME NEW c \in 0..b.size - 1, b2.recs # {}, Boundary(b, c)
               PROVE  \E r \in b2.recs : r.at = c
    BY <1>1, <1>5
  <2>1. b.recs # {}
    BY <1>4
  <2>2. PICK r \in b.recs : r.at = c
    BY <2>1 DEF Tiled
  <2> QED
    BY <1>3, <2>2
<1>9. Tiled(b2)
  BY <1>6, <1>7, <1>8 DEF Tiled
<1> QED
  BY <1>1, <1>2, <1>3, <1>5, <1>9

\* The sent flag, and the damage the media does, change no record's place.
SentFlags(b, next, flag) == [r \in b.recs |-> IF End(r) = next THEN [r EXCEPT !.flag = flag] ELSE r]
RuinedState(b, q, state) == [r \in b.recs |-> IF r = q THEN [r EXCEPT !.state = state] ELSE r]

LEMMA SentFlagIs ==
  ASSUME NEW b \in Blocks, NEW next, NEW flag \in {"UNSENT", "HALF", "SENT"}
  PROVE  /\ IsReflag(b, SentFlags(b, next, flag), WriteSentFlag(b, next, flag))
         /\ \A r \in b.recs : /\ SentFlags(b, next, flag)[r].state = r.state
                              /\ End(r) = next => SentFlags(b, next, flag)[r].flag = flag
                              /\ End(r) # next => SentFlags(b, next, flag)[r] = r
<1>1. \A r \in b.recs : r \in Records
  BY RecordFacts
<1>2. ASSUME NEW r \in b.recs
      PROVE  /\ SentFlags(b, next, flag)[r] \in Records
             /\ SentFlags(b, next, flag)[r].id = r.id /\ SentFlags(b, next, flag)[r].at = r.at
             /\ SentFlags(b, next, flag)[r].bytes = r.bytes
             /\ SentFlags(b, next, flag)[r].state = r.state
             /\ End(r) = next => SentFlags(b, next, flag)[r].flag = flag
             /\ End(r) # next => SentFlags(b, next, flag)[r] = r
  BY <1>1, <1>2 DEF SentFlags, Records
<1>3. WriteSentFlag(b, next, flag) =
        [size |-> b.size, recs |-> {SentFlags(b, next, flag)[r] : r \in b.recs}]
  BY DEF WriteSentFlag, SentFlags, Blocks
<1>4. SentFlags(b, next, flag) \in [b.recs -> Records]
  BY <1>1 DEF SentFlags, Records
<1> QED
  BY <1>2, <1>3, <1>4 DEF IsReflag

LEMMA RuinedStateIs ==
  ASSUME NEW b \in Blocks, NEW q \in b.recs, NEW state \in {"DAMAGED", "REJECTED"},
         NEW b2, b2 = [b EXCEPT !.recs = (@ \ {q}) \cup {[q EXCEPT !.state = state]}]
  PROVE  /\ IsReflag(b, RuinedState(b, q, state), b2)
         /\ \A r \in b.recs : /\ r # q => RuinedState(b, q, state)[r] = r
                              /\ r = q => RuinedState(b, q, state)[r].state = state
                              /\ RuinedState(b, q, state)[r].flag = r.flag
<1>1. \A r \in b.recs : r \in Records
  BY RecordFacts
<1>2. \A r \in b.recs : r # q => RuinedState(b, q, state)[r] = r
  BY DEF RuinedState
<1>3. RuinedState(b, q, state)[q] = [q EXCEPT !.state = state]
  BY DEF RuinedState
<1>4. PICK p : p = [q EXCEPT !.state = state]
  OBVIOUS
<1>5. p \in Records /\ p.id = q.id /\ p.at = q.at /\ p.bytes = q.bytes /\ p.state = state /\ p.flag = q.flag
  BY <1>1, <1>4 DEF Records
<1>6. b2 = [size |-> b.size, recs |-> (b.recs \ {q}) \cup {p}]
  BY <1>4 DEF Blocks
<1>7. (b.recs \ {q}) \cup {p} = {RuinedState(b, q, state)[r] : r \in b.recs}
  BY <1>2, <1>3, <1>4
<1>8. RuinedState(b, q, state) \in [b.recs -> Records]
  BY <1>1, <1>4, <1>5 DEF RuinedState
<1> QED
  BY <1>2, <1>3, <1>4, <1>5, <1>6, <1>7, <1>8 DEF IsReflag

-----------------------------------------------------------------------------
(* What a step may do to the medium *)

LEMMA PresentFacts ==
  ASSUME MediumTypes, NEW n \in Present
  PROVE  n \in SequenceNumbers /\ media[n] \in Blocks
BY DEF MediumTypes, Present

LEMMA PutFacts ==
  ASSUME MediumTypes, NEW n \in SequenceNumbers, NEW b \in Blocks, media' = With(n, b)
  PROVE  /\ media' \in [SequenceNumbers -> Blocks \cup {NoBlock}]
         /\ Present' = Present \cup {n} /\ media'[n] = b
         /\ \A m \in SequenceNumbers : m # n => media'[m] = media[m]
<1>1. media \in [SequenceNumbers -> Blocks \cup {NoBlock}]
  BY DEF MediumTypes
<1>2. /\ media' \in [SequenceNumbers -> Blocks \cup {NoBlock}] /\ media'[n] = b
      /\ \A m \in SequenceNumbers : m # n => media'[m] = media[m]
  BY <1>1 DEF With
<1> QED
  BY <1>2, NoBlockAssumption DEF Present

LEMMA DropFacts ==
  ASSUME MediumTypes, NEW n \in SequenceNumbers, media' = Without(n)
  PROVE  /\ media' \in [SequenceNumbers -> Blocks \cup {NoBlock}]
         /\ Present' = Present \ {n}
         /\ \A m \in SequenceNumbers : m # n => media'[m] = media[m]
<1>1. media \in [SequenceNumbers -> Blocks \cup {NoBlock}]
  BY DEF MediumTypes
<1>2. /\ media' \in [SequenceNumbers -> Blocks \cup {NoBlock}] /\ media'[n] = NoBlock
      /\ \A m \in SequenceNumbers : m # n => media'[m] = media[m]
  BY <1>1 DEF Without
<1> QED
  BY <1>2 DEF Present

\* Most steps keep no record that was not kept before.
FateStep ==
  /\ fate' \in [Ids -> Fates]
  /\ \A id \in Ids : /\ fate'[id] = "new" => fate[id] = "new"
                     /\ fate'[id] = "kept" => fate[id] = "kept"
CountersStep == crashes' \in 0..MaxCrashes /\ damage' \in 0..MaxDamage

LEMMA SameFate == ASSUME MediumTypes, fate' = fate PROVE FateStep
BY DEF MediumTypes, FateStep

LEMMA SameCounters == ASSUME MediumTypes, crashes' = crashes, damage' = damage PROVE CountersStep
BY DEF MediumTypes, CountersStep

\* No record is changed, and blocks may go.
LEMMA MediumFewer ==
  ASSUME MediumInv, FateStep, CountersStep,
         media' \in [SequenceNumbers -> Blocks \cup {NoBlock}],
         \A n \in Present' : (n \in Present /\ media'[n] = media[n]) \/ media'[n].recs = {}
  PROVE  MediumInv'
<1>1. MediumTypes'
  BY DEF MediumInv, MediumTypes, FateStep, CountersStep, Room
<1>2. \A n \in Present' : n \in SequenceNumbers /\ media'[n] \in Blocks
  BY DEF Present
<1>3. ASSUME NEW n \in Present' PROVE Tiled(media'[n])
  <2>1. CASE n \in Present /\ media'[n] = media[n]
    BY <2>1 DEF MediumInv, MediaInv
  <2>2. CASE media'[n].recs = {}
    BY <2>2 DEF Tiled
  <2> QED
    BY <2>1, <2>2
<1>4. \A n \in Present' : \A r \in media'[n].recs : n \in Present /\ r \in media[n].recs /\ r.id \in Ids
  BY <1>2, RecordFacts
<1>5. IdsInv'
  BY <1>4 DEF MediumInv, IdsInv, FateStep
<1>6. DamageInv'
  BY <1>4 DEF MediumInv, DamageInv, FateStep
<1> QED
  BY <1>1, <1>3, <1>5, <1>6 DEF MediumInv, MediaInv

LEMMA MediumSame ==
  ASSUME MediumInv, FateStep, CountersStep, media' = media
  PROVE  MediumInv' /\ Present' = Present
<1>1. Present' = Present
  BY DEF Present
<1>2. media' \in [SequenceNumbers -> Blocks \cup {NoBlock}]
  BY DEF MediumInv, MediumTypes
<1> QED
  BY <1>1, <1>2, MediumFewer

LEMMA MediumDrop ==
  ASSUME MediumInv, FateStep, CountersStep, NEW n \in SequenceNumbers, media' = Without(n)
  PROVE  MediumInv'
<1>1. /\ media' \in [SequenceNumbers -> Blocks \cup {NoBlock}]
      /\ Present' = Present \ {n}
      /\ \A m \in SequenceNumbers : m # n => media'[m] = media[m]
  BY DropFacts DEF MediumInv
<1>2. \A m \in Present' : m \in Present /\ media'[m] = media[m]
  BY <1>1 DEF Present
<1> QED
  BY <1>1, <1>2, MediumFewer

LEMMA MediumFresh ==
  ASSUME MediumInv, FateStep, CountersStep, NEW n \in SequenceNumbers,
         NEW b \in Blocks, b.recs = {}, media' = With(n, b)
  PROVE  MediumInv'
<1>1. /\ media' \in [SequenceNumbers -> Blocks \cup {NoBlock}]
      /\ Present' = Present \cup {n} /\ media'[n] = b
      /\ \A m \in SequenceNumbers : m # n => media'[m] = media[m]
  BY PutFacts DEF MediumInv
<1>2. \A m \in Present' : (m \in Present /\ media'[m] = media[m]) \/ media'[m].recs = {}
  BY <1>1 DEF Present
<1> QED
  BY <1>1, <1>2, MediumFewer

\* A record is appended to a block: one the media does not hold yet.
LEMMA MediumAppend ==
  ASSUME MediumInv, CountersStep, NEW n \in Present, NEW q \in Records, NEW b,
         IsAppend(media[n], q, b), media' = With(n, b), q.state = "OK",
         \A m \in Present : \A r \in media[m].recs : r.id # q.id,
         fate' \in [Ids -> Fates], fate'[q.id] # "new",
         \A id \in Ids : /\ fate'[id] = "new" => fate[id] = "new"
                         /\ fate'[id] = "kept" /\ id # q.id => fate[id] = "kept",
         \A r \in media[n].recs : r.state # "DAMAGED"
  PROVE  MediumInv'
<1>1. b \in Blocks /\ Tiled(b) /\ b.recs \subseteq media[n].recs \cup {q}
  BY DEF IsAppend
<1>2. /\ media' \in [SequenceNumbers -> Blocks \cup {NoBlock}]
      /\ Present' = Present \cup {n} /\ media'[n] = b
      /\ \A m \in SequenceNumbers : m # n => media'[m] = media[m]
  BY <1>1, PutFacts, PresentFacts DEF MediumInv
<1>3. Present' = Present /\ \A m \in Present : m # n => media'[m] = media[m]
  BY <1>2 DEF Present
<1>4. MediumTypes'
  BY <1>2 DEF MediumInv, MediumTypes, CountersStep, Room
<1>5. MediaInv'
  BY <1>1, <1>2, <1>3 DEF MediumInv, MediaInv
<1>6. \A m \in Present' : \A r \in media'[m].recs :
        m \in Present /\ ((r = q /\ m = n) \/ (r \in media[m].recs /\ r.id # q.id))
  BY <1>1, <1>2, <1>3
<1>7. \A m \in Present : \A r \in media[m].recs : r.id \in Ids
  BY PresentFacts, RecordFacts DEF MediumInv
<1>8. IdsInv'
  <2>1. \A m, k \in Present' : \A r \in media'[m].recs, p \in media'[k].recs : r.id = p.id => m = k /\ r = p
    BY <1>6 DEF MediumInv, IdsInv
  <2>2. \A m \in Present' : \A r \in media'[m].recs : fate'[r.id] # "new"
    BY <1>6, <1>7 DEF MediumInv, IdsInv
  <2> QED
    BY <2>1, <2>2 DEF IdsInv
<1>9. DamageInv'
  <2> SUFFICES ASSUME NEW m \in Present', NEW r \in media'[m].recs, NEW p \in media'[m].recs,
                      r.state = "DAMAGED", r.at <= p.at
               PROVE  fate'[p.id] # "kept"
    BY DEF DamageInv
  <2>1. m # n
    BY <1>6
  <2>2. m \in Present /\ r \in media[m].recs /\ p \in media[m].recs /\ p.id # q.id /\ p.id \in Ids
    BY <1>6, <1>7, <2>1
  <2> QED
    BY <2>2 DEF MediumInv, DamageInv
<1> QED
  BY <1>4, <1>5, <1>8, <1>9 DEF MediumInv

\* A flag is written, or a record ruined.
LEMMA MediumReflag ==
  ASSUME MediumInv, FateStep, CountersStep, NEW n \in Present, NEW f, NEW b,
         IsReflag(media[n], f, b), media' = With(n, b),
         \A r, q \in media[n].recs : f[r].state = "DAMAGED" /\ r.at <= q.at => fate'[q.id] # "kept"
  PROVE  MediumInv'
<1>1. n \in SequenceNumbers /\ media[n] \in Blocks /\ Tiled(media[n])
  BY PresentFacts DEF MediumInv, MediaInv
<1>2. /\ b \in Blocks /\ Tiled(b) /\ b.recs = {f[r] : r \in media[n].recs}
      /\ \A r \in media[n].recs : f[r].id = r.id /\ f[r].at = r.at
  BY <1>1, ReflagIs
<1>3. /\ media' \in [SequenceNumbers -> Blocks \cup {NoBlock}]
      /\ Present' = Present \cup {n} /\ media'[n] = b
      /\ \A m \in SequenceNumbers : m # n => media'[m] = media[m]
  BY <1>1, <1>2, PutFacts DEF MediumInv
<1>4. Present' = Present /\ \A m \in Present : m # n => media'[m] = media[m]
  BY <1>3 DEF Present
<1>5. MediumTypes'
  BY <1>3 DEF MediumInv, MediumTypes, CountersStep, FateStep, Room
<1>6. MediaInv'
  BY <1>2, <1>3, <1>4 DEF MediumInv, MediaInv
<1>7. ASSUME NEW m \in Present', NEW r \in media'[m].recs
      PROVE  \E p \in media[m].recs : /\ p.id = r.id /\ p.at = r.at /\ p.id \in Ids
                                      /\ r = IF m = n THEN f[p] ELSE p
  <2>1. CASE m = n
    <3>1. PICK p \in media[n].recs : r = f[p]
      BY <1>2, <1>3, <2>1
    <3> QED
      BY <1>1, <1>2, <2>1, <3>1, RecordFacts
  <2>2. CASE m # n
    <3>1. r \in media[m].recs /\ m \in Present
      BY <1>4, <2>2
    <3> QED
      BY <2>2, <3>1, PresentFacts, RecordFacts DEF MediumInv
  <2> QED
    BY <2>1, <2>2
<1>8. IdsInv'
  <2>1. ASSUME NEW m \in Present', NEW k \in Present', NEW r \in media'[m].recs, NEW q \in media'[k].recs,
               r.id = q.id
        PROVE  m = k /\ r = q
    <3>1. PICK p \in media[m].recs : p.id = r.id /\ r = IF m = n THEN f[p] ELSE p
      BY <1>7
    <3>2. PICK o \in media[k].recs : o.id = q.id /\ q = IF k = n THEN f[o] ELSE o
      BY <1>7
    <3>3. m = k /\ p = o
      BY <1>4, <2>1, <3>1, <3>2 DEF MediumInv, IdsInv
    <3> QED
      BY <3>1, <3>2, <3>3
  <2>2. ASSUME NEW m \in Present', NEW r \in media'[m].recs
        PROVE  fate'[r.id] # "new"
    BY <1>4, <1>7 DEF MediumInv, IdsInv, FateStep
  <2> QED
    BY <2>1, <2>2 DEF IdsInv
<1>9. DamageInv'
  <2> SUFFICES ASSUME NEW m \in Present', NEW r \in media'[m].recs, NEW q \in media'[m].recs,
                      r.state = "DAMAGED", r.at <= q.at
               PROVE  fate'[q.id] # "kept"
    BY DEF DamageInv
  <2>1. PICK p \in media[m].recs : p.at = r.at /\ r = IF m = n THEN f[p] ELSE p
    BY <1>7
  <2>2. PICK o \in media[m].recs : o.at = q.at /\ o.id = q.id /\ o.id \in Ids
    BY <1>7
  <2>3. CASE m = n
    BY <2>1, <2>2, <2>3
  <2>4. CASE m # n
    <3>1. fate[o.id] # "kept"
      BY <1>4, <2>1, <2>2, <2>4 DEF MediumInv, DamageInv
    <3> QED
      BY <2>2, <3>1 DEF FateStep
  <2> QED
    BY <2>3, <2>4
<1> QED
  BY <1>5, <1>6, <1>8, <1>9 DEF MediumInv

-----------------------------------------------------------------------------
(* Where the blocks lie *)

LEMMA NextOffset ==
  ASSUME NEW o \in SequenceNumbers, NEW w \in SequenceNumbers, Offset(o, w) + 1 < Modulus
  PROVE  Offset(o, NextSequence(w)) = Offset(o, w) + 1
<1>1. PICK n : n = NextSequence(w)
  OBVIOUS
<1>2. n = (IF w = Modulus - 1 THEN 0 ELSE w + 1) /\ n \in SequenceNumbers
  BY <1>1, NextIs
<1>3. Offset(o, w) = IF w >= o THEN w - o ELSE w - o + Modulus
  BY OffsetIs
<1>4. Offset(o, n) = IF n >= o THEN n - o ELSE n - o + Modulus
  BY <1>2, OffsetIs
<1>5. Offset(o, n) = Offset(o, w) + 1
  BY <1>2, <1>3, <1>4, ModulusAssumption DEF SequenceNumbers
<1> QED
  BY <1>1, <1>5

LEMMA BoundFacts ==
  ASSUME MediumTypes
  PROVE  Bound \in 2..Modulus - 1 /\ MaxBlocks <= Bound
BY ModulusAssumption, MaxBlocksAssumption, StoreBoundsAssumption DEF MediumTypes, Room, Bound

LEMMA RunFacts ==
  ASSUME MediumInv, WhereInv, Running
  PROVE  /\ seq.OldestSequence \in SequenceNumbers /\ seq.WriteSequence \in SequenceNumbers
         /\ seq.ReadSequence \in SequenceNumbers
         /\ Offset(seq.OldestSequence, seq.WriteSequence) \in 0..Modulus - 1
         /\ BlockCount(seq) = Offset(seq.OldestSequence, seq.WriteSequence) + 1
         /\ seq.OldestSequence \in Present /\ seq.WriteSequence \in Present
         /\ media[seq.WriteSequence] \in Blocks /\ Tiled(media[seq.WriteSequence])
<1>1. seq.OldestSequence \in SequenceNumbers /\ seq.WriteSequence \in SequenceNumbers
  BY DEF WhereInv, StructTypes
<1>2. Offset(seq.OldestSequence, seq.WriteSequence) \in 0..Modulus - 1
  BY <1>1, OffsetIs DEF SequenceNumbers
<1>3. seq.OldestSequence \in Present /\ seq.WriteSequence \in Present
  BY DEF WhereInv, RunInv
<1>4. media[seq.WriteSequence] \in Blocks /\ Tiled(media[seq.WriteSequence])
  BY <1>3, PresentFacts DEF MediumInv, MediaInv
<1> QED
  BY <1>1, <1>2, <1>3, <1>4, BlockCountIs DEF WhereInv, StructTypes

LEMMA ReadFacts ==
  ASSUME ControlInv, MediumInv, WhereInv, Running
  PROVE  /\ seq.ReadSequence = seq.OldestSequence /\ seq.ReadSequence \in Present
         /\ ReadBlock \in Blocks /\ Tiled(ReadBlock) /\ ReadBlock.size \in 0..MaxBlockSize
<1>1. seq.ReadSequence = seq.OldestSequence /\ seq.ReadSequence \in Present
  BY RunFacts DEF ControlInv
<1>2. ReadBlock \in Blocks /\ Tiled(ReadBlock)
  BY <1>1, PresentFacts DEF MediumInv, MediaInv, ReadBlock
<1> QED
  BY <1>1, <1>2, RecordFacts

\* The number after the newest block is not one of the run's.
LEMMA NextIsFree ==
  ASSUME MediumInv, WhereInv, Running, BlockCount(seq) <= Bound
  PROVE  /\ NextSequence(seq.WriteSequence) \in SequenceNumbers
         /\ NextSequence(seq.WriteSequence) \notin seq.BlockPresent
         /\ Offset(seq.OldestSequence, NextSequence(seq.WriteSequence)) = BlockCount(seq)
<1>1. PICK o : o = seq.OldestSequence
  OBVIOUS
<1>2. PICK w : w = seq.WriteSequence
  OBVIOUS
<1>3. PICK n : n = NextSequence(w)
  OBVIOUS
<1>4. /\ o \in SequenceNumbers /\ w \in SequenceNumbers /\ Offset(o, w) \in 0..Modulus - 1
      /\ BlockCount(seq) = Offset(o, w) + 1
  BY <1>1, <1>2, RunFacts
<1>5. Bound \in 2..Modulus - 1
  BY BoundFacts DEF MediumInv
<1>6. Offset(o, w) + 1 < Modulus
  BY <1>4, <1>5, ModulusAssumption
<1>7. Offset(o, n) = Offset(o, w) + 1 /\ n \in SequenceNumbers
  BY <1>3, <1>4, <1>6, NextOffset, NextIs
<1>8. n \in seq.BlockPresent => Offset(o, n) <= Offset(o, w)
  BY <1>1, <1>2 DEF WhereInv, RunInv, IsArc
<1>9. n \notin seq.BlockPresent
  BY <1>4, <1>7, <1>8
<1> QED
  BY <1>1, <1>2, <1>3, <1>4, <1>7, <1>9

\* The blocks of a store that runs lie close ahead of the oldest.
LEMMA RunArc ==
  ASSUME MediumInv, WhereInv, Running, NEW n \in Present
  PROVE  Offset(seq.OldestSequence, n) < Bound + 1
<1>1. Bound \in 2..Modulus - 1
  BY BoundFacts DEF MediumInv
<1>2. PICK o : o = seq.OldestSequence
  OBVIOUS
<1>3. PICK w : w = seq.WriteSequence
  OBVIOUS
<1>4. PICK k : k = BlockCount(seq)
  OBVIOUS
<1>5. o \in SequenceNumbers /\ w \in SequenceNumbers /\ Offset(o, w) \in 0..Modulus - 1 /\ k = Offset(o, w) + 1
  BY <1>2, <1>3, <1>4, RunFacts
<1>6. k <= Bound + 1
  BY <1>1, <1>4, <1>5 DEF WhereInv, RunInv
<1>7. Offset(o, n) \in 0..Modulus - 1
  BY <1>5, PresentFacts, OffsetIs DEF MediumInv, SequenceNumbers
<1>8. CASE n \in seq.BlockPresent
  <2>1. Offset(o, n) <= Offset(o, w)
    BY <1>2, <1>3, <1>8 DEF WhereInv, RunInv, IsArc
  <2> QED
    BY <1>1, <1>2, <1>5, <1>6, <1>7, <2>1
<1>9. CASE n \notin seq.BlockPresent
  <2>1. n = NextSequence(w) /\ k + 1 <= Bound
    BY <1>3, <1>4, <1>9 DEF WhereInv, RunInv
  <2>2. k <= Bound
    BY <1>1, <1>5, <2>1
  <2>3. Offset(o, n) = k
    BY <1>2, <1>3, <1>4, <2>1, <2>2, NextIsFree
  <2> QED
    BY <1>1, <1>2, <1>5, <2>2, <2>3
<1> QED
  BY <1>8, <1>9

\* Whatever the store is doing, the blocks on the media lie in a short arc.
LEMMA ArcOf ==
  ASSUME MediumInv, WhereInv
  PROVE  \E o \in SequenceNumbers : \A n \in Present : Offset(o, n) < Bound + 1
<1>1. Bound \in 2..Modulus - 1
  BY BoundFacts DEF MediumInv
<1>2. CASE ~Running
  <2>1. PICK o \in SequenceNumbers : \A n \in Present : Offset(o, n) < Bound + (IF pc = "frozen" THEN 1 ELSE 0)
    BY <1>2 DEF WhereInv, DownInv
  <2>2. \A n \in Present : Offset(o, n) < Bound + 1
    <3> SUFFICES ASSUME NEW n \in Present PROVE Offset(o, n) < Bound + 1
      OBVIOUS
    <3>1. Offset(o, n) \in Int
      BY PresentFacts, OffsetIs, ModulusAssumption DEF MediumInv, SequenceNumbers
    <3>2. Offset(o, n) < Bound + 1 \/ Offset(o, n) < Bound
      BY <1>1, <2>1
    <3> QED
      BY <1>1, <3>1, <3>2
  <2> QED
    BY <2>2
<1>3. CASE Running
  <2>1. PICK o \in SequenceNumbers : o = seq.OldestSequence
    BY <1>3, RunFacts
  <2>2. \A n \in Present : Offset(o, n) < Bound + 1
    BY <1>3, <2>1, RunArc
  <2> QED
    BY <2>2
<1> QED
  BY <1>2, <1>3

\* Every record kept can still be sent from the media.
KeptOnMedium ==
  \A id \in Ids : fate[id] = "kept" =>
    \E n \in Present : \E r \in media[n].recs : r.id = id /\ IsSendable(media[n], r)

\* A step that stops the store, or starts it again.
LEMMA DownStep ==
  ASSUME IInv, ControlInv', MediumInv', StructTypes', Present' = Present, KeptOnMedium',
         \/ pc' = "frozen" /\ crashes' = crashes /\ damage' = damage
         \/ pc' = "opening" /\ crashes' = crashes + 1 /\ damage' = damage /\ delivered' = 0,
         reported' \subseteq {"REFUSAL", "EVICTION", "SEAL", "LOSS"}, delivered' \in {0} \cup Ids
  PROVE  IInv'
<1>1. ~Running' /\ pc' \notin Serving /\ pc' \notin Writing
  BY DEF Running, Serving, Writing
<1>2. PICK o \in SequenceNumbers : \A n \in Present : Offset(o, n) < Bound + 1
  BY ArcOf DEF IInv
<1>3. Bound' + (IF pc' = "frozen" THEN 1 ELSE 0) = Bound + 1
  <2>1. MaxBlocks \in Nat /\ crashes \in Nat /\ damage \in Nat
    BY MaxBlocksAssumption, ModulusAssumption DEF IInv, MediumInv, MediumTypes
  <2> QED
    BY <2>1 DEF Bound
<1>4. DownInv'
  <2>1. \A n \in Present' : Offset(o, n) < Bound' + (IF pc' = "frozen" THEN 1 ELSE 0)
    BY <1>2, <1>3
  <2> QED
    BY <1>1, <2>1 DEF DownInv
<1>5. RunInv' /\ PositionInv' /\ CursorInv'
  BY <1>1 DEF RunInv, PositionInv, CursorInv
<1>6. OtherTypes' /\ WriteBlockInv' /\ WritingInv' /\ LastReadInv'
  BY <1>1 DEF OtherTypes, WriteBlockInv, WritingInv, LastReadInv, Writing
<1>7. KeptInv'
  BY <1>1 DEF KeptInv, KeptOnMedium
<1> QED
  BY <1>4, <1>5, <1>6, <1>7 DEF IInv, WhereInv, CallInv

LEMMA KeptSame ==
  ASSUME KeptInv, media' = media, FateStep
  PROVE  KeptOnMedium'
<1>1. Present' = Present
  BY DEF Present
<1> QED
  BY <1>1 DEF KeptInv, KeptOnMedium, FateStep

\* A device call fails, and nothing on the media changes.
LEMMA FailStep ==
  ASSUME IInv, ControlInv', StructTypes', media' = media, fate' = fate,
         pc' = "frozen", crashes' = crashes, damage' = damage,
         reported' = reported, delivered' = delivered
  PROVE  IInv'
<1>1. FateStep /\ CountersStep
  BY SameFate, SameCounters DEF IInv, MediumInv
<1>2. MediumInv' /\ Present' = Present
  BY <1>1, MediumSame DEF IInv
<1>3. KeptOnMedium'
  BY <1>1, KeptSame DEF IInv, CallInv
<1>4. reported' \subseteq {"REFUSAL", "EVICTION", "SEAL", "LOSS"} /\ delivered' \in {0} \cup Ids
  BY DEF IInv, CallInv, OtherTypes, LastReadInv
<1> QED
  BY <1>2, <1>3, <1>4, DownStep

-----------------------------------------------------------------------------
(* Moves within the read block, and on to the next *)

\* s is where the store may be without having changed the media.
InBlock(s) ==
  /\ IsStruct(s) /\ SameRun(seq, s)
  /\ s.ReadSequence = seq.ReadSequence /\ s.WritePosition = seq.WritePosition
  /\ s.ReadCursor \in 0..ReadBlock.size
  /\ s.ReadBlockSize # SizeUnknown =>
       seq.ReadSequence # seq.WriteSequence /\ s.ReadBlockSize = ReadBlock.size

LEMMA HereInBlock ==
  ASSUME ControlInv, MediumInv, WhereInv, Running
  PROVE  InBlock(seq)
<1>1. seq.ReadCursor \in 0..ReadBlock.size
  <2>1. seq.ReadCursor \in 0..MaxBlockSize /\ ReadBlock.size \in 0..MaxBlockSize
    BY ReadFacts DEF WhereInv, StructTypes
  <2>2. seq.ReadCursor <= ReadBlock.size
    BY DEF WhereInv, CursorInv
  <2> QED
    BY <2>1, <2>2, BlockSizeAssumption
<1> QED
  BY <1>1 DEF ControlInv, WhereInv, PositionInv, InBlock, SameRun

\* Asking for the size of the read block.
LEMMA SizedIs ==
  ASSUME ControlInv, MediumInv, WhereInv, Running, NEW s, s = WithReadBlockSize(seq, ReadBlock.size)
  PROVE  /\ InBlock(s) /\ s.ReadCursor = seq.ReadCursor /\ SameWrite(seq, s)
         /\ ReadBlockSize(s) = ReadBlock.size
<1>1. IsStruct(seq) /\ InBlock(seq)
  BY HereInBlock DEF ControlInv
<1>2. /\ IsStruct(s) /\ SameRun(seq, s) /\ SameWrite(seq, s)
      /\ s.ReadSequence = seq.ReadSequence /\ s.ReadCursor = seq.ReadCursor
      /\ s.ReadBlockSize = IF ReadBlockSizeAsks(seq) THEN ReadBlock.size ELSE seq.ReadBlockSize
  BY <1>1, WithReadBlockSizeFields
<1>3. ReadIsBehindWrite(s) = ReadIsBehindWrite(seq)
  BY <1>2 DEF ReadIsBehindWrite, SameRun
<1>4. CASE ReadIsBehindWrite(seq)
  <2>1. s.ReadBlockSize = ReadBlock.size
    BY <1>1, <1>2, <1>4 DEF ReadBlockSizeAsks, InBlock
  <2>2. ReadBlockSize(s) = ReadBlock.size
    BY <1>3, <1>4, <2>1 DEF ReadBlockSize
  <2> QED
    BY <1>1, <1>2, <1>4, <2>1, <2>2 DEF InBlock, SameWrite, ReadIsBehindWrite
<1>5. CASE ~ReadIsBehindWrite(seq)
  <2>1. s.ReadBlockSize = seq.ReadBlockSize
    BY <1>2, <1>5 DEF ReadBlockSizeAsks
  <2>2. seq.ReadSequence = seq.WriteSequence
    BY <1>5 DEF ReadIsBehindWrite
  <2>3. seq.WritePosition = ReadBlock.size
    BY <2>2 DEF WhereInv, PositionInv, ReadBlock
  <2>4. ReadBlockSize(s) = ReadBlock.size
    BY <1>2, <1>3, <1>5, <2>3 DEF ReadBlockSize, SameWrite
  <2> QED
    BY <1>1, <1>2, <2>1, <2>4 DEF InBlock, SameWrite
<1> QED
  BY <1>4, <1>5

\* A struct in the block has its types.
LEMMA InBlockTypes ==
  ASSUME ControlInv, MediumInv, WhereInv, Running, NEW s, InBlock(s),
         SameRun(s, seq'), SameRead(s, seq'), seq'.WritePosition = s.WritePosition
  PROVE  StructTypes'
<1>1. ReadBlock.size \in 0..MaxBlockSize /\ MaxBlockSize \in Nat
  BY ReadFacts, BlockSizeAssumption
<1>2. seq'.ReadCursor \in 0..MaxBlockSize
  BY <1>1 DEF InBlock, SameRead
<1>3. seq'.ReadBlockSize \in SizeUnknown..MaxBlockSize
  BY <1>1 DEF InBlock, SameRead, SizeUnknown
<1>4. seq'.BlockPresent = seq.BlockPresent /\ seq'.OldestSequence = seq.OldestSequence
      /\ seq'.WriteSequence = seq.WriteSequence /\ seq'.ReadSequence = seq.ReadSequence
      /\ seq'.WritePosition = seq.WritePosition
  BY DEF InBlock, SameRun, SameRead
<1> QED
  BY <1>2, <1>3, <1>4 DEF StructTypes, WhereInv

\* A device that fails leaves the struct where it was.
LEMMA InBlockFails ==
  ASSUME IInv, ControlInv', Running, NEW s, InBlock(s), seq' = NoteDeviceFailure(s),
         media' = media, fate' = fate, pc' = "frozen", crashes' = crashes, damage' = damage,
         reported' = reported, delivered' = delivered
  PROVE  IInv'
<1>1. SameRun(s, seq') /\ SameRead(s, seq') /\ seq'.WritePosition = s.WritePosition
  BY NoteDeviceFailureFields DEF InBlock, SameWrite
<1>2. StructTypes'
  BY <1>1, InBlockTypes DEF IInv
<1> QED
  BY <1>2, FailStep

\* A step that stays in the read block and leaves the media alone.
Stays(s) ==
  /\ InBlock(s) /\ SameRun(s, seq') /\ SameRead(s, seq') /\ seq'.WritePosition = s.WritePosition
  /\ media' = media /\ crashes' = crashes /\ damage' = damage
  /\ Running /\ Running'
  /\ pc \in {"draining", "evicting"} => pc' \in {"draining", "evicting"} \/ BlockCount(seq) <= Bound

LEMMA StayWhere ==
  ASSUME ControlInv, MediumInv, WhereInv, FateStep, NEW s, Stays(s)
  PROVE  /\ MediumInv' /\ Present' = Present /\ StructTypes' /\ RunInv' /\ DownInv' /\ PositionInv'
         /\ ReadBlock' = ReadBlock /\ seq'.ReadSequence = seq.ReadSequence
         /\ seq'.WriteSequence = seq.WriteSequence
<1>1. MediumInv' /\ Present' = Present
  BY SameCounters, MediumSame DEF Stays, MediumInv
<1>2. StructTypes'
  BY InBlockTypes DEF Stays
<1>3. /\ seq'.BlockPresent = seq.BlockPresent /\ seq'.OldestSequence = seq.OldestSequence
      /\ seq'.WriteSequence = seq.WriteSequence /\ seq'.ReadSequence = seq.ReadSequence
      /\ seq'.WritePosition = seq.WritePosition
  BY DEF Stays, InBlock, SameRun, SameRead
<1>4. BlockCount(seq') = BlockCount(seq) /\ Bound' = Bound /\ ReadBlock' = ReadBlock
  BY <1>3 DEF BlockCount, Bound, ReadBlock, Stays
<1>5. BlockCount(seq) <= Bound + (IF pc' \in {"draining", "evicting"} THEN 1 ELSE 0)
  <2>1. Bound \in Int /\ BlockCount(seq) \in Int
    BY BoundFacts, RunFacts, ModulusAssumption DEF MediumInv, Stays
  <2>2. BlockCount(seq) <= Bound + (IF pc \in {"draining", "evicting"} THEN 1 ELSE 0)
    BY DEF WhereInv, RunInv, Stays
  <2>3. CASE pc' \in {"draining", "evicting"}
    BY <2>1, <2>2, <2>3
  <2>4. CASE pc' \notin {"draining", "evicting"}
    BY <2>1, <2>2, <2>4 DEF Stays
  <2> QED
    BY <2>3, <2>4
<1>6. RunInv'
  <2>1. /\ seq.BlockPresent \subseteq Present
        /\ Present \subseteq seq.BlockPresent \cup {NextSequence(seq.WriteSequence)}
        /\ {seq.OldestSequence, seq.WriteSequence} \subseteq seq.BlockPresent
        /\ IsArc(seq.BlockPresent, seq.OldestSequence, seq.WriteSequence)
        /\ \A n \in Present \ seq.BlockPresent : media[n].recs = {} /\ BlockCount(seq) + 1 <= Bound
    BY DEF WhereInv, RunInv, Stays
  <2> QED
    BY <1>1, <1>3, <1>4, <1>5, <2>1 DEF RunInv, Stays
<1>7. DownInv'
  BY DEF DownInv, Stays
<1>8. PositionInv'
  BY <1>3, <1>4 DEF PositionInv, WhereInv, Stays, InBlock, SameRead
<1> QED
  BY <1>1, <1>2, <1>3, <1>4, <1>6, <1>7, <1>8

\* ...and passes over no record that can still be sent.
LEMMA StayKept ==
  ASSUME KeptInv, FateStep, NEW s, Stays(s),
         \A r \in ReadBlock.recs :
           fate'[r.id] = "kept" /\ IsSendable(ReadBlock, r) /\ seq.ReadCursor <= r.at => s.ReadCursor <= r.at
  PROVE  KeptInv'
<1>1. Present' = Present /\ media' = media /\ Running
  BY DEF Present, Stays
<1>2. seq'.ReadSequence = seq.ReadSequence /\ seq'.ReadCursor = s.ReadCursor
  BY DEF Stays, InBlock, SameRun, SameRead
<1> SUFFICES ASSUME NEW id \in Ids, fate'[id] = "kept"
             PROVE  \E n \in Present' : \E r \in media'[n].recs :
                      /\ r.id = id /\ IsSendable(media'[n], r)
                      /\ Running' /\ n = seq'.ReadSequence => seq'.ReadCursor <= r.at
  BY DEF KeptInv
<1>n. PICK n \in Present : \E r \in media[n].recs :
         /\ r.id = id /\ IsSendable(media[n], r)
         /\ n = seq.ReadSequence => seq.ReadCursor <= r.at
  BY <1>1 DEF KeptInv, FateStep
<1>3. PICK r \in media[n].recs :
         /\ r.id = id /\ IsSendable(media[n], r)
         /\ n = seq.ReadSequence => seq.ReadCursor <= r.at
  BY <1>n
<1>4. n = seq.ReadSequence => s.ReadCursor <= r.at
  BY <1>3 DEF ReadBlock
<1> QED
  BY <1>1, <1>2, <1>3, <1>4

\* The oldest block goes, and the read begins on the next.
MovedOn(s, t) ==
  /\ IsStruct(t) /\ t.BlockPresent = s.BlockPresent \ {s.OldestSequence}
  /\ t.OldestSequence = NextOldest(s) /\ t.ReadSequence = NextOldest(s)
  /\ t.WriteSequence = s.WriteSequence
  /\ t.ReadCursor = 0 /\ t.ReadBlockSize = SizeUnknown /\ SameWrite(s, t)

MovesOn(s) ==
  /\ InBlock(s) /\ MovedOn(s, seq') /\ seq.OldestSequence # seq.WriteSequence
  /\ media' = Without(seq.OldestSequence) /\ crashes' = crashes /\ damage' = damage
  /\ Running /\ Running'

LEMMA MoveOnWhere ==
  ASSUME ControlInv, MediumInv, WhereInv, FateStep, NEW s, MovesOn(s)
  PROVE  /\ MediumInv' /\ WhereInv' /\ media'[seq.WriteSequence] = media[seq.WriteSequence]
         /\ Present' = Present \ {seq.OldestSequence} /\ seq'.WriteSequence = seq.WriteSequence
<1>1. PICK o : o = seq.OldestSequence
  OBVIOUS
<1>2. PICK w : w = seq.WriteSequence
  OBVIOUS
<1>3. PICK m : m = NextOldest(s)
  OBVIOUS
<1>4. /\ o \in SequenceNumbers /\ w \in SequenceNumbers /\ o # w
      /\ Offset(o, w) \in 0..Modulus - 1 /\ BlockCount(seq) = Offset(o, w) + 1
  BY <1>1, <1>2, RunFacts DEF MovesOn
<1>5. /\ Present' = Present \ {o}
      /\ \A n \in SequenceNumbers : n # o => media'[n] = media[n]
  BY <1>1, <1>4, DropFacts DEF MovesOn, MediumInv
<1>6. MediumInv'
  BY <1>1, <1>4, SameCounters, MediumDrop DEF MovesOn, MediumInv
<1>7. /\ s.BlockPresent = seq.BlockPresent /\ s.OldestSequence = o /\ s.WriteSequence = w
      /\ IsStruct(s)
  BY <1>1, <1>2 DEF MovesOn, InBlock, SameRun
<1>8. /\ seq.BlockPresent \subseteq SequenceNumbers /\ seq.BlockPresent \subseteq Present
      /\ Present \subseteq seq.BlockPresent \cup {NextSequence(w)}
      /\ o \in seq.BlockPresent /\ w \in seq.BlockPresent
      /\ IsArc(seq.BlockPresent, o, w)
      /\ \A n \in Present \ seq.BlockPresent : media[n].recs = {} /\ BlockCount(seq) + 1 <= Bound
      /\ BlockCount(seq) <= Bound + (IF pc \in {"draining", "evicting"} THEN 1 ELSE 0)
  BY <1>1, <1>2 DEF WhereInv, RunInv, StructTypes, MovesOn
<1>9. /\ m \in seq.BlockPresent \ {o} /\ IsArc(seq.BlockPresent \ {o}, m, w)
      /\ Offset(m, w) < Offset(o, w)
  BY <1>3, <1>4, <1>7, <1>8, NextOldestIs
<1>10. /\ seq'.BlockPresent = seq.BlockPresent \ {o} /\ seq'.OldestSequence = m /\ seq'.ReadSequence = m
       /\ seq'.WriteSequence = w /\ seq'.ReadCursor = 0 /\ seq'.ReadBlockSize = SizeUnknown
       /\ seq'.WritePosition = seq.WritePosition
  BY <1>3, <1>7 DEF MovesOn, MovedOn, InBlock, SameWrite
<1>11. m \in SequenceNumbers
  BY <1>8, <1>9
<1>12. PICK k : k = BlockCount(seq')
  OBVIOUS
<1>13. k = Offset(m, w) + 1
  BY <1>10, <1>12, BlockCountIs
<1>14. Offset(m, w) \in 0..Modulus - 1
  BY <1>4, <1>11, OffsetIs DEF SequenceNumbers
<1>15. Bound \in 2..Modulus - 1 /\ Bound' = Bound
  BY BoundFacts DEF MediumInv, Bound, MovesOn
<1>16. k < BlockCount(seq) /\ k <= Bound /\ k \in Nat /\ BlockCount(seq) \in Nat
  BY <1>4, <1>8, <1>9, <1>13, <1>14, <1>15, ModulusAssumption
<1>17. RunInv'
  <2>1. k <= Bound' + (IF pc' \in {"draining", "evicting"} THEN 1 ELSE 0)
    BY <1>15, <1>16
  <2>2. ASSUME NEW n \in Present' \ seq'.BlockPresent
        PROVE  media'[n].recs = {} /\ k + 1 <= Bound'
    <3>1. n \in Present \ seq.BlockPresent /\ n # o /\ n \in SequenceNumbers
      BY <1>5, <1>10, <2>2 DEF Present
    <3>2. media[n].recs = {} /\ BlockCount(seq) + 1 <= Bound
      BY <1>8, <3>1
    <3> QED
      BY <1>5, <1>15, <1>16, <3>1, <3>2
  <2>3. seq'.BlockPresent \subseteq Present' /\ Present' \subseteq seq'.BlockPresent \cup {NextSequence(seq'.WriteSequence)}
    BY <1>5, <1>8, <1>10
  <2>4. {seq'.OldestSequence, seq'.WriteSequence} \subseteq seq'.BlockPresent
    BY <1>4, <1>8, <1>9, <1>10
  <2>5. IsArc(seq'.BlockPresent, seq'.OldestSequence, seq'.WriteSequence)
    BY <1>9, <1>10
  <2> QED
    BY <1>12, <2>1, <2>2, <2>3, <2>4, <2>5 DEF RunInv
<1>18. StructTypes'
  <2>1. 0 \in 0..MaxBlockSize /\ SizeUnknown \in SizeUnknown..MaxBlockSize
    BY BlockSizeAssumption DEF SizeUnknown
  <2>2. seq'.BlockPresent \subseteq SequenceNumbers
    BY <1>8, <1>10
  <2> QED
    BY <1>4, <1>10, <1>11, <2>1, <2>2 DEF StructTypes, WhereInv
<1>19. PositionInv'
  BY <1>4, <1>5, <1>10, <1>2 DEF PositionInv, WhereInv, MovesOn
<1>20. CursorInv'
  <2>1. ReadBlock' \in Blocks
    <3>1. m \in Present'
      BY <1>5, <1>8, <1>9
    <3> QED
      BY <1>6, <1>10, <3>1 DEF MediumInv, MediumTypes, Present, ReadBlock
  <2>2. ReadBlock'.size \in 0..MaxBlockSize /\ \A r \in ReadBlock'.recs : r.at \in Nat
    BY <2>1, RecordFacts
  <2> QED
    BY <1>10, <2>2 DEF CursorInv, Boundary
<1>21. DownInv'
  BY DEF DownInv, MovesOn
<1> QED
  BY <1>1, <1>2, <1>4, <1>5, <1>6, <1>10, <1>17, <1>18, <1>19, <1>20, <1>21 DEF WhereInv

\* ...where no record of the block that goes is still to be sent.
LEMMA MoveOnKept ==
  ASSUME ControlInv, MediumInv, WhereInv, KeptInv, FateStep, NEW s, MovesOn(s),
         \A r \in ReadBlock.recs : ~(fate'[r.id] = "kept" /\ IsSendable(ReadBlock, r) /\ seq.ReadCursor <= r.at)
  PROVE  KeptInv'
<1>1. Running /\ seq.OldestSequence \in SequenceNumbers /\ seq.ReadSequence = seq.OldestSequence
  BY RunFacts DEF MovesOn, ControlInv
<1>2. /\ Present' = Present \ {seq.ReadSequence}
      /\ \A n \in SequenceNumbers : n # seq.ReadSequence => media'[n] = media[n]
  BY <1>1, DropFacts DEF MovesOn, MediumInv
<1>3. seq'.ReadCursor = 0
  BY DEF MovesOn, MovedOn
<1> SUFFICES ASSUME NEW id \in Ids, fate'[id] = "kept"
             PROVE  \E n \in Present' : \E r \in media'[n].recs :
                      /\ r.id = id /\ IsSendable(media'[n], r)
                      /\ Running' /\ n = seq'.ReadSequence => seq'.ReadCursor <= r.at
  BY DEF KeptInv
<1>n. PICK n \in Present : \E r \in media[n].recs :
         /\ r.id = id /\ IsSendable(media[n], r)
         /\ n = seq.ReadSequence => seq.ReadCursor <= r.at
  BY <1>1 DEF KeptInv, FateStep
<1>4. PICK r \in media[n].recs :
         /\ r.id = id /\ IsSendable(media[n], r)
         /\ n = seq.ReadSequence => seq.ReadCursor <= r.at
  BY <1>n
<1>5. n # seq.ReadSequence
  BY <1>4 DEF ReadBlock
<1>6. media[n] \in Blocks /\ n \in SequenceNumbers
  BY PresentFacts DEF MediumInv
<1>7. 0 <= r.at
  BY <1>6, RecordFacts
<1> QED
  BY <1>2, <1>3, <1>4, <1>5, <1>6, <1>7

-----------------------------------------------------------------------------
(* The resume *)

\* Where nothing is being written and nothing has been handed out.
LEMMA NothingInHand ==
  ASSUME pc' \in {"scanning", "checking", "idle", "reading", "marking"}, delivered' = 0,
         reported' \subseteq {"REFUSAL", "EVICTION", "SEAL", "LOSS"}
  PROVE  OtherTypes' /\ WritingInv' /\ LastReadInv'
BY DEF OtherTypes, WritingInv, LastReadInv, Serving, Writing

\* The run a start takes over.
LEMMA FreshRun ==
  ASSUME MediumInv', ControlInv', pc' = "scanning", delivered' = 0, reported' = {}, KeptOnMedium',
         NEW o \in Present', NEW w \in Present', IsArc(Present', o, w), Offset(o, w) < Bound',
         seq'.BlockPresent = Present', seq'.OldestSequence = o, seq'.WriteSequence = w,
         seq'.ReadCursor = 0, seq'.ReadBlockSize = SizeUnknown, seq'.WritePosition = media'[w].size
  PROVE  IInv'
<1>1. \A n \in Present' : n \in SequenceNumbers /\ media'[n] \in Blocks
  BY DEF MediumInv, MediumTypes, Present
<1>2. seq'.ReadSequence = o
  BY DEF ControlInv
<1>3. media'[w].size \in 0..MaxBlockSize /\ media'[o].size \in 0..MaxBlockSize /\ MaxBlockSize \in Nat
  BY <1>1, RecordFacts, BlockSizeAssumption
<1>4. StructTypes'
  <2>1. 0 \in 0..MaxBlockSize /\ SizeUnknown \in SizeUnknown..MaxBlockSize
    BY <1>3 DEF SizeUnknown
  <2>2. Present' \subseteq SequenceNumbers
    BY <1>1
  <2> QED
    BY <1>1, <1>2, <1>3, <2>1, <2>2 DEF StructTypes
<1>5. PICK k : k = BlockCount(seq')
  OBVIOUS
<1>6. k <= Bound' + (IF pc' \in {"draining", "evicting"} THEN 1 ELSE 0)
  <2>1. k = Offset(o, w) + 1
    BY <1>5, BlockCountIs
  <2>2. Offset(o, w) \in Int /\ Bound' \in Int
    <3>1. Offset(o, w) \in Int
      BY <1>1, OffsetIs, ModulusAssumption DEF SequenceNumbers
    <3>2. Bound' \in Int
      BY MaxBlocksAssumption, ModulusAssumption DEF MediumInv, MediumTypes, Bound
    <3> QED
      BY <3>1, <3>2
  <2> QED
    BY <2>1, <2>2
<1>7. RunInv'
  BY <1>5, <1>6 DEF RunInv
<1>8. DownInv' /\ PositionInv'
  BY DEF DownInv, PositionInv, Running, ReadBlock
<1>9. CursorInv'
  BY <1>2, <1>3 DEF CursorInv, Boundary, ReadBlock
<1>10. KeptInv'
  <2> SUFFICES ASSUME NEW id \in Ids, fate'[id] = "kept"
               PROVE  \E n \in Present' : \E r \in media'[n].recs :
                        /\ r.id = id /\ IsSendable(media'[n], r)
                        /\ Running' /\ n = seq'.ReadSequence => seq'.ReadCursor <= r.at
    BY DEF KeptInv
  <2>1. PICK n \in Present' : \E r \in media'[n].recs : r.id = id /\ IsSendable(media'[n], r)
    BY DEF KeptOnMedium
  <2>2. PICK r \in media'[n].recs : r.id = id /\ IsSendable(media'[n], r)
    BY <2>1
  <2>3. 0 <= r.at
    BY <1>1, RecordFacts
  <2> QED
    BY <2>2, <2>3
<1>11. OtherTypes' /\ WritingInv' /\ LastReadInv'
  BY NothingInHand
<1>12. WriteBlockInv'
  BY DEF WriteBlockInv, Serving
<1> QED
  BY <1>4, <1>7, <1>8, <1>9, <1>10, <1>11, <1>12 DEF IInv, WhereInv, CallInv

\* The run that a start finds...
LEMMA OpenFinds ==
  ASSUME ControlInv, Open(TRUE), Present # {}, NEW run, run = LocateRunBoundaries(Present)
  PROVE  /\ seq'.BlockPresent = Present /\ seq'.OldestSequence = run.oldest /\ seq'.WriteSequence = run.newest
         /\ seq'.ReadCursor = 0 /\ seq'.ReadBlockSize = SizeUnknown
         /\ seq'.WritePosition = media[run.newest].size
<1>1. PICK o, w : o = run.oldest /\ w = run.newest
  OBVIOUS
<1>2. PICK k : k = StartReadingBlock(seq, o)
  OBVIOUS
<1>3. PICK s : s = ScanForExistingBlocks(seq, Present)
  OBVIOUS
<1>4. s = [k EXCEPT !.BlockPresent = Present, !.OldestSequence = o, !.WriteSequence = w]
  BY <1>1, <1>2, <1>3 DEF ScanForExistingBlocks
<1>5. IsStruct(k) /\ k.ReadCursor = 0 /\ k.ReadBlockSize = SizeUnknown
  <2>1. seq = Initialised
    BY DEF Open, ControlInv
  <2> QED
    BY <1>2, <2>1, StartReadingFields, InitialisedFields
<1>6. /\ IsStruct(s) /\ s.BlockPresent = Present /\ s.OldestSequence = o /\ s.WriteSequence = w
      /\ s.ReadCursor = 0 /\ s.ReadBlockSize = SizeUnknown
  BY <1>4, <1>5 DEF IsStruct
<1>7. PICK size : size = media[w].size
  OBVIOUS
<1>8. PICK j : j = [s EXCEPT !.WritePosition = size]
  OBVIOUS
<1>9. /\ IsStruct(j) /\ j.BlockPresent = Present /\ j.OldestSequence = o /\ j.WriteSequence = w
      /\ j.ReadCursor = 0 /\ j.ReadBlockSize = SizeUnknown /\ j.WritePosition = size
  BY <1>6, <1>8 DEF IsStruct
<1>10. seq' = NotifyThresholdCrossed(j)
  BY <1>3, <1>6, <1>7, <1>8 DEF Open
<1>11. SameRun(j, seq') /\ SameRead(j, seq') /\ SameWrite(j, seq')
  BY <1>9, <1>10, NotifyFields
<1> QED
  BY <1>1, <1>7, <1>9, <1>11 DEF SameRun, SameRead, SameWrite

\* ...or begins.
LEMMA OpenStarts ==
  ASSUME ControlInv, MediumInv, Open(TRUE), Present = {}
  PROVE  /\ seq'.BlockPresent = Present' /\ seq'.OldestSequence = 0 /\ seq'.WriteSequence = 0
         /\ seq'.ReadCursor = 0 /\ seq'.ReadBlockSize = SizeUnknown /\ seq'.WritePosition = media'[0].size
         /\ Present' = {0} /\ media'[0] = EmptyBlock
<1>1. media' = With(0, EmptyBlock) /\ seq' = NotifyThresholdCrossed(Acquired(seq, 0)) /\ seq = Initialised
  BY DEF Open, ControlInv
<1>2. 0 \in SequenceNumbers /\ EmptyBlock \in Blocks /\ EmptyBlock.size = 0
  BY ModulusAssumption, BlockSizeAssumption DEF SequenceNumbers, EmptyBlock, Blocks
<1>3. Present' = Present \cup {0} /\ media'[0] = EmptyBlock
  BY <1>1, <1>2, PutFacts DEF MediumInv
<1>4. PICK k : k = Acquired(seq, 0)
  OBVIOUS
<1>5. /\ IsStruct(k) /\ SameRead(seq, k) /\ SameWrite(seq, k) /\ k.BlockPresent = seq.BlockPresent \cup {0}
      /\ k.OldestSequence = seq.OldestSequence /\ k.WriteSequence = seq.WriteSequence
  BY <1>4, AcquiredFields DEF ControlInv
<1>6. SameRun(k, seq') /\ SameRead(k, seq') /\ SameWrite(k, seq')
  BY <1>1, <1>4, <1>5, NotifyFields
<1>7. /\ seq.BlockPresent = {} /\ seq.OldestSequence = 0 /\ seq.WriteSequence = 0
      /\ seq.ReadCursor = 0 /\ seq.ReadBlockSize = SizeUnknown /\ seq.WritePosition = 0
  BY <1>1, InitialisedFields
<1> QED
  BY <1>2, <1>3, <1>5, <1>6, <1>7 DEF SameRun, SameRead, SameWrite

LEMMA OpenInv == ASSUME IInv, NEW ok \in BOOLEAN, Open(ok) PROVE IInv'
<1>1. /\ pc = "opening" /\ seq = Initialised /\ reported = {} /\ delivered = 0
      /\ reported' = {} /\ delivered' = 0 /\ fate' = fate /\ crashes' = crashes /\ damage' = damage
  BY DEF Open, IInv, ControlInv, CallInv, LastReadInv
<1>2. ControlInv'
  BY OpenControl DEF IInv
<1>3. FateStep /\ CountersStep /\ Bound' = Bound
  BY <1>1, SameFate, SameCounters DEF IInv, MediumInv, Bound
<1>4. Bound \in 2..Modulus - 1
  BY BoundFacts DEF IInv, MediumInv
<1>5. CASE ~ok
  <2>1. seq' = NoteDeviceFailure(seq) /\ media' = media /\ pc' = "frozen"
    BY <1>5 DEF Open
  <2>2. SameRun(seq, seq') /\ SameRead(seq, seq') /\ SameWrite(seq, seq')
    BY <2>1, NoteDeviceFailureFields DEF IInv, ControlInv
  <2>3. StructTypes'
    BY <2>2 DEF IInv, WhereInv, StructTypes, SameRun, SameRead, SameWrite
  <2> QED
    BY <1>1, <1>2, <2>1, <2>3, FailStep
<1>6. CASE ok /\ Present # {}
  <2>1. media' = media /\ pc' = "scanning"
    BY <1>6 DEF Open
  <2>2. MediumInv' /\ Present' = Present
    BY <1>3, <2>1, MediumSame DEF IInv
  <2>3. KeptOnMedium'
    BY <1>3, <2>1, KeptSame DEF IInv, CallInv
  <2>4. PICK run : run = LocateRunBoundaries(Present)
    OBVIOUS
  <2>5. PICK o : o = run.oldest
    OBVIOUS
  <2>6. PICK w : w = run.newest
    OBVIOUS
  <2>7. o \in Present /\ w \in Present /\ IsArc(Present, o, w) /\ Offset(o, w) < Bound
    <3>1. Present \subseteq SequenceNumbers
      BY DEF Present
    <3>2. PICK a \in SequenceNumbers : \A n \in Present : Offset(a, n) < Bound
      <4>1. PICK a \in SequenceNumbers : \A n \in Present : Offset(a, n) < Bound + (IF pc = "frozen" THEN 1 ELSE 0)
        BY <1>1 DEF IInv, WhereInv, DownInv, Running
      <4>2. Bound + (IF pc = "frozen" THEN 1 ELSE 0) = Bound
        BY <1>1, <1>4
      <4> QED
        BY <4>1, <4>2
    <3>3. PICK p : p = Present
      OBVIOUS
    <3>4. PICK len : len = Bound
      OBVIOUS
    <3>5. len \in 1..Modulus - 1
      BY <1>4, <3>4, ModulusAssumption
    <3>6. o \in p /\ w \in p /\ IsArc(p, o, w) /\ Offset(o, w) < len
      BY <1>6, <2>4, <2>5, <2>6, <3>1, <3>2, <3>3, <3>4, <3>5, LocateIs
    <3> QED
      BY <3>3, <3>4, <3>6
  <2>8. /\ seq'.BlockPresent = Present /\ seq'.OldestSequence = o /\ seq'.WriteSequence = w
        /\ seq'.ReadCursor = 0 /\ seq'.ReadBlockSize = SizeUnknown /\ seq'.WritePosition = media[w].size
    BY <1>6, <2>4, <2>5, <2>6, OpenFinds DEF IInv
  <2>9. /\ seq'.BlockPresent = Present' /\ seq'.OldestSequence = o /\ seq'.WriteSequence = w
         /\ seq'.ReadCursor = 0 /\ seq'.ReadBlockSize = SizeUnknown /\ seq'.WritePosition = media'[w].size
    BY <2>1, <2>2, <2>8
  <2>10. o \in Present' /\ w \in Present' /\ IsArc(Present', o, w) /\ Offset(o, w) < Bound'
    BY <1>3, <2>2, <2>7
  <2> QED
    BY <1>1, <1>2, <2>1, <2>2, <2>3, <2>9, <2>10, FreshRun
<1>7. CASE ok /\ Present = {}
  <2>1. media' = With(0, EmptyBlock) /\ pc' = "scanning" /\ seq' = NotifyThresholdCrossed(Acquired(seq, 0))
    BY <1>7 DEF Open
  <2>2. 0 \in SequenceNumbers /\ EmptyBlock \in Blocks /\ EmptyBlock.recs = {} /\ EmptyBlock.size = 0
    BY ModulusAssumption, BlockSizeAssumption DEF SequenceNumbers, EmptyBlock, Blocks
  <2>3. Present' = {0} /\ media'[0] = EmptyBlock
    <3>1. Present' = Present \cup {0} /\ media'[0] = EmptyBlock
      BY <2>1, <2>2, PutFacts DEF IInv, MediumInv
    <3> QED
      BY <1>7, <3>1
  <2>4. MediumInv'
    BY <1>3, <2>1, <2>2, MediumFresh DEF IInv
  <2>5. KeptOnMedium'
    BY <1>1, <1>7 DEF KeptOnMedium, IInv, CallInv, KeptInv
  <2>6. /\ seq'.BlockPresent = Present' /\ seq'.OldestSequence = 0 /\ seq'.WriteSequence = 0
        /\ seq'.ReadCursor = 0 /\ seq'.ReadBlockSize = SizeUnknown /\ seq'.WritePosition = media'[0].size
    BY <1>7, OpenStarts DEF IInv
  <2>7. Offset(0, 0) = 0
    BY <2>2, OffsetIs
  <2>8. 0 \in Present' /\ IsArc(Present', 0, 0) /\ Offset(0, 0) < Bound'
    BY <1>3, <1>4, <2>3, <2>7 DEF IsArc
  <2> QED
    BY <1>1, <1>2, <2>1, <2>4, <2>5, <2>6, <2>8, FreshRun
<1> QED
  BY <1>5, <1>6, <1>7

\* The write block is as it was.
LEMMA WriteBlockSame ==
  ASSUME WriteBlockInv, pc' \in Serving => pc \in Serving,
         seq'.WriteBlockCorrupt = seq.WriteBlockCorrupt \/ seq'.WriteBlockCorrupt = TRUE,
         seq'.WriteSequence = seq.WriteSequence, media'[seq.WriteSequence] = media[seq.WriteSequence]
  PROVE  WriteBlockInv'
BY DEF WriteBlockInv

\* A read block with nothing left to send.
NothingLeft ==
  \A r \in ReadBlock.recs : ~(fate[r.id] = "kept" /\ IsSendable(ReadBlock, r) /\ seq.ReadCursor <= r.at)

LEMMA LeaveInv ==
  ASSUME IInv, ControlInv', Running, NEW s, InBlock(s), SameWrite(seq, s), NEW ok \in BOOLEAN,
         LeaveReadBlock(s, ok), pc \in {"scanning", "reading"}, pc' = IF ok THEN pc ELSE "frozen",
         reported' \in {reported, reported \cup {"LOSS"}}, ~ok => reported' = reported,
         fate' = fate, crashes' = crashes, damage' = damage, delivered' = delivered, NothingLeft
  PROVE  IInv'
<1>1. seq.ReadSequence # seq.WriteSequence /\ s.ReadSequence = seq.ReadSequence
      /\ s.OldestSequence = seq.OldestSequence /\ seq.ReadSequence = seq.OldestSequence
  BY DEF LeaveReadBlock, ReadIsBehindWrite, InBlock, SameRun, IInv, ControlInv
<1>2. CASE ok
  <2>1. media' = Without(seq.OldestSequence) /\ seq' = DisposeReadBlock(s) /\ pc' = pc
    BY <1>1, <1>2 DEF LeaveReadBlock
  <2>2. IsStruct(s) /\ s.ReadSequence = s.OldestSequence
    BY <1>1 DEF InBlock
  <2>3. MovedOn(s, seq')
    BY <2>1, <2>2, DisposeReadBlockFields DEF MovedOn
  <2>4. MovesOn(s) /\ FateStep
    BY <1>1, <2>1, <2>3, SameFate DEF MovesOn, Running, IInv, MediumInv
  <2>5. /\ MediumInv' /\ WhereInv' /\ media'[seq.WriteSequence] = media[seq.WriteSequence]
        /\ seq'.WriteSequence = seq.WriteSequence
    BY <2>4, MoveOnWhere DEF IInv
  <2>6. KeptInv'
    BY <2>4, MoveOnKept DEF IInv, CallInv, NothingLeft
  <2>7. delivered' = 0 /\ reported' \subseteq {"REFUSAL", "EVICTION", "SEAL", "LOSS"}
    BY DEF IInv, CallInv, LastReadInv, OtherTypes
  <2>8. OtherTypes' /\ WritingInv' /\ LastReadInv'
    BY <2>1, <2>7, NothingInHand
  <2>9. seq'.WriteBlockCorrupt = seq.WriteBlockCorrupt
    BY <2>3 DEF MovedOn, SameWrite
  <2>10. WriteBlockInv'
    BY <2>1, <2>5, <2>9, WriteBlockSame DEF IInv, CallInv
  <2> QED
    BY <2>5, <2>6, <2>8, <2>10 DEF IInv, CallInv
<1>3. CASE ~ok
  <2>1. media' = media /\ seq' = NoteDeviceFailure(s) /\ pc' = "frozen" /\ reported' = reported
    BY <1>3 DEF LeaveReadBlock
  <2> QED
    BY <2>1, InBlockFails
<1> QED
  BY <1>2, <1>3

LEMMA AbandonInv ==
  ASSUME IInv, ControlInv', Running, NEW s, InBlock(s), SameWrite(seq, s), NEW ok \in BOOLEAN,
         NEW onward, NEW done, AbandonRestOfReadBlock(s, ok, onward, done), pc = onward,
         \/ onward = "scanning" /\ done = "checking"
         \/ onward = "reading" /\ done = "idle",
         fate' = fate, crashes' = crashes, damage' = damage, delivered' = delivered, NothingLeft
  PROVE  IInv'
<1>1. CASE /\ LeaveReadBlock(s, ok) /\ pc' = (IF ok THEN onward ELSE "frozen")
           /\ reported' = IF ok THEN reported \cup {"LOSS"} ELSE reported
  BY <1>1, LeaveInv
<1>2. CASE /\ ~ReadIsBehindWrite(s)
           /\ seq' = [s EXCEPT !.ReadCursor = s.WritePosition, !.WriteBlockCorrupt = TRUE]
           /\ pc' = done /\ reported' = reported \cup {"LOSS"} /\ UNCHANGED <<media, lastRead>>
  <2>1. seq.ReadSequence = seq.WriteSequence
    BY <1>2 DEF ReadIsBehindWrite, InBlock, SameRun
  <2>2. PICK p : p = s.WritePosition
    OBVIOUS
  <2>3. p = ReadBlock.size /\ ReadBlock.size \in 0..MaxBlockSize
    BY <2>1, <2>2, ReadFacts DEF InBlock, IInv, WhereInv, PositionInv, ReadBlock
  <2>4. PICK t : t = [s EXCEPT !.ReadCursor = p, !.WriteBlockCorrupt = TRUE]
    OBVIOUS
  <2>5. seq' = t
    BY <1>2, <2>2, <2>4
  <2>6. /\ IsStruct(t) /\ SameRun(s, t) /\ t.ReadSequence = s.ReadSequence /\ t.ReadCursor = p
        /\ t.ReadBlockSize = s.ReadBlockSize /\ t.WritePosition = s.WritePosition
        /\ t.WriteBlockCorrupt = TRUE
    BY <2>4 DEF IsStruct, SameRun, InBlock
  <2>7. InBlock(t)
    BY <2>3, <2>6 DEF InBlock, SameRun
  <2>8. Stays(t) /\ FateStep
    <3>1. SameRun(t, seq') /\ SameRead(t, seq')
      BY <2>5 DEF SameRun, SameRead
    <3>2. Running'
      BY <1>2 DEF Running
    <3> QED
      BY <1>2, <2>5, <2>7, <3>1, <3>2, SameFate DEF Stays, IInv, MediumInv
  <2>9. /\ MediumInv' /\ StructTypes' /\ RunInv' /\ DownInv' /\ PositionInv'
        /\ ReadBlock' = ReadBlock /\ seq'.ReadSequence = seq.ReadSequence
        /\ seq'.WriteSequence = seq.WriteSequence
    BY <2>8, StayWhere DEF IInv
  <2>10. KeptInv'
    BY <2>8, StayKept DEF IInv, CallInv, NothingLeft
  <2>11. CursorInv'
    <3>1. seq'.ReadCursor = ReadBlock'.size /\ seq'.ReadCursor <= ReadBlock'.size
      BY <2>3, <2>5, <2>6, <2>9, BlockSizeAssumption
    <3>2. seq'.WriteBlockCorrupt /\ pc' # "scanning"
      BY <1>2, <2>5, <2>6
    <3> QED
      BY <3>1, <3>2 DEF CursorInv
  <2>12. delivered' = 0 /\ reported' \subseteq {"REFUSAL", "EVICTION", "SEAL", "LOSS"}
    BY <1>2 DEF IInv, CallInv, LastReadInv, OtherTypes
  <2>13. OtherTypes' /\ WritingInv' /\ LastReadInv'
    BY <1>2, <2>12, NothingInHand
  <2>14. WriteBlockInv'
    BY <2>5, <2>6 DEF WriteBlockInv
  <2> QED
    BY <2>9, <2>10, <2>11, <2>13, <2>14 DEF IInv, WhereInv, CallInv
<1> QED
  BY <1>1, <1>2 DEF AbandonRestOfReadBlock

\* Nothing lies in the way of a record that was kept.
LEMMA KeptReads ==
  ASSUME IInv, Running, NEW r \in ReadBlock.recs, fate[r.id] = "kept"
  PROVE  \A q \in ReadBlock.recs : q.at <= r.at => q.state # "DAMAGED"
<1>1. seq.ReadSequence \in Present
  BY ReadFacts DEF IInv
<1> QED
  BY <1>1 DEF IInv, MediumInv, DamageInv, ReadBlock

LEMMA HereFails ==
  ASSUME IInv, ControlInv', Running, DeviceFails, fate' = fate, crashes' = crashes, damage' = damage
  PROVE  IInv'
<1>1. PICK s : s = seq
  OBVIOUS
<1>2. InBlock(s)
  BY <1>1, HereInBlock DEF IInv
<1> QED
  BY <1>1, <1>2, InBlockFails DEF DeviceFails

LEMMA ScanInv == ASSUME IInv, NEW ok \in BOOLEAN, ScanReadBlock(ok) PROVE IInv'
<1>1. /\ pc = "scanning" /\ Running /\ fate' = fate /\ crashes' = crashes /\ damage' = damage
      /\ seq.ReadCursor = 0 /\ delivered = 0
  BY DEF ScanReadBlock, Running, IInv, WhereInv, CursorInv, CallInv, LastReadInv
<1>2. ControlInv'
  BY ScanControl DEF IInv
<1>3. PICK sized : sized = WithReadBlockSize(seq, ReadBlock.size)
  OBVIOUS
<1>4. PICK found : found = FindFirstUnsent(ReadBlock, ReadBlockSize(sized))
  OBVIOUS
<1>5. PICK s : s = [sized EXCEPT !.ReadCursor = found.cursor]
  OBVIOUS
<1>6. InBlock(sized) /\ SameWrite(seq, sized) /\ ReadBlockSize(sized) = ReadBlock.size
  BY <1>1, <1>3, SizedIs DEF IInv
<1>7. ReadBlock \in Blocks /\ Tiled(ReadBlock) /\ ReadBlock.size \in 0..MaxBlockSize
  BY <1>1, ReadFacts DEF IInv
<1>8. IsScanFrom(ReadBlock, 0, found)
  <2>1. PICK b : b = ReadBlock
    OBVIOUS
  <2>2. IsScanFrom(b, 0, found)
    BY <1>4, <1>6, <1>7, <2>1, ScanFrom
  <2> QED
    BY <2>1, <2>2
<1>9. /\ IsStruct(s) /\ SameRun(sized, s) /\ SameWrite(sized, s)
      /\ s.ReadSequence = sized.ReadSequence /\ s.ReadCursor = found.cursor
      /\ s.ReadBlockSize = sized.ReadBlockSize
  BY <1>5, <1>6, CursorFields DEF InBlock
<1>10. InBlock(s) /\ SameWrite(seq, s)
  BY <1>6, <1>8, <1>9 DEF InBlock, SameRun, SameWrite, IsScanFrom
<1>11. \A r \in ReadBlock.recs : r.at \in Nat
  BY <1>7, RecordFacts
<1>12. ASSUME NEW r \in ReadBlock.recs, fate[r.id] = "kept", IsSendable(ReadBlock, r)
       PROVE  found.scanned = "CLEAN" /\ found.cursor <= r.at
  BY <1>1, <1>8, <1>11, <1>12, KeptReads DEF IsScanFrom
<1>13. \/ DeviceFails
       \/ /\ found.scanned = "CLEAN" /\ seq' = s /\ pc' = "checking"
          /\ UNCHANGED <<media, lastRead, reported, delivered>>
       \/ /\ found.scanned = "CORRUPT" /\ delivered' = delivered
          /\ AbandonRestOfReadBlock(s, ok, "scanning", "checking")
  BY <1>3, <1>4, <1>5 DEF ScanReadBlock
<1>14. CASE DeviceFails
  BY <1>1, <1>2, <1>14, HereFails
<1>15. CASE /\ found.scanned = "CLEAN" /\ seq' = s /\ pc' = "checking"
            /\ UNCHANGED <<media, lastRead, reported, delivered>>
  <2>1. Stays(s) /\ FateStep
    <3>1. SameRun(s, seq') /\ SameRead(s, seq')
      BY <1>15 DEF SameRun, SameRead
    <3>2. Running'
      BY <1>15 DEF Running
    <3> QED
      BY <1>1, <1>10, <1>15, <3>1, <3>2, SameFate DEF Stays, IInv, MediumInv
  <2>2. /\ MediumInv' /\ StructTypes' /\ RunInv' /\ DownInv' /\ PositionInv'
        /\ ReadBlock' = ReadBlock /\ seq'.ReadSequence = seq.ReadSequence
        /\ seq'.WriteSequence = seq.WriteSequence
    BY <2>1, StayWhere DEF IInv
  <2>3. KeptInv'
    BY <1>1, <1>9, <1>12, <2>1, StayKept DEF IInv, CallInv
  <2>4. CursorInv'
    <3>1. /\ found.cursor \in 0..ReadBlock.size /\ Boundary(ReadBlock, found.cursor)
          /\ \A r \in ReadBlock.recs : r.at < found.cursor => r.state # "DAMAGED"
      BY <1>7, <1>8, <1>11, <1>15 DEF IsScanFrom
    <3> QED
      BY <1>7, <1>9, <1>15, <2>2, <3>1 DEF CursorInv
  <2>5. delivered' = 0 /\ reported' \subseteq {"REFUSAL", "EVICTION", "SEAL", "LOSS"}
    BY <1>1, <1>15 DEF IInv, CallInv, OtherTypes
  <2>6. OtherTypes' /\ WritingInv' /\ LastReadInv'
    BY <1>15, <2>5, NothingInHand
  <2>7. WriteBlockInv'
    BY <1>15 DEF WriteBlockInv, Serving
  <2> QED
    BY <1>2, <2>2, <2>3, <2>4, <2>6, <2>7 DEF IInv, WhereInv, CallInv
<1>16. CASE /\ found.scanned = "CORRUPT" /\ delivered' = delivered
            /\ AbandonRestOfReadBlock(s, ok, "scanning", "checking")
  <2>1. NothingLeft
    BY <1>12, <1>16 DEF NothingLeft
  <2> QED
    BY <1>1, <1>2, <1>10, <1>16, <2>1, AbandonInv
<1> QED
  BY <1>13, <1>14, <1>15, <1>16

LEMMA CheckInv == ASSUME IInv, NEW ok \in BOOLEAN, CheckWriteBlock(ok) PROVE IInv'
<1>1. /\ pc = "checking" /\ Running /\ fate' = fate /\ crashes' = crashes /\ damage' = damage /\ delivered = 0
  BY DEF CheckWriteBlock, Running, IInv, CallInv, LastReadInv
<1>2. ControlInv'
  BY CheckControl DEF IInv
<1>3. CASE ~ok
  <2>1. DeviceFails
    BY <1>3 DEF CheckWriteBlock
  <2> QED
    BY <1>1, <1>2, <2>1, HereFails
<1>4. CASE ok
  <2>1. PICK b : b = media[seq.WriteSequence]
    OBVIOUS
  <2>2. PICK from : from = IF ReadIsBehindWrite(seq) THEN 0 ELSE seq.ReadCursor
    OBVIOUS
  <2>3. PICK c : c = (seq.WriteBlockCorrupt \/ ScanToEnd(b, from, b.size) = "CORRUPT")
    OBVIOUS
  <2>4. b \in Blocks /\ Tiled(b) /\ b.size = seq.WritePosition
    BY <1>1, <2>1, RunFacts DEF IInv, WhereInv, PositionInv
  <2>5. /\ seq' = [seq EXCEPT !.WriteBlockCorrupt = c] /\ pc' = "idle"
        /\ UNCHANGED <<media, lastRead, reported, delivered>>
    BY <1>4, <2>1, <2>2, <2>3, <2>4 DEF CheckWriteBlock
  <2>6. PICK s : s = seq
    OBVIOUS
  <2>7. SameRun(s, seq') /\ SameRead(s, seq') /\ seq'.WritePosition = s.WritePosition
        /\ seq'.WriteBlockCorrupt = c
    BY <2>5, <2>6 DEF IInv, ControlInv, IsStruct, SameRun, SameRead
  <2>8. Stays(s) /\ FateStep
    <3>1. InBlock(s)
      BY <1>1, <2>6, HereInBlock DEF IInv
    <3>2. Running'
      BY <2>5 DEF Running
    <3> QED
      BY <1>1, <2>5, <2>7, <3>1, <3>2, SameFate DEF Stays, IInv, MediumInv
  <2>9. /\ MediumInv' /\ StructTypes' /\ RunInv' /\ DownInv' /\ PositionInv'
        /\ ReadBlock' = ReadBlock /\ seq'.ReadSequence = seq.ReadSequence
        /\ seq'.WriteSequence = seq.WriteSequence
    BY <2>8, StayWhere DEF IInv
  <2>10. KeptInv'
    BY <2>6, <2>8, StayKept DEF IInv, CallInv
  <2>11. seq'.ReadCursor = seq.ReadCursor
    BY <2>6, <2>7 DEF SameRead
  <2>12. CursorInv'
    <3>1. seq.WriteBlockCorrupt => seq'.WriteBlockCorrupt
      BY <2>3, <2>7
    <3> QED
      BY <1>1, <2>5, <2>9, <2>11, <3>1 DEF IInv, WhereInv, CursorInv
  <2>13. delivered' = 0 /\ reported' \subseteq {"REFUSAL", "EVICTION", "SEAL", "LOSS"}
    BY <1>1, <2>5 DEF IInv, CallInv, OtherTypes
  <2>14. OtherTypes' /\ WritingInv' /\ LastReadInv'
    BY <2>5, <2>13, NothingInHand
  <2>15. c \/ IsSound(b)
    <3> SUFFICES ASSUME ~c PROVE IsSound(b)
      OBVIOUS
    <3>1. ~seq.WriteBlockCorrupt /\ ScanToEnd(b, from, b.size) # "CORRUPT"
      BY <2>3
    <3>2. b.size \in Nat /\ \A r \in b.recs : r.at \in Nat
      BY <2>4, RecordFacts
    <3>3. CASE ReadIsBehindWrite(seq)
      <4>1. from = 0 /\ from \in 0..b.size /\ Boundary(b, from)
        BY <2>2, <3>2, <3>3 DEF Boundary
      <4>2. \A r \in b.recs : r.at < from => r.state # "DAMAGED"
        BY <3>2, <4>1
      <4> QED
        BY <2>4, <3>1, <4>1, <4>2, ScannedSound
    <3>4. CASE ~ReadIsBehindWrite(seq)
      <4>1. from = seq.ReadCursor /\ ReadBlock = b /\ seq.ReadSequence = seq.WriteSequence
        BY <2>1, <2>2, <3>4 DEF ReadIsBehindWrite, ReadBlock
      <4>2. from <= b.size /\ Boundary(b, from) /\ \A r \in b.recs : r.at < from => r.state # "DAMAGED"
        BY <1>1, <3>1, <4>1 DEF IInv, WhereInv, CursorInv
      <4>3. from \in 0..b.size
        BY <3>2, <4>1, <4>2, BlockSizeAssumption DEF IInv, WhereInv, StructTypes
      <4> QED
        BY <2>4, <3>1, <4>2, <4>3, ScannedSound
    <3> QED
      BY <3>3, <3>4
  <2>16. WriteBlockInv'
    BY <2>1, <2>5, <2>7, <2>9, <2>15 DEF WriteBlockInv
  <2> QED
    BY <1>2, <2>9, <2>10, <2>12, <2>14, <2>16 DEF IInv, WhereInv, CallInv
<1> QED
  BY <1>3, <1>4

-----------------------------------------------------------------------------
(* Reading *)

LEMMA StayCursor ==
  ASSUME IInv, ReadBlock' = ReadBlock, seq'.ReadSequence = seq.ReadSequence,
         seq'.WriteSequence = seq.WriteSequence, NEW s, Stays(s),
         s.ReadCursor = seq.ReadCursor \/ Boundary(ReadBlock, s.ReadCursor),
         seq.WriteBlockCorrupt => seq'.WriteBlockCorrupt, pc' \notin {"scanning", "checking"}
  PROVE  CursorInv'
<1>1. seq'.ReadCursor = s.ReadCursor /\ s.ReadCursor \in 0..ReadBlock.size /\ Running
  BY DEF Stays, InBlock, SameRead
<1>2. ReadBlock.size \in Nat
  BY <1>1, ReadFacts, BlockSizeAssumption DEF IInv
<1>3. CASE s.ReadCursor = seq.ReadCursor
  BY <1>1, <1>2, <1>3 DEF CursorInv, IInv, WhereInv
<1>4. CASE Boundary(ReadBlock, s.ReadCursor)
  BY <1>1, <1>2, <1>4 DEF CursorInv
<1> QED
  BY <1>3, <1>4

\* A step of a call that stays in the read block.
LEMMA StayInv ==
  ASSUME IInv, ControlInv', FateStep, NEW s, Stays(s), pc \in Serving,
         pc' \in {"idle", "reading", "marking"},
         seq'.WriteBlockCorrupt = seq.WriteBlockCorrupt,
         s.ReadCursor = seq.ReadCursor \/ Boundary(ReadBlock, s.ReadCursor),
         \A r \in ReadBlock.recs :
           fate'[r.id] = "kept" /\ IsSendable(ReadBlock, r) /\ seq.ReadCursor <= r.at => s.ReadCursor <= r.at,
         reported' \subseteq {"REFUSAL", "EVICTION", "SEAL", "LOSS"}, LastReadInv'
  PROVE  IInv'
<1>1. /\ MediumInv' /\ StructTypes' /\ RunInv' /\ DownInv' /\ PositionInv'
      /\ ReadBlock' = ReadBlock /\ seq'.ReadSequence = seq.ReadSequence
      /\ seq'.WriteSequence = seq.WriteSequence
  BY StayWhere DEF IInv
<1>2. KeptInv'
  BY StayKept DEF IInv, CallInv
<1>3. CursorInv'
  BY <1>1, StayCursor
<1>4. OtherTypes' /\ WritingInv'
  BY DEF OtherTypes, WritingInv, Serving, Writing
<1>5. WriteBlockInv'
  <2>1. media'[seq.WriteSequence] = media[seq.WriteSequence]
    BY DEF Stays
  <2> QED
    BY <1>1, <2>1, WriteBlockSame DEF IInv, CallInv
<1> QED
  BY <1>1, <1>2, <1>3, <1>4, <1>5 DEF IInv, WhereInv, CallInv

LEMMA HereStays ==
  ASSUME IInv, Running, Running', NEW s, s = seq, seq' = seq,
         media' = media, crashes' = crashes, damage' = damage,
         pc \in {"draining", "evicting"} => pc' \in {"draining", "evicting"} \/ BlockCount(seq) <= Bound
  PROVE  Stays(s)
<1>1. InBlock(s)
  BY HereInBlock DEF IInv
<1> QED
  BY <1>1 DEF Stays, SameRun, SameRead

LEMMA ReadNextUnsentInv == ASSUME IInv, ReadNextUnsent PROVE IInv'
<1>1. /\ pc = "idle" /\ pc' \in {"idle", "reading"} /\ delivered' = 0
      /\ UNCHANGED <<media, seq, reported, fate, crashes, damage>>
  BY DEF ReadNextUnsent
<1>2. ControlInv'
  BY OthersControl DEF IInv
<1>3. PICK s : s = seq
  OBVIOUS
<1>4. Stays(s) /\ FateStep
  BY <1>1, <1>3, HereStays, SameFate DEF Running, IInv, MediumInv
<1>5. LastReadInv' /\ reported' \subseteq {"REFUSAL", "EVICTION", "SEAL", "LOSS"}
  BY <1>1 DEF LastReadInv, IInv, CallInv, OtherTypes
<1> QED
  BY <1>1, <1>2, <1>3, <1>4, <1>5, StayInv DEF Serving

\* What ReadAndValidateRecord answers.
LEMMA ReadResult ==
  ASSUME NEW b \in Blocks, Tiled(b), NEW c \in 0..b.size, NEW opens \in BOOLEAN,
         NEW x, x = ReadAndValidateRecord(b, c, b.size, opens), NEW r, r = RecordAt(b, c)
  PROVE  /\ x = "END_OF_DATA" => c = b.size
         /\ x = "CORRUPT" => ReadRecordExtent(b, c, b.size) = "CORRUPT"
         /\ x \in {"SUCCEEDED", "COULD_NOT_OPEN", "FINISHED_WITH", "REJECTED"} =>
              r \in b.recs /\ r.at = c /\ End(r) \in c + 1..b.size
         /\ x = "FINISHED_WITH" => r.flag = "SENT"
         /\ x = "REJECTED" => r.state = "REJECTED"
         /\ x = "SUCCEEDED" => r.flag # "SENT"
<1>1. PICK e : e = ReadRecordExtent(b, c, b.size)
  OBVIOUS
<1>2. /\ e \in {"END_OF_DATA", "SUCCEEDED", "CORRUPT"} /\ (e = "END_OF_DATA" <=> c = b.size)
      /\ e = "SUCCEEDED" => r \in b.recs /\ r.at = c /\ End(r) \in c + 1..b.size
  BY <1>1, ExtentIs
<1>3. CASE e # "SUCCEEDED"
  <2>1. x = e
    BY <1>1, <1>3 DEF ReadAndValidateRecord
  <2> QED
    BY <1>1, <1>2, <1>3, <2>1
<1>4. CASE e = "SUCCEEDED"
  <2>1. CASE r.flag = "SENT"
    <3>1. x = "FINISHED_WITH"
      BY <1>1, <1>4, <2>1 DEF ReadAndValidateRecord, FlagMarksSentOrDiscarded
    <3> QED
      BY <1>2, <1>4, <2>1, <3>1
  <2>2. CASE r.flag # "SENT" /\ ~opens
    <3>1. x = "COULD_NOT_OPEN"
      BY <1>1, <1>4, <2>2 DEF ReadAndValidateRecord, FlagMarksSentOrDiscarded
    <3> QED
      BY <1>2, <1>4, <3>1
  <2>3. CASE r.flag # "SENT" /\ opens /\ r.state = "REJECTED"
    <3>1. x = "REJECTED"
      BY <1>1, <1>4, <2>3 DEF ReadAndValidateRecord, FlagMarksSentOrDiscarded
    <3> QED
      BY <1>2, <1>4, <2>3, <3>1
  <2>4. CASE r.flag # "SENT" /\ opens /\ r.state # "REJECTED"
    <3>1. x = "SUCCEEDED"
      BY <1>1, <1>4, <2>4 DEF ReadAndValidateRecord, FlagMarksSentOrDiscarded
    <3> QED
      BY <1>2, <1>4, <2>4, <3>1
  <2> QED
    BY <2>1, <2>2, <2>3, <2>4
<1> QED
  BY <1>2, <1>3, <1>4

LEMMA ReadCurrentInv ==
  ASSUME IInv, NEW ok \in BOOLEAN, NEW opens \in BOOLEAN, ReadCurrent(ok, opens)
  PROVE  IInv'
<1>1. pc = "reading" /\ Running /\ fate' = fate /\ crashes' = crashes /\ damage' = damage /\ delivered = 0
  BY DEF ReadCurrent, Running, IInv, CallInv, LastReadInv
<1>2. ControlInv'
  BY ReadCurrentControl DEF IInv
<1>3. PICK s : s = WithReadBlockSize(seq, ReadBlock.size)
  OBVIOUS
<1>4. PICK b : b = ReadBlock
  OBVIOUS
<1>5. PICK c : c = seq.ReadCursor
  OBVIOUS
<1>6. InBlock(s) /\ s.ReadCursor = c /\ SameWrite(seq, s) /\ ReadBlockSize(s) = b.size
  BY <1>1, <1>3, <1>4, <1>5, SizedIs DEF IInv
<1>7. b \in Blocks /\ Tiled(b) /\ b.size \in Nat /\ c \in 0..b.size
  BY <1>1, <1>4, <1>6, ReadFacts, RecordFacts DEF IInv, InBlock
<1>8. PICK x : x = ReadAndValidateRecord(b, c, b.size, opens)
  OBVIOUS
<1>9. PICK r : r = RecordAt(b, c)
  OBVIOUS
<1>10. /\ x = "END_OF_DATA" => c = b.size
       /\ x = "CORRUPT" => ReadRecordExtent(b, c, b.size) = "CORRUPT"
       /\ x \in {"SUCCEEDED", "COULD_NOT_OPEN", "FINISHED_WITH", "REJECTED"} =>
            r \in b.recs /\ r.at = c /\ End(r) \in c + 1..b.size
       /\ x = "FINISHED_WITH" => r.flag = "SENT"
       /\ x = "REJECTED" => r.state = "REJECTED"
  BY <1>7, <1>8, <1>9, ReadResult
<1>11. \/ DeviceFails
       \/ /\ x = "SUCCEEDED" /\ lastRead' = [block |-> s.ReadSequence, next |-> End(r)]
          /\ delivered' = r.id /\ reported' = reported \ {"LOSS"}
          /\ seq' = s /\ pc' = "idle" /\ UNCHANGED media
       \/ seq' = s /\ pc' = "idle" /\ UNCHANGED <<media, lastRead, reported, delivered>>
       \/ /\ x \in {"FINISHED_WITH", "REJECTED"} /\ StepPastCurrent(s, r)
          /\ reported' \in {reported, reported \cup {"LOSS"}}
       \/ /\ x = "END_OF_DATA" /\ LeaveReadBlock(s, ok)
          /\ pc' = (IF ok THEN "reading" ELSE "frozen") /\ UNCHANGED <<reported, delivered>>
       \/ x = "CORRUPT" /\ AbandonRestOfReadBlock(s, ok, "reading", "idle") /\ UNCHANGED delivered
  BY <1>3, <1>4, <1>6, <1>8, <1>9 DEF ReadCurrent
<1>12. FateStep
  BY <1>1, SameFate DEF IInv, MediumInv
<1>13. reported \subseteq {"REFUSAL", "EVICTION", "SEAL", "LOSS"}
  BY DEF IInv, CallInv, OtherTypes
<1>14. ASSUME seq' = s, pc' = "idle", media' = media
       PROVE  Stays(s) /\ seq'.WriteBlockCorrupt = seq.WriteBlockCorrupt
  <2>1. SameRun(s, seq') /\ SameRead(s, seq')
    BY <1>14 DEF SameRun, SameRead
  <2> QED
    BY <1>1, <1>6, <1>14, <2>1 DEF Stays, Running, SameWrite
<1>15. CASE DeviceFails
  BY <1>1, <1>2, <1>15, HereFails
<1>16. CASE /\ x = "SUCCEEDED" /\ lastRead' = [block |-> s.ReadSequence, next |-> End(r)]
            /\ delivered' = r.id /\ reported' = reported \ {"LOSS"}
            /\ seq' = s /\ pc' = "idle" /\ UNCHANGED media
  <2>1. Stays(s) /\ seq'.WriteBlockCorrupt = seq.WriteBlockCorrupt
    BY <1>14, <1>16
  <2>2. ReadBlock' = ReadBlock /\ s.ReadSequence = seq.ReadSequence
    BY <1>6, <1>16 DEF ReadBlock, InBlock
  <2>3. r \in b.recs /\ r.at = c /\ End(r) <= b.size /\ r.id \in Ids
    BY <1>7, <1>10, <1>16, RecordFacts
  <2>4. lastRead'.block = s.ReadSequence /\ lastRead'.next = End(r)
    BY <1>16
  <2>5. LastReadInv'
    BY <1>4, <1>6, <1>16, <2>2, <2>3, <2>4 DEF LastReadInv
  <2>6. reported' \subseteq {"REFUSAL", "EVICTION", "SEAL", "LOSS"}
    BY <1>13, <1>16
  <2> QED
    BY <1>1, <1>2, <1>5, <1>6, <1>12, <1>16, <2>1, <2>5, <2>6, StayInv DEF Serving
<1>17. CASE seq' = s /\ pc' = "idle" /\ UNCHANGED <<media, lastRead, reported, delivered>>
  <2>1. Stays(s) /\ seq'.WriteBlockCorrupt = seq.WriteBlockCorrupt
    BY <1>14, <1>17
  <2>2. LastReadInv'
    BY <1>1, <1>17 DEF LastReadInv
  <2> QED
    BY <1>1, <1>2, <1>5, <1>6, <1>12, <1>13, <1>17, <2>1, <2>2, StayInv DEF Serving
<1>18. CASE /\ x \in {"FINISHED_WITH", "REJECTED"} /\ StepPastCurrent(s, r)
            /\ reported' \in {reported, reported \cup {"LOSS"}}
  <2>1. PICK e : e = End(r)
    OBVIOUS
  <2>2. PICK t : t = [s EXCEPT !.ReadCursor = e]
    OBVIOUS
  <2>3. seq' = t /\ media' = media /\ pc' = "reading" /\ delivered' = 0
    BY <1>1, <1>18, <2>1, <2>2 DEF StepPastCurrent
  <2>4. /\ IsStruct(t) /\ SameRun(s, t) /\ SameWrite(s, t) /\ t.ReadSequence = s.ReadSequence
        /\ t.ReadCursor = e /\ t.ReadBlockSize = s.ReadBlockSize
    BY <1>6, <2>2, CursorFields DEF InBlock
  <2>5. r \in b.recs /\ r.at = c /\ e \in c + 1..b.size
    BY <1>10, <1>18, <2>1
  <2>6. InBlock(t)
    BY <1>4, <1>6, <1>7, <2>4, <2>5 DEF InBlock, SameRun, SameWrite
  <2>7. Stays(t)
    <3>1. SameRun(t, seq') /\ SameRead(t, seq')
      BY <2>3 DEF SameRun, SameRead
    <3> QED
      BY <1>1, <2>3, <2>6, <3>1 DEF Stays, Running
  <2>8. seq'.WriteBlockCorrupt = seq.WriteBlockCorrupt /\ Boundary(ReadBlock, t.ReadCursor)
    BY <1>4, <1>6, <2>1, <2>3, <2>4, <2>5 DEF SameWrite, Boundary
  <2>9. ASSUME NEW q \in ReadBlock.recs, IsSendable(ReadBlock, q), seq.ReadCursor <= q.at
        PROVE  t.ReadCursor <= q.at
    <3>1. q # r
      BY <1>10, <1>18, <2>9 DEF IsSendable
    <3>2. q.at \in Nat /\ End(q) \in Nat /\ q.at < End(q)
      BY <1>4, <1>7, RecordFacts
    <3>3. End(r) <= q.at \/ End(q) <= r.at
      BY <1>4, <1>7, <2>5, <3>1 DEF Tiled
    <3> QED
      BY <1>5, <1>7, <2>1, <2>4, <2>5, <2>9, <3>2, <3>3
  <2>10. LastReadInv' /\ reported' \subseteq {"REFUSAL", "EVICTION", "SEAL", "LOSS"}
    BY <1>13, <1>18, <2>3 DEF LastReadInv
  <2> QED
    BY <1>1, <1>2, <1>12, <2>3, <2>7, <2>8, <2>9, <2>10, StayInv DEF Serving
<1>19. CASE /\ x = "END_OF_DATA" /\ LeaveReadBlock(s, ok)
            /\ pc' = (IF ok THEN "reading" ELSE "frozen") /\ UNCHANGED <<reported, delivered>>
  <2>1. \A q \in b.recs : q.at \in Nat /\ q.at < b.size
    BY <1>7, RecordFacts DEF Tiled
  <2>2. NothingLeft
    BY <1>4, <1>5, <1>7, <1>10, <1>19, <2>1 DEF NothingLeft
  <2> QED
    BY <1>1, <1>2, <1>6, <1>19, <2>2, LeaveInv
<1>20. CASE x = "CORRUPT" /\ AbandonRestOfReadBlock(s, ok, "reading", "idle") /\ UNCHANGED delivered
  <2>1. ASSUME NEW q \in b.recs, fate[q.id] = "kept", IsSendable(b, q), c <= q.at
        PROVE  FALSE
    <3>1. ReadRecordExtent(b, c, b.size) = "CORRUPT"
      BY <1>10, <1>20
    <3>2. c # b.size
      BY <1>7, <3>1, ExtentIs
    <3>3. Boundary(b, c)
      BY <1>1, <1>4, <1>5, <3>2 DEF IInv, WhereInv, CursorInv
    <3>4. PICK p \in b.recs : p.at = c /\ (p = q \/ (End(p) <= q.at /\ End(p) \in c + 1..b.size))
      BY <1>7, <2>1, <3>3, BoundaryRecord
    <3>5. p.state # "DAMAGED"
      BY <1>1, <1>4, <2>1, <3>4, KeptReads
    <3>6. End(p) <= b.size
      BY <1>7, <2>1, <3>4 DEF IsSendable
    <3> QED
      BY <1>7, <3>1, <3>4, <3>5, <3>6, ExtentIs
  <2>2. NothingLeft
    BY <1>4, <1>5, <2>1 DEF NothingLeft
  <2> QED
    BY <1>1, <1>2, <1>6, <1>20, <2>2, AbandonInv
<1> QED
  BY <1>11, <1>15, <1>16, <1>17, <1>18, <1>19, <1>20


-----------------------------------------------------------------------------
(* Marking *)

\* The mark changes nothing but the flag of the record that was handed out, and
\* every record that is still kept lies behind it.
MarkLeaves(flag) ==
  /\ Present' = Present
  /\ \A n \in Present : n # seq.ReadSequence => media'[n] = media[n]
  /\ media'[seq.ReadSequence].size = ReadBlock.size
  /\ \A c : Boundary(media'[seq.ReadSequence], c) <=> Boundary(ReadBlock, c)
  /\ IsSound(ReadBlock) => IsSound(media'[seq.ReadSequence])
  /\ \A id \in Ids : fate'[id] = "kept" =>
       \E n \in Present : \E r \in media'[n].recs :
         /\ r.id = id /\ IsSendable(media'[n], r)
         /\ n = seq.ReadSequence /\ flag = "SENT" => lastRead.next <= r.at
  /\ \A n \in Present : \A p \in media'[n].recs : \E r \in media[n].recs :
       /\ r.id = p.id /\ r.at = p.at
       /\ p.flag = IF p.id = delivered THEN flag ELSE r.flag

LEMMA MarkFate ==
  ASSUME IInv, delivered # 0, NEW flag, NoteMark(flag)
  PROVE  FateStep /\ (flag = "SENT" => fate'[delivered] # "kept")
<1>1. delivered \in Ids /\ fate \in [Ids -> Fates]
  BY DEF IInv, MediumInv, MediumTypes, CallInv, LastReadInv
<1>2. CASE flag = "SENT" /\ fate[delivered] = "kept"
  <2>1. fate' = [fate EXCEPT ![delivered] = "sent"]
    BY <1>2 DEF NoteMark
  <2> QED
    BY <1>1, <1>2, <2>1 DEF FateStep, Fates
<1>3. CASE ~(flag = "SENT" /\ fate[delivered] = "kept")
  <2>1. fate' = fate
    BY <1>3 DEF NoteMark
  <2> QED
    BY <1>1, <1>3, <2>1 DEF FateStep
<1> QED
  BY <1>2, <1>3

LEMMA MarkMedium ==
  ASSUME IInv, pc = "idle", delivered # 0, lastRead # NothingRead, CountersStep,
         NEW flag \in {"UNSENT", "HALF", "SENT"}, NoteMark(flag)
  PROVE  /\ MediumInv' /\ FateStep /\ MarkLeaves(flag)
         /\ lastRead.next \in 0..ReadBlock.size /\ Boundary(ReadBlock, lastRead.next)
<1>1. Running
  BY DEF Running
<1>2. FateStep /\ (flag = "SENT" => fate'[delivered] # "kept")
  BY MarkFate
<1>3. PICK b : b = ReadBlock
  OBVIOUS
<1>4. PICK n : n = seq.ReadSequence
  OBVIOUS
<1>5. /\ n \in Present /\ n \in SequenceNumbers /\ b = media[n]
      /\ b \in Blocks /\ Tiled(b) /\ b.size \in 0..MaxBlockSize
  BY <1>1, <1>3, <1>4, ReadFacts DEF IInv, ReadBlock, Present
<1>6. /\ lastRead.block = n /\ lastRead.next <= b.size
      /\ \E r \in b.recs : r.id = delivered /\ r.at = seq.ReadCursor /\ End(r) = lastRead.next
  BY <1>3, <1>4 DEF IInv, CallInv, LastReadInv
<1>7. PICK q \in b.recs : q.id = delivered /\ q.at = seq.ReadCursor /\ End(q) = lastRead.next
  BY <1>6
<1>8. \A r \in b.recs : /\ r.id \in Ids /\ r.at \in Nat /\ r.bytes \in Nat \ {0}
                        /\ End(r) \in Nat /\ r.at < End(r)
  BY <1>5, RecordFacts
<1>9. lastRead.next \in 0..b.size /\ Boundary(b, lastRead.next)
  BY <1>5, <1>6, <1>7, <1>8 DEF Boundary
<1>10. PICK next : next = lastRead.next
  OBVIOUS
<1>11. PICK f : f = SentFlags(b, next, flag)
  OBVIOUS
<1>12. PICK b2 : b2 = WriteSentFlag(b, next, flag)
  OBVIOUS
<1>13. /\ IsReflag(b, f, b2)
       /\ \A r \in b.recs : /\ f[r].state = r.state
                            /\ End(r) = next => f[r].flag = flag
                            /\ End(r) # next => f[r] = r
  BY <1>5, <1>11, <1>12, SentFlagIs
<1>14. media' = With(n, b2)
  BY <1>3, <1>5, <1>6, <1>10, <1>12 DEF NoteMark, Marked
<1>15. /\ b2 \in Blocks /\ Tiled(b2) /\ b2.size = b.size /\ b2.recs = {f[r] : r \in b.recs}
       /\ \A r \in b.recs : f[r] \in b2.recs /\ f[r].id = r.id /\ f[r].at = r.at /\ End(f[r]) = End(r)
       /\ \A c : Boundary(b2, c) <=> Boundary(b, c)
  BY <1>5, <1>13, ReflagIs
<1>16. MediumInv'
  <2>1. \A r, p \in media[n].recs : f[r].state = "DAMAGED" /\ r.at <= p.at => fate'[p.id] # "kept"
    BY <1>2, <1>5, <1>8, <1>13 DEF IInv, MediumInv, DamageInv, FateStep
  <2> QED
    BY <1>2, <1>5, <1>13, <1>14, <2>1, MediumReflag DEF IInv
<1>17. /\ Present' = Present /\ media'[n] = b2
       /\ \A m \in SequenceNumbers : m # n => media'[m] = media[m]
  <2>1. /\ Present' = Present \cup {n} /\ media'[n] = b2
        /\ \A m \in SequenceNumbers : m # n => media'[m] = media[m]
    BY <1>5, <1>14, <1>15, PutFacts DEF IInv, MediumInv
  <2>2. Present \cup {n} = Present
    BY <1>5
  <2> QED
    BY <2>1, <2>2
<1>18. IsSound(b) => IsSound(b2)
  BY <1>13, <1>15 DEF IsSound
<1>19. ASSUME NEW id \in Ids, fate'[id] = "kept"
       PROVE  \E m \in Present : \E r \in media'[m].recs :
                /\ r.id = id /\ IsSendable(media'[m], r)
                /\ m = n /\ flag = "SENT" => next <= r.at
  <2>1. fate[id] = "kept"
    BY <1>2, <1>19 DEF FateStep
  <2>2. PICK m \in Present : \E r \in media[m].recs :
          /\ r.id = id /\ IsSendable(media[m], r) /\ (m = n => seq.ReadCursor <= r.at)
    BY <1>1, <1>4, <2>1 DEF IInv, CallInv, KeptInv
  <2>3. PICK r \in media[m].recs : r.id = id /\ IsSendable(media[m], r) /\ (m = n => seq.ReadCursor <= r.at)
    BY <2>2
  <2>4. CASE m # n
    <3>1. media'[m] = media[m]
      BY <1>17, <2>4 DEF Present
    <3> QED
      BY <2>3, <2>4, <3>1
  <2>5. CASE m = n
    <3>1. r \in b.recs /\ q.at <= r.at
      BY <1>5, <1>7, <2>3, <2>5
    <3>2. CASE r = q
      <4>1. flag # "SENT"
        BY <1>2, <1>7, <1>19, <2>3, <3>2
      <4>2. f[r].flag = flag /\ f[r].state = "OK"
        BY <1>7, <1>10, <1>13, <2>3, <3>1, <3>2 DEF IsSendable
      <4>3. f[r] \in media'[n].recs /\ f[r].id = id /\ IsSendable(media'[n], f[r])
        BY <1>5, <1>15, <1>17, <2>3, <2>5, <3>1, <4>1, <4>2 DEF IsSendable
      <4> QED
        BY <1>5, <4>1, <4>3
    <3>3. CASE r # q
      <4>1. End(r) <= q.at \/ End(q) <= r.at
        BY <1>5, <3>1, <3>3 DEF Tiled
      <4>2. next <= r.at /\ End(r) # next
        BY <1>7, <1>8, <1>10, <3>1, <4>1
      <4>3. f[r] = r
        BY <1>13, <3>1, <4>2
      <4>4. r \in media'[n].recs /\ IsSendable(media'[n], r)
        BY <1>5, <1>15, <1>17, <2>3, <2>5, <3>1, <4>3 DEF IsSendable
      <4> QED
        BY <1>5, <2>3, <4>2, <4>4
    <3> QED
      BY <3>2, <3>3
  <2> QED
    BY <2>4, <2>5
<1>20. ASSUME NEW m \in Present, NEW p \in media'[m].recs
       PROVE  \E r \in media[m].recs :
                r.id = p.id /\ r.at = p.at /\ p.flag = IF p.id = delivered THEN flag ELSE r.flag
  <2>1. CASE m # n
    <3>1. media'[m] = media[m]
      BY <1>17, <2>1 DEF Present
    <3>2. p.id # delivered
      BY <1>5, <1>7, <2>1, <3>1 DEF IInv, MediumInv, IdsInv
    <3> QED
      BY <3>1, <3>2
  <2>2. CASE m = n
    <3>1. PICK r \in b.recs : p = f[r]
      BY <1>15, <1>17, <2>2
    <3>2. p.id = r.id /\ p.at = r.at
      BY <1>15, <3>1
    <3>3. CASE r = q
      BY <1>5, <1>7, <1>10, <1>13, <2>2, <3>1, <3>2, <3>3
    <3>4. CASE r # q
      <4>1. End(r) <= q.at \/ End(q) <= r.at
        BY <1>5, <3>1, <3>4 DEF Tiled
      <4>2. End(r) # next
        BY <1>7, <1>8, <1>10, <3>1, <4>1
      <4>3. p = r
        BY <1>13, <3>1, <4>2
      <4>4. p.id # delivered
        BY <1>5, <1>7, <3>1, <3>4, <4>3 DEF IInv, MediumInv, IdsInv
      <4> QED
        BY <1>5, <2>2, <4>3, <4>4
    <3> QED
      BY <3>3, <3>4
  <2> QED
    BY <2>1, <2>2
<1>21. MarkLeaves(flag)
  <2>1. \A m \in Present : m # seq.ReadSequence => media'[m] = media[m]
    BY <1>4, <1>17 DEF Present
  <2>2. /\ media'[seq.ReadSequence].size = ReadBlock.size
        /\ \A c : Boundary(media'[seq.ReadSequence], c) <=> Boundary(ReadBlock, c)
        /\ IsSound(ReadBlock) => IsSound(media'[seq.ReadSequence])
    BY <1>3, <1>4, <1>15, <1>17, <1>18
  <2> QED
    BY <1>4, <1>10, <1>17, <1>19, <1>20, <2>1, <2>2 DEF MarkLeaves
<1> QED
  BY <1>2, <1>3, <1>9, <1>16, <1>21

LEMMA MarkSentFailsInv ==
  ASSUME IInv, ControlInv', NEW flag \in {"UNSENT", "HALF", "SENT"}, MarkSentFails(flag)
  PROVE  IInv'
<1>1. /\ pc = "idle" /\ delivered # 0 /\ lastRead # NothingRead /\ NoteMark(flag)
      /\ delivered' = 0 /\ pc' = "frozen" /\ UNCHANGED <<seq, reported, crashes, damage>>
  BY DEF MarkSentFails
<1>2. CountersStep
  BY <1>1, SameCounters DEF IInv, MediumInv
<1>3. MediumInv' /\ MarkLeaves(flag)
  BY <1>1, <1>2, MarkMedium
<1>4. Present' = Present /\ KeptOnMedium'
  BY <1>3 DEF MarkLeaves, KeptOnMedium
<1>5. StructTypes' /\ reported' \subseteq {"REFUSAL", "EVICTION", "SEAL", "LOSS"}
  BY <1>1 DEF IInv, WhereInv, StructTypes, CallInv, OtherTypes
<1> QED
  BY <1>1, <1>3, <1>4, <1>5, DownStep

LEMMA MarkSentInv == ASSUME IInv, ControlInv', MarkSent PROVE IInv'
<1>1. pc = "idle" /\ delivered # 0 /\ delivered' = 0 /\ UNCHANGED <<reported, crashes, damage>>
  BY DEF MarkSent
<1>2. reported' \subseteq {"REFUSAL", "EVICTION", "SEAL", "LOSS"}
  BY <1>1 DEF IInv, CallInv, OtherTypes
<1>3. CASE lastRead = NothingRead
  <2>1. UNCHANGED <<media, seq, pc, fate>>
    BY <1>3 DEF MarkSent
  <2>2. PICK s : s = seq
    OBVIOUS
  <2>3. Stays(s) /\ FateStep
    BY <1>1, <2>1, <2>2, HereStays, SameFate DEF Running, IInv, MediumInv
  <2>4. LastReadInv'
    BY <1>1, <2>1, NothingInHand, <1>2
  <2> QED
    BY <1>1, <1>2, <2>1, <2>2, <2>3, <2>4, StayInv DEF Serving
<1>4. CASE lastRead # NothingRead
  <2>1. /\ NoteMark("SENT") /\ seq' = [seq EXCEPT !.ReadCursor = lastRead.next]
        /\ pc' = "marking"
    BY <1>4 DEF MarkSent
  <2>2. CountersStep
    BY <1>1, SameCounters DEF IInv, MediumInv
  <2>3. /\ MediumInv' /\ FateStep /\ MarkLeaves("SENT")
        /\ lastRead.next \in 0..ReadBlock.size /\ Boundary(ReadBlock, lastRead.next)
    BY <1>1, <1>4, <2>1, <2>2, MarkMedium
  <2>4. PICK c : c = lastRead.next
    OBVIOUS
  <2>5. /\ SameRun(seq, seq') /\ SameWrite(seq, seq')
        /\ seq'.ReadSequence = seq.ReadSequence /\ seq'.ReadCursor = c
        /\ seq'.ReadBlockSize = seq.ReadBlockSize
    <3>1. IsStruct(seq)
      BY DEF IInv, ControlInv
    <3> QED
      BY <2>1, <2>4, <3>1 DEF IsStruct, SameRun, SameWrite
  <2>6. Running /\ Running'
    BY <1>1, <2>1 DEF Running
  <2>7. /\ seq.ReadSequence \in Present /\ ReadBlock \in Blocks /\ ReadBlock.size \in 0..MaxBlockSize
        /\ seq.WriteSequence \in Present
    BY <2>6, ReadFacts, RunFacts DEF IInv
  <2>8. Present' = Present /\ \A n \in Present : media'[n].size = media[n].size
    BY <2>3 DEF MarkLeaves, ReadBlock
  <2>9. StructTypes'
    <3>1. c \in 0..MaxBlockSize
      BY <2>3, <2>4, <2>7, BlockSizeAssumption
    <3> QED
      BY <2>5, <3>1 DEF IInv, WhereInv, StructTypes, SameRun, SameWrite
  <2>10. RunInv'
    <3>1. \A n \in Present \ seq.BlockPresent : media'[n] = media[n]
      BY <2>3, <2>6 DEF MarkLeaves, IInv, ControlInv, WhereInv, RunInv
    <3>2. Bound' = Bound /\ BlockCount(seq') = BlockCount(seq)
      BY <1>1, <2>5 DEF Bound, BlockCount, SameRun
    <3> QED
      BY <1>1, <2>1, <2>5, <2>6, <2>8, <3>1, <3>2 DEF IInv, WhereInv, RunInv, SameRun
  <2>11. DownInv'
    BY <2>6 DEF DownInv
  <2>12. PositionInv'
    BY <2>5, <2>6, <2>7, <2>8 DEF IInv, WhereInv, PositionInv, SameRun, SameWrite, ReadBlock
  <2>13. CursorInv'
    <3>1. ReadBlock' = media'[seq.ReadSequence]
      BY <2>5 DEF ReadBlock
    <3>2. c <= ReadBlock'.size /\ Boundary(ReadBlock', c)
      BY <2>3, <2>4, <2>7, <3>1 DEF MarkLeaves
    <3> QED
      BY <2>1, <2>5, <3>2 DEF CursorInv
  <2>14. WriteBlockInv'
    <3>1. seq.WriteBlockCorrupt \/ IsSound(media[seq.WriteSequence])
      BY <1>1 DEF IInv, CallInv, WriteBlockInv, Serving
    <3>2. IsSound(media[seq.WriteSequence]) => IsSound(media'[seq.WriteSequence])
      <4>1. CASE seq.WriteSequence = seq.ReadSequence
        BY <2>3, <4>1 DEF MarkLeaves, ReadBlock
      <4>2. CASE seq.WriteSequence # seq.ReadSequence
        BY <2>3, <2>7, <4>2 DEF MarkLeaves
      <4> QED
        BY <4>1, <4>2
    <3> QED
      BY <2>5, <3>1, <3>2 DEF WriteBlockInv, SameRun, SameWrite
  <2>15. KeptInv'
    BY <2>3, <2>4, <2>5 DEF KeptInv, MarkLeaves
  <2>16. OtherTypes' /\ WritingInv' /\ LastReadInv'
    BY <1>1, <1>2, <2>1, NothingInHand
  <2> QED
    BY <2>3, <2>9, <2>10, <2>11, <2>12, <2>13, <2>14, <2>15, <2>16 DEF IInv, WhereInv, CallInv
<1> QED
  BY <1>3, <1>4

-----------------------------------------------------------------------------
(* Draining *)

\* What DisposeReadBlockIfDrained does: the device fails, the drained block
\* goes, or nothing but the size of the block is learnt.
LEMMA DrainIs ==
  ASSUME IInv, Running, Running', NEW ok \in BOOLEAN, DisposeReadBlockIfDrained(ok),
         fate' = fate, crashes' = crashes, damage' = damage,
         pc \in {"draining", "evicting"} => pc' \in {"draining", "evicting"}
  PROVE  \E s : /\ InBlock(s) /\ SameWrite(seq, s) /\ s.ReadCursor = seq.ReadCursor
                /\ \/ Stays(s) /\ SameWrite(s, seq') /\ readBlockChanged' = readBlockChanged
                   \/ MovesOn(s) /\ NothingLeft /\ readBlockChanged' = TRUE
<1>1. IsStruct(seq) /\ seq.ReadSequence = seq.OldestSequence
  BY DEF IInv, ControlInv
<1>2. CASE ~ok
  <2>1. PICK s : s = seq
    OBVIOUS
  <2>2. InBlock(s)
    BY <2>1, HereInBlock DEF IInv
  <2>3. seq' = NoteDeviceFailure(s) /\ media' = media /\ readBlockChanged' = readBlockChanged
    BY <1>2, <2>1 DEF DisposeReadBlockIfDrained
  <2>4. SameRun(s, seq') /\ SameRead(s, seq') /\ SameWrite(s, seq')
    BY <1>1, <2>1, <2>3, NoteDeviceFailureFields
  <2>5. Stays(s)
    BY <2>2, <2>3, <2>4 DEF Stays, SameWrite
  <2> QED
    BY <2>1, <2>2, <2>3, <2>4, <2>5 DEF SameWrite
<1>3. CASE ok
  <2>1. PICK s : s = WithReadBlockSize(seq, ReadBlock.size)
    OBVIOUS
  <2>2. /\ InBlock(s) /\ s.ReadCursor = seq.ReadCursor /\ SameWrite(seq, s)
        /\ ReadBlockSize(s) = ReadBlock.size
    BY <2>1, SizedIs DEF IInv
  <2>3. \/ /\ ReadIsBehindWrite(seq) /\ IsReadBlockFullyDrained(s)
           /\ media' = Without(seq.ReadSequence) /\ seq' = DisposeReadBlock(s) /\ readBlockChanged' = TRUE
        \/ seq' = s /\ media' = media /\ readBlockChanged' = readBlockChanged
    BY <1>3, <2>1 DEF DisposeReadBlockIfDrained
  <2>4. CASE seq' = s /\ media' = media /\ readBlockChanged' = readBlockChanged
    <3>1. SameRun(s, seq') /\ SameRead(s, seq') /\ SameWrite(s, seq')
      BY <2>4 DEF SameRun, SameRead, SameWrite
    <3>2. Stays(s)
      BY <2>2, <2>4, <3>1 DEF Stays, SameWrite
    <3> QED
      BY <2>2, <2>4, <3>1, <3>2
  <2>5. CASE /\ ReadIsBehindWrite(seq) /\ IsReadBlockFullyDrained(s)
             /\ media' = Without(seq.ReadSequence) /\ seq' = DisposeReadBlock(s) /\ readBlockChanged' = TRUE
    <3>1. IsStruct(s) /\ s.ReadSequence = s.OldestSequence /\ SameRun(seq, s)
      BY <1>1, <2>2 DEF InBlock, SameRun
    <3>2. MovedOn(s, seq')
      BY <2>5, <3>1, DisposeReadBlockFields DEF MovedOn
    <3>3. MovesOn(s)
      BY <1>1, <2>2, <2>5, <3>2 DEF MovesOn, ReadIsBehindWrite
    <3>4. NothingLeft
      <4>1. seq.ReadCursor >= ReadBlock.size
        BY <2>2, <2>5 DEF IsReadBlockFullyDrained
      <4>2. ReadBlock \in Blocks /\ Tiled(ReadBlock)
        BY ReadFacts DEF IInv
      <4>3. ReadBlock.size \in Nat /\ \A r \in ReadBlock.recs : r.at \in Nat /\ r.at < ReadBlock.size
        BY <4>2, RecordFacts DEF Tiled
      <4>4. seq.ReadCursor \in Nat
        BY DEF IInv, WhereInv, StructTypes
      <4> QED
        BY <4>1, <4>3, <4>4 DEF NothingLeft
    <3> QED
      BY <2>2, <2>5, <3>3, <3>4
  <2> QED
    BY <2>3, <2>4, <2>5
<1> QED
  BY <1>2, <1>3

LEMMA DrainedInv ==
  ASSUME IInv, Running, Running', NEW ok \in BOOLEAN, DisposeReadBlockIfDrained(ok),
         fate' = fate, crashes' = crashes, damage' = damage,
         \/ pc = "draining" /\ pc' = "evicting"
         \/ pc = "marking" /\ pc' = "idle"
  PROVE  /\ MediumInv' /\ WhereInv' /\ WriteBlockInv' /\ KeptInv' /\ SameWrite(seq, seq')
         /\ Present' \subseteq Present /\ \A n \in Present' : media'[n] = media[n]
         /\ \/ /\ ReadBlock' = ReadBlock /\ SameRun(seq, seq') /\ seq'.ReadSequence = seq.ReadSequence
               /\ seq'.ReadCursor = seq.ReadCursor /\ readBlockChanged' = readBlockChanged
            \/ readBlockChanged' = TRUE
<1>1. FateStep
  BY SameFate DEF IInv, MediumInv
<1>2. PICK s : /\ InBlock(s) /\ SameWrite(seq, s) /\ s.ReadCursor = seq.ReadCursor
               /\ \/ Stays(s) /\ SameWrite(s, seq') /\ readBlockChanged' = readBlockChanged
                  \/ MovesOn(s) /\ NothingLeft /\ readBlockChanged' = TRUE
  BY DrainIs
<1>3. CASE Stays(s) /\ SameWrite(s, seq') /\ readBlockChanged' = readBlockChanged
  <2>1. /\ MediumInv' /\ Present' = Present /\ StructTypes' /\ RunInv' /\ DownInv' /\ PositionInv'
        /\ ReadBlock' = ReadBlock /\ seq'.ReadSequence = seq.ReadSequence
        /\ seq'.WriteSequence = seq.WriteSequence
    BY <1>1, <1>3, StayWhere DEF IInv
  <2>2. SameWrite(seq, seq') /\ SameRun(seq, seq') /\ seq'.ReadCursor = seq.ReadCursor /\ media' = media
    BY <1>2, <1>3 DEF SameWrite, SameRun, SameRead, Stays, InBlock
  <2>3. KeptInv'
    BY <1>1, <1>2, <1>3, StayKept DEF IInv, CallInv
  <2>4. CursorInv'
    BY <1>2, <1>3, <2>1, <2>2, StayCursor DEF SameWrite
  <2>5. WriteBlockInv'
    BY <2>1, <2>2, WriteBlockSame DEF SameWrite, IInv, CallInv, Serving
  <2> QED
    BY <1>3, <2>1, <2>2, <2>3, <2>4, <2>5 DEF WhereInv
<1>4. CASE MovesOn(s) /\ NothingLeft /\ readBlockChanged' = TRUE
  <2>1. /\ MediumInv' /\ WhereInv' /\ media'[seq.WriteSequence] = media[seq.WriteSequence]
        /\ Present' = Present \ {seq.OldestSequence} /\ seq'.WriteSequence = seq.WriteSequence
    BY <1>1, <1>4, MoveOnWhere DEF IInv
  <2>2. SameWrite(seq, seq')
    BY <1>2, <1>4 DEF MovesOn, MovedOn, SameWrite
  <2>3. KeptInv'
    BY <1>1, <1>4, MoveOnKept DEF IInv, CallInv, NothingLeft
  <2>4. WriteBlockInv'
    BY <2>1, <2>2, WriteBlockSame DEF SameWrite, IInv, CallInv, Serving
  <2>5. \A n \in Present' : media'[n] = media[n]
    <3>1. media' = Without(seq.OldestSequence) /\ seq.OldestSequence \in SequenceNumbers
      BY <1>4 DEF MovesOn, IInv, WhereInv, StructTypes
    <3>2. \A m \in SequenceNumbers : m # seq.OldestSequence => media'[m] = media[m]
      <4>1. PICK o : o = seq.OldestSequence
        OBVIOUS
      <4> QED
        BY <3>1, <4>1, DropFacts DEF IInv, MediumInv
    <3> QED
      BY <2>1, <3>2 DEF Present
  <2> QED
    BY <1>4, <2>1, <2>2, <2>3, <2>4, <2>5
<1> QED
  BY <1>2, <1>3, <1>4

LEMMA DrainAfterRotationInv ==
  ASSUME IInv, ControlInv', NEW ok \in BOOLEAN, DrainAfterRotation(ok)
  PROVE  IInv'
<1>1. /\ pc = "draining" /\ pc' = "evicting" /\ DisposeReadBlockIfDrained(ok)
      /\ UNCHANGED <<lastRead, reported, writing, delivered, fate, crashes, damage>>
  BY DEF DrainAfterRotation
<1>2. Running /\ Running'
  BY <1>1 DEF Running
<1>3. /\ MediumInv' /\ WhereInv' /\ WriteBlockInv' /\ KeptInv' /\ SameWrite(seq, seq')
      /\ Present' \subseteq Present /\ \A n \in Present' : media'[n] = media[n]
      /\ \/ /\ ReadBlock' = ReadBlock /\ SameRun(seq, seq') /\ seq'.ReadSequence = seq.ReadSequence
            /\ seq'.ReadCursor = seq.ReadCursor /\ readBlockChanged' = readBlockChanged
         \/ readBlockChanged' = TRUE
  BY <1>1, <1>2, DrainedInv
<1>4. OtherTypes'
  BY <1>1 DEF OtherTypes, Serving, IInv, CallInv
<1>5. WritingInv'
  BY <1>1, <1>3 DEF IInv, CallInv, WritingInv, Writing, SameWrite
<1>6. LastReadInv'
  BY <1>1, <1>3 DEF IInv, CallInv, LastReadInv
<1> QED
  BY <1>3, <1>4, <1>5, <1>6 DEF IInv, CallInv

LEMMA DrainAfterMarkInv ==
  ASSUME IInv, ControlInv', NEW ok \in BOOLEAN, DrainAfterMark(ok)
  PROVE  IInv'
<1>1. /\ pc = "marking" /\ pc' = (IF seq'.DeviceFailed THEN "frozen" ELSE "idle")
      /\ DisposeReadBlockIfDrained(ok)
      /\ UNCHANGED <<reported, writing, delivered, fate, crashes, damage>>
  BY DEF DrainAfterMark
<1>2. Running /\ delivered = 0 /\ reported \subseteq {"REFUSAL", "EVICTION", "SEAL", "LOSS"}
  BY <1>1 DEF Running, IInv, CallInv, LastReadInv, OtherTypes
<1>3. CASE seq'.DeviceFailed
  <2>1. IsStruct(seq) /\ ~seq.DeviceFailed /\ seq.ReadSequence = seq.OldestSequence
    BY <1>1 DEF IInv, ControlInv
  <2>2. ~ok
    <3> SUFFICES ASSUME ok PROVE FALSE
      OBVIOUS
    <3>1. PICK s : s = WithReadBlockSize(seq, ReadBlock.size)
      OBVIOUS
    <3>2. IsStruct(s) /\ ~s.DeviceFailed /\ s.ReadSequence = s.OldestSequence
      BY <2>1, <3>1, WithReadBlockSizeFields DEF SameRun
    <3>3. seq' = DisposeReadBlock(s) \/ seq' = s
      BY <1>1, <3>1 DEF DisposeReadBlockIfDrained
    <3> QED
      BY <1>3, <3>2, <3>3, DisposeReadBlockFields
  <2>3. PICK s : s = seq
    OBVIOUS
  <2>4. InBlock(s)
    BY <1>2, <2>3, HereInBlock DEF IInv
  <2>5. seq' = NoteDeviceFailure(s) /\ media' = media
    BY <1>1, <2>2, <2>3 DEF DisposeReadBlockIfDrained
  <2> QED
    BY <1>1, <1>2, <1>3, <2>4, <2>5, InBlockFails
<1>4. CASE ~seq'.DeviceFailed
  <2>1. pc' = "idle" /\ Running'
    BY <1>1, <1>4 DEF Running
  <2>2. MediumInv' /\ WhereInv' /\ WriteBlockInv' /\ KeptInv'
    BY <1>1, <1>2, <2>1, DrainedInv
  <2>3. OtherTypes' /\ WritingInv' /\ LastReadInv'
    BY <1>1, <1>2, <2>1, NothingInHand
  <2> QED
    BY <2>2, <2>3 DEF IInv, CallInv
<1> QED
  BY <1>3, <1>4

-----------------------------------------------------------------------------
(* Writing *)

LEMMA OfferedFate ==
  ASSUME MediumTypes, NEW id \in Ids, fate[id] = "new", NEW f \in {"offered", "refused"},
         fate' = [fate EXCEPT ![id] = f]
  PROVE  FateStep /\ fate'[id] = f
BY DEF MediumTypes, FateStep, Fates

LEMMA WriteInv ==
  ASSUME IInv, ControlInv', NEW id \in Ids, NEW bytes \in RecordSizes, NEW policy, Write(id, bytes, policy)
  PROVE  IInv'
<1>1. /\ pc = "idle" /\ fate[id] = "new" /\ UNCHANGED <<media, delivered, crashes, damage>>
      /\ lastRead' = lastRead
  BY DEF Write, ReadyToAppend
<1>2. IsStruct(seq)
  BY DEF IInv, ControlInv
<1>3. \/ /\ seq' = Refused(seq) /\ pc' = "idle" /\ fate' = [fate EXCEPT ![id] = "refused"]
         /\ reported' = reported \cup {"REFUSAL"}
      \/ /\ seq' = seq /\ pc' = "rotating" /\ fate' = [fate EXCEPT ![id] = "offered"]
         /\ writing' = [id |-> id, bytes |-> bytes] /\ reported' = reported
      \/ /\ seq' = seq /\ pc' = "appending" /\ fate' = [fate EXCEPT ![id] = "offered"]
         /\ writing' = [id |-> id, bytes |-> bytes] /\ ~BlockIsFull(seq, bytes)
         /\ reported' \in {reported \cup {"EVICTION"}, reported \ {"EVICTION"}}
  BY <1>1 DEF Write, ReadyToAppend
<1>4. reported' \subseteq {"REFUSAL", "EVICTION", "SEAL", "LOSS"}
  BY <1>3 DEF IInv, CallInv, OtherTypes
<1>5. FateStep /\ (pc' # "idle" => fate'[id] = "offered")
  BY <1>1, <1>3, OfferedFate DEF IInv, MediumInv
<1>6. SameRun(seq, seq') /\ SameRead(seq, seq') /\ SameWrite(seq, seq')
  BY <1>2, <1>3, RefusedFields DEF SameRun, SameRead, SameWrite
<1>7. PICK s : s = seq
  OBVIOUS
<1>8. Stays(s)
  <2>1. InBlock(s)
    BY <1>1, <1>7, HereInBlock DEF IInv, Running
  <2>2. Running /\ Running'
    BY <1>1, <1>3 DEF Running
  <2> QED
    BY <1>1, <1>6, <1>7, <2>1, <2>2 DEF Stays, SameWrite
<1>9. /\ MediumInv' /\ Present' = Present /\ StructTypes' /\ RunInv' /\ DownInv' /\ PositionInv'
      /\ ReadBlock' = ReadBlock /\ seq'.ReadSequence = seq.ReadSequence
      /\ seq'.WriteSequence = seq.WriteSequence
  BY <1>5, <1>8, StayWhere DEF IInv
<1>10. KeptInv'
  BY <1>5, <1>7, <1>8, StayKept DEF IInv, CallInv
<1>11. pc' \notin {"scanning", "checking"} /\ pc' \in Serving
  BY <1>3 DEF Serving
<1>12. CursorInv'
  BY <1>6, <1>7, <1>8, <1>9, <1>11, StayCursor DEF SameWrite
<1>13. WriteBlockInv'
  BY <1>1, <1>6, <1>9, WriteBlockSame DEF SameWrite, IInv, CallInv, Serving
<1>14. LastReadInv'
  <2>1. pc' \in {"idle", "rotating", "appending"}
    BY <1>3
  <2> QED
    BY <1>1, <1>6, <1>9, <2>1 DEF IInv, CallInv, LastReadInv, SameRead
<1>15. WritingInv'
  <2>1. CASE pc' = "idle"
    BY <2>1 DEF WritingInv, Writing
  <2>2. CASE pc' # "idle"
    <3>1. writing'.id = id /\ writing'.bytes = bytes /\ pc' \in {"rotating", "appending"} /\ seq' = seq
      BY <1>3, <2>2
    <3>2. \A n \in Present : \A r \in media[n].recs : r.id # id
      BY <1>1 DEF IInv, MediumInv, IdsInv
    <3>3. pc' = "appending" => ~seq.WriteBlockCorrupt /\ seq.WritePosition + bytes <= MaxBlockSize
      <4>1. pc' = "appending" => ~BlockIsFull(seq, bytes)
        BY <1>3
      <4>2. seq.WritePosition \in Int /\ bytes \in Int /\ MaxBlockSize \in Int
        BY BlockSizeAssumption, RecordSizesAssumption DEF IInv, WhereInv, StructTypes
      <4> QED
        BY <4>1, <4>2 DEF BlockIsFull
    <3> QED
      BY <1>1, <1>5, <1>9, <2>2, <3>1, <3>2, <3>3 DEF WritingInv
  <2> QED
    BY <2>1, <2>2
<1>16. OtherTypes'
  BY <1>4, <1>11 DEF OtherTypes
<1> QED
  BY <1>9, <1>10, <1>12, <1>13, <1>14, <1>15, <1>16 DEF IInv, WhereInv, CallInv

\* A device call of a write fails before it has changed anything.
LEMMA WriteFails ==
  ASSUME IInv, ControlInv', Running, seq' = NoteDeviceFailure(seq), pc' = "frozen",
         UNCHANGED <<media, reported, delivered, fate, crashes, damage>>
  PROVE  IInv'
<1>1. PICK s : s = seq
  OBVIOUS
<1>2. InBlock(s)
  BY <1>1, HereInBlock DEF IInv
<1> QED
  BY <1>1, <1>2, InBlockFails

LEMMA DisposeStaleInv == ASSUME IInv, ControlInv', NEW ok \in BOOLEAN, DisposeStaleBlock(ok) PROVE IInv'
<1>1. /\ pc = "rotating" /\ UNCHANGED <<lastRead, reported, writing, readBlockChanged, delivered>>
      /\ UNCHANGED <<fate, crashes, damage>>
  BY DEF DisposeStaleBlock
<1>2. Running
  BY <1>1 DEF Running
<1>3. CASE ~ok
  BY <1>1, <1>2, <1>3, WriteFails DEF DisposeStaleBlock
<1>4. CASE ok
  <2>1. PICK next : next = NextSequence(seq.WriteSequence)
    OBVIOUS
  <2>2. next \in Present /\ media' = Without(next) /\ seq' = Disposed(seq, next) /\ pc' = "rotating"
    BY <1>1, <1>4, <2>1 DEF DisposeStaleBlock
  <2>3. BlockCount(seq) <= Bound
    <3>1. Bound + 0 = Bound
      BY BoundFacts DEF IInv, MediumInv
    <3> QED
      BY <1>1, <1>2, <3>1 DEF IInv, WhereInv, RunInv
  <2>4. next \in SequenceNumbers /\ next \notin seq.BlockPresent
    BY <1>2, <2>1, <2>3, NextIsFree DEF IInv
  <2>5. IsStruct(seq) /\ seq.ReadSequence = seq.OldestSequence
    BY DEF IInv, ControlInv
  <2>6. /\ SameRead(seq, seq') /\ SameWrite(seq, seq') /\ seq'.BlockPresent = seq.BlockPresent \ {next}
        /\ seq'.OldestSequence = seq.OldestSequence /\ seq'.WriteSequence = seq.WriteSequence
    BY <2>2, <2>5, DisposedFields
  <2>7. seq'.BlockPresent = seq.BlockPresent
    BY <2>4, <2>6
  <2>8. /\ Present' = Present \ {next} /\ \A m \in SequenceNumbers : m # next => media'[m] = media[m]
    BY <2>2, <2>4, DropFacts DEF IInv, MediumInv
  <2>9. FateStep /\ CountersStep
    BY <1>1, SameFate, SameCounters DEF IInv, MediumInv
  <2>10. MediumInv'
    BY <2>2, <2>4, <2>9, MediumDrop DEF IInv
  <2>11. /\ seq.OldestSequence # next /\ seq.WriteSequence # next /\ seq.ReadSequence # next
         /\ seq.OldestSequence \in SequenceNumbers /\ seq.WriteSequence \in SequenceNumbers
    BY <1>2, <2>4, <2>5 DEF IInv, WhereInv, RunInv, StructTypes
  <2>12. /\ media'[seq.WriteSequence] = media[seq.WriteSequence]
         /\ media'[seq.ReadSequence] = media[seq.ReadSequence] /\ ReadBlock' = ReadBlock
    BY <2>5, <2>6, <2>8, <2>11 DEF SameRead, ReadBlock
  <2>13. \A n \in Present' : n \in Present /\ media'[n] = media[n]
    BY <2>8 DEF Present
  <2>14. StructTypes'
    BY <2>6, <2>7 DEF IInv, WhereInv, StructTypes, SameRead, SameWrite
  <2>15. RunInv'
    <3>1. Bound' = Bound /\ BlockCount(seq') = BlockCount(seq)
      BY <1>1, <2>6 DEF Bound, BlockCount
    <3>2. /\ seq.BlockPresent \subseteq Present' /\ Present' \subseteq seq.BlockPresent \cup {next}
          /\ {seq.OldestSequence, seq.WriteSequence} \subseteq seq.BlockPresent
          /\ IsArc(seq.BlockPresent, seq.OldestSequence, seq.WriteSequence)
          /\ BlockCount(seq) <= Bound + 0
      BY <1>1, <1>2, <2>1, <2>4, <2>8 DEF IInv, WhereInv, RunInv
    <3>3. \A n \in Present' \ seq.BlockPresent : media'[n].recs = {} /\ BlockCount(seq) + 1 <= Bound
      BY <1>2, <2>13 DEF IInv, WhereInv, RunInv
    <3> QED
      BY <2>1, <2>2, <2>6, <2>7, <3>1, <3>2, <3>3 DEF RunInv
  <2>16. DownInv'
    BY <2>2 DEF DownInv, Running
  <2>17. PositionInv' /\ CursorInv'
    <3>1. PositionInv'
      BY <1>2, <2>6, <2>12 DEF IInv, WhereInv, PositionInv, SameRead, SameWrite
    <3>2. CursorInv'
      BY <1>2, <2>2, <2>6, <2>12 DEF IInv, WhereInv, CursorInv, SameRead, SameWrite
    <3> QED
      BY <3>1, <3>2
  <2>18. WriteBlockInv'
    BY <1>1, <2>2, <2>6, <2>12, WriteBlockSame DEF SameWrite, IInv, CallInv
  <2>19. WritingInv'
    BY <1>1, <2>2, <2>13 DEF IInv, CallInv, WritingInv, Writing
  <2>20. LastReadInv'
    BY <1>1, <2>2, <2>6, <2>12 DEF IInv, CallInv, LastReadInv, SameRead
  <2>21. KeptInv'
    <3> SUFFICES ASSUME NEW i \in Ids, fate[i] = "kept"
                 PROVE  \E n \in Present' : \E r \in media'[n].recs :
                          /\ r.id = i /\ IsSendable(media'[n], r)
                          /\ n = seq.ReadSequence => seq.ReadCursor <= r.at
      BY <1>1, <2>6 DEF KeptInv, SameRead
    <3>1. PICK n \in Present : \E r \in media[n].recs :
            /\ r.id = i /\ IsSendable(media[n], r) /\ (n = seq.ReadSequence => seq.ReadCursor <= r.at)
      BY <1>2 DEF IInv, CallInv, KeptInv
    <3>2. n # next
      BY <1>2, <2>2, <2>4, <3>1 DEF IInv, WhereInv, RunInv
    <3> QED
      BY <2>8, <3>1, <3>2 DEF Present
  <2>22. OtherTypes'
    BY <1>1, <2>2 DEF OtherTypes, IInv, CallInv
  <2> QED
    BY <2>10, <2>14, <2>15, <2>16, <2>17, <2>18, <2>19, <2>20, <2>21, <2>22 DEF IInv, WhereInv, CallInv
<1> QED
  BY <1>3, <1>4

LEMMA EmptyBlockIs == EmptyBlock \in Blocks /\ EmptyBlock.size = 0 /\ EmptyBlock.recs = {} /\ IsSound(EmptyBlock)
BY BlockSizeAssumption DEF EmptyBlock, Blocks, IsSound, Boundary

LEMMA AcquireInv == ASSUME IInv, ControlInv', NEW ok \in BOOLEAN, AcquireBlock(ok) PROVE IInv'
<1>1. /\ pc = "rotating" /\ UNCHANGED <<lastRead, reported, writing, readBlockChanged, delivered>>
      /\ UNCHANGED <<fate, crashes, damage>>
  BY DEF AcquireBlock
<1>2. Running
  BY <1>1 DEF Running
<1>3. CASE ~ok
  BY <1>1, <1>2, <1>3, WriteFails DEF AcquireBlock
<1>4. CASE ok
  <2>1. PICK next : next = NextSequence(seq.WriteSequence)
    OBVIOUS
  <2>2. /\ next \notin Present /\ media' = With(next, EmptyBlock) /\ seq' = Rotated(seq, next)
        /\ pc' = "draining"
    BY <1>1, <1>4, <2>1 DEF AcquireBlock, Rotated
  <2>3. BlockCount(seq) <= Bound
    <3>1. Bound + 0 = Bound
      BY BoundFacts DEF IInv, MediumInv
    <3> QED
      BY <1>1, <1>2, <3>1 DEF IInv, WhereInv, RunInv
  <2>4. /\ next \in SequenceNumbers /\ next \notin seq.BlockPresent
        /\ Offset(seq.OldestSequence, next) = BlockCount(seq)
    BY <1>2, <2>1, <2>3, NextIsFree DEF IInv
  <2>5. IsStruct(seq) /\ seq.ReadSequence = seq.OldestSequence
    BY DEF IInv, ControlInv
  <2>6. IsRotation(seq, next, seq')
    BY <2>2, <2>5, RotatedFields
  <2>7. /\ Present' = Present \cup {next} /\ media'[next] = EmptyBlock
        /\ \A m \in SequenceNumbers : m # next => media'[m] = media[m]
    BY <2>2, <2>4, EmptyBlockIs, PutFacts DEF IInv, MediumInv
  <2>8. FateStep /\ CountersStep
    BY <1>1, SameFate, SameCounters DEF IInv, MediumInv
  <2>9. MediumInv'
    BY <2>2, <2>4, <2>8, EmptyBlockIs, MediumFresh DEF IInv
  <2>10. /\ seq.OldestSequence # next /\ seq.ReadSequence # next
         /\ seq.OldestSequence \in SequenceNumbers /\ seq.WriteSequence \in SequenceNumbers
    BY <1>2, <2>4, <2>5 DEF IInv, WhereInv, RunInv, StructTypes
  <2>11. media'[seq.ReadSequence] = media[seq.ReadSequence] /\ ReadBlock' = ReadBlock
    BY <2>5, <2>6, <2>7, <2>10 DEF SameRead, ReadBlock, IsRotation
  <2>12. \A n \in Present : n # next /\ media'[n] = media[n]
    BY <2>2, <2>7 DEF Present
  <2>13. StructTypes'
    <3>1. 0 \in 0..MaxBlockSize
      BY BlockSizeAssumption
    <3> QED
      BY <2>4, <2>6, <3>1 DEF IInv, WhereInv, StructTypes, SameRead, IsRotation
  <2>14. RunInv'
    <3>1. Bound' = Bound /\ Bound \in Nat
      BY <1>1, BoundFacts DEF Bound, IInv, MediumInv
    <3>2. /\ BlockCount(seq) = Offset(seq.OldestSequence, seq.WriteSequence) + 1
          /\ Offset(seq.OldestSequence, seq.WriteSequence) \in 0..Modulus - 1
      BY <1>2, RunFacts DEF IInv
    <3>3. BlockCount(seq') = BlockCount(seq) + 1
      BY <2>4, <2>6, BlockCountIs DEF IsRotation
    <3>4. BlockCount(seq') <= Bound + 1
      BY <2>3, <3>1, <3>2, <3>3, ModulusAssumption
    <3>5. /\ seq.BlockPresent \subseteq Present /\ Present \subseteq seq.BlockPresent \cup {next}
          /\ {seq.OldestSequence, seq.WriteSequence} \subseteq seq.BlockPresent
          /\ IsArc(seq.BlockPresent, seq.OldestSequence, seq.WriteSequence)
      BY <1>2, <2>1 DEF IInv, WhereInv, RunInv
    <3>6. IsArc(seq'.BlockPresent, seq'.OldestSequence, seq'.WriteSequence)
      <4>1. ASSUME NEW n \in seq.BlockPresent
            PROVE  Offset(seq.OldestSequence, n) <= Offset(seq.OldestSequence, next)
        <5>1. n \in SequenceNumbers
          BY DEF IInv, WhereInv, StructTypes
        <5>2. Offset(seq.OldestSequence, n) \in SequenceNumbers
          BY <2>10, <5>1, OffsetIs
        <5>3. Offset(seq.OldestSequence, n) <= Offset(seq.OldestSequence, seq.WriteSequence)
          BY <3>5 DEF IsArc
        <5> QED
          BY <2>4, <3>2, <5>2, <5>3, ModulusAssumption DEF SequenceNumbers
      <4>2. Offset(seq.OldestSequence, next) <= Offset(seq.OldestSequence, next)
        BY <2>4, <3>2, ModulusAssumption
      <4> QED
        BY <2>6, <4>1, <4>2 DEF IsArc, IsRotation
    <3>7. Present' = seq'.BlockPresent
      BY <2>6, <2>7, <3>5 DEF IsRotation
    <3> QED
      BY <2>2, <2>6, <3>1, <3>4, <3>5, <3>6, <3>7 DEF RunInv, IsRotation
  <2>15. DownInv'
    BY <2>2 DEF DownInv, Running
  <2>16. PositionInv'
    BY <1>2, <2>6, <2>7, <2>10, <2>11, EmptyBlockIs DEF IInv, WhereInv, PositionInv, SameRead, IsRotation
  <2>17. CursorInv'
    BY <1>2, <2>2, <2>6, <2>10, <2>11 DEF IInv, WhereInv, CursorInv, SameRead, IsRotation
  <2>18. WriteBlockInv'
    BY <2>6, <2>7, EmptyBlockIs DEF WriteBlockInv, IsRotation
  <2>19. WritingInv'
    <3>1. /\ writing.id \in Ids /\ writing.bytes \in RecordSizes /\ fate[writing.id] = "offered"
          /\ \A n \in Present : \A r \in media[n].recs : r.id # writing.id
      BY <1>1 DEF IInv, CallInv, WritingInv, Writing
    <3>2. \A n \in Present' : \A r \in media'[n].recs : r.id # writing.id
      BY <2>7, <2>12, <3>1, EmptyBlockIs
    <3> QED
      BY <1>1, <2>2, <2>6, <3>1, <3>2 DEF WritingInv, IsRotation
  <2>20. LastReadInv'
    BY <1>1, <2>2, <2>6, <2>11 DEF IInv, CallInv, LastReadInv, SameRead, IsRotation
  <2>21. KeptInv'
    <3> SUFFICES ASSUME NEW i \in Ids, fate[i] = "kept"
                 PROVE  \E n \in Present' : \E r \in media'[n].recs :
                          /\ r.id = i /\ IsSendable(media'[n], r)
                          /\ n = seq.ReadSequence => seq.ReadCursor <= r.at
      BY <1>1, <2>6 DEF KeptInv, SameRead, IsRotation
    <3>1. PICK n \in Present : \E r \in media[n].recs :
            /\ r.id = i /\ IsSendable(media[n], r) /\ (n = seq.ReadSequence => seq.ReadCursor <= r.at)
      BY <1>2 DEF IInv, CallInv, KeptInv
    <3> QED
      BY <2>7, <2>12, <3>1
  <2>22. OtherTypes'
    BY <1>1, <2>2 DEF OtherTypes, IInv, CallInv, Serving
  <2> QED
    BY <2>9, <2>13, <2>14, <2>15, <2>16, <2>17, <2>18, <2>19, <2>20, <2>21, <2>22 DEF IInv, WhereInv, CallInv
<1> QED
  BY <1>3, <1>4

\* Losing records loses no others, and keeps none.
LEMMA LoseFate ==
  ASSUME MediumTypes, NEW recs, NEW f \in {"evicted", "ruined"}, Lose(recs, f)
  PROVE  /\ FateStep
         /\ \A r \in recs : r.id \in Ids => fate'[r.id] # "kept"
         /\ \A id \in Ids : fate[id] # "kept" => fate'[id] = fate[id]
         /\ \A id \in Ids : fate'[id] = "kept" => ~ \E r \in recs : r.id = id
BY DEF MediumTypes, FateStep, Fates, Lose

LEMMA EvictInv == ASSUME IInv, ControlInv', NEW ok \in BOOLEAN, EvictAfterRotation(ok) PROVE IInv'
<1>1. pc = "evicting" /\ UNCHANGED <<writing, readBlockChanged, delivered, crashes, damage>>
  BY DEF EvictAfterRotation
<1>2. Running /\ IsStruct(seq) /\ seq.ReadSequence = seq.OldestSequence
  BY <1>1 DEF Running, IInv, ControlInv
<1>3. /\ writing.id \in Ids /\ writing.bytes \in RecordSizes /\ fate[writing.id] = "offered"
      /\ \A n \in Present : \A r \in media[n].recs : r.id # writing.id
      /\ ~seq.WriteBlockCorrupt /\ seq.WritePosition = 0
  BY <1>1 DEF IInv, CallInv, WritingInv, Writing
<1>4. 0 + writing.bytes <= MaxBlockSize
  <2>1. PICK k : k = writing.bytes
    OBVIOUS
  <2>2. k \in 1..MaxBlockSize
    BY <1>3, <2>1, RecordSizesAssumption
  <2> QED
    BY <2>1, <2>2, BlockSizeAssumption
<1>5. /\ BlockCount(seq) = Offset(seq.OldestSequence, seq.WriteSequence) + 1
      /\ Offset(seq.OldestSequence, seq.WriteSequence) \in 0..Modulus - 1
      /\ seq.OldestSequence \in SequenceNumbers
  BY <1>2, RunFacts DEF IInv
<1>6. PICK s : s = seq
  OBVIOUS
<1>7. InBlock(s)
  BY <1>2, <1>6, HereInBlock DEF IInv
<1>8. reported \subseteq {"REFUSAL", "EVICTION", "SEAL", "LOSS"} /\ delivered \in {0} \cup Ids
  BY DEF IInv, CallInv, OtherTypes, LastReadInv
<1>9. CASE Evicts(seq) /\ ok
  <2>1. /\ seq' = DiscardOldestBlock(s) /\ media' = Without(seq.OldestSequence)
        /\ Lose(media[seq.OldestSequence].recs, "evicted")
    BY <1>6, <1>9 DEF EvictAfterRotation
  <2>2. MovedOn(s, seq') /\ seq'.DeviceFailed = seq.DeviceFailed
    BY <1>2, <1>6, <2>1, DiscardOldestFields DEF MovedOn
  <2>3. ~seq'.DeviceFailed
    BY <1>9, <2>2 DEF Evicts
  <2>4. ReadyToAppend(seq', TRUE)
    BY <1>9, <2>3 DEF EvictAfterRotation, ReadyToAppend
  <2>5. /\ pc' = "appending" /\ lastRead' = NothingRead
        /\ reported' \subseteq {"REFUSAL", "EVICTION", "SEAL", "LOSS"}
    BY <1>8, <2>4 DEF ReadyToAppend
  <2>6. seq.OldestSequence # seq.WriteSequence
    <3>1. BlockCount(seq) > MaxBlocks
      BY <1>9 DEF Evicts, ExceedsMaxBlocks
    <3>2. Offset(seq.OldestSequence, seq.WriteSequence) # 0
      BY <1>5, <3>1, MaxBlocksAssumption, ModulusAssumption
    <3>3. Offset(seq.OldestSequence, seq.OldestSequence) = 0
      <4>1. PICK o \in SequenceNumbers : o = seq.OldestSequence
        BY <1>5
      <4>2. Offset(o, o) = o - o
        BY OffsetIs, ModulusAssumption DEF SequenceNumbers
      <4> QED
        BY <4>1, <4>2, ModulusAssumption DEF SequenceNumbers
    <3> QED
      BY <3>2, <3>3
  <2>7. MovesOn(s)
    <3>1. Running'
      BY <2>5 DEF Running
    <3> QED
      BY <1>1, <1>2, <1>7, <2>1, <2>2, <2>6, <3>1 DEF MovesOn
  <2>8. PICK recs : recs = media[seq.OldestSequence].recs
    OBVIOUS
  <2>9. /\ FateStep /\ \A r \in recs : r.id \in Ids => fate'[r.id] # "kept"
        /\ \A id \in Ids : fate[id] # "kept" => fate'[id] = fate[id]
    BY <2>1, <2>8, LoseFate DEF IInv, MediumInv
  <2>10. /\ MediumInv' /\ WhereInv' /\ media'[seq.WriteSequence] = media[seq.WriteSequence]
         /\ Present' = Present \ {seq.OldestSequence} /\ seq'.WriteSequence = seq.WriteSequence
    BY <2>7, <2>9, MoveOnWhere DEF IInv
  <2>11. KeptInv'
    <3>1. ReadBlock \in Blocks /\ ReadBlock.recs = recs
      BY <1>2, <2>8, ReadFacts DEF IInv, ReadBlock
    <3>2. \A r \in ReadBlock.recs : fate'[r.id] # "kept"
      BY <2>9, <3>1, RecordFacts
    <3> QED
      BY <2>7, <2>9, <3>2, MoveOnKept DEF IInv, CallInv
  <2>12. SameWrite(seq, seq')
    BY <1>6, <2>2 DEF MovedOn
  <2>13. WriteBlockInv'
    BY <1>1, <2>10, <2>12, WriteBlockSame DEF SameWrite, IInv, CallInv, Serving
  <2>14. WritingInv'
    <3>1. \A n \in Present' : n \in Present /\ media'[n] = media[n]
      <4>1. PICK o : o = seq.OldestSequence
        OBVIOUS
      <4>2. \A m \in SequenceNumbers : m # o => media'[m] = media[m]
        BY <1>5, <2>1, <4>1, DropFacts DEF IInv, MediumInv
      <4> QED
        BY <2>10, <4>1, <4>2 DEF Present
    <3>2. fate'[writing.id] = "offered"
      BY <1>3, <2>9
    <3> QED
      BY <1>1, <1>3, <1>4, <2>5, <2>12, <3>1, <3>2 DEF WritingInv, SameWrite
  <2>15. OtherTypes' /\ LastReadInv'
    BY <1>1, <1>8, <2>5 DEF OtherTypes, LastReadInv, Serving
  <2> QED
    BY <2>10, <2>11, <2>13, <2>14, <2>15 DEF IInv, CallInv
<1>10. CASE Evicts(seq) /\ ~ok
  <2>1. seq' = NoteDeviceFailure(seq) /\ UNCHANGED <<media, fate>>
    BY <1>10 DEF EvictAfterRotation
  <2>2. seq'.DeviceFailed
    BY <1>2, <2>1, NoteDeviceFailureFields
  <2>3. pc' = "frozen" /\ reported' = reported
    BY <1>10, <2>2 DEF EvictAfterRotation
  <2> QED
    BY <1>1, <1>2, <2>1, <2>3, WriteFails
<1>11. CASE ~Evicts(seq)
  <2>1. seq' = seq /\ UNCHANGED <<media, fate>>
    BY <1>11 DEF EvictAfterRotation
  <2>2. CASE seq.DeviceFailed
    <3>1. pc' = "frozen" /\ reported' = reported
      BY <1>11, <2>2 DEF EvictAfterRotation
    <3>2. StructTypes'
      BY <2>1 DEF IInv, WhereInv, StructTypes
    <3> QED
      BY <1>1, <2>1, <3>1, <3>2, FailStep
  <2>3. CASE ~seq.DeviceFailed
    <3>1. ReadyToAppend(seq, readBlockChanged)
      BY <1>11, <2>3 DEF EvictAfterRotation, ReadyToAppend
    <3>2. /\ pc' = "appending" /\ (lastRead' = NothingRead \/ (lastRead' = lastRead /\ ~readBlockChanged))
          /\ reported' \subseteq {"REFUSAL", "EVICTION", "SEAL", "LOSS"}
      BY <1>8, <3>1 DEF ReadyToAppend
    <3>3. Running' /\ pc' \in Serving
      BY <3>2 DEF Running, Serving
    <3>4. BlockCount(seq) <= Bound
      <4>1. BlockCount(seq) <= MaxBlocks
        BY <1>5, <1>11, <2>3, MaxBlocksAssumption, ModulusAssumption DEF Evicts, ExceedsMaxBlocks
      <4> QED
        BY <1>5, <4>1, BoundFacts, MaxBlocksAssumption, ModulusAssumption DEF IInv, MediumInv
    <3>5. Stays(s) /\ FateStep
      BY <1>1, <1>2, <1>6, <2>1, <3>3, <3>4, HereStays, SameFate DEF IInv, MediumInv
    <3>6. /\ MediumInv' /\ Present' = Present /\ StructTypes' /\ RunInv' /\ DownInv' /\ PositionInv'
          /\ ReadBlock' = ReadBlock
      BY <3>5, StayWhere DEF IInv
    <3>7. KeptInv'
      BY <1>6, <3>5, StayKept DEF IInv, CallInv
    <3>8. CursorInv'
      BY <1>6, <2>1, <3>2, <3>5, <3>6, StayCursor
    <3>9. WriteBlockInv'
      BY <1>1, <2>1, WriteBlockSame DEF IInv, CallInv, Serving
    <3>10. WritingInv'
      BY <1>1, <1>3, <1>4, <2>1, <3>2, <3>6 DEF WritingInv
    <3>11. LastReadInv'
      BY <1>1, <2>1, <3>2, <3>6 DEF IInv, CallInv, LastReadInv
    <3>12. OtherTypes'
      BY <3>2, <3>3 DEF OtherTypes
    <3> QED
      BY <3>6, <3>7, <3>8, <3>9, <3>10, <3>11, <3>12 DEF IInv, WhereInv, CallInv
  <2> QED
    BY <2>2, <2>3
<1> QED
  BY <1>9, <1>10, <1>11

\* The write block, about to be appended to.
LEMMA AppendFacts ==
  ASSUME IInv, pc = "appending"
  PROVE  /\ seq.WriteSequence \in Present /\ seq.WriteSequence \in SequenceNumbers
         /\ media[seq.WriteSequence] \in Blocks /\ Tiled(media[seq.WriteSequence])
         /\ IsSound(media[seq.WriteSequence])
         /\ seq.WritePosition = media[seq.WriteSequence].size
         /\ writing.id \in Ids /\ writing.bytes \in Nat \ {0} /\ fate[writing.id] = "offered"
         /\ \A n \in Present : \A r \in media[n].recs : r.id # writing.id
         /\ media[seq.WriteSequence].size + writing.bytes <= MaxBlockSize
<1>1. Running
  BY DEF Running
<1>2. /\ seq.WriteSequence \in Present /\ seq.WriteSequence \in SequenceNumbers
      /\ media[seq.WriteSequence] \in Blocks /\ Tiled(media[seq.WriteSequence])
  BY <1>1, RunFacts DEF IInv
<1>3. seq.WritePosition = media[seq.WriteSequence].size
  BY <1>1 DEF IInv, WhereInv, PositionInv
<1>4. /\ writing.id \in Ids /\ writing.bytes \in RecordSizes /\ fate[writing.id] = "offered"
      /\ \A n \in Present : \A r \in media[n].recs : r.id # writing.id
      /\ ~seq.WriteBlockCorrupt /\ seq.WritePosition + writing.bytes <= MaxBlockSize
  BY DEF IInv, CallInv, WritingInv, Writing
<1>5. writing.bytes \in Nat \ {0}
  <2>1. PICK k : k = writing.bytes
    OBVIOUS
  <2>2. k \in 1..MaxBlockSize
    BY <1>4, <2>1, RecordSizesAssumption
  <2> QED
    BY <2>1, <2>2, BlockSizeAssumption
<1>6. IsSound(media[seq.WriteSequence])
  BY <1>4 DEF IInv, CallInv, WriteBlockInv, Serving
<1> QED
  BY <1>2, <1>3, <1>4, <1>5, <1>6

\* Some or all of a record's bytes reach the write block.
Appends(reached) ==
  media' = With(seq.WriteSequence, AppendRecord(media[seq.WriteSequence], writing.id, writing.bytes, reached))

LEMMA AppendMedium ==
  ASSUME IInv, pc = "appending", CountersStep, NEW reached \in 0..writing.bytes, Appends(reached),
         fate' \in [Ids -> Fates], fate'[writing.id] # "new",
         \A id \in Ids : /\ fate'[id] = "new" => fate[id] = "new"
                         /\ fate'[id] = "kept" /\ id # writing.id => fate[id] = "kept"
  PROVE  /\ MediumInv' /\ Present' = Present
         /\ \A n \in SequenceNumbers : n # seq.WriteSequence => media'[n] = media[n]
         /\ \E q : /\ q.id = writing.id /\ q.at = media[seq.WriteSequence].size
                   /\ IsAppend(media[seq.WriteSequence], q, media'[seq.WriteSequence])
                   /\ reached = writing.bytes =>
                        /\ IsSound(media'[seq.WriteSequence]) /\ q \in media'[seq.WriteSequence].recs
                        /\ IsSendable(media'[seq.WriteSequence], q)
                        /\ media'[seq.WriteSequence].size = media[seq.WriteSequence].size + writing.bytes
<1>1. PICK w : w = seq.WriteSequence
  OBVIOUS
<1>2. PICK b : b = media[w]
  OBVIOUS
<1>3. PICK id : id = writing.id
  OBVIOUS
<1>4. PICK bytes : bytes = writing.bytes
  OBVIOUS
<1>5. /\ w \in Present /\ w \in SequenceNumbers /\ b \in Blocks /\ Tiled(b) /\ IsSound(b)
      /\ id \in Ids /\ bytes \in Nat \ {0} /\ b.size + bytes <= MaxBlockSize
      /\ \A n \in Present : \A r \in media[n].recs : r.id # id
  BY <1>1, <1>2, <1>3, <1>4, AppendFacts
<1>6. PICK b2 : b2 = AppendRecord(b, id, bytes, reached)
  OBVIOUS
<1>7. PICK q : q = [id |-> id, at |-> b.size, bytes |-> bytes, flag |-> "UNSENT", state |-> "OK"]
  OBVIOUS
<1>8. /\ IsAppend(b, q, b2)
      /\ reached = bytes => /\ IsSound(b2) /\ q \in b2.recs /\ End(q) = b2.size /\ b2.size = b.size + bytes
  BY <1>4, <1>5, <1>6, <1>7, AppendIs
<1>9. q \in Records /\ q.id = id /\ q.at = b.size /\ q.state = "OK" /\ q.flag = "UNSENT"
  <2>1. b.size \in 0..MaxBlockSize /\ b.size \in Nat
    BY <1>5, RecordFacts
  <2>2. bytes \in 1..MaxBlockSize
    BY <1>5, <2>1, BlockSizeAssumption
  <2> QED
    BY <1>5, <1>7, <2>1, <2>2 DEF Records
<1>10. media' = With(w, b2)
  BY <1>1, <1>2, <1>3, <1>4, <1>6 DEF Appends
<1>11. b2 \in Blocks
  BY <1>8 DEF IsAppend
<1>12. /\ Present' = Present /\ media'[w] = b2
       /\ \A n \in SequenceNumbers : n # w => media'[n] = media[n]
  <2>1. /\ Present' = Present \cup {w} /\ media'[w] = b2
        /\ \A n \in SequenceNumbers : n # w => media'[n] = media[n]
    BY <1>5, <1>10, <1>11, PutFacts DEF IInv, MediumInv
  <2>2. Present \cup {w} = Present
    BY <1>5
  <2> QED
    BY <2>1, <2>2
<1>13. MediumInv'
  <2>1. \A r \in media[w].recs : r.state # "DAMAGED"
    BY <1>2, <1>5 DEF IsSound
  <2>2. IsAppend(media[w], q, b2)
    BY <1>2, <1>8
  <2>3. \A m \in Present : \A r \in media[m].recs : r.id # q.id
    BY <1>5, <1>9
  <2>4. /\ fate'[q.id] # "new"
        /\ \A i \in Ids : /\ fate'[i] = "new" => fate[i] = "new"
                          /\ fate'[i] = "kept" /\ i # q.id => fate[i] = "kept"
    BY <1>3, <1>9
  <2> QED
    BY <1>5, <1>9, <1>10, <2>1, <2>2, <2>3, <2>4, MediumAppend DEF IInv
<1>14. reached = bytes => IsSendable(b2, q)
  <2>1. b2.size \in Nat
    BY <1>11, RecordFacts
  <2> QED
    BY <1>8, <1>9, <2>1 DEF IsSendable
<1> QED
  BY <1>1, <1>2, <1>3, <1>4, <1>8, <1>9, <1>12, <1>13, <1>14

LEMMA AppendKeeps ==
  ASSUME IInv, pc = "appending", Present' = Present,
         \A n \in SequenceNumbers : n # seq.WriteSequence => media'[n] = media[n],
         NEW q, IsAppend(media[seq.WriteSequence], q, media'[seq.WriteSequence]),
         NEW id \in Ids, fate[id] = "kept"
  PROVE  \E n \in Present : \E r \in media'[n].recs :
           /\ r.id = id /\ IsSendable(media'[n], r)
           /\ n = seq.ReadSequence => seq.ReadCursor <= r.at
<1>1. Running
  BY DEF Running
<1>2. PICK n \in Present : \E r \in media[n].recs :
        /\ r.id = id /\ IsSendable(media[n], r) /\ (n = seq.ReadSequence => seq.ReadCursor <= r.at)
  BY <1>1 DEF IInv, CallInv, KeptInv
<1>3. PICK r \in media[n].recs :
        /\ r.id = id /\ IsSendable(media[n], r) /\ (n = seq.ReadSequence => seq.ReadCursor <= r.at)
  BY <1>2
<1>4. CASE n # seq.WriteSequence
  <2>1. media'[n] = media[n]
    BY <1>4 DEF Present
  <2> QED
    BY <1>3, <2>1
<1>5. CASE n = seq.WriteSequence
  <2>1. r \in media'[n].recs /\ media[n].size <= media'[n].size /\ media'[n] \in Blocks
    BY <1>3, <1>5 DEF IsAppend
  <2>2. media[n] \in Blocks
    BY <1>2, PresentFacts DEF IInv, MediumInv
  <2>3. End(r) \in Nat /\ media[n].size \in Nat
    BY <1>3, <2>2, RecordFacts
  <2>4. media'[n].size \in Nat
    BY <2>1, RecordFacts
  <2>5. IsSendable(media'[n], r)
    BY <1>3, <2>1, <2>3, <2>4 DEF IsSendable
  <2> QED
    BY <1>3, <2>1, <2>5
<1> QED
  BY <1>4, <1>5

LEMMA TornMedium ==
  ASSUME IInv, pc = "appending", CountersStep, TornAppend, fate' = fate
  PROVE  MediumInv' /\ Present' = Present /\ KeptOnMedium'
<1>1. PICK reached \in 0..writing.bytes : Appends(reached)
  BY DEF TornAppend, Appends
<1>2. fate \in [Ids -> Fates] /\ fate[writing.id] # "new"
  BY AppendFacts DEF IInv, MediumInv, MediumTypes
<1>3. /\ MediumInv' /\ Present' = Present
      /\ \A n \in SequenceNumbers : n # seq.WriteSequence => media'[n] = media[n]
      /\ \E q : IsAppend(media[seq.WriteSequence], q, media'[seq.WriteSequence])
  BY <1>1, <1>2, AppendMedium
<1>4. KeptOnMedium'
  BY <1>3, AppendKeeps DEF KeptOnMedium
<1> QED
  BY <1>3, <1>4

LEMMA AppendFailsInv == ASSUME IInv, ControlInv', AppendFails PROVE IInv'
<1>1. /\ pc = "appending" /\ TornAppend /\ pc' = "frozen"
      /\ UNCHANGED <<seq, reported, delivered, fate, crashes, damage>>
  BY DEF AppendFails
<1>2. CountersStep
  BY <1>1, SameCounters DEF IInv, MediumInv
<1>3. MediumInv' /\ Present' = Present /\ KeptOnMedium'
  BY <1>1, <1>2, TornMedium
<1>4. StructTypes' /\ reported' \subseteq {"REFUSAL", "EVICTION", "SEAL", "LOSS"} /\ delivered' \in {0} \cup Ids
  BY <1>1 DEF IInv, WhereInv, StructTypes, CallInv, OtherTypes, LastReadInv
<1> QED
  BY <1>1, <1>3, <1>4, DownStep

LEMMA SealFailsInv == ASSUME IInv, ControlInv', SealFails PROVE IInv'
<1>1. /\ pc = "appending" /\ pc' = "idle" /\ reported' = reported \cup {"SEAL"}
      /\ fate' = [fate EXCEPT ![writing.id] = "lost"]
      /\ UNCHANGED <<media, seq, lastRead, delivered, crashes, damage>>
  BY DEF SealFails
<1>2. FateStep
  <2>1. writing.id \in Ids /\ fate \in [Ids -> Fates]
    BY <1>1, AppendFacts DEF IInv, MediumInv, MediumTypes
  <2> QED
    BY <1>1, <2>1 DEF FateStep, Fates
<1>3. PICK s : s = seq
  OBVIOUS
<1>4. Stays(s)
  BY <1>1, <1>3, HereStays DEF Running
<1>5. reported' \subseteq {"REFUSAL", "EVICTION", "SEAL", "LOSS"}
  BY <1>1 DEF IInv, CallInv, OtherTypes
<1>6. ReadBlock' = ReadBlock
  BY <1>1 DEF ReadBlock
<1>7. LastReadInv'
  BY <1>1, <1>6 DEF IInv, CallInv, LastReadInv
<1> QED
  BY <1>1, <1>2, <1>3, <1>4, <1>5, <1>7, StayInv DEF Serving

LEMMA AppendKeptInv == ASSUME IInv, ControlInv', AppendKept PROVE IInv'
<1>1. /\ pc = "appending" /\ pc' = "idle" /\ reported' = reported \ {"REFUSAL", "SEAL"}
      /\ seq' = NoteRecordWritten(seq, writing.bytes)
      /\ fate' = [fate EXCEPT ![writing.id] = "kept"] /\ Appends(writing.bytes)
      /\ UNCHANGED <<lastRead, delivered, crashes, damage>>
  BY DEF AppendKept, Appends
<1>2. PICK w : w = seq.WriteSequence
  OBVIOUS
<1>3. PICK b : b = media[w]
  OBVIOUS
<1>4. PICK b2 : b2 = media'[w]
  OBVIOUS
<1>5. PICK bytes : bytes = writing.bytes
  OBVIOUS
<1>6. /\ w \in Present /\ w \in SequenceNumbers /\ b \in Blocks /\ Tiled(b) /\ IsSound(b)
      /\ seq.WritePosition = b.size /\ writing.id \in Ids /\ bytes \in Nat \ {0}
      /\ b.size + bytes <= MaxBlockSize
  BY <1>1, <1>2, <1>3, <1>5, AppendFacts
<1>7. CountersStep
  BY <1>1, SameCounters DEF IInv, MediumInv
<1>8. /\ fate' \in [Ids -> Fates] /\ fate'[writing.id] = "kept"
      /\ \A id \in Ids : id # writing.id => fate'[id] = fate[id]
  <2>1. fate \in [Ids -> Fates]
    BY DEF IInv, MediumInv, MediumTypes
  <2> QED
    BY <1>1, <1>6, <2>1 DEF Fates
<1>9. /\ MediumInv' /\ Present' = Present
      /\ \A n \in SequenceNumbers : n # w => media'[n] = media[n]
      /\ \E q : /\ q.id = writing.id /\ q.at = b.size /\ IsAppend(b, q, b2)
                /\ IsSound(b2) /\ q \in b2.recs /\ IsSendable(b2, q) /\ b2.size = b.size + bytes
  <2>1. writing.bytes \in 0..writing.bytes
    BY <1>5, <1>6
  <2> QED
    BY <1>1, <1>2, <1>3, <1>4, <1>5, <1>7, <1>8, <2>1, AppendMedium
<1>10. PICK q : /\ q.id = writing.id /\ q.at = b.size /\ IsAppend(b, q, b2)
                /\ IsSound(b2) /\ q \in b2.recs /\ IsSendable(b2, q) /\ b2.size = b.size + bytes
  BY <1>9
<1>11. /\ SameRun(seq, seq') /\ SameRead(seq, seq')
       /\ seq'.WritePosition = b2.size /\ seq'.WriteBlockCorrupt = seq.WriteBlockCorrupt
  <2>1. IsStruct(seq)
    BY DEF IInv, ControlInv
  <2>2. /\ SameRun(seq, seq') /\ SameRead(seq, seq')
        /\ seq'.WritePosition = seq.WritePosition + bytes /\ seq'.WriteBlockCorrupt = seq.WriteBlockCorrupt
    BY <1>1, <1>5, <2>1, NoteRecordWrittenFields
  <2> QED
    BY <1>6, <1>10, <2>2
<1>12. Running /\ Running'
  BY <1>1 DEF Running
<1>13. /\ b2 \in Blocks /\ b.recs \subseteq b2.recs /\ b.size <= b2.size
       /\ \A c : Boundary(b, c) => Boundary(b2, c)
  BY <1>10 DEF IsAppend
<1>14. b2.size \in 0..MaxBlockSize /\ b2.size \in Nat /\ b.size \in Nat
  BY <1>6, <1>13, RecordFacts
<1>15. ReadBlock' = IF seq.ReadSequence = w THEN b2 ELSE ReadBlock
  <2>1. seq.ReadSequence \in SequenceNumbers
    BY DEF IInv, WhereInv, StructTypes
  <2> QED
    BY <1>4, <1>9, <1>11, <2>1 DEF ReadBlock, SameRead
<1>16. seq.ReadSequence = w => ReadBlock = b
  BY <1>3 DEF ReadBlock
<1>17. /\ ReadBlock.recs \subseteq ReadBlock'.recs /\ ReadBlock.size \in Nat /\ ReadBlock'.size \in Nat
       /\ ReadBlock.size <= ReadBlock'.size
       /\ \A c : Boundary(ReadBlock, c) => Boundary(ReadBlock', c)
  <2>1. ReadBlock \in Blocks
    BY <1>12, ReadFacts DEF IInv
  <2>2. ReadBlock.size \in Nat
    BY <2>1, RecordFacts
  <2>3. CASE seq.ReadSequence = w
    BY <1>13, <1>14, <1>15, <1>16, <2>3
  <2>4. CASE seq.ReadSequence # w
    BY <1>15, <2>2, <2>4
  <2> QED
    BY <2>3, <2>4
<1>18. StructTypes'
  BY <1>11, <1>14 DEF IInv, WhereInv, StructTypes, SameRun, SameRead
<1>19. RunInv'
  <2>1. Bound' = Bound /\ BlockCount(seq') = BlockCount(seq)
    BY <1>1, <1>11 DEF Bound, BlockCount, SameRun
  <2>2. \A n \in Present \ seq.BlockPresent : media'[n] = media[n]
    BY <1>2, <1>9, <1>12 DEF IInv, WhereInv, RunInv, Present
  <2> QED
    BY <1>1, <1>9, <1>11, <1>12, <2>1, <2>2 DEF IInv, WhereInv, RunInv, SameRun
<1>20. DownInv'
  BY <1>12 DEF DownInv
<1>21. PositionInv'
  BY <1>2, <1>4, <1>11, <1>12, <1>15 DEF IInv, WhereInv, PositionInv, SameRun, SameRead
<1>22. CursorInv'
  <2>1. seq.ReadCursor <= ReadBlock.size /\ seq.ReadCursor \in Nat
    BY <1>12 DEF IInv, WhereInv, CursorInv, StructTypes
  <2>2. seq.ReadCursor <= ReadBlock'.size
    BY <1>17, <2>1
  <2>3. Boundary(ReadBlock, seq.ReadCursor) \/ (seq.ReadCursor = ReadBlock.size /\ seq.ReadSequence # w)
    <3>1. ~seq.WriteBlockCorrupt
      BY <1>1 DEF IInv, CallInv, WritingInv
    <3> QED
      BY <1>2, <1>12, <3>1 DEF IInv, WhereInv, CursorInv
  <2> QED
    BY <1>1, <1>2, <1>11, <1>15, <1>17, <2>2, <2>3 DEF CursorInv, SameRun, SameRead
<1>23. WriteBlockInv'
  BY <1>2, <1>4, <1>10, <1>11 DEF WriteBlockInv, SameRun
<1>24. LastReadInv'
  <2>1. delivered \in {0} \cup Ids
    BY DEF IInv, CallInv, LastReadInv
  <2>2. ASSUME delivered # 0, lastRead # NothingRead
        PROVE  /\ lastRead.block = seq.ReadSequence /\ lastRead.next <= ReadBlock'.size
               /\ \E r \in ReadBlock'.recs : r.id = delivered /\ r.at = seq.ReadCursor /\ End(r) = lastRead.next
    <3>1. /\ lastRead.block = seq.ReadSequence /\ lastRead.next <= ReadBlock.size
          /\ \E r \in ReadBlock.recs : r.id = delivered /\ r.at = seq.ReadCursor /\ End(r) = lastRead.next
      BY <1>1, <2>2 DEF IInv, CallInv, LastReadInv
    <3>2. lastRead.next \in Nat
      <4>1. ReadBlock \in Blocks
        BY <1>12, ReadFacts DEF IInv
      <4> QED
        BY <3>1, <4>1, RecordFacts
    <3> QED
      BY <1>17, <3>1, <3>2
  <2> QED
    BY <1>1, <1>11, <2>1, <2>2 DEF LastReadInv, SameRead
<1>25. KeptInv'
  <2> SUFFICES ASSUME NEW id \in Ids, fate'[id] = "kept"
               PROVE  \E n \in Present : \E r \in media'[n].recs :
                        /\ r.id = id /\ IsSendable(media'[n], r)
                        /\ n = seq.ReadSequence => seq.ReadCursor <= r.at
    BY <1>9, <1>11 DEF KeptInv, SameRead
  <2>1. CASE id = writing.id
    <3>1. seq.ReadSequence = w => seq.ReadCursor <= b.size
      BY <1>12, <1>16 DEF IInv, WhereInv, CursorInv
    <3> QED
      BY <1>4, <1>6, <1>10, <2>1, <3>1
  <2>2. CASE id # writing.id
    <3>1. fate[id] = "kept"
      BY <1>8, <2>2
    <3>2. IsAppend(media[seq.WriteSequence], q, media'[seq.WriteSequence])
      BY <1>2, <1>3, <1>4, <1>10
    <3> QED
      BY <1>1, <1>2, <1>9, <3>1, <3>2, AppendKeeps
  <2> QED
    BY <2>1, <2>2
<1>26. OtherTypes' /\ WritingInv'
  BY <1>1 DEF IInv, CallInv, OtherTypes, WritingInv, Serving, Writing
<1> QED
  BY <1>9, <1>18, <1>19, <1>20, <1>21, <1>22, <1>23, <1>24, <1>25, <1>26 DEF IInv, WhereInv, CallInv

-----------------------------------------------------------------------------
(* Power cuts and damage *)

LEMMA RestartInv == ASSUME IInv, ControlInv', Restart PROVE IInv'
<1>1. /\ pc # "opening" /\ crashes < MaxCrashes /\ crashes' = crashes + 1 /\ damage' = damage
      /\ seq' = Initialised /\ reported' = {} /\ pc' = "opening" /\ delivered' = 0
  BY DEF Restart
<1>2. CountersStep
  BY <1>1, StoreBoundsAssumption DEF CountersStep, IInv, MediumInv, MediumTypes
<1>3. StructTypes'
  BY <1>1, InitialisedFields, ModulusAssumption, BlockSizeAssumption
     DEF StructTypes, SequenceNumbers, SizeUnknown
<1>4. MediumInv' /\ Present' = Present /\ KeptOnMedium'
  <2>1. CASE pc = "appending" /\ TornAppend /\ UNCHANGED fate
    BY <1>2, <2>1, TornMedium
  <2>2. CASE \E flag \in {"HALF", "SENT"} : pc = "idle" /\ delivered # 0 /\ lastRead # NothingRead /\ NoteMark(flag)
    <3>1. PICK flag \in {"HALF", "SENT"} : pc = "idle" /\ delivered # 0 /\ lastRead # NothingRead /\ NoteMark(flag)
      BY <2>2
    <3>2. MediumInv' /\ MarkLeaves(flag)
      BY <1>2, <3>1, MarkMedium
    <3> QED
      BY <3>2 DEF MarkLeaves, KeptOnMedium
  <2>3. CASE UNCHANGED <<media, fate>>
    <3>1. FateStep /\ media' = media
      BY <2>3, SameFate DEF IInv, MediumInv
    <3>2. MediumInv' /\ Present' = Present
      BY <1>2, <3>1, MediumSame DEF IInv
    <3>3. KeptOnMedium'
      BY <3>1, KeptSame DEF IInv, CallInv
    <3> QED
      BY <3>2, <3>3
  <2> QED
    BY <2>1, <2>2, <2>3 DEF Restart
<1>5. reported' \subseteq {"REFUSAL", "EVICTION", "SEAL", "LOSS"} /\ delivered' \in {0} \cup Ids
  BY <1>1
<1> QED
  BY <1>1, <1>3, <1>4, <1>5, DownStep

\* The media is damaged while the store is down.
LEMMA DamageStep ==
  ASSUME IInv, ControlInv', pc = "opening", UNCHANGED <<volatile, crashes>>, damage' = damage + 1,
         MediumInv', Present' \subseteq Present, KeptOnMedium'
  PROVE  IInv'
<1>1. /\ pc' = "opening" /\ seq' = seq /\ reported' = reported /\ delivered' = delivered
      /\ crashes' = crashes
  BY DEF volatile
<1>2. ~Running /\ ~Running'
  BY <1>1 DEF Running
<1>3. StructTypes'
  BY <1>1 DEF IInv, WhereInv, StructTypes
<1>4. DownInv'
  <2>1. PICK o \in SequenceNumbers : \A n \in Present : Offset(o, n) < Bound + 0
    BY <1>2 DEF IInv, WhereInv, DownInv
  <2>2. Bound' = Bound + 1 /\ Bound \in Nat
    <3>1. Bound \in Nat
      BY BoundFacts DEF IInv, MediumInv
    <3>2. MaxBlocks \in Int /\ crashes \in Int /\ damage \in Int
      BY MaxBlocksAssumption DEF IInv, MediumInv, MediumTypes
    <3> QED
      BY <1>1, <3>1, <3>2 DEF Bound
  <2>3. ASSUME NEW n \in Present' PROVE Offset(o, n) < Bound' + 0
    <3>1. n \in Present /\ n \in SequenceNumbers
      BY DEF Present
    <3>2. Offset(o, n) \in SequenceNumbers
      BY <3>1, OffsetIs
    <3> QED
      BY <2>1, <2>2, <3>1, <3>2, ModulusAssumption DEF SequenceNumbers
  <2> QED
    BY <1>1, <2>3 DEF DownInv
<1>5. RunInv' /\ PositionInv' /\ CursorInv'
  BY <1>1, <1>2 DEF RunInv, PositionInv, CursorInv
<1>6. OtherTypes' /\ WriteBlockInv' /\ WritingInv' /\ LastReadInv'
  BY <1>1 DEF IInv, CallInv, OtherTypes, WriteBlockInv, WritingInv, LastReadInv, Serving, Writing
<1>7. KeptInv'
  BY <1>2 DEF KeptOnMedium, KeptInv
<1> QED
  BY <1>3, <1>4, <1>5, <1>6, <1>7 DEF IInv, WhereInv, CallInv

LEMMA DamageCounters ==
  ASSUME IInv, damage < MaxDamage, damage' = damage + 1, crashes' = crashes
  PROVE  CountersStep
BY StoreBoundsAssumption DEF CountersStep, IInv, MediumInv, MediumTypes

LEMMA DamageRecordInv ==
  ASSUME IInv, ControlInv', NEW n \in Present, NEW r \in media[n].recs,
         NEW state \in {"DAMAGED", "REJECTED"}, DamageRecord(n, r, state)
  PROVE  IInv'
<1>1. /\ pc = "opening" /\ damage < MaxDamage /\ damage' = damage + 1 /\ UNCHANGED <<volatile, crashes>>
  BY DEF DamageRecord
<1>2. PICK b : b = media[n]
  OBVIOUS
<1>3. PICK b2 : b2 = [b EXCEPT !.recs = (@ \ {r}) \cup {[r EXCEPT !.state = state]}]
  OBVIOUS
<1>4. PICK lost : lost = IF state = "DAMAGED" THEN {q \in b.recs : q.at >= r.at} ELSE {r}
  OBVIOUS
<1>5. media' = With(n, b2) /\ Lose(lost, "ruined")
  BY <1>2, <1>3, <1>4 DEF DamageRecord
<1>6. /\ FateStep
      /\ \A q \in lost : q.id \in Ids => fate'[q.id] # "kept"
      /\ \A id \in Ids : fate'[id] = "kept" => ~ \E q \in lost : q.id = id
  BY <1>5, LoseFate DEF IInv, MediumInv
<1>7. b \in Blocks /\ Tiled(b) /\ n \in SequenceNumbers /\ r \in b.recs
  BY <1>2, PresentFacts DEF IInv, MediumInv, MediaInv
<1>8. \A q \in b.recs : q.id \in Ids /\ q.at \in Nat
  BY <1>7, RecordFacts
<1>9. PICK f : f = RuinedState(b, r, state)
  OBVIOUS
<1>10. /\ IsReflag(b, f, b2)
       /\ \A q \in b.recs : /\ q # r => f[q] = q
                            /\ q = r => f[q].state = state
  BY <1>3, <1>7, <1>9, RuinedStateIs
<1>11. /\ b2 \in Blocks /\ b2.size = b.size /\ \A q \in b.recs : f[q] \in b2.recs
  BY <1>7, <1>10, ReflagIs
<1>12. r \in lost
  BY <1>4, <1>7, <1>8
<1>13. MediumInv'
  <2>1. ASSUME NEW p \in b.recs, NEW q \in b.recs, f[p].state = "DAMAGED", p.at <= q.at
        PROVE  fate'[q.id] # "kept"
    <3>1. CASE p # r
      <4>1. p.state = "DAMAGED"
        BY <1>10, <2>1, <3>1
      <4>2. fate[q.id] # "kept"
        BY <1>2, <2>1, <4>1 DEF IInv, MediumInv, DamageInv
      <4> QED
        BY <1>6, <1>8, <4>2 DEF FateStep
    <3>2. CASE p = r
      <4>1. state = "DAMAGED"
        BY <1>10, <2>1, <3>2
      <4>2. q \in lost
        BY <1>4, <1>8, <2>1, <3>2, <4>1
      <4> QED
        BY <1>6, <1>8, <4>2
    <3> QED
      BY <3>1, <3>2
  <2>2. CountersStep
    BY <1>1, DamageCounters
  <2> QED
    BY <1>2, <1>5, <1>6, <1>10, <2>1, <2>2, MediumReflag DEF IInv
<1>14. /\ Present' = Present \cup {n} /\ media'[n] = b2
       /\ \A m \in SequenceNumbers : m # n => media'[m] = media[m]
  BY <1>5, <1>7, <1>11, PutFacts DEF IInv, MediumInv
<1>15. KeptOnMedium'
  <2> SUFFICES ASSUME NEW id \in Ids, fate'[id] = "kept"
               PROVE  \E m \in Present' : \E q \in media'[m].recs : q.id = id /\ IsSendable(media'[m], q)
    BY DEF KeptOnMedium
  <2>1. fate[id] = "kept"
    BY <1>6 DEF FateStep
  <2>2. PICK m \in Present : \E q \in media[m].recs : q.id = id /\ IsSendable(media[m], q)
    BY <2>1 DEF IInv, CallInv, KeptInv
  <2>3. PICK q \in media[m].recs : q.id = id /\ IsSendable(media[m], q)
    BY <2>2
  <2>4. CASE m # n
    <3>1. media'[m] = media[m]
      BY <1>14, <2>4 DEF Present
    <3> QED
      BY <1>14, <2>3, <3>1
  <2>5. CASE m = n
    <3>1. q \in b.recs /\ q # r
      BY <1>2, <1>6, <1>12, <2>3, <2>5
    <3>2. q \in b2.recs
      BY <1>10, <1>11, <3>1
    <3> QED
      BY <1>2, <1>11, <1>14, <2>3, <2>5, <3>2 DEF IsSendable
  <2> QED
    BY <2>4, <2>5
<1>16. Present' \subseteq Present
  BY <1>14
<1> QED
  BY <1>1, <1>13, <1>15, <1>16, DamageStep

LEMMA RemoveBlockInv == ASSUME IInv, ControlInv', NEW n \in Present, RemoveBlock(n) PROVE IInv'
<1>1. /\ pc = "opening" /\ damage < MaxDamage /\ damage' = damage + 1 /\ UNCHANGED <<volatile, crashes>>
      /\ media' = Without(n)
  BY DEF RemoveBlock
<1>2. PICK lost : lost = media[n].recs
  OBVIOUS
<1>3. /\ FateStep /\ \A id \in Ids : fate'[id] = "kept" => ~ \E q \in lost : q.id = id
  <2>1. Lose(lost, "ruined")
    BY <1>2 DEF RemoveBlock
  <2> QED
    BY <2>1, LoseFate DEF IInv, MediumInv
<1>4. n \in SequenceNumbers
  BY DEF Present
<1>5. CountersStep
  BY <1>1, DamageCounters
<1>6. MediumInv'
  BY <1>1, <1>3, <1>4, <1>5, MediumDrop DEF IInv
<1>7. Present' = Present \ {n} /\ \A m \in SequenceNumbers : m # n => media'[m] = media[m]
  BY <1>1, <1>4, DropFacts DEF IInv, MediumInv
<1>8. KeptOnMedium'
  <2> SUFFICES ASSUME NEW id \in Ids, fate'[id] = "kept"
               PROVE  \E m \in Present' : \E q \in media'[m].recs : q.id = id /\ IsSendable(media'[m], q)
    BY DEF KeptOnMedium
  <2>1. fate[id] = "kept"
    BY <1>3 DEF FateStep
  <2>2. PICK m \in Present : \E q \in media[m].recs : q.id = id /\ IsSendable(media[m], q)
    BY <2>1 DEF IInv, CallInv, KeptInv
  <2>3. m # n
    BY <1>2, <1>3, <2>2
  <2>4. m \in Present' /\ media'[m] = media[m]
    BY <1>7, <2>3 DEF Present
  <2> QED
    BY <2>2, <2>4
<1>9. Present' \subseteq Present
  BY <1>7
<1> QED
  BY <1>1, <1>6, <1>8, <1>9, DamageStep

LEMMA StaleBlockInv == ASSUME IInv, ControlInv', StaleBlock PROVE IInv'
<1>1. PICK next : next = NextSequence(seq.WriteSequence)
  OBVIOUS
<1>2. PICK b : b = [size |-> 1, recs |-> {}]
  OBVIOUS
<1>3. /\ pc = "idle" /\ damage < MaxDamage /\ damage' = damage + 1 /\ next \notin Present
      /\ media' = With(next, b) /\ UNCHANGED <<volatile, fate, crashes>>
  BY <1>1, <1>2 DEF StaleBlock
<1>4. /\ UNCHANGED <<seq, lastRead, reported, pc, writing, readBlockChanged, delivered>>
      /\ fate' = fate /\ crashes' = crashes
  BY <1>3 DEF volatile
<1>5. Running /\ Running'
  BY <1>3, <1>4 DEF Running
<1>6. b \in Blocks /\ b.recs = {}
  BY <1>2, BlockSizeAssumption DEF Blocks
<1>7. BlockCount(seq) <= Bound /\ Bound \in Nat
  <2>1. Bound + 0 = Bound /\ Bound \in Nat
    BY BoundFacts DEF IInv, MediumInv
  <2> QED
    BY <1>3, <1>5, <2>1 DEF IInv, WhereInv, RunInv
<1>8. next \in SequenceNumbers /\ next \notin seq.BlockPresent
  BY <1>1, <1>5, <1>7, NextIsFree DEF IInv
<1>9. FateStep /\ CountersStep
  BY <1>3, <1>4, SameFate, DamageCounters DEF IInv, MediumInv
<1>10. MediumInv'
  BY <1>3, <1>6, <1>8, <1>9, MediumFresh DEF IInv
<1>11. /\ Present' = Present \cup {next} /\ media'[next] = b
       /\ \A m \in SequenceNumbers : m # next => media'[m] = media[m]
  BY <1>3, <1>6, <1>8, PutFacts DEF IInv, MediumInv
<1>12. \A m \in Present : m # next /\ media'[m] = media[m]
  BY <1>3, <1>11 DEF Present
<1>13. seq.ReadSequence \in Present /\ seq.WriteSequence \in Present
  BY <1>5, ReadFacts, RunFacts DEF IInv
<1>14. /\ ReadBlock' = ReadBlock /\ media'[seq.WriteSequence] = media[seq.WriteSequence]
  BY <1>4, <1>12, <1>13 DEF ReadBlock
<1>15. StructTypes'
  BY <1>4 DEF IInv, WhereInv, StructTypes
<1>16. RunInv'
  <2>1. Bound' = Bound + 1
    <3>1. MaxBlocks \in Int /\ crashes \in Int /\ damage \in Int
      BY MaxBlocksAssumption DEF IInv, MediumInv, MediumTypes
    <3> QED
      BY <1>3, <1>4, <3>1 DEF Bound
  <2>2. BlockCount(seq) \in Int
    <3>1. /\ BlockCount(seq) = Offset(seq.OldestSequence, seq.WriteSequence) + 1
          /\ Offset(seq.OldestSequence, seq.WriteSequence) \in 0..Modulus - 1
      BY <1>5, RunFacts DEF IInv
    <3> QED
      BY <3>1, ModulusAssumption
  <2>3. BlockCount(seq) <= Bound' + 0 /\ BlockCount(seq) + 1 <= Bound'
    BY <1>7, <2>1, <2>2
  <2>4. /\ seq.BlockPresent \subseteq Present /\ Present \subseteq seq.BlockPresent \cup {next}
        /\ {seq.OldestSequence, seq.WriteSequence} \subseteq seq.BlockPresent
        /\ IsArc(seq.BlockPresent, seq.OldestSequence, seq.WriteSequence)
    BY <1>1, <1>5 DEF IInv, WhereInv, RunInv
  <2>5. /\ seq.BlockPresent \subseteq Present' /\ Present' \subseteq seq.BlockPresent \cup {next}
    BY <1>11, <2>4
  <2>6. \A n \in Present' \ seq.BlockPresent : media'[n].recs = {}
    BY <1>6, <1>11, <2>5
  <2> QED
    BY <1>1, <1>3, <1>4, <2>3, <2>4, <2>5, <2>6 DEF RunInv
<1>17. DownInv'
  BY <1>5 DEF DownInv
<1>18. PositionInv' /\ CursorInv'
  BY <1>4, <1>5, <1>14 DEF IInv, WhereInv, PositionInv, CursorInv, Running
<1>19. WriteBlockInv'
  BY <1>4, <1>14 DEF IInv, CallInv, WriteBlockInv
<1>20. OtherTypes' /\ WritingInv'
  BY <1>3, <1>4 DEF IInv, CallInv, OtherTypes, WritingInv, Writing
<1>21. LastReadInv'
  BY <1>3, <1>4, <1>14 DEF IInv, CallInv, LastReadInv
<1>22. KeptInv'
  <2> SUFFICES ASSUME NEW i \in Ids, fate[i] = "kept"
               PROVE  \E n \in Present' : \E r \in media'[n].recs :
                        /\ r.id = i /\ IsSendable(media'[n], r)
                        /\ n = seq.ReadSequence => seq.ReadCursor <= r.at
    BY <1>4 DEF KeptInv
  <2>1. PICK n \in Present : \E r \in media[n].recs :
          /\ r.id = i /\ IsSendable(media[n], r) /\ (n = seq.ReadSequence => seq.ReadCursor <= r.at)
    BY <1>5 DEF IInv, CallInv, KeptInv
  <2> QED
    BY <1>11, <1>12, <2>1
<1> QED
  BY <1>10, <1>15, <1>16, <1>17, <1>18, <1>19, <1>20, <1>21, <1>22 DEF IInv, WhereInv, CallInv

-----------------------------------------------------------------------------
(* The invariant holds *)

LEMMA InitInv == ASSUME Room, Init PROVE IInv
<1>1. /\ media = [n \in SequenceNumbers |-> NoBlock] /\ seq = Initialised /\ reported = {}
      /\ pc = "opening" /\ delivered = 0 /\ fate = [id \in Ids |-> "new"] /\ crashes = 0 /\ damage = 0
  BY DEF Init
<1>2. ControlInv
  BY InitControl
<1>3. Present = {} /\ ~Running
  BY <1>1 DEF Present, Running
<1>4. MediumInv
  <2>1. MediumTypes
    BY <1>1, StoreBoundsAssumption DEF MediumTypes, Fates
  <2> QED
    BY <1>3, <2>1 DEF MediumInv, MediaInv, IdsInv, DamageInv
<1>5. StructTypes
  BY <1>1, InitialisedFields, ModulusAssumption, BlockSizeAssumption
     DEF StructTypes, SequenceNumbers, SizeUnknown
<1>6. DownInv
  <2>1. 0 \in SequenceNumbers
    BY ModulusAssumption DEF SequenceNumbers
  <2> QED
    BY <1>3, <2>1 DEF DownInv
<1>7. RunInv /\ PositionInv /\ CursorInv
  BY <1>1, <1>3 DEF RunInv, PositionInv, CursorInv
<1>8. CallInv
  BY <1>1 DEF CallInv, OtherTypes, WriteBlockInv, WritingInv, LastReadInv, KeptInv, Serving, Writing
<1> QED
  BY <1>2, <1>4, <1>5, <1>6, <1>7, <1>8 DEF IInv, WhereInv

LEMMA StutterInv == ASSUME IInv, UNCHANGED vars PROVE IInv'
<1>1. /\ UNCHANGED <<media, seq, lastRead, reported, pc, writing, readBlockChanged, delivered>>
      /\ UNCHANGED <<fate, crashes, damage>>
  BY DEF vars, volatile
<1>2. ControlInv'
  BY NextControl DEF IInv
<1>3. Present' = Present /\ ReadBlock' = ReadBlock /\ Running' = Running /\ Bound' = Bound
  BY <1>1 DEF Present, ReadBlock, Running, Bound
<1>4. MediumInv'
  BY <1>1, <1>3 DEF IInv, MediumInv, MediumTypes, MediaInv, IdsInv, DamageInv
<1>5. WhereInv'
  BY <1>1, <1>3 DEF IInv, WhereInv, StructTypes, RunInv, DownInv, PositionInv, CursorInv
<1>6. CallInv'
  BY <1>1, <1>3 DEF IInv, CallInv, OtherTypes, WriteBlockInv, WritingInv, LastReadInv, KeptInv
<1> QED
  BY <1>2, <1>4, <1>5, <1>6 DEF IInv

LEMMA NextInv == IInv /\ [Next]_vars => IInv'
<1> SUFFICES ASSUME IInv, [Next]_vars PROVE IInv'
  OBVIOUS
<1>1. ControlInv'
  BY NextControl DEF IInv
<1>2. ASSUME NEW ok \in BOOLEAN, Open(ok) \/ DeviceStep(ok) PROVE IInv'
  <2>1. CASE Open(ok)
    BY <2>1, OpenInv
  <2>2. CASE ScanReadBlock(ok)
    BY <2>2, ScanInv
  <2>3. CASE CheckWriteBlock(ok)
    BY <2>3, CheckInv
  <2>4. CASE DisposeStaleBlock(ok)
    BY <1>1, <2>4, DisposeStaleInv
  <2>5. CASE AcquireBlock(ok)
    BY <1>1, <2>5, AcquireInv
  <2>6. CASE DrainAfterRotation(ok)
    BY <1>1, <2>6, DrainAfterRotationInv
  <2>7. CASE EvictAfterRotation(ok)
    BY <1>1, <2>7, EvictInv
  <2>8. CASE \E opens \in BOOLEAN : ReadCurrent(ok, opens)
    BY <2>8, ReadCurrentInv
  <2>9. CASE DrainAfterMark(ok)
    BY <1>1, <2>9, DrainAfterMarkInv
  <2> QED
    BY <1>2, <2>1, <2>2, <2>3, <2>4, <2>5, <2>6, <2>7, <2>8, <2>9 DEF DeviceStep
<1>3. CASE StoreStep
  <2>1. CASE AppendKept
    BY <1>1, <2>1, AppendKeptInv
  <2>2. CASE AppendFails
    BY <1>1, <2>2, AppendFailsInv
  <2>3. CASE SealFails
    BY <1>1, <2>3, SealFailsInv
  <2> QED
    BY <1>2, <1>3, <2>1, <2>2, <2>3 DEF StoreStep
<1>4. CASE \E id \in Ids, bytes \in RecordSizes, policy \in Policies : Write(id, bytes, policy)
  BY <1>1, <1>4, WriteInv
<1>5. CASE ReadNextUnsent
  BY <1>5, ReadNextUnsentInv
<1>6. CASE MarkSent
  BY <1>1, <1>6, MarkSentInv
<1>7. CASE \E flag \in {"UNSENT", "HALF", "SENT"} : MarkSentFails(flag)
  BY <1>1, <1>7, MarkSentFailsInv
<1>8. CASE Restart
  BY <1>1, <1>8, RestartInv
<1>9. CASE StaleBlock
  BY <1>1, <1>9, StaleBlockInv
<1>10. ASSUME NEW n \in Present,
              \/ \E r \in media[n].recs, state \in {"DAMAGED", "REJECTED"} : DamageRecord(n, r, state)
              \/ RemoveBlock(n)
       PROVE  IInv'
  BY <1>1, <1>10, DamageRecordInv, RemoveBlockInv
<1>11. CASE UNCHANGED vars
  BY <1>11, StutterInv
<1> QED
  BY <1>3, <1>4, <1>5, <1>6, <1>7, <1>8, <1>9, <1>10, <1>11 DEF Next

-----------------------------------------------------------------------------
(* What follows *)

\* What the store knows of the device is what the device holds, whatever was
\* written, drained, evicted, interrupted or damaged (struct
\* SolidSyslogBlockSequence against the block device).
THEOREM MapKeptCurrent == ASSUME Room PROVE Spec => []MapFollowsDevice
<1>1. IInv => MapFollowsDevice
  <2> SUFFICES ASSUME IInv PROVE MapFollowsDevice
    OBVIOUS
  <2>1. TypeOK
    BY DEF IInv, WhereInv, CallInv, StructTypes, OtherTypes, LastReadInv, TypeOK, Serving
  <2>2. ASSUME Running
        PROVE  /\ seq.ReadSequence = seq.OldestSequence /\ seq.ReadSequence \in Present
               /\ seq.WriteSequence \in Present
               /\ seq.WritePosition = media[seq.WriteSequence].size
               /\ seq.ReadBlockSize \in {SizeUnknown, ReadBlock.size}
    BY <2>2, ReadFacts, RunFacts DEF IInv, WhereInv, PositionInv
  <2>3. Running => /\ seq.BlockPresent \subseteq Present
                   /\ Present \subseteq seq.BlockPresent \cup {NextSequence(seq.WriteSequence)}
    BY DEF IInv, WhereInv, RunInv
  <2> QED
    BY <2>1, <2>2, <2>3 DEF MapFollowsDevice
<1> QED
  BY <1>1, InitInv, NextInv, PTL DEF Spec

\* No write lands inside a record, and the ceiling is passed only by as many
\* blocks as rotations were interrupted and stale blocks taken over
\* (RotateToNextBlock and CheckWriteBlock).
THEOREM MediumKeptInOrder == ASSUME Room PROVE Spec => []MediumInOrder
<1>1. IInv => MediumInOrder
  <2> SUFFICES ASSUME IInv PROVE MediumInOrder
    OBVIOUS
  <2>1. RecordsApart
    BY DEF IInv, MediumInv, MediaInv, Tiled, RecordsApart
  <2>2. CeilingHeld
    <3>1. Bound + 0 = Bound
      BY BoundFacts DEF IInv, MediumInv
    <3> QED
      BY <3>1 DEF IInv, WhereInv, RunInv, CeilingHeld, Bound
  <2> QED
    BY <2>1, <2>2 DEF MediumInOrder
<1> QED
  BY <1>1, InitInv, NextInv, PTL DEF Spec

\* A record the store kept stays on the media, whole, unmarked and ahead of the
\* read cursor, until it is marked, evicted or ruined: no failed call, power
\* cut or resume loses it.
THEOREM KeptStaysRetained == ASSUME Room PROVE Spec => []KeptIsRetained
<1>1. IInv => KeptIsRetained
  <2> SUFFICES ASSUME IInv, NEW id \in Ids, fate[id] = "kept" PROVE IsRetained(id)
    BY DEF KeptIsRetained
  <2>1. PICK n \in Present : \E r \in media[n].recs :
          /\ r.id = id /\ IsSendable(media[n], r)
          /\ Running /\ n = seq.ReadSequence => seq.ReadCursor <= r.at
    BY DEF IInv, CallInv, KeptInv
  <2>2. PICK r \in media[n].recs :
          /\ r.id = id /\ IsSendable(media[n], r)
          /\ Running /\ n = seq.ReadSequence => seq.ReadCursor <= r.at
    BY <2>1
  <2>3. ASSUME Running PROVE (n - seq.ReadSequence + Modulus) % Modulus < BlockCount(seq)
    <3>1. seq.ReadSequence = seq.OldestSequence
      BY <2>3, ReadFacts DEF IInv
    <3>2. n \in seq.BlockPresent
      BY <2>2, <2>3 DEF IInv, WhereInv, RunInv
    <3>3. /\ BlockCount(seq) = Offset(seq.OldestSequence, seq.WriteSequence) + 1
          /\ Offset(seq.OldestSequence, seq.WriteSequence) \in 0..Modulus - 1
          /\ seq.OldestSequence \in SequenceNumbers
      BY <2>3, RunFacts DEF IInv
    <3>4. Offset(seq.OldestSequence, n) <= Offset(seq.OldestSequence, seq.WriteSequence)
      BY <2>3, <3>2 DEF IInv, WhereInv, RunInv, IsArc
    <3>5. Offset(seq.OldestSequence, n) \in SequenceNumbers
      <4>1. PICK o \in SequenceNumbers : o = seq.OldestSequence
        BY <3>3
      <4>2. n \in SequenceNumbers
        BY DEF Present
      <4> QED
        BY <4>1, <4>2, OffsetIs
    <3>6. Offset(seq.OldestSequence, n) < BlockCount(seq)
      BY <3>3, <3>4, <3>5, ModulusAssumption DEF SequenceNumbers
    <3> QED
      BY <3>1, <3>6 DEF Offset
  <2> QED
    BY <2>2, <2>3 DEF IsRetained, IsSendable
<1> QED
  BY <1>1, InitInv, NextInv, PTL DEF Spec

\* The mark goes to the record that was handed out, whatever was written,
\* evicted or disposed of since (LastReadBlockIndex and ForgetLastRead of
\* SolidSyslogBlockStore.c).
THEOREM MarkIsForDelivered == ASSUME Room PROVE Spec => []MarksWhatWasDelivered
<1>1. IInv => MarksWhatWasDelivered
  BY DEF IInv, CallInv, LastReadInv, MarksWhatWasDelivered
<1> QED
  BY <1>1, InitInv, NextInv, PTL DEF Spec

-----------------------------------------------------------------------------
(* The holes that lost blocks leave in the run *)

\* The numbers in an arc that no block has.
Holes(P, o, len) == {n \in SequenceNumbers : Offset(o, n) < len /\ n \notin P}

\* The blocks lie in the arc, with at most so many holes, and the arc and its
\* holes together are no more than most.
Spans(P, o, len, lost, most) ==
  /\ \A n \in P : Offset(o, n) < len
  /\ Cardinality(Holes(P, o, len)) <= lost
  /\ len + Cardinality(Holes(P, o, len)) <= most

LEMMA HolesAreFinite ==
  ASSUME NEW P, NEW o, NEW len
  PROVE  IsFiniteSet(Holes(P, o, len)) /\ Cardinality(Holes(P, o, len)) \in Nat
<1>1. IsFiniteSet(SequenceNumbers)
  BY FS_Interval, ModulusAssumption DEF SequenceNumbers
<1>2. Holes(P, o, len) \in SUBSET SequenceNumbers
  BY DEF Holes
<1>3. IsFiniteSet(Holes(P, o, len))
  BY <1>1, <1>2, FS_Subset
<1> QED
  BY <1>3, FS_CardinalityType

\* An arc with no other holes.
LEMMA SpansWithin ==
  ASSUME NEW P, NEW o, NEW len \in Int, NEW lost \in Int, NEW most \in Int, Spans(P, o, len, lost, most),
         NEW P2, NEW m, NEW len2 \in Int, NEW lost2 \in Int, NEW most2 \in Int,
         \A n \in P2 : Offset(m, n) < len2, Holes(P2, m, len2) \subseteq Holes(P, o, len),
         lost <= lost2, len2 + (most - len) <= most2
  PROVE  Spans(P2, m, len2, lost2, most2)
<1>1. PICK h, g : h = Holes(P, o, len) /\ g = Holes(P2, m, len2)
  OBVIOUS
<1>2. IsFiniteSet(h) /\ Cardinality(h) \in Nat /\ Cardinality(g) \in Nat
  BY <1>1, HolesAreFinite
<1>3. Cardinality(g) <= Cardinality(h)
  BY <1>1, <1>2, FS_Subset
<1>4. Cardinality(h) <= lost /\ len + Cardinality(h) <= most
  BY <1>1 DEF Spans
<1>5. Cardinality(g) <= lost2 /\ len2 + Cardinality(g) <= most2
  BY <1>2, <1>3, <1>4
<1> QED
  BY <1>1, <1>5 DEF Spans

\* A block lost is one hole more.
LEMMA SpansWithout ==
  ASSUME NEW P, NEW o, NEW len \in Int, NEW lost \in Int, NEW most \in Int, Spans(P, o, len, lost, most),
         NEW x
  PROVE  Spans(P \ {x}, o, len, lost + 1, most + 1)
<1>1. PICK h, g : h = Holes(P, o, len) /\ g = Holes(P \ {x}, o, len)
  OBVIOUS
<1>2. IsFiniteSet(h) /\ Cardinality(h) \in Nat /\ Cardinality(g) \in Nat
  BY <1>1, HolesAreFinite
<1>3. IsFiniteSet(h \cup {x}) /\ Cardinality(h \cup {x}) <= Cardinality(h) + 1 /\ Cardinality(h \cup {x}) \in Nat
  BY <1>2, FS_AddElement
<1>4. g \in SUBSET (h \cup {x})
  BY <1>1 DEF Holes
<1>5. Cardinality(g) <= Cardinality(h \cup {x})
  BY <1>3, <1>4, FS_Subset
<1>6. Cardinality(h) <= lost /\ len + Cardinality(h) <= most
  BY <1>1 DEF Spans
<1>7. Cardinality(g) <= lost + 1 /\ len + Cardinality(g) <= most + 1
  BY <1>2, <1>3, <1>5, <1>6
<1> QED
  BY <1>1, <1>7 DEF Spans

\* A gap inside the arc is made of holes: there are never enough of them for one
\* as long as the gap behind the arc.  So an arc no longer begins at its first block.
LEMMA OneBeginning ==
  ASSUME NEW P \in SUBSET SequenceNumbers, NEW o \in SequenceNumbers, NEW len \in Nat, NEW lost \in Int,
         NEW most \in Int, Spans(P, o, len, lost, most), most < Modulus,
         NEW m \in P, NEW w \in P, IsArc(P, m, w), Offset(m, w) < len,
         NEW n \in P
  PROVE  Offset(o, m) <= Offset(o, n)
<1>1. m \in SequenceNumbers /\ w \in SequenceNumbers /\ n \in SequenceNumbers
  OBVIOUS
<1>2. PICK r, e, x, y : r = Offset(m, w) /\ e = Offset(m, n) /\ x = Offset(o, n) /\ y = Offset(o, m)
  OBVIOUS
<1>3. /\ r = IF w >= m THEN w - m ELSE w - m + Modulus
      /\ e = IF n >= m THEN n - m ELSE n - m + Modulus
      /\ x = IF n >= o THEN n - o ELSE n - o + Modulus
      /\ y = IF m >= o THEN m - o ELSE m - o + Modulus
  BY <1>1, <1>2, OffsetIs
<1>4. /\ r \in 0..Modulus - 1 /\ e \in 0..Modulus - 1 /\ x \in 0..Modulus - 1 /\ y \in 0..Modulus - 1
      /\ o \in 0..Modulus - 1 /\ m \in 0..Modulus - 1 /\ w \in 0..Modulus - 1 /\ n \in 0..Modulus - 1
      /\ Modulus \in Nat
  BY <1>1, <1>2, OffsetIs, ModulusAssumption DEF SequenceNumbers
<1>5. e <= r /\ y < len /\ r < len
  BY <1>2 DEF IsArc, Spans
<1> SUFFICES ASSUME x < y PROVE FALSE
  BY <1>2, <1>4
<1>6. e = Modulus - (y - x)
  BY <1>3, <1>4
<1>7. PICK g : g = Modulus - 1 - r
  OBVIOUS
<1>8. g \in 0..Modulus
  BY <1>4, <1>7
<1> DEFINE f == [i \in 1..g |-> (w + i) % Modulus]
<1>9. ASSUME NEW i \in 1..g
      PROVE  /\ f[i] = IF w + i < Modulus THEN w + i ELSE w + i - Modulus
             /\ f[i] \in Holes(P, o, len)
  <2>1. PICK z : z = (w + i) % Modulus
    OBVIOUS
  <2>2. i \in 0..Modulus
    BY <1>8, ModulusAssumption
  <2>3. z = (IF w + i < Modulus THEN w + i ELSE w + i - Modulus) /\ z \in SequenceNumbers
    BY <1>1, <2>1, <2>2, StepIs
  <2>4. /\ Offset(m, z) = IF z >= m THEN z - m ELSE z - m + Modulus
        /\ Offset(o, z) = IF z >= o THEN z - o ELSE z - o + Modulus
    BY <1>1, <2>3, OffsetIs
  <2>5. PICK a, b : a = Offset(m, z) /\ b = Offset(o, z)
    OBVIOUS
  <2>6. z \in 0..Modulus - 1 /\ i \in 1..Modulus - 1 - r
    BY <1>7, <2>3 DEF SequenceNumbers
  <2>7. a = r + i
    BY <1>3, <1>4, <2>3, <2>4, <2>5, <2>6
  <2>8. b = y + a - Modulus
    <3>1. y + a >= Modulus /\ a < Modulus
      BY <1>4, <1>5, <1>6, <2>6, <2>7
    <3>2. a = (IF z >= m THEN z - m ELSE z - m + Modulus) /\ b = IF z >= o THEN z - o ELSE z - o + Modulus
      BY <2>4, <2>5
    <3>3. y = IF m >= o THEN m - o ELSE m - o + Modulus
      BY <1>3
    <3> QED
      BY <1>4, <2>6, <3>1, <3>2, <3>3
  <2>9. ~(a <= r) /\ b < len
    BY <1>4, <1>5, <2>6, <2>7, <2>8
  <2>10. z \notin P
    BY <1>2, <2>5, <2>9 DEF IsArc
  <2>11. z \in Holes(P, o, len)
    BY <2>3, <2>5, <2>9, <2>10 DEF Holes
  <2> QED
    BY <2>1, <2>3, <2>11
<1>10. f \in Injection(1..g, Holes(P, o, len))
  <2>1. f \in [1..g -> Holes(P, o, len)]
    BY <1>9
  <2>2. ASSUME NEW i \in 1..g, NEW j \in 1..g, f[i] = f[j] PROVE i = j
    <3>1. /\ f[i] = IF w + i < Modulus THEN w + i ELSE w + i - Modulus
          /\ f[j] = IF w + j < Modulus THEN w + j ELSE w + j - Modulus
      BY <1>9
    <3>2. i \in 1..Modulus - 1 /\ j \in 1..Modulus - 1
      BY <1>4, <1>7, <1>8
    <3>3. PICK u : u = f[i] /\ u = f[j]
      BY <2>2
    <3>4. /\ u = IF w + i < Modulus THEN w + i ELSE w + i - Modulus
          /\ u = IF w + j < Modulus THEN w + j ELSE w + j - Modulus
      BY <3>1, <3>3
    <3> HIDE DEF f
    <3> QED
      BY <1>4, <3>2, <3>4
  <2> QED
    BY <2>1, <2>2 DEF Injection, IsInjective
<1>11. PICK h : h = Holes(P, o, len)
  OBVIOUS
<1>12. IsFiniteSet(h) /\ Cardinality(h) \in Nat
  BY <1>11, HolesAreFinite
<1>13. Cardinality(1..g) <= Cardinality(h)
  <2> HIDE DEF f
  <2> QED
    BY <1>10, <1>11, <1>12, FS_Injection
<1>14. Cardinality(1..g) = g
  BY <1>8, FS_Interval
<1>15. len + Cardinality(h) <= most
  BY <1>11 DEF Spans
<1> QED
  BY <1>4, <1>5, <1>7, <1>12, <1>13, <1>14, <1>15

\* The run found by a resume has no other holes either.
LEMMA SpansFound ==
  ASSUME NEW P \in SUBSET SequenceNumbers, NEW o \in SequenceNumbers, NEW len \in Nat, NEW lost \in Int,
         NEW most \in Int, Spans(P, o, len, lost, most), most < Modulus,
         NEW m \in P, NEW w \in P, IsArc(P, m, w), NEW r, r = Offset(m, w), r < len
  PROVE  Spans(P, m, r + 1, lost, most)
<1>1. m \in SequenceNumbers /\ w \in SequenceNumbers
  OBVIOUS
<1>2. r \in 0..Modulus - 1
  BY <1>1, OffsetIs DEF SequenceNumbers
<1>3. ASSUME NEW n \in P PROVE Offset(m, n) < r + 1
  <2>1. Offset(m, n) <= r /\ Offset(m, n) \in 0..Modulus - 1
    BY <1>1, OffsetIs DEF IsArc, SequenceNumbers
  <2> QED
    BY <1>2, <2>1
<1>4. Holes(P, m, r + 1) \subseteq Holes(P, o, len)
  <2> SUFFICES ASSUME NEW n \in SequenceNumbers, Offset(m, n) < r + 1, n \notin P
               PROVE  Offset(o, n) < len
    BY DEF Holes
  <2>1. PICK e, x, y, z : e = Offset(m, n) /\ x = Offset(o, n) /\ y = Offset(o, m) /\ z = Offset(o, w)
    OBVIOUS
  <2>2. /\ r = IF w >= m THEN w - m ELSE w - m + Modulus
        /\ e = IF n >= m THEN n - m ELSE n - m + Modulus
        /\ x = IF n >= o THEN n - o ELSE n - o + Modulus
        /\ y = IF m >= o THEN m - o ELSE m - o + Modulus
        /\ z = IF w >= o THEN w - o ELSE w - o + Modulus
    BY <1>1, <2>1, OffsetIs
  <2>3. /\ o \in 0..Modulus - 1 /\ m \in 0..Modulus - 1 /\ w \in 0..Modulus - 1 /\ n \in 0..Modulus - 1
        /\ Modulus \in Nat
    BY <1>1, ModulusAssumption DEF SequenceNumbers
  <2>4. y <= z
    BY <2>1, OneBeginning
  <2>5. z < len
    BY <2>1 DEF Spans
  <2>6. e < r + 1
    BY <2>1
  <2>7. r = z - y
    BY <2>2, <2>3, <2>4
  <2>8. x = y + e
    BY <1>2, <2>2, <2>3, <2>6, <2>7
  <2>9. x <= z
    BY <1>2, <2>2, <2>3, <2>6, <2>7, <2>8
  <2> QED
    BY <2>1, <2>2, <2>3, <2>5, <2>9
<1> QED
  BY <1>2, <1>3, <1>4, SpansWithin

\* A block right behind the arc makes it one longer.
LEMMA SpansNext ==
  ASSUME NEW P \in SUBSET SequenceNumbers, NEW o \in SequenceNumbers, NEW len \in Nat, NEW lost \in Int,
         NEW most \in Int, Spans(P, o, len, lost, most), NEW x \in SequenceNumbers, Offset(o, x) = len
  PROVE  Spans(P \cup {x}, o, len + 1, lost, most + 1)
<1>1. ASSUME NEW n \in P \cup {x} PROVE Offset(o, n) < len + 1
  <2>1. n \in SequenceNumbers
    OBVIOUS
  <2>2. Offset(o, n) \in 0..Modulus - 1 /\ (Offset(o, n) < len \/ Offset(o, n) = len)
    BY <2>1, OffsetIs DEF SequenceNumbers, Spans
  <2> QED
    BY <2>2
<1>2. Holes(P \cup {x}, o, len + 1) \subseteq Holes(P, o, len)
  <2> SUFFICES ASSUME NEW n \in SequenceNumbers, Offset(o, n) < len + 1, n \notin P, n # x
               PROVE  Offset(o, n) < len
    BY DEF Holes
  <2>1. (o + Offset(o, n)) % Modulus = n /\ (o + Offset(o, x)) % Modulus = x
    BY OffsetStep
  <2>2. Offset(o, n) # len
    BY <2>1
  <2>3. Offset(o, n) \in 0..Modulus - 1
    BY OffsetIs DEF SequenceNumbers
  <2> QED
    BY <2>2, <2>3
<1>3. PICK P2, len2, most2 : P2 = P \cup {x} /\ len2 = len + 1 /\ most2 = most + 1
  OBVIOUS
<1>4. len \in Int /\ len2 \in Int /\ most2 \in Int /\ lost <= lost /\ len2 + (most - len) <= most2
  BY <1>3
<1>5. (\A n \in P2 : Offset(o, n) < len2) /\ Holes(P2, o, len2) \subseteq Holes(P, o, len)
  BY <1>1, <1>2, <1>3
<1>6. Spans(P2, o, len2, lost, most2)
  BY <1>4, <1>5, SpansWithin
<1> QED
  BY <1>3, <1>6

\* The same arc, and more allowed.
LEMMA SpansAlso ==
  ASSUME NEW P, NEW o, NEW len \in Int, NEW lost \in Int, NEW most \in Int, Spans(P, o, len, lost, most),
         NEW lost2 \in Int, NEW most2 \in Int, lost <= lost2, most <= most2 \/ len + lost <= most2
  PROVE  Spans(P, o, len, lost2, most2)
<1>1. Cardinality(Holes(P, o, len)) \in Nat
  BY HolesAreFinite
<1> QED
  BY <1>1 DEF Spans

\* The oldest block goes, and the arc begins at the next.
LEMMA SpansAfter ==
  ASSUME NEW P \in SUBSET SequenceNumbers, NEW o \in SequenceNumbers, NEW w \in SequenceNumbers, NEW r, r = Offset(o, w),
         NEW lost \in Int, NEW most \in Int, Spans(P, o, r + 1, lost, most), IsArc(P, o, w),
         NEW m \in P \ {o}, IsArc(P \ {o}, m, w), NEW s, s = Offset(m, w)
  PROVE  Spans(P \ {o}, m, s + 1, lost, most - 1)
<1>1. m \in SequenceNumbers /\ m # o
  OBVIOUS
<1>2. PICK y : y = Offset(o, m)
  OBVIOUS
<1>3. /\ r = IF w >= o THEN w - o ELSE w - o + Modulus
      /\ s = IF w >= m THEN w - m ELSE w - m + Modulus
      /\ y = IF m >= o THEN m - o ELSE m - o + Modulus
  BY <1>1, <1>2, OffsetIs
<1>4. o \in 0..Modulus - 1 /\ m \in 0..Modulus - 1 /\ w \in 0..Modulus - 1 /\ Modulus \in Nat
  BY <1>1, ModulusAssumption DEF SequenceNumbers
<1>5. y <= r
  BY <1>2 DEF IsArc
<1>6. s = r - y /\ y \in 1..r /\ r \in 0..Modulus - 1 /\ s \in 0..Modulus - 1
  BY <1>1, <1>3, <1>4, <1>5
<1>7. ASSUME NEW n \in P \ {o} PROVE Offset(m, n) < s + 1
  <2>1. Offset(m, n) <= s /\ Offset(m, n) \in 0..Modulus - 1
    BY <1>1, OffsetIs DEF IsArc, SequenceNumbers
  <2> QED
    BY <1>6, <2>1
<1>8. Holes(P \ {o}, m, s + 1) \subseteq Holes(P, o, r + 1)
  <2> SUFFICES ASSUME NEW n \in SequenceNumbers, Offset(m, n) < s + 1, n \notin P \ {o}
               PROVE  Offset(o, n) < r + 1 /\ n \notin P
    BY DEF Holes
  <2>1. PICK e, x : e = Offset(m, n) /\ x = Offset(o, n)
    OBVIOUS
  <2>2. /\ e = IF n >= m THEN n - m ELSE n - m + Modulus
        /\ x = IF n >= o THEN n - o ELSE n - o + Modulus
    BY <1>1, <2>1, OffsetIs
  <2>3. n \in 0..Modulus - 1 /\ e < s + 1
    BY <2>1 DEF SequenceNumbers
  <2>4. x = y + e
    BY <1>3, <1>4, <1>6, <2>2, <2>3
  <2>5. x < r + 1 /\ x # 0
    BY <1>4, <1>6, <2>2, <2>3, <2>4
  <2>6. n # o
    BY <1>4, <2>2, <2>5
  <2> QED
    BY <2>1, <2>5, <2>6
<1>9. r + 1 \in Int /\ s + 1 \in Int /\ most - 1 \in Int /\ lost <= lost /\ s + 1 + (most - (r + 1)) <= most - 1
  BY <1>6
<1> QED
  BY <1>7, <1>8, <1>9, SpansWithin

-----------------------------------------------------------------------------
(* Oldest first *)

\* Record by record along the run from o, the ids go up.
InOrder(med, present, o) ==
  \A n, m \in present : \A r \in med[n].recs, q \in med[m].recs :
    Offset(o, n) < Offset(o, m) \/ (n = m /\ r.at < q.at) => r.id < q.id

\* A block may be over the ceiling between the rotation and the eviction.
Over(step) == IF step \in {"draining", "evicting"} THEN 1 ELSE 0
Frozen(step) == IF step = "frozen" THEN 1 ELSE 0

\* While the store is down its blocks lie in order in an arc with few holes.
OrderInv ==
  /\ Running => InOrder(media, Present, seq.OldestSequence)
  /\ ~Running => \E o \in SequenceNumbers, len \in Nat :
       InOrder(media, Present, o) /\ Spans(Present, o, len, damage, Bound + Frozen(pc))

\* While it runs they are the run, and a block in its way makes it no longer.
SpanInv == Running =>
  /\ Spans(seq.BlockPresent, seq.OldestSequence, BlockCount(seq), damage, Bound + Over(pc))
  /\ Present # seq.BlockPresent =>
       Spans(seq.BlockPresent, seq.OldestSequence, BlockCount(seq), damage, Bound - 1)

\* Records are offered in the order of their ids.
NewInv == \A i, j \in Ids : i < j /\ fate[i] = "new" => fate[j] = "new"

\* The record being written is newer than all there are.
NewestInv ==
  pc \in Writing => /\ \A n \in Present : \A r \in media[n].recs : r.id < writing.id
                    /\ delivered < writing.id

SentInv == \A n \in Present : \A r \in media[n].recs : fate[r.id] = "sent" => r.flag = "SENT"

DeliveredInv == delivered # 0 => fate[delivered] # "new"

FirstInv == OrderInv /\ SpanInv /\ NewInv /\ NewestInv /\ SentInv /\ DeliveredInv /\ OldestFirst

\* Every record there is was there before, at its place...
Came(med, present, med2, present2) ==
  \A n \in present2 : \A q \in med2[n].recs : n \in present /\ \E r \in med[n].recs : r.id = q.id /\ r.at = q.at
\* ...and with its flag.
SameFlags(med, present, med2, present2) ==
  \A n \in present2 : \A q \in med2[n].recs : n \in present /\ \E r \in med[n].recs : r.id = q.id /\ r.flag = q.flag

LEMMA OrderCame ==
  ASSUME NEW med, NEW present, NEW med2, NEW present2, NEW o,
         InOrder(med, present, o), Came(med, present, med2, present2)
  PROVE  InOrder(med2, present2, o)
<1> SUFFICES ASSUME NEW n \in present2, NEW m \in present2, NEW r \in med2[n].recs, NEW q \in med2[m].recs,
                    Offset(o, n) < Offset(o, m) \/ (n = m /\ r.at < q.at)
             PROVE  r.id < q.id
  BY DEF InOrder
<1>1. n \in present /\ m \in present
  BY DEF Came
<1>2. PICK r1 \in med[n].recs : r1.id = r.id /\ r1.at = r.at
  BY DEF Came
<1>3. PICK q1 \in med[m].recs : q1.id = q.id /\ q1.at = q.at
  BY DEF Came
<1>4. r1.id < q1.id
  BY <1>1, <1>2, <1>3 DEF InOrder
<1> QED
  BY <1>2, <1>3, <1>4

\* The order is the same from any number that lies before every record.
LEMMA OrderFrom ==
  ASSUME NEW med, NEW present \in SUBSET SequenceNumbers, NEW o \in SequenceNumbers, NEW m \in SequenceNumbers,
         InOrder(med, present, o),
         \A n \in present : med[n].recs # {} => Offset(o, m) <= Offset(o, n)
  PROVE  InOrder(med, present, m)
<1> SUFFICES ASSUME NEW n \in present, NEW k \in present, NEW r \in med[n].recs, NEW q \in med[k].recs,
                    Offset(m, n) < Offset(m, k) \/ (n = k /\ r.at < q.at)
             PROVE  r.id < q.id
  BY DEF InOrder
<1>1. n \in SequenceNumbers /\ k \in SequenceNumbers
  OBVIOUS
<1>2. Offset(o, m) <= Offset(o, n) /\ Offset(o, m) <= Offset(o, k)
  OBVIOUS
<1>3. Offset(m, n) = Offset(o, n) - Offset(o, m) /\ Offset(m, k) = Offset(o, k) - Offset(o, m)
  BY <1>1, <1>2, OffsetFrom
<1>4. Offset(o, n) \in Int /\ Offset(o, k) \in Int /\ Offset(o, m) \in Int
  BY <1>1, OffsetIs, ModulusAssumption DEF SequenceNumbers
<1>5. Offset(o, n) < Offset(o, k) \/ (n = k /\ r.at < q.at)
  BY <1>3, <1>4
<1> QED
  BY <1>5 DEF InOrder

\* A record newer than all others goes to the end of the last block.
LEMMA OrderAppend ==
  ASSUME NEW med, NEW present \in SUBSET SequenceNumbers, NEW o \in SequenceNumbers, NEW w \in present,
         InOrder(med, present, o),
         \A n \in present : med[n] \in Blocks,
         \A n \in present : med[n].recs # {} => Offset(o, n) <= Offset(o, w),
         \A r \in med[w].recs : r.at < med[w].size,
         NEW q, q.at = med[w].size, q.id \in Nat,
         \A n \in present : \A r \in med[n].recs : r.id < q.id,
         NEW med2, \A n \in present : n # w => med2[n] = med[n], IsAppend(med[w], q, med2[w])
  PROVE  InOrder(med2, present, o)
<1> SUFFICES ASSUME NEW n \in present, NEW m \in present, NEW r \in med2[n].recs, NEW p \in med2[m].recs,
                    Offset(o, n) < Offset(o, m) \/ (n = m /\ r.at < p.at)
             PROVE  r.id < p.id
  BY DEF InOrder
<1>1. r \in med[n].recs \/ (n = w /\ r = q)
  BY DEF IsAppend
<1>2. p \in med[m].recs \/ (m = w /\ p = q)
  BY DEF IsAppend
<1>3. CASE r \in med[n].recs /\ p \in med[m].recs
  BY <1>3 DEF InOrder
<1>4. CASE r \in med[n].recs /\ p = q
  BY <1>4
<1>5. med[w].size \in Int
  BY RecordFacts
<1>6. CASE n = w /\ r = q /\ p \in med[m].recs
  <2>1. Offset(o, m) <= Offset(o, w)
    BY <1>6
  <2>2. Offset(o, m) \in Int /\ Offset(o, w) \in Int
    BY OffsetIs, ModulusAssumption DEF SequenceNumbers
  <2>3. m = w /\ med[w].size < p.at
    BY <1>6, <2>1, <2>2
  <2>4. p.at \in Int /\ p.at < med[w].size
    BY <1>6, <2>3, RecordFacts
  <2> QED
    BY <1>5, <2>3, <2>4
<1>7. CASE n = w /\ r = q /\ m = w /\ p = q
  <2>1. Offset(o, w) \in Int
    BY OffsetIs, ModulusAssumption DEF SequenceNumbers
  <2> QED
    BY <1>5, <1>7, <2>1
<1> QED
  BY <1>1, <1>2, <1>3, <1>4, <1>6, <1>7

\* Where no block joins the run, or the run keeps its beginning.
Forward ==
  \/ seq'.OldestSequence = seq.OldestSequence
  \/ seq'.WriteSequence = seq.WriteSequence /\ seq'.BlockPresent \subseteq seq.BlockPresent

LEMMA OrderRuns ==
  ASSUME IInv, IInv', OrderInv, Running, Running', Forward, Came(media, Present, media', Present')
  PROVE  OrderInv'
<1>1. PICK o : o = seq.OldestSequence
  OBVIOUS
<1>2. PICK m : m = seq'.OldestSequence
  OBVIOUS
<1>3. InOrder(media', Present', o)
  BY <1>1, OrderCame DEF OrderInv
<1>4. o \in SequenceNumbers /\ m \in SequenceNumbers
  BY <1>1, <1>2 DEF IInv, WhereInv, StructTypes
<1>5. InOrder(media', Present', m)
  <2>1. CASE m = o
    BY <1>3, <2>1
  <2>2. CASE m # o
    <3>1. PICK w : w = seq.WriteSequence
      OBVIOUS
    <3>2. seq'.WriteSequence = w /\ seq'.BlockPresent \subseteq seq.BlockPresent
      BY <1>1, <1>2, <2>2, <3>1 DEF Forward
    <3>3. /\ IsArc(seq.BlockPresent, o, w) /\ IsArc(seq'.BlockPresent, m, w)
          /\ m \in seq'.BlockPresent /\ w \in SequenceNumbers
      BY <1>1, <1>2, <3>1, <3>2 DEF IInv, WhereInv, RunInv, StructTypes
    <3>4. ASSUME NEW n \in Present', media'[n].recs # {} PROVE Offset(o, m) <= Offset(o, n)
      <4>1. n \in seq'.BlockPresent /\ n \in SequenceNumbers
        BY <3>4 DEF IInv, WhereInv, RunInv, StructTypes
      <4>2. Offset(o, m) <= Offset(o, w) /\ Offset(o, n) <= Offset(o, w) /\ Offset(m, n) <= Offset(m, w)
        BY <3>2, <3>3, <4>1 DEF IsArc
      <4>3. /\ Offset(o, m) = IF m >= o THEN m - o ELSE m - o + Modulus
            /\ Offset(o, n) = IF n >= o THEN n - o ELSE n - o + Modulus
            /\ Offset(o, w) = IF w >= o THEN w - o ELSE w - o + Modulus
            /\ Offset(m, n) = IF n >= m THEN n - m ELSE n - m + Modulus
            /\ Offset(m, w) = IF w >= m THEN w - m ELSE w - m + Modulus
        BY <1>4, <3>3, <4>1, OffsetIs
      <4> QED
        BY <1>4, <3>3, <4>1, <4>2, <4>3, ModulusAssumption DEF SequenceNumbers
    <3>5. Present' \in SUBSET SequenceNumbers
      BY DEF Present
    <3>6. PICK present : present = Present'
      OBVIOUS
    <3>7. PICK med : med = media'
      OBVIOUS
    <3>8. InOrder(med, present, m)
      BY <1>3, <1>4, <3>4, <3>5, <3>6, <3>7, OrderFrom
    <3> QED
      BY <3>6, <3>7, <3>8
  <2> QED
    BY <2>1, <2>2
<1> QED
  BY <1>2, <1>5 DEF OrderInv

LEMMA SameBound == ASSUME crashes' = crashes, damage' = damage PROVE Bound' = Bound
BY DEF Bound

LEMMA SpanTypes ==
  ASSUME MediumTypes
  PROVE  Bound \in Nat /\ Bound < Modulus /\ damage \in Nat /\ MaxBlocks + damage <= Bound
<1>1. MaxBlocks \in Nat /\ crashes \in Nat /\ damage \in Nat
  BY MaxBlocksAssumption, ModulusAssumption, StoreBoundsAssumption DEF MediumTypes
<1>2. MaxBlocks + damage <= MaxBlocks + crashes + damage
  BY <1>1
<1>3. Bound \in 2..Modulus - 1
  BY BoundFacts
<1> QED
  BY <1>1, <1>2, <1>3, ModulusAssumption DEF Bound

\* The blocks of a running store, the one in its way included.
LEMMA SpanOf ==
  ASSUME IInv, SpanInv, Running
  PROVE  \E len \in Nat : Spans(Present, seq.OldestSequence, len, damage, Bound + 1)
<1>1. PICK P, o, k, d, b : P = seq.BlockPresent /\ o = seq.OldestSequence /\ k = BlockCount(seq)
                             /\ d = damage /\ b = Bound
  OBVIOUS
<1>2. b \in Nat /\ d \in Nat
  BY <1>1, SpanTypes DEF IInv, MediumInv
<1>3. P \in SUBSET SequenceNumbers /\ o \in SequenceNumbers /\ k \in Nat
  <2>1. k = Offset(o, seq.WriteSequence) + 1 /\ Offset(o, seq.WriteSequence) \in 0..Modulus - 1
    BY <1>1, RunFacts DEF IInv
  <2> QED
    BY <1>1, <2>1 DEF IInv, WhereInv, StructTypes
<1>4. CASE Present = P
  <2>1. PICK most \in Int : most = b + Over(pc) /\ most <= b + 1
    BY <1>2 DEF Over
  <2>2. Spans(P, o, k, d, most)
    BY <1>1, <2>1 DEF SpanInv
  <2>3. Spans(P, o, k, d, b + 1)
    BY <1>2, <1>3, <2>1, <2>2, SpansAlso
  <2> QED
    BY <1>1, <1>3, <1>4, <2>3
<1>5. CASE Present # P
  <2>1. PICK x : x = NextSequence(seq.WriteSequence)
    OBVIOUS
  <2>2. P \subseteq Present /\ Present \subseteq P \cup {x} /\ \A n \in Present \ P : k + 1 <= b
    BY <1>1, <2>1 DEF IInv, WhereInv, RunInv
  <2>3. Present = P \cup {x} /\ k + 1 <= b
    BY <1>5, <2>2
  <2>4. k <= b
    BY <1>2, <1>3, <2>3
  <2>5. x \in SequenceNumbers /\ Offset(o, x) = k
    BY <1>1, <2>1, <2>4, NextIsFree DEF IInv
  <2>6. Spans(P, o, k, d, b - 1)
    BY <1>1, <1>5 DEF SpanInv
  <2>7. PICK most \in Int : most = b - 1
    BY <1>2
  <2>8. Spans(P \cup {x}, o, k + 1, d, most + 1)
    BY <1>2, <1>3, <2>5, <2>6, <2>7, SpansNext
  <2>9. PICK P2, len : P2 = P \cup {x} /\ len = k + 1
    OBVIOUS
  <2>10. len \in Nat /\ most + 1 \in Int /\ b + 1 \in Int /\ most + 1 <= b + 1
    BY <1>2, <1>3, <2>7, <2>9
  <2>11. Spans(P2, o, len, d, b + 1)
    BY <1>2, <2>8, <2>9, <2>10, SpansAlso
  <2> QED
    BY <1>1, <2>3, <2>9, <2>10, <2>11
<1> QED
  BY <1>4, <1>5

\* Whatever the store is doing, the records lie in order in an arc with few holes.
LEMMA OrderOf ==
  ASSUME IInv, OrderInv, SpanInv
  PROVE  \E o \in SequenceNumbers, len \in Nat :
           InOrder(media, Present, o) /\ Spans(Present, o, len, damage, Bound + 1)
<1>1. CASE Running
  <2>1. PICK o \in SequenceNumbers : o = seq.OldestSequence
    BY <1>1, RunFacts DEF IInv
  <2>2. PICK len \in Nat : Spans(Present, o, len, damage, Bound + 1)
    BY <1>1, <2>1, SpanOf
  <2> QED
    BY <1>1, <2>1, <2>2 DEF OrderInv
<1>2. CASE ~Running
  <2>1. PICK o \in SequenceNumbers, len \in Nat :
          InOrder(media, Present, o) /\ Spans(Present, o, len, damage, Bound + Frozen(pc))
    BY <1>2 DEF OrderInv
  <2>2. PICK P, d, b : P = Present /\ d = damage /\ b = Bound
    OBVIOUS
  <2>3. b \in Nat /\ d \in Nat
    BY <2>2, SpanTypes DEF IInv, MediumInv
  <2>4. PICK most \in Int : most = b + Frozen(pc) /\ most <= b + 1
    BY <2>3 DEF Frozen
  <2>5. Spans(P, o, len, d, b + 1)
    BY <2>1, <2>2, <2>3, <2>4, SpansAlso
  <2> QED
    BY <2>1, <2>2, <2>5
<1> QED
  BY <1>1, <1>2

\* A step that stops the store, or happens while it is down.
GoesDown ==
  \/ pc' = "frozen" /\ Bound' = Bound /\ damage' = damage
  \/ pc' = "opening" /\ Bound' = Bound + 1 /\ damage' \in {damage, damage + 1}

LEMMA SpanDown ==
  ASSUME IInv, GoesDown, NEW o \in SequenceNumbers, NEW len \in Nat,
         Spans(Present, o, len, damage, Bound + 1), Present' = Present
  PROVE  Spans(Present', o, len, damage', Bound' + Frozen(pc')) /\ ~Running' /\ SpanInv'
<1>1. PICK P, d, b, d2, b2 : P = Present /\ d = damage /\ b = Bound /\ d2 = damage' /\ b2 = Bound' + Frozen(pc')
  OBVIOUS
<1>2. b \in Nat /\ d \in Nat
  BY <1>1, SpanTypes DEF IInv, MediumInv
<1>3. b2 = b + 1 /\ d2 \in {d, d + 1}
  BY <1>1, <1>2 DEF GoesDown, Frozen
<1>4. b2 \in Int /\ d2 \in Int /\ d <= d2 /\ b + 1 <= b2
  BY <1>2, <1>3
<1>5. Spans(P, o, len, d2, b2)
  BY <1>1, <1>2, <1>4, SpansAlso
<1>6. ~Running'
  BY DEF GoesDown, Running
<1> QED
  BY <1>1, <1>5, <1>6 DEF SpanInv

LEMMA OrderDown ==
  ASSUME IInv, OrderInv, SpanInv, GoesDown, Present' = Present, Came(media, Present, media', Present')
  PROVE  OrderInv' /\ SpanInv'
<1>1. PICK o \in SequenceNumbers, len \in Nat :
        InOrder(media, Present, o) /\ Spans(Present, o, len, damage, Bound + 1)
  BY OrderOf
<1>2. InOrder(media', Present', o)
  BY <1>1, OrderCame
<1>3. Spans(Present', o, len, damage', Bound' + Frozen(pc')) /\ ~Running' /\ SpanInv'
  BY <1>1, SpanDown
<1> QED
  BY <1>2, <1>3 DEF OrderInv

\* A block lost while the store is down leaves a hole.
LEMMA OrderLoses ==
  ASSUME IInv, OrderInv, pc = "opening", pc' = "opening", damage' = damage + 1, Bound' = Bound + 1,
         NEW n, Present' = Present \ {n}, Came(media, Present, media', Present')
  PROVE  OrderInv' /\ SpanInv'
<1>1. PICK o \in SequenceNumbers, len \in Nat :
        InOrder(media, Present, o) /\ Spans(Present, o, len, damage, Bound + Frozen(pc))
  BY DEF OrderInv, Running
<1>2. InOrder(media', Present', o)
  BY <1>1, OrderCame
<1>3. PICK P, d, b : P = Present /\ d = damage /\ b = Bound
  OBVIOUS
<1>4. b \in Nat /\ d \in Nat
  BY <1>3, SpanTypes DEF IInv, MediumInv
<1>5. Bound + Frozen(pc) = b /\ Bound' + Frozen(pc') = b + 1
  BY <1>3, <1>4 DEF Frozen
<1>6. Spans(P, o, len, d, b)
  BY <1>1, <1>3, <1>5
<1>7. Spans(P \ {n}, o, len, d + 1, b + 1)
  BY <1>4, <1>6, SpansWithout
<1>8. ~Running'
  BY DEF Running
<1> QED
  BY <1>2, <1>3, <1>5, <1>7, <1>8 DEF OrderInv, SpanInv

\* The start of the store: the run it finds begins where the records do.
LEMMA OrderOpens ==
  ASSUME IInv, OrderInv, pc = "opening", pc' = "scanning", Present # {}, media' = media,
         crashes' = crashes, damage' = damage, NEW run, run = LocateRunBoundaries(Present),
         seq'.BlockPresent = Present, seq'.OldestSequence = run.oldest, seq'.WriteSequence = run.newest
  PROVE  OrderInv' /\ SpanInv'
<1>1. PICK P, d, b, med, m, w : P = Present /\ d = damage /\ b = Bound /\ med = media
                                  /\ m = run.oldest /\ w = run.newest
  OBVIOUS
<1>2. b \in Nat /\ d \in Nat /\ b < Modulus
  BY <1>1, SpanTypes DEF IInv, MediumInv
<1>3. P \in SUBSET SequenceNumbers /\ P # {} /\ Present' = P
  BY <1>1 DEF Present
<1>4. Bound + Frozen(pc) = b /\ Bound' + Over(pc') = b /\ damage' = d /\ media' = med
  BY <1>1, <1>2, SameBound DEF Frozen, Over
<1>5. PICK o \in SequenceNumbers, len \in Nat : InOrder(med, P, o) /\ Spans(P, o, len, d, b)
  <2>1. PICK o \in SequenceNumbers, len \in Nat :
          InOrder(media, Present, o) /\ Spans(Present, o, len, damage, Bound + Frozen(pc))
    BY DEF OrderInv, Running
  <2> QED
    BY <1>1, <1>4, <2>1
<1>6. (\A n \in P : Offset(o, n) < len) /\ len <= b
  <2>1. Cardinality(Holes(P, o, len)) \in Nat
    BY HolesAreFinite
  <2>2. (\A n \in P : Offset(o, n) < len) /\ len + Cardinality(Holes(P, o, len)) <= b
    BY <1>5 DEF Spans
  <2> QED
    BY <1>2, <2>1, <2>2
<1>7. len \in 1..Modulus - 1
  <2>1. PICK n \in P : n \in SequenceNumbers
    BY <1>3
  <2>2. Offset(o, n) \in 0..Modulus - 1 /\ Offset(o, n) < len
    BY <1>6, <2>1, OffsetIs DEF SequenceNumbers
  <2> QED
    BY <1>2, <1>6, <2>2, ModulusAssumption
<1>8. m \in P /\ w \in P /\ IsArc(P, m, w) /\ Offset(m, w) < len
  BY <1>1, <1>3, <1>6, <1>7, LocateIs
<1>9. \A n \in P : Offset(o, m) <= Offset(o, n)
  BY <1>2, <1>3, <1>5, <1>8, OneBeginning
<1>10. InOrder(med, P, m)
  BY <1>3, <1>5, <1>8, <1>9, OrderFrom
<1>11. PICK r : r = Offset(m, w)
  OBVIOUS
<1>12. Spans(P, m, r + 1, d, b)
  BY <1>2, <1>3, <1>5, <1>8, <1>11, SpansFound
<1>13. BlockCount(seq') = r + 1
  BY <1>1, <1>11, BlockCountIs
<1>14. Running'
  BY DEF Running
<1>15. OrderInv'
  BY <1>1, <1>3, <1>4, <1>10, <1>14 DEF OrderInv
<1>16. SpanInv'
  BY <1>1, <1>3, <1>4, <1>12, <1>13 DEF SpanInv
<1> QED
  BY <1>15, <1>16

\* Where the run is the same...
KeepsRoom == Over(pc') < Over(pc) => BlockCount(seq) <= MaxBlocks

LEMMA SpanSame ==
  ASSUME IInv, IInv', SpanInv, Running, Running', SameRun(seq, seq'), Present' \subseteq Present, KeepsRoom,
         crashes' = crashes, damage' = damage
  PROVE  SpanInv'
<1>1. PICK P, o, k, d, b : P = seq.BlockPresent /\ o = seq.OldestSequence /\ k = BlockCount(seq)
                             /\ d = damage /\ b = Bound
  OBVIOUS
<1>2. b \in Nat /\ d \in Nat /\ MaxBlocks + d <= b /\ MaxBlocks \in Nat
  BY <1>1, SpanTypes, MaxBlocksAssumption, ModulusAssumption DEF IInv, MediumInv
<1>3. k \in Nat
  <2>1. k = Offset(o, seq.WriteSequence) + 1 /\ Offset(o, seq.WriteSequence) \in 0..Modulus - 1
    BY <1>1, RunFacts DEF IInv
  <2> QED
    BY <2>1
<1>4. /\ seq'.BlockPresent = P /\ seq'.OldestSequence = o /\ BlockCount(seq') = k
      /\ damage' = d /\ Bound' = b
  BY <1>1, SameBound DEF SameRun, BlockCount
<1>5. PICK most, most2 : most = b + Over(pc) /\ most2 = b + Over(pc')
  OBVIOUS
<1>6. most \in Int /\ most2 \in Int /\ (most <= most2 \/ k + d <= most2)
  <2>1. Over(pc) \in 0..1 /\ Over(pc') \in 0..1
    BY DEF Over
  <2>2. Over(pc') < Over(pc) => k <= MaxBlocks
    BY <1>1 DEF KeepsRoom
  <2> QED
    BY <1>2, <1>3, <1>5, <2>1, <2>2
<1>7. Spans(P, o, k, d, most)
  BY <1>1, <1>5 DEF SpanInv
<1>8. Spans(P, o, k, d, most2)
  BY <1>2, <1>3, <1>6, <1>7, SpansAlso
<1>9. ASSUME Present' # P PROVE Spans(P, o, k, d, b - 1)
  <2>1. P \subseteq Present'
    BY <1>4 DEF IInv, WhereInv, RunInv
  <2>2. Present # P
    BY <1>9, <2>1
  <2> QED
    BY <1>1, <2>2 DEF SpanInv
<1> QED
  BY <1>4, <1>5, <1>8, <1>9 DEF SpanInv

\* ...where its oldest block goes...
LeavesOldest ==
  /\ seq'.BlockPresent = seq.BlockPresent \ {seq.OldestSequence}
  /\ seq'.WriteSequence = seq.WriteSequence

LEMMA SpanDrops ==
  ASSUME IInv, IInv', SpanInv, Running, Running', LeavesOldest, media' = Without(seq.OldestSequence),
         crashes' = crashes, damage' = damage
  PROVE  SpanInv'
<1>1. PICK P, o, w, m, d, b : P = seq.BlockPresent /\ o = seq.OldestSequence /\ w = seq.WriteSequence
                                /\ m = seq'.OldestSequence /\ d = damage /\ b = Bound
  OBVIOUS
<1>2. b \in Nat /\ d \in Nat
  BY <1>1, SpanTypes DEF IInv, MediumInv
<1>3. PICK r, s : r = Offset(o, w) /\ s = Offset(m, w)
  OBVIOUS
<1>4. /\ seq'.BlockPresent = P \ {o} /\ seq'.WriteSequence = w /\ damage' = d /\ Bound' = b
      /\ BlockCount(seq') = s + 1 /\ BlockCount(seq) = r + 1
  BY <1>1, <1>3, SameBound, BlockCountIs DEF LeavesOldest
<1>5. /\ P \in SUBSET SequenceNumbers /\ o \in SequenceNumbers /\ w \in SequenceNumbers /\ m \in P \ {o}
      /\ IsArc(P, o, w) /\ IsArc(P \ {o}, m, w)
  BY <1>1, <1>4 DEF IInv, WhereInv, RunInv, StructTypes
<1>6. r \in 0..Modulus - 1 /\ s \in 0..Modulus - 1
  BY <1>3, <1>5, OffsetIs DEF SequenceNumbers
<1>7. ASSUME NEW most \in Int, Spans(P, o, r + 1, d, most), NEW most2 \in Int, most - 1 <= most2
      PROVE  Spans(P \ {o}, m, s + 1, d, most2)
  <2>1. Spans(P \ {o}, m, s + 1, d, most - 1)
    BY <1>2, <1>3, <1>5, <1>7, SpansAfter
  <2>2. PICK P2, len : P2 = P \ {o} /\ len = s + 1
    OBVIOUS
  <2>3. len \in Int /\ most - 1 \in Int /\ d <= d
    BY <1>2, <1>6, <2>2
  <2>4. Spans(P2, m, len, d, most2)
    BY <1>2, <1>7, <2>1, <2>2, <2>3, SpansAlso
  <2> QED
    BY <2>2, <2>4
<1>8. Spans(P \ {o}, m, s + 1, d, b + Over(pc'))
  <2>1. PICK most, most2 : most = b + Over(pc) /\ most2 = b + Over(pc')
    OBVIOUS
  <2>2. most \in Int /\ most2 \in Int /\ most - 1 <= most2
    BY <1>2, <2>1 DEF Over
  <2>3. Spans(P, o, r + 1, d, most)
    BY <1>1, <1>4, <2>1 DEF SpanInv
  <2> QED
    BY <1>7, <2>1, <2>2, <2>3
<1>9. ASSUME Present' # P \ {o} PROVE Spans(P \ {o}, m, s + 1, d, b - 1)
  <2>1. Present' = Present \ {o}
    BY <1>1, <1>5, DropFacts DEF IInv, MediumInv
  <2>2. Spans(P, o, r + 1, d, b - 1)
    BY <1>1, <1>4, <1>9, <2>1 DEF SpanInv
  <2>3. PICK most : most = b - 1
    OBVIOUS
  <2>4. most \in Int /\ most - 1 <= most
    BY <1>2, <2>3
  <2> QED
    BY <1>7, <2>2, <2>3, <2>4
<1> QED
  BY <1>1, <1>4, <1>8, <1>9 DEF SpanInv

\* ...where a block joins it...
LEMMA SpanRotates ==
  ASSUME IInv, IInv', SpanInv, pc = "rotating", pc' = "draining", NEW x, x = NextSequence(seq.WriteSequence),
         x \notin Present, Present' = Present \cup {x}, IsRotation(seq, x, seq'),
         crashes' = crashes, damage' = damage
  PROVE  SpanInv'
<1>1. PICK P, o, k, d, b : P = seq.BlockPresent /\ o = seq.OldestSequence /\ k = BlockCount(seq)
                             /\ d = damage /\ b = Bound
  OBVIOUS
<1>2. Running /\ Running'
  BY DEF Running
<1>3. b \in Nat /\ d \in Nat
  BY <1>1, SpanTypes DEF IInv, MediumInv
<1>4. P \in SUBSET SequenceNumbers /\ o \in SequenceNumbers /\ k \in Nat
  <2>1. k = Offset(o, seq.WriteSequence) + 1 /\ Offset(o, seq.WriteSequence) \in 0..Modulus - 1
    BY <1>1, <1>2, RunFacts DEF IInv
  <2> QED
    BY <1>1, <2>1 DEF IInv, WhereInv, StructTypes
<1>5. k <= b
  <2>1. k <= b + 0
    BY <1>1, <1>2 DEF IInv, WhereInv, RunInv
  <2> QED
    BY <1>3, <1>4, <2>1
<1>6. x \in SequenceNumbers /\ Offset(o, x) = k
  BY <1>1, <1>2, <1>5, NextIsFree DEF IInv
<1>7. Spans(P, o, k, d, b)
  <2>1. b + Over(pc) = b
    BY <1>3 DEF Over
  <2> QED
    BY <1>1, <1>2, <2>1 DEF SpanInv
<1>8. Spans(P \cup {x}, o, k + 1, d, b + 1)
  BY <1>3, <1>4, <1>6, <1>7, SpansNext
<1>9. /\ seq'.BlockPresent = P \cup {x} /\ seq'.OldestSequence = o /\ BlockCount(seq') = k + 1
      /\ damage' = d /\ Bound' + Over(pc') = b + 1
  <2>1. seq'.WriteSequence = x /\ seq'.OldestSequence = o /\ seq'.BlockPresent = P \cup {x}
    BY <1>1 DEF IsRotation
  <2> QED
    BY <1>1, <1>6, <2>1, SameBound, BlockCountIs DEF Over
<1>10. Present' = P \cup {x}
  BY <1>1, <1>2 DEF IInv, WhereInv, RunInv
<1> QED
  BY <1>8, <1>9, <1>10 DEF SpanInv

\* ...and where a block appears in its way.
LEMMA SpanStale ==
  ASSUME IInv, SpanInv, pc = "idle", pc' = "idle", seq' = seq, crashes' = crashes, damage' = damage + 1
  PROVE  SpanInv'
<1>1. PICK P, o, k, d, b : P = seq.BlockPresent /\ o = seq.OldestSequence /\ k = BlockCount(seq)
                             /\ d = damage /\ b = Bound
  OBVIOUS
<1>2. Running
  BY DEF Running
<1>3. b \in Nat /\ d \in Nat
  BY <1>1, SpanTypes DEF IInv, MediumInv
<1>4. k \in Nat
  <2>1. k = Offset(o, seq.WriteSequence) + 1 /\ Offset(o, seq.WriteSequence) \in 0..Modulus - 1
    BY <1>1, <1>2, RunFacts DEF IInv
  <2> QED
    BY <2>1
<1>5. Bound' = b + 1 /\ damage' = d + 1
  <2>1. MaxBlocks \in Int /\ crashes \in Int /\ damage \in Int
    BY MaxBlocksAssumption DEF IInv, MediumInv, MediumTypes
  <2> QED
    BY <1>1, <2>1 DEF Bound
<1>6. b + Over(pc) = b /\ b + 1 + Over(pc') = b + 1 /\ b + 1 - 1 = b
  BY <1>3 DEF Over
<1>7. Spans(P, o, k, d, b)
  BY <1>1, <1>2, <1>6 DEF SpanInv
<1>8. PICK d2, b2 : d2 = d + 1 /\ b2 = b + 1
  OBVIOUS
<1>9. d2 \in Int /\ b2 \in Int /\ d <= d2 /\ b <= b2 /\ b <= b
  BY <1>3, <1>8
<1>10. Spans(P, o, k, d2, b2) /\ Spans(P, o, k, d2, b)
  BY <1>3, <1>4, <1>7, <1>9, SpansAlso
<1>11. seq'.BlockPresent = P /\ seq'.OldestSequence = o /\ BlockCount(seq') = k
  BY <1>1
<1>12. damage' = d2 /\ Bound' + Over(pc') = b2 /\ Bound' - 1 = b
  BY <1>3, <1>5, <1>8 DEF Over
<1> QED
  BY <1>10, <1>11, <1>12 DEF SpanInv

\* No record is offered, kept or sent.
FatesAlike ==
  \A id \in Ids : /\ fate'[id] = "new" <=> fate[id] = "new"
                  /\ fate'[id] = "kept" => fate[id] = "kept"
                  /\ fate'[id] = "sent" <=> fate[id] = "sent"

\* A step that changes no record but by taking it away.
Quiet ==
  /\ FatesAlike /\ Came(media, Present, media', Present') /\ SameFlags(media, Present, media', Present')
  /\ delivered' \in {0, delivered}
  /\ pc' \in Writing => pc \in Writing /\ writing' = writing

LEMMA QuietRest ==
  ASSUME IInv, FirstInv, Quiet
  PROVE  NewInv' /\ NewestInv' /\ SentInv' /\ DeliveredInv' /\ OldestFirst'
<1>1. delivered \in {0} \cup Ids
  BY DEF IInv, CallInv, LastReadInv
<1>2. NewInv'
  BY DEF FirstInv, NewInv, Quiet, FatesAlike
<1>3. NewestInv'
  <2> SUFFICES ASSUME pc' \in Writing
               PROVE  /\ \A n \in Present' : \A r \in media'[n].recs : r.id < writing'.id
                      /\ delivered' < writing'.id
    BY DEF NewestInv
  <2>1. pc \in Writing /\ writing' = writing
    BY DEF Quiet
  <2>2. \A n \in Present' : \A r \in media'[n].recs : r.id < writing'.id
    BY <2>1 DEF FirstInv, NewestInv, Quiet, Came
  <2>3. delivered' < writing'.id
    <3>1. writing.id \in Ids
      BY <2>1 DEF IInv, CallInv, WritingInv
    <3>2. delivered < writing.id /\ 0 < writing.id
      BY <2>1, <3>1, StoreBoundsAssumption DEF FirstInv, NewestInv, Ids
    <3> QED
      BY <2>1, <3>2 DEF Quiet
  <2> QED
    BY <2>2, <2>3
<1>4. SentInv'
  <2> SUFFICES ASSUME NEW n \in Present', NEW q \in media'[n].recs, fate'[q.id] = "sent" PROVE q.flag = "SENT"
    BY DEF SentInv
  <2>1. n \in Present
    BY DEF Quiet, SameFlags
  <2>2. PICK r \in media[n].recs : r.id = q.id /\ r.flag = q.flag
    BY DEF Quiet, SameFlags
  <2>3. r.id \in Ids
    BY <2>1, PresentFacts, RecordFacts DEF IInv, MediumInv
  <2> QED
    BY <2>1, <2>2, <2>3 DEF FirstInv, SentInv, Quiet, FatesAlike
<1>5. DeliveredInv' /\ OldestFirst'
  <2>1. CASE delivered' = 0
    BY <2>1 DEF DeliveredInv, OldestFirst
  <2>2. CASE delivered' = delivered /\ delivered # 0
    <3>1. delivered \in Ids /\ \A i \in 1..delivered - 1 : i \in Ids
      BY <1>1, <2>2, StoreBoundsAssumption DEF Ids
    <3> QED
      BY <2>2, <3>1 DEF FirstInv, DeliveredInv, OldestFirst, Quiet, FatesAlike
  <2> QED
    BY <2>1, <2>2 DEF Quiet
<1> QED
  BY <1>2, <1>3, <1>4, <1>5

LEMMA QuietInv ==
  ASSUME IInv, IInv', FirstInv, Quiet,
         \/ Running /\ Running' /\ Forward /\ SpanInv'
         \/ GoesDown /\ Present' = Present
  PROVE  FirstInv'
<1>1. NewInv' /\ NewestInv' /\ SentInv' /\ DeliveredInv' /\ OldestFirst'
  BY QuietRest
<1>2. OrderInv' /\ SpanInv'
  BY OrderRuns, OrderDown DEF FirstInv, Quiet
<1> QED
  BY <1>1, <1>2 DEF FirstInv

\* What the steps do to the media.
LEMMA CameSame ==
  ASSUME media' = media
  PROVE  /\ Came(media, Present, media', Present') /\ SameFlags(media, Present, media', Present')
         /\ Present' = Present
BY DEF Came, SameFlags, Present

LEMMA CameDrop ==
  ASSUME IInv, NEW n \in SequenceNumbers, media' = Without(n)
  PROVE  /\ Came(media, Present, media', Present') /\ SameFlags(media, Present, media', Present')
         /\ Present' \subseteq Present
<1>1. Present' = Present \ {n} /\ \A m \in SequenceNumbers : m # n => media'[m] = media[m]
  BY DropFacts DEF IInv, MediumInv
<1>2. \A m \in Present' : m \in Present /\ media'[m] = media[m]
  BY <1>1 DEF Present
<1> QED
  BY <1>1, <1>2 DEF Came, SameFlags

LEMMA CameFresh ==
  ASSUME IInv, NEW n \in SequenceNumbers, NEW b \in Blocks, b.recs = {}, media' = With(n, b)
  PROVE  Came(media, Present, media', Present') /\ SameFlags(media, Present, media', Present')
<1>1. /\ Present' = Present \cup {n} /\ media'[n] = b
      /\ \A m \in SequenceNumbers : m # n => media'[m] = media[m]
  BY PutFacts DEF IInv, MediumInv
<1>2. \A m \in Present' : media'[m].recs = {} \/ (m \in Present /\ media'[m] = media[m])
  BY <1>1 DEF Present
<1> QED
  BY <1>2 DEF Came, SameFlags

LEMMA SameFates == ASSUME fate' = fate PROVE FatesAlike
BY DEF FatesAlike

\* A step that leaves the media alone.
LEMMA HereFirst ==
  ASSUME IInv, IInv', FirstInv, media' = media, FatesAlike, crashes' = crashes, damage' = damage,
         delivered' \in {0, delivered}, pc' \in Writing => pc \in Writing /\ writing' = writing,
         \/ Running /\ Running' /\ SameRun(seq, seq') /\ KeepsRoom
         \/ pc' = "frozen"
  PROVE  FirstInv'
<1>1. Quiet /\ Present' = Present
  BY CameSame DEF Quiet
<1>2. CASE Running /\ Running' /\ SameRun(seq, seq') /\ KeepsRoom
  <2>1. SpanInv' /\ Forward
    BY <1>1, <1>2, SpanSame DEF FirstInv, Forward, SameRun
  <2> QED
    BY <1>1, <1>2, <2>1, QuietInv
<1>3. CASE pc' = "frozen"
  <2>1. GoesDown
    BY <1>3, SameBound DEF GoesDown
  <2> QED
    BY <1>1, <2>1, QuietInv
<1> QED
  BY <1>2, <1>3

\* A step that disposes of the oldest block.
LEMMA DropFirst ==
  ASSUME IInv, IInv', FirstInv, media' = Without(seq.OldestSequence), FatesAlike, LeavesOldest,
         crashes' = crashes, damage' = damage,
         delivered' \in {0, delivered}, pc' \in Writing => pc \in Writing /\ writing' = writing,
         Running, Running'
  PROVE  FirstInv'
<1>1. PICK n \in SequenceNumbers : n = seq.OldestSequence
  BY RunFacts DEF IInv
<1>2. Came(media, Present, media', Present') /\ SameFlags(media, Present, media', Present')
  BY <1>1, CameDrop
<1>3. Quiet
  BY <1>2 DEF Quiet
<1>4. SpanInv' /\ Forward
  BY SpanDrops DEF FirstInv, Forward, LeavesOldest
<1> QED
  BY <1>3, <1>4, QuietInv

LEMMA DisposeLeaves ==
  ASSUME NEW s, IsStruct(s), SameRun(seq, s), s.ReadSequence = s.OldestSequence, seq' = DisposeReadBlock(s)
  PROVE  LeavesOldest
<1>1. seq'.BlockPresent = s.BlockPresent \ {s.OldestSequence} /\ seq'.WriteSequence = s.WriteSequence
  BY DisposeReadBlockFields
<1> QED
  BY <1>1 DEF LeavesOldest, SameRun

LEMMA LeaveFirst ==
  ASSUME IInv, IInv', FirstInv, NEW s, ReadMoves(seq, s), NEW ok \in BOOLEAN, LeaveReadBlock(s, ok),
         Running, pc' \notin Writing, ok => Running', ~ok => pc' = "frozen",
         fate' = fate, crashes' = crashes, damage' = damage, delivered' = delivered
  PROVE  FirstInv'
<1>1. /\ IsStruct(s) /\ SameRun(seq, s) /\ s.ReadSequence = s.OldestSequence
      /\ s.ReadSequence \in SequenceNumbers
  BY DEF ReadMoves, SameRun, IInv, ControlInv, WhereInv, StructTypes
<1>2. FatesAlike
  BY SameFates
<1>3. CASE ok
  <2>1. media' = Without(seq.OldestSequence) /\ seq' = DisposeReadBlock(s)
    BY <1>1, <1>3 DEF LeaveReadBlock, SameRun
  <2>2. LeavesOldest
    BY <1>1, <2>1, DisposeLeaves
  <2> QED
    BY <1>2, <1>3, <2>1, <2>2, DropFirst
<1>4. CASE ~ok
  <2>1. media' = media
    BY <1>4 DEF LeaveReadBlock
  <2> QED
    BY <1>2, <1>4, <2>1, HereFirst
<1> QED
  BY <1>3, <1>4

LEMMA AbandonFirst ==
  ASSUME IInv, IInv', FirstInv, NEW s, ReadMoves(seq, s), NEW ok \in BOOLEAN,
         NEW onward \in Level \ Writing, NEW done \in Level \ Writing,
         AbandonRestOfReadBlock(s, ok, onward, done), Running, KeepsRoom,
         fate' = fate, crashes' = crashes, damage' = damage, delivered' = delivered
  PROVE  FirstInv'
<1>1. CASE LeaveReadBlock(s, ok) /\ pc' = (IF ok THEN onward ELSE "frozen")
  <2>1. pc' \notin Writing /\ (ok => Running') /\ (~ok => pc' = "frozen")
    BY <1>1 DEF Running, Level, Writing
  <2> QED
    BY <1>1, <2>1, LeaveFirst
<1>2. CASE /\ seq' = [s EXCEPT !.ReadCursor = s.WritePosition, !.WriteBlockCorrupt = TRUE]
           /\ pc' = done /\ media' = media
  <2>1. SameRun(s, seq')
    BY <1>2 DEF ReadMoves, IsStruct, SameRun
  <2>2. SameRun(seq, seq')
    BY <2>1 DEF ReadMoves, SameRun
  <2>3. Running' /\ pc' \notin Writing /\ FatesAlike
    BY <1>2, SameFates DEF Running, Level
  <2> QED
    BY <1>2, <2>2, <2>3, HereFirst
<1> QED
  BY <1>1, <1>2 DEF AbandonRestOfReadBlock

LEMMA OpenFirst ==
  ASSUME IInv, IInv', FirstInv, NEW ok \in BOOLEAN, Open(ok)
  PROVE  FirstInv'
<1>1. /\ pc = "opening" /\ pc' = (IF ok THEN "scanning" ELSE "frozen")
      /\ UNCHANGED <<writing, delivered, fate, crashes, damage>>
  BY DEF Open
<1>2. FatesAlike /\ Bound' = Bound /\ pc' \notin Writing
  BY <1>1, SameFates, SameBound DEF Writing
<1>3. CASE ~ok
  <2>1. media' = media
    BY <1>3 DEF Open
  <2> QED
    BY <1>1, <1>2, <1>3, <2>1, HereFirst
<1>4. CASE ok /\ Present # {}
  <2>1. media' = media /\ pc' = "scanning"
    BY <1>1, <1>4 DEF Open
  <2>2. PICK run : run = LocateRunBoundaries(Present)
    OBVIOUS
  <2>3. seq'.BlockPresent = Present /\ seq'.OldestSequence = run.oldest /\ seq'.WriteSequence = run.newest
    BY <1>4, <2>2, OpenFinds DEF IInv
  <2>4. OrderInv' /\ SpanInv'
    BY <1>1, <1>4, <2>1, <2>2, <2>3, OrderOpens DEF FirstInv
  <2>5. Quiet
    BY <1>1, <1>2, <2>1, CameSame DEF Quiet
  <2> QED
    BY <2>4, <2>5, QuietRest DEF FirstInv
<1>5. CASE ok /\ Present = {}
  <2>1. media' = With(0, EmptyBlock) /\ pc' = "scanning" /\ Running'
    BY <1>1, <1>5 DEF Open, Running
  <2>2. 0 \in SequenceNumbers
    BY ModulusAssumption DEF SequenceNumbers
  <2>3. Came(media, Present, media', Present') /\ SameFlags(media, Present, media', Present')
    BY <2>1, <2>2, EmptyBlockIs, CameFresh
  <2>4. OrderInv'
    <3>1. \A n \in Present' : media'[n].recs = {}
      BY <1>5, <2>3 DEF Came
    <3> QED
      BY <2>1, <3>1 DEF OrderInv, InOrder
  <2>5. SpanInv'
    <3>1. seq'.BlockPresent = Present' /\ seq'.OldestSequence = 0 /\ seq'.WriteSequence = 0 /\ Present' = {0}
      BY <1>5, OpenStarts DEF IInv
    <3>2. Offset(0, 0) = 0
      BY <2>2, OffsetIs
    <3>3. BlockCount(seq') = 1
      BY <3>1, <3>2, BlockCountIs
    <3>4. PICK d, b : d = damage /\ b = Bound
      OBVIOUS
    <3>5. d \in Nat /\ b \in Nat /\ 1 <= b
      <4>1. Bound \in 2..Modulus - 1
        BY BoundFacts DEF IInv, MediumInv
      <4> QED
        BY <3>4, <4>1, SpanTypes, ModulusAssumption DEF IInv, MediumInv
    <3>6. Holes({0}, 0, 1) = {}
      <4> SUFFICES ASSUME NEW n \in SequenceNumbers, Offset(0, n) < 1 PROVE n = 0
        BY DEF Holes
      <4>1. Offset(0, n) = IF n >= 0 THEN n - 0 ELSE n - 0 + Modulus
        BY <2>2, OffsetIs
      <4> QED
        BY <4>1, ModulusAssumption DEF SequenceNumbers
    <3>7. Cardinality(Holes({0}, 0, 1)) = 0
      BY <3>6, FS_EmptySet
    <3>8. Spans({0}, 0, 1, d, b)
      BY <3>2, <3>5, <3>7 DEF Spans
    <3>9. damage' = d /\ Bound' + Over(pc') = b
      BY <1>1, <1>2, <2>1, <3>4, <3>5 DEF Over
    <3> QED
      BY <3>1, <3>3, <3>8, <3>9 DEF SpanInv
  <2>6. Quiet
    BY <1>1, <1>2, <2>3 DEF Quiet
  <2> QED
    BY <2>4, <2>5, <2>6, QuietRest DEF FirstInv
<1> QED
  BY <1>3, <1>4, <1>5

LEMMA ScanFirst == ASSUME IInv, IInv', FirstInv, NEW ok \in BOOLEAN, ScanReadBlock(ok) PROVE FirstInv'
<1>1. PICK sized : sized = WithReadBlockSize(seq, ReadBlock.size)
  OBVIOUS
<1>2. PICK found : found = FindFirstUnsent(ReadBlock, ReadBlockSize(sized))
  OBVIOUS
<1>3. PICK s : s = [sized EXCEPT !.ReadCursor = found.cursor]
  OBVIOUS
<1>4. ReadMoves(seq, sized)
  BY <1>1, SizedMoves DEF IInv
<1>5. ReadMoves(seq, s)
  <2>1. ReadMoves(sized, s)
    BY <1>3, <1>4, CursorFields DEF ReadMoves, SameWrite
  <2> QED
    BY <1>4, <2>1 DEF ReadMoves, SameRun, SameLatches
<1>6. /\ pc = "scanning" /\ UNCHANGED <<fate, crashes, damage, delivered>>
      /\ \/ DeviceFails
         \/ seq' = s /\ pc' = "checking" /\ media' = media
         \/ AbandonRestOfReadBlock(s, ok, "scanning", "checking")
  BY <1>1, <1>2, <1>3 DEF ScanReadBlock, DeviceFails
<1>7. Running /\ FatesAlike /\ KeepsRoom
  BY <1>6, SameFates DEF Running, KeepsRoom, Over
<1>8. CASE DeviceFails
  BY <1>6, <1>7, <1>8, HereFirst DEF DeviceFails, Writing
<1>9. CASE seq' = s /\ pc' = "checking" /\ media' = media
  <2>1. Running' /\ pc' \notin Writing /\ SameRun(seq, seq')
    BY <1>5, <1>9 DEF Running, Writing, ReadMoves
  <2> QED
    BY <1>6, <1>7, <1>9, <2>1, HereFirst
<1>10. CASE AbandonRestOfReadBlock(s, ok, "scanning", "checking")
  BY <1>5, <1>6, <1>7, <1>10, AbandonFirst DEF Level, Writing
<1> QED
  BY <1>6, <1>8, <1>9, <1>10

LEMMA CheckFirst == ASSUME IInv, IInv', FirstInv, NEW ok \in BOOLEAN, CheckWriteBlock(ok) PROVE FirstInv'
<1>1. /\ pc = "checking" /\ pc' \in {"idle", "frozen"} /\ UNCHANGED <<media, fate, crashes, damage, delivered>>
  BY DEF CheckWriteBlock, DeviceFails
<1>2. FatesAlike /\ pc' \notin Writing /\ Running /\ KeepsRoom
  BY <1>1, SameFates DEF Writing, Running, KeepsRoom, Over
<1>3. CASE pc' = "frozen"
  BY <1>1, <1>2, <1>3, HereFirst
<1>4. CASE pc' = "idle"
  <2>1. ok
    BY <1>4 DEF CheckWriteBlock, DeviceFails
  <2>2. PICK c : seq' = [seq EXCEPT !.WriteBlockCorrupt = c]
    BY <2>1 DEF CheckWriteBlock
  <2>3. SameRun(seq, seq')
    BY <2>2 DEF IInv, ControlInv, IsStruct, SameRun
  <2>4. Running'
    BY <1>4 DEF Running
  <2> QED
    BY <1>1, <1>2, <2>3, <2>4, HereFirst
<1> QED
  BY <1>1, <1>3, <1>4

LEMMA DisposeStaleFirst ==
  ASSUME IInv, IInv', FirstInv, NEW ok \in BOOLEAN, DisposeStaleBlock(ok)
  PROVE  FirstInv'
<1>1. pc = "rotating" /\ UNCHANGED <<writing, delivered, fate, crashes, damage>>
  BY DEF DisposeStaleBlock
<1>2. FatesAlike /\ Running /\ pc \in Writing
  BY <1>1, SameFates DEF Running, Writing
<1>3. CASE ~ok
  BY <1>1, <1>2, <1>3, HereFirst DEF DisposeStaleBlock
<1>4. CASE ok
  <2>1. PICK next : next = NextSequence(seq.WriteSequence)
    OBVIOUS
  <2>2. next \in Present /\ media' = Without(next) /\ seq' = Disposed(seq, next) /\ pc' = pc
    BY <1>4, <2>1 DEF DisposeStaleBlock
  <2>3. IsStruct(seq) /\ next \in SequenceNumbers
    BY <2>2 DEF IInv, ControlInv, Present
  <2>4. next \notin seq.BlockPresent
    <3>1. Bound \in Nat
      BY SpanTypes DEF IInv, MediumInv
    <3>2. BlockCount(seq) <= Bound + 0
      BY <1>1, <1>2 DEF IInv, WhereInv, RunInv
    <3>3. BlockCount(seq) <= Bound
      BY <3>1, <3>2
    <3> QED
      BY <1>2, <2>1, <3>3, NextIsFree DEF IInv
  <2>5. SameRun(seq, seq')
    <3>1. /\ seq'.BlockPresent = seq.BlockPresent \ {next} /\ seq'.OldestSequence = seq.OldestSequence
          /\ seq'.WriteSequence = seq.WriteSequence
      BY <2>2, <2>3, DisposedFields
    <3>2. seq.BlockPresent \ {next} = seq.BlockPresent
      BY <2>4
    <3> QED
      BY <3>1, <3>2 DEF SameRun
  <2>6. Running' /\ KeepsRoom
    BY <1>1, <2>2 DEF Running, KeepsRoom, Over
  <2>7. /\ Came(media, Present, media', Present') /\ SameFlags(media, Present, media', Present')
        /\ Present' \subseteq Present
    BY <2>2, <2>3, CameDrop
  <2>8. SpanInv' /\ Forward
    BY <1>1, <1>2, <2>5, <2>6, <2>7, SpanSame DEF FirstInv, Forward, SameRun
  <2>9. Quiet
    BY <1>1, <1>2, <2>2, <2>7 DEF Quiet
  <2> QED
    BY <1>2, <2>6, <2>8, <2>9, QuietInv
<1> QED
  BY <1>3, <1>4

LEMMA AcquireFirst ==
  ASSUME IInv, IInv', FirstInv, NEW ok \in BOOLEAN, AcquireBlock(ok)
  PROVE  FirstInv'
<1>1. pc = "rotating" /\ UNCHANGED <<writing, delivered, fate, crashes, damage>>
  BY DEF AcquireBlock
<1>2. FatesAlike /\ Running /\ pc \in Writing
  BY <1>1, SameFates DEF Running, Writing
<1>3. CASE ~ok
  BY <1>1, <1>2, <1>3, HereFirst DEF AcquireBlock
<1>4. CASE ok
  <2>1. PICK next : next = NextSequence(seq.WriteSequence)
    OBVIOUS
  <2>2. media' = With(next, EmptyBlock) /\ seq' = Rotated(seq, next) /\ pc' = "draining"
    BY <1>4, <2>1 DEF AcquireBlock, Rotated
  <2>3. IsStruct(seq) /\ seq.WriteSequence \in SequenceNumbers
    BY DEF IInv, ControlInv, WhereInv, StructTypes
  <2>4. next \in SequenceNumbers
    BY <2>1, <2>3, NextIs
  <2>5. IsRotation(seq, next, seq')
    BY <2>2, <2>3, RotatedFields
  <2>6. Came(media, Present, media', Present') /\ SameFlags(media, Present, media', Present')
    BY <2>2, <2>4, EmptyBlockIs, CameFresh
  <2>7. Quiet /\ Running'
    BY <1>1, <1>2, <2>2, <2>6 DEF Quiet, Running
  <2>8. next \notin Present /\ Present' = Present \cup {next}
    BY <2>1, <2>2, <2>4, EmptyBlockIs, PutFacts DEF AcquireBlock, IInv, MediumInv
  <2>9. SpanInv' /\ Forward
    BY <1>1, <2>1, <2>2, <2>5, <2>8, SpanRotates DEF FirstInv, Forward, IsRotation
  <2> QED
    BY <1>2, <2>7, <2>9, QuietInv
<1> QED
  BY <1>3, <1>4

LEMMA DrainFirst ==
  ASSUME IInv, IInv', FirstInv, NEW ok \in BOOLEAN, DisposeReadBlockIfDrained(ok), Running,
         ok => Running', Running' \/ pc' = "frozen", pc' \in Writing => pc \in Writing, KeepsRoom,
         UNCHANGED <<writing, delivered, fate, crashes, damage>>
  PROVE  FirstInv'
<1>1. IsStruct(seq) /\ seq.ReadSequence = seq.OldestSequence /\ seq.ReadSequence \in SequenceNumbers
  BY DEF IInv, ControlInv, WhereInv, StructTypes
<1>2. FatesAlike
  BY SameFates
<1>3. CASE ~ok
  <2>1. media' = media /\ seq' = NoteDeviceFailure(seq)
    BY <1>3 DEF DisposeReadBlockIfDrained
  <2>2. SameRun(seq, seq')
    BY <1>1, <2>1, NoteDeviceFailureFields
  <2> QED
    BY <1>2, <2>1, <2>2, HereFirst
<1>4. CASE ok
  <2>1. PICK s : s = WithReadBlockSize(seq, ReadBlock.size)
    OBVIOUS
  <2>2. ReadMoves(seq, s)
    BY <2>1, SizedMoves DEF IInv
  <2>3. IsStruct(s) /\ SameRun(seq, s) /\ s.ReadSequence = s.OldestSequence
    BY <1>1, <2>2 DEF ReadMoves, SameRun
  <2>4. \/ media' = Without(seq.ReadSequence) /\ seq' = DisposeReadBlock(s)
        \/ seq' = s /\ media' = media
    BY <1>4, <2>1 DEF DisposeReadBlockIfDrained
  <2>5. CASE seq' = s /\ media' = media
    BY <1>2, <1>4, <2>3, <2>5, HereFirst
  <2>6. CASE media' = Without(seq.ReadSequence) /\ seq' = DisposeReadBlock(s)
    <3>1. LeavesOldest
      BY <2>3, <2>6, DisposeLeaves
    <3> QED
      BY <1>1, <1>2, <1>4, <2>6, <3>1, DropFirst
  <2> QED
    BY <2>4, <2>5, <2>6
<1> QED
  BY <1>3, <1>4

LEMMA DrainAfterRotationFirst ==
  ASSUME IInv, IInv', FirstInv, NEW ok \in BOOLEAN, DrainAfterRotation(ok)
  PROVE  FirstInv'
<1>1. /\ pc = "draining" /\ pc' = "evicting" /\ DisposeReadBlockIfDrained(ok)
      /\ UNCHANGED <<writing, delivered, fate, crashes, damage>>
  BY DEF DrainAfterRotation
<1>2. Running /\ Running' /\ pc \in Writing /\ KeepsRoom
  BY <1>1 DEF Running, Writing, KeepsRoom, Over
<1> QED
  BY <1>1, <1>2, DrainFirst

LEMMA DrainAfterMarkFirst ==
  ASSUME IInv, IInv', FirstInv, NEW ok \in BOOLEAN, DrainAfterMark(ok)
  PROVE  FirstInv'
<1>1. /\ pc = "marking" /\ pc' = (IF seq'.DeviceFailed THEN "frozen" ELSE "idle")
      /\ DisposeReadBlockIfDrained(ok) /\ UNCHANGED <<writing, delivered, fate, crashes, damage>>
  BY DEF DrainAfterMark
<1>2. Running /\ pc' \notin Writing /\ (Running' \/ pc' = "frozen") /\ KeepsRoom
  BY <1>1 DEF Running, Writing, KeepsRoom, Over
<1>3. ok => Running'
  <2> SUFFICES ASSUME ok PROVE ~seq'.DeviceFailed
    BY <1>1 DEF Running
  <2>1. PICK s : s = WithReadBlockSize(seq, ReadBlock.size)
    OBVIOUS
  <2>2. IsStruct(seq) /\ ~seq.DeviceFailed /\ seq.ReadSequence = seq.OldestSequence
    BY <1>1 DEF IInv, ControlInv
  <2>3. IsStruct(s) /\ ~s.DeviceFailed /\ s.ReadSequence = s.OldestSequence
    BY <2>1, <2>2, WithReadBlockSizeFields DEF SameRun
  <2>4. seq' = DisposeReadBlock(s) \/ seq' = s
    BY <1>1, <2>1 DEF DisposeReadBlockIfDrained
  <2> QED
    BY <2>3, <2>4, DisposeReadBlockFields
<1> QED
  BY <1>1, <1>2, <1>3, DrainFirst

LEMMA LoseAlike == ASSUME MediumTypes, NEW recs, NEW f \in {"evicted", "ruined"}, Lose(recs, f) PROVE FatesAlike
BY DEF MediumTypes, FatesAlike, Lose

LEMMA EvictFirst == ASSUME IInv, IInv', FirstInv, NEW ok \in BOOLEAN, EvictAfterRotation(ok) PROVE FirstInv'
<1>1. pc = "evicting" /\ UNCHANGED <<writing, delivered, crashes, damage>>
  BY DEF EvictAfterRotation
<1>2. Running /\ pc \in Writing /\ IsStruct(seq) /\ seq.OldestSequence \in SequenceNumbers
  BY <1>1 DEF Running, Writing, IInv, ControlInv, WhereInv, StructTypes
<1>3. CASE Evicts(seq) /\ ok
  <2>1. /\ seq' = DiscardOldestBlock(seq) /\ media' = Without(seq.OldestSequence)
        /\ Lose(media[seq.OldestSequence].recs, "evicted")
    BY <1>3 DEF EvictAfterRotation
  <2>2. /\ seq'.BlockPresent = seq.BlockPresent \ {seq.OldestSequence} /\ seq'.WriteSequence = seq.WriteSequence
        /\ seq'.DeviceFailed = seq.DeviceFailed
    BY <1>2, <2>1, DiscardOldestFields
  <2>3. ~seq'.DeviceFailed
    BY <1>3, <2>2 DEF Evicts
  <2>4. pc' = "appending" /\ Running'
    BY <1>3, <2>3 DEF EvictAfterRotation, ReadyToAppend, Running
  <2>5. FatesAlike
    <3>1. PICK recs : recs = media[seq.OldestSequence].recs
      OBVIOUS
    <3> QED
      BY <2>1, <3>1, LoseAlike DEF IInv, MediumInv
  <2>6. LeavesOldest
    BY <2>2 DEF LeavesOldest
  <2> QED
    BY <1>1, <1>2, <2>1, <2>4, <2>5, <2>6, DropFirst
<1>4. CASE ~(Evicts(seq) /\ ok)
  <2>1. /\ UNCHANGED <<media, fate>> /\ seq' \in {seq, NoteDeviceFailure(seq)}
        /\ pc' \in {"frozen", "appending"}
    BY <1>4 DEF EvictAfterRotation, ReadyToAppend
  <2>2. FatesAlike
    BY <2>1, SameFates
  <2>3. CASE pc' = "frozen"
    BY <1>1, <1>2, <2>1, <2>2, <2>3, HereFirst
  <2>4. CASE pc' = "appending"
    <3>1. ~seq'.DeviceFailed
      BY <1>4, <2>4 DEF EvictAfterRotation, ReadyToAppend
    <3>2. seq' = seq /\ ~Evicts(seq)
      BY <1>2, <1>4, <3>1, NoteDeviceFailureFields DEF EvictAfterRotation
    <3>3. SameRun(seq, seq')
      BY <3>2 DEF SameRun
    <3>4. KeepsRoom /\ Running'
      <4>1. BlockCount(seq) \in Int /\ MaxBlocks \in Int
        BY <1>2, RunFacts, MaxBlocksAssumption DEF IInv
      <4> QED
        BY <2>4, <3>1, <3>2, <4>1 DEF KeepsRoom, Evicts, ExceedsMaxBlocks, Running
    <3> QED
      BY <1>1, <1>2, <2>1, <2>2, <2>4, <3>3, <3>4, HereFirst
  <2> QED
    BY <2>1, <2>3, <2>4
<1> QED
  BY <1>3, <1>4

LEMMA ReadNextUnsentFirst == ASSUME IInv, IInv', FirstInv, ReadNextUnsent PROVE FirstInv'
<1>1. /\ pc = "idle" /\ pc' \in {"idle", "reading"} /\ delivered' = 0
      /\ UNCHANGED <<media, seq, fate, crashes, damage>>
  BY DEF ReadNextUnsent
<1>2. Running /\ Running' /\ FatesAlike /\ pc' \notin Writing /\ SameRun(seq, seq') /\ KeepsRoom
  BY <1>1, SameFates DEF Running, Writing, SameRun, KeepsRoom, Over
<1> QED
  BY <1>1, <1>2, HereFirst

LEMMA SealFailsFirst == ASSUME IInv, IInv', FirstInv, SealFails PROVE FirstInv'
<1>1. /\ pc = "appending" /\ pc' = "idle" /\ fate' = [fate EXCEPT ![writing.id] = "lost"]
      /\ UNCHANGED <<media, seq, delivered, crashes, damage>>
  BY DEF SealFails
<1>2. fate[writing.id] = "offered" /\ writing.id \in Ids /\ fate \in [Ids -> Fates]
  BY <1>1, AppendFacts DEF IInv, MediumInv, MediumTypes
<1>3. FatesAlike
  BY <1>1, <1>2 DEF FatesAlike
<1>4. Running /\ Running' /\ pc' \notin Writing /\ SameRun(seq, seq') /\ KeepsRoom
  BY <1>1 DEF Running, Writing, SameRun, KeepsRoom, Over
<1> QED
  BY <1>1, <1>3, <1>4, HereFirst

\* Every record kept lies behind the one the cursor is on.
LEMMA CursorIsFirst ==
  ASSUME IInv, FirstInv, Running, NEW r \in ReadBlock.recs, r.at = seq.ReadCursor, NEW id \in Ids, fate[id] = "kept"
  PROVE  ~(id < r.id)
<1>1. PICK o : o = seq.OldestSequence
  OBVIOUS
<1>2. /\ seq.ReadSequence = o /\ o \in Present /\ o \in SequenceNumbers /\ ReadBlock = media[o]
      /\ ReadBlock \in Blocks /\ Tiled(ReadBlock)
  BY <1>1, ReadFacts DEF IInv, ReadBlock, Present
<1>3. PICK n \in Present : \E q \in media[n].recs : q.id = id /\ (n = o => seq.ReadCursor <= q.at)
  BY <1>2 DEF IInv, CallInv, KeptInv
<1>4. PICK q \in media[n].recs : q.id = id /\ (n = o => seq.ReadCursor <= q.at)
  BY <1>3
<1>5. InOrder(media, Present, o)
  BY <1>1 DEF FirstInv, OrderInv
<1>6. n \in SequenceNumbers /\ media[n] \in Blocks
  BY PresentFacts DEF IInv, MediumInv
<1>7. r.id \in Int /\ q.id \in Int /\ r.at \in Nat /\ q.at \in Nat /\ End(q) \in Nat /\ q.at < End(q) /\ r.at < End(r)
      /\ End(r) \in Nat
  <2>1. r.id \in Ids /\ q.id \in Ids /\ r.at \in Nat /\ q.at \in Nat /\ End(q) \in Nat /\ q.at < End(q) /\ r.at < End(r)
        /\ End(r) \in Nat
    BY <1>2, <1>6, RecordFacts
  <2> QED
    BY <2>1 DEF Ids
<1>8. CASE n # o
  <2>1. Offset(o, o) < Offset(o, n)
    <3>1. /\ Offset(o, o) = IF o >= o THEN o - o ELSE o - o + Modulus
          /\ Offset(o, n) = IF n >= o THEN n - o ELSE n - o + Modulus
      BY <1>2, <1>6, OffsetIs
    <3> QED
      BY <1>2, <1>6, <1>8, <3>1, ModulusAssumption DEF SequenceNumbers
  <2>2. r.id < q.id
    BY <1>2, <1>5, <2>1 DEF InOrder
  <2> QED
    BY <1>4, <1>7, <2>2
<1>9. CASE n = o
  <2>1. r.at <= q.at
    BY <1>4, <1>9
  <2>2. CASE r.at < q.at
    <3>1. r.id < q.id
      BY <1>2, <1>5, <1>9, <2>2 DEF InOrder
    <3> QED
      BY <1>4, <1>7, <3>1
  <2>3. CASE r.at = q.at
    <3>1. r = q
      BY <1>2, <1>7, <1>9, <2>3 DEF Tiled
    <3> QED
      BY <1>4, <1>7, <3>1
  <2> QED
    BY <1>7, <2>1, <2>2, <2>3
<1> QED
  BY <1>8, <1>9

LEMMA ReadCurrentFirst ==
  ASSUME IInv, IInv', FirstInv, NEW ok \in BOOLEAN, NEW opens \in BOOLEAN, ReadCurrent(ok, opens)
  PROVE  FirstInv'
<1>1. pc = "reading" /\ Running /\ fate' = fate /\ crashes' = crashes /\ damage' = damage
  BY DEF ReadCurrent, Running
<1>2. PICK s : s = WithReadBlockSize(seq, ReadBlock.size)
  OBVIOUS
<1>3. ReadMoves(seq, s)
  BY <1>2, SizedMoves DEF IInv
<1>4. PICK b : b = ReadBlock
  OBVIOUS
<1>5. PICK c : c = seq.ReadCursor
  OBVIOUS
<1>6. InBlock(s) /\ s.ReadCursor = c /\ ReadBlockSize(s) = b.size
  BY <1>1, <1>2, <1>4, <1>5, SizedIs DEF IInv
<1>7. b \in Blocks /\ Tiled(b) /\ c \in 0..b.size
  BY <1>1, <1>4, <1>6, ReadFacts DEF IInv, InBlock
<1>8. PICK x : x = ReadAndValidateRecord(b, c, b.size, opens)
  OBVIOUS
<1>9. PICK r : r = RecordAt(b, c)
  OBVIOUS
<1>10. /\ x \in {"SUCCEEDED", "COULD_NOT_OPEN", "FINISHED_WITH", "REJECTED"} =>
            r \in b.recs /\ r.at = c /\ End(r) \in c + 1..b.size
       /\ x = "SUCCEEDED" => r.flag # "SENT"
  BY <1>7, <1>8, <1>9, ReadResult
<1>11. \/ DeviceFails
       \/ x = "SUCCEEDED" /\ delivered' = r.id /\ seq' = s /\ pc' = "idle" /\ media' = media
       \/ seq' = s /\ pc' = "idle" /\ media' = media /\ delivered' = delivered
       \/ StepPastCurrent(s, r)
       \/ LeaveReadBlock(s, ok) /\ pc' = (IF ok THEN "reading" ELSE "frozen") /\ delivered' = delivered
       \/ AbandonRestOfReadBlock(s, ok, "reading", "idle") /\ delivered' = delivered
  BY <1>2, <1>4, <1>6, <1>8, <1>9 DEF ReadCurrent
<1>12. FatesAlike /\ KeepsRoom
  BY <1>1, SameFates DEF KeepsRoom, Over
<1>13. CASE DeviceFails
  BY <1>1, <1>12, <1>13, HereFirst DEF DeviceFails, Writing
<1>14. ASSUME seq' = s, pc' = "idle" PROVE Running' /\ pc' \notin Writing /\ SameRun(seq, seq')
  BY <1>3, <1>14 DEF Running, Writing, ReadMoves
<1>15. CASE x = "SUCCEEDED" /\ delivered' = r.id /\ seq' = s /\ pc' = "idle" /\ media' = media
  <2>1. /\ Came(media, Present, media', Present') /\ Present' = Present
    BY <1>15, CameSame
  <2>2. OrderInv' /\ SpanInv'
    BY <1>1, <1>12, <1>14, <1>15, <2>1, OrderRuns, SpanSame DEF FirstInv, Forward, SameRun
  <2>3. NewInv' /\ NewestInv' /\ SentInv'
    BY <1>1, <1>14, <1>15, <2>1 DEF FirstInv, NewInv, NewestInv, SentInv
  <2>4. r \in ReadBlock.recs /\ r.at = seq.ReadCursor /\ r.flag # "SENT" /\ r.id \in Ids
    BY <1>4, <1>5, <1>7, <1>10, <1>15, RecordFacts
  <2>5. seq.ReadSequence \in Present
    BY <1>1, ReadFacts DEF IInv
  <2>6. fate[r.id] # "new" /\ fate[r.id] # "sent"
    BY <2>4, <2>5 DEF IInv, MediumInv, IdsInv, FirstInv, SentInv, ReadBlock
  <2>7. ASSUME NEW id \in 1..r.id - 1 PROVE fate[id] # "kept"
    <3>1. id \in Ids /\ id < r.id
      BY <2>4, StoreBoundsAssumption DEF Ids
    <3> QED
      BY <1>1, <2>4, <3>1, CursorIsFirst
  <2>8. DeliveredInv' /\ OldestFirst'
    BY <1>1, <1>15, <2>6, <2>7 DEF DeliveredInv, OldestFirst
  <2> QED
    BY <2>2, <2>3, <2>8 DEF FirstInv
<1>16. CASE seq' = s /\ pc' = "idle" /\ media' = media /\ delivered' = delivered
  BY <1>1, <1>12, <1>14, <1>16, HereFirst
<1>17. CASE StepPastCurrent(s, r)
  <2>1. PICK e : seq' = [s EXCEPT !.ReadCursor = e]
    BY <1>17 DEF StepPastCurrent
  <2>2. SameRun(seq, seq')
    BY <1>3, <2>1 DEF ReadMoves, IsStruct, SameRun
  <2>3. media' = media /\ pc' = pc /\ delivered' = delivered
    BY <1>17 DEF StepPastCurrent
  <2>4. Running' /\ pc' \notin Writing
    BY <1>1, <2>3 DEF Running, Writing
  <2> QED
    BY <1>1, <1>12, <2>2, <2>3, <2>4, HereFirst
<1>18. CASE LeaveReadBlock(s, ok) /\ pc' = (IF ok THEN "reading" ELSE "frozen") /\ delivered' = delivered
  <2>1. pc' \notin Writing /\ (ok => Running') /\ (~ok => pc' = "frozen")
    BY <1>18 DEF Running, Writing
  <2> QED
    BY <1>1, <1>3, <1>18, <2>1, LeaveFirst
<1>19. CASE AbandonRestOfReadBlock(s, ok, "reading", "idle") /\ delivered' = delivered
  BY <1>1, <1>3, <1>12, <1>19, AbandonFirst DEF Level, Writing
<1> QED
  BY <1>11, <1>13, <1>15, <1>16, <1>17, <1>18, <1>19

LEMMA WriteFirst ==
  ASSUME IInv, IInv', FirstInv, NEW id \in Ids, NEW bytes \in RecordSizes, NEW policy, Write(id, bytes, policy)
  PROVE  FirstInv'
<1>1. /\ pc = "idle" /\ fate[id] = "new" /\ \A i \in 1..id - 1 : fate[i] # "new"
      /\ UNCHANGED <<media, delivered, crashes, damage>>
  BY DEF Write
<1>2. IsStruct(seq) /\ fate \in [Ids -> Fates] /\ delivered \in {0} \cup Ids
  BY DEF IInv, ControlInv, MediumInv, MediumTypes, CallInv, LastReadInv
<1>3. /\ seq' \in {seq, Refused(seq)} /\ pc' \in {"idle", "rotating", "appending"}
      /\ \E f \in {"refused", "offered"} : fate' = [fate EXCEPT ![id] = f]
      /\ pc' # "idle" => writing' = [id |-> id, bytes |-> bytes]
  BY <1>1 DEF Write, ReadyToAppend
<1>4. PICK f \in {"refused", "offered"} : fate' = [fate EXCEPT ![id] = f]
  BY <1>3
<1>5. SameRun(seq, seq') /\ KeepsRoom
  BY <1>1, <1>2, <1>3, RefusedFields DEF SameRun, KeepsRoom, Over
<1>6. Came(media, Present, media', Present') /\ Present' = Present
  BY <1>1, CameSame
<1>7. Running /\ Running'
  BY <1>1, <1>3 DEF Running
<1>8. OrderInv' /\ SpanInv'
  BY <1>1, <1>5, <1>6, <1>7, OrderRuns, SpanSame DEF FirstInv, Forward, SameRun
<1>9. fate'[id] = f /\ \A i \in Ids : i # id => fate'[i] = fate[i]
  BY <1>2, <1>4
<1>10. ASSUME NEW i \in Ids, fate[i] # "new" PROVE i < id
  <2>1. ~(id < i)
    BY <1>1, <1>10 DEF FirstInv, NewInv
  <2> QED
    BY <1>1, <1>10, <2>1 DEF Ids
<1>11. NewInv'
  <2> SUFFICES ASSUME NEW i \in Ids, NEW j \in Ids, i < j, fate'[i] = "new" PROVE fate'[j] = "new"
    BY DEF NewInv
  <2>1. i # id /\ fate[i] = "new"
    BY <1>9
  <2>2. fate[j] = "new"
    BY <2>1 DEF FirstInv, NewInv
  <2>3. j # id
    <3>1. ~(i \in 1..id - 1)
      BY <1>1, <2>1
    <3> QED
      BY <3>1 DEF Ids
  <2> QED
    BY <1>9, <2>2, <2>3
<1>12. NewestInv'
  <2> SUFFICES ASSUME pc' \in Writing
               PROVE  /\ \A n \in Present' : \A r \in media'[n].recs : r.id < writing'.id
                      /\ delivered' < writing'.id
    BY DEF NewestInv
  <2>1. writing'.id = id
    BY <1>3 DEF Writing
  <2>2. ASSUME NEW n \in Present, NEW r \in media[n].recs PROVE r.id < id
    <3>1. r.id \in Ids /\ fate[r.id] # "new"
      BY PresentFacts, RecordFacts DEF IInv, MediumInv, IdsInv
    <3> QED
      BY <1>10, <3>1
  <2>3. delivered < id
    BY <1>2, <1>10 DEF FirstInv, DeliveredInv, Ids
  <2> QED
    BY <1>1, <1>6, <2>1, <2>2, <2>3
<1>13. SentInv'
  <2> SUFFICES ASSUME NEW n \in Present, NEW r \in media[n].recs, fate'[r.id] = "sent" PROVE r.flag = "SENT"
    BY <1>1, <1>6 DEF SentInv
  <2>1. r.id \in Ids
    BY PresentFacts, RecordFacts DEF IInv, MediumInv
  <2>2. fate[r.id] = "sent"
    BY <1>9, <2>1
  <2> QED
    BY <2>2 DEF FirstInv, SentInv
<1>14. DeliveredInv' /\ OldestFirst'
  <2>1. CASE delivered = 0
    BY <1>1, <2>1 DEF DeliveredInv, OldestFirst
  <2>2. CASE delivered # 0
    <3>1. delivered \in Ids /\ fate[delivered] # "new" /\ delivered # id
      BY <1>1, <1>2, <2>2 DEF FirstInv, DeliveredInv
    <3>2. ASSUME NEW i \in 1..delivered - 1 PROVE fate'[i] # "kept"
      <4>1. i \in Ids /\ fate[i] # "kept"
        BY <2>2, <3>1, StoreBoundsAssumption DEF Ids, FirstInv, OldestFirst
      <4> QED
        BY <1>9, <4>1
    <3>3. fate'[delivered] = fate[delivered] /\ fate[delivered] # "sent"
      BY <1>9, <2>2, <3>1 DEF FirstInv, OldestFirst
    <3> QED
      BY <1>1, <3>1, <3>2, <3>3 DEF DeliveredInv, OldestFirst
  <2> QED
    BY <2>1, <2>2
<1> QED
  BY <1>8, <1>11, <1>12, <1>13, <1>14 DEF FirstInv

\* Some or all of a new record's bytes reach the write block.
LEMMA AppendOrder ==
  ASSUME IInv, FirstInv, pc = "appending", Present' = Present,
         \A n \in SequenceNumbers : n # seq.WriteSequence => media'[n] = media[n],
         NEW q, q.id = writing.id, q.at = media[seq.WriteSequence].size,
         IsAppend(media[seq.WriteSequence], q, media'[seq.WriteSequence])
  PROVE  InOrder(media', Present', seq.OldestSequence)
<1>1. PICK o : o = seq.OldestSequence
  OBVIOUS
<1>2. PICK w : w = seq.WriteSequence
  OBVIOUS
<1>3. PICK med : med = media
  OBVIOUS
<1>4. PICK med2 : med2 = media'
  OBVIOUS
<1>5. PICK present : present = Present
  OBVIOUS
<1>6. Running /\ pc \in Writing
  BY DEF Running, Writing
<1>7. /\ o \in SequenceNumbers /\ w \in present /\ med[w] \in Blocks /\ Tiled(med[w])
      /\ present \in SUBSET SequenceNumbers
  BY <1>1, <1>2, <1>3, <1>5, <1>6, RunFacts DEF IInv, Present
<1>8. InOrder(med, present, o)
  BY <1>1, <1>3, <1>5, <1>6 DEF FirstInv, OrderInv
<1>9. \A n \in present : med[n] \in Blocks
  BY <1>3, <1>5, PresentFacts DEF IInv, MediumInv
<1>10. ASSUME NEW n \in present, med[n].recs # {} PROVE Offset(o, n) <= Offset(o, w)
  <2>1. n \in seq.BlockPresent
    BY <1>3, <1>5, <1>6, <1>10 DEF IInv, WhereInv, RunInv
  <2> QED
    BY <1>1, <1>2, <1>6, <2>1 DEF IInv, WhereInv, RunInv, IsArc
<1>11. \A r \in med[w].recs : r.at < med[w].size
  BY <1>7 DEF Tiled
<1>12. q.id \in Nat
  <2>1. writing.id \in Ids
    BY AppendFacts
  <2> QED
    BY <2>1 DEF Ids
<1>13. \A n \in present : \A r \in med[n].recs : r.id < q.id
  BY <1>3, <1>5, <1>6 DEF FirstInv, NewestInv
<1>14. \A n \in present : n # w => med2[n] = med[n]
  BY <1>2, <1>3, <1>4, <1>7
<1>15. q.at = med[w].size /\ IsAppend(med[w], q, med2[w])
  BY <1>2, <1>3, <1>4
<1>16. InOrder(med2, present, o)
  BY <1>7, <1>8, <1>9, <1>10, <1>11, <1>12, <1>13, <1>14, <1>15, OrderAppend
<1> QED
  BY <1>1, <1>4, <1>5, <1>16

LEMMA AppendFirst ==
  ASSUME IInv, IInv', FirstInv, pc = "appending", CountersStep, NEW reached \in 0..writing.bytes, Appends(reached),
         fate' \in [Ids -> Fates], fate'[writing.id] \in {"offered", "kept"},
         \A id \in Ids : id # writing.id => fate'[id] = fate[id],
         pc' \notin Writing, delivered' \in {0, delivered},
         \/ Running' /\ SameRun(seq, seq') /\ crashes' = crashes /\ damage' = damage
         \/ GoesDown
  PROVE  FirstInv'
<1>1. Running /\ pc \in Writing
  BY DEF Running, Writing
<1>2. /\ writing.id \in Ids /\ fate[writing.id] = "offered" /\ delivered < writing.id
      /\ delivered \in {0} \cup Ids /\ seq.WriteSequence \in SequenceNumbers
  BY <1>1, AppendFacts DEF FirstInv, NewestInv, IInv, CallInv, LastReadInv
<1>3. /\ Present' = Present
      /\ \A n \in SequenceNumbers : n # seq.WriteSequence => media'[n] = media[n]
      /\ \E q : /\ q.id = writing.id /\ q.at = media[seq.WriteSequence].size
                /\ IsAppend(media[seq.WriteSequence], q, media'[seq.WriteSequence])
  BY AppendMedium
<1>4. PICK q : /\ q.id = writing.id /\ q.at = media[seq.WriteSequence].size
               /\ IsAppend(media[seq.WriteSequence], q, media'[seq.WriteSequence])
  BY <1>3
<1>5. InOrder(media', Present', seq.OldestSequence)
  BY <1>3, <1>4, AppendOrder
<1>6. OrderInv' /\ SpanInv'
  <2>1. CASE Running' /\ SameRun(seq, seq') /\ crashes' = crashes /\ damage' = damage
    <3>1. KeepsRoom
      BY DEF KeepsRoom, Over
    <3>2. SpanInv'
      BY <1>1, <1>3, <2>1, <3>1, SpanSame DEF FirstInv
    <3> QED
      BY <1>5, <2>1, <3>2 DEF OrderInv, SameRun
  <2>2. CASE GoesDown
    <3>1. PICK o \in SequenceNumbers : o = seq.OldestSequence
      BY <1>1, RunFacts DEF IInv
    <3>2. PICK len \in Nat : Spans(Present, o, len, damage, Bound + 1)
      BY <1>1, <3>1, SpanOf DEF FirstInv
    <3>3. Spans(Present', o, len, damage', Bound' + Frozen(pc')) /\ ~Running' /\ SpanInv'
      BY <1>3, <2>2, <3>2, SpanDown
    <3> QED
      BY <1>5, <3>1, <3>3 DEF OrderInv
  <2> QED
    BY <2>1, <2>2
<1>7. \A id \in Ids : fate'[id] = "new" <=> fate[id] = "new"
  BY <1>2
<1>8. NewInv' /\ NewestInv'
  BY <1>7 DEF FirstInv, NewInv, NewestInv
<1>9. SentInv'
  <2> SUFFICES ASSUME NEW n \in Present', NEW r \in media'[n].recs, fate'[r.id] = "sent" PROVE r.flag = "SENT"
    BY DEF SentInv
  <2>1. n \in Present /\ n \in SequenceNumbers
    BY <1>3 DEF Present
  <2>2. r \in media[n].recs \/ r = q
    BY <1>3, <1>4, <2>1 DEF IsAppend
  <2>3. r.id # writing.id
    OBVIOUS
  <2>4. r \in media[n].recs
    BY <1>4, <2>2, <2>3
  <2>5. r.id \in Ids
    BY <2>1, <2>4, PresentFacts, RecordFacts DEF IInv, MediumInv
  <2> QED
    BY <2>1, <2>3, <2>4, <2>5 DEF FirstInv, SentInv
<1>10. DeliveredInv' /\ OldestFirst'
  <2>1. CASE delivered' = 0
    BY <2>1 DEF DeliveredInv, OldestFirst
  <2>2. CASE delivered' = delivered /\ delivered # 0
    <3>1. \A i \in 1..delivered : i \in Ids /\ i # writing.id
      BY <1>2, <2>2, StoreBoundsAssumption DEF Ids
    <3>2. delivered \in Ids /\ delivered \in 1..delivered /\ \A i \in 1..delivered - 1 : i \in 1..delivered
      BY <1>2, <2>2 DEF Ids
    <3>3. \A i \in 1..delivered : fate'[i] = fate[i]
      BY <3>1
    <3> QED
      BY <2>2, <3>2, <3>3 DEF FirstInv, DeliveredInv, OldestFirst
  <2> QED
    BY <2>1, <2>2
<1> QED
  BY <1>6, <1>8, <1>9, <1>10 DEF FirstInv

LEMMA TornFirst ==
  ASSUME IInv, IInv', FirstInv, pc = "appending", CountersStep, TornAppend, fate' = fate,
         delivered' \in {0, delivered}, GoesDown
  PROVE  FirstInv'
<1>1. PICK reached \in 0..writing.bytes : Appends(reached)
  BY DEF TornAppend, Appends
<1>2. fate \in [Ids -> Fates] /\ fate[writing.id] = "offered"
  BY AppendFacts DEF IInv, MediumInv, MediumTypes
<1>3. pc' \notin Writing
  BY DEF GoesDown, Writing
<1> QED
  BY <1>1, <1>2, <1>3, AppendFirst

LEMMA AppendFailsFirst == ASSUME IInv, IInv', FirstInv, AppendFails PROVE FirstInv'
<1>1. pc = "appending" /\ TornAppend /\ pc' = "frozen" /\ UNCHANGED <<delivered, fate, crashes, damage>>
  BY DEF AppendFails
<1>2. CountersStep /\ GoesDown
  BY <1>1, SameCounters, SameBound DEF IInv, MediumInv, GoesDown
<1> QED
  BY <1>1, <1>2, TornFirst

LEMMA AppendKeptFirst == ASSUME IInv, IInv', FirstInv, AppendKept PROVE FirstInv'
<1>1. /\ pc = "appending" /\ pc' = "idle" /\ seq' = NoteRecordWritten(seq, writing.bytes)
      /\ fate' = [fate EXCEPT ![writing.id] = "kept"] /\ Appends(writing.bytes)
      /\ UNCHANGED <<delivered, crashes, damage>>
  BY DEF AppendKept, Appends
<1>2. /\ fate \in [Ids -> Fates] /\ writing.id \in Ids /\ writing.bytes \in Nat \ {0}
      /\ seq.WritePosition \in Nat /\ IsStruct(seq)
  BY <1>1, AppendFacts, BlockSizeAssumption
     DEF IInv, MediumInv, MediumTypes, ControlInv, WhereInv, StructTypes
<1>3. /\ fate' \in [Ids -> Fates] /\ fate'[writing.id] = "kept"
      /\ \A id \in Ids : id # writing.id => fate'[id] = fate[id]
  BY <1>1, <1>2 DEF Fates
<1>4. CountersStep /\ Running' /\ pc' \notin Writing
  BY <1>1, SameCounters DEF IInv, MediumInv, Running, Writing
<1>5. SameRun(seq, seq')
  BY <1>1, <1>2, NoteRecordWrittenFields
<1>6. PICK reached \in 0..writing.bytes : reached = writing.bytes
  BY <1>2
<1> QED
  BY <1>1, <1>3, <1>4, <1>5, <1>6, AppendFirst

\* The mark, done or half done, changes the flag of the record handed out.
LEMMA MarkFirst ==
  ASSUME IInv, IInv', FirstInv, pc = "idle", delivered # 0, lastRead # NothingRead, CountersStep,
         NEW flag \in {"UNSENT", "HALF", "SENT"}, NoteMark(flag), delivered' = 0, pc' \notin Writing,
         \/ Running' /\ SameRun(seq, seq') /\ crashes' = crashes /\ damage' = damage
         \/ GoesDown
  PROVE  FirstInv'
<1>1. Running
  BY DEF Running
<1>2. /\ Present' = Present
      /\ \A n \in Present : \A p \in media'[n].recs : \E r \in media[n].recs :
           /\ r.id = p.id /\ r.at = p.at
           /\ p.flag = IF p.id = delivered THEN flag ELSE r.flag
  BY MarkMedium DEF MarkLeaves
<1>3. Came(media, Present, media', Present')
  BY <1>2 DEF Came
<1>4. OrderInv' /\ SpanInv'
  <2>1. KeepsRoom
    BY DEF KeepsRoom, Over
  <2>2. CASE Running' /\ SameRun(seq, seq') /\ crashes' = crashes /\ damage' = damage
    BY <1>1, <1>2, <1>3, <2>1, <2>2, OrderRuns, SpanSame DEF FirstInv, Forward, SameRun
  <2>3. CASE GoesDown
    BY <1>2, <1>3, <2>3, OrderDown DEF FirstInv
  <2> QED
    BY <2>2, <2>3
<1>5. delivered \in Ids /\ fate \in [Ids -> Fates] /\ fate[delivered] # "sent"
  BY DEF IInv, MediumInv, MediumTypes, CallInv, LastReadInv, FirstInv, OldestFirst
<1>6. /\ \A id \in Ids : id # delivered => fate'[id] = fate[id]
      /\ fate'[delivered] = "new" <=> fate[delivered] = "new"
      /\ fate'[delivered] = "sent" => flag = "SENT"
  <2>1. CASE flag = "SENT" /\ fate[delivered] = "kept"
    <3>1. fate' = [fate EXCEPT ![delivered] = "sent"]
      BY <2>1 DEF NoteMark
    <3> QED
      BY <1>5, <2>1, <3>1
  <2>2. CASE ~(flag = "SENT" /\ fate[delivered] = "kept")
    <3>1. fate' = fate
      BY <2>2 DEF NoteMark
    <3> QED
      BY <1>5, <3>1
  <2> QED
    BY <2>1, <2>2
<1>7. \A id \in Ids : fate'[id] = "new" <=> fate[id] = "new"
  BY <1>6
<1>8. NewInv' /\ NewestInv' /\ DeliveredInv' /\ OldestFirst'
  BY <1>7 DEF FirstInv, NewInv, NewestInv, DeliveredInv, OldestFirst
<1>9. SentInv'
  <2> SUFFICES ASSUME NEW n \in Present', NEW p \in media'[n].recs, fate'[p.id] = "sent" PROVE p.flag = "SENT"
    BY DEF SentInv
  <2>1. n \in Present
    BY <1>2
  <2>2. PICK r \in media[n].recs : r.id = p.id /\ p.flag = IF p.id = delivered THEN flag ELSE r.flag
    BY <1>2, <2>1
  <2>3. r.id \in Ids
    BY <2>1, PresentFacts, RecordFacts DEF IInv, MediumInv
  <2>4. CASE p.id = delivered
    BY <1>6, <2>2, <2>4
  <2>5. CASE p.id # delivered
    <3>1. fate[r.id] = "sent"
      BY <1>6, <2>2, <2>3, <2>5
    <3>2. r.flag = "SENT"
      BY <2>1, <3>1 DEF FirstInv, SentInv
    <3> QED
      BY <2>2, <2>5, <3>2
  <2> QED
    BY <2>4, <2>5
<1> QED
  BY <1>4, <1>8, <1>9 DEF FirstInv

LEMMA MarkSentFirst == ASSUME IInv, IInv', FirstInv, MarkSent PROVE FirstInv'
<1>1. pc = "idle" /\ delivered # 0 /\ delivered' = 0 /\ UNCHANGED <<crashes, damage>>
  BY DEF MarkSent
<1>2. CASE lastRead = NothingRead
  <2>1. UNCHANGED <<media, seq, pc, fate>>
    BY <1>2 DEF MarkSent
  <2>2. Running /\ Running' /\ FatesAlike /\ pc' \notin Writing /\ SameRun(seq, seq') /\ KeepsRoom
    BY <1>1, <2>1, SameFates DEF Running, Writing, SameRun, KeepsRoom, Over
  <2> QED
    BY <1>1, <2>1, <2>2, HereFirst
<1>3. CASE lastRead # NothingRead
  <2>1. /\ NoteMark("SENT") /\ seq' = [seq EXCEPT !.ReadCursor = lastRead.next] /\ pc' = "marking"
    BY <1>3 DEF MarkSent
  <2>2. CountersStep /\ Running' /\ pc' \notin Writing
    BY <1>1, <2>1, SameCounters DEF IInv, MediumInv, Running, Writing
  <2>3. SameRun(seq, seq')
    BY <2>1 DEF IInv, ControlInv, IsStruct, SameRun
  <2> QED
    BY <1>1, <1>3, <2>1, <2>2, <2>3, MarkFirst
<1> QED
  BY <1>2, <1>3

LEMMA MarkSentFailsFirst ==
  ASSUME IInv, IInv', FirstInv, NEW flag \in {"UNSENT", "HALF", "SENT"}, MarkSentFails(flag)
  PROVE  FirstInv'
<1>1. /\ pc = "idle" /\ delivered # 0 /\ lastRead # NothingRead /\ NoteMark(flag)
      /\ delivered' = 0 /\ pc' = "frozen" /\ UNCHANGED <<crashes, damage>>
  BY DEF MarkSentFails
<1>2. CountersStep /\ GoesDown /\ pc' \notin Writing
  BY <1>1, SameCounters, SameBound DEF IInv, MediumInv, GoesDown, Writing
<1> QED
  BY <1>1, <1>2, MarkFirst

LEMMA RestartFirst == ASSUME IInv, IInv', FirstInv, Restart PROVE FirstInv'
<1>1. /\ pc # "opening" /\ crashes < MaxCrashes /\ crashes' = crashes + 1 /\ damage' = damage
      /\ pc' = "opening" /\ delivered' = 0
  BY DEF Restart
<1>2. CountersStep
  BY <1>1, StoreBoundsAssumption DEF CountersStep, IInv, MediumInv, MediumTypes
<1>3. GoesDown /\ pc' \notin Writing
  <2>1. MaxBlocks \in Int /\ crashes \in Int /\ damage \in Int
    BY MaxBlocksAssumption DEF IInv, MediumInv, MediumTypes
  <2>2. Bound' = Bound + 1
    BY <1>1, <2>1 DEF Bound
  <2> QED
    BY <1>1, <2>2 DEF GoesDown, Writing
<1>4. CASE pc = "appending" /\ TornAppend /\ UNCHANGED fate
  BY <1>1, <1>2, <1>3, <1>4, TornFirst
<1>5. CASE \E flag \in {"HALF", "SENT"} : pc = "idle" /\ delivered # 0 /\ lastRead # NothingRead /\ NoteMark(flag)
  BY <1>1, <1>2, <1>3, <1>5, MarkFirst
<1>6. CASE UNCHANGED <<media, fate>>
  <2>1. Quiet /\ Present' = Present
    BY <1>1, <1>3, <1>6, SameFates, CameSame DEF Quiet
  <2> QED
    BY <1>3, <2>1, QuietInv
<1> QED
  BY <1>4, <1>5, <1>6 DEF Restart

\* The media is damaged while the store is down.
LEMMA DamageFirst ==
  ASSUME IInv, IInv', FirstInv, pc = "opening", UNCHANGED <<volatile, crashes>>, damage' = damage + 1,
         FatesAlike, Present' = Present \/ \E n : Present' = Present \ {n},
         Came(media, Present, media', Present'), SameFlags(media, Present, media', Present')
  PROVE  FirstInv'
<1>1. pc' = "opening" /\ delivered' = delivered /\ crashes' = crashes /\ pc' \notin Writing
  BY DEF volatile, Writing
<1>2. GoesDown
  <2>1. MaxBlocks \in Int /\ crashes \in Int /\ damage \in Int
    BY MaxBlocksAssumption DEF IInv, MediumInv, MediumTypes
  <2> QED
    BY <1>1, <2>1 DEF GoesDown, Bound
<1>3. Quiet
  BY <1>1 DEF Quiet
<1>4. CASE Present' = Present
  BY <1>2, <1>3, <1>4, QuietInv
<1>5. CASE \E n : Present' = Present \ {n}
  <2>1. Bound' = Bound + 1
    BY <1>1, <1>2 DEF GoesDown
  <2>2. OrderInv' /\ SpanInv'
    BY <1>1, <1>5, <2>1, OrderLoses DEF FirstInv
  <2> QED
    BY <1>3, <2>2, QuietRest DEF FirstInv
<1> QED
  BY <1>4, <1>5

LEMMA DamageRecordFirst ==
  ASSUME IInv, IInv', FirstInv, NEW n \in Present, NEW r \in media[n].recs,
         NEW state \in {"DAMAGED", "REJECTED"}, DamageRecord(n, r, state)
  PROVE  FirstInv'
<1>1. /\ pc = "opening" /\ damage' = damage + 1 /\ UNCHANGED <<volatile, crashes>>
  BY DEF DamageRecord
<1>2. PICK b : b = media[n]
  OBVIOUS
<1>3. PICK b2 : b2 = [b EXCEPT !.recs = (@ \ {r}) \cup {[r EXCEPT !.state = state]}]
  OBVIOUS
<1>4. PICK lost : lost = IF state = "DAMAGED" THEN {q \in b.recs : q.at >= r.at} ELSE {r}
  OBVIOUS
<1>5. media' = With(n, b2) /\ Lose(lost, "ruined")
  BY <1>2, <1>3, <1>4 DEF DamageRecord
<1>6. FatesAlike
  BY <1>5, LoseAlike DEF IInv, MediumInv
<1>7. b \in Blocks /\ Tiled(b) /\ n \in SequenceNumbers /\ r \in b.recs
  BY <1>2, PresentFacts DEF IInv, MediumInv, MediaInv
<1>8. PICK f : f = RuinedState(b, r, state)
  OBVIOUS
<1>9. IsReflag(b, f, b2) /\ \A q \in b.recs : f[q].flag = q.flag
  BY <1>3, <1>7, <1>8, RuinedStateIs
<1>10. /\ b2 \in Blocks /\ b2.recs = {f[q] : q \in b.recs}
       /\ \A q \in b.recs : f[q].id = q.id /\ f[q].at = q.at
  BY <1>7, <1>9, ReflagIs
<1>11. /\ Present' = Present \cup {n} /\ media'[n] = b2
       /\ \A m \in SequenceNumbers : m # n => media'[m] = media[m]
  BY <1>5, <1>7, <1>10, PutFacts DEF IInv, MediumInv
<1>12. \A m \in Present' : m \in Present /\ (m # n => media'[m] = media[m])
  BY <1>11 DEF Present
<1>13. \A p \in b2.recs : \E q \in b.recs : q.id = p.id /\ q.at = p.at /\ q.flag = p.flag
  BY <1>9, <1>10
<1>14. Came(media, Present, media', Present') /\ SameFlags(media, Present, media', Present')
  BY <1>2, <1>11, <1>12, <1>13 DEF Came, SameFlags
<1>15. Present' = Present
  BY <1>11
<1> QED
  BY <1>1, <1>6, <1>14, <1>15, DamageFirst

LEMMA RemoveBlockFirst == ASSUME IInv, IInv', FirstInv, NEW n \in Present, RemoveBlock(n) PROVE FirstInv'
<1>1. /\ pc = "opening" /\ damage' = damage + 1 /\ UNCHANGED <<volatile, crashes>> /\ media' = Without(n)
  BY DEF RemoveBlock
<1>2. FatesAlike
  <2>1. PICK lost : lost = media[n].recs
    OBVIOUS
  <2>2. Lose(lost, "ruined")
    BY <2>1 DEF RemoveBlock
  <2> QED
    BY <2>2, LoseAlike DEF IInv, MediumInv
<1>3. PICK x \in SequenceNumbers : x = n
  BY DEF Present
<1>4. /\ Came(media, Present, media', Present') /\ SameFlags(media, Present, media', Present')
      /\ Present' = Present \ {x}
  BY <1>1, <1>3, CameDrop, DropFacts DEF IInv, MediumInv
<1> QED
  BY <1>1, <1>2, <1>4, DamageFirst

LEMMA StaleBlockFirst == ASSUME IInv, IInv', FirstInv, StaleBlock PROVE FirstInv'
<1>1. PICK next : next = NextSequence(seq.WriteSequence)
  OBVIOUS
<1>2. PICK b : b = [size |-> 1, recs |-> {}]
  OBVIOUS
<1>3. /\ pc = "idle" /\ media' = With(next, b) /\ UNCHANGED <<volatile, fate, crashes>>
  BY <1>1, <1>2 DEF StaleBlock
<1>4. UNCHANGED <<seq, pc, writing, delivered>>
  BY <1>3 DEF volatile
<1>5. b \in Blocks /\ b.recs = {}
  BY <1>2, BlockSizeAssumption DEF Blocks
<1>6. next \in SequenceNumbers
  BY <1>1, NextIs DEF IInv, WhereInv, StructTypes
<1>7. Quiet
  BY <1>3, <1>4, <1>5, <1>6, SameFates, CameFresh DEF Quiet, Writing
<1>8. Running /\ Running' /\ Forward
  BY <1>3, <1>4 DEF Running, Forward
<1>9. crashes' = crashes /\ damage' = damage + 1 /\ pc' = "idle" /\ seq' = seq
  BY <1>3, <1>4 DEF StaleBlock
<1>10. SpanInv'
  BY <1>3, <1>9, SpanStale DEF FirstInv
<1> QED
  BY <1>7, <1>8, <1>10, QuietInv

LEMMA InitFirst == ASSUME Init PROVE FirstInv
<1>1. /\ media = [n \in SequenceNumbers |-> NoBlock] /\ pc = "opening" /\ delivered = 0
      /\ fate = [id \in Ids |-> "new"]
  BY DEF Init
<1>2. Present = {} /\ ~Running
  BY <1>1 DEF Present, Running
<1>3. OrderInv
  <2>1. 0 \in SequenceNumbers
    BY ModulusAssumption DEF SequenceNumbers
  <2>2. InOrder(media, {}, 0)
    BY DEF InOrder
  <2>3. Holes({}, 0, 0) = {}
    <3> SUFFICES ASSUME NEW n \in SequenceNumbers PROVE ~(Offset(0, n) < 0)
      BY DEF Holes
    <3>1. Offset(0, n) \in 0..Modulus - 1
      BY <2>1, OffsetIs DEF SequenceNumbers
    <3> QED
      BY <3>1
  <2>4. Cardinality(Holes({}, 0, 0)) = 0
    BY <2>3, FS_EmptySet
  <2>5. damage = 0 /\ Bound + Frozen(pc) = MaxBlocks
    BY <1>1, MaxBlocksAssumption DEF Init, Bound, Frozen
  <2>6. Spans({}, 0, 0, damage, Bound + Frozen(pc))
    BY <2>4, <2>5, MaxBlocksAssumption DEF Spans
  <2> QED
    BY <1>2, <2>1, <2>2, <2>6 DEF OrderInv
<1>4. NewInv /\ NewestInv /\ SentInv /\ DeliveredInv /\ OldestFirst
  BY <1>1, <1>2 DEF NewInv, NewestInv, SentInv, DeliveredInv, OldestFirst, Writing
<1> QED
  BY <1>2, <1>3, <1>4 DEF FirstInv, SpanInv

LEMMA StutterFirst == ASSUME FirstInv, UNCHANGED vars PROVE FirstInv'
<1>1. UNCHANGED <<media, seq, pc, writing, delivered, fate, crashes, damage>>
  BY DEF vars, volatile
<1>2. Present' = Present /\ Running' = Running /\ Bound' = Bound
  BY <1>1 DEF Present, Running, Bound
<1>3. OrderInv' /\ SpanInv'
  BY <1>1, <1>2 DEF FirstInv, OrderInv, SpanInv
<1> QED
  BY <1>1, <1>2, <1>3 DEF FirstInv, NewInv, NewestInv, SentInv, DeliveredInv, OldestFirst

LEMMA NextFirst == IInv /\ FirstInv /\ [Next]_vars => FirstInv'
<1> SUFFICES ASSUME IInv, FirstInv, [Next]_vars PROVE FirstInv'
  OBVIOUS
<1>1. IInv'
  BY NextInv
<1>2. ASSUME NEW ok \in BOOLEAN, Open(ok) \/ DeviceStep(ok) PROVE FirstInv'
  <2>1. CASE Open(ok)
    BY <1>1, <2>1, OpenFirst
  <2>2. CASE ScanReadBlock(ok)
    BY <1>1, <2>2, ScanFirst
  <2>3. CASE CheckWriteBlock(ok)
    BY <1>1, <2>3, CheckFirst
  <2>4. CASE DisposeStaleBlock(ok)
    BY <1>1, <2>4, DisposeStaleFirst
  <2>5. CASE AcquireBlock(ok)
    BY <1>1, <2>5, AcquireFirst
  <2>6. CASE DrainAfterRotation(ok)
    BY <1>1, <2>6, DrainAfterRotationFirst
  <2>7. CASE EvictAfterRotation(ok)
    BY <1>1, <2>7, EvictFirst
  <2>8. CASE \E opens \in BOOLEAN : ReadCurrent(ok, opens)
    BY <1>1, <2>8, ReadCurrentFirst
  <2>9. CASE DrainAfterMark(ok)
    BY <1>1, <2>9, DrainAfterMarkFirst
  <2> QED
    BY <1>2, <2>1, <2>2, <2>3, <2>4, <2>5, <2>6, <2>7, <2>8, <2>9 DEF DeviceStep
<1>3. CASE StoreStep
  <2>1. CASE AppendKept
    BY <1>1, <2>1, AppendKeptFirst
  <2>2. CASE AppendFails
    BY <1>1, <2>2, AppendFailsFirst
  <2>3. CASE SealFails
    BY <1>1, <2>3, SealFailsFirst
  <2> QED
    BY <1>2, <1>3, <2>1, <2>2, <2>3 DEF StoreStep
<1>4. CASE \E id \in Ids, bytes \in RecordSizes, policy \in Policies : Write(id, bytes, policy)
  BY <1>1, <1>4, WriteFirst
<1>5. CASE ReadNextUnsent
  BY <1>1, <1>5, ReadNextUnsentFirst
<1>6. CASE MarkSent
  BY <1>1, <1>6, MarkSentFirst
<1>7. CASE \E flag \in {"UNSENT", "HALF", "SENT"} : MarkSentFails(flag)
  BY <1>1, <1>7, MarkSentFailsFirst
<1>8. CASE Restart
  BY <1>1, <1>8, RestartFirst
<1>9. CASE StaleBlock
  BY <1>1, <1>9, StaleBlockFirst
<1>10. ASSUME NEW n \in Present,
              \/ \E r \in media[n].recs, state \in {"DAMAGED", "REJECTED"} : DamageRecord(n, r, state)
              \/ RemoveBlock(n)
       PROVE  FirstInv'
  BY <1>1, <1>10, DamageRecordFirst, RemoveBlockFirst
<1>11. CASE UNCHANGED vars
  BY <1>11, StutterFirst
<1> QED
  BY <1>3, <1>4, <1>5, <1>6, <1>7, <1>8, <1>9, <1>10, <1>11 DEF Next

\* Records are handed out in the order they were kept, and none again once its
\* mark is on the media, across rotations, evictions, power cuts, restarts that
\* find the run anew and blocks that the media lost (ReadNextUnsent after
\* ScanForExistingBlocks), as long as there are more numbers than the run spans.
THEOREM HandedOutOldestFirst == ASSUME Room PROVE Spec => []OldestFirst
<1>1. Init => IInv /\ FirstInv
  BY InitInv, InitFirst
<1>2. IInv /\ FirstInv /\ [Next]_vars => (IInv /\ FirstInv)'
  BY NextInv, NextFirst
<1>3. FirstInv => OldestFirst
  BY DEF FirstInv
<1> QED
  BY <1>1, <1>2, <1>3, PTL DEF Spec
=============================================================================
