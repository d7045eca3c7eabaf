----------------------------- MODULE FileBlocks -----------------------------
(***************************************************************************)
(* A block store on files: the calls its sequence of blocks makes of a     *)
(* FileBlockDevice as it writes, rotates, reads back, marks and drains, up *)
(* to a call that fails, which freezes it, a clean stop or a power cut;    *)
(* and what a restart finds of the run of blocks.  A record is abstracted  *)
(* to the block it was written to and its sent flag.                       *)
(***************************************************************************)
EXTENDS BlockSequence, FileBlockDevice

CONSTANTS
  BlockRecords,      \* bound: how many records fill a block
  MaxInterrupted     \* bound: how far past the ceiling the run may be

ASSUME BoundsAssumption ==
  BlockRecords \in Nat \ {0} /\ MaxInterrupted \in Nat /\ MaxBlocks + MaxInterrupted < Modulus

VARIABLES
  dev,        \* the file block device, its File and the file system
  up,         \* the store is open
  failed,     \* DeviceFailed: a call of the device failed
  present,    \* BlockPresent
  WriteBlockCorrupt,   \* the newest block was found to end in a record cut short
  oldest, newest,
  put,        \* ghost: block -> the sent flags of the records written or found
  taken,      \* ghost: the records and marks <<block, place, sent>> answered true for
  seen,       \* ghost: what the last call that learned something learned
  abandoned   \* ghost: the paths whose close failed with nobody left to owe it

vars == <<adapter, dev, up, failed, present, WriteBlockCorrupt, oldest, newest, put, taken, seen, abandoned>>

RunLength == ((newest - oldest + Modulus) % Modulus) + 1

NothingSeen == [block |-> 0, of |-> 0]

Init ==
  /\ adapter \in Adapters
  /\ dev = Device(EmptyFileSystem)
  /\ up = FALSE /\ failed = FALSE
  /\ present = {} /\ oldest = 0 /\ newest = 0 /\ WriteBlockCorrupt = FALSE
  /\ put = <<>> /\ taken = {} /\ seen = NothingSeen /\ abandoned = {}

Calls == up /\ ~failed

-----------------------------------------------------------------------------
(* Open.                                                                   *)
Existing == {n \in SequenceNumbers : BlockExists(dev, n)}

\* The records of a block up to the first that is not whole.
Whole(records) ==
  CHOOSE k \in 0..Len(records) : /\ \A i \in 1..k : records[i].block # Torn
                                 /\ k < Len(records) => records[k + 1].block = Torn

FlagsFound ==
  [n \in Existing |-> [k \in 1..Whole(dev.files[n]) |-> dev.files[n][k].sent]]

OnMedium ==
  UNION {{<<n, k, dev.medium[n][k].sent>> : k \in 1..Whole(dev.medium[n])} : n \in Existing}

\* An empty device: block 0 is acquired.
OpenEmpty ==
  /\ ~up /\ Existing = {}
  /\ \E o \in Acquire(dev, 0) :
       /\ dev' = o.dev
       /\ failed' = ~o.ok
       /\ present' = IF o.ok THEN {0} ELSE {}
       /\ put' = IF o.ok THEN With(<<>>, 0, <<>>) ELSE <<>>
  /\ up' = TRUE /\ oldest' = 0 /\ newest' = 0 /\ WriteBlockCorrupt' = FALSE
  /\ taken' = {} /\ seen' = NothingSeen
  /\ UNCHANGED <<adapter, abandoned>>

\* The block ends in a record cut short.
EndsTorn(records) == Whole(records) < Len(records)

\* CheckWriteBlock.  A seek that fails under its scan may make it take a sound
\* block that is not empty for a torn one, or a torn one for sound: the next write
\* to that block then goes astray, behind the record cut short.
CheckWriteBlock(d, n) ==
  LET torn == EndsTorn(d.files[n])
  IN  {[corrupt |-> corrupt, dev |-> d] : corrupt \in {torn, d.files[n] # <<>>}}
      \cup (IF torn /\ MayStray(d, n)
            THEN {[corrupt |-> FALSE, dev |-> [d EXCEPT !.strayed = @ \cup {n}]]} ELSE {})

\* ScanForExistingBlocks, the size of the block to write to, and CheckWriteBlock.
OpenExisting ==
  LET run == LocateRunBoundaries(Existing)
  IN  /\ ~up /\ Existing # {}
      /\ \E o \in BlockSize(dev, run.newest) :
           /\ \E c \in IF o.ok THEN CheckWriteBlock(o.dev, run.newest)
                       ELSE {[corrupt |-> FALSE, dev |-> o.dev]} :
                /\ dev' = c.dev
                /\ WriteBlockCorrupt' = c.corrupt
           /\ failed' = ~o.ok
           /\ seen' = IF o.ok THEN [block |-> run.newest, size |-> o.size, of |-> Len(dev.files[run.newest])]
                      ELSE NothingSeen
      /\ up' = TRUE /\ present' = Existing
      /\ oldest' = run.oldest /\ newest' = run.newest
      /\ put' = FlagsFound
      /\ taken' = OnMedium
      /\ UNCHANGED <<adapter, abandoned>>

-----------------------------------------------------------------------------
(* Writing.                                                                *)
AppendOne ==
  /\ Calls /\ ~WriteBlockCorrupt /\ Len(put[newest]) < BlockRecords
  /\ \E o \in AppendToBlock(dev, newest, [block |-> newest, sent |-> FALSE]) :
       /\ dev' = o.dev
       /\ failed' = ~o.ok
       /\ put' = IF o.ok THEN [put EXCEPT ![newest] = Append(@, FALSE)] ELSE put
       /\ taken' = IF o.ok THEN taken \cup {<<newest, Len(put[newest]) + 1, FALSE>>} ELSE taken
  /\ seen' = NothingSeen
  /\ UNCHANGED <<adapter, up, WriteBlockCorrupt, present, oldest, newest, abandoned>>

\* RotateToNextBlock, up to the eviction it may not get to: a stale block in the
\* way is disposed of first.
Rotate ==
  LET next == NextSequence(newest)
      ready == IF BlockExists(dev, next) THEN Dispose(dev, next) ELSE {Outcome(TRUE, dev)}
      acquired == {r \in ready : ~r.ok} \cup UNION {Acquire(r.dev, next) : r \in {q \in ready : q.ok}}
  IN  /\ Calls /\ RunLength < MaxBlocks + MaxInterrupted
      /\ WriteBlockCorrupt \/ Len(put[newest]) = BlockRecords
      /\ \E o \in acquired :
           /\ dev' = o.dev
           /\ failed' = ~o.ok
           /\ IF o.ok
              THEN /\ newest' = next /\ present' = present \cup {next}
                   /\ WriteBlockCorrupt' = FALSE
                   /\ put' = With(put, next, <<>>)
              ELSE /\ UNCHANGED <<newest, present, WriteBlockCorrupt>>
                   /\ put' = IF BlockExists(o.dev, next) THEN put ELSE Without(put, next)
           /\ taken' = {r \in taken : r[1] # next}
      /\ seen' = NothingSeen
      /\ UNCHANGED <<adapter, up, oldest, abandoned>>

-----------------------------------------------------------------------------
(* Reading back, from the oldest block.                                    *)
AskSize ==
  /\ Calls /\ oldest # newest
  /\ \E o \in BlockSize(dev, oldest) :
       /\ dev' = o.dev
       /\ failed' = ~o.ok
       /\ seen' = IF o.ok THEN [block |-> oldest, size |-> o.size, of |-> Len(dev.files[oldest])]
                  ELSE NothingSeen
  /\ UNCHANGED <<adapter, up, WriteBlockCorrupt, present, oldest, newest, put, taken, abandoned>>

ReadOne(k) ==
  /\ Calls /\ k \in DOMAIN put[oldest]
  /\ \E o \in ReadBlock(dev, oldest, k) :
       /\ dev' = o.dev
       /\ failed' = ~o.ok
       /\ seen' = IF o.ok THEN [block |-> oldest, record |-> o.record, astray |-> o.astray, of |-> oldest] ELSE NothingSeen
  /\ UNCHANGED <<adapter, up, WriteBlockCorrupt, present, oldest, newest, put, taken, abandoned>>

\* The first record not sent, which is the one last read.
MarkSent(k) ==
  /\ Calls /\ k \in DOMAIN put[oldest]
  /\ ~put[oldest][k] /\ \A j \in 1..k - 1 : put[oldest][j]
  /\ \E o \in WriteAt(dev, oldest, k, [block |-> oldest, sent |-> TRUE]) :
       /\ dev' = o.dev
       /\ failed' = ~o.ok
       /\ put' = IF o.ok THEN [put EXCEPT ![oldest][k] = TRUE] ELSE put
       /\ taken' = IF o.ok THEN taken \cup {<<oldest, k, TRUE>>} ELSE taken
  /\ seen' = NothingSeen
  /\ UNCHANGED <<adapter, up, WriteBlockCorrupt, present, oldest, newest, abandoned>>

\* The oldest block is drained, left or evicted.
DisposeOldest ==
  /\ Calls /\ oldest # newest
  /\ \E o \in Dispose(dev, oldest) :
       /\ dev' = o.dev
       /\ failed' = ~o.ok
       /\ IF o.ok
          THEN LET gone == present \ {oldest}
               IN  /\ present' = gone
                   /\ oldest' = NextPresentSequence([BlockPresent |-> gone], oldest)
                   /\ put' = Without(put, oldest)
                   /\ taken' = {r \in taken : r[1] # oldest}
          ELSE UNCHANGED <<present, oldest, put, taken>>
  /\ seen' = NothingSeen
  /\ UNCHANGED <<adapter, up, WriteBlockCorrupt, newest, abandoned>>

-----------------------------------------------------------------------------
(* Stopping.                                                               *)
\* Nothing of the store is left but the files.
Forgotten ==
  /\ up' = FALSE /\ failed' = FALSE
  /\ present' = {} /\ oldest' = 0 /\ newest' = 0 /\ WriteBlockCorrupt' = FALSE
  /\ put' = <<>> /\ taken' = {} /\ seen' = NothingSeen

\* The objects are destroyed; a new store may be created.
Stop ==
  /\ up
  /\ \E c \in CleanupBoth(dev) :
       /\ dev' = [c EXCEPT !.Path = 0]
       /\ abandoned' = c.held
  /\ Forgotten
  /\ UNCHANGED adapter

\* The medium is left with what was committed and with any of the rest; a file
\* system check may then remove a block from inside the run.
PowerCut ==
  /\ up
  /\ \E written \in SUBSET {n \in DOMAIN dev.files : dev.files[n] # dev.medium[n]} :
     \E lost \in {{}} \cup {{n} : n \in Existing \ {oldest, newest}} :
       LET left == [n \in Existing \ lost |-> IF n \in written THEN dev.files[n] ELSE dev.medium[n]]
       IN  dev' = Device([files |-> left, medium |-> left, held |-> {}, strayed |-> dev.strayed \ lost])
  /\ Forgotten /\ abandoned' = {}
  /\ UNCHANGED adapter

Next ==
  \/ OpenEmpty \/ OpenExisting
  \/ AppendOne \/ Rotate \/ AskSize
  \/ \E k \in 1..BlockRecords : ReadOne(k) \/ MarkSent(k)
  \/ DisposeOldest \/ Stop \/ PowerCut

Spec == Init /\ [][Next]_vars

-----------------------------------------------------------------------------
\* A block holds the records written to it, each at its place and marked as sent
\* when it was marked, and nothing else but what a failed write left at its end;
\* and a read, or a size, is of the block asked for.  One handle serves every
\* block and stays open between the calls.  A block is not answered for once the
\* seek of a write to it, or of the check of its end at the open, failed, which
\* SeekTo reports (SEEK_FAILED) and its caller is not told: but what a read then
\* gives is still of that block, or is torn.
BlocksHoldWhatWasPut ==
  /\ up => \A n \in DOMAIN put :
       /\ n \in DOMAIN dev.files
       /\ n \notin dev.strayed =>
            /\ Len(put[n]) <= Len(dev.files[n])
            /\ \A k \in DOMAIN put[n] : /\ dev.files[n][k].block = n
                                       /\ put[n][k] => dev.files[n][k].sent
            /\ ~failed => /\ Whole(dev.files[n]) = Len(put[n])
                          /\ \A k \in DOMAIN put[n] : dev.files[n][k].sent = put[n][k]
  /\ "size" \in DOMAIN seen => seen.size = seen.of
  /\ "record" \in DOMAIN seen =>
       \/ seen.record.block = seen.of
       \/ seen.record.block = Torn /\ (seen.astray \/ seen.of \in dev.strayed)

\* The adapters that commit each write: what they answered true for is on the
\* medium, so a power cut does not take it.
CommittingAdapters == {"FatFs", "VxWorks64", "LittleFs"}

\* A record the device took, and a mark it made, survive a power cut at any
\* point, on the adapters whose Write commits, in a block not in strayed: the
\* true answer to a write whose seek failed is for bytes elsewhere.
TakenIsOnMedium ==
  adapter \in CommittingAdapters =>
    \A r \in taken : LET n == r[1] k == r[2]
                     IN  /\ n \in DOMAIN dev.medium
                         /\ n \notin dev.strayed => /\ k \in DOMAIN dev.medium[n]
                                                    /\ dev.medium[n][k].block = n
                                                    /\ r[3] => dev.medium[n][k].sent

\* The file system has no file object open that the File does not know of: the
\* one it has open, or one it still owes a close.
FileObjectsKnown ==
  dev.held \subseteq abandoned \cup (IF dev.IsOpen \/ dev.CloseOwed THEN {dev.Path} ELSE {})

\* The longest hole: d numbers in a row inside the run with no block.
Hole(d) ==
  \E n \in SequenceNumbers :
    \A i \in 0..d - 1 :
      /\ (n + i) % Modulus \notin present
      /\ ((n + i - oldest + Modulus) % Modulus) < RunLength

FreeGap == Modulus - RunLength

\* ScanForExistingBlocks finds the run: its oldest and newest block, wherever it
\* straddles the end of the sequence space, as long as no hole is as long as the
\* free gap.
ResumeFindsRun ==
  Calls /\ ~Hole(FreeGap) => LocateRunBoundaries(Existing) = [oldest |-> oldest, newest |-> newest]
=============================================================================
