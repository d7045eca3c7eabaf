-------------------------- MODULE FileBlockDevice --------------------------
(***************************************************************************)
(* Core/Source/SolidSyslogFileBlockDevice.c: a block device that keeps     *)
(* every block in a file of its own and reaches them all through one File, *)
(* left open on the block last used.  BlockIndex and HandleOpen are the    *)
(* fields of its OpenHandle.  An operation maps the device to the outcomes *)
(* it can have; its caller passes a valid index.                           *)
(***************************************************************************)
EXTENDS File

\* The device that Create makes over a file system.
Device(fs) ==
  [HandleOpen |-> FALSE, BlockIndex |-> 0,
   IsOpen |-> Closed.IsOpen, CloseOwed |-> Closed.CloseOwed, Path |-> Closed.Path,
   files |-> fs.files, medium |-> fs.medium, held |-> fs.held, strayed |-> fs.strayed]

\* Mutant: the block the handle is open on is not compared.
IsHandleOpenOnAnyBlock(d, n) == d.HandleOpen /\ d.IsOpen

IsHandleAlreadyOpenOnBlock(d, n) == d.HandleOpen /\ d.IsOpen /\ d.BlockIndex = n

\* Nothing reads the BlockIndex of a handle that is not open: it is taken to be 0.
HandleClosed(d) == [d EXCEPT !.HandleOpen = FALSE, !.BlockIndex = 0]

OpenHandleOnBlock(d, n) ==
  UNION {{IF o.ok
          THEN Outcome(TRUE, [o.dev EXCEPT !.BlockIndex = n, !.HandleOpen = TRUE])
          ELSE o : o \in Open(HandleClosed(c), n)} :
           c \in Close(d)}

EnsureHandleOpenOnBlock(d, n) ==
  IF IsHandleAlreadyOpenOnBlock(d, n) THEN {Outcome(TRUE, d)} ELSE OpenHandleOnBlock(d, n)

\* The outcomes of an operation on the file of block n: none of it is done when
\* the handle cannot be opened on it.
OnBlock(d, n, Operation(_)) ==
  LET ensured == EnsureHandleOpenOnBlock(d, n)
  IN  {e \in ensured : ~e.ok} \cup UNION {Operation(e.dev) : e \in {f \in ensured : f.ok}}

\* That the block was emptied is not part of the answer.
Acquire(d, n) ==
  LET Emptied(e) == {Outcome(TRUE, t) : t \in Truncate(e)}
  IN  OnBlock(d, n, Emptied)

CloseIfHoldingBlock(d, n) ==
  IF d.HandleOpen /\ d.BlockIndex = n
  THEN {HandleClosed(c) : c \in Close(d)} ELSE {d}

Dispose(d, n) == UNION {Delete(c, n) : c \in CloseIfHoldingBlock(d, n)}

BlockExists(d, n) == Exists(d, n)

ReadBlock(d, n, offset) ==
  LET ReadRecord(e) == Read(e, offset) IN OnBlock(d, n, ReadRecord)

AppendToBlock(d, n, record) ==
  LET AtEnd(e) ==
        UNION {IF s.ok THEN Write(e, s.size + 1, record) ELSE {Outcome(FALSE, e)} : s \in Size(e)}
  IN  OnBlock(d, n, AtEnd)

\* The flag of a record, which makes no record where there was none.
FlagOf(e, offset, record) ==
  [record EXCEPT !.block = IF offset \in DOMAIN e.files[e.Path] THEN e.files[e.Path][offset].block ELSE Torn]

WriteAt(d, n, offset, record) ==
  LET Overwrite(e) == Write(e, offset, FlagOf(e, offset, record)) IN OnBlock(d, n, Overwrite)

BlockSize(d, n) == OnBlock(d, n, Size)

\* Cleanup of the device, then of the File under it.
CleanupBoth(d) ==
  UNION {Cleanup(HandleClosed(c)) :
           c \in IF d.HandleOpen THEN Close(d) ELSE {d}}
=============================================================================
