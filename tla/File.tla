-------------------------------- MODULE File --------------------------------
(***************************************************************************)
(* The File vtable (Core/Interface/SolidSyslogFileDefinition.h) and its    *)
(* adapters to Posix, Windows, FatFs, VxWorks, FreeRTOS-Plus-FAT and       *)
(* littlefs (Platform/*/Source/*File.c).                                   *)
(*                                                                         *)
(* The adapters differ in the calls an operation makes and in how they     *)
(* read the answers: each difference is a table.  An operation maps the    *)
(* device, a record of the adapter's fields and of the file system behind  *)
(* it, to the outcomes it can have.  A file is a sequence of records.  A   *)
(* transfer is the seek to its offset, which reports a failure and has no  *)
(* result, and then the transfer, wherever the file stands.                *)
(***************************************************************************)
EXTENDS Integers, Sequences, FiniteSets

CONSTANTS
  Adapters,     \* the adapters of this run
  MaxAstray     \* bound: on how many files, once on each, a write goes astray

ASSUME AdaptersAssumption ==
  Adapters \subseteq {"Posix", "Windows", "FatFs", "VxWorks64", "PlusFat", "LittleFs"}

ASSUME AstrayAssumption == MaxAstray \in Nat

VARIABLE adapter      \* the one in use

Torn == -1            \* the block of no whole record
NoPath == -1          \* where an open file is that was removed

\* What Initialise makes of the adapter.  The Path its file is open on, which the
\* file system keeps for it, is 0 when there is none.
Closed == [IsOpen |-> FALSE, CloseOwed |-> FALSE, Path |-> 0]

EmptyFileSystem ==
  [files |-> <<>>,    \* what the program reads back, by path
   medium |-> <<>>,   \* what of it a power cut leaves
   held |-> {},       \* the paths the file system has an open object for
   strayed |-> {}]    \* ghost: the paths a write went astray on, or will, a seek having failed

Outcome(ok, d) == [ok |-> ok, dev |-> d]

-----------------------------------------------------------------------------
(* Open: the calls in turn.  "open" fails on an absent path and leads to    *)
(* the next call, "openOrCreate" makes it, "create" makes it empty.        *)
OpenPosix == <<"openOrCreate">>
OpenWindows == <<"openOrCreate">>
OpenVxWorks64 == <<"openOrCreate">>
OpenLittleFs == <<"openOrCreate">>
OpenFatFs == <<"settle", "openOrCreate">>

OpenPlusFat == <<"open", "create">>

OpenCalls ==
  CASE adapter = "Posix" -> OpenPosix
    [] adapter = "Windows" -> OpenWindows
    [] adapter = "VxWorks64" -> OpenVxWorks64
    [] adapter = "LittleFs" -> OpenLittleFs
    [] adapter = "FatFs" -> OpenFatFs
    [] adapter = "PlusFat" -> OpenPlusFat

(* Close: what the adapter has left of a file the file system failed to     *)
(* close.                                                                  *)
ClosePosix == "nothing"
CloseWindows == "nothing"
CloseVxWorks64 == "nothing"
CloseLittleFs == "nothing"
ClosePlusFat == "nothing"

\* Mutant: the file object FatFs kept is forgotten.
CloseFatFsForgets == "nothing"

CloseFatFs == "owed"

LeftByFailedClose ==
  CASE adapter = "Posix" -> ClosePosix
    [] adapter = "Windows" -> CloseWindows
    [] adapter = "VxWorks64" -> CloseVxWorks64
    [] adapter = "LittleFs" -> CloseLittleFs
    [] adapter = "FatFs" -> CloseFatFs
    [] adapter = "PlusFat" -> ClosePlusFat

(* Read and Write: how much of a transfer is a transfer, and the calls that *)
(* commit a whole write, any of which may fail it.                         *)
TransferPosix == [done |-> {"whole"}, commits |-> <<>>]
TransferWindows == [done |-> {"whole"}, commits |-> <<>>]
TransferVxWorks64 == [done |-> {"whole"}, commits |-> <<"FIOSYNC", "FIOCOMMITFS">>]
TransferLittleFs == [done |-> {"whole"}, commits |-> <<"lfs_file_sync">>]
TransferPlusFat == [done |-> {"whole"}, commits |-> <<"FF_FlushCache">>]

\* Mutant: the write is not synced.
TransferFatFsUnsynced == [done |-> {"whole"}, commits |-> <<>>]

TransferFatFs == [done |-> {"whole"}, commits |-> <<"f_sync">>]

Transfer ==
  CASE adapter = "Posix" -> TransferPosix
    [] adapter = "Windows" -> TransferWindows
    [] adapter = "VxWorks64" -> TransferVxWorks64
    [] adapter = "LittleFs" -> TransferLittleFs
    [] adapter = "FatFs" -> TransferFatFs
    [] adapter = "PlusFat" -> TransferPlusFat

(* Size and Truncate: whether the length may not be known, and the calls    *)
(* that empty the file, the first to fail ending them.                     *)
LengthPosix == [mayFail |-> TRUE, truncate |-> <<"ftruncate">>]
LengthWindows == [mayFail |-> TRUE, truncate |-> <<"_chsize_s">>]
LengthVxWorks64 == [mayFail |-> TRUE, truncate |-> <<"FIOTRUNC">>]
LengthLittleFs == [mayFail |-> TRUE, truncate |-> <<"lfs_file_truncate", "lfs_file_seek">>]
LengthFatFs == [mayFail |-> FALSE, truncate |-> <<"f_lseek", "f_truncate">>]
LengthPlusFat == [mayFail |-> TRUE, truncate |-> <<"ff_fseek", "ff_seteof">>]

Length ==
  CASE adapter = "Posix" -> LengthPosix
    [] adapter = "Windows" -> LengthWindows
    [] adapter = "VxWorks64" -> LengthVxWorks64
    [] adapter = "LittleFs" -> LengthLittleFs
    [] adapter = "FatFs" -> LengthFatFs
    [] adapter = "PlusFat" -> LengthPlusFat

(* Delete: the answers that leave no file at the path.                      *)
DeletePosix == {"ok", "ENOENT"}
DeleteWindows == {"ok", "ENOENT"}
DeleteVxWorks64 == {"ok", "ENOENT", "S_dosFsLib_FILE_NOT_FOUND"}
DeleteLittleFs == {"ok", "LFS_ERR_NOENT"}
DeleteFatFs == {"ok", "FR_NO_FILE", "FR_NO_PATH"}
DeletePlusFat == {"ok", "ENOENT", "ENOTDIR"}

RemovedOrAbsent ==
  CASE adapter = "Posix" -> DeletePosix
    [] adapter = "Windows" -> DeleteWindows
    [] adapter = "VxWorks64" -> DeleteVxWorks64
    [] adapter = "LittleFs" -> DeleteLittleFs
    [] adapter = "FatFs" -> DeleteFatFs
    [] adapter = "PlusFat" -> DeletePlusFat

-----------------------------------------------------------------------------
(* The file system, external: what its calls do to the files.              *)
With(content, p, records) ==
  [q \in DOMAIN content \cup {p} |-> IF q = p THEN records ELSE content[q]]
Without(content, p) == [q \in DOMAIN content \ {p} |-> content[q]]

\* What has been written to the open file reaches the medium.
Committed(d) ==
  IF d.Path \in DOMAIN d.files
  THEN [d EXCEPT !.medium = With(d.medium, d.Path, d.files[d.Path])] ELSE d

\* FF_FlushCache: the records reach the medium, and the length of the file does not.
Flushed(d) ==
  [d EXCEPT !.medium = With(d.medium, d.Path,
     SubSeq(d.files[d.Path], 1, Len(d.medium[d.Path])))]

\* What a commit call that answers ok has done.
AfterCommit(d, name) == IF name = "FF_FlushCache" THEN Flushed(d) ELSE Committed(d)

CreatedEmpty(d, p) ==
  [d EXCEPT !.files = With(d.files, p, <<>>), !.medium = With(d.medium, p, <<>>)]

\* FatFs locks a file for as long as it has an object open on it.
Locked(d, p) == adapter = "FatFs" /\ p \in d.held

\* A file removed while it is open is written and read still, on no path.
Removed(d, p) ==
  LET gone == [d EXCEPT !.files = Without(d.files, p), !.medium = Without(d.medium, p),
                        !.strayed = @ \ {p}]
  IN  IF d.IsOpen /\ d.Path = p
      THEN [gone EXCEPT !.Path = NoPath, !.files = With(@, NoPath, d.files[p]),
                        !.medium = With(@, NoPath, <<>>)]
      ELSE gone

DeleteAnswers(d, p) ==
  {"failed"} \cup (IF p \notin DOMAIN d.files THEN RemovedOrAbsent \ {"ok"}
                   ELSE IF Locked(d, p) THEN {} ELSE {"ok"})

-----------------------------------------------------------------------------
(* The operations of the vtable.                                           *)
\* The file system closes the file, with what was written to it, or fails to.
\* FatFs then keeps its object, unless it no longer knows of one.
CloseOutcomes(d) ==
  LET closed == [d EXCEPT !.IsOpen = FALSE, !.CloseOwed = FALSE]
      released(e) == [e EXCEPT !.held = @ \ {d.Path}, !.Path = 0]
  IN  {released(closed)}
      \cup (IF adapter \in {"Posix", "Windows"} THEN {} ELSE {released(Committed(closed))})
      \cup (IF adapter = "FatFs" THEN {[closed EXCEPT !.CloseOwed = (LeftByFailedClose = "owed")]}
            ELSE {})

Close(d) == IF d.IsOpen THEN CloseOutcomes(d) ELSE {d}

\* SettleOwedClose: only FatFs owes one.
SettleOwedClose(d) == IF d.CloseOwed THEN CloseOutcomes(d) ELSE {d}

OpenedOn(d, p) == [d EXCEPT !.IsOpen = TRUE, !.Path = p, !.held = @ \cup {p}]

\* The path is refused, opened, or found absent and made: by the call that opened
\* it or by one that follows.
OpenSettled(d, p) ==
  {Outcome(FALSE, d)} \cup
  IF Locked(d, p) THEN {}
  ELSE IF p \in DOMAIN d.files THEN {Outcome(TRUE, OpenedOn(d, p))}
  ELSE IF OpenCalls[Len(OpenCalls)] \in {"create", "openOrCreate"}
  THEN {Outcome(TRUE, OpenedOn(CreatedEmpty(d, p), p))}
  ELSE {}

Open(d, p) ==
  UNION {IF s.CloseOwed THEN {Outcome(FALSE, s)} ELSE OpenSettled(s, p) :
           s \in IF OpenCalls[1] = "settle" THEN SettleOwedClose(d) ELSE {d}}

\* Cleanup closes the file, or tries a close still owed once more, and forgets it.
Cleanup(d) ==
  {[c EXCEPT !.CloseOwed = FALSE] : c \in IF d.IsOpen THEN Close(d) ELSE SettleOwedClose(d)}

TornRecord(sent) == [block |-> Torn, sent |-> sent]

\* SeekTo and Read.  The record of an offset past the end is not there to be read.
\* Where the seek failed, what is read is what the file stands at: any of its
\* records, or bytes of two.
Read(d, offset) ==
  LET readFrom == IF d.Path \in DOMAIN d.files THEN d.files[d.Path] ELSE <<>>
      Got(ok, record, astray) == [ok |-> ok, dev |-> d, record |-> record, astray |-> astray]
  IN  {Got(FALSE, TornRecord(FALSE), FALSE)}
      \cup {Got(TRUE, readFrom[i], FALSE) : i \in {offset} \cap DOMAIN readFrom}
      \cup {Got(TRUE, readFrom[i], TRUE) : i \in DOMAIN readFrom}
      \cup {Got(TRUE, TornRecord(FALSE), TRUE) : i \in DOMAIN readFrom}

\* What is written past the end leaves a gap before it.
Written(d, offset, record) ==
  [d EXCEPT !.files = With(d.files, d.Path,
     [i \in (1..offset) \cup DOMAIN d.files[d.Path] |->
        CASE i = offset -> record
          [] i # offset /\ i \in DOMAIN d.files[d.Path] -> d.files[d.Path][i]
          [] OTHER -> TornRecord(FALSE)])]

\* Where the seek failed, the record is laid wherever the file stands: over
\* another, across two, or at the end.
LaidOver(f, from, to, record) ==
  [i \in (1..to) \cup DOMAIN f |-> IF i \in from..to THEN record ELSE f[i]]

Astray(d, record) ==
  LET f == d.files[d.Path]
      torn == TornRecord(record.sent)
      laid == {LaidOver(f, p, p, record) : p \in 1..Len(f) + 1}
              \cup {LaidOver(f, p, p, torn) : p \in 1..Len(f) + 1}
              \cup {LaidOver(f, p, p + 1, torn) : p \in 1..Len(f)}
  IN  {[d EXCEPT !.strayed = @ \cup {d.Path}, !.files = With(d.files, d.Path, g)] : g \in laid}

MayStray(d, p) == p \notin d.strayed /\ Cardinality(d.strayed) < MaxAstray

\* The device after each of the commits, in turn.
Commits(d) ==
  LET after[i \in 0..Len(Transfer.commits)] ==
        IF i = 0 THEN d ELSE AfterCommit(after[i - 1], Transfer.commits[i])
  IN  after

\* A transfer may fail, stop short, or be whole, and then each commit may fail it.
Transferred(d, short, whole) ==
  LET done == Commits(whole)
  IN  {Outcome("failed" \in Transfer.done, d),
       Outcome("short" \in Transfer.done, short),
       Outcome(TRUE, done[Len(Transfer.commits)])}
      \cup {Outcome(FALSE, done[i - 1]) : i \in 1..Len(Transfer.commits)}

\* SeekTo and Write: the record goes to the offset, the end included.  What
\* overwrites a record is its sent flag, a byte, which has no part to stop at.
WriteSought(d, offset, record) ==
  Transferred(d, IF offset \in DOMAIN d.files[d.Path] THEN d
                 ELSE Written(d, offset, TornRecord(record.sent)),
              Written(d, offset, record))

Write(d, offset, record) ==
  WriteSought(d, offset, record)
  \cup (IF MayStray(d, d.Path) THEN UNION {Transferred(d, w, w) : w \in Astray(d, record)} ELSE {})

Size(d) ==
  {[ok |-> TRUE, dev |-> d, size |-> Len(d.files[d.Path])]} \cup
  IF Length.mayFail THEN {[ok |-> FALSE, dev |-> d, size |-> 0]} ELSE {}

\* No result: a truncate that fails leaves the file as it was.
Truncate(d) == {d, [d EXCEPT !.files[d.Path] = <<>>]}

Exists(d, p) == p \in DOMAIN d.files

Delete(d, p) ==
  {Outcome(answer \in RemovedOrAbsent, IF answer = "ok" THEN Removed(d, p) ELSE d) :
     answer \in DeleteAnswers(d, p)}
=============================================================================
