-------------------------- MODULE FileBlocksProofs --------------------------
(***************************************************************************)
(* Proofs about FileBlocks: the one handle of the file block device and    *)
(* the file objects behind it, what the files and the medium hold of what  *)
(* was written, and what a restart finds of the run.                       *)
(***************************************************************************)
EXTENDS FileBlocks, BlockSequenceProofs

-----------------------------------------------------------------------------
(* A file *)

Records == [block : SequenceNumbers \cup {Torn}, sent : BOOLEAN]

\* The file of block n and what of it is on the medium: its records are the
\* block's or cut short.
FileShape(n, f, m) ==
  /\ f \in Seq(Records) /\ m \in Seq(Records) /\ Len(m) <= Len(f)
  /\ \A k \in 1..Len(f) : f[k].block \in {n, Torn}
  /\ \A k \in 1..Len(m) : m[k].block \in {n, Torn}

\* As long as no write to the file went astray the medium is behind by records at
\* the end and by marks, never by anything else.
FileInv(n, f, m) ==
  /\ FileShape(n, f, m)
  /\ \A k \in 1..Len(m) : m[k].block = f[k].block /\ (m[k].sent => f[k].sent)

\* What may become of them: records are added and marks are made, and the medium
\* follows.
Grows(f, m, f2, m2) ==
  /\ Len(f) <= Len(f2) /\ Len(m) <= Len(m2)
  /\ \A k \in 1..Len(f) : f2[k].block = f[k].block /\ (f[k].sent => f2[k].sent)
  /\ \A k \in 1..Len(m) : m2[k].block = m[k].block /\ (m[k].sent => m2[k].sent)

\* The medium that a file leaves: as it was, all of the file, or as much of it
\* as the medium had.
Follows(m, f2, m2) == m2 = m \/ m2 = f2 \/ m2 = SubSeq(f2, 1, Len(m))

LEMMA ShapeHolds ==
  ASSUME NEW n, NEW f, NEW m, FileShape(n, f, m), NEW f2 \in Seq(Records), NEW m2,
         Len(f) <= Len(f2), \A k \in 1..Len(f2) : f2[k].block \in {n, Torn},
         Follows(m, f2, m2)
  PROVE  FileShape(n, f2, m2)
<1>1. CASE m2 = m
  BY <1>1 DEF FileShape
<1>2. CASE m2 = f2
  BY <1>2 DEF FileShape
<1>3. CASE m2 = SubSeq(f2, 1, Len(m))
  <2>1. Len(m) \in Nat /\ Len(f) \in Nat /\ Len(f2) \in Nat /\ Len(m) <= Len(f2)
    BY DEF FileShape
  <2>2. m2 \in Seq(Records) /\ Len(m2) = Len(m) /\ \A k \in 1..Len(m) : m2[k] = f2[k]
    BY <1>3, <2>1
  <2> QED
    BY <2>1, <2>2 DEF FileShape
<1> QED
  BY <1>1, <1>2, <1>3 DEF Follows

LEMMA GrowsAndHolds ==
  ASSUME NEW n, NEW f, NEW m, FileInv(n, f, m), NEW f2 \in Seq(Records), NEW m2,
         Len(f) <= Len(f2),
         \A k \in 1..Len(f2) : f2[k].block \in {n, Torn},
         \A k \in 1..Len(f) : f2[k].block = f[k].block /\ (f[k].sent => f2[k].sent),
         Follows(m, f2, m2)
  PROVE  FileInv(n, f2, m2) /\ Grows(f, m, f2, m2)
<1>0. FileShape(n, f2, m2) /\ FileShape(n, f, m)
  BY ShapeHolds DEF FileInv
<1>1. CASE m2 = m
  BY <1>0, <1>1 DEF FileInv, FileShape, Grows
<1>2. CASE m2 = f2
  BY <1>0, <1>2 DEF FileInv, FileShape, Grows
<1>3. CASE m2 = SubSeq(f2, 1, Len(m))
  <2>1. Len(m) \in Nat /\ Len(f) \in Nat /\ Len(f2) \in Nat /\ Len(m) <= Len(f2)
    BY DEF FileInv, FileShape
  <2>2. m2 \in Seq(Records) /\ Len(m2) = Len(m) /\ \A k \in 1..Len(m) : m2[k] = f2[k]
    BY <1>3, <2>1
  <2> QED
    BY <1>0, <2>1, <2>2 DEF FileInv, FileShape, Grows
<1> QED
  BY <1>1, <1>2, <1>3 DEF Follows

LEMMA GrowsAgain ==
  ASSUME NEW n, NEW f, NEW m, FileInv(n, f, m), NEW f1, NEW m1, FileInv(n, f1, m1),
         NEW f2, NEW m2, FileInv(n, f2, m2), Grows(f, m, f1, m1), Grows(f1, m1, f2, m2)
  PROVE  Grows(f, m, f2, m2)
<1>1. /\ Len(f) \in Nat /\ Len(f1) \in Nat /\ Len(f2) \in Nat
      /\ Len(m) \in Nat /\ Len(m1) \in Nat /\ Len(m2) \in Nat
  BY DEF FileInv, FileShape
<1>2. \A k \in 1..Len(f) : k \in 1..Len(f1)
  BY <1>1 DEF Grows
<1>3. \A k \in 1..Len(m) : k \in 1..Len(m1)
  BY <1>1 DEF Grows
<1> QED
  BY <1>1, <1>2, <1>3 DEF Grows

-----------------------------------------------------------------------------
(* The device *)

\* d has the fields of the device, its File and the file system, and no others.
IsDevice(d) ==
  d = [HandleOpen |-> d.HandleOpen, BlockIndex |-> d.BlockIndex, IsOpen |-> d.IsOpen,
       CloseOwed |-> d.CloseOwed, Path |-> d.Path, files |-> d.files,
       medium |-> d.medium, held |-> d.held, strayed |-> d.strayed]

\* The handle is open when the File is, on the block the File is on; only FatFs
\* owes a close; and a file object held is the File's, or was abandoned (in a).
HandleInv(d, a) ==
  /\ IsDevice(d)
  /\ (d.HandleOpen \/ d.IsOpen) =>
       /\ d.HandleOpen = TRUE /\ d.IsOpen = TRUE /\ d.CloseOwed = FALSE
       /\ d.Path = d.BlockIndex /\ d.Path \in DOMAIN d.files
  /\ d.CloseOwed => adapter = "FatFs"
  /\ d.held \subseteq a \cup (IF d.IsOpen \/ d.CloseOwed THEN {d.Path} ELSE {})

FilesInv(d) ==
  /\ DOMAIN d.files \subseteq SequenceNumbers /\ DOMAIN d.medium = DOMAIN d.files
  /\ \A n \in DOMAIN d.files : FileShape(n, d.files[n], d.medium[n])
  /\ \A n \in DOMAIN d.files \ d.strayed : FileInv(n, d.files[n], d.medium[n])

\* The device with the same files, of which more may be on the medium.
Settled(d, e) ==
  /\ e.files = d.files /\ DOMAIN e.medium = DOMAIN d.medium /\ e.strayed = d.strayed
  /\ \A n \in DOMAIN d.medium : e.medium[n] = d.medium[n] \/ e.medium[n] = d.files[n]

\* The device with the same blocks: what is in one only grows, until a write goes
\* astray on it.
Grown(d, e) ==
  /\ DOMAIN e.files = DOMAIN d.files /\ DOMAIN e.medium = DOMAIN d.files
  /\ d.strayed \subseteq e.strayed
  /\ \A n \in DOMAIN d.files \ e.strayed : Grows(d.files[n], d.medium[n], e.files[n], e.medium[n])

\* The same file, all or as much of it on the medium as there was.
LEMMA SameFile ==
  ASSUME NEW n, NEW f, NEW m, FileShape(n, f, m), NEW m2, m2 = m \/ m2 = f
  PROVE  /\ FileShape(n, f, m2)
         /\ FileInv(n, f, m) => FileInv(n, f, m2) /\ Grows(f, m, f, m2)
<1>1. f \in Seq(Records) /\ Len(f) \in Nat /\ Len(f) <= Len(f) /\ \A k \in 1..Len(f) : f[k].block \in {n, Torn}
  BY DEF FileShape
<1>2. Follows(m, f, m2)
  BY DEF Follows
<1>3. FileShape(n, f, m2)
  BY <1>1, <1>2, ShapeHolds
<1>4. ASSUME FileInv(n, f, m) PROVE FileInv(n, f, m2) /\ Grows(f, m, f, m2)
  BY <1>1, <1>2, <1>4, GrowsAndHolds
<1> QED
  BY <1>3, <1>4

LEMMA SettledGrows ==
  ASSUME NEW d, FilesInv(d), NEW e, Settled(d, e)
  PROVE  FilesInv(e) /\ Grown(d, e)
<1> SUFFICES ASSUME NEW n \in DOMAIN d.files
             PROVE  /\ FileShape(n, e.files[n], e.medium[n])
                    /\ n \notin d.strayed => /\ FileInv(n, e.files[n], e.medium[n])
                                             /\ Grows(d.files[n], d.medium[n], e.files[n], e.medium[n])
  BY DEF FilesInv, Settled, Grown
<1>1. PICK f, m, f2, m2 : f = d.files[n] /\ m = d.medium[n] /\ f2 = e.files[n] /\ m2 = e.medium[n]
  OBVIOUS
<1>2. FileShape(n, f, m) /\ (n \notin d.strayed => FileInv(n, f, m)) /\ f2 = f /\ (m2 = m \/ m2 = f)
  BY <1>1 DEF FilesInv, Settled
<1> QED
  BY <1>1, <1>2, SameFile


LEMMA GrownAgain ==
  ASSUME NEW d, FilesInv(d), NEW e, FilesInv(e), NEW c, FilesInv(c), Grown(d, e), Grown(e, c)
  PROVE  Grown(d, c)
<1> SUFFICES ASSUME NEW n \in DOMAIN d.files, n \notin c.strayed
             PROVE  Grows(d.files[n], d.medium[n], c.files[n], c.medium[n])
  BY DEF FilesInv, Grown
<1>1. /\ FileInv(n, d.files[n], d.medium[n]) /\ FileInv(n, e.files[n], e.medium[n])
      /\ FileInv(n, c.files[n], c.medium[n])
  BY DEF FilesInv, Grown
<1>2. /\ Grows(d.files[n], d.medium[n], e.files[n], e.medium[n])
      /\ Grows(e.files[n], e.medium[n], c.files[n], c.medium[n])
  BY DEF Grown
<1> QED
  BY <1>1, <1>2, GrowsAgain

-----------------------------------------------------------------------------
(* The calls of the File *)

\* What a close of any kind does: the file is closed, or FatFs keeps it.
IsClosing(d, e, a) ==
  /\ IsDevice(e) /\ Settled(d, e)
  /\ e.IsOpen = FALSE /\ (e.CloseOwed => adapter = "FatFs")
  /\ e.held \subseteq a \cup (IF e.CloseOwed THEN {e.Path} ELSE {})
  /\ e.HandleOpen = d.HandleOpen /\ e.BlockIndex = d.BlockIndex

LEMMA CloseOutcomesIs ==
  ASSUME NEW d, NEW a, IsDevice(d), FilesInv(d), d.held \subseteq a \cup {d.Path}, NEW e \in CloseOutcomes(d)
  PROVE  IsClosing(d, e, a)
<1>1. PICK c : c = [d EXCEPT !.IsOpen = FALSE, !.CloseOwed = FALSE]
  OBVIOUS
<1>2. /\ IsDevice(c) /\ c.IsOpen = FALSE /\ c.CloseOwed = FALSE /\ c.Path = d.Path
      /\ c.files = d.files /\ c.medium = d.medium /\ c.held = d.held /\ c.strayed = d.strayed
      /\ c.HandleOpen = d.HandleOpen /\ c.BlockIndex = d.BlockIndex
  BY <1>1 DEF IsDevice
<1>3. PICK g : g = Committed(c)
  OBVIOUS
<1>4. /\ IsDevice(g) /\ g.IsOpen = FALSE /\ g.CloseOwed = FALSE /\ g.Path = d.Path /\ g.held = d.held
      /\ g.HandleOpen = d.HandleOpen /\ g.BlockIndex = d.BlockIndex
      /\ Settled(d, g)
  <2>1. CASE c.Path \in DOMAIN c.files
    <3>1. PICK m : m = With(c.medium, c.Path, c.files[c.Path])
      OBVIOUS
    <3>2. g = [c EXCEPT !.medium = m]
      BY <1>3, <2>1, <3>1 DEF Committed
    <3>3. /\ IsDevice(g) /\ g.medium = m /\ g.files = d.files /\ g.strayed = d.strayed /\ g.IsOpen = FALSE /\ g.CloseOwed = FALSE
          /\ g.Path = d.Path /\ g.held = d.held
          /\ g.HandleOpen = d.HandleOpen /\ g.BlockIndex = d.BlockIndex
      BY <1>2, <3>2 DEF IsDevice
    <3>4. DOMAIN m = DOMAIN d.medium /\ \A n \in DOMAIN d.medium : m[n] = d.medium[n] \/ m[n] = d.files[n]
      BY <1>2, <2>1, <3>1 DEF With, FilesInv
    <3> QED
      BY <3>3, <3>4 DEF Settled
  <2>2. CASE ~(c.Path \in DOMAIN c.files)
    BY <1>2, <1>3, <2>2 DEF Committed, Settled
  <2> QED
    BY <2>1, <2>2
<1>5. ASSUME NEW x, x \in {c, g}, NEW y, y = [x EXCEPT !.held = @ \ {d.Path}, !.Path = 0]
      PROVE  IsClosing(d, y, a)
  <2>1. /\ IsDevice(x) /\ x.IsOpen = FALSE /\ x.CloseOwed = FALSE /\ x.held = d.held
        /\ x.HandleOpen = d.HandleOpen /\ x.BlockIndex = d.BlockIndex /\ Settled(d, x)
    BY <1>2, <1>4, <1>5 DEF Settled
  <2>2. /\ IsDevice(y) /\ y.IsOpen = FALSE /\ y.CloseOwed = FALSE /\ y.held = d.held \ {d.Path}
        /\ y.HandleOpen = d.HandleOpen /\ y.BlockIndex = d.BlockIndex
        /\ y.files = x.files /\ y.medium = x.medium /\ y.strayed = x.strayed
    BY <1>5, <2>1 DEF IsDevice
  <2> QED
    BY <2>1, <2>2 DEF IsClosing, Settled
<1>6. ASSUME adapter = "FatFs", NEW y, y = [c EXCEPT !.CloseOwed = (LeftByFailedClose = "owed")]
      PROVE  IsClosing(d, y, a)
  <2>1. LeftByFailedClose = "owed"
    BY <1>6 DEF LeftByFailedClose, CloseFatFs
  <2>2. /\ IsDevice(y) /\ y.IsOpen = FALSE /\ y.CloseOwed = TRUE /\ y.held = d.held /\ y.Path = d.Path
        /\ y.HandleOpen = d.HandleOpen /\ y.BlockIndex = d.BlockIndex
        /\ y.files = d.files /\ y.medium = d.medium /\ y.strayed = d.strayed
    BY <1>2, <1>6, <2>1 DEF IsDevice
  <2> QED
    BY <1>6, <2>2 DEF IsClosing, Settled
<1>7. \/ e = [c EXCEPT !.held = @ \ {d.Path}, !.Path = 0]
      \/ e = [g EXCEPT !.held = @ \ {d.Path}, !.Path = 0]
      \/ adapter = "FatFs" /\ e = [c EXCEPT !.CloseOwed = (LeftByFailedClose = "owed")]
  BY <1>1, <1>3 DEF CloseOutcomes
<1> QED
  BY <1>5, <1>6, <1>7

LEMMA SettledItself == ASSUME NEW d, FilesInv(d) PROVE Settled(d, d)
BY DEF Settled

LEMMA SettledAgain ==
  ASSUME NEW d, NEW e, NEW c, DOMAIN d.medium = DOMAIN d.files, Settled(d, e), Settled(e, c)
  PROVE  Settled(d, c)
BY DEF Settled

LEMMA CloseIs ==
  ASSUME NEW d, NEW a, HandleInv(d, a), FilesInv(d), NEW e \in Close(d)
  PROVE  IsClosing(d, e, a)
<1>1. CASE d.IsOpen
  BY <1>1, CloseOutcomesIs DEF HandleInv, Close
<1>2. CASE ~d.IsOpen
  <2>1. e = d /\ d.IsOpen = FALSE
    BY <1>2 DEF Close, HandleInv, IsDevice
  <2> QED
    BY <1>2, <2>1, SettledItself DEF IsClosing, HandleInv
<1> QED
  BY <1>1, <1>2

LEMMA SettleOwedCloseIs ==
  ASSUME NEW d, NEW a, HandleInv(d, a), FilesInv(d), d.IsOpen = FALSE, NEW e \in SettleOwedClose(d)
  PROVE  IsClosing(d, e, a)
<1>1. CASE d.CloseOwed
  BY <1>1, CloseOutcomesIs DEF HandleInv, SettleOwedClose
<1>2. CASE ~d.CloseOwed
  <2>1. e = d
    BY <1>2 DEF SettleOwedClose
  <2> QED
    BY <1>2, <2>1, SettledItself DEF IsClosing, HandleInv
<1> QED
  BY <1>1, <1>2

\* The device with a new file for block n, and nothing in it.
Created(d, n, e) ==
  /\ e.files = With(d.files, n, <<>>) /\ e.strayed = d.strayed
  /\ DOMAIN e.medium = DOMAIN d.medium \cup {n} /\ e.medium[n] = <<>>
  /\ \A m \in DOMAIN d.medium \ {n} : e.medium[m] = d.medium[m] \/ e.medium[m] = d.files[m]

\* The device with a file for block n, new only if there was none.
Opened(d, n, e) == IF n \in DOMAIN d.files THEN Settled(d, e) ELSE Created(d, n, e)

LEMMA OpenedAfter ==
  ASSUME NEW d, FilesInv(d), NEW e, NEW c, NEW n, Settled(d, e), Opened(e, n, c)
  PROVE  Opened(d, n, c)
BY DEF FilesInv, Settled, Opened, Created, With

LEMMA OpenSettledIs ==
  ASSUME NEW d, NEW a, IsDevice(d), FilesInv(d), d.IsOpen = FALSE, d.CloseOwed = FALSE, d.held \subseteq a,
         NEW n, NEW o \in OpenSettled(d, n)
  PROVE  /\ o.ok = FALSE /\ o.dev = d
         \/ /\ o.ok = TRUE /\ IsDevice(o.dev) /\ Opened(d, n, o.dev)
            /\ o.dev.IsOpen = TRUE /\ o.dev.CloseOwed = FALSE /\ o.dev.Path = n
            /\ o.dev.held \subseteq a \cup {n}
<1>1. \/ o = Outcome(FALSE, d)
      \/ n \in DOMAIN d.files /\ o = Outcome(TRUE, OpenedOn(d, n))
      \/ n \notin DOMAIN d.files /\ o = Outcome(TRUE, OpenedOn(CreatedEmpty(d, n), n))
  BY DEF OpenSettled
<1>2. CASE o = Outcome(FALSE, d)
  BY <1>2 DEF Outcome
<1>3. ASSUME n \in DOMAIN d.files, o = Outcome(TRUE, OpenedOn(d, n))
      PROVE  /\ o.ok = TRUE /\ IsDevice(o.dev) /\ Opened(d, n, o.dev)
             /\ o.dev.IsOpen = TRUE /\ o.dev.CloseOwed = FALSE /\ o.dev.Path = n
             /\ o.dev.held \subseteq a \cup {n}
  <2>1. PICK e : e = OpenedOn(d, n)
    OBVIOUS
  <2>2. /\ IsDevice(e) /\ e.IsOpen = TRUE /\ e.CloseOwed = FALSE /\ e.Path = n /\ e.held = d.held \cup {n}
        /\ e.files = d.files /\ e.medium = d.medium /\ e.strayed = d.strayed
    BY <2>1 DEF OpenedOn, IsDevice
  <2>3. o.ok = TRUE /\ o.dev = e
    BY <1>3, <2>1 DEF Outcome
  <2> QED
    BY <1>3, <2>2, <2>3 DEF Opened, Settled
<1>4. ASSUME n \notin DOMAIN d.files, o = Outcome(TRUE, OpenedOn(CreatedEmpty(d, n), n))
      PROVE  /\ o.ok = TRUE /\ IsDevice(o.dev) /\ Opened(d, n, o.dev)
             /\ o.dev.IsOpen = TRUE /\ o.dev.CloseOwed = FALSE /\ o.dev.Path = n
             /\ o.dev.held \subseteq a \cup {n}
  <2>0. PICK f, m : f = With(d.files, n, <<>>) /\ m = With(d.medium, n, <<>>)
    OBVIOUS
  <2>1. PICK c : c = CreatedEmpty(d, n)
    OBVIOUS
  <2>2. /\ IsDevice(c) /\ c.CloseOwed = FALSE /\ c.held = d.held /\ c.files = f /\ c.medium = m
        /\ c.strayed = d.strayed
    BY <2>0, <2>1 DEF CreatedEmpty, IsDevice
  <2>3. PICK e : e = OpenedOn(c, n)
    OBVIOUS
  <2>4. /\ IsDevice(e) /\ e.IsOpen = TRUE /\ e.CloseOwed = FALSE /\ e.Path = n /\ e.held = d.held \cup {n}
        /\ e.files = f /\ e.medium = m /\ e.strayed = d.strayed
    BY <2>2, <2>3 DEF OpenedOn, IsDevice
  <2>5. o.ok = TRUE /\ o.dev = e
    BY <1>4, <2>1, <2>3 DEF Outcome
  <2>6. /\ DOMAIN m = DOMAIN d.medium \cup {n} /\ m[n] = <<>>
        /\ \A k \in DOMAIN d.medium \ {n} : m[k] = d.medium[k]
    BY <2>0 DEF With
  <2>7. Created(d, n, e)
    BY <2>0, <2>4, <2>6 DEF Created
  <2> QED
    BY <1>4, <2>4, <2>5, <2>7 DEF Opened
<1> QED
  BY <1>1, <1>2, <1>3, <1>4

LEMMA OpenIs ==
  ASSUME NEW d, NEW a, HandleInv(d, a), FilesInv(d), d.IsOpen = FALSE, d.HandleOpen = FALSE,
         NEW n, NEW o \in Open(d, n)
  PROVE  /\ IsDevice(o.dev)
         /\ \/ o.ok = FALSE /\ IsClosing(d, o.dev, a)
            \/ /\ o.ok = TRUE /\ Opened(d, n, o.dev)
               /\ o.dev.IsOpen = TRUE /\ o.dev.CloseOwed = FALSE /\ o.dev.Path = n
               /\ o.dev.held \subseteq a \cup {n}
<1>1. PICK s \in (IF OpenCalls[1] = "settle" THEN SettleOwedClose(d) ELSE {d}) :
        o \in IF s.CloseOwed THEN {Outcome(FALSE, s)} ELSE OpenSettled(s, n)
  BY DEF Open
<1>2. IsClosing(d, s, a)
  <2>1. CASE OpenCalls[1] = "settle"
    BY <1>1, <2>1, SettleOwedCloseIs
  <2>2. CASE ~(OpenCalls[1] = "settle")
    <3>1. s = d
      BY <1>1, <2>2
    <3> QED
      BY <3>1, SettledItself DEF IsClosing, HandleInv
  <2> QED
    BY <2>1, <2>2
<1>3. CASE s.CloseOwed
  <2>1. o.ok = FALSE /\ o.dev = s
    BY <1>1, <1>3 DEF Outcome
  <2> QED
    BY <1>2, <2>1 DEF IsClosing
<1>4. CASE ~s.CloseOwed
  <2>1. /\ IsDevice(s) /\ s.IsOpen = FALSE /\ s.CloseOwed = FALSE /\ s.held \subseteq a /\ Settled(d, s)
    BY <1>2, <1>4 DEF IsClosing, IsDevice
  <2>2. FilesInv(s)
    BY <2>1, SettledGrows
  <2>3. o \in OpenSettled(s, n)
    BY <1>1, <1>4
  <2>4. /\ o.ok = FALSE /\ o.dev = s
        \/ /\ o.ok = TRUE /\ IsDevice(o.dev) /\ Opened(s, n, o.dev)
           /\ o.dev.IsOpen = TRUE /\ o.dev.CloseOwed = FALSE /\ o.dev.Path = n
           /\ o.dev.held \subseteq a \cup {n}
    BY <2>1, <2>2, <2>3, OpenSettledIs
  <2>5. CASE o.ok = FALSE /\ o.dev = s
    BY <1>2, <2>1, <2>5
  <2>6. CASE /\ o.ok = TRUE /\ IsDevice(o.dev) /\ Opened(s, n, o.dev)
             /\ o.dev.IsOpen = TRUE /\ o.dev.CloseOwed = FALSE /\ o.dev.Path = n
             /\ o.dev.held \subseteq a \cup {n}
    <3>1. Opened(d, n, o.dev)
      BY <2>1, <2>6, OpenedAfter
    <3> QED
      BY <2>6, <3>1
  <2> QED
    BY <2>4, <2>5, <2>6
<1> QED
  BY <1>3, <1>4

-----------------------------------------------------------------------------
(* The calls of the device *)

LEMMA CreatedHolds ==
  ASSUME NEW d, FilesInv(d), NEW n \in SequenceNumbers, n \notin DOMAIN d.files, NEW e, Created(d, n, e)
  PROVE  /\ FilesInv(e) /\ DOMAIN e.files = DOMAIN d.files \cup {n} /\ e.files[n] = <<>> /\ e.strayed = d.strayed
         /\ \A m \in DOMAIN d.files : e.files[m] = d.files[m]
         /\ \A m \in DOMAIN d.files \ d.strayed : Grows(d.files[m], d.medium[m], e.files[m], e.medium[m])
<1>1. /\ e.strayed = d.strayed
      /\ DOMAIN e.files = DOMAIN d.files \cup {n} /\ e.files[n] = <<>>
      /\ \A m \in DOMAIN d.files : e.files[m] = d.files[m]
      /\ DOMAIN e.medium = DOMAIN e.files /\ e.medium[n] = <<>>
      /\ \A m \in DOMAIN d.files : e.medium[m] = d.medium[m] \/ e.medium[m] = d.files[m]
  BY DEF Created, With, FilesInv
<1>2. FileInv(n, e.files[n], e.medium[n]) /\ FileShape(n, e.files[n], e.medium[n])
  BY <1>1 DEF FileInv, FileShape
<1>3. ASSUME NEW m \in DOMAIN d.files
      PROVE  /\ FileShape(m, e.files[m], e.medium[m])
             /\ m \notin d.strayed => /\ FileInv(m, e.files[m], e.medium[m])
                                      /\ Grows(d.files[m], d.medium[m], e.files[m], e.medium[m])
  <2>1. PICK f, g, f2, g2 : f = d.files[m] /\ g = d.medium[m] /\ f2 = e.files[m] /\ g2 = e.medium[m]
    OBVIOUS
  <2>2. FileShape(m, f, g) /\ (m \notin d.strayed => FileInv(m, f, g)) /\ f2 = f /\ (g2 = g \/ g2 = f)
    BY <1>1, <2>1 DEF FilesInv
  <2> QED
    BY <2>1, <2>2, SameFile
<1>4. FilesInv(e)
  BY <1>1, <1>2, <1>3 DEF FilesInv
<1> QED
  BY <1>1, <1>3, <1>4

LEMMA HandleClosedIs ==
  ASSUME NEW d, NEW a, NEW e, IsClosing(d, e, a), NEW h, h = HandleClosed(e)
  PROVE  /\ HandleInv(h, a) /\ Settled(d, h) /\ h.IsOpen = FALSE /\ h.HandleOpen = FALSE
<1>1. /\ IsDevice(h) /\ h.IsOpen = FALSE /\ h.HandleOpen = FALSE /\ h.CloseOwed = e.CloseOwed
      /\ h.Path = e.Path /\ h.files = e.files /\ h.medium = e.medium /\ h.held = e.held
      /\ h.strayed = e.strayed
  BY DEF IsClosing, HandleClosed, IsDevice
<1> QED
  BY <1>1 DEF HandleInv, IsClosing, Settled

\* Whether the device failed to open the file of block n, or has it open.
Ensured(d, n, o, a) ==
  /\ HandleInv(o.dev, a) /\ FilesInv(o.dev)
  /\ \/ o.ok = FALSE /\ Settled(d, o.dev)
     \/ o.ok = TRUE /\ Opened(d, n, o.dev) /\ o.dev.IsOpen = TRUE /\ o.dev.Path = n

LEMMA OpenedHolds ==
  ASSUME NEW d, FilesInv(d), NEW n \in SequenceNumbers, NEW e, Opened(d, n, e)
  PROVE  FilesInv(e) /\ n \in DOMAIN e.files
BY SettledGrows, CreatedHolds DEF Opened, Settled

LEMMA OpenHandleIs ==
  ASSUME NEW d, NEW a, HandleInv(d, a), FilesInv(d), NEW n \in SequenceNumbers, NEW o \in OpenHandleOnBlock(d, n)
  PROVE  Ensured(d, n, o, a)
<1>1. PICK c \in Close(d) : \E q \in Open(HandleClosed(c), n) :
        o = IF q.ok THEN Outcome(TRUE, [q.dev EXCEPT !.BlockIndex = n, !.HandleOpen = TRUE]) ELSE q
  BY DEF OpenHandleOnBlock
<1>2. PICK h : h = HandleClosed(c)
  OBVIOUS
<1>3. PICK q \in Open(h, n) :
        o = IF q.ok THEN Outcome(TRUE, [q.dev EXCEPT !.BlockIndex = n, !.HandleOpen = TRUE]) ELSE q
  BY <1>1, <1>2
<1>4. IsClosing(d, c, a)
  BY CloseIs
<1>5. HandleInv(h, a) /\ Settled(d, h) /\ h.IsOpen = FALSE /\ h.HandleOpen = FALSE
  BY <1>2, <1>4, HandleClosedIs
<1>6. FilesInv(h)
  BY <1>5, SettledGrows
<1>7. /\ IsDevice(q.dev)
      /\ \/ q.ok = FALSE /\ IsClosing(h, q.dev, a)
         \/ /\ q.ok = TRUE /\ Opened(h, n, q.dev)
            /\ q.dev.IsOpen = TRUE /\ q.dev.CloseOwed = FALSE /\ q.dev.Path = n
            /\ q.dev.held \subseteq a \cup {n}
  BY <1>5, <1>6, OpenIs
<1>8. CASE q.ok = FALSE /\ IsClosing(h, q.dev, a)
  <2>1. o.ok = FALSE /\ o.dev = q.dev
    BY <1>3, <1>8
  <2>2. HandleInv(q.dev, a)
    BY <1>5, <1>8 DEF IsClosing, HandleInv
  <2>3. Settled(d, q.dev)
    BY <1>5, <1>8, SettledAgain DEF IsClosing, FilesInv
  <2>4. FilesInv(q.dev)
    BY <2>3, SettledGrows
  <2> QED
    BY <2>1, <2>2, <2>3, <2>4 DEF Ensured
<1>9. CASE /\ q.ok = TRUE /\ Opened(h, n, q.dev)
           /\ q.dev.IsOpen = TRUE /\ q.dev.CloseOwed = FALSE /\ q.dev.Path = n
           /\ q.dev.held \subseteq a \cup {n}
  <2>1. PICK e : e = [q.dev EXCEPT !.BlockIndex = n, !.HandleOpen = TRUE]
    OBVIOUS
  <2>2. /\ IsDevice(e) /\ e.BlockIndex = n /\ e.HandleOpen = TRUE /\ e.IsOpen = TRUE /\ e.CloseOwed = FALSE
        /\ e.Path = n /\ e.held = q.dev.held /\ e.files = q.dev.files /\ e.medium = q.dev.medium
        /\ e.strayed = q.dev.strayed
    BY <1>7, <1>9, <2>1 DEF IsDevice
  <2>3. o.ok = TRUE /\ o.dev = e
    BY <1>3, <1>9, <2>1 DEF Outcome
  <2>4. Opened(h, n, e)
    BY <1>9, <2>2 DEF Opened, Settled, Created
  <2>5. Opened(d, n, e)
    BY <1>5, <2>4, OpenedAfter
  <2>6. FilesInv(e) /\ n \in DOMAIN e.files
    BY <2>5, OpenedHolds
  <2>7. HandleInv(e, a)
    BY <1>9, <2>2, <2>6 DEF HandleInv
  <2> QED
    BY <2>2, <2>3, <2>5, <2>6, <2>7 DEF Ensured
<1> QED
  BY <1>7, <1>8, <1>9

LEMMA EnsureIs ==
  ASSUME NEW d, NEW a, HandleInv(d, a), FilesInv(d), NEW n \in SequenceNumbers, NEW o \in EnsureHandleOpenOnBlock(d, n)
  PROVE  Ensured(d, n, o, a)
<1>1. CASE IsHandleAlreadyOpenOnBlock(d, n)
  <2>1. o.ok = TRUE /\ o.dev = d
    BY <1>1 DEF EnsureHandleOpenOnBlock, Outcome
  <2>2. d.IsOpen = TRUE /\ d.Path = n /\ n \in DOMAIN d.files
    BY <1>1 DEF IsHandleAlreadyOpenOnBlock, HandleInv
  <2> QED
    BY <2>1, <2>2, SettledItself DEF Ensured, Opened
<1>2. CASE ~IsHandleAlreadyOpenOnBlock(d, n)
  BY <1>2, OpenHandleIs DEF EnsureHandleOpenOnBlock
<1> QED
  BY <1>1, <1>2

\* The outcomes of an operation that leaves the files as they are.
Answered(d, o, a) == HandleInv(o.dev, a) /\ FilesInv(o.dev) /\ Settled(d, o.dev)

LEMMA BlockSizeIs ==
  ASSUME NEW d, NEW a, HandleInv(d, a), FilesInv(d), NEW n \in DOMAIN d.files, NEW o \in BlockSize(d, n)
  PROVE  /\ Answered(d, o, a) /\ o.ok \in {TRUE, FALSE}
         /\ o.ok => o.size = Len(d.files[n])
<1>0. n \in SequenceNumbers
  BY DEF FilesInv
<1>1. PICK q \in EnsureHandleOpenOnBlock(d, n) :
        (~q.ok /\ o = q) \/ (q.ok /\ o \in Size(q.dev))
  BY DEF BlockSize, OnBlock
<1>2. Ensured(d, n, q, a)
  BY <1>0, EnsureIs
<1>3. CASE ~q.ok /\ o = q
  BY <1>2, <1>3 DEF Ensured, Answered
<1>4. CASE q.ok /\ o \in Size(q.dev)
  <2>1. PICK e : e = q.dev
    OBVIOUS
  <2>2. HandleInv(e, a) /\ FilesInv(e) /\ Settled(d, e) /\ e.Path = n
    BY <1>2, <1>4, <2>1 DEF Ensured, Opened
  <2>3. o.dev = e /\ (o.ok = FALSE \/ (o.ok = TRUE /\ o.size = Len(e.files[e.Path])))
    BY <1>4, <2>1 DEF Size
  <2> QED
    BY <2>2, <2>3 DEF Answered, Settled
<1> QED
  BY <1>1, <1>3, <1>4

\* The record at place k, or where a read went astray any of the block's or none.
RecordAt(n, f, k, o) ==
  /\ o.record.block \in {n, Torn}
  /\ o.astray = TRUE \/ (k \in DOMAIN f /\ o.record = f[k])

LEMMA ReadBlockIs ==
  ASSUME NEW d, NEW a, HandleInv(d, a), FilesInv(d), NEW n \in DOMAIN d.files, NEW f, f = d.files[n],
         NEW k, NEW o \in ReadBlock(d, n, k)
  PROVE  /\ Answered(d, o, a) /\ o.ok \in {TRUE, FALSE}
         /\ o.ok => RecordAt(n, f, k, o)
<1>0. n \in SequenceNumbers
  BY DEF FilesInv
<1>1. PICK q \in EnsureHandleOpenOnBlock(d, n) :
        (~q.ok /\ o = q) \/ (q.ok /\ o \in Read(q.dev, k))
  BY DEF ReadBlock, OnBlock
<1>2. Ensured(d, n, q, a)
  BY <1>0, EnsureIs
<1>3. CASE ~q.ok /\ o = q
  BY <1>2, <1>3 DEF Ensured, Answered
<1>4. CASE q.ok /\ o \in Read(q.dev, k)
  <2>1. PICK e : e = q.dev
    OBVIOUS
  <2>2. HandleInv(e, a) /\ FilesInv(e) /\ Settled(d, e) /\ e.Path = n
    BY <1>2, <1>4, <2>1 DEF Ensured, Opened
  <2>3. e.files = d.files /\ n \in DOMAIN e.files /\ e.files[e.Path] = f
    BY <2>2 DEF Settled
  <2>4. \/ o = [ok |-> FALSE, dev |-> e, record |-> TornRecord(FALSE), astray |-> FALSE]
        \/ \E i \in {k} \cap DOMAIN f : o = [ok |-> TRUE, dev |-> e, record |-> f[i], astray |-> FALSE]
        \/ \E i \in DOMAIN f : o = [ok |-> TRUE, dev |-> e, record |-> f[i], astray |-> TRUE]
        \/ \E i \in DOMAIN f : o = [ok |-> TRUE, dev |-> e, record |-> TornRecord(FALSE), astray |-> TRUE]
    BY <1>4, <2>1, <2>2, <2>3 DEF Read
  <2>5. DOMAIN f = 1..Len(f) /\ \A i \in 1..Len(f) : f[i].block \in {n, Torn}
    BY DEF FilesInv, FileShape
  <2>6. o.dev = e /\ (o.ok = FALSE \/ (o.ok = TRUE /\ RecordAt(n, f, k, o)))
    BY <2>4, <2>5 DEF RecordAt, TornRecord
  <2> QED
    BY <2>2, <2>6 DEF Answered
<1> QED
  BY <1>1, <1>3, <1>4

LEMMA AcquireIs ==
  ASSUME NEW d, NEW a, HandleInv(d, a), FilesInv(d), NEW n \in SequenceNumbers, n \notin DOMAIN d.files, NEW o \in Acquire(d, n)
  PROVE  /\ HandleInv(o.dev, a) /\ FilesInv(o.dev)
         /\ \/ o.ok = FALSE /\ Settled(d, o.dev)
            \/ o.ok = TRUE /\ Created(d, n, o.dev)
<1>1. PICK q \in EnsureHandleOpenOnBlock(d, n) :
        (~q.ok /\ o = q) \/ (q.ok /\ o \in {Outcome(TRUE, t) : t \in Truncate(q.dev)})
  BY DEF Acquire, OnBlock
<1>2. Ensured(d, n, q, a)
  BY EnsureIs
<1>3. CASE ~q.ok /\ o = q
  BY <1>2, <1>3 DEF Ensured
<1>4. CASE q.ok /\ o \in {Outcome(TRUE, t) : t \in Truncate(q.dev)}
  <2>1. PICK e : e = q.dev
    OBVIOUS
  <2>2. HandleInv(e, a) /\ FilesInv(e) /\ Created(d, n, e) /\ e.Path = n
    BY <1>2, <1>4, <2>1 DEF Ensured, Opened
  <2>3. PICK t \in Truncate(e) : o.ok = TRUE /\ o.dev = t
    BY <1>4, <2>1 DEF Outcome
  <2>4. [e.files EXCEPT ![n] = <<>>] = e.files
    BY <2>2 DEF Created, With
  <2>5. t = e
    <3>1. t = e \/ t = [e EXCEPT !.files[e.Path] = <<>>]
      BY <2>3 DEF Truncate
    <3>2. [e EXCEPT !.files[e.Path] = <<>>] = e
      BY <2>2, <2>4 DEF HandleInv, IsDevice
    <3> QED
      BY <3>1, <3>2
  <2> QED
    BY <2>2, <2>3, <2>5
<1> QED
  BY <1>1, <1>3, <1>4

-----------------------------------------------------------------------------
(* Write *)

PutAt(f, k, r) ==
  [i \in (1..k) \cup DOMAIN f |->
     CASE i = k -> r
       [] i # k /\ i \in DOMAIN f -> f[i]
       [] OTHER -> TornRecord(FALSE)]

LEMMA TornIs == \A b \in BOOLEAN : TornRecord(b) \in Records /\ TornRecord(b).block = Torn
BY DEF TornRecord, Records

IsPut(n, f, k, r, g) ==
  /\ g \in Seq(Records) /\ Len(g) = (IF k <= Len(f) THEN Len(f) ELSE k) /\ g[k] = r
  /\ \A i \in 1..Len(f) : i # k => g[i] = f[i]
  /\ \A i \in 1..Len(g) : g[i].block \in {n, Torn}

LEMMA PutAtIs ==
  ASSUME NEW n, NEW f \in Seq(Records), \A i \in 1..Len(f) : f[i].block \in {n, Torn},
         NEW k \in Nat \ {0}, NEW r \in Records, r.block \in {n, Torn}
  PROVE  IsPut(n, f, k, r, PutAt(f, k, r))
<1>1. Len(f) \in Nat /\ DOMAIN f = 1..Len(f)
  OBVIOUS
<1>0. PICK j \in Nat : j = Len(f)
  BY <1>1
<1>10. k \in Nat /\ 1 <= k
  OBVIOUS
<1>2. PICK l \in Nat : l = IF k <= j THEN j ELSE k
  BY <1>10
<1>3. (1..k) \cup DOMAIN f = 1..l
  <2>1. (1..k) \cup (1..j) = 1..l
    BY <1>10, <1>2
  <2> QED
    BY <1>0, <1>1, <2>1
<1>4. PICK g, t : g = PutAt(f, k, r) /\ t = TornRecord(FALSE)
  OBVIOUS
<1>5. g = [i \in 1..l |-> CASE i = k -> r
                            [] i # k /\ i \in DOMAIN f -> f[i]
                            [] OTHER -> t]
  BY <1>3, <1>4 DEF PutAt
<1>6. t \in Records /\ t.block = Torn
  BY <1>4, TornIs
<1>7. ASSUME NEW i \in 1..l
      PROVE  /\ i = k => g[i] = r
             /\ i # k /\ i \in 1..Len(f) => g[i] = f[i]
             /\ i # k /\ i \notin 1..Len(f) => g[i] = t
  BY <1>1, <1>5
<1>8. \A i \in 1..l : g[i] \in Records /\ g[i].block \in {n, Torn}
  BY <1>6, <1>7
<1>9. g \in Seq(Records) /\ Len(g) = l
  <2>1. g \in [1..l -> Records]
    BY <1>5, <1>8
  <2> QED
    BY <2>1
<1>11. k \in 1..l /\ \A i \in 1..Len(f) : i \in 1..l
  <2>1. k \in 1..l /\ \A i \in 1..j : i \in 1..l
    BY <1>10, <1>2
  <2> QED
    BY <1>0, <2>1
<1> QED
  BY <1>0, <1>2, <1>4, <1>7, <1>8, <1>9, <1>11 DEF IsPut

\* A file of block n that has no fewer records than it had.
Shaped(n, f, f2) ==
  f2 \in Seq(Records) /\ Len(f) <= Len(f2) /\ \A k \in 1..Len(f2) : f2[k].block \in {n, Torn}

LEMMA LaidOverShaped ==
  ASSUME NEW n, NEW f \in Seq(Records), \A i \in 1..Len(f) : f[i].block \in {n, Torn},
         NEW p \in 1..Len(f) + 1, NEW q \in {p, p + 1}, NEW x \in Records, x.block \in {n, Torn}
  PROVE  Shaped(n, f, LaidOver(f, p, q, x))
<1>1. Len(f) \in Nat /\ DOMAIN f = 1..Len(f)
  OBVIOUS
<1>2. PICK j \in Nat : j = Len(f)
  BY <1>1
<1>3. p \in Nat /\ 1 <= p /\ p <= j + 1 /\ q \in Nat /\ p <= q /\ q <= p + 1
  BY <1>2
<1>4. PICK l \in Nat : l = IF q <= j THEN j ELSE q
  BY <1>3
<1>5. (1..q) \cup DOMAIN f = 1..l
  <2>1. (1..q) \cup (1..j) = 1..l
    BY <1>3, <1>4
  <2> QED
    BY <1>1, <1>2, <2>1
<1>6. PICK g : g = LaidOver(f, p, q, x)
  OBVIOUS
<1>7. g = [i \in 1..l |-> IF i \in p..q THEN x ELSE f[i]]
  BY <1>5, <1>6 DEF LaidOver
<1>8. \A i \in 1..l : i \in p..q \/ i \in 1..Len(f)
  <2>1. \A i \in 1..l : i \in p..q \/ i \in 1..j
    BY <1>3, <1>4
  <2> QED
    BY <1>2, <2>1
<1>9. \A i \in 1..l : g[i] \in Records /\ g[i].block \in {n, Torn}
  BY <1>1, <1>7, <1>8
<1>10. g \in Seq(Records) /\ Len(g) = l
  <2>1. g \in [1..l -> Records]
    BY <1>7, <1>9
  <2> QED
    BY <2>1
<1>11. j <= l
  BY <1>4
<1> QED
  BY <1>2, <1>6, <1>9, <1>10, <1>11 DEF Shaped

\* The device with f2 in the file of block n, as much of it on the medium as the
\* commits there were have taken, and s for the files a write went astray on.
Wrote(d, n, f2, s, e) ==
  /\ IsDevice(e) /\ e.HandleOpen = d.HandleOpen /\ e.BlockIndex = d.BlockIndex /\ e.IsOpen = d.IsOpen
  /\ e.CloseOwed = d.CloseOwed /\ e.Path = d.Path /\ e.held = d.held /\ e.strayed = s
  /\ DOMAIN e.files = DOMAIN d.files /\ e.files[n] = f2
  /\ \A m \in DOMAIN d.files \ {n} : e.files[m] = d.files[m]
  /\ DOMAIN e.medium = DOMAIN d.files /\ Follows(d.medium[n], f2, e.medium[n])
  /\ \A m \in DOMAIN d.files \ {n} : e.medium[m] = d.medium[m]

\* A file whose records stay, with their marks, and that may have more.
Keeps(n, f, f2) ==
  Shaped(n, f, f2) /\ \A k \in 1..Len(f) : f2[k].block = f[k].block /\ (f[k].sent => f2[k].sent)

\* A write to block n that is astray, or keeps what is there.
MayLeave(d, n, f2, s) ==
  /\ Shaped(n, d.files[n], f2)
  /\ s = d.strayed \/ s = d.strayed \cup {n}
  /\ n \notin s => Keeps(n, d.files[n], f2)

LEMMA WroteHolds ==
  ASSUME NEW d, NEW a, HandleInv(d, a), FilesInv(d), NEW n \in DOMAIN d.files, NEW f2, NEW s, MayLeave(d, n, f2, s),
         NEW e, Wrote(d, n, f2, s, e)
  PROVE  HandleInv(e, a) /\ FilesInv(e) /\ Grown(d, e)
<1>1. HandleInv(e, a)
  BY DEF HandleInv, Wrote
<1>2. ASSUME NEW m \in DOMAIN d.files
      PROVE  /\ FileShape(m, e.files[m], e.medium[m])
             /\ m \notin e.strayed => /\ FileInv(m, e.files[m], e.medium[m])
                                      /\ Grows(d.files[m], d.medium[m], e.files[m], e.medium[m])
  <2>1. PICK f, g, h, l : f = d.files[m] /\ g = d.medium[m] /\ h = e.files[m] /\ l = e.medium[m]
    OBVIOUS
  <2>0. e.strayed = s /\ (m \notin s => m \notin d.strayed)
    BY DEF Wrote, MayLeave
  <2>2. FileShape(m, f, g) /\ (m \notin s => FileInv(m, f, g))
    BY <2>0, <2>1 DEF FilesInv
  <2>3. CASE m = n
    <3>1. Shaped(m, f, h) /\ (m \notin s => Keeps(m, f, h)) /\ Follows(g, h, l)
      BY <2>1, <2>3 DEF Wrote, MayLeave
    <3>2. FileShape(m, h, l)
      BY <2>2, <3>1, ShapeHolds DEF Shaped
    <3>3. ASSUME m \notin s PROVE FileInv(m, h, l) /\ Grows(f, g, h, l)
      BY <2>2, <3>1, <3>3, GrowsAndHolds DEF Shaped, Keeps
    <3> QED
      BY <2>0, <2>1, <3>2, <3>3
  <2>4. CASE m # n
    <3>1. h = f /\ l = g
      BY <2>1, <2>4 DEF Wrote
    <3> QED
      BY <2>0, <2>1, <2>2, <3>1, SameFile
  <2> QED
    BY <2>3, <2>4
<1>3. FilesInv(e)
  BY <1>2 DEF FilesInv, Wrote
<1>4. Grown(d, e)
  BY <1>2 DEF Grown, Wrote, MayLeave
<1> QED
  BY <1>1, <1>3, <1>4

\* The file of the block the device stands at, with f2 in it.
LEMMA PlacedIs ==
  ASSUME NEW d, NEW a, HandleInv(d, a), FilesInv(d), NEW n \in DOMAIN d.files, d.Path = n, NEW f2, NEW s,
         NEW e, e = [d EXCEPT !.strayed = s, !.files = With(d.files, d.Path, f2)]
  PROVE  Wrote(d, n, f2, s, e)
<1>1. PICK f : f = With(d.files, n, f2)
  OBVIOUS
<1>2. e = [d EXCEPT !.strayed = s, !.files = f]
  BY <1>1
<1>3. /\ IsDevice(e) /\ e.HandleOpen = d.HandleOpen /\ e.BlockIndex = d.BlockIndex /\ e.IsOpen = d.IsOpen
      /\ e.CloseOwed = d.CloseOwed /\ e.Path = d.Path /\ e.held = d.held /\ e.files = f /\ e.medium = d.medium
      /\ e.strayed = s
  BY <1>2 DEF HandleInv, IsDevice
<1>4. /\ DOMAIN f = DOMAIN d.files /\ f[n] = f2
      /\ \A m \in DOMAIN d.files \ {n} : f[m] = d.files[m]
  BY <1>1 DEF With
<1> QED
  BY <1>3, <1>4 DEF Wrote, Follows, FilesInv

LEMMA WrittenIs ==
  ASSUME NEW d, NEW a, HandleInv(d, a), FilesInv(d), NEW n \in DOMAIN d.files, d.Path = n, NEW k, NEW r,
         NEW e, e = Written(d, k, r)
  PROVE  Wrote(d, n, PutAt(d.files[n], k, r), d.strayed, e)
<1>1. PICK g : g = PutAt(d.files[n], k, r)
  OBVIOUS
<1>2. e = [d EXCEPT !.files = With(d.files, d.Path, g)]
  BY <1>1 DEF Written, PutAt
<1>3. PICK f : f = With(d.files, d.Path, g)
  OBVIOUS
<1>4. e = [d EXCEPT !.strayed = d.strayed, !.files = f]
  BY <1>2, <1>3 DEF HandleInv, IsDevice
<1>5. e = [d EXCEPT !.strayed = d.strayed, !.files = With(d.files, d.Path, g)]
  BY <1>3, <1>4
<1> QED
  BY <1>1, <1>5, PlacedIs

LEMMA AfterCommitIs ==
  ASSUME NEW d, FilesInv(d), NEW n \in DOMAIN d.files, d.Path = n, NEW f2, Shaped(n, d.files[n], f2), NEW s,
         NEW w, Wrote(d, n, f2, s, w), NEW name, NEW e, e = AfterCommit(w, name)
  PROVE  Wrote(d, n, f2, s, e) /\ (name # "FF_FlushCache" => e.medium[n] = f2)
<1>1. PICK x : x = IF name = "FF_FlushCache" THEN SubSeq(f2, 1, Len(w.medium[n])) ELSE f2
  OBVIOUS
<1>2. PICK m : m = With(w.medium, n, x)
  OBVIOUS
<1>3. w.Path = n /\ n \in DOMAIN w.files /\ w.files[n] = f2 /\ IsDevice(w)
  BY DEF Wrote
<1>4. e = [w EXCEPT !.medium = m]
  <2>1. CASE name = "FF_FlushCache"
    BY <1>1, <1>2, <1>3, <2>1 DEF AfterCommit, Flushed
  <2>2. CASE name # "FF_FlushCache"
    BY <1>1, <1>2, <1>3, <2>2 DEF AfterCommit, Committed
  <2> QED
    BY <2>1, <2>2
<1>5. /\ IsDevice(e) /\ e.HandleOpen = w.HandleOpen /\ e.BlockIndex = w.BlockIndex /\ e.IsOpen = w.IsOpen
      /\ e.CloseOwed = w.CloseOwed /\ e.Path = w.Path /\ e.held = w.held /\ e.files = w.files /\ e.medium = m
      /\ e.strayed = w.strayed
  BY <1>3, <1>4 DEF IsDevice
<1>6. /\ DOMAIN m = DOMAIN d.files /\ m[n] = x
      /\ \A q \in DOMAIN d.files \ {n} : m[q] = w.medium[q]
  BY <1>2 DEF With, Wrote
<1>7. Follows(d.medium[n], f2, x)
  <2>1. CASE name # "FF_FlushCache"
    BY <1>1, <2>1 DEF Follows
  <2>2. CASE name = "FF_FlushCache"
    <3>1. PICK g, f : g = d.medium[n] /\ f = d.files[n]
      OBVIOUS
    <3>2. /\ g \in Seq(Records) /\ f \in Seq(Records) /\ f2 \in Seq(Records)
          /\ Len(g) \in Nat /\ Len(f) \in Nat /\ Len(f2) \in Nat /\ Len(g) <= Len(f2)
      BY <3>1 DEF FilesInv, FileShape, Shaped
    <3>3. PICK h : h = w.medium[n]
      OBVIOUS
    <3>4. h = g \/ h = f2 \/ h = SubSeq(f2, 1, Len(g))
      BY <3>1, <3>3 DEF Wrote, Follows
    <3>5. SubSeq(f2, 1, Len(f2)) = f2
      BY <3>2
    <3>6. Len(SubSeq(f2, 1, Len(g))) = Len(g)
      BY <3>2
    <3> QED
      BY <1>1, <2>2, <3>1, <3>3, <3>4, <3>5, <3>6 DEF Follows
  <2> QED
    BY <2>1, <2>2
<1>8. Wrote(d, n, f2, s, e)
  BY <1>5, <1>6, <1>7 DEF Wrote
<1> QED
  BY <1>1, <1>5, <1>6, <1>8

LEMMA TransferIs ==
  ASSUME adapter \in Adapters
  PROVE  /\ Transfer.done = {"whole"}
         /\ \/ Transfer.commits = <<>> /\ adapter \notin CommittingAdapters
            \/ Transfer.commits = <<"FF_FlushCache">> /\ adapter \notin CommittingAdapters
            \/ Transfer.commits = <<"f_sync">>
            \/ Transfer.commits = <<"lfs_file_sync">>
            \/ Transfer.commits = <<"FIOSYNC", "FIOCOMMITFS">>
<1>1. adapter \in {"Posix", "Windows", "FatFs", "VxWorks64", "PlusFat", "LittleFs"}
  BY AdaptersAssumption
<1>2. CASE adapter = "Posix"
  BY <1>2 DEF Transfer, TransferPosix, CommittingAdapters
<1>3. CASE adapter = "Windows"
  BY <1>3 DEF Transfer, TransferWindows, CommittingAdapters
<1>4. CASE adapter = "VxWorks64"
  BY <1>4 DEF Transfer, TransferVxWorks64, CommittingAdapters
<1>5. CASE adapter = "LittleFs"
  BY <1>5 DEF Transfer, TransferLittleFs, CommittingAdapters
<1>6. CASE adapter = "FatFs"
  BY <1>6 DEF Transfer, TransferFatFs, CommittingAdapters
<1>7. CASE adapter = "PlusFat"
  BY <1>7 DEF Transfer, TransferPlusFat, CommittingAdapters
<1> QED
  BY <1>1, <1>2, <1>3, <1>4, <1>5, <1>6, <1>7

\* The devices after none, one and two of the commits.
LEMMA CommitsIs ==
  ASSUME Len(Transfer.commits) \in 0..2, NEW w
  PROVE  \E x, y : /\ Commits(w)[0] = w
                   /\ 1 <= Len(Transfer.commits) => Commits(w)[1] = x /\ x = AfterCommit(w, Transfer.commits[1])
                   /\ 2 <= Len(Transfer.commits) => Commits(w)[2] = y /\ y = AfterCommit(x, Transfer.commits[2])
<1>a. PICK l : l = Len(Transfer.commits)
  OBVIOUS
<1>b. PICK c : c = Commits(w)
  OBVIOUS
<1>c. l \in 0..2
  BY <1>a
<1>1. PICK x : x = AfterCommit(w, Transfer.commits[1])
  OBVIOUS
<1>2. PICK y : y = AfterCommit(x, Transfer.commits[2])
  OBVIOUS
<1>3. PICK f : f = [i \in 0..l |-> IF i = 0 THEN w ELSE IF i = 1 THEN x ELSE y]
  OBVIOUS
<1>4. ASSUME NEW i \in 0..l
      PROVE  f[i] = IF i = 0 THEN w ELSE AfterCommit(f[i - 1], Transfer.commits[i])
  <2>1. CASE i = 0
    BY <1>3, <2>1
  <2>2. CASE i = 1
    <3>1. 0 \in 0..l /\ i - 1 = 0
      BY <1>c, <2>2
    <3> QED
      BY <1>1, <1>3, <2>2, <3>1
  <2>3. CASE i = 2
    <3>1. 1 \in 0..l /\ i - 1 = 1
      BY <1>c, <2>3
    <3> QED
      BY <1>2, <1>3, <2>3, <3>1
  <2> QED
    BY <1>c, <2>1, <2>2, <2>3
<1>5. f = [i \in 0..l |-> IF i = 0 THEN w ELSE AfterCommit(f[i - 1], Transfer.commits[i])]
  BY <1>3, <1>4
<1>6. c = [i \in 0..l |-> IF i = 0 THEN w ELSE AfterCommit(c[i - 1], Transfer.commits[i])]
  BY <1>5, <1>a, <1>b, Zenon DEF Commits
<1>7. ASSUME NEW i \in 0..l
      PROVE  c[i] = IF i = 0 THEN w ELSE AfterCommit(c[i - 1], Transfer.commits[i])
  BY <1>6, Zenon
<1>8. 0 \in 0..l /\ (1 <= l => 1 \in 0..l) /\ (2 <= l => 2 \in 0..l)
  BY <1>c
<1>9. c[0] = w
  BY <1>7, <1>8
<1>10. ASSUME 1 <= l PROVE c[1] = x
  <2>1. 1 \in 0..l /\ 1 - 1 = 0 /\ 1 # 0
    BY <1>8, <1>10
  <2> QED
    BY <1>1, <1>7, <1>9, <2>1
<1>11. ASSUME 2 <= l PROVE c[2] = y
  <2>1. 2 \in 0..l /\ 2 - 1 = 1 /\ 2 # 0 /\ 1 <= l
    BY <1>c, <1>8, <1>11
  <2> QED
    BY <1>2, <1>7, <1>10, <2>1
<1> QED
  BY <1>1, <1>2, <1>a, <1>b, <1>9, <1>10, <1>11

\* The devices c that the commits leave have all written f2.
EachWrote(d, n, f2, s, c) ==
  /\ Len(Transfer.commits) \in 0..2
  /\ \A i \in 0..Len(Transfer.commits) : Wrote(d, n, f2, s, c[i])
  /\ adapter \in CommittingAdapters => c[Len(Transfer.commits)].medium[n] = f2

LEMMA CommitsWrote ==
  ASSUME adapter \in Adapters, NEW d, FilesInv(d), NEW n \in DOMAIN d.files, d.Path = n,
         NEW f2, Shaped(n, d.files[n], f2), NEW s, NEW w, Wrote(d, n, f2, s, w), NEW c, c = Commits(w)
  PROVE  EachWrote(d, n, f2, s, c)
<1>1. /\ \/ Transfer.commits = <<>> /\ adapter \notin CommittingAdapters
         \/ Transfer.commits = <<"FF_FlushCache">> /\ adapter \notin CommittingAdapters
         \/ Transfer.commits = <<"f_sync">>
         \/ Transfer.commits = <<"lfs_file_sync">>
         \/ Transfer.commits = <<"FIOSYNC", "FIOCOMMITFS">>
  BY TransferIs
<1>2. PICK t : t = Transfer.commits
  OBVIOUS
<1>3. PICK l : l = Len(t)
  OBVIOUS
<1>4. \/ l = 0 /\ adapter \notin CommittingAdapters
      \/ l = 1 /\ (adapter \in CommittingAdapters => t[1] # "FF_FlushCache")
      \/ l = 2 /\ t[2] # "FF_FlushCache"
  <2>1. CASE t = <<>> /\ adapter \notin CommittingAdapters
    BY <1>3, <2>1
  <2>2. CASE t = <<"FF_FlushCache">> /\ adapter \notin CommittingAdapters
    BY <1>3, <2>2
  <2>3. CASE t = <<"f_sync">>
    BY <1>3, <2>3
  <2>4. CASE t = <<"lfs_file_sync">>
    BY <1>3, <2>4
  <2>5. CASE t = <<"FIOSYNC", "FIOCOMMITFS">>
    BY <1>3, <2>5
  <2> QED
    BY <1>1, <1>2, <2>1, <2>2, <2>3, <2>4, <2>5
<1>5. /\ c[0] = w
      /\ 1 <= l => c[1] = AfterCommit(c[0], t[1])
      /\ 2 <= l => c[2] = AfterCommit(c[1], t[2])
  <2>1. l = Len(Transfer.commits) /\ l \in 0..2
    BY <1>2, <1>3, <1>4
  <2>2. \E x, y : /\ Commits(w)[0] = w
                  /\ 1 <= Len(Transfer.commits) => Commits(w)[1] = x /\ x = AfterCommit(w, Transfer.commits[1])
                  /\ 2 <= Len(Transfer.commits) => Commits(w)[2] = y /\ y = AfterCommit(x, Transfer.commits[2])
    BY <2>1, CommitsIs
  <2>3. PICK x, y : /\ c[0] = w
                    /\ 1 <= l => c[1] = x /\ x = AfterCommit(w, t[1])
                    /\ 2 <= l => c[2] = y /\ y = AfterCommit(x, t[2])
    BY <1>2, <2>1, <2>2
  <2>4. 2 <= l => 1 <= l
    BY <2>1
  <2> QED
    BY <2>3, <2>4
<1>6. Wrote(d, n, f2, s, c[0])
  BY <1>5
<1>7. ASSUME 1 <= l PROVE Wrote(d, n, f2, s, c[1]) /\ (t[1] # "FF_FlushCache" => c[1].medium[n] = f2)
  <2>1. PICK x, y, name : x = c[0] /\ y = c[1] /\ name = t[1]
    OBVIOUS
  <2>2. y = AfterCommit(x, name) /\ Wrote(d, n, f2, s, x)
    BY <1>5, <1>6, <1>7, <2>1
  <2> QED
    BY <2>1, <2>2, AfterCommitIs
<1>8. ASSUME 2 <= l PROVE Wrote(d, n, f2, s, c[2]) /\ (t[2] # "FF_FlushCache" => c[2].medium[n] = f2)
  <2>1. PICK x, y, name : x = c[1] /\ y = c[2] /\ name = t[2]
    OBVIOUS
  <2>2. y = AfterCommit(x, name) /\ Wrote(d, n, f2, s, x)
    <3>1. 1 <= l
      BY <1>4, <1>8
    <3> QED
      BY <1>5, <1>7, <1>8, <2>1, <3>1
  <2> QED
    BY <2>1, <2>2, AfterCommitIs
<1>9. l \in 0..2 /\ \A i \in 0..l : Wrote(d, n, f2, s, c[i])
  <2>1. CASE l = 0
    BY <1>6, <2>1
  <2>2. CASE l = 1
    <3>1. \A i \in 0..l : i = 0 \/ i = 1
      BY <2>2
    <3> QED
      BY <1>6, <1>7, <2>2, <3>1
  <2>3. CASE l = 2
    <3>1. \A i \in 0..l : i = 0 \/ i = 1 \/ i = 2
      BY <2>3
    <3> QED
      BY <1>6, <1>7, <1>8, <2>3, <3>1
  <2> QED
    BY <1>4, <2>1, <2>2, <2>3
<1>10. adapter \in CommittingAdapters => c[l].medium[n] = f2
  BY <1>4, <1>7, <1>8
<1> QED
  BY <1>2, <1>3, <1>9, <1>10 DEF EachWrote

\* What a write of record r at place k of the file of block n may do.
WriteOutcome(d, n, k, r, o, a) ==
  /\ HandleInv(o.dev, a) /\ FilesInv(o.dev) /\ Grown(d, o.dev) /\ o.ok \in {TRUE, FALSE}
  /\ o.dev.strayed \subseteq d.strayed \cup {n}
  /\ \A m \in DOMAIN d.files \ {n} : o.dev.files[m] = d.files[m]
  /\ o.ok /\ n \notin o.dev.strayed => o.dev.files[n] = PutAt(d.files[n], k, r)
  /\ o.ok /\ n \notin o.dev.strayed /\ adapter \in CommittingAdapters => o.dev.medium[n] = o.dev.files[n]

\* The record is added at the end, or sets the mark of the one that is there.
MayPut(f, k, r) ==
  /\ k \in 1..Len(f) + 1
  /\ k <= Len(f) => f[k].block = r.block /\ r.sent

\* Where a block ends is not known once a write went astray on it.
MayWrite(d, n, k, r) ==
  /\ k \in Nat \ {0} /\ r \in Records /\ r.block \in {n, Torn}
  /\ n \notin d.strayed => MayPut(d.files[n], k, r)

LEMMA PutAtShaped ==
  ASSUME NEW n, NEW f \in Seq(Records), \A i \in 1..Len(f) : f[i].block \in {n, Torn},
         NEW k \in Nat \ {0}, NEW r \in Records, r.block \in {n, Torn}
  PROVE  /\ Shaped(n, f, PutAt(f, k, r))
         /\ k \in 1..Len(f) + 1 /\ (k <= Len(f) => f[k].block = r.block /\ (f[k].sent => r.sent))
              => Keeps(n, f, PutAt(f, k, r))
<1>1. PICK g : g = PutAt(f, k, r)
  OBVIOUS
<1>2. /\ g \in Seq(Records) /\ Len(g) = (IF k <= Len(f) THEN Len(f) ELSE k) /\ g[k] = r
      /\ \A i \in 1..Len(f) : i # k => g[i] = f[i]
      /\ \A i \in 1..Len(g) : g[i].block \in {n, Torn}
  <2>1. IsPut(n, f, k, r, PutAt(f, k, r))
    BY PutAtIs
  <2> QED
    BY <1>1, <2>1 DEF IsPut
<1>3. PICK j \in Nat : j = Len(f)
  OBVIOUS
<1>4. PICK l \in Nat : l = Len(g)
  BY <1>2
<1>5. j <= l
  BY <1>2, <1>3, <1>4
<1>6. Shaped(n, f, g)
  BY <1>2, <1>3, <1>4, <1>5 DEF Shaped
<1>7. ASSUME k <= Len(f) => f[k].block = r.block /\ (f[k].sent => r.sent), NEW i \in 1..j
      PROVE  g[i].block = f[i].block /\ (f[i].sent => g[i].sent)
  <2>1. CASE i = k
    <3>1. k <= Len(f)
      BY <1>3, <2>1
    <3> QED
      BY <1>2, <1>7, <2>1, <3>1
  <2>2. CASE i # k
    BY <1>2, <1>3, <2>2
  <2> QED
    BY <2>1, <2>2
<1> QED
  BY <1>1, <1>3, <1>6, <1>7 DEF Keeps

\* What a transfer may do that leaves f2 in the file of block n when it is done.
TransferOutcome(d, n, f2, s, o, a) ==
  /\ HandleInv(o.dev, a) /\ FilesInv(o.dev) /\ Grown(d, o.dev) /\ o.ok \in {TRUE, FALSE}
  /\ o.dev.strayed \subseteq d.strayed \cup {n}
  /\ \A m \in DOMAIN d.files \ {n} : o.dev.files[m] = d.files[m]
  /\ o.ok => /\ o.dev.strayed = s /\ o.dev.files[n] = f2
             /\ adapter \in CommittingAdapters => o.dev.medium[n] = f2

\* A transfer: nothing of it, the part z, the whole w, and w after some of the
\* commits.
LEMMA TransferredIs ==
  ASSUME adapter \in Adapters, NEW d, NEW a, HandleInv(d, a), FilesInv(d), NEW n \in DOMAIN d.files, d.Path = n,
         NEW f2, NEW s, MayLeave(d, n, f2, s), NEW w, Wrote(d, n, f2, s, w),
         NEW f3, MayLeave(d, n, f3, s), NEW z, z = d \/ Wrote(d, n, f3, s, z), NEW o \in Transferred(d, z, w)
  PROVE  TransferOutcome(d, n, f2, s, o, a)
<1>0. PICK l : l = Len(Transfer.commits)
  OBVIOUS
<1>1. PICK c : c = Commits(w)
  OBVIOUS
<1>2. /\ l \in 0..2 /\ \A i \in 0..l : Wrote(d, n, f2, s, c[i])
      /\ adapter \in CommittingAdapters => c[l].medium[n] = f2
  <2>1. Shaped(n, d.files[n], f2)
    BY DEF MayLeave
  <2>2. EachWrote(d, n, f2, s, c)
    BY <1>1, <2>1, CommitsWrote
  <2> QED
    BY <1>0, <2>2 DEF EachWrote
<1>3. \/ o = Outcome("failed" \in Transfer.done, d)
      \/ o = Outcome("short" \in Transfer.done, z)
      \/ o = Outcome(TRUE, c[l])
      \/ \E i \in 1..l : o = Outcome(FALSE, c[i - 1])
  BY <1>0, <1>1 DEF Transferred
<1>4. Transfer.done = {"whole"}
  BY TransferIs
<1>5. \/ o.ok = FALSE /\ (o.dev = d \/ o.dev = z)
      \/ o.ok = TRUE /\ o.dev = c[l]
      \/ o.ok = FALSE /\ \E i \in 0..l : o.dev = c[i]
  <2>1. \A i \in 1..l : i - 1 \in 0..l
    BY <1>2
  <2>6. ("failed" \in Transfer.done) = FALSE /\ ("short" \in Transfer.done) = FALSE
    BY <1>4
  <2>2. CASE o = Outcome("failed" \in Transfer.done, d)
    <3>1. o = Outcome(FALSE, d)
      BY <2>2, <2>6, Zenon
    <3> QED
      BY <3>1 DEF Outcome
  <2>3. CASE o = Outcome("short" \in Transfer.done, z)
    <3>1. o = Outcome(FALSE, z)
      BY <2>3, <2>6, Zenon
    <3> QED
      BY <3>1 DEF Outcome
  <2>4. CASE o = Outcome(TRUE, c[l])
    BY <2>4 DEF Outcome
  <2>5. ASSUME NEW i \in 1..l, o = Outcome(FALSE, c[i - 1])
        PROVE  o.ok = FALSE /\ \E j \in 0..l : o.dev = c[j]
    BY <2>1, <2>5 DEF Outcome
  <2> QED
    BY <1>3, <2>2, <2>3, <2>4, <2>5
<1>6. CASE o.ok = FALSE /\ o.dev = d
  BY <1>6, SettledItself, SettledGrows DEF TransferOutcome
<1>7. ASSUME NEW e, NEW g, MayLeave(d, n, g, s), Wrote(d, n, g, s, e)
      PROVE  /\ HandleInv(e, a) /\ FilesInv(e) /\ Grown(d, e) /\ e.strayed \subseteq d.strayed \cup {n}
             /\ \A m \in DOMAIN d.files \ {n} : e.files[m] = d.files[m]
             /\ e.strayed = s /\ e.files[n] = g
  <2>1. HandleInv(e, a) /\ FilesInv(e) /\ Grown(d, e)
    BY <1>7, WroteHolds
  <2> QED
    BY <1>7, <2>1 DEF Wrote, MayLeave
<1>8. CASE o.ok = FALSE /\ o.dev = z /\ Wrote(d, n, f3, s, z)
  BY <1>7, <1>8 DEF TransferOutcome
<1>9. ASSUME NEW i \in 0..l, o.dev = c[i], o.ok = FALSE \/ (o.ok = TRUE /\ i = l)
      PROVE  TransferOutcome(d, n, f2, s, o, a)
  <2>1. PICK e : e = c[i]
    OBVIOUS
  <2>2. Wrote(d, n, f2, s, e)
    BY <1>2, <2>1
  <2>3. /\ HandleInv(e, a) /\ FilesInv(e) /\ Grown(d, e) /\ e.strayed \subseteq d.strayed \cup {n}
        /\ \A m \in DOMAIN d.files \ {n} : e.files[m] = d.files[m]
        /\ e.strayed = s /\ e.files[n] = f2
    BY <1>7, <2>2
  <2> QED
    BY <1>2, <1>9, <2>1, <2>3 DEF TransferOutcome
<1>10. l \in 0..l
  BY <1>2
<1> QED
  BY <1>5, <1>6, <1>8, <1>9, <1>10

LEMMA WriteSoughtIs ==
  ASSUME adapter \in Adapters, NEW d, NEW a, HandleInv(d, a), FilesInv(d), NEW n \in DOMAIN d.files, d.Path = n,
         NEW k, NEW r, MayWrite(d, n, k, r), NEW o \in WriteSought(d, k, r)
  PROVE  WriteOutcome(d, n, k, r, o, a)
<1>1. PICK f, t : f = d.files[n] /\ t = TornRecord(r.sent)
  OBVIOUS
<1>2. f \in Seq(Records) /\ Len(f) \in Nat /\ DOMAIN f = 1..Len(f) /\ \A i \in 1..Len(f) : f[i].block \in {n, Torn}
  BY <1>1 DEF FilesInv, FileShape
<1>3. t \in Records /\ t.block = Torn /\ k \in Nat \ {0} /\ r \in Records /\ r.block \in {n, Torn}
  <2>1. k \in Nat \ {0} /\ r \in Records /\ r.block \in {n, Torn}
    BY DEF MayWrite
  <2>2. r.sent \in BOOLEAN
    BY <2>1 DEF Records
  <2> QED
    BY <1>1, <2>1, <2>2, TornIs
<1>4. PICK g, h : g = PutAt(f, k, r) /\ h = PutAt(f, k, t)
  OBVIOUS
<1>5. MayLeave(d, n, g, d.strayed)
  <2>1. Shaped(n, f, g)
    BY <1>2, <1>3, <1>4, PutAtShaped
  <2>2. ASSUME n \notin d.strayed PROVE Keeps(n, f, g)
    <3>1. k \in 1..Len(f) + 1 /\ (k <= Len(f) => f[k].block = r.block /\ (f[k].sent => r.sent))
      BY <1>1, <2>2 DEF MayWrite, MayPut
    <3> QED
      BY <1>2, <1>3, <1>4, <3>1, PutAtShaped
  <2> QED
    BY <1>1, <2>1, <2>2 DEF MayLeave
<1>6. ASSUME ~(k \in DOMAIN f) PROVE MayLeave(d, n, h, d.strayed)
  <2>1. Shaped(n, f, h)
    BY <1>2, <1>3, <1>4, PutAtShaped
  <2>2. ASSUME n \notin d.strayed PROVE Keeps(n, f, h)
    <3>1. k \in 1..Len(f) + 1 /\ ~(k <= Len(f))
      BY <1>1, <1>2, <1>3, <1>6, <2>2 DEF MayWrite, MayPut
    <3> QED
      BY <1>2, <1>3, <1>4, <3>1, PutAtShaped
  <2> QED
    BY <1>1, <2>1, <2>2 DEF MayLeave
<1>7. PICK w, z, y : w = Written(d, k, r) /\ z = Written(d, k, t) /\ y = IF k \in DOMAIN f THEN d ELSE z
  OBVIOUS
<1>8. Wrote(d, n, g, d.strayed, w) /\ Wrote(d, n, h, d.strayed, z)
  BY <1>1, <1>4, <1>7, WrittenIs
<1>9. o \in Transferred(d, y, w)
  BY <1>1, <1>7 DEF WriteSought
<1>12. PICK s : s = d.strayed
  OBVIOUS
<1>10. PICK x : MayLeave(d, n, x, s) /\ (y = d \/ Wrote(d, n, x, s, y))
  BY <1>5, <1>6, <1>7, <1>8, <1>12
<1>11. TransferOutcome(d, n, g, s, o, a)
  BY <1>5, <1>8, <1>9, <1>10, <1>12, TransferredIs
<1> QED
  BY <1>1, <1>4, <1>11 DEF WriteOutcome, TransferOutcome

\* A write that goes astray is to the block asked for all the same.
LEMMA AstrayIs ==
  ASSUME NEW d, NEW a, HandleInv(d, a), FilesInv(d), NEW n \in DOMAIN d.files, d.Path = n,
         NEW r \in Records, r.block \in {n, Torn}, NEW w \in Astray(d, r)
  PROVE  \E g : MayLeave(d, n, g, d.strayed \cup {n}) /\ Wrote(d, n, g, d.strayed \cup {n}, w)
<1>1. PICK f, t, s : f = d.files[n] /\ t = TornRecord(r.sent) /\ s = d.strayed \cup {n}
  OBVIOUS
<1>2. f \in Seq(Records) /\ Len(f) \in Nat /\ \A i \in 1..Len(f) : f[i].block \in {n, Torn}
  BY <1>1 DEF FilesInv, FileShape
<1>3. t \in Records /\ t.block = Torn
  <2>1. r.sent \in BOOLEAN
    BY DEF Records
  <2> QED
    BY <1>1, <2>1, TornIs
<1>10. PICK laid : laid = {LaidOver(d.files[d.Path], p, p, r) : p \in 1..Len(d.files[d.Path]) + 1}
                          \cup {LaidOver(d.files[d.Path], p, p, TornRecord(r.sent)) : p \in 1..Len(d.files[d.Path]) + 1}
                          \cup {LaidOver(d.files[d.Path], p, p + 1, TornRecord(r.sent)) : p \in 1..Len(d.files[d.Path])}
  OBVIOUS
<1>4. PICK g \in laid : w = [d EXCEPT !.strayed = @ \cup {d.Path}, !.files = With(d.files, d.Path, g)]
  BY <1>10, Zenon DEF Astray
<1>5. PICK p, q, x : p \in 1..Len(f) + 1 /\ q \in {p, p + 1} /\ x \in {r, t} /\ g = LaidOver(f, p, q, x)
  <2>1. \A p \in 1..Len(f) : p \in 1..Len(f) + 1
    BY <1>2
  <2>2. f = d.files[d.Path]
    BY <1>1
  <2>3. \/ \E p \in 1..Len(f) + 1 : \E x \in {r, t} : g = LaidOver(f, p, p, x)
        \/ \E p \in 1..Len(f) : g = LaidOver(f, p, p + 1, t)
    BY <1>1, <1>4, <1>10, <2>2
  <2> QED
    BY <2>1, <2>3
<1>6. Shaped(n, f, g)
  BY <1>2, <1>3, <1>5, LaidOverShaped
<1>7. MayLeave(d, n, g, s)
  BY <1>1, <1>6 DEF MayLeave
<1>8. w = [d EXCEPT !.strayed = s, !.files = With(d.files, d.Path, g)]
  BY <1>1, <1>4
<1>9. Wrote(d, n, g, s, w)
  BY <1>8, PlacedIs
<1> QED
  BY <1>1, <1>7, <1>9

LEMMA WriteIs ==
  ASSUME adapter \in Adapters, NEW d, NEW a, HandleInv(d, a), FilesInv(d), NEW n \in DOMAIN d.files, d.Path = n,
         NEW k, NEW r, MayWrite(d, n, k, r), NEW o \in Write(d, k, r)
  PROVE  WriteOutcome(d, n, k, r, o, a)
<1>1. o \in WriteSought(d, k, r) \/ \E w \in Astray(d, r) : o \in Transferred(d, w, w)
  BY DEF Write
<1>2. CASE o \in WriteSought(d, k, r)
  BY <1>2, WriteSoughtIs
<1>3. ASSUME NEW w \in Astray(d, r), o \in Transferred(d, w, w)
      PROVE  WriteOutcome(d, n, k, r, o, a)
  <2>1. r \in Records /\ r.block \in {n, Torn}
    BY DEF MayWrite
  <2>2. PICK s : s = d.strayed \cup {n}
    OBVIOUS
  <2>3. PICK g : MayLeave(d, n, g, s) /\ Wrote(d, n, g, s, w)
    BY <2>1, <2>2, AstrayIs
  <2>4. TransferOutcome(d, n, g, s, o, a)
    BY <1>3, <2>3, TransferredIs
  <2> QED
    BY <2>2, <2>4 DEF WriteOutcome, TransferOutcome
<1> QED
  BY <1>1, <1>2, <1>3

LEMMA WriteOnBlock ==
  ASSUME adapter \in Adapters, NEW d, NEW a, HandleInv(d, a), FilesInv(d), NEW n \in DOMAIN d.files,
         NEW k, NEW r, MayWrite(d, n, k, r),
         NEW e, HandleInv(e, a), FilesInv(e), Settled(d, e), e.Path = n, NEW o \in Write(e, k, r)
  PROVE  WriteOutcome(d, n, k, r, o, a)
<1>1. n \in DOMAIN e.files /\ e.files = d.files /\ e.strayed = d.strayed /\ MayWrite(e, n, k, r)
  BY DEF Settled, MayWrite
<1>2. WriteOutcome(e, n, k, r, o, a)
  BY <1>1, WriteIs
<1>3. Grown(d, o.dev)
  BY <1>2, SettledGrows, GrownAgain DEF WriteOutcome
<1> QED
  BY <1>1, <1>2, <1>3 DEF WriteOutcome

\* Nothing was written: the file could not be opened, or its size not read.
LEMMA NotWritten ==
  ASSUME NEW d, NEW a, FilesInv(d), NEW n, NEW k, NEW r, NEW o, Answered(d, o, a), o.ok = FALSE
  PROVE  WriteOutcome(d, n, k, r, o, a)
BY SettledGrows DEF WriteOutcome, Answered, Settled

\* The flag x that is written to place k is of the record that is there.
LEMMA WriteAtIs ==
  ASSUME adapter \in Adapters, NEW d, NEW a, HandleInv(d, a), FilesInv(d), NEW n \in DOMAIN d.files,
         NEW k, NEW r, NEW x, x = [r EXCEPT !.block = IF k \in DOMAIN d.files[n] THEN d.files[n][k].block ELSE Torn],
         MayWrite(d, n, k, x), NEW o \in WriteAt(d, n, k, r)
  PROVE  WriteOutcome(d, n, k, x, o, a)
<1>0. n \in SequenceNumbers
  BY DEF FilesInv
<1>1. PICK q \in EnsureHandleOpenOnBlock(d, n) :
        (~q.ok /\ o = q) \/ (q.ok /\ o \in Write(q.dev, k, FlagOf(q.dev, k, r)))
  BY DEF WriteAt, OnBlock
<1>2. Ensured(d, n, q, a)
  BY <1>0, EnsureIs
<1>3. CASE ~q.ok /\ o = q
  <2>1. Answered(d, o, a) /\ o.ok = FALSE
    BY <1>2, <1>3 DEF Ensured, Answered
  <2> QED
    BY <2>1, NotWritten
<1>4. CASE q.ok /\ o \in Write(q.dev, k, FlagOf(q.dev, k, r))
  <2>1. PICK e : e = q.dev
    OBVIOUS
  <2>2. HandleInv(e, a) /\ FilesInv(e) /\ Settled(d, e) /\ e.Path = n
    BY <1>2, <1>4, <2>1 DEF Ensured, Opened
  <2>3. FlagOf(e, k, r) = x
    BY <2>2 DEF FlagOf, Settled
  <2>4. o \in Write(e, k, x)
    BY <1>4, <2>1, <2>3
  <2> QED
    BY <2>2, <2>4, WriteOnBlock
<1> QED
  BY <1>1, <1>3, <1>4

LEMMA AppendToBlockIs ==
  ASSUME adapter \in Adapters, NEW d, NEW a, HandleInv(d, a), FilesInv(d), NEW n \in DOMAIN d.files,
         NEW k, k = Len(d.files[n]) + 1, NEW r, MayWrite(d, n, k, r), NEW o \in AppendToBlock(d, n, r)
  PROVE  WriteOutcome(d, n, k, r, o, a)
<1>0. n \in SequenceNumbers
  BY DEF FilesInv
<1>1. PICK q \in EnsureHandleOpenOnBlock(d, n) :
        (~q.ok /\ o = q) \/ (q.ok /\ \E s \in Size(q.dev) :
                                       o \in IF s.ok THEN Write(q.dev, s.size + 1, r) ELSE {Outcome(FALSE, q.dev)})
  <2>1. PICK q \in EnsureHandleOpenOnBlock(d, n) :
          (~q.ok /\ o = q) \/ (q.ok /\ o \in UNION {IF s.ok THEN Write(q.dev, s.size + 1, r)
                                                 ELSE {Outcome(FALSE, q.dev)} : s \in Size(q.dev)})
    BY DEF AppendToBlock, OnBlock
  <2> QED
    BY <2>1
<1>2. Ensured(d, n, q, a)
  BY <1>0, EnsureIs
<1>3. CASE ~q.ok /\ o = q
  <2>1. Answered(d, o, a) /\ o.ok = FALSE
    BY <1>2, <1>3 DEF Ensured, Answered
  <2> QED
    BY <2>1, NotWritten
<1>4. CASE q.ok /\ \E s \in Size(q.dev) :
                     o \in IF s.ok THEN Write(q.dev, s.size + 1, r) ELSE {Outcome(FALSE, q.dev)}
  <2>1. PICK e : e = q.dev
    OBVIOUS
  <2>2. HandleInv(e, a) /\ FilesInv(e) /\ Settled(d, e) /\ e.Path = n
    BY <1>2, <1>4, <2>1 DEF Ensured, Opened
  <2>3. PICK s \in Size(e) : o \in IF s.ok THEN Write(e, s.size + 1, r) ELSE {Outcome(FALSE, e)}
    BY <1>4, <2>1
  <2>4. s.ok => s.size = Len(e.files[n])
    BY <2>2, <2>3 DEF Size
  <2>5. CASE s.ok
    <3>1. s.size + 1 = k
      BY <2>2, <2>4, <2>5 DEF Settled
    <3>2. o \in Write(e, k, r)
      BY <2>3, <2>5, <3>1
    <3> QED
      BY <2>2, <3>2, WriteOnBlock
  <2>6. CASE ~s.ok
    <3>1. o.ok = FALSE /\ o.dev = e
      BY <2>3, <2>6 DEF Outcome
    <3> QED
      BY <2>2, <3>1, NotWritten DEF Answered
  <2> QED
    BY <2>5, <2>6
<1> QED
  BY <1>1, <1>3, <1>4

-----------------------------------------------------------------------------
(* Dispose and Cleanup *)

\* The device without the file of block n.
Gone(d, n, e) ==
  /\ DOMAIN e.files = DOMAIN d.files \ {n} /\ e.strayed = d.strayed \ {n}
  /\ \A m \in DOMAIN d.files \ {n} :
       /\ e.files[m] = d.files[m]
       /\ m \notin d.strayed => Grows(d.files[m], d.medium[m], e.files[m], e.medium[m])

LEMMA RemovedOrAbsentIs ==
  ASSUME adapter \in Adapters
  PROVE  "ok" \in RemovedOrAbsent /\ "failed" \notin RemovedOrAbsent
<1>1. adapter \in {"Posix", "Windows", "FatFs", "VxWorks64", "PlusFat", "LittleFs"}
  BY AdaptersAssumption
<1>2. CASE adapter = "Posix"
  BY <1>2 DEF RemovedOrAbsent, DeletePosix
<1>3. CASE adapter = "Windows"
  BY <1>3 DEF RemovedOrAbsent, DeleteWindows
<1>4. CASE adapter = "VxWorks64"
  BY <1>4 DEF RemovedOrAbsent, DeleteVxWorks64
<1>5. CASE adapter = "LittleFs"
  BY <1>5 DEF RemovedOrAbsent, DeleteLittleFs
<1>6. CASE adapter = "FatFs"
  BY <1>6 DEF RemovedOrAbsent, DeleteFatFs
<1>7. CASE adapter = "PlusFat"
  BY <1>7 DEF RemovedOrAbsent, DeletePlusFat
<1> QED
  BY <1>1, <1>2, <1>3, <1>4, <1>5, <1>6, <1>7

\* The file is closed before it is removed, so no open file is left without a path.
LEMMA DisposeIs ==
  ASSUME adapter \in Adapters, NEW d, NEW a, HandleInv(d, a), FilesInv(d), NEW n \in DOMAIN d.files,
         NEW o \in Dispose(d, n)
  PROVE  /\ HandleInv(o.dev, a) /\ FilesInv(o.dev)
         /\ \/ o.ok = FALSE /\ Settled(d, o.dev)
            \/ o.ok = TRUE /\ Gone(d, n, o.dev)
<1>1. PICK c \in CloseIfHoldingBlock(d, n) : o \in Delete(c, n)
  BY DEF Dispose
<1>2. HandleInv(c, a) /\ Settled(d, c) /\ ~(c.IsOpen /\ c.Path = n)
  <2>1. CASE d.HandleOpen /\ d.BlockIndex = n
    <3>1. PICK e \in Close(d) : c = HandleClosed(e)
      BY <1>1, <2>1 DEF CloseIfHoldingBlock
    <3>2. IsClosing(d, e, a)
      BY CloseIs
    <3> QED
      BY <3>1, <3>2, HandleClosedIs
  <2>2. CASE ~(d.HandleOpen /\ d.BlockIndex = n)
    <3>1. c = d
      BY <1>1, <2>2 DEF CloseIfHoldingBlock
    <3> QED
      BY <2>2, <3>1, SettledItself DEF HandleInv
  <2> QED
    BY <2>1, <2>2
<1>3. FilesInv(c) /\ Grown(d, c)
  BY <1>2, SettledGrows
<1>4. PICK answer \in DeleteAnswers(c, n) :
        o = Outcome(answer \in RemovedOrAbsent, IF answer = "ok" THEN Removed(c, n) ELSE c)
  BY <1>1 DEF Delete
<1>5. answer = "failed" \/ answer = "ok"
  <2>1. n \in DOMAIN c.files
    BY <1>2 DEF Settled
  <2> QED
    BY <1>4, <2>1 DEF DeleteAnswers
<1>6. ("ok" \in RemovedOrAbsent) = TRUE /\ ("failed" \in RemovedOrAbsent) = FALSE
  BY RemovedOrAbsentIs
<1>7. CASE answer = "failed"
  <2>1. answer # "ok"
    BY <1>7
  <2>2. o = Outcome(FALSE, IF answer = "ok" THEN Removed(c, n) ELSE c)
    BY <1>4, <1>6, <1>7, Zenon
  <2>3. o.ok = FALSE /\ o.dev = c
    BY <2>1, <2>2 DEF Outcome
  <2> QED
    BY <1>2, <1>3, <2>3
<1>8. CASE answer = "ok"
  <2>1. PICK f, m : f = Without(c.files, n) /\ m = Without(c.medium, n)
    OBVIOUS
  <2>2. PICK g : g = Removed(c, n)
    OBVIOUS
  <2>3. o = Outcome(TRUE, IF answer = "ok" THEN Removed(c, n) ELSE c)
    BY <1>4, <1>6, <1>8, Zenon
  <2>4. o.ok = TRUE /\ o.dev = g
    BY <1>8, <2>2, <2>3 DEF Outcome
  <2>5. g = [c EXCEPT !.files = f, !.medium = m, !.strayed = @ \ {n}]
    BY <1>2, <2>1, <2>2 DEF Removed
  <2>6. /\ IsDevice(g) /\ g.HandleOpen = c.HandleOpen /\ g.BlockIndex = c.BlockIndex /\ g.IsOpen = c.IsOpen
        /\ g.CloseOwed = c.CloseOwed /\ g.Path = c.Path /\ g.held = c.held /\ g.files = f /\ g.medium = m
        /\ g.strayed = c.strayed \ {n}
    BY <1>2, <2>5 DEF HandleInv, IsDevice
  <2>7. /\ DOMAIN f = DOMAIN c.files \ {n} /\ DOMAIN m = DOMAIN c.files \ {n}
        /\ \A q \in DOMAIN c.files \ {n} : f[q] = c.files[q] /\ m[q] = c.medium[q]
    BY <1>3, <2>1 DEF Without, FilesInv
  <2>8. HandleInv(g, a)
    BY <1>2, <2>6, <2>7 DEF HandleInv
  <2>9. FilesInv(g)
    BY <1>3, <2>6, <2>7 DEF FilesInv
  <2>10. Gone(d, n, g)
    BY <1>2, <1>3, <2>6, <2>7 DEF Gone, Grown, Settled
  <2> QED
    BY <2>4, <2>8, <2>9, <2>10
<1> QED
  BY <1>5, <1>7, <1>8

LEMMA CleanupIs ==
  ASSUME NEW d, NEW a, HandleInv(d, a), FilesInv(d), NEW e \in CleanupBoth(d)
  PROVE  /\ IsDevice(e) /\ Settled(d, e) /\ e.IsOpen = FALSE /\ e.HandleOpen = FALSE /\ e.CloseOwed = FALSE
<1>1. PICK c \in (IF d.HandleOpen THEN Close(d) ELSE {d}) : e \in Cleanup(HandleClosed(c))
  BY DEF CleanupBoth
<1>2. PICK h : h = HandleClosed(c)
  OBVIOUS
<1>3. HandleInv(h, a) /\ Settled(d, h) /\ h.IsOpen = FALSE /\ h.HandleOpen = FALSE
  <2>1. IsClosing(d, c, a)
    <3>1. CASE d.HandleOpen
      BY <1>1, <3>1, CloseIs
    <3>2. CASE ~d.HandleOpen
      <4>1. c = d /\ d.IsOpen = FALSE
        BY <1>1, <3>2 DEF HandleInv, IsDevice
      <4> QED
        BY <4>1, SettledItself DEF HandleInv, IsClosing
    <3> QED
      BY <3>1, <3>2
  <2> QED
    BY <1>2, <2>1, HandleClosedIs
<1>4. FilesInv(h)
  BY <1>3, SettledGrows
<1>5. PICK s \in SettleOwedClose(h) : e = [s EXCEPT !.CloseOwed = FALSE]
  BY <1>1, <1>2, <1>3 DEF Cleanup
<1>6. IsClosing(h, s, a)
  BY <1>3, <1>4, SettleOwedCloseIs
<1>7. /\ IsDevice(e) /\ e.IsOpen = FALSE /\ e.HandleOpen = FALSE /\ e.CloseOwed = FALSE
      /\ e.files = s.files /\ e.medium = s.medium /\ e.strayed = s.strayed
  BY <1>3, <1>5, <1>6 DEF IsClosing, IsDevice
<1>8. Settled(d, s)
  BY <1>3, <1>6, SettledAgain DEF IsClosing, FilesInv
<1> QED
  BY <1>7, <1>8 DEF Settled

-----------------------------------------------------------------------------
(* Whole records *)

IsWhole(f, k) ==
  /\ k \in 0..Len(f) /\ \A i \in 1..k : f[i].block # Torn
  /\ k < Len(f) => f[k + 1].block = Torn

LEMMA WholeIs ==
  ASSUME NEW f, Len(f) \in Nat
  PROVE  IsWhole(f, Whole(f))
<1>1. PICK l \in Nat : l = Len(f)
  OBVIOUS
<1> DEFINE T == {j \in 0..l : j < l => f[j + 1].block = Torn}
<1>2. l \in T /\ T \subseteq Nat
  OBVIOUS
<1>3. PICK k \in T : \A j \in T : k <= j
  <2> HIDE DEF T
  <2> QED  BY <1>2, LeastMember
<1>4. k \in 0..l /\ (k < l => f[k + 1].block = Torn)
  OBVIOUS
<1>5. ASSUME NEW i \in 1..k, f[i].block = Torn
      PROVE  FALSE
  <2>1. i - 1 \in 0..l /\ (i - 1) + 1 = i /\ ~(k <= i - 1)
    BY <1>4
  <2>2. i - 1 \in T
    BY <1>5, <2>1
  <2> QED
    BY <1>3, <2>1, <2>2
<1>6. /\ k \in 0..Len(f) /\ \A i \in 1..k : f[i].block # Torn
      /\ k < Len(f) => f[k + 1].block = Torn
  BY <1>1, <1>4, <1>5
<1>7. /\ Whole(f) \in 0..Len(f) /\ \A i \in 1..Whole(f) : f[i].block # Torn
      /\ Whole(f) < Len(f) => f[Whole(f) + 1].block = Torn
  BY <1>6, Zenon DEF Whole
<1> QED
  BY <1>7 DEF IsWhole

LEMMA WholeUnique ==
  ASSUME NEW f, Len(f) \in Nat, NEW k, IsWhole(f, k)
  PROVE  Whole(f) = k
<1>1. PICK j : j = Whole(f)
  OBVIOUS
<1>2. IsWhole(f, j)
  BY <1>1, WholeIs
<1>3. j \in Nat /\ k \in Nat /\ j <= Len(f) /\ k <= Len(f)
  BY <1>2 DEF IsWhole
<1>4. ~(j < k)
  <2> SUFFICES ASSUME j < k PROVE FALSE
    OBVIOUS
  <2>1. j + 1 \in 1..k /\ j < Len(f)
    BY <1>3
  <2> QED
    BY <1>2, <2>1 DEF IsWhole
<1>5. ~(k < j)
  <2> SUFFICES ASSUME k < j PROVE FALSE
    OBVIOUS
  <2>1. k + 1 \in 1..j /\ k < Len(f)
    BY <1>3
  <2> QED
    BY <1>2, <2>1 DEF IsWhole
<1> QED
  BY <1>1, <1>3, <1>4, <1>5

-----------------------------------------------------------------------------
(* The invariant *)

DeviceInv == adapter \in Adapters /\ HandleInv(dev, abandoned) /\ FilesInv(dev)

\* There is a number with no block.
SpaceInv == \E n \in SequenceNumbers : n \notin DOMAIN dev.files

\* While no call has failed the store knows which blocks there are, and where
\* they begin and end.
RunInv ==
  /\ up \in BOOLEAN /\ failed \in BOOLEAN
  /\ Calls =>
       /\ present = DOMAIN dev.files /\ DOMAIN put = DOMAIN dev.files
       /\ oldest \in present /\ newest \in present
       /\ IsArc(present, oldest, newest) /\ Offset(oldest, newest) < Modulus - 1

\* What the file f of block n has of the flags p.
Holds(n, p, f) ==
  /\ p \in Seq(BOOLEAN) /\ Len(p) <= Len(f)
  /\ \A k \in 1..Len(p) : f[k].block = n /\ (p[k] => f[k].sent)

HoldsAll(p, f) == Whole(f) = Len(p) /\ \A k \in 1..Len(p) : f[k].sent = p[k]

\* As long as no write to block n went astray.
PutInv ==
  up => \A n \in DOMAIN put :
          /\ n \in DOMAIN dev.files
          /\ n \notin dev.strayed => /\ Holds(n, put[n], dev.files[n])
                                     /\ ~failed => HoldsAll(put[n], dev.files[n])

\* The block written to ends where its last whole record does, unless it was found
\* to end in one cut short.
EndInv ==
  Calls /\ ~WriteBlockCorrupt /\ newest \notin dev.strayed => Len(dev.files[newest]) = Len(put[newest])

SeenInv ==
  /\ "size" \in DOMAIN seen => seen.size = seen.of
  /\ "record" \in DOMAIN seen =>
       \/ seen.record.block = seen.of
       \/ seen.record.block = Torn /\ (seen.astray \/ seen.of \in dev.strayed)

Inv == DeviceInv /\ SpaceInv /\ RunInv /\ PutInv /\ EndInv /\ TakenIsOnMedium /\ SeenInv

LEMMA HoldsGrows ==
  ASSUME NEW n, NEW p, NEW f, Len(f) \in Nat, Holds(n, p, f), NEW f2, Len(f2) \in Nat, Len(f) <= Len(f2),
         \A k \in 1..Len(f) : f2[k].block = f[k].block /\ (f[k].sent => f2[k].sent)
  PROVE  Holds(n, p, f2)
<1>1. Len(p) \in Nat
  BY DEF Holds
<1>2. \A k \in 1..Len(p) : k \in 1..Len(f)
  BY <1>1 DEF Holds
<1> QED
  BY <1>1, <1>2 DEF Holds

\* What was taken stays on a medium that only grows.
LEMMA TakenGrows ==
  ASSUME DeviceInv, TakenIsOnMedium, NEW e, FilesInv(e), NEW r \in taken, adapter \in CommittingAdapters,
         r[1] \in DOMAIN e.files, r[1] \notin dev.strayed,
         Grows(dev.files[r[1]], dev.medium[r[1]], e.files[r[1]], e.medium[r[1]])
  PROVE  /\ r[1] \in DOMAIN e.medium /\ r[2] \in DOMAIN e.medium[r[1]]
         /\ e.medium[r[1]][r[2]].block = r[1] /\ (r[3] => e.medium[r[1]][r[2]].sent)
<1>1. PICK n, k, m, m2 : n = r[1] /\ k = r[2] /\ m = dev.medium[n] /\ m2 = e.medium[n]
  OBVIOUS
<1>2. n \in DOMAIN dev.medium /\ k \in DOMAIN m /\ m[k].block = n /\ (r[3] => m[k].sent)
  BY <1>1 DEF TakenIsOnMedium
<1>3. m \in Seq(Records) /\ m2 \in Seq(Records) /\ n \in DOMAIN e.medium
  BY <1>1, <1>2 DEF DeviceInv, FilesInv, FileShape
<1>4. Len(m) \in Nat /\ Len(m2) \in Nat /\ DOMAIN m = 1..Len(m) /\ DOMAIN m2 = 1..Len(m2)
  BY <1>3
<1>5. /\ Len(m) <= Len(m2) /\ \A j \in 1..Len(m) : m2[j].block = m[j].block /\ (m[j].sent => m2[j].sent)
  BY <1>1 DEF Grows
<1>6. k \in 1..Len(m) /\ k \in 1..Len(m2)
  BY <1>2, <1>4, <1>5
<1> QED
  BY <1>1, <1>2, <1>3, <1>4, <1>5, <1>6

LEMMA NothingSeenHolds == ASSUME seen' = NothingSeen PROVE SeenInv'
BY DEF NothingSeen, SeenInv

LEMMA DeviceHolds ==
  ASSUME adapter \in Adapters, adapter' = adapter, NEW e, NEW a, HandleInv(e, a), FilesInv(e),
         dev' = e, abandoned' = a
  PROVE  DeviceInv'
BY DEF DeviceInv, HandleInv

\* Block n is kept, and grows unless a write went astray on it.
MayFollow(d, n, e) ==
  /\ n \in DOMAIN e.files
  /\ n \notin e.strayed => n \notin d.strayed /\ Grows(d.files[n], d.medium[n], e.files[n], e.medium[n])

LEMMA TakenHolds ==
  ASSUME DeviceInv, TakenIsOnMedium, adapter' = adapter, NEW e, FilesInv(e), dev' = e, taken' \subseteq taken,
         \A r \in taken' : r[1] \in DOMAIN dev.files => MayFollow(dev, r[1], e)
  PROVE  TakenIsOnMedium'
<1> SUFFICES ASSUME adapter \in CommittingAdapters, NEW r \in taken'
             PROVE  /\ r[1] \in DOMAIN e.medium
                    /\ r[1] \notin e.strayed =>
                         /\ r[2] \in DOMAIN e.medium[r[1]]
                         /\ e.medium[r[1]][r[2]].block = r[1] /\ (r[3] => e.medium[r[1]][r[2]].sent)
  BY DEF TakenIsOnMedium, CommittingAdapters
<1>1. PICK q : q = r
  OBVIOUS
<1>2. q \in taken /\ q[1] \in DOMAIN dev.files
  BY <1>1 DEF TakenIsOnMedium, DeviceInv, FilesInv
<1>3. MayFollow(dev, q[1], e) /\ q[1] \in DOMAIN e.medium
  BY <1>1, <1>2 DEF MayFollow, FilesInv
<1>4. CASE q[1] \in e.strayed
  BY <1>1, <1>3, <1>4
<1>5. CASE q[1] \notin e.strayed
  <2>1. /\ q[1] \in DOMAIN e.files /\ q[1] \notin dev.strayed
        /\ Grows(dev.files[q[1]], dev.medium[q[1]], e.files[q[1]], e.medium[q[1]])
    BY <1>3, <1>5 DEF MayFollow
  <2> QED
    BY <1>1, <1>2, <2>1, TakenGrows
<1> QED
  BY <1>4, <1>5

\* A step that leaves the blocks and their records, but for what a call that
\* failed may have written, and learns nothing.
LEMMA QuietStep ==
  ASSUME Inv, NEW d, d = dev, NEW e, NEW a, a = abandoned, HandleInv(e, a), FilesInv(e), Grown(d, e),
         dev' = e, abandoned' = a, adapter' = adapter, up' = up, failed' \in BOOLEAN,
         present' = present, oldest' = oldest, newest' = newest, taken' \subseteq taken,
         WriteBlockCorrupt' = WriteBlockCorrupt,
         \/ failed' = TRUE
         \/ failed' = failed /\ e.files = d.files /\ e.strayed = d.strayed /\ put' = put,
         DOMAIN put' \subseteq DOMAIN put, \A n \in DOMAIN put' : put'[n] = put[n]
  PROVE  DeviceInv' /\ SpaceInv' /\ RunInv' /\ PutInv' /\ EndInv' /\ TakenIsOnMedium'
<1>1. DeviceInv'
  BY DeviceHolds DEF Inv, DeviceInv
<1>2. DOMAIN e.files = DOMAIN d.files
  BY DEF Grown
<1>3. SpaceInv'
  BY <1>2 DEF Inv, SpaceInv
<1>4. RunInv'
  BY <1>2 DEF Inv, RunInv, Calls
<1>5. TakenIsOnMedium'
  <2>1. \A r \in taken' : r[1] \in DOMAIN dev.files => MayFollow(dev, r[1], e)
    BY <1>2 DEF Grown, MayFollow
  <2> QED
    BY <2>1, TakenHolds DEF Inv
<1>6. PutInv'
  <2> SUFFICES ASSUME up, NEW n \in DOMAIN put'
               PROVE  /\ n \in DOMAIN e.files
                      /\ n \notin e.strayed => /\ Holds(n, put'[n], e.files[n])
                                               /\ ~failed' => HoldsAll(put'[n], e.files[n])
    BY DEF PutInv
  <2>0. n \in DOMAIN e.files
    BY <1>2 DEF Inv, PutInv
  <2> SUFFICES ASSUME n \notin e.strayed
               PROVE  Holds(n, put'[n], e.files[n]) /\ (~failed' => HoldsAll(put'[n], e.files[n]))
    BY <2>0
  <2>1. PICK m, p, f, g : m = n /\ p = put[n] /\ f = d.files[n] /\ g = e.files[n]
    OBVIOUS
  <2>2. m \in DOMAIN d.files /\ m \notin d.strayed /\ Holds(m, p, f) /\ (~failed => HoldsAll(p, f))
    BY <2>1 DEF Inv, PutInv, Grown
  <2>3. Len(f) \in Nat /\ Len(g) \in Nat
    BY <1>2, <2>1, <2>2 DEF FilesInv, FileShape, Inv, DeviceInv
  <2>4. Len(f) <= Len(g) /\ \A k \in 1..Len(f) : g[k].block = f[k].block /\ (f[k].sent => g[k].sent)
    BY <2>1, <2>2 DEF Grown, Grows
  <2>5. Holds(m, p, g)
    BY <2>2, <2>3, <2>4, HoldsGrows
  <2>6. ~failed' => HoldsAll(p, g)
    BY <2>1, <2>2
  <2> QED
    BY <1>2, <2>1, <2>2, <2>5, <2>6
<1>7. EndInv'
  BY DEF Inv, EndInv, Calls
<1> QED
  BY <1>1, <1>3, <1>4, <1>5, <1>6, <1>7

LEMMA AskSizeInv == ASSUME Inv, AskSize PROVE Inv'
<1>1. PICK o \in BlockSize(dev, oldest) :
        /\ dev' = o.dev
        /\ failed' = ~o.ok
        /\ seen' = IF o.ok THEN [block |-> oldest, size |-> o.size, of |-> Len(dev.files[oldest])] ELSE NothingSeen
  BY DEF AskSize
<1>2. PICK d, n, a, e : d = dev /\ n = oldest /\ a = abandoned /\ e = o.dev
  OBVIOUS
<1>3. HandleInv(d, a) /\ FilesInv(d) /\ n \in DOMAIN d.files /\ ~failed /\ up
  BY <1>2 DEF Inv, DeviceInv, RunInv, AskSize, Calls
<1>4. o \in BlockSize(d, n)
  BY <1>1, <1>2
<1>5. /\ Answered(d, o, a) /\ o.ok \in {TRUE, FALSE}
      /\ o.ok => o.size = Len(d.files[n])
  BY <1>3, <1>4, BlockSizeIs
<1>6. HandleInv(e, a) /\ FilesInv(e) /\ Grown(d, e) /\ e.files = d.files /\ e.strayed = d.strayed
  BY <1>2, <1>3, <1>5, SettledGrows DEF Answered, Settled
<1>7. failed' \in BOOLEAN /\ (failed' = TRUE \/ failed' = failed)
  BY <1>1, <1>3, <1>5 DEF Inv, RunInv
<1>8. DeviceInv' /\ SpaceInv' /\ RunInv' /\ PutInv' /\ EndInv' /\ TakenIsOnMedium'
  BY <1>1, <1>2, <1>6, <1>7, QuietStep DEF AskSize
<1>9. SeenInv'
  <2>1. CASE o.ok
    <3>1. seen' = [block |-> n, size |-> o.size, of |-> Len(d.files[n])]
      BY <1>1, <1>2, <2>1
    <3> QED
      BY <1>5, <2>1, <3>1 DEF SeenInv
  <2>2. CASE ~o.ok
    BY <1>1, <2>2, NothingSeenHolds
  <2> QED
    BY <2>1, <2>2
<1> QED
  BY <1>8, <1>9 DEF Inv

LEMMA ReadOneInv == ASSUME Inv, NEW k, ReadOne(k) PROVE Inv'
<1>1. PICK o \in ReadBlock(dev, oldest, k) :
        /\ dev' = o.dev
        /\ failed' = ~o.ok
        /\ seen' = IF o.ok THEN [block |-> oldest, record |-> o.record, astray |-> o.astray, of |-> oldest]
                   ELSE NothingSeen
  BY DEF ReadOne
<1>2. PICK d, n, a, e, f : d = dev /\ n = oldest /\ a = abandoned /\ e = o.dev /\ f = d.files[n]
  OBVIOUS
<1>3. HandleInv(d, a) /\ FilesInv(d) /\ n \in DOMAIN d.files /\ n \in DOMAIN put /\ ~failed /\ up
  BY <1>2 DEF Inv, DeviceInv, RunInv, ReadOne, Calls
<1>4. o \in ReadBlock(d, n, k)
  BY <1>1, <1>2
<1>5. /\ Answered(d, o, a) /\ o.ok \in {TRUE, FALSE}
      /\ o.ok => RecordAt(n, f, k, o)
  BY <1>2, <1>3, <1>4, ReadBlockIs
<1>6. HandleInv(e, a) /\ FilesInv(e) /\ Grown(d, e) /\ e.files = d.files /\ e.strayed = d.strayed
  BY <1>2, <1>3, <1>5, SettledGrows DEF Answered, Settled
<1>7. failed' \in BOOLEAN /\ (failed' = TRUE \/ failed' = failed)
  BY <1>1, <1>3, <1>5 DEF Inv, RunInv
<1>8. DeviceInv' /\ SpaceInv' /\ RunInv' /\ PutInv' /\ EndInv' /\ TakenIsOnMedium'
  BY <1>1, <1>2, <1>6, <1>7, QuietStep DEF ReadOne
<1>9. n \notin d.strayed => f[k].block = n
  <2> SUFFICES ASSUME n \notin d.strayed PROVE f[k].block = n
    OBVIOUS
  <2>1. PICK p : p = put[n]
    OBVIOUS
  <2>2. Holds(n, p, f)
    BY <1>2, <1>3, <2>1 DEF Inv, PutInv
  <2>3. k \in DOMAIN p /\ DOMAIN p = 1..Len(p)
    BY <1>2, <2>1, <2>2 DEF ReadOne, Holds
  <2> QED
    BY <2>2, <2>3 DEF Holds
<1>10. SeenInv'
  <2>1. CASE o.ok
    <3>1. seen' = [block |-> n, record |-> o.record, astray |-> o.astray, of |-> n]
      BY <1>1, <1>2, <2>1
    <3>2. o.record.block = n \/ (o.record.block = Torn /\ (o.astray \/ n \in d.strayed))
      BY <1>5, <1>9, <2>1 DEF RecordAt
    <3>3. dev' = e /\ e.strayed = d.strayed
      BY <1>1, <1>2, <1>6
    <3> QED
      BY <3>1, <3>2, <3>3 DEF SeenInv
  <2>2. CASE ~o.ok
    BY <1>1, <2>2, NothingSeenHolds
  <2> QED
    BY <2>1, <2>2
<1> QED
  BY <1>8, <1>10 DEF Inv

\* A write that was done: unless it went astray the file of block n has record r
\* at place k, the flags p of the block follow, and the write is on the medium if
\* the adapter commits.
Writes(d, n, k, r, o, a, p) ==
  /\ d = dev /\ a = abandoned /\ n \in DOMAIN d.files
  /\ MayWrite(d, n, k, r) /\ WriteOutcome(d, n, k, r, o, a) /\ o.ok = TRUE
  /\ n \notin o.dev.strayed =>
       /\ Holds(n, p, PutAt(d.files[n], k, r)) /\ HoldsAll(p, PutAt(d.files[n], k, r))
       /\ n = newest /\ ~WriteBlockCorrupt => Len(PutAt(d.files[n], k, r)) = Len(p)
       /\ r.block = n
  /\ dev' = o.dev /\ failed' = FALSE /\ put' = [put EXCEPT ![n] = p]
  /\ \E q : /\ taken' = taken \cup {<<n, q, r.sent>>}
            /\ n \notin o.dev.strayed => q = k
  /\ UNCHANGED <<adapter, up, present, WriteBlockCorrupt, oldest, newest, abandoned>>

LEMMA WriteStep ==
  ASSUME Inv, Calls, NEW d, NEW n, NEW k, NEW r, NEW o, NEW a, NEW p, Writes(d, n, k, r, o, a, p)
  PROVE  DeviceInv' /\ SpaceInv' /\ RunInv' /\ PutInv' /\ EndInv' /\ TakenIsOnMedium'
<1>0. /\ d = dev /\ a = abandoned /\ n \in DOMAIN d.files
      /\ MayWrite(d, n, k, r) /\ WriteOutcome(d, n, k, r, o, a) /\ o.ok = TRUE
      /\ dev' = o.dev /\ failed' = FALSE /\ put' = [put EXCEPT ![n] = p]
      /\ abandoned' = a /\ adapter' = adapter /\ up' = up /\ WriteBlockCorrupt' = WriteBlockCorrupt
      /\ present' = present /\ oldest' = oldest /\ newest' = newest
  BY DEF Writes
<1>1. PICK e : e = o.dev
  OBVIOUS
<1>2. /\ HandleInv(e, a) /\ FilesInv(e) /\ Grown(d, e)
      /\ \A m \in DOMAIN d.files \ {n} : e.files[m] = d.files[m]
      /\ e.strayed \subseteq d.strayed \cup {n}
  BY <1>0, <1>1 DEF WriteOutcome
<1>10. ASSUME n \notin e.strayed
       PROVE  /\ e.files[n] = PutAt(d.files[n], k, r)
              /\ adapter \in CommittingAdapters => e.medium[n] = e.files[n]
              /\ Holds(n, p, e.files[n]) /\ HoldsAll(p, e.files[n])
              /\ n = newest /\ ~WriteBlockCorrupt => Len(e.files[n]) = Len(p)
              /\ r.block = n
  BY <1>0, <1>1, <1>10 DEF Writes, WriteOutcome
<1>3. DOMAIN e.files = DOMAIN d.files /\ d.strayed \subseteq e.strayed
  BY <1>0, <1>2 DEF Grown
<1>4. DeviceInv'
  BY <1>0, <1>1, <1>2, DeviceHolds DEF Inv, DeviceInv
<1>5. SpaceInv'
  BY <1>0, <1>1, <1>3 DEF Inv, SpaceInv
<1>6. DOMAIN put = DOMAIN d.files /\ DOMAIN put' = DOMAIN put /\ up /\ ~failed
  BY <1>0 DEF Inv, RunInv, Calls
<1>7. RunInv'
  BY <1>0, <1>1, <1>3, <1>6 DEF Inv, RunInv, Calls
<1>8. PutInv'
  <2> SUFFICES ASSUME NEW m \in DOMAIN put'
               PROVE  /\ m \in DOMAIN e.files
                      /\ m \notin e.strayed => Holds(m, put'[m], e.files[m]) /\ HoldsAll(put'[m], e.files[m])
    BY <1>0, <1>1 DEF PutInv
  <2>1. CASE m = n
    BY <1>0, <1>3, <1>6, <1>10, <2>1
  <2>2. CASE m # n
    BY <1>0, <1>2, <1>3, <1>6, <2>2 DEF Inv, PutInv, Calls
  <2> QED
    BY <1>0, <2>1, <2>2
<1>11. EndInv'
  <2> SUFFICES ASSUME ~WriteBlockCorrupt, newest \notin e.strayed
               PROVE  Len(e.files[newest]) = Len(put'[newest])
    BY <1>0, <1>1 DEF EndInv
  <2>0. newest \in DOMAIN d.files
    BY <1>0 DEF Inv, RunInv, Calls
  <2>1. CASE newest = n
    BY <1>0, <1>6, <1>10, <2>1
  <2>2. CASE newest # n
    <3>1. e.files[newest] = d.files[newest] /\ put'[newest] = put[newest] /\ newest \notin d.strayed
      BY <1>0, <1>2, <1>3, <1>6, <2>0, <2>2
    <3> QED
      BY <1>0, <1>6, <3>1 DEF Inv, EndInv, Calls
  <2> QED
    BY <2>1, <2>2
<1>12. PICK j : taken' = taken \cup {<<n, j, r.sent>>} /\ (n \notin e.strayed => j = k)
  BY <1>1 DEF Writes
<1>9. TakenIsOnMedium'
  <2> SUFFICES ASSUME adapter \in CommittingAdapters, NEW q \in taken'
               PROVE  /\ q[1] \in DOMAIN e.medium
                      /\ q[1] \notin e.strayed =>
                           /\ q[2] \in DOMAIN e.medium[q[1]]
                           /\ e.medium[q[1]][q[2]].block = q[1] /\ (q[3] => e.medium[q[1]][q[2]].sent)
    BY <1>0, <1>1 DEF TakenIsOnMedium, CommittingAdapters
  <2>0. DOMAIN e.medium = DOMAIN d.files
    BY <1>2, <1>3 DEF FilesInv
  <2>1. CASE q \in taken
    <3>1. PICK t : t = q
      OBVIOUS
    <3>2. t \in taken /\ t[1] \in DOMAIN d.files
      BY <1>0, <2>1, <3>1 DEF Inv, TakenIsOnMedium, DeviceInv, FilesInv
    <3>3. ASSUME t[1] \notin e.strayed
          PROVE  /\ t[2] \in DOMAIN e.medium[t[1]]
                 /\ e.medium[t[1]][t[2]].block = t[1] /\ (t[3] => e.medium[t[1]][t[2]].sent)
      <4>1. /\ t[1] \in DOMAIN e.files /\ t[1] \notin dev.strayed
            /\ Grows(dev.files[t[1]], dev.medium[t[1]], e.files[t[1]], e.medium[t[1]])
        BY <1>0, <1>2, <1>3, <3>2, <3>3 DEF Grown
      <4> QED
        BY <1>2, <3>2, <4>1, TakenGrows DEF Inv
    <3> QED
      BY <2>0, <3>1, <3>2, <3>3
  <2>2. CASE q = <<n, j, r.sent>>
    <3>1. q[1] = n /\ q[2] = j /\ q[3] = r.sent /\ n \in DOMAIN e.medium
      BY <1>0, <2>0, <2>2
    <3> SUFFICES ASSUME n \notin e.strayed
                 PROVE  /\ k \in DOMAIN e.medium[n] /\ e.medium[n][k].block = n
                        /\ r.sent => e.medium[n][k].sent
      BY <1>12, <3>1
    <3>2. PICK f, g : f = d.files[n] /\ g = PutAt(f, k, r)
      OBVIOUS
    <3>3. /\ f \in Seq(Records) /\ \A i \in 1..Len(f) : f[i].block \in {n, Torn}
          /\ k \in Nat \ {0} /\ r \in Records /\ r.block = n /\ r.block \in {n, Torn}
      BY <1>0, <1>10, <3>2 DEF MayWrite, Inv, DeviceInv, FilesInv, FileShape
    <3>4. g[k] = r /\ k \in DOMAIN g
      <4>1. IsPut(n, f, k, r, PutAt(f, k, r))
        BY <3>3, PutAtIs
      <4>2. k \in 1..k
        BY <3>3
      <4> QED
        BY <3>2, <4>1, <4>2 DEF IsPut, PutAt
    <3>5. e.medium[n] = g
      BY <1>10, <3>2
    <3> QED
      BY <3>3, <3>4, <3>5
  <2> QED
    BY <1>12, <2>1, <2>2
<1> QED
  BY <1>4, <1>5, <1>7, <1>8, <1>9, <1>11

LEMMA AppendOneInv == ASSUME Inv, AppendOne PROVE Inv'
<1>1. PICK d, n, a, p, f : d = dev /\ n = newest /\ a = abandoned /\ p = put[n] /\ f = d.files[n]
  OBVIOUS
<1>2. PICK k, r : k = Len(f) + 1 /\ r = [block |-> n, sent |-> FALSE]
  OBVIOUS
<1>3. PICK o \in AppendToBlock(d, n, r) :
        /\ dev' = o.dev
        /\ failed' = ~o.ok
        /\ put' = IF o.ok THEN [put EXCEPT ![n] = Append(p, FALSE)] ELSE put
        /\ taken' = IF o.ok THEN taken \cup {<<n, Len(p) + 1, FALSE>>} ELSE taken
  BY <1>1, <1>2 DEF AppendOne
<1>4. /\ HandleInv(d, a) /\ FilesInv(d) /\ adapter \in Adapters /\ n \in DOMAIN d.files /\ n \in DOMAIN put /\ ~failed /\ up
      /\ FileShape(n, f, d.medium[n]) /\ (n \notin d.strayed => Holds(n, p, f) /\ HoldsAll(p, f)) /\ n \in SequenceNumbers
  BY <1>1 DEF Inv, DeviceInv, RunInv, PutInv, AppendOne, Calls, FilesInv
<1>5. f \in Seq(Records) /\ Len(f) \in Nat /\ \A i \in 1..Len(f) : f[i].block \in {n, Torn}
  BY <1>4 DEF FileShape
\* The block ends with a whole record, so the place of the next is known.
<1>6. ASSUME n \notin d.strayed
      PROVE  /\ Holds(n, p, f) /\ HoldsAll(p, f) /\ p \in Seq(BOOLEAN) /\ Len(p) \in Nat
             /\ Len(p) = Len(f) /\ k = Len(p) + 1
  <2>1. Holds(n, p, f) /\ HoldsAll(p, f) /\ p \in Seq(BOOLEAN) /\ Len(p) \in Nat
    BY <1>4, <1>6 DEF Holds
  <2>2. Len(f) = Len(p)
    BY <1>1, <1>6 DEF AppendOne, Inv, EndInv
  <2> QED
    BY <1>2, <2>1, <2>2
<1>7. r \in Records /\ r.block = n /\ r.sent = FALSE
  BY <1>2, <1>4 DEF Records
<1>8. MayWrite(d, n, k, r)
  BY <1>1, <1>2, <1>5, <1>7 DEF MayWrite, MayPut
<1>9. WriteOutcome(d, n, k, r, o, a)
  BY <1>1, <1>2, <1>3, <1>4, <1>8, AppendToBlockIs
<1>10. SeenInv'
  BY NothingSeenHolds DEF AppendOne
<1>11. CASE o.ok = TRUE
  <2>1. PICK g, s : g = PutAt(f, k, r) /\ s = Append(p, FALSE)
    OBVIOUS
  <2>2. ASSUME n \notin o.dev.strayed
        PROVE  Holds(n, s, g) /\ HoldsAll(s, g) /\ Len(g) = Len(s)
    <3>a. n \notin d.strayed
      BY <1>9, <2>2 DEF WriteOutcome, Grown
    <3>0. /\ Holds(n, p, f) /\ HoldsAll(p, f) /\ p \in Seq(BOOLEAN) /\ Len(p) \in Nat
          /\ Len(p) = Len(f) /\ k = Len(p) + 1
      BY <1>6, <3>a
    <3>2. /\ g \in Seq(Records) /\ Len(g) = k /\ g[k] = r /\ \A i \in 1..Len(f) : i # k => g[i] = f[i]
      <4>1. k \in Nat \ {0} /\ ~(k <= Len(f)) /\ r.block \in {n, Torn}
        BY <1>2, <1>5, <1>7
      <4>2. IsPut(n, f, k, r, PutAt(f, k, r))
        BY <1>5, <1>7, <4>1, PutAtIs
      <4> QED
        BY <2>1, <4>1, <4>2 DEF IsPut
    <3>3. s \in Seq(BOOLEAN) /\ Len(s) = k /\ s[k] = FALSE /\ \A i \in 1..Len(p) : s[i] = p[i]
      <4>1. PICK b : b = FALSE
        OBVIOUS
      <4>2. b \in BOOLEAN /\ s = Append(p, b)
        BY <2>1, <4>1
      <4>3. s \in Seq(BOOLEAN)
        BY <3>0, <4>2
      <4>4. Len(s) = k /\ s[k] = b /\ \A i \in 1..Len(p) : s[i] = p[i]
        BY <3>0, <4>2
      <4> QED
        BY <4>1, <4>3, <4>4
    <3>4. \A i \in 1..k : i = k \/ (i \in 1..Len(p) /\ i \in 1..Len(f) /\ i # k)
      BY <1>5, <3>0
    <3>5. \A i \in 1..k : g[i].block = n /\ (s[i] => g[i].sent) /\ g[i].sent = s[i]
      <4> SUFFICES ASSUME NEW i \in 1..k
                   PROVE  g[i].block = n /\ (s[i] => g[i].sent) /\ g[i].sent = s[i]
        OBVIOUS
      <4>1. CASE i = k
        BY <1>7, <3>2, <3>3, <4>1
      <4>2. CASE i # k
        <5>1. i \in 1..Len(p) /\ g[i] = f[i] /\ s[i] = p[i]
          BY <3>2, <3>3, <3>4, <4>2
        <5> QED
          BY <1>4, <3>0, <5>1 DEF Holds, HoldsAll
      <4> QED
        BY <4>1, <4>2
    <3>6. Holds(n, s, g)
      BY <1>5, <3>0, <3>2, <3>3, <3>5 DEF Holds
    <3>7. HoldsAll(s, g)
      <4>1. n # Torn
        BY <1>4 DEF Torn, SequenceNumbers
      <4>2. k \in Nat
        BY <1>5, <3>0
      <4>3. IsWhole(g, k)
        BY <3>2, <3>5, <4>1, <4>2 DEF IsWhole
      <4>4. Whole(g) = k
        BY <3>2, <4>2, <4>3, WholeUnique
      <4> QED
        BY <3>3, <3>5, <4>4 DEF HoldsAll
    <3> QED
      BY <3>2, <3>3, <3>6, <3>7
  <2>8. /\ failed' = FALSE /\ put' = [put EXCEPT ![n] = s] /\ taken' = taken \cup {<<n, Len(p) + 1, r.sent>>}
        /\ n \notin o.dev.strayed => Len(p) + 1 = k
    <3>1. n \notin o.dev.strayed => n \notin d.strayed
      BY <1>9 DEF WriteOutcome, Grown
    <3> QED
      BY <1>3, <1>6, <1>7, <1>11, <2>1, <3>1
  <2>9. DeviceInv' /\ SpaceInv' /\ RunInv' /\ PutInv' /\ EndInv' /\ TakenIsOnMedium'
    <3>1. n \notin o.dev.strayed =>
            /\ Holds(n, s, PutAt(d.files[n], k, r)) /\ HoldsAll(s, PutAt(d.files[n], k, r))
            /\ Len(PutAt(d.files[n], k, r)) = Len(s)
      BY <1>1, <2>1, <2>2
    <3>2. Writes(d, n, k, r, o, a, s)
      BY <1>1, <1>3, <1>4, <1>7, <1>8, <1>9, <1>11, <2>8, <3>1 DEF Writes, AppendOne
    <3> QED
      BY <3>2, WriteStep DEF AppendOne
  <2> QED
    BY <1>10, <2>9 DEF Inv
<1>12. CASE o.ok = FALSE
  <2>1. PICK e : e = o.dev
    OBVIOUS
  <2>2. HandleInv(e, a) /\ FilesInv(e) /\ Grown(d, e)
    BY <1>9, <2>1 DEF WriteOutcome
  <2>3. failed' = TRUE /\ put' = put /\ taken' = taken /\ dev' = e
    BY <1>3, <1>12, <2>1
  <2>4. DeviceInv' /\ SpaceInv' /\ RunInv' /\ PutInv' /\ EndInv' /\ TakenIsOnMedium'
    BY <1>1, <2>2, <2>3, QuietStep DEF AppendOne
  <2> QED
    BY <1>10, <2>4 DEF Inv
<1> QED
  BY <1>9, <1>11, <1>12 DEF WriteOutcome

LEMMA MarkSentInv == ASSUME Inv, NEW k \in Nat \ {0}, MarkSent(k) PROVE Inv'
<1>1. PICK d, n, a, p, f : d = dev /\ n = oldest /\ a = abandoned /\ p = put[n] /\ f = d.files[n]
  OBVIOUS
<1>2. PICK r : r = [block |-> n, sent |-> TRUE]
  OBVIOUS
<1>3. PICK o \in WriteAt(d, n, k, r) :
        /\ dev' = o.dev
        /\ failed' = ~o.ok
        /\ put' = IF o.ok THEN [put EXCEPT ![n] = [p EXCEPT ![k] = TRUE]] ELSE put
        /\ taken' = IF o.ok THEN taken \cup {<<n, k, TRUE>>} ELSE taken
  BY <1>1, <1>2 DEF MarkSent
<1>4. /\ HandleInv(d, a) /\ FilesInv(d) /\ adapter \in Adapters /\ n \in DOMAIN d.files /\ n \in DOMAIN put /\ ~failed /\ up
      /\ FileShape(n, f, d.medium[n]) /\ (n \notin d.strayed => Holds(n, p, f) /\ HoldsAll(p, f)) /\ n \in SequenceNumbers
  BY <1>1 DEF Inv, DeviceInv, RunInv, PutInv, MarkSent, Calls, FilesInv
<1>5. f \in Seq(Records) /\ Len(f) \in Nat /\ DOMAIN f = 1..Len(f) /\ \A i \in 1..Len(f) : f[i].block \in {n, Torn}
  BY <1>4 DEF FileShape
<1>13. PICK x : x = [r EXCEPT !.block = IF k \in DOMAIN f THEN f[k].block ELSE Torn]
  OBVIOUS
<1>7. x \in Records /\ x.block \in {n, Torn} /\ x.sent = TRUE /\ (k \in DOMAIN f => x.block = f[k].block)
  BY <1>2, <1>4, <1>5, <1>13 DEF Records
\* The record to mark is where it was put.
<1>6. ASSUME n \notin d.strayed
      PROVE  /\ Holds(n, p, f) /\ HoldsAll(p, f) /\ p \in Seq(BOOLEAN) /\ Len(p) \in Nat
             /\ k \in 1..Len(p) /\ k \in 1..Len(f) /\ k \in 1..Len(f) + 1 /\ k <= Len(f) /\ f[k].block = n /\ x.block = n
  <2>1. Holds(n, p, f) /\ HoldsAll(p, f) /\ p \in Seq(BOOLEAN) /\ Len(p) \in Nat /\ DOMAIN p = 1..Len(p)
    BY <1>4, <1>6 DEF Holds
  <2>2. k \in 1..Len(p) /\ k \in 1..Len(f) /\ k \in 1..Len(f) + 1 /\ k <= Len(f) /\ f[k].block = n
    BY <1>1, <1>5, <2>1 DEF MarkSent, Holds
  <2> QED
    BY <1>5, <1>7, <2>1, <2>2
<1>8. MayWrite(d, n, k, x)
  BY <1>1, <1>6, <1>7 DEF MayWrite, MayPut
<1>9. WriteOutcome(d, n, k, x, o, a)
  BY <1>1, <1>3, <1>4, <1>8, <1>13, WriteAtIs
<1>10. SeenInv'
  BY NothingSeenHolds DEF MarkSent
<1>11. CASE o.ok = TRUE
  <2>1. PICK g, s : g = PutAt(f, k, x) /\ s = [p EXCEPT ![k] = TRUE]
    OBVIOUS
  <2>2. ASSUME n \notin o.dev.strayed
        PROVE  Holds(n, s, g) /\ HoldsAll(s, g) /\ Len(g) = Len(f) /\ Len(s) = Len(p) /\ x.block = n
    <3>a. n \notin d.strayed
      BY <1>9, <2>2 DEF WriteOutcome, Grown
    <3>0. /\ Holds(n, p, f) /\ HoldsAll(p, f) /\ p \in Seq(BOOLEAN) /\ Len(p) \in Nat
          /\ k \in 1..Len(p) /\ k \in 1..Len(f) /\ k \in 1..Len(f) + 1 /\ k <= Len(f) /\ f[k].block = n /\ x.block = n
      BY <1>6, <3>a
    <3>2. /\ g \in Seq(Records) /\ Len(g) = Len(f) /\ g[k] = x /\ \A i \in 1..Len(f) : i # k => g[i] = f[i]
      <4>1. IsPut(n, f, k, x, PutAt(f, k, x))
        BY <1>5, <1>7, PutAtIs
      <4> QED
        BY <2>1, <3>0, <4>1 DEF IsPut
    <3>3. s \in Seq(BOOLEAN) /\ Len(s) = Len(p) /\ s[k] = TRUE /\ \A i \in 1..Len(p) : i # k => s[i] = p[i]
      <4>1. PICK b : b = TRUE
        OBVIOUS
      <4>2. b \in BOOLEAN /\ s = [p EXCEPT ![k] = b]
        BY <2>1, <4>1
      <4>3. s \in Seq(BOOLEAN) /\ Len(s) = Len(p)
        BY <3>0, <4>2
      <4>4. s[k] = b /\ \A i \in 1..Len(p) : i # k => s[i] = p[i]
        BY <3>0, <4>2
      <4> QED
        BY <4>1, <4>3, <4>4
    <3>5. \A i \in 1..Len(p) : g[i].block = n /\ (s[i] => g[i].sent) /\ g[i].sent = s[i]
      <4> SUFFICES ASSUME NEW i \in 1..Len(p)
                   PROVE  g[i].block = n /\ (s[i] => g[i].sent) /\ g[i].sent = s[i]
        OBVIOUS
      <4>1. CASE i = k
        BY <1>7, <3>0, <3>2, <3>3, <4>1
      <4>2. CASE i # k
        <5>1. i \in 1..Len(f)
          BY <1>5, <3>0 DEF Holds
        <5>2. g[i] = f[i] /\ s[i] = p[i]
          BY <3>2, <3>3, <4>2, <5>1
        <5> QED
          BY <3>0, <5>2 DEF Holds, HoldsAll
      <4> QED
        BY <4>1, <4>2
    <3>6. Holds(n, s, g)
      BY <3>0, <3>2, <3>3, <3>5 DEF Holds
    <3>7. HoldsAll(s, g)
      <4>1. \A i \in 1..Len(f) : g[i].block = f[i].block
        BY <3>0, <3>2
      <4>2. IsWhole(f, Len(p))
        BY <1>5, <3>0, WholeIs DEF HoldsAll
      <4>3. IsWhole(g, Len(p))
        <5>1. Len(p) \in 0..Len(g)
          BY <3>2, <4>2 DEF IsWhole
        <5>2. \A i \in 1..Len(p) : g[i].block # Torn
          <6>1. \A i \in 1..Len(p) : i \in 1..Len(f)
            BY <1>5, <3>0 DEF Holds
          <6> QED
            BY <4>1, <4>2, <6>1 DEF IsWhole
        <5>3. Len(p) < Len(g) => g[Len(p) + 1].block = Torn
          <6> SUFFICES ASSUME Len(p) < Len(g) PROVE g[Len(p) + 1].block = Torn
            OBVIOUS
          <6>1. Len(p) + 1 \in 1..Len(f) /\ Len(p) < Len(f)
            BY <1>5, <3>0, <3>2
          <6> QED
            BY <4>1, <4>2, <6>1 DEF IsWhole
        <5> QED
          BY <5>1, <5>2, <5>3 DEF IsWhole
      <4>4. Whole(g) = Len(p)
        BY <1>5, <3>2, <4>3, WholeUnique
      <4> QED
        BY <3>3, <3>5, <4>4 DEF HoldsAll
    <3> QED
      BY <3>0, <3>2, <3>3, <3>6, <3>7
  <2>3. ASSUME n \notin o.dev.strayed, n = newest, ~WriteBlockCorrupt
        PROVE  Len(f) = Len(p)
    <3>1. n \notin d.strayed
      BY <1>9, <2>3 DEF WriteOutcome, Grown
    <3> QED
      BY <1>1, <2>3, <3>1 DEF MarkSent, Inv, EndInv
  <2>8. failed' = FALSE /\ put' = [put EXCEPT ![n] = s] /\ taken' = taken \cup {<<n, k, x.sent>>}
    BY <1>3, <1>7, <1>11, <2>1
  <2>9. DeviceInv' /\ SpaceInv' /\ RunInv' /\ PutInv' /\ EndInv' /\ TakenIsOnMedium'
    <3>1. n \notin o.dev.strayed =>
            /\ Holds(n, s, PutAt(d.files[n], k, x)) /\ HoldsAll(s, PutAt(d.files[n], k, x))
            /\ n = newest /\ ~WriteBlockCorrupt => Len(PutAt(d.files[n], k, x)) = Len(s)
            /\ x.block = n
      BY <1>1, <2>1, <2>2, <2>3
    <3>2. Writes(d, n, k, x, o, a, s)
      BY <1>1, <1>3, <1>4, <1>8, <1>9, <1>11, <2>8, <3>1 DEF Writes, MarkSent
    <3> QED
      BY <3>2, WriteStep DEF MarkSent
  <2> QED
    BY <1>10, <2>9 DEF Inv
<1>12. CASE o.ok = FALSE
  <2>1. PICK e : e = o.dev
    OBVIOUS
  <2>2. HandleInv(e, a) /\ FilesInv(e) /\ Grown(d, e)
    BY <1>9, <2>1 DEF WriteOutcome
  <2>3. failed' = TRUE /\ put' = put /\ taken' = taken /\ dev' = e
    BY <1>3, <1>12, <2>1
  <2>4. DeviceInv' /\ SpaceInv' /\ RunInv' /\ PutInv' /\ EndInv' /\ TakenIsOnMedium'
    BY <1>1, <2>2, <2>3, QuietStep DEF MarkSent
  <2> QED
    BY <1>10, <2>4 DEF Inv
<1> QED
  BY <1>9, <1>11, <1>12 DEF WriteOutcome

\* Nothing is known any more but what the files hold.
LEMMA ForgottenHolds ==
  ASSUME Forgotten
  PROVE  RunInv' /\ PutInv' /\ EndInv' /\ TakenIsOnMedium' /\ SeenInv'
<1>1. SeenInv'
  BY NothingSeenHolds DEF Forgotten
<1> QED
  BY <1>1 DEF Forgotten, RunInv, Calls, PutInv, EndInv, TakenIsOnMedium

LEMMA StopInv == ASSUME Inv, Stop PROVE Inv'
<1>1. PICK d, a : d = dev /\ a = abandoned
  OBVIOUS
<1>2. PICK c \in CleanupBoth(d) : dev' = [c EXCEPT !.Path = 0] /\ abandoned' = c.held
  BY <1>1 DEF Stop
<1>3. HandleInv(d, a) /\ FilesInv(d) /\ adapter \in Adapters
  BY <1>1 DEF Inv, DeviceInv
<1>4. /\ IsDevice(c) /\ Settled(d, c) /\ c.IsOpen = FALSE /\ c.HandleOpen = FALSE /\ c.CloseOwed = FALSE
  BY <1>3, CleanupIs
<1>5. PICK e, b : e = [c EXCEPT !.Path = 0] /\ b = c.held
  OBVIOUS
<1>6. /\ IsDevice(e) /\ e.IsOpen = FALSE /\ e.HandleOpen = FALSE /\ e.CloseOwed = FALSE /\ e.held = b
      /\ e.files = c.files /\ e.medium = c.medium /\ e.strayed = c.strayed
  BY <1>4, <1>5 DEF IsDevice
<1>7. HandleInv(e, b)
  BY <1>6 DEF HandleInv
<1>8. Settled(d, e)
  BY <1>4, <1>6 DEF Settled
<1>9. FilesInv(e) /\ e.files = d.files
  BY <1>3, <1>8, SettledGrows DEF Settled
<1>10. DeviceInv'
  BY <1>2, <1>3, <1>5, <1>7, <1>9, DeviceHolds DEF Stop
<1>11. SpaceInv'
  BY <1>1, <1>2, <1>5, <1>9 DEF Inv, SpaceInv
<1> QED
  BY <1>10, <1>11, ForgottenHolds DEF Inv, Stop

LEMMA PowerCutInv == ASSUME Inv, PowerCut PROVE Inv'
<1>1. PICK written, lost :
        dev' = Device([files |-> [n \in Existing \ lost |-> IF n \in written THEN dev.files[n] ELSE dev.medium[n]],
                       medium |-> [n \in Existing \ lost |-> IF n \in written THEN dev.files[n] ELSE dev.medium[n]],
                       held |-> {}, strayed |-> dev.strayed \ lost])
  BY DEF PowerCut
<1>2. PICK left : left = [n \in Existing \ lost |-> IF n \in written THEN dev.files[n] ELSE dev.medium[n]]
  OBVIOUS
<1>3. PICK e : e = Device([files |-> left, medium |-> left, held |-> {}, strayed |-> dev.strayed \ lost])
  OBVIOUS
<1>4. /\ IsDevice(e) /\ e.files = left /\ e.medium = left /\ e.held = {} /\ e.IsOpen = FALSE
      /\ e.HandleOpen = FALSE /\ e.CloseOwed = FALSE /\ e.strayed = dev.strayed \ lost
  BY <1>3 DEF Device, Closed, IsDevice
<1>5. HandleInv(e, {})
  BY <1>4 DEF HandleInv
<1>6. DOMAIN left \subseteq DOMAIN dev.files
  BY <1>2 DEF Existing, BlockExists, Exists
<1>7. FilesInv(e)
  <2> SUFFICES ASSUME NEW n \in DOMAIN left
               PROVE  FileShape(n, left[n], left[n]) /\ FileInv(n, left[n], left[n])
    BY <1>4, <1>6 DEF FilesInv, Inv, DeviceInv
  <2>1. PICK f, m, x : f = dev.files[n] /\ m = dev.medium[n] /\ x = left[n]
    OBVIOUS
  <2>2. FileShape(n, f, m)
    BY <1>6, <2>1 DEF Inv, DeviceInv, FilesInv
  <2>3. x = f \/ x = m
    BY <1>2, <2>1
  <2>4. Len(x) \in Nat /\ x \in Seq(Records) /\ \A k \in 1..Len(x) : x[k].block \in {n, Torn}
    BY <2>2, <2>3 DEF FileShape
  <2>5. FileShape(n, x, x) /\ FileInv(n, x, x)
    BY <2>4 DEF FileShape, FileInv
  <2> QED
    BY <2>1, <2>5
<1>8. dev' = e /\ adapter \in Adapters
  BY <1>1, <1>2, <1>3 DEF Inv, DeviceInv
<1>9. DeviceInv'
  BY <1>5, <1>7, <1>8, DeviceHolds DEF PowerCut
<1>10. SpaceInv'
  BY <1>4, <1>6, <1>8 DEF Inv, SpaceInv
<1> QED
  BY <1>9, <1>10, ForgottenHolds DEF Inv, PowerCut

LEMMA InitHolds == Init => Inv
<1> SUFFICES ASSUME Init PROVE Inv
  OBVIOUS
<1>1. PICK d : d = Device(EmptyFileSystem)
  OBVIOUS
<1>2. /\ IsDevice(d) /\ d.files = <<>> /\ d.medium = <<>> /\ d.held = {} /\ d.IsOpen = FALSE
      /\ d.HandleOpen = FALSE /\ d.CloseOwed = FALSE
  BY <1>1 DEF Device, Closed, IsDevice, EmptyFileSystem
<1>3. DOMAIN d.files = {} /\ DOMAIN d.medium = {}
  BY <1>2
<1>4. HandleInv(d, {})
  BY <1>2 DEF HandleInv
<1>5. FilesInv(d)
  BY <1>3 DEF FilesInv
<1>6. DeviceInv
  BY <1>1, <1>4, <1>5 DEF Init, DeviceInv
<1>7. SpaceInv
  <2>1. 0 \in SequenceNumbers
    BY ModulusAssumption DEF SequenceNumbers
  <2> QED
    BY <1>1, <1>3, <2>1 DEF Init, SpaceInv
<1>8. RunInv /\ PutInv /\ EndInv /\ TakenIsOnMedium
  BY DEF Init, RunInv, Calls, PutInv, EndInv, TakenIsOnMedium
<1>9. SeenInv
  BY DEF Init, SeenInv, NothingSeen
<1> QED
  BY <1>6, <1>7, <1>8, <1>9 DEF Inv

-----------------------------------------------------------------------------
(* The run on files *)

LEMMA ExistingIs == ASSUME DeviceInv PROVE Existing = DOMAIN dev.files
BY DEF DeviceInv, FilesInv, Existing, BlockExists, Exists

LEMMA ArcLeavesRoom ==
  ASSUME NEW P, NEW o \in SequenceNumbers, NEW w \in SequenceNumbers, IsArc(P, o, w), Offset(o, w) < Modulus - 1
  PROVE  \E n \in SequenceNumbers : n \notin P
<1>1. PICK n : n = CircularPrev(o)
  OBVIOUS
<1>2. n = (IF o = 0 THEN Modulus - 1 ELSE o - 1) /\ n \in SequenceNumbers
  BY <1>1, PrevIs
<1>3. Offset(o, n) = IF n >= o THEN n - o ELSE n - o + Modulus
  BY <1>2, OffsetIs
<1>4. Offset(o, n) = Modulus - 1
  BY <1>2, <1>3, ModulusAssumption DEF SequenceNumbers
<1>5. Offset(o, w) \in SequenceNumbers
  BY OffsetIs
<1>6. n \notin P
  BY <1>4, <1>5, ModulusAssumption DEF IsArc, SequenceNumbers
<1> QED
  BY <1>2, <1>6

\* The next number to write to is one that no block has.
LEMMA NextIsFree ==
  ASSUME NEW P, P \subseteq SequenceNumbers, NEW o \in SequenceNumbers, NEW w \in SequenceNumbers, IsArc(P, o, w), Offset(o, w) < Modulus - 1,
         NEW x, x = NextSequence(w)
  PROVE  /\ x \in SequenceNumbers /\ x \notin P /\ Offset(o, x) = Offset(o, w) + 1
         /\ IsArc(P \cup {x}, o, x)
<1>1. x = (IF w = Modulus - 1 THEN 0 ELSE w + 1) /\ x \in SequenceNumbers
  BY NextIs
<1>2. Offset(o, w) = (IF w >= o THEN w - o ELSE w - o + Modulus) /\ Offset(o, w) \in SequenceNumbers
  BY OffsetIs
<1>3. Offset(o, x) = (IF x >= o THEN x - o ELSE x - o + Modulus) /\ Offset(o, x) \in SequenceNumbers
  BY <1>1, OffsetIs
<1>4. Offset(o, x) = Offset(o, w) + 1
  BY <1>1, <1>2, <1>3, ModulusAssumption DEF SequenceNumbers
<1>5. Offset(o, w) \in Int /\ Offset(o, x) \in Int
  BY <1>2, <1>3 DEF SequenceNumbers
<1>6. \A n \in P : Offset(o, n) <= Offset(o, w) /\ Offset(o, n) \in Int
  BY OffsetIs DEF IsArc, SequenceNumbers
<1>7. x \notin P
  BY <1>4, <1>5, <1>6
<1>8. IsArc(P \cup {x}, o, x)
  <2>1. \A n \in P : Offset(o, n) <= Offset(o, x)
    BY <1>4, <1>5, <1>6
  <2>2. Offset(o, x) <= Offset(o, x)
    BY <1>5
  <2> QED
    BY <2>1, <2>2 DEF IsArc
<1> QED
  BY <1>1, <1>4, <1>7, <1>8

\* What a restart finds when there is a block, and a number without one.
LEMMA LocateOnFiles ==
  ASSUME NEW P, P \subseteq SequenceNumbers, P # {}, NEW z \in SequenceNumbers, z \notin P,
         NEW run, run = LocateRunBoundaries(P)
  PROVE  /\ run.oldest \in P /\ run.newest \in P
         /\ IsArc(P, run.oldest, run.newest) /\ Offset(run.oldest, run.newest) < Modulus - 1
<1>1. PICK o, l : o = NextSequence(z) /\ l = Modulus - 1
  OBVIOUS
<1>2. o = (IF z = Modulus - 1 THEN 0 ELSE z + 1) /\ o \in SequenceNumbers /\ l \in 1..Modulus - 1
  BY <1>1, NextIs, ModulusAssumption
<1>3. ASSUME NEW n \in P
      PROVE  Offset(o, n) < l
  <2>1. n \in SequenceNumbers /\ n # z
    OBVIOUS
  <2>2. Offset(o, n) = IF n >= o THEN n - o ELSE n - o + Modulus
    BY <1>2, <2>1, OffsetIs
  <2> QED
    BY <1>1, <1>2, <2>1, <2>2, ModulusAssumption DEF SequenceNumbers
<1> QED
  BY <1>1, <1>2, <1>3, LocateIs

LEMMA OpenEmptyInv == ASSUME Inv, OpenEmpty PROVE Inv'
<1>1. PICK d, a : d = dev /\ a = abandoned
  OBVIOUS
<1>2. PICK o \in Acquire(d, 0) :
        /\ dev' = o.dev
        /\ failed' = ~o.ok
        /\ present' = IF o.ok THEN {0} ELSE {}
        /\ put' = IF o.ok THEN With(<<>>, 0, <<>>) ELSE <<>>
  BY <1>1 DEF OpenEmpty
<1>3. /\ HandleInv(d, a) /\ FilesInv(d) /\ adapter \in Adapters /\ DOMAIN d.files = {} /\ 0 \in SequenceNumbers
  BY <1>1, ExistingIs, ModulusAssumption DEF Inv, DeviceInv, OpenEmpty, SequenceNumbers
<1>4. /\ HandleInv(o.dev, a) /\ FilesInv(o.dev)
      /\ \/ o.ok = FALSE /\ Settled(d, o.dev)
         \/ o.ok = TRUE /\ Created(d, 0, o.dev)
  BY <1>3, AcquireIs
<1>5. PICK e : e = o.dev
  OBVIOUS
<1>6. DeviceInv'
  BY <1>1, <1>2, <1>3, <1>4, DeviceHolds DEF OpenEmpty
<1>7. TakenIsOnMedium' /\ SeenInv'
  BY NothingSeenHolds DEF OpenEmpty, TakenIsOnMedium
<1>8. CASE o.ok = FALSE /\ Settled(d, o.dev)
  <2>1. DOMAIN e.files = {} /\ failed' = TRUE /\ DOMAIN put' = {} /\ up' = TRUE
    <3>1. DOMAIN e.files = {}
      BY <1>3, <1>5, <1>8 DEF Settled
    <3>2. put' = <<>> /\ failed' = TRUE /\ up' = TRUE
      BY <1>2, <1>8 DEF OpenEmpty
    <3> QED
      BY <3>1, <3>2
  <2>2. SpaceInv'
    BY <1>2, <1>3, <1>5, <2>1 DEF SpaceInv
  <2>3. RunInv' /\ PutInv' /\ EndInv'
    BY <2>1 DEF RunInv, Calls, PutInv, EndInv
  <2> QED
    BY <1>6, <1>7, <2>2, <2>3 DEF Inv
<1>9. CASE o.ok = TRUE /\ Created(d, 0, o.dev)
  <2>1. PICK p : p = With(<<>>, 0, <<>>)
    OBVIOUS
  <2>2. DOMAIN p = {0} /\ p[0] = <<>>
    BY <2>1 DEF With
  <2>3. DOMAIN e.files = {0} /\ e.files[0] = <<>>
    BY <1>3, <1>5, <1>9, CreatedHolds
  <2>4. failed' = FALSE /\ up' = TRUE /\ present' = {0} /\ put' = p /\ oldest' = 0 /\ newest' = 0 /\ dev' = e
    BY <1>2, <1>5, <1>9, <2>1 DEF OpenEmpty
  <2>5. Offset(0, 0) = 0
    BY <1>3, OffsetIs
  <2>6. IsArc({0}, 0, 0) /\ Offset(0, 0) < Modulus - 1
    BY <2>5, ModulusAssumption DEF IsArc
  <2>7. SpaceInv'
    <3>1. \E n \in SequenceNumbers : n \notin {0}
      BY <1>3, <2>6, ArcLeavesRoom
    <3> QED
      BY <2>3, <2>4, <3>1 DEF SpaceInv
  <2>8. RunInv'
    BY <2>2, <2>3, <2>4, <2>6 DEF RunInv, Calls
  <2>9. PutInv'
    <3>1. PICK f : f = <<>>
      OBVIOUS
    <3>2. f \in Seq(BOOLEAN) /\ Len(f) = 0
      BY <3>1
    <3>3. Holds(0, f, f)
      BY <3>2 DEF Holds
    <3>4. IsWhole(f, 0)
      BY <3>2 DEF IsWhole
    <3>5. Whole(f) = 0
      BY <3>2, <3>4, WholeUnique
    <3>6. HoldsAll(f, f)
      BY <3>2, <3>5 DEF HoldsAll
    <3> QED
      BY <2>2, <2>3, <2>4, <3>1, <3>3, <3>6 DEF PutInv
  <2>10. EndInv'
    BY <2>2, <2>3, <2>4 DEF EndInv
  <2> QED
    BY <1>6, <1>7, <2>7, <2>8, <2>9, <2>10 DEF Inv
<1> QED
  BY <1>4, <1>8, <1>9

LEMMA EmptyIsSound == ~EndsTorn(<<>>)
<1>1. Len(<<>>) = 0
  OBVIOUS
<1> QED
  BY <1>1, WholeIs DEF IsWhole, EndsTorn

\* CheckWriteBlock leaves the files alone, and a block it takes for sound is, or
\* no longer answered for.
LEMMA CheckWriteBlockIs ==
  ASSUME NEW d, NEW a, HandleInv(d, a), FilesInv(d), NEW n, NEW c \in CheckWriteBlock(d, n)
  PROVE  /\ HandleInv(c.dev, a) /\ FilesInv(c.dev)
         /\ c.dev.files = d.files /\ c.dev.medium = d.medium /\ d.strayed \subseteq c.dev.strayed
         /\ ~c.corrupt /\ n \notin c.dev.strayed => ~EndsTorn(d.files[n])
<1>1. IsDevice(d)
  BY DEF HandleInv
<1>2. CASE c.dev = d /\ (c.corrupt = EndsTorn(d.files[n]) \/ c.corrupt = (d.files[n] # <<>>))
  <2>1. d.files[n] = <<>> => ~EndsTorn(d.files[n])
    BY EmptyIsSound
  <2> QED
    BY <1>2, <2>1
<1>3. CASE c.dev = [d EXCEPT !.strayed = @ \cup {n}]
  <2>1. PICK e : e = c.dev
    OBVIOUS
  <2>2. /\ IsDevice(e) /\ e.strayed = d.strayed \cup {n} /\ e.files = d.files /\ e.medium = d.medium
        /\ e.HandleOpen = d.HandleOpen /\ e.BlockIndex = d.BlockIndex /\ e.IsOpen = d.IsOpen
        /\ e.CloseOwed = d.CloseOwed /\ e.Path = d.Path /\ e.held = d.held
    BY <1>1, <1>3, <2>1 DEF IsDevice
  <2>3. HandleInv(e, a)
    BY <2>2 DEF HandleInv
  <2>4. FilesInv(e)
    BY <2>2 DEF FilesInv
  <2> QED
    BY <2>1, <2>2, <2>3, <2>4
<1>4. \/ \E corrupt \in {EndsTorn(d.files[n]), d.files[n] # <<>>} : c = [corrupt |-> corrupt, dev |-> d]
      \/ c = [corrupt |-> FALSE, dev |-> [d EXCEPT !.strayed = @ \cup {n}]]
  BY Zenon DEF CheckWriteBlock
<1>5. ASSUME NEW corrupt \in {EndsTorn(d.files[n]), d.files[n] # <<>>}, c = [corrupt |-> corrupt, dev |-> d]
      PROVE  c.dev = d /\ (c.corrupt = EndsTorn(d.files[n]) \/ c.corrupt = (d.files[n] # <<>>))
  BY <1>5, Zenon
<1>6. \/ c.dev = d /\ (c.corrupt = EndsTorn(d.files[n]) \/ c.corrupt = (d.files[n] # <<>>))
      \/ c.dev = [d EXCEPT !.strayed = @ \cup {n}]
  <2>1. CASE c = [corrupt |-> FALSE, dev |-> [d EXCEPT !.strayed = @ \cup {n}]]
    BY <2>1, Zenon
  <2> QED
    BY <1>4, <1>5, <2>1, Zenon
<1> QED
  BY <1>2, <1>3, <1>6

LEMMA OpenExistingInv == ASSUME Inv, OpenExisting PROVE Inv'
<1>1. PICK d, a, P, run : d = dev /\ a = abandoned /\ P = Existing /\ run = LocateRunBoundaries(P)
  OBVIOUS
<1>2. PICK n : n = run.newest
  OBVIOUS
<1>3. PICK o \in BlockSize(d, n) :
        /\ \E c \in IF o.ok THEN CheckWriteBlock(o.dev, n) ELSE {[corrupt |-> FALSE, dev |-> o.dev]} :
             dev' = c.dev /\ WriteBlockCorrupt' = c.corrupt
        /\ failed' = ~o.ok
        /\ seen' = IF o.ok THEN [block |-> n, size |-> o.size, of |-> Len(d.files[n])] ELSE NothingSeen
  BY <1>1, <1>2 DEF OpenExisting
<1>4. /\ up' = TRUE /\ present' = P /\ oldest' = run.oldest /\ newest' = run.newest
      /\ put' = FlagsFound /\ taken' = OnMedium /\ adapter' = adapter /\ abandoned' = a /\ P # {}
  BY <1>1, <1>2 DEF OpenExisting
<1>5. /\ HandleInv(d, a) /\ FilesInv(d) /\ adapter \in Adapters /\ P = DOMAIN d.files /\ P \subseteq SequenceNumbers
      /\ \E z \in SequenceNumbers : z \notin P
  BY <1>1, ExistingIs DEF Inv, DeviceInv, FilesInv, SpaceInv
<1>6. /\ run.oldest \in P /\ run.newest \in P
      /\ IsArc(P, run.oldest, run.newest) /\ Offset(run.oldest, run.newest) < Modulus - 1
  BY <1>1, <1>4, <1>5, LocateOnFiles
<1>7. /\ Answered(d, o, a) /\ o.ok \in {TRUE, FALSE}
      /\ o.ok => o.size = Len(d.files[n])
  BY <1>2, <1>3, <1>5, <1>6, BlockSizeIs
<1>8. PICK e : e = dev'
  OBVIOUS
<1>9. /\ HandleInv(e, a) /\ FilesInv(e) /\ Grown(d, e) /\ e.files = d.files
      /\ o.ok /\ ~WriteBlockCorrupt' /\ n \notin e.strayed => ~EndsTorn(d.files[n])
  <2>1. PICK b : b = o.dev
    OBVIOUS
  <2>2. HandleInv(b, a) /\ FilesInv(b) /\ Grown(d, b) /\ b.files = d.files
    BY <1>5, <1>7, <2>1, SettledGrows DEF Answered, Settled
  <2>3. CASE o.ok
    <3>1. PICK c \in CheckWriteBlock(b, n) : dev' = c.dev /\ WriteBlockCorrupt' = c.corrupt
      BY <1>3, <2>1, <2>3
    <3> QED
      BY <1>8, <2>2, <3>1, CheckWriteBlockIs DEF Grown
  <2>4. CASE ~o.ok
    BY <1>3, <1>8, <2>1, <2>2, <2>4
  <2> QED
    BY <2>3, <2>4
<1>10. DeviceInv'
  BY <1>3, <1>4, <1>5, <1>8, <1>9, DeviceHolds
<1>11. SpaceInv'
  BY <1>3, <1>5, <1>8, <1>9 DEF SpaceInv
<1>12. FlagsFound = [m \in P |-> [k \in 1..Whole(d.files[m]) |-> d.files[m][k].sent]]
  BY <1>1 DEF FlagsFound
<1>13. RunInv'
  BY <1>3, <1>4, <1>5, <1>6, <1>7, <1>8, <1>9, <1>12 DEF RunInv, Calls
<1>14. PutInv'
  <2> SUFFICES ASSUME NEW m \in P
               PROVE  Holds(m, put'[m], e.files[m]) /\ HoldsAll(put'[m], e.files[m])
    BY <1>3, <1>4, <1>5, <1>8, <1>9, <1>12 DEF PutInv
  <2>1. PICK f, p, w : f = d.files[m] /\ w = Whole(f) /\ p = [k \in 1..w |-> f[k].sent]
    OBVIOUS
  <2>2. put'[m] = p /\ e.files[m] = f
    BY <1>4, <1>9, <1>12, <2>1
  <2>3. FileShape(m, f, d.medium[m])
    BY <1>5, <2>1 DEF FilesInv
  <2>4. f \in Seq(Records) /\ Len(f) \in Nat /\ \A k \in 1..Len(f) : f[k].block \in {m, Torn} /\ f[k] \in Records
    BY <2>3 DEF FileShape
  <2>5. IsWhole(f, w)
    BY <2>1, <2>4, WholeIs
  <2>6. w \in Nat /\ w <= Len(f) /\ \A k \in 1..w : k \in 1..Len(f) /\ f[k].block = m
    BY <2>4, <2>5 DEF IsWhole
  <2>7. \A k \in 1..w : f[k].sent \in BOOLEAN
    BY <2>4, <2>6 DEF Records
  <2>8. p \in Seq(BOOLEAN) /\ Len(p) = w /\ \A k \in 1..w : p[k] = f[k].sent
    BY <2>1, <2>6, <2>7
  <2>9. Holds(m, p, f) /\ HoldsAll(p, f)
    BY <2>1, <2>6, <2>8 DEF Holds, HoldsAll
  <2> QED
    BY <2>2, <2>9
<1>15. TakenIsOnMedium'
  <2> SUFFICES ASSUME NEW q \in taken'
               PROVE  /\ q[1] \in DOMAIN e.medium
                      /\ q[1] \notin e.strayed =>
                           /\ q[2] \in DOMAIN e.medium[q[1]]
                           /\ e.medium[q[1]][q[2]].block = q[1] /\ (q[3] => e.medium[q[1]][q[2]].sent)
    BY <1>3, <1>8 DEF TakenIsOnMedium
  <2>0. \E m \in P : \E k \in 1..Whole(d.medium[m]) : q = <<m, k, d.medium[m][k].sent>>
    BY <1>1, <1>4 DEF OnMedium
  <2>1. PICK m \in P : \E k \in 1..Whole(d.medium[m]) : q = <<m, k, d.medium[m][k].sent>>
    BY <2>0
  <2>2. PICK g, h, w : g = d.medium[m] /\ h = e.medium[m] /\ w = Whole(g)
    OBVIOUS
  <2>3. PICK k \in 1..w : q = <<m, k, g[k].sent>>
    BY <2>1, <2>2
  <2>4. FileShape(m, d.files[m], g) /\ FileShape(m, e.files[m], h) /\ m \in DOMAIN e.medium
    BY <1>5, <1>9, <2>2 DEF FilesInv
  <2>5. Len(g) \in Nat /\ h \in Seq(Records) /\ Len(h) \in Nat /\ DOMAIN h = 1..Len(h)
    BY <2>4 DEF FileShape
  <2>6. IsWhole(g, w)
    BY <2>2, <2>5, WholeIs
  <2>7. k \in 1..Len(g) /\ g[k].block # Torn
    BY <2>3, <2>5, <2>6 DEF IsWhole
  <2>8. g[k].block = m
    BY <2>4, <2>7 DEF FileShape
  <2>11. q[1] = m /\ q[2] = k /\ q[3] = g[k].sent
    BY <2>3
  <2>9. CASE m \in e.strayed
    BY <2>4, <2>9, <2>11
  <2>10. CASE m \notin e.strayed
    <3>1. Grows(d.files[m], g, e.files[m], h)
      BY <1>5, <1>9, <2>2, <2>10 DEF Grown
    <3>2. k \in 1..Len(h) /\ h[k].block = m /\ (g[k].sent => h[k].sent)
      BY <2>5, <2>7, <2>8, <3>1 DEF Grows
    <3> QED
      BY <2>2, <2>4, <2>5, <2>11, <3>2
  <2> QED
    BY <2>9, <2>10
<1>16. SeenInv'
  <2>1. CASE o.ok
    <3>1. seen' = [block |-> n, size |-> o.size, of |-> Len(d.files[n])]
      BY <1>3, <2>1
    <3> QED
      BY <1>7, <2>1, <3>1 DEF SeenInv
  <2>2. CASE ~o.ok
    BY <1>3, <2>2, NothingSeenHolds
  <2> QED
    BY <2>1, <2>2
<1>17. EndInv'
  <2> SUFFICES ASSUME o.ok, ~WriteBlockCorrupt', n \notin e.strayed
               PROVE  Len(e.files[n]) = Len(put'[n])
    BY <1>2, <1>3, <1>4, <1>8 DEF EndInv, Calls
  <2>1. PICK f, w : f = d.files[n] /\ w = Whole(f)
    OBVIOUS
  <2>2. Len(f) \in Nat
    BY <1>2, <1>5, <1>6, <2>1 DEF FilesInv, FileShape
  <2>3. w \in 0..Len(f) /\ ~(w < Len(f))
    BY <1>9, <2>1, <2>2, WholeIs DEF IsWhole, EndsTorn
  <2>4. w = Len(f)
    BY <2>2, <2>3
  <2>5. Len(put'[n]) = w
    <3>1. put'[n] = [k \in 1..w |-> f[k].sent] /\ w \in Nat
      BY <1>2, <1>4, <1>6, <1>12, <2>1, <2>2, <2>4
    <3> QED
      BY <3>1
  <2> QED
    BY <1>9, <2>1, <2>4, <2>5
<1> QED
  BY <1>10, <1>11, <1>13, <1>14, <1>15, <1>16, <1>17 DEF Inv

\* A stale block is never in the way: the next number is free.
LEMMA RotateInv == ASSUME Inv, Rotate PROVE Inv'
<1>1. PICK d, a, x, s, w : d = dev /\ a = abandoned /\ x = NextSequence(newest) /\ s = oldest /\ w = newest
  OBVIOUS
<1>2. /\ HandleInv(d, a) /\ FilesInv(d) /\ adapter \in Adapters /\ present = DOMAIN d.files /\ DOMAIN put = DOMAIN d.files
      /\ s \in DOMAIN d.files /\ w \in DOMAIN d.files /\ s \in SequenceNumbers /\ w \in SequenceNumbers
      /\ DOMAIN d.files \subseteq SequenceNumbers /\ IsArc(DOMAIN d.files, s, w) /\ Offset(s, w) < Modulus - 1
      /\ up /\ ~failed
  BY <1>1 DEF Inv, DeviceInv, RunInv, FilesInv, Rotate, Calls
<1>3. /\ x \in SequenceNumbers /\ x \notin DOMAIN d.files /\ Offset(s, x) = Offset(s, w) + 1
      /\ IsArc(DOMAIN d.files \cup {x}, s, x)
  BY <1>1, <1>2, NextIsFree
<1>4. /\ up' = up /\ oldest' = oldest /\ adapter' = adapter /\ abandoned' = a
      /\ RunLength < MaxBlocks + MaxInterrupted /\ seen' = NothingSeen
  BY <1>1 DEF Rotate
<1>5. PICK o \in Acquire(d, x) :
        /\ dev' = o.dev
        /\ failed' = ~o.ok
        /\ IF o.ok
           THEN /\ newest' = x /\ present' = present \cup {x}
                /\ WriteBlockCorrupt' = FALSE
                /\ put' = With(put, x, <<>>)
           ELSE /\ UNCHANGED <<newest, present, WriteBlockCorrupt>>
                /\ put' = IF BlockExists(o.dev, x) THEN put ELSE Without(put, x)
        /\ taken' = {r \in taken : r[1] # x}
  <2>1. ~BlockExists(d, x)
    BY <1>3 DEF BlockExists, Exists
  <2>2. PICK q : q = Outcome(TRUE, d)
    OBVIOUS
  <2>3. q.ok = TRUE /\ q.dev = d
    BY <2>2 DEF Outcome
  <2>4. \E o \in {r \in {q} : ~r.ok} \cup UNION {Acquire(r.dev, x) : r \in {t \in {q} : t.ok}} :
           /\ dev' = o.dev
           /\ failed' = ~o.ok
           /\ IF o.ok
              THEN /\ newest' = x /\ present' = present \cup {x}
                   /\ WriteBlockCorrupt' = FALSE
                   /\ put' = With(put, x, <<>>)
              ELSE /\ UNCHANGED <<newest, present, WriteBlockCorrupt>>
                   /\ put' = IF BlockExists(o.dev, x) THEN put ELSE Without(put, x)
           /\ taken' = {r \in taken : r[1] # x}
    BY <1>1, <2>1, <2>2, Zenon DEF Rotate
  <2>5. {r \in {q} : ~r.ok} \cup UNION {Acquire(r.dev, x) : r \in {t \in {q} : t.ok}} = Acquire(d, x)
    BY <2>3
  <2> QED
    BY <2>4, <2>5, Zenon
<1>6. /\ HandleInv(o.dev, a) /\ FilesInv(o.dev)
      /\ \/ o.ok = FALSE /\ Settled(d, o.dev)
         \/ o.ok = TRUE /\ Created(d, x, o.dev)
  BY <1>2, <1>3, AcquireIs
<1>7. PICK e : e = o.dev
  OBVIOUS
<1>8. SeenInv'
  BY <1>4, NothingSeenHolds
<1>9. taken' \subseteq taken
  BY <1>5
<1>10. CASE o.ok = FALSE /\ Settled(d, o.dev)
  <2>1. Grown(d, e) /\ FilesInv(e) /\ HandleInv(e, a)
    BY <1>2, <1>6, <1>7, <1>10, SettledGrows
  <2>2. /\ failed' = TRUE /\ present' = present /\ newest' = newest /\ dev' = e
        /\ WriteBlockCorrupt' = WriteBlockCorrupt
        /\ put' = put \/ put' = Without(put, x)
    BY <1>5, <1>7, <1>10
  <2>3. DOMAIN put' \subseteq DOMAIN put /\ \A n \in DOMAIN put' : put'[n] = put[n]
    BY <2>2 DEF Without
  <2>4. DeviceInv' /\ SpaceInv' /\ RunInv' /\ PutInv' /\ EndInv' /\ TakenIsOnMedium'
    BY <1>1, <1>4, <1>9, <2>1, <2>2, <2>3, QuietStep
  <2> QED
    BY <1>8, <2>4 DEF Inv
<1>11. CASE o.ok = TRUE /\ Created(d, x, o.dev)
  <2>1. /\ FilesInv(e) /\ HandleInv(e, a) /\ DOMAIN e.files = DOMAIN d.files \cup {x} /\ e.files[x] = <<>>
        /\ e.strayed = d.strayed
        /\ \A m \in DOMAIN d.files : e.files[m] = d.files[m]
        /\ \A m \in DOMAIN d.files \ d.strayed : Grows(d.files[m], d.medium[m], e.files[m], e.medium[m])
    BY <1>2, <1>3, <1>6, <1>7, <1>11, CreatedHolds
  <2>2. failed' = FALSE /\ newest' = x /\ present' = present \cup {x} /\ put' = With(put, x, <<>>) /\ dev' = e
    BY <1>5, <1>7, <1>11
  <2>3. Offset(s, x) < Modulus - 1
    <3>1. RunLength = Offset(s, w) + 1
      BY <1>1 DEF RunLength, Offset
    <3>2. Offset(s, w) \in Int
      BY <1>2, OffsetIs DEF SequenceNumbers
    <3> QED
      BY <1>3, <1>4, <3>1, <3>2, BoundsAssumption, ModulusAssumption, MaxBlocksAssumption
  <2>4. DeviceInv'
    BY <1>2, <1>4, <2>1, <2>2, DeviceHolds
  <2>5. SpaceInv'
    <3>1. \E n \in SequenceNumbers : n \notin DOMAIN d.files \cup {x}
      BY <1>2, <1>3, <2>3, ArcLeavesRoom
    <3> QED
      BY <2>1, <2>2, <3>1 DEF SpaceInv
  <2>6. DOMAIN put' = DOMAIN d.files \cup {x} /\ put'[x] = <<>> /\ \A n \in DOMAIN d.files : put'[n] = put[n]
    BY <1>2, <1>3, <2>2 DEF With
  <2>7. RunInv'
    BY <1>1, <1>2, <1>3, <1>4, <2>1, <2>2, <2>3, <2>6 DEF RunInv, Calls
  <2>8. PutInv'
    <3> SUFFICES ASSUME NEW n \in DOMAIN put'
                 PROVE  /\ n \in DOMAIN e.files
                        /\ n \notin e.strayed => Holds(n, put'[n], e.files[n]) /\ HoldsAll(put'[n], e.files[n])
      BY <2>2 DEF PutInv
    <3>1. CASE n = x
      <4>1. PICK f : f = <<>>
        OBVIOUS
      <4>2. f \in Seq(BOOLEAN) /\ Len(f) = 0
        BY <4>1
      <4>3. Holds(n, f, f)
        BY <4>2 DEF Holds
      <4>4. IsWhole(f, 0)
        BY <4>2 DEF IsWhole
      <4>5. Whole(f) = 0
        BY <4>2, <4>4, WholeUnique
      <4>6. HoldsAll(f, f)
        BY <4>2, <4>5 DEF HoldsAll
      <4> QED
        BY <2>1, <2>6, <3>1, <4>1, <4>3, <4>6
    <3>2. CASE n # x
      <4>1. n \in DOMAIN d.files /\ n \in DOMAIN put
        BY <1>2, <2>6, <3>2
      <4>2. n \notin d.strayed => Holds(n, put[n], d.files[n]) /\ HoldsAll(put[n], d.files[n])
        BY <1>1, <1>2, <4>1 DEF Inv, PutInv
      <4> QED
        BY <2>1, <2>6, <4>1, <4>2
    <3> QED
      BY <3>1, <3>2
  <2>9. TakenIsOnMedium'
    <3>1. \A r \in taken' : r[1] \in DOMAIN dev.files => MayFollow(dev, r[1], e)
      BY <1>1, <2>1 DEF MayFollow
    <3> QED
      BY <1>4, <1>9, <2>1, <2>2, <3>1, TakenHolds DEF Inv
  <2>10. EndInv'
    BY <2>1, <2>2, <2>6 DEF EndInv
  <2> QED
    BY <1>8, <2>4, <2>5, <2>7, <2>8, <2>9, <2>10 DEF Inv
<1> QED
  BY <1>6, <1>10, <1>11

\* The block that is the oldest when the oldest is gone.
LEMMA NextOldestOnFiles ==
  ASSUME NEW P, P \subseteq SequenceNumbers, NEW o \in SequenceNumbers, NEW w \in P, w # o, IsArc(P, o, w),
         NEW m, m = NextPresentSequence([BlockPresent |-> P \ {o}], o)
  PROVE  /\ m \in P \ {o} /\ IsArc(P \ {o}, m, w) /\ Offset(m, w) < Offset(o, w)
<1>1. PICK s : s = [Initialised EXCEPT !.BlockPresent = P, !.OldestSequence = o, !.WriteSequence = w]
  OBVIOUS
<1>2. IsStruct(s) /\ s.BlockPresent = P /\ s.OldestSequence = o /\ s.WriteSequence = w
  BY <1>1 DEF Initialised, IsStruct
<1>3. PICK t : t = Disposed(s, s.OldestSequence)
  OBVIOUS
<1>4. t.BlockPresent = P \ {o}
  BY <1>2, <1>3 DEF Disposed, IsStruct
<1>5. m = NextPresentSequence(t, o)
  BY <1>4 DEF NextPresentSequence
<1>6. m = NextOldest(s)
  BY <1>2, <1>3, <1>5 DEF NextOldest
<1> QED
  BY <1>2, <1>6, NextOldestIs

LEMMA DisposeOldestInv == ASSUME Inv, DisposeOldest PROVE Inv'
<1>1. PICK d, a, s, w, P : d = dev /\ a = abandoned /\ s = oldest /\ w = newest /\ P = present
  OBVIOUS
<1>2. PICK m : m = NextPresentSequence([BlockPresent |-> P \ {s}], s)
  OBVIOUS
<1>3. PICK o \in Dispose(d, s) :
        /\ dev' = o.dev
        /\ failed' = ~o.ok
        /\ IF o.ok
           THEN /\ present' = P \ {s} /\ oldest' = m /\ put' = Without(put, s)
                /\ taken' = {r \in taken : r[1] # s}
           ELSE UNCHANGED <<present, oldest, put, taken>>
  BY <1>1, <1>2 DEF DisposeOldest
<1>4. /\ HandleInv(d, a) /\ FilesInv(d) /\ adapter \in Adapters /\ P = DOMAIN d.files /\ DOMAIN put = DOMAIN d.files
      /\ s \in P /\ w \in P /\ s # w /\ P \subseteq SequenceNumbers /\ IsArc(P, s, w) /\ Offset(s, w) < Modulus - 1
      /\ up /\ ~failed
  BY <1>1 DEF Inv, DeviceInv, RunInv, FilesInv, DisposeOldest, Calls
<1>5. /\ up' = up /\ newest' = newest /\ adapter' = adapter /\ abandoned' = a /\ seen' = NothingSeen
      /\ WriteBlockCorrupt' = WriteBlockCorrupt
  BY <1>1 DEF DisposeOldest
<1>6. /\ HandleInv(o.dev, a) /\ FilesInv(o.dev)
      /\ \/ o.ok = FALSE /\ Settled(d, o.dev)
         \/ o.ok = TRUE /\ Gone(d, s, o.dev)
  BY <1>4, DisposeIs
<1>7. PICK e : e = o.dev
  OBVIOUS
<1>8. SeenInv'
  BY <1>5, NothingSeenHolds
<1>9. CASE o.ok = FALSE /\ Settled(d, o.dev)
  <2>1. Grown(d, e) /\ FilesInv(e) /\ HandleInv(e, a)
    BY <1>4, <1>6, <1>7, <1>9, SettledGrows
  <2>2. failed' = TRUE /\ present' = present /\ oldest' = oldest /\ put' = put /\ taken' = taken /\ dev' = e
    BY <1>3, <1>7, <1>9
  <2>3. DeviceInv' /\ SpaceInv' /\ RunInv' /\ PutInv' /\ EndInv' /\ TakenIsOnMedium'
    BY <1>1, <1>5, <2>1, <2>2, QuietStep
  <2> QED
    BY <1>8, <2>3 DEF Inv
<1>10. CASE o.ok = TRUE /\ Gone(d, s, o.dev)
  <2>1. /\ FilesInv(e) /\ HandleInv(e, a) /\ DOMAIN e.files = P \ {s} /\ e.strayed = d.strayed \ {s}
        /\ \A n \in P \ {s} : /\ e.files[n] = d.files[n]
                              /\ n \notin d.strayed => Grows(d.files[n], d.medium[n], e.files[n], e.medium[n])
    BY <1>4, <1>6, <1>7, <1>10 DEF Gone
  <2>2. /\ failed' = FALSE /\ present' = P \ {s} /\ oldest' = m /\ put' = Without(put, s)
        /\ taken' = {r \in taken : r[1] # s} /\ dev' = e
    BY <1>3, <1>7, <1>10
  <2>3. m \in P \ {s} /\ IsArc(P \ {s}, m, w) /\ Offset(m, w) < Offset(s, w)
    BY <1>2, <1>4, NextOldestOnFiles
  <2>4. Offset(m, w) < Modulus - 1
    <3>1. m \in SequenceNumbers /\ w \in SequenceNumbers /\ s \in SequenceNumbers
      BY <1>4, <2>3
    <3>2. Offset(m, w) \in Int /\ Offset(s, w) \in Int
      BY <3>1, OffsetIs DEF SequenceNumbers
    <3> QED
      BY <1>4, <2>3, <3>2, ModulusAssumption
  <2>5. DeviceInv'
    BY <1>4, <1>5, <2>1, <2>2, DeviceHolds
  <2>6. SpaceInv'
    BY <1>1, <1>4, <2>1, <2>2 DEF Inv, SpaceInv
  <2>7. DOMAIN put' = P \ {s} /\ \A n \in P \ {s} : put'[n] = put[n]
    BY <1>4, <2>2 DEF Without
  <2>8. RunInv'
    BY <1>1, <1>4, <1>5, <2>1, <2>2, <2>3, <2>4, <2>7 DEF RunInv, Calls
  <2>9. PutInv'
    <3> SUFFICES ASSUME NEW n \in P \ {s}
                 PROVE  n \notin e.strayed => Holds(n, put'[n], e.files[n]) /\ HoldsAll(put'[n], e.files[n])
      BY <2>1, <2>2, <2>7 DEF PutInv
    <3>1. n \notin d.strayed => Holds(n, put[n], d.files[n]) /\ HoldsAll(put[n], d.files[n])
      BY <1>1, <1>4 DEF Inv, PutInv
    <3> QED
      BY <2>1, <2>7, <3>1
  <2>10. TakenIsOnMedium'
    <3>1. taken' \subseteq taken
      BY <2>2
    <3>2. \A r \in taken' : r[1] \in DOMAIN dev.files => MayFollow(dev, r[1], e)
      BY <1>1, <1>4, <2>1, <2>2 DEF MayFollow
    <3> QED
      BY <1>5, <2>1, <2>2, <3>1, <3>2, TakenHolds DEF Inv
  <2>11. EndInv'
    <3>1. w \in P \ {s} /\ newest' = w
      BY <1>1, <1>4, <1>5
    <3>2. ~WriteBlockCorrupt /\ w \notin d.strayed => Len(d.files[w]) = Len(put[w])
      BY <1>1, <1>4 DEF Inv, EndInv, Calls
    <3> QED
      BY <1>5, <2>1, <2>2, <2>7, <3>1, <3>2 DEF EndInv
  <2> QED
    BY <1>8, <2>5, <2>6, <2>8, <2>9, <2>10, <2>11 DEF Inv
<1> QED
  BY <1>6, <1>9, <1>10

-----------------------------------------------------------------------------
LEMMA StutterInv == ASSUME Inv, UNCHANGED vars PROVE Inv'
<1>1. PICK e, a : e = dev /\ a = abandoned
  OBVIOUS
<1>2. HandleInv(e, a) /\ FilesInv(e) /\ dev' = e /\ abandoned' = a /\ adapter' = adapter /\ adapter \in Adapters
  BY <1>1 DEF Inv, DeviceInv, vars
<1>3. DeviceInv'
  BY <1>2, DeviceHolds
<1>4. SpaceInv' /\ RunInv' /\ PutInv' /\ EndInv' /\ TakenIsOnMedium' /\ SeenInv'
  BY DEF Inv, vars, SpaceInv, RunInv, PutInv, EndInv, TakenIsOnMedium, SeenInv, Calls
<1> QED
  BY <1>3, <1>4 DEF Inv

LEMMA NextInv == Inv /\ [Next]_vars => Inv'
<1> SUFFICES ASSUME Inv, [Next]_vars PROVE Inv'
  OBVIOUS
<1>1. CASE OpenEmpty
  BY <1>1, OpenEmptyInv
<1>2. CASE OpenExisting
  BY <1>2, OpenExistingInv
<1>3. CASE AppendOne
  BY <1>3, AppendOneInv
<1>4. CASE Rotate
  BY <1>4, RotateInv
<1>5. CASE AskSize
  BY <1>5, AskSizeInv
<1>6. CASE \E k \in 1..BlockRecords : ReadOne(k) \/ MarkSent(k)
  <2>1. PICK k \in 1..BlockRecords : ReadOne(k) \/ MarkSent(k)
    BY <1>6
  <2>2. k \in Nat \ {0}
    BY BoundsAssumption
  <2> QED
    BY <2>1, <2>2, ReadOneInv, MarkSentInv
<1>7. CASE DisposeOldest
  BY <1>7, DisposeOldestInv
<1>8. CASE Stop
  BY <1>8, StopInv
<1>9. CASE PowerCut
  BY <1>9, PowerCutInv
<1>10. CASE UNCHANGED vars
  BY <1>10, StutterInv
<1> QED
  BY <1>1, <1>2, <1>3, <1>4, <1>5, <1>6, <1>7, <1>8, <1>9, <1>10 DEF Next

LEMMA InvHolds == Spec => []Inv
<1>1. Init => Inv
  BY InitHolds
<1>2. Inv /\ [Next]_vars => Inv'
  BY NextInv
<1> QED
  BY <1>1, <1>2, PTL DEF Spec

\* On every adapter and with a close that may fail, the file system holds no file
\* object that the File does not know of (FileBlockDevice_CloseIfHoldingBlock and
\* FatFsFile_SettleOwedClose).
THEOREM NoFileObjectLost == Spec => []FileObjectsKnown
<1>1. Inv => FileObjectsKnown
  BY DEF Inv, DeviceInv, HandleInv, FileObjectsKnown
<1> QED
  BY <1>1, InvHolds, PTL

\* What a committing adapter answered true for is on the medium, records and
\* marks alike, whatever call fails later and wherever the power is cut; except in
\* a block a write to which had its seek fail, for which SEEK_FAILED was reported
\* (the SeekTo of each File) and nothing can be promised.
THEOREM TakenSurvives == Spec => []TakenIsOnMedium
<1>1. Inv => TakenIsOnMedium
  BY DEF Inv
<1> QED
  BY <1>1, InvHolds, PTL

\* Every block holds the records written to it, in their places, though one handle
\* serves all of them; and a read or a size is of the block asked for
\* (FileBlockDevice_EnsureHandleOpenOnBlock).  A block a write to which had its seek
\* fail is excepted: it holds only records of its own or torn ones.
THEOREM BlocksNotMixedUp == Spec => []BlocksHoldWhatWasPut
<1>1. ASSUME Inv PROVE BlocksHoldWhatWasPut
  <2>1. ASSUME up, NEW n \in DOMAIN put
        PROVE  /\ n \in DOMAIN dev.files
               /\ n \notin dev.strayed =>
                    /\ Len(put[n]) <= Len(dev.files[n])
                    /\ \A k \in DOMAIN put[n] : /\ dev.files[n][k].block = n
                                                /\ put[n][k] => dev.files[n][k].sent
                    /\ ~failed => /\ Whole(dev.files[n]) = Len(put[n])
                                  /\ \A k \in DOMAIN put[n] : dev.files[n][k].sent = put[n][k]
    <3>1. PICK p, f : p = put[n] /\ f = dev.files[n]
      OBVIOUS
    <3>2. n \in DOMAIN dev.files /\ (n \notin dev.strayed => Holds(n, p, f) /\ (~failed => HoldsAll(p, f)))
      BY <1>1, <2>1, <3>1 DEF Inv, PutInv
    <3>3. CASE n \in dev.strayed
      BY <3>2, <3>3
    <3>4. CASE n \notin dev.strayed
      <4>1. DOMAIN p = 1..Len(p)
        BY <3>2, <3>4 DEF Holds
      <4> QED
        BY <3>1, <3>2, <3>4, <4>1 DEF Holds, HoldsAll
    <3> QED
      BY <3>3, <3>4
  <2>2. SeenInv
    BY <1>1 DEF Inv
  <2> QED
    BY <2>1, <2>2 DEF BlocksHoldWhatWasPut, SeenInv
<1> QED
  BY <1>1, InvHolds, PTL
\* A run that ends in two present blocks is the one a resume finds, unless there
\* is a hole in it as long as the gap behind it: d numbers in a row, from n on.
LEMMA LocateOrHole ==
  ASSUME NEW P, P \subseteq SequenceNumbers, NEW o \in P, NEW w \in P,
         IsArc(P, o, w), NEW R, R = Offset(o, w), R < Modulus - 1,
         NEW run, run = LocateRunBoundaries(P)
  PROVE  \/ run = [oldest |-> o, newest |-> w]
         \/ \E n \in SequenceNumbers : \A i \in 0..Modulus - R - 2 :
              (n + i) % Modulus \notin P /\ Offset(o, (n + i) % Modulus) <= R
<1>1. o \in SequenceNumbers /\ w \in SequenceNumbers /\ P # {}
  OBVIOUS
<1>2. R \in 0..Modulus - 2
  BY <1>1, OffsetIs, ModulusAssumption DEF SequenceNumbers
<1>3. PICK len : len = R + 1
  OBVIOUS
<1>4. len \in 1..Modulus - 1
  BY <1>2, <1>3, ModulusAssumption
<1>5. ASSUME NEW n \in P PROVE Offset(o, n) < len
  <2>1. n \in SequenceNumbers
    OBVIOUS
  <2>2. Offset(o, n) <= R /\ Offset(o, n) \in SequenceNumbers
    BY <1>1, <2>1, OffsetIs DEF IsArc
  <2> QED
    BY <1>2, <1>3, <2>2, ModulusAssumption DEF SequenceNumbers
<1>6. /\ run.oldest \in P /\ run.newest \in P
      /\ IsArc(P, run.oldest, run.newest)
      /\ Offset(run.oldest, run.newest) < len
  BY <1>1, <1>4, <1>5, LocateIs
<1>7. PICK f, l, r : f = run.oldest /\ l = run.newest /\ r = Offset(f, l)
  OBVIOUS
<1>8. f \in P /\ l \in P /\ IsArc(P, f, l) /\ f \in SequenceNumbers /\ l \in SequenceNumbers
  BY <1>6, <1>7
<1>9. r \in 0..R
  <2>1. r \in SequenceNumbers
    BY <1>7, <1>8, OffsetIs
  <2> QED
    BY <1>2, <1>3, <1>6, <1>7, <2>1, ModulusAssumption DEF SequenceNumbers
<1>10. run = [oldest |-> f, newest |-> l]
  <2>1. \E a, b : run = [oldest |-> a, newest |-> b]
    BY DEF LocateRunBoundaries
  <2> QED
    BY <1>7, <2>1
\* The same first block: then the last is the same too.
<1>11. CASE f = o
  <2>1. R <= r
    BY <1>7, <1>8, <1>11 DEF IsArc
  <2>2. r = R
    BY <1>2, <1>9, <2>1, ModulusAssumption
  <2>3. (o + R) % Modulus = w /\ (o + r) % Modulus = l
    BY <1>1, <1>7, <1>8, <1>11, OffsetStep
  <2> QED
    BY <1>10, <1>11, <2>2, <2>3
\* Another one: the gap before it does not hold the oldest block, so it is inside the run.
<1>12. CASE f # o
  <2>1. PICK q, s, p : q = Offset(o, f) /\ s = Offset(f, o) /\ p = Offset(o, l)
    OBVIOUS
  <2>2. /\ q = IF f >= o THEN f - o ELSE f - o + Modulus
        /\ s = IF o >= f THEN o - f ELSE o - f + Modulus
        /\ p = IF l >= o THEN l - o ELSE l - o + Modulus
        /\ r = IF l >= f THEN l - f ELSE l - f + Modulus
    BY <1>1, <1>7, <1>8, <2>1, OffsetIs
  <2>3. q <= R /\ s <= r
    BY <1>7, <1>8, <2>1 DEF IsArc
  <2>4. p = q + r - Modulus /\ p \in 0..Modulus - 2 /\ q \in 1..R
    BY <1>1, <1>2, <1>8, <1>9, <1>12, <2>2, <2>3, ModulusAssumption DEF SequenceNumbers
  <2>5. PICK n : n = NextSequence(l)
    OBVIOUS
  <2>6. n = (IF l = Modulus - 1 THEN 0 ELSE l + 1) /\ n \in SequenceNumbers
    BY <1>8, <2>5, NextIs
  <2>7. ASSUME NEW i \in 0..Modulus - R - 2
        PROVE  (n + i) % Modulus \notin P /\ Offset(o, (n + i) % Modulus) <= R
    <3>1. PICK m : m = (n + i) % Modulus
      OBVIOUS
    <3>2. i \in 0..Modulus
      BY <1>2, ModulusAssumption
    <3>3. m = (IF n + i < Modulus THEN n + i ELSE n + i - Modulus) /\ m \in SequenceNumbers
      BY <2>6, <3>1, <3>2, StepIs
    <3>4. PICK e, t : e = Offset(o, m) /\ t = Offset(f, m)
      OBVIOUS
    <3>5. /\ e = IF m >= o THEN m - o ELSE m - o + Modulus
          /\ t = IF m >= f THEN m - f ELSE m - f + Modulus
      BY <1>1, <1>8, <3>3, <3>4, OffsetIs
    <3>6. o \in 0..Modulus - 1 /\ f \in 0..Modulus - 1 /\ l \in 0..Modulus - 1 /\ m \in 0..Modulus - 1
      BY <1>1, <1>8, <3>3 DEF SequenceNumbers
    <3>7. e = p + 1 + i
      BY <1>2, <1>9, <2>2, <2>4, <2>6, <3>3, <3>5, <3>6, ModulusAssumption
    <3>8. t = r + 1 + i
      BY <1>2, <1>9, <2>2, <2>4, <2>6, <3>3, <3>5, <3>6, ModulusAssumption
    <3>9. e <= R /\ ~(t <= r)
      BY <1>2, <1>9, <2>4, <3>7, <3>8, ModulusAssumption
    <3>10. m \notin P
      BY <1>7, <1>8, <3>4, <3>9 DEF IsArc
    <3> QED
      BY <3>1, <3>4, <3>9, <3>10
  <2> QED
    BY <2>6, <2>7
<1> QED
  BY <1>11, <1>12

\* A restart finds the run the store was writing, wherever it straddles the end
\* of the sequence space, unless a hole in it is as long as the gap behind it
\* (BlockSequence_LocateRunBoundaries).
THEOREM ResumeFindsTheRun == Spec => []ResumeFindsRun
<1>1. ASSUME Inv PROVE ResumeFindsRun
  <2> SUFFICES ASSUME Calls, LocateRunBoundaries(Existing) # [oldest |-> oldest, newest |-> newest]
               PROVE  Hole(FreeGap)
    BY DEF ResumeFindsRun
  <2>1. PICK P, o, w, R, run : /\ P = present /\ o = oldest /\ w = newest /\ R = Offset(o, w)
                               /\ run = LocateRunBoundaries(P)
    OBVIOUS
  <2>2. P = Existing
    BY <1>1, <2>1, ExistingIs DEF Inv, RunInv
  <2>3. P \subseteq SequenceNumbers
    BY <2>2 DEF Existing
  <2>4. o \in P /\ w \in P /\ IsArc(P, o, w) /\ R < Modulus - 1
    BY <1>1, <2>1 DEF Inv, RunInv
  <2>5. run # [oldest |-> o, newest |-> w]
    BY <2>1, <2>2
  <2>6. PICK n \in SequenceNumbers : \A i \in 0..Modulus - R - 2 :
          (n + i) % Modulus \notin P /\ Offset(o, (n + i) % Modulus) <= R
    BY <2>1, <2>3, <2>4, <2>5, LocateOrHole
  <2>7. R \in SequenceNumbers /\ o \in SequenceNumbers
    BY <2>1, <2>3, <2>4, OffsetIs
  <2>8. RunLength = R + 1
    BY <2>1 DEF RunLength, Offset
  <2>9. FreeGap - 1 = Modulus - R - 2
    BY <2>7, <2>8, ModulusAssumption DEF FreeGap, SequenceNumbers
  <2>10. ASSUME NEW i \in 0..Modulus - R - 2
         PROVE  /\ (n + i) % Modulus \notin present
                /\ ((n + i - oldest + Modulus) % Modulus) < RunLength
    <3>1. PICK m : m = (n + i) % Modulus
      OBVIOUS
    <3>2. i \in 0..Modulus
      BY <2>7, ModulusAssumption DEF SequenceNumbers
    <3>3. m = (IF n + i < Modulus THEN n + i ELSE n + i - Modulus) /\ m \in SequenceNumbers
      BY <3>1, <3>2, StepIs
    <3>4. m \notin P /\ Offset(o, m) <= R
      BY <2>6, <3>1
    <3>5. (n + i - o + Modulus) % Modulus = Offset(o, m)
      <4>1. n \in 0..Modulus - 1 /\ o \in 0..Modulus - 1 /\ Modulus \in Nat /\ Modulus > 0 /\ i \in 0..Modulus
        BY <2>7, <3>2, ModulusAssumption DEF SequenceNumbers
      <4>2. CASE n + i < Modulus
        BY <3>3, <4>2, <4>1 DEF Offset
      <4>3. CASE ~(n + i < Modulus)
        <5>1. PICK a : a = m - o + Modulus
          OBVIOUS
        <5>2. a \in Int /\ n + i - o + Modulus = a + Modulus
          BY <3>3, <4>1, <4>3, <5>1
        <5>3. (a + Modulus) % Modulus = a % Modulus
          BY <4>1, <5>2
        <5> QED
          BY <5>1, <5>2, <5>3 DEF Offset
      <4> QED
        BY <4>2, <4>3
    <3>6. Offset(o, m) \in SequenceNumbers
      BY <2>7, <3>3, OffsetIs
    <3>7. Offset(o, m) < R + 1
      BY <2>7, <3>4, <3>6, ModulusAssumption DEF SequenceNumbers
    <3> QED
      BY <2>1, <2>8, <3>1, <3>4, <3>5, <3>7
  <2> QED
    BY <2>9, <2>10 DEF Hole
<1> QED
  BY <1>1, InvHolds, PTL
=============================================================================
