------------------------ MODULE CircularBufferProofs ------------------------
(***************************************************************************)
(* For every ring size, every set of message lengths and any number of     *)
(* writing tasks: the ring never overwrites a record it still holds.       *)
(***************************************************************************)
EXTENDS CircularBuffer, TLAPS, SequenceTheorems, FiniteSetTheorems

\* A record is never empty: it has its header.  Two extents at one offset overlap.
LEMMA RecordHasBytes ==
  ASSUME NEW e \in Extents
  PROVE  /\ e.at \in Nat /\ End(e) \in Nat /\ e.at + 2 <= End(e)
         /\ RecordBytes(e.rec) \in Nat /\ End(e) = e.at + RecordBytes(e.rec)
         /\ e.rec \in Records
<1>1. e.at \in Nat /\ e.rec \in Records BY DEF Extents
<1>2. e.rec.size \in Sizes BY <1>1 DEF Records
<1>3. e.rec.size \in Nat BY <1>2, SizesAssumption
<1>4. QED BY <1>1, <1>3 DEF End, RecordBytes, HEADER_BYTES

\* The record Read and DropHead find at the head is the oldest one held.
LEMMA HeadRecordIsOldest ==
  ASSUME TypeOK, Layout, held # <<>>
  PROVE  /\ HeadRecord = held[1].rec
         /\ held[1] \in Extents /\ held[1].at = HeadOffset
<1>1. held[1] \in mem /\ held[1].at = HeadOffset /\ held[1] \in Extents
  BY DEF TypeOK, Layout, RecordsIntact, Chain
<1>2. ASSUME NEW e \in mem, e.at = HeadOffset PROVE e = held[1]
  <2>1. e \in Extents BY DEF TypeOK
  <2>2. Overlap(e, held[1]) BY <1>1, <1>2, <2>1, RecordHasBytes DEF Overlap
  <2>3. QED BY <1>1, <2>2 DEF Layout, RecordsIntact
<1>3. QED BY <1>1, <1>2 DEF HeadRecord

\* What the invariants say of the extents held, as plain arithmetic.
LEMMA HeldFacts ==
  ASSUME TypeOK
  PROVE  /\ Len(held) \in Nat
         /\ held # <<>> => Len(held) # 0
         /\ \A i \in 1..Len(held) : /\ held[i] \in Extents
                                    /\ held[i].at \in Nat /\ End(held[i]) \in Nat
                                    /\ held[i].at + 2 <= End(held[i])
<1>1. held \in Seq(Extents) BY DEF TypeOK
<1>2. \A i \in 1..Len(held) : held[i] \in Extents BY <1>1, ElementOfSeq
<1>3. Len(held) \in Nat /\ (held # <<>> => Len(held) # 0) BY <1>1, EmptySeq, LenProperties
<1>4. QED BY <1>2, <1>3, RecordHasBytes

\* What is left of the extents held when the first is gone.
LEMMA PopFacts ==
  ASSUME TypeOK, held # <<>>, held' = Tail(held)
  PROVE  /\ held' \in Seq(Extents)
         /\ Len(held') = Len(held) - 1
         /\ \A i \in 1..Len(held) - 1 : held'[i] = held[i + 1]
         /\ held' = <<>> <=> Len(held) = 1
<1>1. held \in Seq(Extents) BY DEF TypeOK
<1>2. /\ Tail(held) \in Seq(Extents) /\ Len(Tail(held)) = Len(held) - 1
      /\ \A i \in 1..Len(Tail(held)) : Tail(held)[i] = held[i + 1]
  BY <1>1, HeadTailProperties
<1>3. held' = <<>> <=> Len(held') = 0 BY <1>2, EmptySeq
<1>4. QED BY <1>1, <1>2, <1>3, LenProperties

\* Stepping over the head record leaves a well-formed ring with one record less.
LEMMA StepHeadKeepsLayout ==
  ASSUME TypeOK, Layout, held # <<>>, StepHead, held' = Tail(held), mem' = mem
  PROVE  Layout' /\ head' \in Nat /\ wrapPoint' \in Nat
<1> DEFINE n == Len(held)
<1>1. HeadRecord = held[1].rec /\ held[1] \in Extents /\ held[1].at = HeadOffset
  BY HeadRecordIsOldest
<1>2. head' = End(held[1]) /\ tail' = tail
      /\ wrapPoint' = IF head >= wrapPoint THEN Capacity ELSE wrapPoint
  BY <1>1, RecordHasBytes DEF StepHead, HeadAtWrapPoint
<1>3. /\ n \in Nat /\ n # 0 /\ Len(held') = n - 1
      /\ \A i \in 1..n : /\ held[i].at \in Nat /\ End(held[i]) \in Nat
                         /\ held[i].at + 2 <= End(held[i])
      /\ \A i \in 1..n - 1 : held'[i] = held[i + 1]
      /\ held' = <<>> <=> n = 1
  BY HeldFacts, PopFacts
<1>4. head \in Nat /\ tail \in Nat /\ wrapPoint \in Nat /\ Capacity \in Nat
  BY CapacityAssumption DEF TypeOK
<1>5. /\ tail <= Capacity /\ wrapPoint <= Capacity
      /\ IF head > tail THEN head <= wrapPoint /\ 0 < tail ELSE wrapPoint = Capacity
      /\ head # tail
      /\ held[1].at = IF head >= wrapPoint THEN 0 ELSE head
      /\ End(held[n]) = tail
  BY <1>3, <1>4 DEF Layout, OffsetsInRing, Chain, IsWrapped, IsEmpty, HeadOffset, HeadAtWrapPoint
<1>6. \A i \in 1..n - 1 :
        held[i + 1].at = IF head > tail /\ End(held[i]) = wrapPoint THEN 0 ELSE End(held[i])
  BY DEF Layout, Chain, IsWrapped
<1>7. \A i \in 1..n : \/ head <= held[i].at /\ End(held[i]) <= (IF head > tail THEN wrapPoint ELSE tail)
                      \/ head > tail /\ End(held[i]) <= tail
  BY DEF Layout, Placed, Upper, Lower, IsWrapped
<1>8. \A i, j \in 1..n : i < j =>
        \/ End(held[i]) <= held[j].at
        \/ head > tail /\ head <= held[i].at /\ End(held[j]) <= tail
  BY DEF Layout, Placed, Lower, IsWrapped
<1>9. RecordsIntact'
  BY <1>3 DEF Layout, RecordsIntact
<1>10. head' \in Nat /\ wrapPoint' \in Nat
  BY <1>2, <1>3, <1>4
<1>11. CASE head > tail /\ head < wrapPoint
  <2>1. held[1].at = head /\ head' > tail /\ head' <= wrapPoint /\ wrapPoint' = wrapPoint /\ n > 1
    BY <1>11, <1>2, <1>3, <1>4, <1>5, <1>7
  <2>2. OffsetsInRing'
    BY <2>1, <1>2, <1>3, <1>4, <1>5 DEF OffsetsInRing, IsWrapped
  <2>3. Chain'
    <3>1. held[1 + 1].at = IF End(held[1]) = wrapPoint THEN 0 ELSE End(held[1])
      BY <2>1, <1>3, <1>4, <1>6, <1>11
    <3>2. held'[1] = held[1 + 1] /\ held'[n - 1] = held[n]
      BY <2>1, <1>3
    <3>3. \A i \in 1..n - 2 : held'[i + 1].at = IF End(held'[i]) = wrapPoint THEN 0 ELSE End(held'[i])
      <4>1. \A i \in 1..n - 2 : i + 1 \in 1..n - 1 /\ held'[i] = held[i + 1] /\ held'[i + 1] = held[(i + 1) + 1]
        BY <1>3
      <4>2. QED BY <4>1, <1>4, <1>6, <1>11
    <3>4. QED
      <4>1. (held' = <<>> <=> IsEmpty')
        BY <2>1, <1>2, <1>3, <1>4 DEF IsEmpty
      <4>2. held'[1].at = HeadOffset' /\ End(held'[Len(held')]) = tail'
        BY <3>1, <3>2, <2>1, <1>2, <1>3, <1>4, <1>5 DEF HeadOffset, HeadAtWrapPoint
      <4>3. \A i \in 1..Len(held') - 1 :
              held'[i + 1].at = IF IsWrapped' /\ End(held'[i]) = wrapPoint' THEN 0 ELSE End(held'[i])
        <5>1. Len(held') - 1 = n - 2 BY <1>3
        <5>2. QED BY <5>1, <3>3, <2>1, <1>2 DEF IsWrapped
      <4>4. QED BY <4>1, <4>2, <4>3 DEF Chain
  <2>4. Placed'
    <3>1. \A j \in 2..n : \/ head' <= held[j].at /\ End(held[j]) <= wrapPoint
                          \/ End(held[j]) <= tail
      BY <2>1, <1>2, <1>3, <1>4, <1>7, <1>8, <1>11
    <3>2. \A i, j \in 2..n : i < j =>
            \/ End(held[i]) <= held[j].at
            \/ head' <= held[i].at /\ End(held[j]) <= tail
      <4> TAKE i, j \in 2..n
      <4> HAVE i < j
      <4>1. i \in 1..n /\ j \in 1..n BY <1>3
      <4>2. \/ End(held[i]) <= held[j].at
            \/ head <= held[i].at /\ End(held[j]) <= tail
        BY <4>1, <1>8
      <4>3. held[i].at \in Nat /\ End(held[i]) \in Nat /\ held[i].at < End(held[i])
        BY <4>1, <1>3
      <4>4. QED BY <4>2, <4>3, <3>1, <2>1, <1>2, <1>4, <1>11
    <3>3. \A i \in 1..n - 1 : i + 1 \in 2..n /\ held'[i] = held[i + 1]
      BY <1>3
    <3>4. QED
      BY <3>1, <3>2, <3>3, <2>1, <1>2, <1>3, <1>4 DEF Placed, Upper, Lower, IsWrapped
  <2>5. QED BY <2>2, <2>3, <2>4, <1>9, <1>10 DEF Layout
<1>12. CASE head > tail /\ head = wrapPoint
  <2>1. held[1].at = 0 /\ head' <= tail /\ wrapPoint' = Capacity
        /\ \A i \in 1..n : End(held[i]) <= tail /\ ~(head <= held[i].at)
    BY <1>12, <1>2, <1>3, <1>4, <1>5, <1>7
  <2>2. OffsetsInRing'
    BY <2>1, <1>2, <1>3, <1>4, <1>5 DEF OffsetsInRing, IsWrapped
  <2>3. Chain'
    <3>1. \A i \in 1..n - 1 : held[i + 1].at = End(held[i])
      BY <2>1, <1>3, <1>4, <1>6, <1>12
    <3>2. n > 1 => End(held[1]) < tail
      BY <3>1, <2>1, <1>3, <1>4
    <3>3. QED
      BY <3>1, <3>2, <2>1, <1>2, <1>3, <1>4, <1>5, <1>12 DEF Chain, IsWrapped, IsEmpty, HeadOffset, HeadAtWrapPoint
  <2>4. Placed'
    <3>1. \A i, j \in 1..n : i < j => End(held[i]) <= held[j].at
      BY <2>1, <1>8
    <3>2. \A i \in 1..n - 1 : i + 1 \in 2..n /\ held'[i] = held[i + 1]
      BY <1>3
    <3>3. \A j \in 2..n : head' <= held[j].at /\ End(held[j]) <= tail
      BY <3>1, <2>1, <1>2, <1>3
    <3>4. QED
      BY <3>1, <3>2, <3>3, <2>1, <1>2, <1>3, <1>4 DEF Placed, Upper, Lower, IsWrapped
  <2>5. QED BY <2>2, <2>3, <2>4, <1>9, <1>10 DEF Layout
<1>13. CASE head < tail
  <2>1. held[1].at = head /\ head' <= tail /\ wrapPoint' = Capacity /\ wrapPoint = Capacity
    BY <1>13, <1>2, <1>3, <1>4, <1>5, <1>7
  <2>2. OffsetsInRing'
    BY <2>1, <1>2, <1>3, <1>4, <1>5 DEF OffsetsInRing, IsWrapped
  <2>3. Chain'
    <3>1. \A i \in 1..n - 1 : held[i + 1].at = End(held[i])
      BY <1>4, <1>6, <1>13
    <3>2. n > 1 => End(held[1]) < tail
      <4>1. n > 1 => held[1 + 1].at = End(held[1]) /\ End(held[1 + 1]) <= tail
                     /\ held[1 + 1].at < End(held[1 + 1])
        BY <3>1, <1>3, <1>4, <1>7, <1>13
      <4>2. QED BY <4>1, <1>3, <1>4
    <3>3. QED
      BY <3>1, <3>2, <2>1, <1>2, <1>3, <1>4, <1>5, <1>13 DEF Chain, IsWrapped, IsEmpty, HeadOffset, HeadAtWrapPoint
  <2>4. Placed'
    BY <2>1, <1>2, <1>3, <1>4, <1>5, <1>7, <1>8, <1>13 DEF Placed, Upper, Lower, IsWrapped
  <2>5. QED BY <2>2, <2>3, <2>4, <1>9, <1>10 DEF Layout
<1>14. QED
  BY <1>4, <1>5, <1>11, <1>12, <1>13

\* ConsumeWrapMarker moves the head to the front: nothing held moves.
LEMMA WrapMarkerKeepsLayout ==
  ASSUME TypeOK, Layout, held # <<>>,
         head' = HeadOffset, tail' = tail,
         wrapPoint' = IF HeadAtWrapPoint THEN Capacity ELSE wrapPoint,
         held' = held, mem' = mem
  PROVE  Layout' /\ head' \in Nat /\ wrapPoint' \in Nat
<1> DEFINE n == Len(held)
<1>1. /\ n \in Nat /\ n # 0
      /\ \A i \in 1..n : /\ held[i].at \in Nat /\ End(held[i]) \in Nat
                         /\ held[i].at + 2 <= End(held[i])
  BY HeldFacts
<1>2. head \in Nat /\ tail \in Nat /\ wrapPoint \in Nat /\ Capacity \in Nat
  BY CapacityAssumption DEF TypeOK
<1>3. CASE head >= wrapPoint
  <2>1. head > tail /\ head = wrapPoint /\ 0 < tail /\ tail <= Capacity
        /\ held[1].at = 0 /\ End(held[n]) = tail
    BY <1>1, <1>2, <1>3 DEF Layout, OffsetsInRing, Chain, IsWrapped, IsEmpty, HeadOffset, HeadAtWrapPoint
  <2>2. head' = 0 /\ wrapPoint' = Capacity
    BY <1>3 DEF HeadOffset, HeadAtWrapPoint
  <2>3. \A i \in 1..n : End(held[i]) <= tail /\ ~(head <= held[i].at)
    BY <1>1, <1>2, <2>1 DEF Layout, Placed, Upper, Lower, IsWrapped
  <2>4. \A i \in 1..n - 1 : held[i + 1].at = End(held[i])
    <3>1. \A i \in 1..n - 1 :
            held[i + 1].at = IF head > tail /\ End(held[i]) = wrapPoint THEN 0 ELSE End(held[i])
      BY DEF Layout, Chain, IsWrapped
    <3>2. \A i \in 1..n - 1 : i \in 1..n /\ End(held[i]) # wrapPoint
      BY <1>1, <1>2, <2>1, <2>3
    <3>3. QED BY <3>1, <3>2
  <2>5. OffsetsInRing' /\ RecordsIntact'
    BY <1>2, <2>1, <2>2 DEF Layout, OffsetsInRing, RecordsIntact, IsWrapped
  <2>6. Chain'
    BY <1>1, <1>2, <2>1, <2>2, <2>4 DEF Layout, Chain, IsWrapped, IsEmpty, HeadOffset, HeadAtWrapPoint
  <2>7. Placed'
    <3>1. \A i, j \in 1..n : i < j => End(held[i]) <= held[j].at
      BY <2>3 DEF Layout, Placed
    <3>2. QED BY <3>1, <2>1, <2>2, <2>3, <1>1, <1>2 DEF Placed, Upper, IsWrapped
  <2>8. QED BY <2>2, <2>5, <2>6, <2>7, <1>2 DEF Layout
<1>4. CASE ~(head >= wrapPoint)
  <2>1. head' = head /\ wrapPoint' = wrapPoint BY <1>4 DEF HeadOffset, HeadAtWrapPoint
  <2>2. OffsetsInRing' /\ RecordsIntact'
    BY <2>1 DEF Layout, OffsetsInRing, RecordsIntact, IsWrapped
  <2>3. Chain'
    BY <2>1 DEF Layout, Chain, IsWrapped, IsEmpty, HeadOffset, HeadAtWrapPoint
  <2>4. Placed'
    BY <2>1 DEF Layout, Placed, Upper, Lower, IsWrapped
  <2>5. QED BY <2>1, <2>2, <2>3, <2>4, <1>2 DEF Layout
<1>5. QED BY <1>3, <1>4

\* Starting an empty ring over.
LEMMA ResetKeepsLayout ==
  ASSUME TypeOK, Layout, ResetToStart, held' = <<>>, mem' = mem
  PROVE  Layout' /\ head' \in Nat /\ tail' \in Nat /\ wrapPoint' \in Nat
BY CapacityAssumption, EmptySeq
   DEF Layout, ResetToStart, OffsetsInRing, Chain, Placed, RecordsIntact, IsWrapped, IsEmpty

\* DropHead: the ring is empty after it exactly when it held one record.
LEMMA DropHeadKeepsLayout ==
  ASSUME TypeOK, Layout, held # <<>>, DropHead, held' = Tail(held), mem' = mem
  PROVE  /\ Layout' /\ head' \in Nat /\ tail' \in Nat /\ wrapPoint' \in Nat
         /\ IsEmpty' => head' = 0
<1> DEFINE n == Len(held)
<1>1. HeadRecord = held[1].rec /\ held[1] \in Extents /\ held[1].at = HeadOffset
  BY HeadRecordIsOldest
<1>2. HeadOffset + RecordBytes(HeadRecord) = End(held[1])
  BY <1>1, RecordHasBytes
<1>3. CASE End(held[1]) = tail
  <2>1. ResetToStart BY <1>2, <1>3 DEF DropHead
  <2>2. n = 1
    <3>1. /\ n \in Nat /\ n # 0
          /\ \A i \in 1..n : /\ held[i].at \in Nat /\ End(held[i]) \in Nat
                             /\ held[i].at + 2 <= End(held[i])
      BY HeldFacts
    <3>2. End(held[n]) = tail BY DEF Layout, Chain
    <3>3. n > 1 => \/ End(held[1]) <= held[n].at
                   \/ head > tail /\ head <= held[1].at
      BY <3>1 DEF Layout, Placed, IsWrapped
    <3>4. head \in Nat /\ tail \in Nat BY DEF TypeOK
    <3>5. 1 \in 1..n /\ n \in 1..n BY <3>1
    <3>6. held[1].at < End(held[1]) /\ held[n].at < tail BY <3>1, <3>2, <3>4, <3>5
    <3>7. held[1].at \in Nat /\ End(held[1]) \in Nat /\ held[n].at \in Nat BY <3>1, <3>5
    <3>8. ~(n > 1) BY <3>3, <3>4, <3>6, <3>7, <1>3
    <3>9. n \in Nat /\ n # 0 BY <3>1
    <3>10. HIDE DEF n
    <3>11. QED BY <3>8, <3>9
  <2>3. held' = <<>> BY <2>2, PopFacts
  <2>4. QED BY <2>1, <2>3, ResetKeepsLayout DEF ResetToStart
<1>4. CASE End(held[1]) # tail
  <2>1. StepHead BY <1>2, <1>4 DEF DropHead
  <2>2. Layout' /\ head' \in Nat /\ wrapPoint' \in Nat BY <2>1, StepHeadKeepsLayout
  <2>3. tail' = tail /\ head' # tail BY <2>1, <1>2, <1>4 DEF StepHead
  <2>4. tail' \in Nat /\ ~IsEmpty' BY <2>3 DEF IsEmpty, TypeOK
  <2>5. QED BY <2>2, <2>4
<1>5. QED BY <1>3, <1>4

\* What the extents held are when one is appended.
LEMMA PushFacts ==
  ASSUME TypeOK, NEW e \in Extents, held' = Append(held, e)
  PROVE  /\ held' \in Seq(Extents) /\ held' # <<>>
         /\ Len(held') = Len(held) + 1
         /\ \A i \in 1..Len(held) : held'[i] = held[i]
         /\ held'[Len(held) + 1] = e
<1>1. held \in Seq(Extents) /\ Len(held) \in Nat BY HeldFacts DEF TypeOK
<1>2. QED BY <1>1, AppendProperties

\* StoreRecord spoils no extent held, where the new one overlaps none.
LEMMA StoreKeepsRecords ==
  ASSUME TypeOK, Layout, NEW e \in Extents, held' = Append(held, e),
         mem' = {f \in mem : ~Overlap(e, f)} \cup {e},
         \A i \in 1..Len(held) : ~Overlap(e, held[i])
  PROVE  RecordsIntact' /\ mem' \subseteq Extents
<1>1. \A i \in 1..Len(held) : held[i] \in mem' BY DEF Layout, RecordsIntact
<1>2. e \in mem' OBVIOUS
<1>3. \A i \in 1..Len(held') : held'[i] \in mem'
  <2> TAKE i \in 1..Len(held')
  <2>1. i \in 1..Len(held) \/ i = Len(held) + 1 BY PushFacts, HeldFacts
  <2>2. QED BY <2>1, <1>1, <1>2, PushFacts
<1>4. \A f, g \in mem' : f # g => ~Overlap(f, g)
  BY DEF Layout, RecordsIntact, Overlap
<1>5. mem' \subseteq Extents BY DEF TypeOK
<1>6. QED BY <1>3, <1>4, <1>5 DEF RecordsIntact

\* KeepRecord's choice of place, and its effect on the ring.
StoreSomewhere(r) ==
  /\ RecordFits(RecordBytes(r))
  /\ IF RecordFitsAtTail(RecordBytes(r))
     THEN Store(tail, r) /\ UNCHANGED wrapPoint
     ELSE Store(0, r) /\ wrapPoint' = tail
  /\ UNCHANGED head

\* Storing a record where RecordFits says it fits leaves a well-formed ring that
\* holds one record more, at its end.
LEMMA StoreKeepsLayout ==
  ASSUME TypeOK, Layout, NEW r \in Records, StoreSomewhere(r)
  PROVE  /\ Layout' /\ tail' \in Nat /\ wrapPoint' \in Nat
         /\ mem' \subseteq Extents /\ held' \in Seq(Extents) /\ held' # <<>>
         /\ \E at \in Nat : held' = Append(held, [at |-> at, rec |-> r])
<1> DEFINE n == Len(held)
           b == RecordBytes(r)
           at == IF RecordFitsAtTail(b) THEN tail ELSE 0
           e == [at |-> at, rec |-> r]
<1>1. head \in Nat /\ tail \in Nat /\ wrapPoint \in Nat /\ Capacity \in Nat
  BY CapacityAssumption DEF TypeOK
<1>2. e \in Extents /\ e.at = at /\ End(e) = at + b /\ b \in Nat /\ b >= 2 /\ at \in Nat
  <2>1. e \in Extents /\ e.at = at /\ e.rec = r /\ at \in Nat BY <1>1 DEF Extents
  <2>2. QED BY <2>1, RecordHasBytes
<1>3. /\ tail' = at + b /\ head' = head /\ held' = Append(held, e)
      /\ mem' = {f \in mem : ~Overlap(e, f)} \cup {e}
      /\ wrapPoint' = IF RecordFitsAtTail(b) THEN wrapPoint ELSE tail
  BY <1>2 DEF StoreSomewhere, Store
<1>4. /\ n \in Nat
      /\ \A i \in 1..n : /\ held[i].at \in Nat /\ End(held[i]) \in Nat
                         /\ held[i].at + 2 <= End(held[i])
      /\ held = <<>> <=> n = 0
  BY HeldFacts, EmptySeq
<1>5. /\ held' \in Seq(Extents) /\ held' # <<>>
      /\ Len(held') = n + 1 /\ (\A i \in 1..n : held'[i] = held[i]) /\ held'[n + 1] = e
  BY <1>2, <1>3, PushFacts
<1>6. /\ tail <= Capacity /\ wrapPoint <= Capacity
      /\ IF head > tail THEN head <= wrapPoint /\ 0 < tail ELSE wrapPoint = Capacity
      /\ n = 0 <=> head = tail
      /\ n # 0 => /\ held[1].at = IF head >= wrapPoint THEN 0 ELSE head
                  /\ End(held[n]) = tail
  BY <1>4, <1>1 DEF Layout, OffsetsInRing, Chain, IsWrapped, IsEmpty, HeadOffset, HeadAtWrapPoint
<1>7. \A i \in 1..n - 1 :
        held[i + 1].at = IF head > tail /\ End(held[i]) = wrapPoint THEN 0 ELSE End(held[i])
  BY DEF Layout, Chain, IsWrapped
<1>8. \A i \in 1..n : \/ head <= held[i].at /\ End(held[i]) <= (IF head > tail THEN wrapPoint ELSE tail)
                      \/ head > tail /\ End(held[i]) <= tail
  BY DEF Layout, Placed, Upper, Lower, IsWrapped
<1>9. \A i, j \in 1..n : i < j =>
        \/ End(held[i]) <= held[j].at
        \/ head > tail /\ head <= held[i].at /\ End(held[j]) <= tail
  BY DEF Layout, Placed, Lower, IsWrapped
<1>10. /\ \A i \in 1..n : ~Overlap(e, held[i])
       /\ OffsetsInRing'
       /\ Chain'
       /\ Placed'
  <2>1. CASE head > tail
    <3>1. at = tail /\ tail + b < head /\ tail' = tail + b /\ wrapPoint' = wrapPoint
      BY <1>1, <1>2, <1>3, <2>1 DEF StoreSomewhere, RecordFits, RecordFitsAtTail, RecordFitsAfterWrap, IsWrapped
    <3>2. \A i \in 1..n : ~Overlap(e, held[i])
      BY <1>1, <1>2, <1>4, <1>6, <1>8, <2>1, <3>1 DEF Overlap
    <3>3. OffsetsInRing'
      BY <1>1, <1>2, <1>3, <1>6, <2>1, <3>1 DEF OffsetsInRing, IsWrapped
    <3>4. Chain'
      <4>1. ~IsEmpty'
        BY <1>1, <1>2, <1>3, <2>1, <3>1 DEF IsEmpty
      <4>2. held'[1].at = HeadOffset'
        <5>1. CASE n = 0
          BY <5>1, <1>1, <1>2, <1>3, <1>5, <1>6, <2>1, <3>1 DEF HeadOffset, HeadAtWrapPoint
        <5>2. CASE n # 0
          <6>1. held'[1] = held[1] /\ End(held[1]) \in Nat BY <5>2, <1>4, <1>5
          <6>2. QED BY <6>1, <5>2, <1>1, <1>2, <1>3, <1>6, <2>1, <3>1 DEF HeadOffset, HeadAtWrapPoint
        <5>3. QED BY <5>1, <5>2
      <4>3. End(held'[Len(held')]) = tail'
        BY <1>2, <1>3, <1>5
      <4>4. \A i \in 1..n : held'[i + 1].at =
              IF IsWrapped' /\ End(held'[i]) = wrapPoint' THEN 0 ELSE End(held'[i])
        <5> TAKE i \in 1..n
        <5>1. held'[i] = held[i] /\ End(held[i]) \in Nat /\ held[i].at \in Nat /\ held[i].at < End(held[i])
          BY <1>4, <1>5
        <5>2. CASE i = n
          <6>1. held'[i + 1] = e /\ End(held[i]) = tail BY <5>2, <1>4, <1>5, <1>6
          <6>2. QED BY <6>1, <5>1, <1>1, <1>2, <1>3, <1>6, <2>1, <3>1 DEF IsWrapped
        <5>3. CASE i # n
          <6>1. i \in 1..n - 1 /\ i + 1 \in 1..n /\ held'[i + 1] = held[i + 1] BY <5>3, <1>4, <1>5
          <6>2. held[i + 1].at = IF head > tail /\ End(held[i]) = wrapPoint THEN 0 ELSE End(held[i])
            BY <6>1, <1>7
          <6>3. /\ held[i + 1].at < End(held[i + 1]) /\ held[i + 1].at \in Nat /\ End(held[i + 1]) \in Nat
                /\ \/ End(held[i + 1]) <= (IF head > tail THEN wrapPoint ELSE tail)
                   \/ head > tail /\ End(held[i + 1]) <= tail
            BY <6>1, <1>1, <1>4, <1>8
          <6>4. QED BY <6>1, <6>2, <6>3, <5>1, <1>1, <1>2, <1>3, <1>6, <2>1, <3>1 DEF IsWrapped
        <5>4. QED BY <5>2, <5>3
      <4>5. QED BY <4>1, <4>2, <4>3, <4>4, <1>4, <1>5 DEF Chain
    <3>5. Placed'
      <4> DEFINE In(x) == \/ head' <= x.at /\ End(x) <= (IF head' > tail' THEN wrapPoint' ELSE tail')
                          \/ head' > tail' /\ End(x) <= tail'
                 Before(x, y) == \/ End(x) <= y.at
                                 \/ head' > tail' /\ head' <= x.at /\ End(y) <= tail'
      <4>1. \A i \in 1..n : In(held[i])
        BY <1>1, <1>2, <1>3, <1>4, <1>6, <1>8, <2>1, <3>1
      <4>2. In(e)
        BY <1>1, <1>2, <1>3, <1>6, <2>1, <3>1
      <4>3. \A i \in 1..n : Before(held[i], e)
        BY <1>1, <1>2, <1>3, <1>4, <1>6, <1>8, <2>1, <3>1
      <4>4. \A i, j \in 1..n : i < j => Before(held[i], held[j])
        <5> TAKE i, j \in 1..n
        <5> HAVE i < j
        <5>1. /\ held[i].at \in Nat /\ End(held[i]) \in Nat /\ held[i].at < End(held[i])
              /\ held[j].at \in Nat /\ End(held[j]) \in Nat
          BY <1>4
        <5>2. \/ End(held[i]) <= held[j].at
              \/ head > tail /\ head <= held[i].at /\ End(held[j]) <= tail
          BY <1>9
        <5>3. QED BY <5>1, <5>2, <1>1, <1>2, <1>3, <2>1, <3>1
      <4>5. \A i \in 1..n + 1 : In(held'[i])
        <5>1. \A i \in 1..n + 1 : i \in 1..n \/ i = n + 1 BY <1>4
        <5>2. QED BY <5>1, <4>1, <4>2, <1>5
      <4>6. \A i, j \in 1..n + 1 : i < j => Before(held'[i], held'[j])
        <5> TAKE i, j \in 1..n + 1
        <5> HAVE i < j
        <5>1. i \in 1..n /\ (j \in 1..n \/ j = n + 1)
          <6>1. n \in Nat BY <1>4
          <6>2. HIDE DEF n
          <6>3. QED BY <6>1
        <5>2. QED BY <5>1, <4>3, <4>4, <1>5
      <4>7. QED BY <4>5, <4>6, <1>5 DEF Placed, Upper, Lower, IsWrapped
    <3>6. QED BY <3>2, <3>3, <3>4, <3>5
  <2>2. CASE ~(head > tail) /\ tail + b <= Capacity
    <3>1. at = tail /\ tail' = tail + b /\ wrapPoint' = Capacity /\ wrapPoint = Capacity
      BY <1>1, <1>2, <1>3, <1>6, <2>2 DEF RecordFitsAtTail, IsWrapped
    <3>2. \A i \in 1..n : ~Overlap(e, held[i])
      BY <1>1, <1>2, <1>4, <1>6, <1>8, <2>2, <3>1 DEF Overlap
    <3>3. OffsetsInRing'
      BY <1>1, <1>2, <1>3, <1>6, <2>2, <3>1 DEF OffsetsInRing, IsWrapped
    <3>4. Chain'
      <4>1. ~IsEmpty'
        BY <1>1, <1>2, <1>3, <2>2, <3>1 DEF IsEmpty
      <4>2. held'[1].at = HeadOffset'
        <5>1. CASE n = 0
          BY <5>1, <1>1, <1>2, <1>3, <1>5, <1>6, <2>2, <3>1 DEF HeadOffset, HeadAtWrapPoint
        <5>2. CASE n # 0
          <6>1. held'[1] = held[1] /\ End(held[1]) \in Nat BY <5>2, <1>4, <1>5
          <6>2. QED BY <6>1, <5>2, <1>1, <1>2, <1>3, <1>6, <2>2, <3>1 DEF HeadOffset, HeadAtWrapPoint
        <5>3. QED BY <5>1, <5>2
      <4>3. End(held'[Len(held')]) = tail'
        BY <1>2, <1>3, <1>5
      <4>4. \A i \in 1..n : held'[i + 1].at =
              IF IsWrapped' /\ End(held'[i]) = wrapPoint' THEN 0 ELSE End(held'[i])
        <5> TAKE i \in 1..n
        <5>1. held'[i] = held[i] /\ End(held[i]) \in Nat /\ held[i].at \in Nat /\ held[i].at < End(held[i])
          BY <1>4, <1>5
        <5>2. CASE i = n
          <6>1. held'[i + 1] = e /\ End(held[i]) = tail BY <5>2, <1>4, <1>5, <1>6
          <6>2. QED BY <6>1, <5>1, <1>1, <1>2, <1>3, <1>6, <2>2, <3>1 DEF IsWrapped
        <5>3. CASE i # n
          <6>1. i \in 1..n - 1 /\ i + 1 \in 1..n /\ held'[i + 1] = held[i + 1] BY <5>3, <1>4, <1>5
          <6>2. held[i + 1].at = IF head > tail /\ End(held[i]) = wrapPoint THEN 0 ELSE End(held[i])
            BY <6>1, <1>7
          <6>3. /\ held[i + 1].at < End(held[i + 1]) /\ held[i + 1].at \in Nat /\ End(held[i + 1]) \in Nat
                /\ \/ End(held[i + 1]) <= (IF head > tail THEN wrapPoint ELSE tail)
                   \/ head > tail /\ End(held[i + 1]) <= tail
            BY <6>1, <1>1, <1>4, <1>8
          <6>4. QED BY <6>1, <6>2, <6>3, <5>1, <1>1, <1>2, <1>3, <1>6, <2>2, <3>1 DEF IsWrapped
        <5>4. QED BY <5>2, <5>3
      <4>5. QED BY <4>1, <4>2, <4>3, <4>4, <1>4, <1>5 DEF Chain
    <3>5. Placed'
      <4> DEFINE In(x) == \/ head' <= x.at /\ End(x) <= (IF head' > tail' THEN wrapPoint' ELSE tail')
                          \/ head' > tail' /\ End(x) <= tail'
                 Before(x, y) == \/ End(x) <= y.at
                                 \/ head' > tail' /\ head' <= x.at /\ End(y) <= tail'
      <4>1. \A i \in 1..n : In(held[i])
        BY <1>1, <1>2, <1>3, <1>4, <1>6, <1>8, <2>2, <3>1
      <4>2. In(e)
        BY <1>1, <1>2, <1>3, <1>6, <2>2, <3>1
      <4>3. \A i \in 1..n : Before(held[i], e)
        BY <1>1, <1>2, <1>3, <1>4, <1>6, <1>8, <2>2, <3>1
      <4>4. \A i, j \in 1..n : i < j => Before(held[i], held[j])
        <5> TAKE i, j \in 1..n
        <5> HAVE i < j
        <5>1. /\ held[i].at \in Nat /\ End(held[i]) \in Nat /\ held[i].at < End(held[i])
              /\ held[j].at \in Nat /\ End(held[j]) \in Nat
          BY <1>4
        <5>2. \/ End(held[i]) <= held[j].at
              \/ head > tail /\ head <= held[i].at /\ End(held[j]) <= tail
          BY <1>9
        <5>3. QED BY <5>1, <5>2, <1>1, <1>2, <1>3, <2>2, <3>1
      <4>5. \A i \in 1..n + 1 : In(held'[i])
        <5>1. \A i \in 1..n + 1 : i \in 1..n \/ i = n + 1 BY <1>4
        <5>2. QED BY <5>1, <4>1, <4>2, <1>5
      <4>6. \A i, j \in 1..n + 1 : i < j => Before(held'[i], held'[j])
        <5> TAKE i, j \in 1..n + 1
        <5> HAVE i < j
        <5>1. i \in 1..n /\ (j \in 1..n \/ j = n + 1)
          <6>1. n \in Nat BY <1>4
          <6>2. HIDE DEF n
          <6>3. QED BY <6>1
        <5>2. QED BY <5>1, <4>3, <4>4, <1>5
      <4>7. QED BY <4>5, <4>6, <1>5 DEF Placed, Upper, Lower, IsWrapped
    <3>6. QED BY <3>2, <3>3, <3>4, <3>5
  <2>3. CASE ~(head > tail) /\ ~(tail + b <= Capacity)
    <3>1. at = 0 /\ tail' = b /\ wrapPoint' = tail /\ b < head
      BY <1>1, <1>2, <1>3, <2>3 DEF StoreSomewhere, RecordFits, RecordFitsAtTail, RecordFitsAfterWrap, IsWrapped
    <3>2. \A i \in 1..n : ~Overlap(e, held[i])
      BY <1>1, <1>2, <1>4, <1>6, <1>8, <2>3, <3>1 DEF Overlap
    <3>3. OffsetsInRing'
      BY <1>1, <1>2, <1>3, <1>6, <2>3, <3>1 DEF OffsetsInRing, IsWrapped
    <3>4. Chain'
      <4>1. ~IsEmpty'
        BY <1>1, <1>2, <1>3, <2>3, <3>1 DEF IsEmpty
      <4>2. held'[1].at = HeadOffset'
        <5>1. CASE n = 0
          BY <5>1, <1>1, <1>2, <1>3, <1>5, <1>6, <2>3, <3>1 DEF HeadOffset, HeadAtWrapPoint
        <5>2. CASE n # 0
          <6>1. held'[1] = held[1] /\ End(held[1]) \in Nat BY <5>2, <1>4, <1>5
          <6>2. QED BY <6>1, <5>2, <1>1, <1>2, <1>3, <1>6, <2>3, <3>1 DEF HeadOffset, HeadAtWrapPoint
        <5>3. QED BY <5>1, <5>2
      <4>3. End(held'[Len(held')]) = tail'
        BY <1>2, <1>3, <1>5
      <4>4. \A i \in 1..n : held'[i + 1].at =
              IF IsWrapped' /\ End(held'[i]) = wrapPoint' THEN 0 ELSE End(held'[i])
        <5> TAKE i \in 1..n
        <5>1. held'[i] = held[i] /\ End(held[i]) \in Nat /\ held[i].at \in Nat /\ held[i].at < End(held[i])
          BY <1>4, <1>5
        <5>2. CASE i = n
          <6>1. held'[i + 1] = e /\ End(held[i]) = tail BY <5>2, <1>4, <1>5, <1>6
          <6>2. QED BY <6>1, <5>1, <1>1, <1>2, <1>3, <1>6, <2>3, <3>1 DEF IsWrapped
        <5>3. CASE i # n
          <6>1. i \in 1..n - 1 /\ i + 1 \in 1..n /\ held'[i + 1] = held[i + 1] BY <5>3, <1>4, <1>5
          <6>2. held[i + 1].at = IF head > tail /\ End(held[i]) = wrapPoint THEN 0 ELSE End(held[i])
            BY <6>1, <1>7
          <6>3. /\ held[i + 1].at < End(held[i + 1]) /\ held[i + 1].at \in Nat /\ End(held[i + 1]) \in Nat
                /\ \/ End(held[i + 1]) <= (IF head > tail THEN wrapPoint ELSE tail)
                   \/ head > tail /\ End(held[i + 1]) <= tail
            BY <6>1, <1>1, <1>4, <1>8
          <6>4. QED BY <6>1, <6>2, <6>3, <5>1, <1>1, <1>2, <1>3, <1>6, <2>3, <3>1 DEF IsWrapped
        <5>4. QED BY <5>2, <5>3
      <4>5. QED BY <4>1, <4>2, <4>3, <4>4, <1>4, <1>5 DEF Chain
    <3>5. Placed'
      <4> DEFINE In(x) == \/ head' <= x.at /\ End(x) <= (IF head' > tail' THEN wrapPoint' ELSE tail')
                          \/ head' > tail' /\ End(x) <= tail'
                 Before(x, y) == \/ End(x) <= y.at
                                 \/ head' > tail' /\ head' <= x.at /\ End(y) <= tail'
      <4>1. \A i \in 1..n : In(held[i])
        BY <1>1, <1>2, <1>3, <1>4, <1>6, <1>8, <2>3, <3>1
      <4>2. In(e)
        BY <1>1, <1>2, <1>3, <1>6, <2>3, <3>1
      <4>3. \A i \in 1..n : Before(held[i], e)
        BY <1>1, <1>2, <1>3, <1>4, <1>6, <1>8, <2>3, <3>1
      <4>4. \A i, j \in 1..n : i < j => Before(held[i], held[j])
        <5> TAKE i, j \in 1..n
        <5> HAVE i < j
        <5>1. /\ held[i].at \in Nat /\ End(held[i]) \in Nat /\ held[i].at < End(held[i])
              /\ held[j].at \in Nat /\ End(held[j]) \in Nat
          BY <1>4
        <5>2. \/ End(held[i]) <= held[j].at
              \/ head > tail /\ head <= held[i].at /\ End(held[j]) <= tail
          BY <1>9
        <5>3. QED BY <5>1, <5>2, <1>1, <1>2, <1>3, <2>3, <3>1
      <4>5. \A i \in 1..n + 1 : In(held'[i])
        <5>1. \A i \in 1..n + 1 : i \in 1..n \/ i = n + 1 BY <1>4
        <5>2. QED BY <5>1, <4>1, <4>2, <1>5
      <4>6. \A i, j \in 1..n + 1 : i < j => Before(held'[i], held'[j])
        <5> TAKE i, j \in 1..n + 1
        <5> HAVE i < j
        <5>1. i \in 1..n /\ (j \in 1..n \/ j = n + 1)
          <6>1. n \in Nat BY <1>4
          <6>2. HIDE DEF n
          <6>3. QED BY <6>1
        <5>2. QED BY <5>1, <4>3, <4>4, <1>5
      <4>7. QED BY <4>5, <4>6, <1>5 DEF Placed, Upper, Lower, IsWrapped
    <3>6. QED BY <3>2, <3>3, <3>4, <3>5
  <2>4. QED BY <2>1, <2>2, <2>3
<1>11. RecordsIntact' /\ mem' \subseteq Extents
  BY <1>2, <1>3, <1>10, StoreKeepsRecords
<1>12. tail' \in Nat /\ wrapPoint' \in Nat
  BY <1>1, <1>2, <1>3
<1>13. QED
  BY <1>2, <1>3, <1>5, <1>10, <1>11, <1>12 DEF Layout

-----------------------------------------------------------------------------
(* The inductive invariant, one step per action. *)

IInv == TypeOK /\ RingInv /\ FullMeansRecords

\* The frame of a writer holds a record of some length.
LEMMA FrameFacts ==
  ASSUME NEW f \in Frames
  PROVE  f.rec \in Records /\ f.evicted \in BOOLEAN /\ RecordBytes(f.rec) \in Nat
<1>1. f.rec \in Records /\ f.evicted \in BOOLEAN BY DEF Frames
<1>2. f.rec.size \in Sizes BY <1>1 DEF Records
<1>3. f.rec.size \in Nat BY <1>2, SizesAssumption
<1>4. QED BY <1>1, <1>3 DEF RecordBytes, HEADER_BYTES

\* The initial ring is empty and well formed.
LEMMA InitIInv == Init => IInv
<1> SUFFICES ASSUME Init PROVE IInv OBVIOUS
<1>1. TypeOK
  <2>1. held \in Seq(Extents) /\ DOMAIN frame = Tasks /\ owed \in [Runs -> Int]
    BY EmptySeq DEF Init
  <2>2. /\ pc \in [Tasks -> {"idle", "asked", "storing", "REFUSALS", "EVICTIONS"}]
        /\ \A t \in Tasks : pc[t] = "idle"
    BY DEF Init
  <2>3. head \in Nat /\ tail \in Nat /\ wrapPoint \in Nat /\ mem \subseteq Extents
    BY CapacityAssumption DEF Init
  <2>4. QED BY <2>1, <2>2, <2>3 DEF Init, TypeOK
<1>2. MutexHeld /\ EmptyRingStartsOver /\ FullMeansRecords
  BY TaskAssumption DEF Init, MutexHeld, EmptyRingStartsOver, FullMeansRecords
<1>3. Layout
  BY CapacityAssumption, EmptySeq
     DEF Init, Layout, OffsetsInRing, Chain, Placed, RecordsIntact, IsWrapped, IsEmpty
<1>4. QED BY <1>1, <1>2, <1>3 DEF IInv, RingInv

\* Layout says nothing of the variables these steps change.
LEMMA LayoutUnchanged ==
  ASSUME Layout, UNCHANGED <<ring, mem, held>>
  PROVE  Layout' /\ IsEmpty' = IsEmpty
<1>1. IsWrapped' = IsWrapped /\ IsEmpty' = IsEmpty /\ HeadOffset' = HeadOffset
  BY DEF ring, IsWrapped, IsEmpty, HeadOffset, HeadAtWrapPoint
<1>2. OffsetsInRing' /\ RecordsIntact'
  BY <1>1 DEF ring, Layout, OffsetsInRing, RecordsIntact
<1>3. Chain'
  BY <1>1 DEF ring, Layout, Chain
<1>4. Placed'
  BY <1>1 DEF ring, Layout, Placed, Upper, Lower
<1>5. QED BY <1>1, <1>2, <1>3, <1>4 DEF Layout

\* A record that an empty ring could hold fits into a ring that is empty and has
\* been started over: EvictUntilRecordFits never drops from an empty ring.
LEMMA EmptyRingFits ==
  ASSUME TypeOK, Layout, head = 0, IsEmpty, NEW b \in Nat, b <= Capacity
  PROVE  RecordFits(b)
BY CapacityAssumption DEF TypeOK, IsEmpty, RecordFits, RecordFitsAtTail, IsWrapped

\* Asking the policy touches nothing the ring is made of.
LEMMA AskPolicyIInv ==
  ASSUME IInv, NEW t \in Tasks, NEW r \in Records, NEW p \in Policies, AskPolicy(t, r, p)
  PROVE  IInv'
<1>1. Layout' /\ IsEmpty' = IsEmpty
  BY LayoutUnchanged DEF IInv, RingInv, AskPolicy, ghosts
<1>2. TypeOK'
  BY DEF IInv, TypeOK, AskPolicy, ring, flags, ghosts, Frames
<1>3. MutexHeld' /\ EmptyRingStartsOver' /\ FullMeansRecords'
  BY <1>1 DEF IInv, TypeOK, RingInv, MutexHeld, EmptyRingStartsOver, FullMeansRecords,
              AskPolicy, ring, flags, ghosts
<1>4. QED BY <1>1, <1>2, <1>3 DEF IInv, RingInv

\* Taking the mutex may start an empty ring over.
LEMMA LockToStoreIInv ==
  ASSUME IInv, NEW t \in Tasks, LockToStore(t)
  PROVE  IInv'
<1>1. Layout' /\ head' \in Nat /\ tail' \in Nat /\ wrapPoint' \in Nat /\ (IsEmpty' => head' = 0)
  <2>1. CASE IsEmpty
    <3>1. held' = <<>> /\ mem' = mem BY <2>1 DEF IInv, RingInv, Layout, Chain, LockToStore, ghosts
    <3>2. ResetToStart BY <2>1 DEF LockToStore
    <3>3. QED BY <3>1, <3>2, ResetKeepsLayout DEF IInv, RingInv, ResetToStart
  <2>2. CASE ~IsEmpty
    BY <2>2, LayoutUnchanged DEF IInv, RingInv, TypeOK, LockToStore, ring, ghosts
  <2>3. QED BY <2>1, <2>2
<1>2. TypeOK'
  BY <1>1 DEF IInv, TypeOK, LockToStore, flags, ghosts
<1>3. MutexHeld'
  BY TaskAssumption DEF IInv, RingInv, TypeOK, MutexHeld, LockToStore
<1>4. EmptyRingStartsOver' /\ FullMeansRecords'
  BY <1>1, TaskAssumption DEF EmptyRingStartsOver, FullMeansRecords, LockToStore
<1>5. QED BY <1>1, <1>2, <1>3, <1>4 DEF IInv, RingInv

\* A turn of EvictUntilRecordFits drops the oldest record, and only that one.
LEMMA EvictOneIInv ==
  ASSUME IInv, NEW t \in Tasks, EvictOne(t)
  PROVE  IInv'
<1>1. pc[t] = "storing" /\ mutex = t /\ mutex' = mutex /\ frame[t] \in Frames
  BY DEF IInv, RingInv, MutexHeld, TypeOK, EvictOne
<1>2. RecordBytes(frame[t].rec) \in Nat
  BY <1>1, FrameFacts
<1>3. held # <<>>
  <2>1. RecordBytes(frame[t].rec) <= Capacity /\ ~RecordFits(RecordBytes(frame[t].rec))
    BY DEF EvictOne, PolicyEvictsFor, CouldHoldWhenEmpty
  <2>2. IsEmpty => head = 0
    BY <1>1, TaskAssumption DEF IInv, RingInv, EmptyRingStartsOver
  <2>3. ~IsEmpty BY <1>2, <2>1, <2>2, EmptyRingFits DEF IInv, RingInv
  <2>4. QED BY <2>3 DEF IInv, RingInv, Layout, Chain
<1>4. /\ Layout' /\ head' \in Nat /\ tail' \in Nat /\ wrapPoint' \in Nat
      /\ IsEmpty' => head' = 0
  BY <1>3, DropHeadKeepsLayout DEF IInv, RingInv, EvictOne
<1>5. held' \in Seq(Extents)
  BY <1>3, PopFacts DEF IInv, EvictOne
<1>6. frame' = [frame EXCEPT ![t].evicted = TRUE] /\ pc' = pc
  BY DEF EvictOne
<1>7. DOMAIN frame' = Tasks /\ \A u \in Tasks : pc'[u] \in {"asked", "storing"} => frame'[u] \in Frames
  <2>1. DOMAIN frame' = Tasks /\ \A u \in Tasks : u # t => frame'[u] = frame[u]
    BY <1>6 DEF IInv, TypeOK
  <2>2. frame'[t] = [frame[t] EXCEPT !.evicted = TRUE]
    BY <1>6 DEF IInv, TypeOK
  <2>3. frame'[t] \in Frames BY <2>2, <1>1 DEF Frames
  <2>4. QED BY <2>1, <2>3, <1>6 DEF IInv, TypeOK
<1>8. TypeOK'
  BY <1>4, <1>5, <1>7 DEF IInv, TypeOK, EvictOne, flags
<1>9. MutexHeld' /\ EmptyRingStartsOver' /\ FullMeansRecords'
  BY <1>1, <1>4, TaskAssumption DEF IInv, RingInv, MutexHeld, EmptyRingStartsOver, FullMeansRecords, EvictOne
<1>10. QED BY <1>4, <1>8, <1>9 DEF IInv, RingInv

\* KeepRecord stores at the tail or after a wrap, clear of every record held.
LEMMA KeepRecordIInv ==
  ASSUME IInv, NEW t \in Tasks, KeepRecord(t)
  PROVE  IInv'
<1>1. pc[t] = "storing" /\ mutex = t /\ mutex' = NoTask /\ frame[t] \in Frames
  BY DEF IInv, RingInv, MutexHeld, TypeOK, KeepRecord, Finish
<1>2. frame[t].rec \in Records /\ frame[t].evicted \in BOOLEAN
  BY <1>1 DEF Frames
<1>3. StoreSomewhere(frame[t].rec)
  BY DEF StoreSomewhere, KeepRecord
<1>4. /\ Layout' /\ tail' \in Nat /\ wrapPoint' \in Nat /\ head' = head
      /\ mem' \subseteq Extents /\ held' \in Seq(Extents) /\ held' # <<>>
  BY <1>2, <1>3, StoreKeepsLayout DEF IInv, RingInv, StoreSomewhere
<1>5. /\ Full' \in BOOLEAN /\ LossReported' \in BOOLEAN /\ EvictionReported' \in BOOLEAN
      /\ TooLargeReported' = TooLargeReported
  BY <1>2 DEF KeepRecord
<1>6. /\ lastWrite' \in {"KEPT", "REFUSALS", "EVICTIONS"} /\ owed' \in [Runs -> Int]
  <2>1. \E o \in {"KEPT", "EVICTIONS"} : NoteOutcome(o) BY DEF KeepRecord
  <2>2. QED BY <2>1 DEF NoteOutcome, IInv, TypeOK
<1>7. \E s \in {"NONE", "EVICTIONS"} : Finish(t, s) BY DEF KeepRecord
<1>8. /\ pc' \in [Tasks -> {"idle", "asked", "storing", "REFUSALS", "EVICTIONS"}]
      /\ DOMAIN frame' = Tasks /\ \A u \in Tasks : u # t => pc'[u] = pc[u] /\ frame'[u] = frame[u]
      /\ pc'[t] \notin {"asked", "storing"}
      /\ UNCHANGED <<readerReports, out>>
  BY <1>7 DEF Finish, IInv, TypeOK
<1>9. TypeOK'
  BY <1>1, <1>4, <1>5, <1>6, <1>8 DEF IInv, TypeOK
<1>10. MutexHeld'
  BY <1>1, <1>8, TaskAssumption DEF IInv, RingInv, MutexHeld
<1>11. EmptyRingStartsOver' /\ FullMeansRecords'
  BY <1>1, <1>4 DEF EmptyRingStartsOver, FullMeansRecords
<1>12. QED BY <1>4, <1>9, <1>10, <1>11 DEF IInv, RingInv

\* RefuseRecord leaves the ring alone, and a ring it calls full holds a record.
LEMMA RefuseRecordIInv ==
  ASSUME IInv, NEW t \in Tasks, RefuseRecord(t)
  PROVE  IInv'
<1>1. pc[t] = "storing" /\ mutex = t /\ mutex' = NoTask /\ frame[t] \in Frames
  BY DEF IInv, RingInv, MutexHeld, TypeOK, RefuseRecord, Finish
<1>2. RecordBytes(frame[t].rec) \in Nat
  BY <1>1, FrameFacts
<1>3. Layout' /\ IsEmpty' = IsEmpty
  BY LayoutUnchanged DEF IInv, RingInv, RefuseRecord
<1>4. Full' => held' # <<>>
  <2>1. SUFFICES ASSUME Full' PROVE ~IsEmpty
    BY <1>3 DEF Layout, Chain
  <2>2. RecordBytes(frame[t].rec) <= Capacity /\ ~RecordFits(RecordBytes(frame[t].rec))
    BY <2>1 DEF RefuseRecord, CouldHoldWhenEmpty
  <2>3. IsEmpty => head = 0
    BY <1>1, TaskAssumption DEF IInv, RingInv, EmptyRingStartsOver
  <2>4. QED BY <1>2, <2>2, <2>3, EmptyRingFits DEF IInv, RingInv
<1>5. /\ Full' \in BOOLEAN /\ LossReported' \in BOOLEAN /\ EvictionReported' \in BOOLEAN
      /\ UNCHANGED <<ring, TooLargeReported, mem, held>>
  <2>1. Full' = CouldHoldWhenEmpty(RecordBytes(frame[t].rec)) /\ LossReported' = TRUE
        /\ EvictionReported' = FALSE /\ UNCHANGED <<ring, TooLargeReported, mem, held>>
    BY DEF RefuseRecord
  <2>2. CouldHoldWhenEmpty(RecordBytes(frame[t].rec)) \in BOOLEAN
    BY DEF CouldHoldWhenEmpty
  <2>3. QED BY <2>1, <2>2
<1>6. /\ lastWrite' \in {"KEPT", "REFUSALS", "EVICTIONS"} /\ owed' \in [Runs -> Int]
  BY DEF RefuseRecord, NoteOutcome, IInv, TypeOK
<1>7. \E s \in {"NONE", "REFUSALS"} : Finish(t, s) BY DEF RefuseRecord
<1>8. /\ pc' \in [Tasks -> {"idle", "asked", "storing", "REFUSALS", "EVICTIONS"}]
      /\ DOMAIN frame' = Tasks /\ \A u \in Tasks : u # t => pc'[u] = pc[u] /\ frame'[u] = frame[u]
      /\ pc'[t] \notin {"asked", "storing"}
      /\ UNCHANGED <<readerReports, out>>
  BY <1>7 DEF Finish, IInv, TypeOK
<1>9. TypeOK'
  BY <1>1, <1>5, <1>6, <1>8 DEF IInv, TypeOK, ring
<1>10. MutexHeld'
  BY <1>1, <1>8, TaskAssumption DEF IInv, RingInv, MutexHeld
<1>11. EmptyRingStartsOver' /\ FullMeansRecords'
  BY <1>1, <1>4 DEF EmptyRingStartsOver, FullMeansRecords
<1>12. QED BY <1>3, <1>9, <1>10, <1>11 DEF IInv, RingInv

\* The reports made after the unlock leave the ring alone.
LEMMA ReportIInv ==
  ASSUME IInv, \/ \E t \in Tasks : ReportRunStarted(t)
               \/ ReportRecordTooLarge
  PROVE  IInv'
<1>1. /\ UNCHANGED <<ring, flags, mem, mutex, frame, out, held, lastWrite>>
      /\ readerReports' \in BOOLEAN
      /\ owed' \in [Runs -> Int]
      /\ pc' \in [Tasks -> {"idle", "asked", "storing", "REFUSALS", "EVICTIONS"}]
      /\ \A u \in Tasks : \/ pc'[u] = pc[u]
                          \/ pc[u] \in {"REFUSALS", "EVICTIONS"} /\ pc'[u] = "idle"
  <2>1. ASSUME NEW t \in Tasks, ReportRunStarted(t) PROVE <1>1!1 /\ <1>1!2 /\ <1>1!3 /\ <1>1!4 /\ <1>1!5
    BY <2>1 DEF ReportRunStarted, IInv, TypeOK, Runs
  <2>2. CASE ReportRecordTooLarge
    BY <2>2 DEF ReportRecordTooLarge, IInv, TypeOK, ghosts
  <2>3. QED BY <2>1, <2>2
<1>2. Layout' /\ IsEmpty' = IsEmpty
  BY <1>1, LayoutUnchanged DEF IInv, RingInv
<1>3. TypeOK'
  BY <1>1 DEF IInv, TypeOK, ring, flags
<1>4. MutexHeld' /\ EmptyRingStartsOver' /\ FullMeansRecords'
  BY <1>1, <1>2 DEF IInv, RingInv, MutexHeld, EmptyRingStartsOver, FullMeansRecords, ring, flags
<1>5. QED BY <1>2, <1>3, <1>4 DEF IInv, RingInv

\* Read takes the oldest record, or leaves it where it is.
LEMMA ReadIInv ==
  ASSUME IInv, NEW m \in ReadSizes, Read(m)
  PROVE  IInv'
<1>1. mutex = NoTask /\ mutex' = NoTask /\ ~IsEmpty /\ mem' = mem /\ tail' = tail
  BY DEF Read, Deliver, LeaveTooLarge, StepHead
<1>2. held # <<>> BY <1>1 DEF IInv, RingInv, Layout, Chain
<1>3. HeadRecord \in Records
  BY <1>2, HeadRecordIsOldest, RecordHasBytes DEF IInv, RingInv
<1>4. /\ Layout' /\ head' \in Nat /\ wrapPoint' \in Nat
      /\ held' \in Seq(Extents) /\ out' \in Records \cup {Nothing}
      /\ Full' \in BOOLEAN /\ TooLargeReported' \in BOOLEAN /\ readerReports' \in BOOLEAN
      /\ Full' => held' # <<>>
  <2>1. CASE Deliver(m)
    <3>1. Layout' /\ head' \in Nat /\ wrapPoint' \in Nat
      BY <1>1, <1>2, <2>1, StepHeadKeepsLayout DEF Deliver, IInv, RingInv
    <3>2. held' \in Seq(Extents) BY <1>2, <2>1, PopFacts DEF Deliver, IInv
    <3>3. QED BY <1>3, <2>1, <3>1, <3>2 DEF Deliver, IInv, TypeOK
  <2>2. CASE LeaveTooLarge(m)
    <3>1. Layout' /\ head' \in Nat /\ wrapPoint' \in Nat
      BY <1>1, <1>2, <2>2, WrapMarkerKeepsLayout DEF LeaveTooLarge, IInv, RingInv
    <3>2. QED BY <1>2, <2>2, <3>1 DEF LeaveTooLarge, IInv, TypeOK
  <2>3. QED BY <2>1, <2>2 DEF Read
<1>5. UNCHANGED <<LossReported, EvictionReported, pc, frame, lastWrite, owed>>
  BY DEF Read
<1>6. TypeOK'
  BY <1>1, <1>4, <1>5 DEF IInv, TypeOK
<1>7. MutexHeld' /\ EmptyRingStartsOver' /\ FullMeansRecords'
  BY <1>1, <1>4, <1>5 DEF IInv, RingInv, MutexHeld, EmptyRingStartsOver, FullMeansRecords
<1>8. QED BY <1>4, <1>6, <1>7 DEF IInv, RingInv

\* Every step of the buffer preserves the invariant.
LEMMA NextIInv == IInv /\ [Next]_vars => IInv'
<1> SUFFICES ASSUME IInv, [Next]_vars PROVE IInv' OBVIOUS
<1>1. ASSUME NEW t \in Tasks, NEW r \in Records, NEW p \in Policies, AskPolicy(t, r, p) PROVE IInv'
  BY <1>1, AskPolicyIInv
<1>2. ASSUME NEW t \in Tasks, LockToStore(t) PROVE IInv'
  BY <1>2, LockToStoreIInv
<1>3. ASSUME NEW t \in Tasks, EvictOne(t) PROVE IInv'
  BY <1>3, EvictOneIInv
<1>4. ASSUME NEW t \in Tasks, KeepRecord(t) PROVE IInv'
  BY <1>4, KeepRecordIInv
<1>5. ASSUME NEW t \in Tasks, RefuseRecord(t) PROVE IInv'
  BY <1>5, RefuseRecordIInv
<1>6. ASSUME NEW t \in Tasks, ReportRunStarted(t) PROVE IInv'
  BY <1>6, ReportIInv
<1>7. CASE ReportRecordTooLarge
  BY <1>7, ReportIInv
<1>8. ASSUME NEW m \in ReadSizes, Read(m) PROVE IInv'
  BY <1>8, ReadIInv
<1>9. CASE UNCHANGED vars
  <2>1. Layout' /\ IsEmpty' = IsEmpty
    BY <1>9, LayoutUnchanged DEF vars, ghosts, IInv, RingInv
  <2>2. TypeOK'
    BY <1>9 DEF vars, ring, flags, ghosts, IInv, TypeOK
  <2>3. MutexHeld' /\ EmptyRingStartsOver' /\ FullMeansRecords'
    BY <1>9, <2>1 DEF vars, ring, flags, ghosts, IInv, RingInv, MutexHeld, EmptyRingStartsOver, FullMeansRecords
  <2>4. QED BY <2>1, <2>2, <2>3 DEF IInv, RingInv
<1>10. QED
  BY <1>1, <1>2, <1>3, <1>4, <1>5, <1>6, <1>7, <1>8, <1>9 DEF Next, WriterStep

\* The variables of the buffer keep their types, and a writer has its frame
\* while it stores: for any number of tasks and any ring.
THEOREM TypeCorrect == Spec => []TypeOK
<1>1. IInv => TypeOK BY DEF IInv
<1>2. QED BY <1>1, InitIInv, NextIInv, PTL DEF Spec

\* No sequence of Writes and Reads makes the ring lose, overwrite or misplace a
\* record it still holds: StoreRecord, DropHead, LoadRecord and the wrap marker
\* keep the records end to end between Head and Tail, for every ring size.
THEOREM RingNeverCorrupts == Spec => []RingInv
<1>1. IInv => RingInv BY DEF IInv
<1>2. QED BY <1>1, InitIInv, NextIInv, PTL DEF Spec

\* IsFull never answers true of a ring with nothing to read.
THEOREM FullRingHasRecords == Spec => []FullMeansRecords
<1>1. IInv => FullMeansRecords BY DEF IInv
<1>2. QED BY <1>1, InitIInv, NextIInv, PTL DEF Spec
-----------------------------------------------------------------------------
(* The reports. *)

\* The latches say what the last write came to, which is what makes a write that
\* finds its latch set one that goes on with a run.
LatchesFollowWrites ==
  /\ LossReported <=> lastWrite = "REFUSALS"
  /\ EvictionReported <=> lastWrite = "EVICTIONS"

ReportInv == LatchesFollowWrites /\ EveryRunReportedOnce

Reporters(k) == {t \in Tasks : pc[t] = k}

\* One task more, or less, on its way to report runs of kind k.
LEMMA ReportersCounted ==
  ASSUME TypeOK, NEW t \in Tasks, NEW k \in {"REFUSALS", "EVICTIONS"},
         NEW s \in {"idle", "asked", "storing", "REFUSALS", "EVICTIONS"},
         pc' = [pc EXCEPT ![t] = s]
  PROVE  /\ Cardinality(Reporters(k)) \in Int
         /\ pc[t] # k /\ s = k => Cardinality(Reporters(k)') = Cardinality(Reporters(k)) + 1
         /\ pc[t] = k /\ s # k => Cardinality(Reporters(k)') = Cardinality(Reporters(k)) - 1
         /\ pc[t] # k /\ s # k => Reporters(k)' = Reporters(k)
<1>1. IsFiniteSet(Reporters(k))
  BY TaskAssumption, FS_Subset DEF Reporters
<1>2. Cardinality(Reporters(k)) \in Int BY <1>1, FS_CardinalityType
<1>3. pc \in [Tasks -> {"idle", "asked", "storing", "REFUSALS", "EVICTIONS"}] BY DEF TypeOK
<1>4. ASSUME pc[t] # k, s = k PROVE Cardinality(Reporters(k)') = Cardinality(Reporters(k)) + 1
  <2>1. Reporters(k)' = Reporters(k) \cup {t} /\ t \notin Reporters(k)
    BY <1>3, <1>4 DEF Reporters
  <2>2. QED BY <1>1, <2>1, FS_AddElement
<1>5. ASSUME pc[t] = k, s # k PROVE Cardinality(Reporters(k)') = Cardinality(Reporters(k)) - 1
  <2>1. Reporters(k)' = Reporters(k) \ {t} /\ t \in Reporters(k)
    BY <1>3, <1>5 DEF Reporters
  <2>2. QED BY <1>1, <2>1, FS_RemoveElement
<1>6. ASSUME pc[t] # k, s # k PROVE Reporters(k)' = Reporters(k)
  BY <1>3, <1>6 DEF Reporters
<1>7. QED BY <1>2, <1>4, <1>5, <1>6

\* A write that ends in outcome reports exactly when the outcome starts a run.
LEMMA WriteReports ==
  ASSUME TypeOK, ReportInv, NEW t \in Tasks, pc[t] = "storing",
         NEW outcome \in {"KEPT", "REFUSALS", "EVICTIONS"},
         NEW s \in {"NONE", "REFUSALS", "EVICTIONS"},
         s = IF outcome = lastWrite \/ outcome = "KEPT" THEN "NONE" ELSE outcome,
         NoteOutcome(outcome), Finish(t, s),
         LossReported' = (outcome = "REFUSALS"), EvictionReported' = (outcome = "EVICTIONS")
  PROVE  ReportInv'
<1>1. LatchesFollowWrites' BY DEF LatchesFollowWrites, NoteOutcome
<1>2. ASSUME NEW k \in {"REFUSALS", "EVICTIONS"} PROVE owed'[k] = Cardinality(Reporters(k)')
  <2>1. owed[k] = Cardinality(Reporters(k)) BY DEF ReportInv, EveryRunReportedOnce, Reporters
  <2>2. owed \in [Runs -> Int] BY DEF TypeOK
  <2>3. CASE s = k
    <3>1. pc' = [pc EXCEPT ![t] = k] /\ pc[t] # k BY <2>3, <1>2 DEF Finish
    <3>2. Cardinality(Reporters(k)') = Cardinality(Reporters(k)) + 1
      BY <3>1, ReportersCounted
    <3>3. owed'[k] = owed[k] + 1 BY <2>2, <2>3, <1>2 DEF NoteOutcome, Runs
    <3>4. QED BY <2>1, <3>2, <3>3
  <2>4. CASE s # k
    <3>1. \E x \in {"idle", "REFUSALS", "EVICTIONS"} : x # k /\ pc' = [pc EXCEPT ![t] = x]
      BY <2>4, <1>2 DEF Finish
    <3>2. Reporters(k)' = Reporters(k)
      BY <3>1, ReportersCounted
    <3>3. owed'[k] = owed[k]
      BY <2>2, <2>4, <1>2 DEF NoteOutcome, Runs
    <3>4. QED BY <2>1, <3>2, <3>3
  <2>5. QED BY <2>3, <2>4
<1>3. EveryRunReportedOnce' BY <1>2 DEF EveryRunReportedOnce, Reporters
<1>4. QED BY <1>1, <1>3 DEF ReportInv

\* Every step keeps the count of the reports that are owed.
LEMMA NextReportInv == IInv /\ ReportInv /\ [Next]_vars => ReportInv'
<1> SUFFICES ASSUME IInv, ReportInv, [Next]_vars PROVE ReportInv' OBVIOUS
<1> USE DEF IInv
<1>1. ASSUME NEW t \in Tasks, NEW s \in {"asked", "storing"}, pc[t] \in {"idle", "asked"},
             pc' = [pc EXCEPT ![t] = s],
             UNCHANGED <<LossReported, EvictionReported, lastWrite, owed>>
      PROVE  ReportInv'
  <2>1. \A k \in {"REFUSALS", "EVICTIONS"} : Reporters(k)' = Reporters(k)
    BY <1>1, ReportersCounted
  <2>2. QED BY <2>1, <1>1 DEF ReportInv, LatchesFollowWrites, EveryRunReportedOnce, Reporters
<1>2. ASSUME UNCHANGED <<pc, LossReported, EvictionReported, lastWrite, owed>> PROVE ReportInv'
  BY <1>2 DEF ReportInv, LatchesFollowWrites, EveryRunReportedOnce
<1>3. ASSUME NEW t \in Tasks, NEW r \in Records, NEW p \in Policies, AskPolicy(t, r, p) PROVE ReportInv'
  BY <1>1, <1>3 DEF AskPolicy, flags, ghosts
<1>4. ASSUME NEW t \in Tasks, LockToStore(t) PROVE ReportInv'
  BY <1>1, <1>4 DEF LockToStore, flags, ghosts
<1>5. ASSUME NEW t \in Tasks, EvictOne(t) PROVE ReportInv'
  BY <1>2, <1>5 DEF EvictOne, flags
<1>6. ASSUME NEW t \in Tasks, KeepRecord(t) PROVE ReportInv'
  <2>1. pc[t] = "storing" /\ frame[t] \in Frames BY <1>6 DEF TypeOK, KeepRecord
  <2>2. frame[t].evicted \in BOOLEAN BY <2>1 DEF Frames
  <2>3. EvictionReported <=> lastWrite = "EVICTIONS" BY DEF ReportInv, LatchesFollowWrites
  <2>4. CASE frame[t].evicted
    <3>1. /\ NoteOutcome("EVICTIONS") /\ LossReported' = FALSE /\ EvictionReported' = TRUE
          /\ Finish(t, IF lastWrite = "EVICTIONS" THEN "NONE" ELSE "EVICTIONS")
      BY <2>2, <2>3, <2>4, <1>6 DEF KeepRecord
    <3>2. QED BY <3>1, <2>1, WriteReports
  <2>5. CASE ~frame[t].evicted
    <3>1. /\ NoteOutcome("KEPT") /\ LossReported' = FALSE /\ EvictionReported' = FALSE
          /\ Finish(t, "NONE")
      BY <2>2, <2>5, <1>6 DEF KeepRecord
    <3>2. QED BY <3>1, <2>1, WriteReports
  <2>6. QED BY <2>4, <2>5
<1>7. ASSUME NEW t \in Tasks, RefuseRecord(t) PROVE ReportInv'
  <2>1. LossReported <=> lastWrite = "REFUSALS" BY DEF ReportInv, LatchesFollowWrites
  <2>2. /\ NoteOutcome("REFUSALS") /\ LossReported' = TRUE /\ EvictionReported' = FALSE
        /\ Finish(t, IF lastWrite = "REFUSALS" THEN "NONE" ELSE "REFUSALS") /\ pc[t] = "storing"
    BY <2>1, <1>7 DEF RefuseRecord
  <2>3. QED BY <2>2, WriteReports
<1>8. ASSUME NEW t \in Tasks, ReportRunStarted(t) PROVE ReportInv'
  <2>1. LatchesFollowWrites' BY <1>8 DEF ReportRunStarted, flags, ReportInv, LatchesFollowWrites
  <2>2. ASSUME NEW k \in {"REFUSALS", "EVICTIONS"} PROVE owed'[k] = Cardinality(Reporters(k)')
    <3>1. owed[k] = Cardinality(Reporters(k)) BY DEF ReportInv, EveryRunReportedOnce, Reporters
    <3>2. /\ pc[t] = k => Cardinality(Reporters(k)') = Cardinality(Reporters(k)) - 1
          /\ pc[t] # k => Reporters(k)' = Reporters(k)
      BY <1>8, ReportersCounted DEF ReportRunStarted
    <3>3. owed' = [owed EXCEPT ![pc[t]] = @ - 1] /\ owed \in [Runs -> Int] /\ k \in Runs
      BY <1>8 DEF ReportRunStarted, TypeOK, Runs
    <3>4. QED BY <3>1, <3>2, <3>3
  <2>3. QED BY <2>1, <2>2 DEF ReportInv, EveryRunReportedOnce, Reporters
<1>9. CASE ReportRecordTooLarge
  BY <1>2, <1>9 DEF ReportRecordTooLarge, flags, ghosts
<1>10. ASSUME NEW m \in ReadSizes, Read(m) PROVE ReportInv'
  BY <1>2, <1>10 DEF Read
<1>11. CASE UNCHANGED vars
  BY <1>2, <1>11 DEF vars, flags, ghosts
<1>12. QED
  BY <1>3, <1>4, <1>5, <1>6, <1>7, <1>8, <1>9, <1>10, <1>11 DEF Next, WriterStep

\* Each run of refusals and of evictions is reported once, however many tasks
\* write at the same time and in whatever order they come to report: the latch
\* under the mutex names one reporter a run (KeepRecord, RefuseRecord and
\* ReportRunStarted).
THEOREM RunsReportedOnce == Spec => []EveryRunReportedOnce
<1>1. Init => ReportInv
  <2>1. SUFFICES ASSUME Init PROVE ReportInv OBVIOUS
  <2>2. \A k \in {"REFUSALS", "EVICTIONS"} : {t \in Tasks : pc[t] = k} = {} /\ owed[k] = 0
    BY <2>1 DEF Init, Runs
  <2>3. QED BY <2>1, <2>2, FS_EmptySet DEF Init, ReportInv, LatchesFollowWrites, EveryRunReportedOnce
<1>2. ReportInv => EveryRunReportedOnce BY DEF ReportInv
<1>3. QED BY <1>1, <1>2, InitIInv, NextIInv, NextReportInv, PTL DEF Spec

-----------------------------------------------------------------------------
(* The ring implements the queue. *)

\* Records have been evicted only by a writer that can keep its own.
EvictedForOneThatFits ==
  \A t \in Tasks :
    /\ pc[t] = "asked" => ~frame[t].evicted
    /\ pc[t] = "storing" /\ frame[t].evicted =>
         PolicyEvictsFor(RecordBytes(frame[t].rec), frame[t].policy)

\* Every step keeps it.
LEMMA NextEvictedFits == IInv /\ EvictedForOneThatFits /\ [Next]_vars => EvictedForOneThatFits'
<1> SUFFICES ASSUME IInv, EvictedForOneThatFits, [Next]_vars PROVE EvictedForOneThatFits' OBVIOUS
<1> USE DEF IInv, EvictedForOneThatFits
<1>1. ASSUME NEW t \in Tasks, NEW r \in Records, NEW p \in Policies, AskPolicy(t, r, p)
      PROVE  EvictedForOneThatFits'
  BY <1>1 DEF AskPolicy, TypeOK, PolicyEvictsFor, CouldHoldWhenEmpty
<1>2. ASSUME NEW t \in Tasks, LockToStore(t) PROVE EvictedForOneThatFits'
  BY <1>2 DEF LockToStore, TypeOK, PolicyEvictsFor, CouldHoldWhenEmpty
<1>3. ASSUME NEW t \in Tasks, EvictOne(t) PROVE EvictedForOneThatFits'
  <2>1. pc' = pc /\ frame[t] \in Frames /\ pc[t] = "storing" BY <1>3 DEF EvictOne, TypeOK
  <2>2. \A u \in Tasks : u # t => frame'[u] = frame[u] BY <1>3 DEF EvictOne, TypeOK
  <2>3. frame'[t].rec = frame[t].rec /\ frame'[t].policy = frame[t].policy
    BY <1>3, <2>1 DEF EvictOne, TypeOK, Frames
  <2>4. PolicyEvictsFor(RecordBytes(frame[t].rec), frame[t].policy) BY <1>3 DEF EvictOne
  <2>5. QED BY <2>1, <2>2, <2>3, <2>4 DEF PolicyEvictsFor, CouldHoldWhenEmpty
<1>4. ASSUME NEW t \in Tasks, NEW s \in {"idle", "REFUSALS", "EVICTIONS"},
             pc' = [pc EXCEPT ![t] = s], \A u \in Tasks : u # t => frame'[u] = frame[u]
      PROVE  EvictedForOneThatFits'
  BY <1>4 DEF TypeOK, PolicyEvictsFor, CouldHoldWhenEmpty
<1>5. ASSUME NEW t \in Tasks, NEW s \in {"NONE", "REFUSALS", "EVICTIONS"}, Finish(t, s)
      PROVE  EvictedForOneThatFits'
  BY <1>4, <1>5 DEF Finish, TypeOK
<1>6. ASSUME NEW t \in Tasks, KeepRecord(t) PROVE EvictedForOneThatFits'
  BY <1>5, <1>6 DEF KeepRecord
<1>7. ASSUME NEW t \in Tasks, RefuseRecord(t) PROVE EvictedForOneThatFits'
  BY <1>5, <1>7 DEF RefuseRecord
<1>8. ASSUME NEW t \in Tasks, ReportRunStarted(t) PROVE EvictedForOneThatFits'
  BY <1>4, <1>8 DEF ReportRunStarted
<1>9. ASSUME UNCHANGED <<pc, frame>> PROVE EvictedForOneThatFits'
  BY <1>9 DEF PolicyEvictsFor, CouldHoldWhenEmpty
<1>10. CASE ReportRecordTooLarge BY <1>9, <1>10 DEF ReportRecordTooLarge
<1>11. ASSUME NEW m \in ReadSizes, Read(m) PROVE EvictedForOneThatFits' BY <1>9, <1>11 DEF Read
<1>12. CASE UNCHANGED vars BY <1>9, <1>12 DEF vars
<1>13. QED
  BY <1>1, <1>2, <1>3, <1>6, <1>7, <1>8, <1>10, <1>11, <1>12 DEF Next, WriterStep
\* The queue as the callers see it, and whether one of them is evicting.
Kept == [i \in 1..Len(held) |-> held[i].rec]
Evicting == \E t \in Tasks : pc[t] = "storing" /\ frame[t].evicted

\* The records kept are a sequence of records.
LEMMA KeptIsSequence ==
  ASSUME held \in Seq(Extents)
  PROVE  /\ Kept \in Seq(Records) /\ Len(Kept) = Len(held)
         /\ \A i \in 1..Len(held) : Kept[i] = held[i].rec
<1>1. Len(held) \in Nat BY LenProperties
<1>2. \A i \in 1..Len(held) : held[i].rec \in Records
  BY ElementOfSeq, RecordHasBytes
<1>3. Kept \in [1..Len(held) -> Records] BY <1>2 DEF Kept
<1>4. Kept \in Seq(Records) BY <1>1, <1>3, SeqDef
<1>5. Len(Kept) = Len(held) BY <1>1, <1>3, <1>4, LenProperties
<1>6. QED BY <1>4, <1>5 DEF Kept

\* Taking the oldest extent takes the head of the queue.
LEMMA KeptPops ==
  ASSUME TypeOK, held # <<>>, held' = Tail(held)
  PROVE  Kept # <<>> /\ Kept' = Tail(Kept) /\ Head(Kept) = held[1].rec
<1>1. held \in Seq(Extents) /\ held' \in Seq(Extents) /\ Len(held') = Len(held) - 1
      /\ \A i \in 1..Len(held) - 1 : held'[i] = held[i + 1]
  BY PopFacts DEF TypeOK
<1>2. /\ Kept \in Seq(Records) /\ Len(Kept) = Len(held)
      /\ \A i \in 1..Len(held) : Kept[i] = held[i].rec
  BY <1>1, KeptIsSequence
<1>3. /\ Kept' \in Seq(Records) /\ Len(Kept') = Len(held')
      /\ \A i \in 1..Len(held') : Kept'[i] = held'[i].rec
  BY <1>1, LenProperties, ElementOfSeq, RecordHasBytes, SeqDef DEF Kept
<1>4. Len(held) \in Nat \ {0} BY <1>1, EmptySeq
<1>5. Kept # <<>> BY <1>2, <1>4, EmptySeq
<1>6. /\ Tail(Kept) \in Seq(Records) /\ Len(Tail(Kept)) = Len(Kept) - 1
      /\ \A i \in 1..Len(Tail(Kept)) : Tail(Kept)[i] = Kept[i + 1]
  BY <1>2, <1>5, HeadTailProperties
<1>7. Kept' = Tail(Kept)
  <2>1. \A i \in 1..Len(Kept') : Kept'[i] = Tail(Kept)[i]
    BY <1>1, <1>2, <1>3, <1>4, <1>6
  <2>2. QED BY <2>1, <1>1, <1>2, <1>3, <1>6, SeqEqual
<1>8. Head(Kept) = held[1].rec BY <1>2, <1>4, <1>5
<1>9. QED BY <1>5, <1>7, <1>8

\* Storing an extent appends its record to the queue.
LEMMA KeptGrows ==
  ASSUME TypeOK, NEW e \in Extents, held' = Append(held, e)
  PROVE  Kept' = Append(Kept, e.rec)
<1>1. /\ held \in Seq(Extents) /\ held' \in Seq(Extents) /\ Len(held') = Len(held) + 1
      /\ \A i \in 1..Len(held) : held'[i] = held[i]
      /\ held'[Len(held) + 1] = e
  BY PushFacts DEF TypeOK
<1>2. /\ Kept \in Seq(Records) /\ Len(Kept) = Len(held)
      /\ \A i \in 1..Len(held) : Kept[i] = held[i].rec
  BY <1>1, KeptIsSequence
<1>3. /\ Kept' \in Seq(Records) /\ Len(Kept') = Len(held')
      /\ \A i \in 1..Len(held') : Kept'[i] = held'[i].rec
  BY <1>1, LenProperties, ElementOfSeq, RecordHasBytes, SeqDef DEF Kept
<1>4. e.rec \in Records /\ Len(held) \in Nat BY <1>1, RecordHasBytes, LenProperties
<1>5. /\ Append(Kept, e.rec) \in Seq(Records) /\ Len(Append(Kept, e.rec)) = Len(Kept) + 1
      /\ \A i \in 1..Len(Kept) : Append(Kept, e.rec)[i] = Kept[i]
      /\ Append(Kept, e.rec)[Len(Kept) + 1] = e.rec
  BY <1>2, <1>4, AppendProperties
<1>6. \A i \in 1..Len(Kept') : Kept'[i] = Append(Kept, e.rec)[i]
  BY <1>1, <1>2, <1>3, <1>4, <1>5
<1>7. QED BY <1>1, <1>2, <1>3, <1>5, <1>6, SeqEqual
\* Every step of the ring is a step of the queue, or leaves it as it is.
LEMMA NextRefines ==
  IInv /\ EvictedForOneThatFits /\ [Next]_vars => [Queue!Next]_(Queue!vars)
<1> SUFFICES ASSUME IInv, EvictedForOneThatFits, [Next]_vars PROVE [Queue!Next]_(Queue!vars)
  OBVIOUS
<1> USE DEF IInv
<1>1. ASSUME UNCHANGED <<Kept, Evicting, out>> PROVE UNCHANGED Queue!vars
  BY <1>1 DEF Queue!vars, Kept, Evicting
<1>2. ASSUME UNCHANGED <<held, pc, frame, out>> PROVE UNCHANGED Queue!vars
  BY <1>1, <1>2 DEF Kept, Evicting
<1>3. ASSUME NEW t \in Tasks, pc[t] # "storing", UNCHANGED <<held, out>>,
             pc'[t] = "storing" => ~frame'[t].evicted,
             \A u \in Tasks : u # t => pc'[u] = pc[u] /\ frame'[u] = frame[u]
      PROVE  UNCHANGED Queue!vars
  <2>1. Evicting' <=> Evicting BY <1>3 DEF Evicting
  <2>2. QED BY <2>1, <1>1, <1>3 DEF Kept, Evicting
<1>4. ASSUME NEW t \in Tasks, NEW r \in Records, NEW p \in Policies, AskPolicy(t, r, p)
      PROVE  UNCHANGED Queue!vars
  BY <1>3, <1>4 DEF AskPolicy, ghosts, TypeOK
<1>5. ASSUME NEW t \in Tasks, LockToStore(t) PROVE UNCHANGED Queue!vars
  BY <1>3, <1>5 DEF LockToStore, ghosts, TypeOK, EvictedForOneThatFits
<1>6. ASSUME NEW t \in Tasks, pc[t] = "storing", pc'[t] # "storing",
             \A u \in Tasks : u # t => pc'[u] = pc[u]
      PROVE  Evicting' = FALSE /\ (Evicting <=> frame[t].evicted)
  BY <1>6 DEF RingInv, MutexHeld, Evicting
<1>7. ASSUME NEW t \in Tasks, EvictOne(t) PROVE Queue!Evict
  <2>1. pc[t] = "storing" /\ mutex = t /\ frame[t] \in Frames
    BY <1>7 DEF RingInv, MutexHeld, TypeOK, EvictOne
  <2>2. RecordBytes(frame[t].rec) \in Nat BY <2>1, FrameFacts
  <2>3. held # <<>>
    <3>1. RecordBytes(frame[t].rec) <= Capacity /\ ~RecordFits(RecordBytes(frame[t].rec))
      BY <1>7 DEF EvictOne, PolicyEvictsFor, CouldHoldWhenEmpty
    <3>2. IsEmpty => head = 0 BY <2>1, TaskAssumption DEF RingInv, EmptyRingStartsOver
    <3>3. ~IsEmpty BY <2>2, <3>1, <3>2, EmptyRingFits DEF RingInv
    <3>4. QED BY <3>3 DEF RingInv, Layout, Chain
  <2>4. Kept # <<>> /\ Kept' = Tail(Kept) BY <1>7, <2>3, KeptPops DEF EvictOne
  <2>5. Evicting'
    <3>1. frame'[t].evicted /\ pc'[t] = "storing" BY <1>7, <2>1 DEF EvictOne, TypeOK, Frames
    <3>2. QED BY <3>1 DEF Evicting
  <2>6. out' = out BY <1>7 DEF EvictOne
  <2>7. QED BY <2>4, <2>5, <2>6 DEF Queue!Evict, Kept, Evicting
<1>8. ASSUME NEW t \in Tasks, KeepRecord(t) PROVE Queue!Put
  <2>1. pc[t] = "storing" /\ frame[t] \in Frames BY <1>8 DEF KeepRecord, TypeOK
  <2>2. frame[t].rec \in Records BY <2>1, FrameFacts
  <2>3. \E e \in Extents : e.rec = frame[t].rec /\ held' = Append(held, e)
    <3>1. tail \in Nat BY DEF TypeOK
    <3>2. PICK a \in {0, tail} : Store(a, frame[t].rec) BY <1>8 DEF KeepRecord
    <3>3. [at |-> a, rec |-> frame[t].rec] \in Extents BY <2>2, <3>1 DEF Extents
    <3>4. QED BY <3>2, <3>3 DEF Store
  <2>4. Kept' = Append(Kept, frame[t].rec) BY <2>3, KeptGrows
  <2>5. pc'[t] # "storing" /\ out' = out /\ \A u \in Tasks : u # t => pc'[u] = pc[u]
    BY <1>8 DEF KeepRecord, Finish, TypeOK
  <2>6. Evicting' = FALSE BY <1>6, <2>1, <2>5
  <2>7. QED BY <2>2, <2>4, <2>5, <2>6 DEF Queue!Put, Kept, Evicting
<1>9. ASSUME NEW t \in Tasks, RefuseRecord(t) PROVE UNCHANGED Queue!vars
  <2>1. pc[t] = "storing" /\ frame[t] \in Frames BY <1>9 DEF RefuseRecord, TypeOK
  <2>2. ~frame[t].evicted BY <1>9, <2>1 DEF RefuseRecord, EvictedForOneThatFits
  <2>3. pc'[t] # "storing" /\ UNCHANGED <<held, out>> /\ \A u \in Tasks : u # t => pc'[u] = pc[u]
    BY <1>9 DEF RefuseRecord, Finish, TypeOK
  <2>4. Evicting' = FALSE /\ Evicting = FALSE BY <1>6, <2>1, <2>2, <2>3 DEF Evicting
  <2>5. QED BY <1>1, <2>3, <2>4 DEF Kept
<1>10. ASSUME NEW t \in Tasks, ReportRunStarted(t) PROVE UNCHANGED Queue!vars
  BY <1>3, <1>10 DEF ReportRunStarted, TypeOK
<1>11. CASE ReportRecordTooLarge BY <1>2, <1>11 DEF ReportRecordTooLarge, ghosts
<1>12. ASSUME NEW m \in ReadSizes, Read(m) PROVE [Queue!Next]_(Queue!vars)
  <2>1. CASE Deliver(m)
    <3>1. held # <<>> BY <1>12 DEF Read, RingInv, Layout, Chain
    <3>2. HeadRecord = held[1].rec BY <3>1, HeadRecordIsOldest DEF RingInv
    <3>3. Kept # <<>> /\ Kept' = Tail(Kept) /\ out' = Head(Kept)
      BY <2>1, <3>1, <3>2, KeptPops DEF Deliver
    <3>4. Evicting = FALSE /\ Evicting' = FALSE
      BY <1>12, TaskAssumption DEF Read, RingInv, MutexHeld, Evicting
    <3>5. Queue!Take BY <3>3, <3>4 DEF Queue!Take, Kept, Evicting
    <3>6. QED BY <3>5 DEF Queue!Next
  <2>2. CASE LeaveTooLarge(m)
    BY <1>2, <1>12, <2>2 DEF Read, LeaveTooLarge
  <2>3. QED BY <1>12, <2>1, <2>2 DEF Read
<1>13. CASE UNCHANGED vars BY <1>2, <1>13 DEF vars, ghosts
<1>14. QED
  BY <1>4, <1>5, <1>7, <1>8, <1>9, <1>10, <1>11, <1>12, <1>13 DEF Next, WriterStep, Queue!Next

\* The buffer is a queue to its callers: records come out of Read in the order in
\* which Write kept them, each one whole and once, and one is evicted only for
\* another that is then kept, for every ring, policy and number of writers.
THEOREM RingIsAQueue == Spec => RefinesQueue
<1>1. Init => EvictedForOneThatFits BY DEF Init, EvictedForOneThatFits
<1>2. Init => Queue!Init
  <2> SUFFICES ASSUME Init PROVE Queue!Init OBVIOUS
  <2>1. Kept = <<>>
    <3>1. held \in Seq(Extents) /\ Len(held) = 0 BY EmptySeq DEF Init
    <3>2. Kept \in Seq(Records) /\ Len(Kept) = 0 BY <3>1, KeptIsSequence
    <3>3. QED BY <3>2, EmptySeq
  <2>2. Evicting = FALSE /\ out = Nothing BY DEF Init, Evicting
  <2>3. QED BY <2>1, <2>2 DEF Queue!Init, Kept, Evicting
<1>3. QED
  BY <1>1, <1>2, InitIInv, NextIInv, NextEvictedFits, NextRefines, PTL DEF Spec, RefinesQueue, Queue!Spec
=============================================================================
