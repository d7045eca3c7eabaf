---------------------------- MODULE ServiceProofs ----------------------------
(***************************************************************************)
(* What Log and Service promise for any number of records, any capacity of *)
(* the buffer and the store, and any discard policies.                     *)
(***************************************************************************)
EXTENDS Service, FiniteSetTheorems, TLAPS

Items == {RecordOf(id) : id \in Ids} \cup {ReportOf(k) : k \in Kinds}
Places == {"out", "policy", "deal", "refused", "sendHeld", "walk", "hold", "take", "sendStored", "status"}

\* The variables have their types, the buffer and the store keep to their
\* capacities, and a store that keeps nothing is empty.
TypeInv ==
  /\ HoldsRecord \in BOOLEAN /\ HeldRecordIsReport \in BOOLEAN /\ Record \in Items \cup {NoItem}
  /\ HeldRecordLossReported \in BOOLEAN /\ ReportTurnedDown \in BOOLEAN /\ Halted \in BOOLEAN
  /\ pc \in Places /\ index \in 1..4
  /\ buffer \in Seq(Ids) /\ Len(buffer) <= BufferCapacity
  /\ store \in Seq(Items) /\ Len(store) <= StoreCapacity
  /\ transient \in BOOLEAN /\ (transient => store = <<>>)
  /\ pending \subseteq Kinds /\ due \subseteq Kinds
  /\ fate \in [Ids -> {"new", "live", "settled"}] /\ lastSent \in {0} \cup Ids

\* What the slot holds at each place of a pass.  A record, unlike a report, is
\* sent from the slot only where the store keeps nothing.
SlotInv ==
  /\ HoldsRecord => Record \in Items /\ HeldRecordIsReport = Record.report
  /\ pc \in {"refused", "sendHeld"} => HoldsRecord
  /\ pc \in {"walk", "hold"} => ~HoldsRecord
  /\ pc = "sendHeld" /\ ~HeldRecordIsReport => store = <<>>
  /\ pc = "sendStored" => ~HoldsRecord /\ store # <<>> /\ Record = Head(store)

\* The records still in the logger, from the oldest: the store's, the slot's,
\* the buffer's.  All of them were logged.
HeldIds == IF HoldsRecord /\ ~Record.report THEN {Record.id} ELSE {}
OrderInv ==
  /\ \A i, j \in DOMAIN store : i < j /\ ~store[i].report /\ ~store[j].report => store[i].id < store[j].id
  /\ \A i, j \in DOMAIN buffer : i < j => buffer[i] < buffer[j]
  /\ \A i \in DOMAIN store : ~store[i].report =>
       /\ fate[store[i].id] # "new"
       /\ \A id \in HeldIds : store[i].id < id
       /\ \A j \in DOMAIN buffer : store[i].id < buffer[j]
  /\ \A id \in HeldIds : fate[id] # "new" /\ \A j \in DOMAIN buffer : id < buffer[j]
  /\ \A j \in DOMAIN buffer : fate[buffer[j]] # "new"

\* Records are logged in order, and a record sent is settled with all before it.
LogInv == \A i, j \in Ids : i < j /\ fate[i] = "new" => fate[j] = "new"
SentInv == \A id \in Ids : id <= lastSent => fate[id] = "settled"

\* A live record has a place.
InTheStore(id) == \E i \in DOMAIN store : ~store[i].report /\ store[i].id = id
PlaceInv == \A id \in Ids : fate[id] = "live" => InBuffer(id) \/ id \in HeldIds \/ InTheStore(id)

ControlInv == TypeInv /\ SlotInv /\ EventsKept
RecordsInv == OrderInv /\ LogInv /\ SentInv /\ PlaceInv
IInv == ControlInv /\ RecordsInv

-----------------------------------------------------------------------------
(* Items *)

LEMMA ItemsAre ==
  /\ \A x \in Items : /\ x.report \in BOOLEAN
                      /\ ~x.report => x.id \in Ids /\ x = RecordOf(x.id)
                      /\ x.report => x.id \in Kinds /\ x = ReportOf(x.id)
  /\ \A id \in Ids : RecordOf(id) \in Items /\ RecordOf(id).report = FALSE /\ RecordOf(id).id = id
  /\ \A k \in Kinds : ReportOf(k) \in Items /\ ReportOf(k).report = TRUE /\ ReportOf(k).id = k
<1>1. \A id : RecordOf(id).report = FALSE /\ RecordOf(id).id = id
  BY DEF RecordOf
<1>2. \A k : ReportOf(k).report = TRUE /\ ReportOf(k).id = k
  BY DEF ReportOf
<1>3. \A x \in Items : (\E id \in Ids : x = RecordOf(id)) \/ (\E k \in Kinds : x = ReportOf(k))
  BY DEF Items
<1>4. (\A id \in Ids : RecordOf(id) \in Items) /\ (\A k \in Kinds : ReportOf(k) \in Items)
  BY DEF Items
<1>5. ASSUME NEW x \in Items  PROVE x.report \in BOOLEAN /\ (~x.report => x.id \in Ids /\ x = RecordOf(x.id))
                                                        /\ (x.report => x.id \in Kinds /\ x = ReportOf(x.id))
  <2>1. CASE \E id \in Ids : x = RecordOf(id)
    BY <2>1, <1>1
  <2>2. CASE \E k \in Kinds : x = ReportOf(k)
    BY <2>2, <1>2
  <2> QED  BY <1>3, <2>1, <2>2
<1> QED  BY <1>1, <1>2, <1>4, <1>5

LEMMA IdsAre == Ids \subseteq Nat \ {0} /\ Kinds = {1, 2, 3}
BY ServiceBoundsAssumption DEF Ids, Kinds

LEMMA InStoreIs ==
  ASSUME TypeInv, NEW id  PROVE InStore(id) <=> InTheStore(id)
BY DEF InStore, InTheStore, RecordIds

LEMMA InSlotIs ==
  ASSUME TypeInv, SlotInv, NEW id \in Ids  PROVE InSlot(id) <=> id \in HeldIds
BY ItemsAre DEF TypeInv, SlotInv, InSlot, HeldIds, RecordOf

LEMMA HeldIdsType == TypeInv /\ SlotInv => HeldIds \subseteq Ids
BY ItemsAre DEF TypeInv, SlotInv, HeldIds

LEMMA StoreType ==
  ASSUME TypeInv
  PROVE  \A i \in DOMAIN store : store[i] \in Items /\ (~store[i].report => store[i].id \in Ids)
BY ItemsAre DEF TypeInv

\* What Lost makes of the records.
LEMMA LostIs ==
  ASSUME TypeInv, NEW ids, Lost(ids)
  PROVE  /\ fate' \in [Ids -> {"new", "live", "settled"}]
         /\ \A id \in Ids : /\ fate'[id] = "new" <=> fate[id] = "new"
                            /\ fate'[id] = "live" <=> fate[id] = "live" /\ id \notin ids
BY DEF TypeInv, Lost

-----------------------------------------------------------------------------
(* How a step may move the records *)

\* The records stay where they are.
LEMMA RecordsStay ==
  ASSUME RecordsInv, UNCHANGED <<store, buffer, fate, lastSent>>, HeldIds' = HeldIds
  PROVE  RecordsInv'
<1>1. OrderInv' /\ LogInv' /\ SentInv'
  BY DEF RecordsInv, OrderInv, LogInv, SentInv
<1>2. PlaceInv'
  BY DEF RecordsInv, PlaceInv, InBuffer, InTheStore
<1> QED  BY <1>1, <1>2 DEF RecordsInv

\* Some of the slot's and the store's records leave, and those that leave are
\* settled.
LEMMA PlacesLeave ==
  ASSUME RecordsInv, UNCHANGED buffer, HeldIds' \subseteq HeldIds,
         TypeInv, HeldIds \subseteq Ids,
         store' = store \/ store' = <<>>,
         fate' \in [Ids -> {"new", "live", "settled"}],
         \A id \in Ids : fate'[id] = "new" <=> fate[id] = "new",
         \A id \in Ids : fate'[id] = "live" => fate[id] = "live",
         \A id \in Ids : fate'[id] = "live" /\ id \in HeldIds => id \in HeldIds',
         \A id \in Ids : fate'[id] = "live" /\ InTheStore(id) => store' = store
  PROVE  OrderInv' /\ LogInv' /\ PlaceInv'
<1>1. OrderInv'
  <2>1. \A i \in DOMAIN store' : i \in DOMAIN store /\ store'[i] = store[i]
    BY DEF TypeInv
  <2>2. \A i \in DOMAIN store' : ~store'[i].report => store'[i].id \in Ids
    BY <2>1, StoreType
  <2>3. \A j \in DOMAIN buffer : buffer[j] \in Ids
    BY DEF TypeInv
  <2>4. \A i \in DOMAIN store' : ~store'[i].report =>
          /\ fate'[store'[i].id] # "new"
          /\ \A id \in HeldIds' : store'[i].id < id
          /\ \A j \in DOMAIN buffer : store'[i].id < buffer[j]
    BY <2>1, <2>2 DEF RecordsInv, OrderInv
  <2>5. \A id \in HeldIds' : fate'[id] # "new" /\ \A j \in DOMAIN buffer : id < buffer[j]
    BY DEF RecordsInv, OrderInv
  <2>6. \A j \in DOMAIN buffer : fate'[buffer[j]] # "new"
    BY <2>3 DEF RecordsInv, OrderInv
  <2>7. \A i, j \in DOMAIN store' : i < j /\ ~store'[i].report /\ ~store'[j].report => store'[i].id < store'[j].id
    BY <2>1 DEF RecordsInv, OrderInv
  <2> QED  BY <2>4, <2>5, <2>6, <2>7 DEF RecordsInv, OrderInv
<1>2. LogInv'
  BY DEF RecordsInv, LogInv
<1>3. PlaceInv'
  <2> SUFFICES ASSUME NEW id \in Ids, fate'[id] = "live"
               PROVE  InBuffer(id)' \/ id \in HeldIds' \/ InTheStore(id)'
    BY DEF PlaceInv
  <2>1. InBuffer(id) \/ id \in HeldIds \/ InTheStore(id)
    BY DEF RecordsInv, PlaceInv
  <2>2. InBuffer(id) => InBuffer(id)'
    BY DEF InBuffer
  <2>3. InTheStore(id) => InTheStore(id)'
    BY DEF InTheStore
  <2> QED  BY <2>1, <2>2, <2>3
<1> QED  BY <1>1, <1>2, <1>3

LEMMA SentStays ==
  ASSUME RecordsInv, TypeInv, UNCHANGED lastSent,
         fate' \in [Ids -> {"new", "live", "settled"}],
         \A id \in Ids : fate'[id] = "new" => fate[id] = "new",
         \A id \in Ids : fate'[id] = "live" => fate[id] \in {"new", "live"}
  PROVE  SentInv'
BY DEF RecordsInv, SentInv

\* The oldest record is sent.
LEMMA OldestSent ==
  ASSUME RecordsInv, TypeInv, NEW r \in Ids, fate[r] # "new", \A id \in Ids : fate[id] = "live" => id >= r,
         fate' \in [Ids -> {"new", "live", "settled"}], fate'[r] = "settled", lastSent' = r,
         \A id \in Ids : fate[id] = "settled" => fate'[id] = "settled"
  PROVE  SentInv'
<1> SUFFICES ASSUME NEW id \in Ids, id < r  PROVE fate[id] = "settled"
  BY IdsAre DEF SentInv
<1>1. fate[id] # "new"
  BY DEF RecordsInv, LogInv
<1>2. fate[id] # "live"
  BY IdsAre
<1> QED  BY <1>1, <1>2 DEF TypeInv

\* The store's oldest item leaves it, and is settled.
LEMMA PlacesMarked ==
  ASSUME RecordsInv, TypeInv, UNCHANGED buffer, HeldIds = {}, HeldIds' = {}, store # <<>>, store' = Tail(store),
         fate' \in [Ids -> {"new", "live", "settled"}],
         \A id \in Ids : fate'[id] = "new" <=> fate[id] = "new",
         \A id \in Ids : fate'[id] = "live" => fate[id] = "live" /\ ~(~Head(store).report /\ id = Head(store).id)
  PROVE  OrderInv' /\ LogInv' /\ PlaceInv'
<1>0. /\ Head(store) = store[1] /\ DOMAIN store \subseteq Nat \ {0}
      /\ \A i \in DOMAIN store' : i \in Nat /\ i + 1 \in DOMAIN store /\ store'[i] = store[i + 1]
      /\ \A i \in DOMAIN store \ {1} : i - 1 \in DOMAIN store' /\ store'[i - 1] = store[i]
  BY DEF TypeInv
<1>a. (\A i \in DOMAIN store' : ~store'[i].report => store'[i].id \in Ids) /\ \A j \in DOMAIN buffer : buffer[j] \in Ids
  BY <1>0, StoreType DEF TypeInv
<1>1. OrderInv'
  <2>1. \A i, j \in DOMAIN store' : i < j /\ ~store'[i].report /\ ~store'[j].report => store'[i].id < store'[j].id
    BY <1>0 DEF RecordsInv, OrderInv
  <2>2. \A i \in DOMAIN store' : ~store'[i].report =>
          fate'[store'[i].id] # "new" /\ \A j \in DOMAIN buffer : store'[i].id < buffer[j]
    BY <1>0, <1>a DEF RecordsInv, OrderInv
  <2>3. \A j \in DOMAIN buffer : fate'[buffer[j]] # "new"
    BY <1>a DEF RecordsInv, OrderInv
  <2> QED  BY <2>1, <2>2, <2>3 DEF RecordsInv, OrderInv
<1>2. LogInv'
  BY DEF RecordsInv, LogInv
<1>3. PlaceInv'
  <2> SUFFICES ASSUME NEW id \in Ids, fate'[id] = "live"
               PROVE  InBuffer(id)' \/ InTheStore(id)'
    BY DEF PlaceInv
  <2>1. InBuffer(id) \/ InTheStore(id)
    BY DEF RecordsInv, PlaceInv
  <2>2. InBuffer(id) => InBuffer(id)'
    BY DEF InBuffer
  <2>3. ASSUME NEW i \in DOMAIN store, ~store[i].report, store[i].id = id  PROVE InTheStore(id)'
    <3>1. i - 1 \in DOMAIN store' /\ store'[i - 1] = store[i]
      BY <1>0, <2>3
    <3> QED  BY <2>3, <3>1 DEF InTheStore
  <2> QED  BY <2>1, <2>2, <2>3 DEF InTheStore
<1> QED  BY <1>1, <1>2, <1>3

\* The buffer's oldest record goes to the empty slot.
LEMMA RecordsHeld ==
  ASSUME RecordsInv, TypeInv, UNCHANGED <<store, fate, lastSent>>,
         HeldIds = {}, buffer # <<>>, HeldIds' = {Head(buffer)}, buffer' = Tail(buffer)
  PROVE  RecordsInv'
<1>0. /\ buffer \in Seq(Ids) /\ Head(buffer) \in Ids /\ 1 \in DOMAIN buffer /\ Head(buffer) = buffer[1]
      /\ \A j \in DOMAIN buffer' : j + 1 \in DOMAIN buffer /\ buffer'[j] = buffer[j + 1] /\ 1 < j + 1
      /\ \A j \in DOMAIN buffer \ {1} : j - 1 \in DOMAIN buffer' /\ buffer'[j - 1] = buffer[j]
      /\ DOMAIN buffer' \subseteq Nat
  BY DEF TypeInv
<1>1. OrderInv'
  BY <1>0 DEF RecordsInv, OrderInv
<1>2. LogInv' /\ SentInv'
  BY DEF RecordsInv, LogInv, SentInv
<1>3. PlaceInv'
  <2> SUFFICES ASSUME NEW id \in Ids, fate[id] = "live"
               PROVE  InBuffer(id)' \/ id \in HeldIds' \/ InTheStore(id)'
    BY DEF PlaceInv
  <2>1. InBuffer(id) \/ InTheStore(id)
    BY DEF RecordsInv, PlaceInv
  <2>2. InBuffer(id) => InBuffer(id)' \/ id \in HeldIds'
    <3> SUFFICES ASSUME NEW i \in DOMAIN buffer, buffer[i] = id, i # 1
                 PROVE  \E j \in DOMAIN buffer' : buffer'[j] = id
      BY <1>0 DEF InBuffer
    <3>1. i - 1 \in DOMAIN buffer' /\ buffer'[i - 1] = id
      BY <1>0
    <3> QED  BY <3>1
  <2>3. InTheStore(id) => InTheStore(id)'
    BY DEF InTheStore
  <2> QED  BY <2>1, <2>2, <2>3
<1> QED  BY <1>1, <1>2, <1>3 DEF RecordsInv

\* The store after an item was appended, with its oldest given up (s = 1) or not.
Appended(n, s, x) ==
  /\ DOMAIN store = 1..Len(store) /\ Len(store) \in Nat /\ n \in Nat \ {0} /\ n = Len(store) + 1 - s
  /\ DOMAIN store' = 1..n
  /\ \A i \in 1..n - 1 : i + s \in DOMAIN store /\ store'[i] = store[i + s]
  /\ store'[n] = x

LEMMA AppendAppends ==
  ASSUME TypeInv, NEW x \in Items, NEW full \in BOOLEAN, full => store # <<>>,
         store' = Append(IF full THEN Tail(store) ELSE store, x)
  PROVE  IF full THEN Appended(Len(store), 1, x) ELSE Appended(Len(store) + 1, 0, x)
BY DEF TypeInv, Appended

\* An item goes to the end of the store, the slot's record or a report; where
\* there is no room the oldest item makes some, and is settled.
LEMMA RecordsKept ==
  ASSUME RecordsInv, TypeInv, UNCHANGED <<buffer, lastSent>>,
         NEW x \in Items, HeldIds = (IF x.report THEN {} ELSE {x.id}), HeldIds' = {},
         NEW s \in {0, 1}, NEW n, Appended(n, s, x),
         fate' \in [Ids -> {"new", "live", "settled"}],
         \A id \in Ids : fate'[id] = "new" <=> fate[id] = "new",
         \A id \in Ids : fate'[id] = "live" => fate[id] = "live" /\ ~(s = 1 /\ ~store[1].report /\ id = store[1].id)
  PROVE  RecordsInv'
<1>0. /\ DOMAIN store = 1..Len(store) /\ Len(store) \in Nat /\ n \in Nat \ {0} /\ n = Len(store) + 1 - s
      /\ DOMAIN store' = 1..n
      /\ \A i \in 1..n - 1 : i + s \in DOMAIN store /\ store'[i] = store[i + s]
      /\ store'[n] = x
  BY DEF Appended
<1>a. (~x.report => x.id \in Ids) /\ \A j \in DOMAIN buffer : buffer[j] \in Ids
  BY ItemsAre DEF TypeInv
<1>1. OrderInv'
  <2>1. \A i, j \in 1..n : i < j /\ ~store'[i].report /\ ~store'[j].report => store'[i].id < store'[j].id
    <3> TAKE i, j \in 1..n
    <3> HAVE i < j /\ ~store'[i].report /\ ~store'[j].report
    <3>1. i \in 1..n - 1 /\ i + s \in DOMAIN store /\ store'[i] = store[i + s]
      BY <1>0
    <3>2. CASE j = n
      BY <1>0, <3>1, <3>2 DEF RecordsInv, OrderInv
    <3>3. CASE j # n
      <4>1. j + s \in DOMAIN store /\ store'[j] = store[j + s] /\ i + s < j + s
        BY <1>0, <3>1, <3>3
      <4> QED  BY <3>1, <4>1 DEF RecordsInv, OrderInv
    <3> QED  BY <3>2, <3>3
  <2>2. \A i \in 1..n : ~store'[i].report =>
          fate'[store'[i].id] # "new" /\ \A j \in DOMAIN buffer : store'[i].id < buffer[j]
    <3> TAKE i \in 1..n
    <3> HAVE ~store'[i].report
    <3>1. CASE i = n
      BY <1>0, <1>a, <3>1 DEF RecordsInv, OrderInv
    <3>2. CASE i # n
      <4>1. i + s \in DOMAIN store /\ store'[i] = store[i + s]
        BY <1>0, <3>2
      <4> QED  BY <4>1, StoreType DEF RecordsInv, OrderInv
    <3> QED  BY <3>1, <3>2
  <2>3. \A j \in DOMAIN buffer : fate'[buffer[j]] # "new"
    BY <1>a DEF RecordsInv, OrderInv
  <2> QED  BY <1>0, <2>1, <2>2, <2>3 DEF RecordsInv, OrderInv
<1>2. LogInv' /\ SentInv'
  BY DEF RecordsInv, LogInv, SentInv
<1>3. PlaceInv'
  <2> SUFFICES ASSUME NEW id \in Ids, fate'[id] = "live"
               PROVE  InBuffer(id)' \/ InTheStore(id)'
    BY DEF PlaceInv
  <2>1. InBuffer(id) \/ id \in HeldIds \/ InTheStore(id)
    BY DEF RecordsInv, PlaceInv
  <2>2. InBuffer(id) => InBuffer(id)'
    BY DEF InBuffer
  <2>3. ASSUME NEW i \in DOMAIN store, ~store[i].report, store[i].id = id  PROVE InTheStore(id)'
    <3>1. i > s
      BY <1>0, <2>3
    <3>2. i - s \in 1..n - 1
      BY <1>0, <3>1
    <3>3. i - s \in DOMAIN store' /\ store'[i - s] = store[i]
      BY <1>0, <3>2
    <3> QED  BY <2>3, <3>3 DEF InTheStore
  <2>4. id \in HeldIds => InTheStore(id)'
    <3>1. n \in DOMAIN store'
      BY <1>0
    <3> QED  BY <1>0, <3>1 DEF InTheStore
  <2> QED  BY <2>1, <2>2, <2>3, <2>4 DEF InTheStore
<1> QED  BY <1>1, <1>2, <1>3 DEF RecordsInv

\* A record is logged: it is younger than all before it.
LEMMA NewIsYoungest ==
  ASSUME RecordsInv, TypeInv, NEW id \in Ids, fate[id] = "new"
  PROVE  \A x \in Ids : fate[x] # "new" => x < id
BY IdsAre DEF RecordsInv, LogInv

\* The buffer after a record was appended, with its oldest given up or not.
Buffered(n, s, id) ==
  /\ DOMAIN buffer = 1..Len(buffer) /\ Len(buffer) \in Nat /\ n \in Nat \ {0} /\ n = Len(buffer) + 1 - s
  /\ DOMAIN buffer' = 1..n
  /\ \A i \in 1..n - 1 : i + s \in DOMAIN buffer /\ buffer'[i] = buffer[i + s]
  /\ buffer'[n] = id

LEMMA AppendBuffers ==
  ASSUME TypeInv, NEW id \in Ids
  PROVE  /\ buffer' = Append(buffer, id) => Buffered(Len(buffer) + 1, 0, id)
         /\ buffer # <<>> /\ buffer' = Append(Tail(buffer), id) => Buffered(Len(buffer), 1, id)
<1>1. buffer \in Seq(Ids) /\ Len(buffer) \in Nat /\ DOMAIN buffer = 1..Len(buffer)
  BY DEF TypeInv
<1>2. ASSUME buffer' = Append(buffer, id)  PROVE Buffered(Len(buffer) + 1, 0, id)
  BY <1>1, <1>2 DEF Buffered
<1>3. ASSUME buffer # <<>>, buffer' = Append(Tail(buffer), id)  PROVE Buffered(Len(buffer), 1, id)
  <2>1. /\ Tail(buffer) \in Seq(Ids) /\ Len(Tail(buffer)) = Len(buffer) - 1 /\ Len(buffer) > 0
        /\ \A i \in 1..Len(buffer) - 1 : Tail(buffer)[i] = buffer[i + 1]
    BY <1>1, <1>3
  <2>2. /\ DOMAIN buffer' = 1..Len(buffer) /\ buffer'[Len(buffer)] = id
        /\ \A i \in 1..Len(buffer) - 1 : buffer'[i] = Tail(buffer)[i]
    BY <1>1, <1>3, <2>1
  <2> QED  BY <1>1, <2>1, <2>2 DEF Buffered
<1> QED  BY <1>2, <1>3

LEMMA RecordsBuffered ==
  ASSUME RecordsInv, TypeInv, NEW id \in Ids, fate[id] = "new", \A i \in Ids : i < id => fate[i] # "new",
         UNCHANGED <<store, lastSent>>, HeldIds' = HeldIds, HeldIds \subseteq Ids,
         NEW s \in {0, 1}, NEW n, Buffered(n, s, id),
         fate' \in [Ids -> {"new", "live", "settled"}], fate'[id] = "live",
         \A i \in Ids \ {id} : fate'[i] = "new" <=> fate[i] = "new",
         \A i \in Ids \ {id} : fate'[i] = "live" => fate[i] = "live" /\ ~(s = 1 /\ i = buffer[1])
  PROVE  RecordsInv'
<1>0. /\ DOMAIN buffer = 1..Len(buffer) /\ Len(buffer) \in Nat /\ n \in Nat \ {0} /\ n = Len(buffer) + 1 - s
      /\ DOMAIN buffer' = 1..n
      /\ \A i \in 1..n - 1 : i + s \in DOMAIN buffer /\ buffer'[i] = buffer[i + s]
      /\ buffer'[n] = id
  BY DEF Buffered
<1>a. \A j \in DOMAIN buffer : buffer[j] \in Ids /\ fate[buffer[j]] # "new"
  BY DEF TypeInv, RecordsInv, OrderInv
<1>b. /\ fate' \in [Ids -> {"new", "live", "settled"}] /\ fate'[id] = "live"
      /\ \A i \in Ids \ {id} : fate'[i] = "new" => fate[i] = "new"
      /\ \A i \in Ids \ {id} : fate[i] = "new" => fate'[i] = "new"
      /\ \A i \in Ids \ {id} : fate'[i] = "live" => fate[i] = "live" /\ ~(s = 1 /\ i = buffer[1])
  OBVIOUS
<1>c. \A x \in Ids : fate[x] # "new" => x < id /\ fate'[x] # "new"
  BY <1>b, NewIsYoungest
<1>1. OrderInv'
  <2>1. \A j \in 1..n : buffer'[j] = id \/ \E k \in DOMAIN buffer : buffer'[j] = buffer[k]
    <3> TAKE j \in 1..n
    <3>1. n \in Nat
      BY <1>0
    <3>2. j = n \/ j \in 1..n - 1
      BY <3>1
    <3> QED  BY <1>0, <3>2
  <2>2. \A i, j \in 1..n : i < j => buffer'[i] < buffer'[j]
    <3> TAKE i, j \in 1..n
    <3> HAVE i < j
    <3>1. i \in 1..n - 1 /\ i + s \in DOMAIN buffer /\ buffer'[i] = buffer[i + s]
      BY <1>0
    <3>2. CASE j = n
      BY <1>0, <1>a, <1>c, <3>1, <3>2
    <3>3. CASE j # n
      <4>0. j \in 1..n - 1
        <5>1. n \in Nat
          BY <1>0
        <5> QED  BY <3>3, <5>1
      <4>1. j + s \in DOMAIN buffer /\ buffer'[j] = buffer[j + s] /\ i + s < j + s
        BY <1>0, <3>1, <4>0
      <4> QED  BY <3>1, <4>1 DEF RecordsInv, OrderInv
    <3> QED  BY <3>2, <3>3
  <2>3. \A i \in DOMAIN store : ~store[i].report =>
          /\ fate'[store[i].id] # "new"
          /\ \A x \in HeldIds : store[i].id < x
          /\ \A j \in 1..n : store[i].id < buffer'[j]
    BY <1>c, <2>1, StoreType DEF RecordsInv, OrderInv
  <2>4. \A x \in HeldIds : fate'[x] # "new" /\ \A j \in 1..n : x < buffer'[j]
    BY <1>c, <2>1 DEF RecordsInv, OrderInv
  <2>5. \A j \in 1..n : fate'[buffer'[j]] # "new"
    BY <1>a, <1>b, <1>c, <2>1
  <2>6. \A i, j \in DOMAIN store : i < j /\ ~store[i].report /\ ~store[j].report => store[i].id < store[j].id
    BY DEF RecordsInv, OrderInv
  <2> QED  BY <1>0, <2>2, <2>3, <2>4, <2>5, <2>6 DEF OrderInv
<1>2. LogInv'
  <2> SUFFICES ASSUME NEW i \in Ids, NEW j \in Ids, i < j, fate'[i] = "new"  PROVE fate'[j] = "new"
    BY DEF LogInv
  <2>1. i # id /\ fate[i] = "new" /\ fate[j] = "new"
    BY <1>b DEF RecordsInv, LogInv
  <2>2. j # id
    BY <2>1
  <2> QED  BY <1>b, <2>1, <2>2
<1>3. SentInv'
  <2> SUFFICES ASSUME NEW x \in Ids, x <= lastSent  PROVE fate'[x] = "settled"
    BY DEF SentInv
  <2>1. fate[x] = "settled" /\ x # id
    BY DEF RecordsInv, SentInv
  <2> QED  BY <1>b, <2>1
<1>4. PlaceInv'
  <2> SUFFICES ASSUME NEW x \in Ids, fate'[x] = "live"
               PROVE  InBuffer(x)' \/ x \in HeldIds' \/ InTheStore(x)'
    BY DEF PlaceInv
  <2>1. CASE x = id
    <3>1. n \in DOMAIN buffer' /\ buffer'[n] = x
      BY <1>0, <2>1
    <3> QED  BY <3>1 DEF InBuffer
  <2>2. CASE x # id
    <3>1. fate[x] = "live" /\ ~(s = 1 /\ x = buffer[1])
      BY <1>b, <2>2
    <3>2. InBuffer(x) \/ x \in HeldIds \/ InTheStore(x)
      BY <3>1 DEF RecordsInv, PlaceInv
    <3>3. InTheStore(x) => InTheStore(x)'
      BY DEF InTheStore
    <3>4. ASSUME NEW i \in DOMAIN buffer, buffer[i] = x  PROVE InBuffer(x)'
      <4>1. i > s
        BY <1>0, <3>1, <3>4
      <4>2. i - s \in 1..n - 1
        BY <1>0, <4>1
      <4>3. i - s \in DOMAIN buffer' /\ buffer'[i - s] = x
        BY <1>0, <3>4, <4>2
      <4> QED  BY <4>3 DEF InBuffer
    <3> QED  BY <3>2, <3>3, <3>4 DEF InBuffer
  <2> QED  BY <2>1, <2>2
<1> QED  BY <1>1, <1>2, <1>3, <1>4 DEF RecordsInv

\* A record the buffer refuses is settled as it is logged.
LEMMA RecordsRefused ==
  ASSUME RecordsInv, TypeInv, NEW id \in Ids, fate[id] = "new", \A i \in Ids : i < id => fate[i] # "new",
         UNCHANGED <<store, buffer, lastSent>>, HeldIds' = HeldIds, HeldIds \subseteq Ids,
         fate' = [fate EXCEPT ![id] = "settled"]
  PROVE  RecordsInv'
<1>1. /\ fate'[id] = "settled" /\ \A i \in Ids \ {id} : fate'[i] = fate[i]
      /\ \A i \in Ids : fate[i] # "new" => fate'[i] # "new"
  BY DEF TypeInv
<1>2. OrderInv'
  BY <1>1, StoreType DEF RecordsInv, OrderInv, TypeInv
<1>3. LogInv'
  BY <1>1, IdsAre DEF RecordsInv, LogInv
<1>4. SentInv'
  BY <1>1 DEF RecordsInv, SentInv
<1>5. PlaceInv'
  BY <1>1 DEF RecordsInv, PlaceInv, InBuffer, InTheStore
<1> QED  BY <1>2, <1>3, <1>4, <1>5 DEF RecordsInv

LEMMA RecordsLogged ==
  ASSUME RecordsInv, TypeInv, SlotInv, NEW id \in Ids, NEW policy, Log(id, policy)
  PROVE  RecordsInv'
<1>0. /\ fate[id] = "new" /\ \A i \in Ids : i < id => fate[i] # "new"
      /\ UNCHANGED <<store, lastSent>> /\ HeldIds' = HeldIds /\ HeldIds \subseteq Ids
  BY IdsAre, HeldIdsType DEF Log, slot, stores, HeldIds, Ids
<1>1. CASE buffer' = Append(buffer, id) /\ fate' = [fate EXCEPT ![id] = "live"]
  <2>1. PICK n : Buffered(n, 0, id)
    BY <1>1, AppendBuffers
  <2>2. /\ fate' \in [Ids -> {"new", "live", "settled"}] /\ fate'[id] = "live"
        /\ \A i \in Ids \ {id} : fate'[i] = fate[i]
    BY <1>1 DEF TypeInv
  <2> QED  BY <1>0, <2>1, <2>2, RecordsBuffered
<1>2. CASE /\ Len(buffer) = BufferCapacity /\ buffer' = Append(Tail(buffer), id)
           /\ fate' = [fate EXCEPT ![id] = "live", ![Head(buffer)] = "settled"]
  <2>1. buffer # <<>> /\ Head(buffer) = buffer[1] /\ 1 \in DOMAIN buffer /\ buffer[1] \in Ids
    BY <1>2, ServiceBoundsAssumption DEF TypeInv
  <2>2. buffer[1] # id
    BY <1>0, <2>1 DEF RecordsInv, OrderInv
  <2>3. Buffered(Len(buffer), 1, id)
    BY <1>2, <2>1, AppendBuffers
  <2>4. /\ fate' \in [Ids -> {"new", "live", "settled"}] /\ fate'[id] = "live" /\ fate'[buffer[1]] = "settled"
        /\ fate[buffer[1]] # "new"
        /\ \A i \in Ids \ {id, buffer[1]} : fate'[i] = fate[i]
    BY <1>2, <2>1, <2>2 DEF TypeInv, RecordsInv, OrderInv
  <2>5. /\ \A i \in Ids \ {id} : fate'[i] = "new" <=> fate[i] = "new"
        /\ \A i \in Ids \ {id} : fate'[i] = "live" => fate[i] = "live" /\ ~(1 = 1 /\ i = buffer[1])
    BY <2>1, <2>2, <2>4
  <2> QED  BY <1>0, <2>3, <2>4, <2>5, RecordsBuffered
<1>3. CASE UNCHANGED buffer /\ fate' = [fate EXCEPT ![id] = "settled"]
  BY <1>0, <1>3, RecordsRefused
<1> QED  BY <1>1, <1>2, <1>3 DEF Log

-----------------------------------------------------------------------------
(* A pass *)

\* DealWithHeldRecord ends: with the slot kept, or emptied and its record, if it
\* held one, dealt with.
LEMMA DealtControl ==
  ASSUME TypeInv, SlotInv, EventsKept, HoldsRecord, NEW holds \in BOOLEAN, Dealt(holds),
         Halted' \in BOOLEAN, pending' \subseteq Kinds, pending \subseteq pending', due' \subseteq Kinds,
         due' \subseteq pending' \cup (IF HeldRecordIsReport /\ holds THEN {Record.id} ELSE {}),
         store' \in Seq(Items), Len(store') <= StoreCapacity, transient' \in BOOLEAN, transient' => store' = <<>>,
         fate' \in [Ids -> {"new", "live", "settled"}], lastSent' \in {0} \cup Ids
  PROVE  ControlInv'
<1>1. TypeInv'
  BY DEF TypeInv, Dealt, Places, pass, buffers
<1>2. SlotInv'
  BY DEF TypeInv, SlotInv, Dealt
<1>3. EventsKept'
  BY DEF EventsKept, Dealt
<1> QED  BY <1>1, <1>2, <1>3 DEF ControlInv

LEMMA InitIInv == Init => IInv
<1> SUFFICES ASSUME Init  PROVE IInv
  OBVIOUS
<1>1. TypeInv
  <2>1. Len(<<>>) <= BufferCapacity /\ Len(<<>>) <= StoreCapacity
    BY ServiceBoundsAssumption
  <2>2. fate \in [Ids -> {"new", "live", "settled"}] /\ <<>> \in Seq(Ids) /\ <<>> \in Seq(Items)
    BY DEF Init
  <2>3. Record \in Items \cup {NoItem} /\ pc \in Places /\ index \in 1..4
    BY DEF Init, Places
  <2>4. pending \subseteq Kinds /\ due \subseteq Kinds /\ lastSent \in {0} \cup Ids
    BY DEF Init
  <2> QED  BY <2>1, <2>2, <2>3, <2>4 DEF Init, TypeInv
<1>a. SlotInv /\ EventsKept
  BY DEF Init, SlotInv, EventsKept
<1>2. RecordsInv
  BY IdsAre DEF Init, RecordsInv, OrderInv, LogInv, SentInv, PlaceInv, HeldIds
<1> QED  BY <1>1, <1>a, <1>2 DEF IInv, ControlInv

LEMMA LogIInv ==
  ASSUME IInv, NEW id \in Ids, NEW policy, Log(id, policy)
  PROVE  IInv'
<1> USE DEF IInv, ControlInv
<1>1. RecordsInv'
  BY RecordsLogged
<1>2. buffer' \in Seq(Ids) /\ Len(buffer') <= BufferCapacity /\ fate' \in [Ids -> {"new", "live", "settled"}]
  <2>1. CASE Len(buffer) < BufferCapacity /\ buffer' = Append(buffer, id) /\ fate' = [fate EXCEPT ![id] = "live"]
    BY <2>1, ServiceBoundsAssumption DEF TypeInv
  <2>2. CASE /\ Len(buffer) = BufferCapacity /\ buffer' = Append(Tail(buffer), id)
             /\ fate' = [fate EXCEPT ![id] = "live", ![Head(buffer)] = "settled"]
    <3>1. buffer # <<>> /\ Tail(buffer) \in Seq(Ids) /\ Len(Tail(buffer)) = Len(buffer) - 1
      BY <2>2, ServiceBoundsAssumption DEF TypeInv
    <3> QED  BY <2>2, <3>1, ServiceBoundsAssumption DEF TypeInv
  <2>3. CASE UNCHANGED buffer /\ fate' = [fate EXCEPT ![id] = "settled"]
    BY <2>3 DEF TypeInv
  <2> QED  BY <2>1, <2>2, <2>3 DEF Log
<1>3. TypeInv' /\ SlotInv' /\ EventsKept'
  BY <1>2 DEF TypeInv, SlotInv, EventsKept, Log, slot, latches, pass, stores
<1> QED  BY <1>1, <1>3

\* Steps that move no record and raise no event.
LEMMA QuietIInv ==
  ASSUME IInv, \/ \E reports \in BOOLEAN : LogReturns(reports)
               \/ \E policy \in Policies : BeginPass(policy)
               \/ \E policy \in Policies : StoreRefuses(policy)
               \/ \E ok \in BOOLEAN : ReportIfPending(ok) \/ TakeNextFromStore(ok)
               \/ NothingHeld \/ EndPass \/ Settle \/ UNCHANGED vars
  PROVE  IInv'
<1> USE DEF IInv, ControlInv
<1> DEFINE Quiet == UNCHANGED <<store, buffer, fate, lastSent>> /\ HeldIds' = HeldIds /\ TypeInv' /\ SlotInv' /\ EventsKept'
<1>1. Quiet
  <2> USE DEF slot, latches, pass, loop, buffers, stores, HeldIds, TypeInv, SlotInv, EventsKept, Places
  <2>1. ASSUME NEW reports \in BOOLEAN, LogReturns(reports)  PROVE Quiet
    <3>1. UNCHANGED <<slot, latches, Halted, pc, pass, buffer, stores, fate, lastSent>>
      BY <2>1 DEF LogReturns
    <3>2. CASE reports
      <4>1. /\ pending' = pending \cup {BUFFER_RECORDS_LOST} /\ due' = due \cup {BUFFER_RECORDS_LOST}
            /\ BUFFER_RECORDS_LOST \in Kinds
        BY <2>1, <3>2, IdsAre DEF LogReturns, Raise, BUFFER_RECORDS_LOST
      <4> QED  BY <3>1, <4>1
    <3>3. CASE ~reports
      BY <2>1, <3>1, <3>3 DEF LogReturns
    <3> QED  BY <3>2, <3>3
  <2>2. ASSUME NEW policy \in Policies, BeginPass(policy)  PROVE Quiet
    BY <2>2 DEF BeginPass
  <2>3. ASSUME NEW policy \in Policies, StoreRefuses(policy)  PROVE Quiet
    BY <2>3 DEF StoreRefuses, RunStarted, Raise, Kinds, STORE_TROUBLE
  <2>4. ASSUME NEW on \in BOOLEAN, ReportIfPending(on)  PROVE Quiet
    <3>0. /\ pc = "walk" /\ ~HoldsRecord
          /\ UNCHANGED <<HeldRecordLossReported, Halted, buffers, stores, fate, due, lastSent>>
          /\ ReportTurnedDown \in BOOLEAN
      BY <2>4 DEF ReportIfPending
    <3> DEFINE Walks == /\ pc' = "hold" \/ pc' = pc
                        /\ index' = index \/ (index \in Kinds /\ index' = index + 1)
                        /\ ReportTurnedDown' \in BOOLEAN
                        /\ UNCHANGED <<slot, pending>>
    <3>1. CASE Walks
      BY <3>0, <3>1, IdsAre
    <3> DEFINE Held == /\ index \in Kinds \cap pending
                       /\ ReportTurnedDown' = FALSE
                       /\ pending' = pending \ {index}
                       /\ HoldsRecord' = TRUE /\ HeldRecordIsReport' = TRUE /\ Record' = ReportOf(index)
                       /\ index' = index + 1
                       /\ pc' = "deal"
    <3>2. CASE Held
      <4>1. index' \in 1..4 /\ ReportOf(index) \in Items /\ ReportOf(index).report = TRUE /\ ReportOf(index).id = index
        BY <3>2, ItemsAre, IdsAre
      <4>2. HeldIds' = HeldIds
        BY <3>0, <3>2, <4>1
      <4>3. TypeInv'
        BY <3>0, <3>2, <4>1
      <4>4. SlotInv'
        BY <3>2, <4>1
      <4>5. EventsKept'
        BY <3>0, <3>2, <4>1
      <4> QED  BY <3>0, <4>2, <4>3, <4>4, <4>5
    <3>3. Walks \/ Held
      <4>1. CASE pc' = "hold" /\ UNCHANGED <<slot, index, ReportTurnedDown, pending>>
        BY <3>0, <4>1
      <4>2. CASE index \in Kinds /\ index' = index + 1 /\ UNCHANGED <<slot, pc, ReportTurnedDown, pending>>
        BY <3>0, <4>2
      <4>3. CASE ReportTurnedDown' = TRUE /\ pc' = "hold" /\ UNCHANGED <<slot, index, pending>>
        BY <3>0, <4>3
      <4> HIDE DEF Walks
      <4> QED  BY <2>4, <4>1, <4>2, <4>3 DEF ReportIfPending
    <3> QED  BY <3>1, <3>2, <3>3
  <2>5. ASSUME NEW ok \in BOOLEAN, TakeNextFromStore(ok)  PROVE Quiet
    BY <2>5 DEF TakeNextFromStore, HasUnsent
  <2>6. CASE NothingHeld
    BY <2>6 DEF NothingHeld
  <2>7. CASE EndPass
    BY <2>7 DEF EndPass
  <2>8. CASE Settle \/ UNCHANGED vars
    <3>1. UNCHANGED <<slot, latches, Halted, pc, pass, buffer, stores, pending, fate, due, lastSent>>
      BY <2>8 DEF Settle, vars
    <3> QED  BY <3>1
  <2> QED  BY <2>1, <2>2, <2>3, <2>4, <2>5, <2>6, <2>7, <2>8
<1>2. RecordsInv'
  BY <1>1, RecordsStay
<1> QED  BY <1>1, <1>2

\* A record that leaves the slot for nowhere is settled by Lost.
LEMMA HeldLost ==
  ASSUME RecordsInv, TypeInv, SlotInv, UNCHANGED <<store, buffer, lastSent>>, HeldIds' \subseteq HeldIds,
         NEW ids, Lost(ids), HeldIds \ HeldIds' \subseteq ids
  PROVE  RecordsInv' /\ fate' \in [Ids -> {"new", "live", "settled"}]
<1>1. /\ fate' \in [Ids -> {"new", "live", "settled"}] /\ HeldIds \subseteq Ids
      /\ \A id \in Ids : fate'[id] = "new" <=> fate[id] = "new"
      /\ \A id \in Ids : fate'[id] = "live" <=> fate[id] = "live" /\ id \notin ids
  BY LostIs, HeldIdsType
<1>2. OrderInv' /\ LogInv' /\ PlaceInv'
  BY <1>1, PlacesLeave
<1>3. SentInv'
  BY <1>1, SentStays
<1> QED  BY <1>1, <1>2, <1>3 DEF RecordsInv

LEMMA ApplyPolicyIInv ==
  ASSUME IInv, NEW policy \in Policies, ApplyPolicy(policy)
  PROVE  IInv'
<1> USE DEF IInv, ControlInv
<1> DEFINE drops == HoldsRecord /\ bufferFull /\ policy = "OLDEST" /\ ~HeldRecordIsReport
           halts == HoldsRecord /\ bufferFull /\ policy = "HALT"
           raises == (IF drops /\ ~HeldRecordLossReported THEN {BUFFER_RECORDS_LOST} ELSE {})
                       \cup (IF halts THEN {LOGGER_HALTED} ELSE {})
<1>1. /\ pc = "policy" /\ UNCHANGED <<HeldRecordIsReport, ReportTurnedDown, pass, loop, buffers, stores, calm, lastSent>>
      /\ HoldsRecord' = (HoldsRecord /\ ~drops) /\ Record' = IF drops THEN NoItem ELSE Record
      /\ HeldRecordLossReported' = (HeldRecordLossReported \/ drops)
      /\ Halted' = halts /\ pc' = IF halts THEN "take" ELSE "deal"
      /\ pending' = pending \cup raises /\ due' = due \cup raises
      /\ Lost(IF drops THEN {Record.id} ELSE {})
  BY DEF ApplyPolicy, Raise
<1>2. raises \subseteq Kinds
  BY IdsAre DEF BUFFER_RECORDS_LOST, LOGGER_HALTED
<1> HIDE DEF raises
<1>3. HeldIds' \subseteq HeldIds /\ HeldIds \ HeldIds' \subseteq (IF drops THEN {Record.id} ELSE {})
  BY <1>1 DEF HeldIds
<1>4. RecordsInv' /\ fate' \in [Ids -> {"new", "live", "settled"}]
  BY <1>1, <1>3, HeldLost DEF buffers, stores
<1>5. TypeInv'
  BY <1>1, <1>2, <1>4 DEF TypeInv, Places, pass, buffers, stores
<1>6. SlotInv'
  BY <1>1 DEF TypeInv, SlotInv
<1>7. EventsKept'
  BY <1>1 DEF EventsKept, TypeInv
<1> QED  BY <1>4, <1>5, <1>6, <1>7

\* The events raised by the store, and by HaltIfPolicyHalts.
LEMMA RaisedKinds == (\A run : RunStarted(run) \subseteq Kinds) /\ {STORE_TROUBLE, LOGGER_HALTED} \subseteq Kinds
BY IdsAre DEF RunStarted, STORE_TROUBLE, LOGGER_HALTED

LEMMA StoreKeepsIInv ==
  ASSUME IInv, NEW policy \in Policies, StoreKeeps(policy)
  PROVE  IInv'
<1> USE DEF IInv, ControlInv
<1>0. PICK full \in BOOLEAN : full = (Len(store) = StoreCapacity)
  OBVIOUS
<1>1. /\ HoldsRecord /\ ~transient /\ Record \in Items /\ HeldRecordIsReport = Record.report
      /\ store' = Append(IF full THEN Tail(store) ELSE store, Record)
      /\ Lost(IF full THEN RecordIds(<<Head(store)>>) ELSE {})
      /\ pending' = pending \cup (IF full THEN RunStarted("EVICTED") ELSE {})
      /\ Delivered(Record) /\ Dealt(FALSE) /\ UNCHANGED <<Halted, transient, lastSent>>
  BY <1>0 DEF StoreKeeps, SlotInv, TypeInv
<1>2. /\ store \in Seq(Items) /\ Len(store) \in Nat /\ (full => store # <<>>)
      /\ store' \in Seq(Items) /\ Len(store') <= StoreCapacity
  <2>1. CASE full
    <3>1. store \in Seq(Items) /\ Len(store) = StoreCapacity /\ StoreCapacity \in Nat \ {0} /\ store # <<>>
      BY <1>0, <2>1, ServiceBoundsAssumption DEF TypeInv
    <3>2. Tail(store) \in Seq(Items) /\ Len(Tail(store)) = Len(store) - 1
      BY <3>1
    <3> QED  BY <1>1, <2>1, <3>1, <3>2
  <2>2. CASE ~full
    <3>0. Len(store) # StoreCapacity
      BY <1>0, <2>2
    <3>1. store \in Seq(Items) /\ Len(store) < StoreCapacity /\ StoreCapacity \in Nat \ {0}
      BY <3>0, ServiceBoundsAssumption DEF TypeInv
    <3> QED  BY <1>1, <2>2, <3>1
  <2> QED  BY <2>1, <2>2
<1>3. /\ HeldIds = (IF Record.report THEN {} ELSE {Record.id}) /\ HeldIds' = {}
      /\ UNCHANGED buffer
  BY <1>1 DEF HeldIds, Dealt, buffers
<1>4. /\ fate' \in [Ids -> {"new", "live", "settled"}]
      /\ \A id \in Ids : fate'[id] = "new" <=> fate[id] = "new"
      /\ \A id \in Ids : fate'[id] = "live" => fate[id] = "live" /\ (full => ~(~store[1].report /\ id = store[1].id))
  <2>1. full => RecordIds(<<Head(store)>>) = IF store[1].report THEN {} ELSE {store[1].id}
    BY <1>2 DEF RecordIds
  <2> QED  BY <1>1, <2>1, LostIs
<1>5. RecordsInv'
  <2>1. PICK x \in Items : x = Record
    BY <1>1
  <2>2. IF full THEN Appended(Len(store), 1, x) ELSE Appended(Len(store) + 1, 0, x)
    BY <1>1, <1>2, <2>1, AppendAppends
  <2>3. CASE full
    BY <1>1, <1>3, <1>4, <2>1, <2>2, <2>3, RecordsKept
  <2>4. CASE ~full
    <3> PICK n : Appended(n, 0, x)
      BY <2>2, <2>4
    <3> QED  BY <1>1, <1>3, <1>4, <2>1, <2>4, RecordsKept
  <2> QED  BY <2>3, <2>4
<1>6. /\ pending' \subseteq Kinds /\ pending \subseteq pending' /\ due' \subseteq Kinds /\ due' \subseteq pending'
  <2>1. pending' \subseteq Kinds /\ pending \subseteq pending'
    BY <1>1, RaisedKinds DEF TypeInv
  <2>2. due' = (IF Record.report THEN due \ {Record.id} ELSE due) \cup pending'
    BY <1>1 DEF Delivered
  <2> QED  BY <1>1, <2>1, <2>2 DEF TypeInv, EventsKept
<1>7. ControlInv'
  BY <1>1, <1>2, <1>4, <1>6, DealtControl DEF TypeInv
<1> QED  BY <1>5, <1>7

\* A record refused or lost by the store is settled; a report goes to the sender.
LEMMA TurnedAwayIInv ==
  ASSUME IInv, HoldsRecord, pc \in {"deal", "refused"}, NEW ks \in SUBSET Kinds, Raise(ks), Halted' \in BOOLEAN,
         UNCHANGED <<store, transient, lastSent>>,
         Lost(IF HeldRecordIsReport THEN {} ELSE {Record.id}),
         IF HeldRecordIsReport
         THEN Dealt(TRUE) \/ (pc' = "sendHeld" /\ UNCHANGED <<slot, latches, pass, loop, buffers, calm>>)
         ELSE Dealt(FALSE)
  PROVE  IInv'
<1> USE DEF IInv, ControlInv
<1>1. UNCHANGED buffer /\ HeldIds' \subseteq HeldIds
      /\ HeldIds \ HeldIds' \subseteq (IF HeldRecordIsReport THEN {} ELSE {Record.id})
  BY DEF Dealt, buffers, slot, HeldIds, SlotInv
<1>2. RecordsInv' /\ fate' \in [Ids -> {"new", "live", "settled"}]
  BY <1>1, HeldLost
<1>3. pending' = pending \cup ks /\ due' = due \cup ks
  BY DEF Raise
<1>4. ASSUME NEW holds \in BOOLEAN, Dealt(holds), holds = HeldRecordIsReport  PROVE ControlInv'
  <2>1. /\ pending' \subseteq Kinds /\ pending \subseteq pending' /\ due' \subseteq Kinds
        /\ due' \subseteq pending' \cup (IF HeldRecordIsReport /\ holds THEN {Record.id} ELSE {})
    BY <1>3, <1>4 DEF TypeInv, EventsKept
  <2>2. /\ store' \in Seq(Items) /\ Len(store') <= StoreCapacity /\ transient' \in BOOLEAN /\ (transient' => store' = <<>>)
        /\ lastSent' \in {0} \cup Ids
    BY DEF TypeInv
  <2> QED  BY <1>2, <1>4, <2>1, <2>2, DealtControl
<1>5. CASE HeldRecordIsReport /\ pc' = "sendHeld" /\ UNCHANGED <<slot, latches, pass, loop, buffers, calm>>
  <2>1. TypeInv'
    BY <1>2, <1>3, <1>5 DEF TypeInv, slot, latches, pass, buffers, Places
  <2>2. SlotInv'
    BY <1>5 DEF SlotInv, slot
  <2>3. EventsKept'
    BY <1>3, <1>5 DEF EventsKept, slot
  <2> QED  BY <1>2, <2>1, <2>2, <2>3
<1>6. ControlInv'
  BY <1>4, <1>5 DEF TypeInv
<1> QED  BY <1>2, <1>6

LEMMA RefusedIInv ==
  ASSUME IInv, NEW policy \in Policies, Refused(policy)
  PROVE  IInv'
<1>1. HoldsRecord /\ pc \in {"deal", "refused"}
  BY DEF IInv, ControlInv, SlotInv, Refused
<1>2. PICK ks \in SUBSET Kinds : Raise(ks)
  <2>1. (IF policy = "HALT" THEN {LOGGER_HALTED} ELSE {}) \in SUBSET Kinds
    BY RaisedKinds
  <2> QED  BY <2>1 DEF Refused
<1>3. Halted' \in BOOLEAN /\ UNCHANGED <<store, transient, lastSent>>
  BY DEF Refused, stores
<1>4. IF HeldRecordIsReport
      THEN Dealt(TRUE) \/ (pc' = "sendHeld" /\ UNCHANGED <<slot, latches, pass, loop, buffers, calm>>)
      ELSE Dealt(FALSE)
  BY DEF Refused
<1>5. Lost(IF HeldRecordIsReport THEN {} ELSE {Record.id})
  BY DEF Refused
<1> QED  BY <1>1, <1>2, <1>3, <1>4, <1>5, TurnedAwayIInv

LEMMA StoreLosesIInv ==
  ASSUME IInv, StoreLoses
  PROVE  IInv'
<1>1. HoldsRecord /\ pc \in {"deal", "refused"}
  BY DEF StoreLoses
<1>2. PICK ks \in SUBSET Kinds : Raise(ks)
  BY RaisedKinds DEF StoreLoses
<1>3. Halted' \in BOOLEAN /\ UNCHANGED <<store, transient, lastSent>>
  BY DEF StoreLoses, IInv, ControlInv, TypeInv
<1>4. IF HeldRecordIsReport
      THEN Dealt(TRUE) \/ (pc' = "sendHeld" /\ UNCHANGED <<slot, latches, pass, loop, buffers, calm>>)
      ELSE Dealt(FALSE)
  BY DEF StoreLoses
<1>5. Lost(IF HeldRecordIsReport THEN {} ELSE {Record.id})
  BY DEF StoreLoses
<1> QED  BY <1>1, <1>2, <1>3, <1>4, <1>5, TurnedAwayIInv

\* A store that freezes settles what it held.
LEMMA FreezeSettles ==
  ASSUME IInv, StoreFreezes, UNCHANGED buffer, HeldIds' = HeldIds
  PROVE  /\ OrderInv' /\ LogInv' /\ PlaceInv' /\ fate' \in [Ids -> {"new", "live", "settled"}]
         /\ \A id \in Ids : /\ fate'[id] = "new" <=> fate[id] = "new"
                            /\ fate'[id] = "live" => fate[id] = "live"
                            /\ InTheStore(id) => fate'[id] = "settled"
         /\ store' = <<>> /\ transient' = TRUE
         /\ pending \subseteq pending' /\ pending' \subseteq Kinds /\ due' \subseteq Kinds /\ due' \subseteq due \cup pending'
<1> USE DEF IInv, ControlInv
<1>1. \A id \in Ids : id \in RecordIds(store) <=> InTheStore(id)
  BY InStoreIs DEF InStore
<1>2. \A id \in Ids : InTheStore(id) => fate[id] # "new"
  BY DEF InTheStore, RecordsInv, OrderInv
<1>3. /\ fate' \in [Ids -> {"new", "live", "settled"}]
      /\ \A id \in Ids : IF InTheStore(id) THEN fate'[id] = "settled" ELSE fate'[id] = fate[id]
  BY <1>1 DEF StoreFreezes, TypeInv
<1>4. /\ \A id \in Ids : fate'[id] = "new" <=> fate[id] = "new"
      /\ \A id \in Ids : fate'[id] = "live" => fate[id] = "live"
      /\ \A id \in Ids : InTheStore(id) => fate'[id] = "settled"
  BY <1>2, <1>3
<1>5. store' = <<>> /\ transient' = TRUE /\ HeldIds \subseteq Ids
  BY HeldIdsType DEF StoreFreezes
<1>6. OrderInv' /\ LogInv' /\ PlaceInv'
  BY <1>3, <1>4, <1>5, PlacesLeave
<1>7. PICK ks \in SUBSET Kinds : pending' = pending \cup ks /\ due' = due \cup ks
  BY RaisedKinds DEF StoreFreezes, Raise
<1> QED  BY <1>3, <1>4, <1>5, <1>6, <1>7 DEF TypeInv

LEMMA FreezesIInv ==
  ASSUME IInv, StoreLeaves \/ StoreFreezesReading
  PROVE  IInv'
<1> USE DEF IInv, ControlInv
<1>1. /\ StoreFreezes /\ UNCHANGED <<slot, latches, Halted, pass, buffers, lastSent>>
      /\ \/ HoldsRecord /\ pc' = "sendHeld"
         \/ pc' = "status"
  BY DEF StoreLeaves, StoreFreezesReading
<1>2. UNCHANGED buffer /\ HeldIds' = HeldIds
  BY <1>1 DEF buffers, slot, HeldIds
<1>3. RecordsInv'
  BY <1>1, <1>2, FreezeSettles, SentStays DEF RecordsInv
<1>4. TypeInv'
  <2>1. store' \in Seq(Items) /\ Len(store') <= StoreCapacity /\ transient' \in BOOLEAN /\ (transient' => store' = <<>>)
    BY <1>1, <1>2, FreezeSettles, ServiceBoundsAssumption
  <2>2. pending' \subseteq Kinds /\ due' \subseteq Kinds /\ fate' \in [Ids -> {"new", "live", "settled"}]
    BY <1>1, <1>2, FreezeSettles
  <2>3. pc' \in Places
    BY <1>1 DEF Places
  <2> QED  BY <1>1, <1>2, <2>1, <2>2, <2>3 DEF TypeInv, slot, latches, pass
<1>5. SlotInv'
  BY <1>1, <1>2, FreezeSettles DEF SlotInv, slot
<1>6. EventsKept'
  BY <1>1, <1>2, FreezeSettles DEF EventsKept, slot
<1> QED  BY <1>3, <1>4, <1>5, <1>6

LEMMA HoldNextRecordIInv ==
  ASSUME IInv, HoldNextRecord
  PROVE  IInv'
<1> USE DEF IInv, ControlInv
<1>1. ~HoldsRecord /\ HeldIds = {} /\ UNCHANGED <<latches, Halted, phase, index, stores, pending, fate, due, lastSent>>
  BY DEF HoldNextRecord, SlotInv, HeldIds
<1>2. CASE buffer # <<>>
  <2>1. /\ HoldsRecord' = TRUE /\ HeldRecordIsReport' = FALSE /\ pc' = "deal"
        /\ Record' = RecordOf(Head(buffer)) /\ buffer' = Tail(buffer)
    BY <1>2 DEF HoldNextRecord
  <2>2. /\ Head(buffer) \in Ids /\ Tail(buffer) \in Seq(Ids) /\ Len(Tail(buffer)) = Len(buffer) - 1
        /\ Len(buffer) \in Nat
    BY <1>2 DEF TypeInv
  <2>3. Record' \in Items /\ Record'.report = FALSE /\ Record'.id = Head(buffer)
    BY <2>1, <2>2, ItemsAre
  <2>4. HeldIds' = {Head(buffer)}
    BY <2>1, <2>3 DEF HeldIds
  <2>5. RecordsInv'
    BY <1>1, <1>2, <2>1, <2>4, RecordsHeld DEF stores
  <2>6. TypeInv'
    <3>1. buffer' \in Seq(Ids) /\ Len(buffer') <= BufferCapacity
      BY <2>1, <2>2, ServiceBoundsAssumption DEF TypeInv
    <3>2. pc' \in Places
      BY <2>1 DEF Places
    <3> QED  BY <1>1, <2>1, <2>3, <3>1, <3>2 DEF TypeInv, latches, stores
  <2>7. SlotInv' /\ EventsKept'
    BY <1>1, <2>1, <2>3 DEF SlotInv, EventsKept
  <2> QED  BY <2>5, <2>6, <2>7
<1>3. CASE buffer = <<>>
  <2>1. /\ HoldsRecord' = FALSE /\ HeldRecordIsReport' = FALSE /\ pc' = "take" /\ UNCHANGED <<Record, buffer>>
    BY <1>3 DEF HoldNextRecord
  <2>2. HeldIds' = HeldIds
    BY <1>1, <2>1 DEF HeldIds
  <2>3. RecordsInv'
    BY <1>1, <2>1, <2>2, RecordsStay DEF stores
  <2>4. TypeInv' /\ SlotInv' /\ EventsKept'
    BY <1>1, <2>1 DEF TypeInv, SlotInv, EventsKept, latches, stores, Places
  <2> QED  BY <2>3, <2>4
<1> QED  BY <1>2, <1>3

\* A sent record is settled, and the last sent.
LEMMA NoteSentIs ==
  ASSUME TypeInv, Record \in Items, NoteSent(Record)
  PROVE  /\ fate' \in [Ids -> {"new", "live", "settled"}] /\ lastSent' \in {0} \cup Ids
         /\ Record.report => UNCHANGED <<fate, lastSent>>
         /\ ~Record.report => /\ Record.id \in Ids /\ lastSent' = Record.id /\ fate'[Record.id] = "settled"
                              /\ \A id \in Ids \ {Record.id} : fate'[id] = fate[id]
BY ItemsAre DEF NoteSent, TypeInv

LEMMA SendHeldIInv ==
  ASSUME IInv, NEW ok \in BOOLEAN, SendHeld(ok)
  PROVE  IInv'
<1> USE DEF IInv, ControlInv
<1>1. /\ HoldsRecord /\ Record \in Items /\ HeldRecordIsReport = Record.report /\ Dealt(~ok)
      /\ UNCHANGED <<Halted, pending, stores>> /\ (~Record.report => store = <<>>)
  BY DEF SendHeld, SlotInv
<1>2. /\ store' \in Seq(Items) /\ Len(store') <= StoreCapacity /\ transient' \in BOOLEAN /\ (transient' => store' = <<>>)
      /\ Halted' \in BOOLEAN /\ pending' \subseteq Kinds /\ pending \subseteq pending' /\ UNCHANGED <<store, buffer>>
  BY <1>1 DEF TypeInv, stores, Dealt, buffers
<1>3. CASE ok
  <2>1. /\ NoteSent(Record) /\ due' = (IF Record.report THEN due \ {Record.id} ELSE due) \cup pending
        /\ HoldsRecord' = FALSE
    BY <1>1, <1>3 DEF SendHeld, Delivered, Dealt
  <2>2. due' \subseteq Kinds /\ due' \subseteq pending'
    BY <1>1, <2>1 DEF TypeInv, EventsKept
  <2>3. ControlInv'
    BY <1>1, <1>2, <1>3, <2>1, <2>2, NoteSentIs, DealtControl
  <2>4. HeldIds' = {} /\ HeldIds = (IF Record.report THEN {} ELSE {Record.id}) /\ HeldIds \subseteq Ids
    BY <1>1, <2>1, HeldIdsType DEF HeldIds
  <2>5. CASE Record.report
    BY <1>1, <1>2, <2>1, <2>3, <2>4, <2>5, NoteSentIs, RecordsStay
  <2>6. CASE ~Record.report
    <3>1. PICK r \in Ids : r = Record.id
      BY <1>1, <2>1, <2>6, NoteSentIs
    <3>2. /\ fate[r] # "new" /\ \A j \in DOMAIN buffer : r < buffer[j]
      BY <2>4, <2>6, <3>1 DEF RecordsInv, OrderInv
    <3>3. /\ lastSent' = r /\ fate'[r] = "settled" /\ \A id \in Ids \ {r} : fate'[id] = fate[id]
          /\ fate' \in [Ids -> {"new", "live", "settled"}]
      BY <1>1, <2>1, <2>6, <3>1, NoteSentIs
    <3>4. \A id \in Ids : fate[id] = "live" => id >= r
      BY <1>1, <2>4, <2>6, <3>1, <3>2, IdsAre DEF RecordsInv, PlaceInv, InBuffer, InTheStore
    <3>5. SentInv'
      BY <3>2, <3>3, <3>4, OldestSent
    <3>6. OrderInv' /\ LogInv' /\ PlaceInv'
      <4>1. /\ \A id \in Ids : fate'[id] = "new" <=> fate[id] = "new"
            /\ \A id \in Ids : fate'[id] = "live" => fate[id] = "live"
            /\ \A id \in Ids : fate'[id] = "live" /\ id \in HeldIds => id \in HeldIds'
        BY <2>4, <3>1, <3>2, <3>3
      <4> QED  BY <1>2, <2>4, <3>3, <4>1, PlacesLeave
    <3> QED  BY <2>3, <3>5, <3>6 DEF RecordsInv
  <2> QED  BY <1>1, <2>5, <2>6, ItemsAre
<1>4. CASE ~ok
  <2>1. UNCHANGED <<fate, lastSent, due>> /\ HoldsRecord' = TRUE /\ Record' = Record
    BY <1>1, <1>4 DEF SendHeld, Dealt
  <2>2. HeldIds' = HeldIds
    BY <1>1, <2>1 DEF HeldIds
  <2>3. RecordsInv'
    BY <1>2, <2>1, <2>2, RecordsStay
  <2>4. due' \subseteq Kinds /\ due' \subseteq pending' \cup (IF HeldRecordIsReport /\ ~ok THEN {Record.id} ELSE {})
    BY <1>1, <1>4, <2>1 DEF TypeInv, EventsKept
  <2>5. fate' \in [Ids -> {"new", "live", "settled"}] /\ lastSent' \in {0} \cup Ids
    BY <2>1 DEF TypeInv
  <2>6. ControlInv'
    BY <1>1, <1>2, <1>4, <2>4, <2>5, DealtControl
  <2> QED  BY <2>3, <2>6
<1> QED  BY <1>3, <1>4

\* The record the store's head holds is the oldest of all.
LEMMA HeadIsOldest ==
  ASSUME IInv, store # <<>>, HeldIds = {}, ~store[1].report
  PROVE  /\ store[1].id \in Ids /\ fate[store[1].id] # "new"
         /\ \A id \in Ids : fate[id] = "live" => id >= store[1].id
<1>1. 1 \in DOMAIN store /\ store[1].id \in Ids /\ DOMAIN store \subseteq Nat \ {0}
  BY StoreType DEF IInv, ControlInv, TypeInv
<1>2. fate[store[1].id] # "new"
  BY <1>1 DEF IInv, RecordsInv, OrderInv
<1>3. ASSUME NEW id \in Ids, fate[id] = "live"  PROVE id >= store[1].id
  <2>1. InBuffer(id) \/ InTheStore(id)
    BY <1>3 DEF IInv, RecordsInv, PlaceInv
  <2>0. id \in Nat /\ store[1].id \in Nat
    BY <1>1, IdsAre
  <2>2. CASE InBuffer(id)
    <3>1. store[1].id < id
      BY <1>1, <2>2 DEF IInv, RecordsInv, OrderInv, InBuffer
    <3> QED  BY <2>0, <3>1
  <2>3. CASE InTheStore(id)
    <3>1. PICK i \in DOMAIN store : ~store[i].report /\ store[i].id = id
      BY <2>3 DEF InTheStore
    <3>2. i = 1 \/ 1 < i
      BY <1>1
    <3>3. 1 < i => store[1].id < id
      BY <1>1, <3>1 DEF IInv, RecordsInv, OrderInv
    <3> QED  BY <2>0, <3>1, <3>2, <3>3
  <2> QED  BY <2>1, <2>2, <2>3
<1> QED  BY <1>1, <1>2, <1>3

LEMMA SendStoredIInv ==
  ASSUME IInv, (\E ok \in BOOLEAN : SendStored(ok)) \/ StoreFreezesMarking
  PROVE  IInv'
<1> USE DEF IInv, ControlInv
<1>1. /\ ~HoldsRecord /\ store # <<>> /\ store \in Seq(Items) /\ Record = store[1] /\ Head(store) = store[1] /\ Record \in Items
      /\ 1 \in DOMAIN store
      /\ HeldIds = {} /\ HeldIds' = {} /\ ~HoldsRecord' /\ Record' = NoItem /\ pc' = "status"
      /\ UNCHANGED <<buffer, HoldsRecord, HeldRecordIsReport, latches, Halted, index>>
  BY DEF SendStored, StoreFreezesMarking, SlotInv, TypeInv, HeldIds, buffers, pass
<1>2. ~Record.report => /\ Record.id \in Ids /\ fate[Record.id] # "new"
                        /\ \A id \in Ids : fate[id] = "live" => id >= Record.id
  BY <1>1, HeadIsOldest
<1>3. ASSUME TypeInv', EventsKept'  PROVE ControlInv'
  BY <1>1, <1>3 DEF SlotInv
<1>4. ASSUME SendStored(TRUE)  PROVE IInv'
  <2>1. NoteSent(Record) /\ store' = Tail(store) /\ UNCHANGED <<transient, pending, due>>
    BY <1>4 DEF SendStored
  <2>2. TypeInv'
    <3>1. Tail(store) \in Seq(Items) /\ Len(Tail(store)) <= StoreCapacity /\ ~transient
      BY <1>1, ServiceBoundsAssumption DEF TypeInv
    <3> QED  BY <1>1, <2>1, <3>1, NoteSentIs DEF TypeInv, latches, Places
  <2>3. EventsKept'
    BY <1>1, <2>1 DEF EventsKept
  <2>4. /\ fate' \in [Ids -> {"new", "live", "settled"}]
        /\ \A id \in Ids : fate'[id] = "new" <=> fate[id] = "new"
        /\ \A id \in Ids : fate'[id] = "live" => fate[id] = "live" /\ ~(~Head(store).report /\ id = Head(store).id)
    BY <1>1, <1>2, <2>1, NoteSentIs, ItemsAre
  <2>5. OrderInv' /\ LogInv' /\ PlaceInv'
    BY <1>1, <2>1, <2>4, PlacesMarked
  <2>6. SentInv'
    <3>1. CASE Record.report
      BY <1>1, <2>1, <3>1, NoteSentIs DEF RecordsInv, SentInv
    <3>2. CASE ~Record.report
      <4>1. PICK r \in Ids : r = Record.id
        BY <1>2, <3>2
      <4>2. lastSent' = r /\ fate'[r] = "settled" /\ \A id \in Ids : fate[id] = "settled" => fate'[id] = "settled"
        BY <1>1, <2>1, <3>2, <4>1, NoteSentIs
      <4> QED  BY <1>2, <2>4, <3>2, <4>1, <4>2, OldestSent
    <3> QED  BY <1>1, <3>1, <3>2, ItemsAre
  <2> QED  BY <1>3, <2>2, <2>3, <2>5, <2>6 DEF RecordsInv
<1>5. ASSUME SendStored(FALSE)  PROVE IInv'
  <2>1. UNCHANGED <<fate, lastSent, store, transient, pending, due>>
    BY <1>5 DEF SendStored
  <2>2. TypeInv' /\ EventsKept'
    BY <1>1, <2>1 DEF TypeInv, EventsKept, latches, Places
  <2>3. RecordsInv'
    BY <1>1, <2>1, RecordsStay
  <2> QED  BY <1>3, <2>2, <2>3
<1>6. CASE StoreFreezesMarking
  <2>1. StoreFreezes /\ lastSent' = IF Record.report THEN lastSent ELSE Record.id
    BY <1>6 DEF StoreFreezesMarking
  <2>2. /\ OrderInv' /\ LogInv' /\ PlaceInv' /\ fate' \in [Ids -> {"new", "live", "settled"}]
        /\ \A id \in Ids : /\ fate'[id] = "new" <=> fate[id] = "new"
                           /\ fate'[id] = "live" => fate[id] = "live"
                           /\ InTheStore(id) => fate'[id] = "settled"
        /\ store' = <<>> /\ transient' = TRUE
        /\ pending \subseteq pending' /\ pending' \subseteq Kinds /\ due' \subseteq Kinds /\ due' \subseteq due \cup pending'
    BY <1>1, <2>1, FreezeSettles
  <2>3. TypeInv'
    <3>1. store' \in Seq(Items) /\ Len(store') <= StoreCapacity
      BY <2>2, ServiceBoundsAssumption
    <3>2. lastSent' \in {0} \cup Ids
      BY <1>2, <2>1 DEF TypeInv
    <3> QED  BY <1>1, <2>2, <3>1, <3>2 DEF TypeInv, latches, Places
  <2>4. EventsKept'
    BY <1>1, <2>2 DEF EventsKept
  <2>5. SentInv'
    <3>1. CASE Record.report
      BY <2>1, <2>2, <3>1, SentStays
    <3>2. CASE ~Record.report
      <4>1. PICK r \in Ids : r = Record.id
        BY <1>2, <3>2
      <4>2. lastSent' = r /\ fate'[r] = "settled"
        BY <1>1, <2>1, <2>2, <3>2, <4>1 DEF InTheStore
      <4>3. \A id \in Ids : fate[id] = "settled" => fate'[id] = "settled"
        BY <2>2
      <4> QED  BY <1>2, <2>2, <3>2, <4>1, <4>2, <4>3, OldestSent
    <3> QED  BY <1>1, <3>1, <3>2, ItemsAre
  <2> QED  BY <1>3, <2>2, <2>3, <2>4, <2>5 DEF RecordsInv
<1> QED  BY <1>4, <1>5, <1>6

-----------------------------------------------------------------------------
(* The specification *)

LEMMA NextIInv == IInv /\ [Next]_vars => IInv'
<1> SUFFICES ASSUME IInv, [Next]_vars  PROVE IInv'
  OBVIOUS
<1>1. CASE \E policy \in Policies : ApplyPolicy(policy) \/ StoreKeeps(policy) \/ Refused(policy)
  BY <1>1, ApplyPolicyIInv, StoreKeepsIInv, RefusedIInv
<1>2. CASE StoreLoses \/ StoreLeaves \/ StoreFreezesReading \/ HoldNextRecord
  BY <1>2, StoreLosesIInv, FreezesIInv, HoldNextRecordIInv
<1>3. CASE (\E ok \in BOOLEAN : SendHeld(ok) \/ SendStored(ok)) \/ StoreFreezesMarking
  BY <1>3, SendHeldIInv, SendStoredIInv
<1>4. CASE \E id \in Ids, policy \in Policies : Log(id, policy)
  BY <1>4, LogIInv
<1>5. CASE \/ \E reports \in BOOLEAN : LogReturns(reports)
           \/ \E policy \in Policies : BeginPass(policy) \/ StoreRefuses(policy)
           \/ \E ok \in BOOLEAN : ReportIfPending(ok) \/ TakeNextFromStore(ok)
           \/ NothingHeld \/ EndPass \/ Settle \/ UNCHANGED vars
  BY <1>5, QuietIInv
<1> QED  BY <1>1, <1>2, <1>3, <1>4, <1>5 DEF Next, ServiceStep

LEMMA SpecIInv == Spec => []IInv
BY InitIInv, NextIInv, PTL DEF Spec

\* No interleaving of Log with the steps of a pass loses a record unaccounted
\* for: a record logged and neither sent nor lost with a report is in the
\* buffer, in the slot or in the store (ProcessMessages of SolidSyslog.c).
THEOREM RecordsAccountedFor == Spec => []EveryRecordAccountedFor
<1>1. IInv => EveryRecordAccountedFor
  <2> SUFFICES ASSUME IInv  PROVE EveryRecordAccountedFor
    OBVIOUS
  <2>1. Cardinality(Kinds) = 3
    <3>0. 1 \in Int /\ 3 \in Int
      OBVIOUS
    <3>1. Cardinality(1..3) = IF 1 > 3 THEN 0 ELSE 3 - 1 + 1
      BY <3>0, FS_Interval, Zenon
    <3> QED  BY <3>1 DEF Kinds
  <2>2. TypeOK
    BY <2>1, ItemsAre DEF IInv, ControlInv, TypeInv, TypeOK, NoItem
  <2>3. \A id \in Ids : fate[id] = "live" => InBuffer(id) \/ InSlot(id) \/ InStore(id)
    BY InSlotIs, InStoreIs DEF IInv, ControlInv, RecordsInv, PlaceInv
  <2> QED  BY <2>2, <2>3 DEF EveryRecordAccountedFor
<1> QED  BY SpecIInv, <1>1, PTL

\* The sender gets the records in the order they were logged: a record sent
\* leaves none before it still to be sent, whichever way the records went
\* (StoreOrSenderTakesHeldRecord and SendOneFromStore of SolidSyslog.c).
THEOREM OrderKept == Spec => []NothingOvertaken
<1>1. IInv => NothingOvertaken
  <2> SUFFICES ASSUME IInv, NEW id \in 1..lastSent - 1  PROVE fate[id] # "live"
    BY DEF NothingOvertaken
  <2>1. id \in Ids /\ id <= lastSent
    BY ServiceBoundsAssumption DEF IInv, ControlInv, TypeInv, Ids
  <2> QED  BY <2>1 DEF IInv, RecordsInv, SentInv
<1> QED  BY SpecIInv, <1>1, PTL

\* An event raised is not forgotten by the walk over the events: it is pending,
\* or held as a report, until the report is stored or sent (HoldPendingReport
\* and DealWithHeldRecord of SolidSyslog.c).
THEOREM EventsNotForgotten == Spec => []EventsKept
<1>1. IInv => EventsKept
  BY DEF IInv, ControlInv
<1> QED  BY SpecIInv, <1>1, PTL
=============================================================================
