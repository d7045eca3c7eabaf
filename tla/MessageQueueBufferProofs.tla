---------------------- MODULE MessageQueueBufferProofs ----------------------
(***************************************************************************)
(* What the message queue buffer and the slots its reports go to promise,  *)
(* for any number of tasks that log, any capacity and any number of        *)
(* faults.                                                                 *)
(***************************************************************************)
EXTENDS MessageQueueBuffer, TLAPS

Values == {Unset} \cup {Value(e, f) : e \in Runs, f \in Fields}
Raisings == [event : Runs \cup {Unset}, at : 0..6]
Takings == [kind : Kinds \cup {Unset}, at : 0..6, copy : [Fields -> Values], tells : SUBSET Runs]
Writes == [at : {"out", "lock", "send", "evict", "report"}, policy : {"OLDEST", "NEWEST"},
           evicted : BOOLEAN, report : Seq(Runs)]

\* The slots, the tasks that raise, the Take and the ghosts have their types.
EventsTypeInv ==
  /\ Pending \in [Kinds -> BOOLEAN]
  /\ fields \in [Kinds -> [Fields -> Values]]
  /\ raising \in [Tasks -> Raisings]
  /\ taking \in Takings
  /\ raised \in [Kinds -> SUBSET Runs]
  /\ due \subseteq Runs

\* A field holds what an event raised since the last Clear put there.
Of(values, events, f) == \E e \in events : values[f] = Value(e, f)

\* A task raises an event it has announced, and the fields it has stored are
\* fresh, its own or those of a task that raises the same kind.
RaisingInv ==
  \A t \in Tasks :
    \/ raising[t] = NotRaising
    \/ /\ raising[t].event \in Runs
       /\ raising[t].at > 0
       /\ raising[t].event \in raised[raising[t].event.kind]
       /\ \A i \in 1..5 : i < raising[t].at => Of(fields[raising[t].event.kind], raised[raising[t].event.kind], StoreOrder[i])

\* A slot that is pending is fresh throughout, and stays so while it is taken.
SlotInv == \A k \in Kinds : Pending[k] \/ taking.kind = k => \A f \in Fields : Of(fields[k], raised[k], f)

\* The loads made so far are of events raised since the last Clear.
TakingInv ==
  \/ taking = NotTaking
  \/ /\ taking.kind \in Kinds
     /\ \A i \in 1..5 : i < taking.at => Of(taking.copy, raised[taking.kind], LoadOrder[i])

EventsInv == EventsTypeInv /\ RaisingInv /\ SlotInv /\ TakingInv

\* Only a writer that has left the mutex has something to report.
WriteInv ==
  /\ write \in [Writers -> Writes]
  /\ \A w \in Writers : write[w].at # "report" => write[w].report = <<>>

IInv == EventsInv /\ WriteInv /\ EveryRunTold

-----------------------------------------------------------------------------
(* The fields *)

\* Record stores every field and Take loads every field.
LEMMA Orders ==
  /\ Len(StoreOrder) = 5 /\ Len(LoadOrder) = 5 /\ DOMAIN LoadOrder = 1..5
  /\ \A i \in 1..5 : StoreOrder[i] \in Fields /\ LoadOrder[i] \in Fields
  /\ \A f \in Fields : (\E i \in 1..5 : f = StoreOrder[i]) /\ (\E i \in 1..5 : f = LoadOrder[i])
<1>1. Fields = {"SeverityCode", "Source", "Detail", "NativeCode", "HasNativeCode"}
  BY DEF Fields, StoreOrder
<1>2. \A f \in Fields : \E i \in 1..5 : f = StoreOrder[i]
  BY <1>1 DEF StoreOrder
<1>3. \A f \in Fields : \E i \in 1..5 : f = LoadOrder[i]
  BY <1>1 DEF LoadOrder
<1>4. \A i \in 1..5 : StoreOrder[i] \in Fields /\ LoadOrder[i] \in Fields
  BY <1>1 DEF StoreOrder, LoadOrder
<1> QED  BY <1>2, <1>3, <1>4 DEF StoreOrder, LoadOrder

LEMMA ValueType == \A e \in Runs, f \in Fields : Value(e, f) \in Values
BY DEF Values

LEMMA RunsType == \A e \in Runs : e.kind \in Kinds /\ e # Unset
BY RunsAssumption

-----------------------------------------------------------------------------
(* The steps of the slots keep the invariant of the slots. *)

LEMMA EventsInitInv == EventsInit => EventsInv
<1> SUFFICES ASSUME EventsInit  PROVE EventsInv
  OBVIOUS
<1>1. Blank \in [Fields -> Values]
  BY DEF Blank, Values
<1>2. EventsTypeInv
  BY <1>1 DEF EventsInit, EventsTypeInv, NotRaising, NotTaking, Raisings, Takings
<1>3. SlotInv
  BY UnsetAssumption DEF EventsInit, SlotInv, NotTaking
<1> QED  BY <1>2, <1>3 DEF EventsInit, EventsInv, RaisingInv, TakingInv

LEMMA StartRaisingInv ==
  ASSUME EventsInv, NEW t \in Tasks, NEW e \in Runs, StartRaising(t, e),
         UNCHANGED <<slotVars, taking>>, due' \subseteq Runs
  PROVE  EventsInv'
<1> USE DEF EventsInv, EventsTypeInv, slotVars
<1>1. e.kind \in Kinds /\ raised' = [raised EXCEPT ![e.kind] = @ \cup {e}]
  BY RunsType DEF StartRaising
<1>2. /\ raised' \in [Kinds -> SUBSET Runs]
      /\ \A k \in Kinds : raised[k] \subseteq raised'[k]
      /\ e \in raised'[e.kind]
  BY <1>1
<1>3. raising' \in [Tasks -> Raisings] /\ raising'[t] = [event |-> e, at |-> 1]
      /\ \A u \in Tasks \ {t} : raising'[u] = raising[u]
  BY DEF StartRaising, Raisings
<1>4. EventsTypeInv'
  BY <1>2, <1>3
<1>5. \A k \in Kinds, f \in Fields : Of(fields[k], raised[k], f) => Of(fields'[k], raised'[k], f)
  BY <1>2 DEF Of
<1>6. RaisingInv'
  <2> SUFFICES ASSUME NEW u \in Tasks, raising'[u] # NotRaising
               PROVE  /\ raising'[u].event \in Runs
                      /\ raising'[u].at > 0
                      /\ raising'[u].event \in raised'[raising'[u].event.kind]
                      /\ \A i \in 1..5 : i < raising'[u].at => Of(fields'[raising'[u].event.kind], raised'[raising'[u].event.kind], StoreOrder[i])
    BY DEF RaisingInv, NotRaising
  <2>1. CASE u = t
    BY <2>1, <1>2, <1>3
  <2>2. CASE u # t
    <3>1. raising'[u] = raising[u]
      BY <2>2, <1>3
    <3>2. /\ raising[u].event \in Runs
          /\ raising[u].at > 0
          /\ raising[u].event \in raised[raising[u].event.kind]
          /\ \A i \in 1..5 : i < raising[u].at => Of(fields[raising[u].event.kind], raised[raising[u].event.kind], StoreOrder[i])
      BY <3>1 DEF RaisingInv
    <3>3. raising[u].event.kind \in Kinds
      BY <3>2, RunsType
    <3> QED  BY <3>1, <3>2, <3>3, <1>2, <1>5, Orders
  <2> QED  BY <2>1, <2>2
<1>7. SlotInv'
  BY <1>5 DEF SlotInv
<1>8. TakingInv'
  BY <1>2 DEF TakingInv, Of
<1> QED  BY <1>4, <1>6, <1>7, <1>8

LEMMA RecordInv ==
  ASSUME EventsInv, NEW t \in Tasks, Record(t)
  PROVE  EventsInv'
<1> USE DEF EventsInv, EventsTypeInv
<1> DEFINE e == raising[t].event  at == raising[t].at
<1>1. /\ e \in Runs /\ e.kind \in Kinds /\ at \in 1..6 /\ e \in raised[e.kind]
      /\ \A i \in 1..5 : i < at => Of(fields[e.kind], raised[e.kind], StoreOrder[i])
      /\ UNCHANGED <<taking, raised, due>>
  BY RunsType DEF RaisingInv, Record, Raisings
<1>2. CASE at <= 5
  <2> DEFINE f == StoreOrder[at]
  <2>1. /\ f \in Fields /\ Value(e, f) \in Values
        /\ fields' = [fields EXCEPT ![e.kind][f] = Value(e, f)]
        /\ raising' = [raising EXCEPT ![t].at = at + 1]
        /\ UNCHANGED Pending
    BY <1>1, <1>2, Orders, ValueType DEF Record
  <2>2. /\ fields' \in [Kinds -> [Fields -> Values]]
        /\ fields'[e.kind][f] = Value(e, f)
        /\ \A k \in Kinds, g \in Fields : k # e.kind \/ g # f => fields'[k][g] = fields[k][g]
    BY <1>1, <2>1
  <2>3. /\ raising' \in [Tasks -> Raisings]
        /\ raising'[t].event = e /\ raising'[t].at = at + 1
        /\ \A u \in Tasks \ {t} : raising'[u] = raising[u]
    BY <1>1, <1>2, <2>1 DEF Raisings
  <2>4. Of(fields'[e.kind], raised'[e.kind], f) /\ \A k \in Kinds, g \in Fields : Of(fields[k], raised[k], g) => Of(fields'[k], raised'[k], g)
    BY <1>1, <2>2 DEF Of
  <2>5. RaisingInv'
    <3> SUFFICES ASSUME NEW u \in Tasks, raising'[u] # NotRaising
                 PROVE  /\ raising'[u].event \in Runs
                        /\ raising'[u].at > 0
                        /\ raising'[u].event \in raised'[raising'[u].event.kind]
                        /\ \A i \in 1..5 : i < raising'[u].at => Of(fields'[raising'[u].event.kind], raised'[raising'[u].event.kind], StoreOrder[i])
      BY DEF RaisingInv, NotRaising
    <3>1. CASE u = t
      BY <3>1, <1>1, <2>3, <2>4, Orders
    <3>2. CASE u # t
      <4>1. raising'[u] = raising[u]
        BY <3>2, <2>3
      <4>2. /\ raising[u].event \in Runs
            /\ raising[u].at > 0
            /\ raising[u].event \in raised[raising[u].event.kind]
            /\ \A i \in 1..5 : i < raising[u].at => Of(fields[raising[u].event.kind], raised[raising[u].event.kind], StoreOrder[i])
        BY <4>1 DEF RaisingInv
      <4> QED  BY <4>1, <4>2, <1>1, <2>4, RunsType, Orders
    <3> QED  BY <3>1, <3>2
  <2>6. SlotInv'
    BY <1>1, <2>1, <2>4 DEF SlotInv
  <2>7. TakingInv'
    BY <1>1 DEF TakingInv
  <2> QED  BY <1>1, <2>1, <2>2, <2>3, <2>5, <2>6, <2>7
<1>3. CASE at > 5
  <2>1. /\ Pending' = [Pending EXCEPT ![e.kind] = TRUE]
        /\ raising' = [raising EXCEPT ![t] = NotRaising]
        /\ UNCHANGED fields
    BY <1>1, <1>3, Orders DEF Record
  <2>2. NotRaising \in Raisings
    BY DEF NotRaising, Raisings
  <2>3. EventsTypeInv'
    BY <1>1, <2>1, <2>2
  <2>4. \A k \in Kinds, g \in Fields : Of(fields'[k], raised'[k], g) = Of(fields[k], raised[k], g)
    BY <1>1, <2>1 DEF Of
  <2>5. RaisingInv'
    BY <1>1, <2>1, <2>4, RunsType, Orders DEF RaisingInv
  <2>6. \A g \in Fields : Of(fields[e.kind], raised[e.kind], g)
    BY <1>1, <1>3, Orders
  <2>7. SlotInv'
    BY <1>1, <2>1, <2>4, <2>6 DEF SlotInv
  <2>8. TakingInv'
    BY <1>1 DEF TakingInv
  <2> QED  BY <2>3, <2>5, <2>7, <2>8
<1> QED  BY <1>1, <1>2, <1>3

LEMMA StartTakeInv ==
  ASSUME EventsInv, NEW k \in Kinds, StartTake(k)
  PROVE  EventsInv'
<1> USE DEF EventsInv, EventsTypeInv, StartTake, slotVars
<1>1. taking' = [kind |-> k, at |-> 0, copy |-> Blank, tells |-> {}]
  BY DEF NotTaking
<1>2. taking' \in Takings
  BY <1>1 DEF Takings, Blank, Values
<1>3. \A l \in Kinds, f \in Fields : Of(fields'[l], raised'[l], f) = Of(fields[l], raised[l], f)
  BY DEF Of
<1>4. RaisingInv'
  BY <1>3, RunsType, Orders DEF RaisingInv
<1>5. SlotInv'
  BY <1>1, <1>3 DEF SlotInv
<1>6. TakingInv'
  BY <1>1 DEF TakingInv
<1> QED  BY <1>2, <1>4, <1>5, <1>6

LEMMA TakeInv ==
  ASSUME EventsInv, Take
  PROVE  EventsInv'
<1> USE DEF EventsInv, EventsTypeInv
<1>1. /\ taking.kind \in Kinds /\ taking.at \in 0..6
      /\ \A i \in 1..5 : i < taking.at => Of(taking.copy, raised[taking.kind], LoadOrder[i])
      /\ UNCHANGED <<fields, raising, raised>>
  BY DEF Take, TakingInv, Takings
<1>2. \A l \in Kinds, f \in Fields : Of(fields'[l], raised'[l], f) = Of(fields[l], raised[l], f)
  BY <1>1 DEF Of
<1>3. RaisingInv'
  BY <1>1, <1>2, RunsType, Orders DEF RaisingInv
<1>4. CASE /\ taking.at = 0
           /\ Pending' = [Pending EXCEPT ![taking.kind] = FALSE]
           /\ taking' = [taking EXCEPT !.at = 1]
           /\ UNCHANGED due
  <2>1. taking' \in Takings /\ taking'.kind = taking.kind /\ taking'.at = 1
    BY <1>4 DEF Takings
  <2>2. SlotInv'
    BY <1>1, <1>2, <1>4, <2>1 DEF SlotInv
  <2>3. TakingInv'
    BY <1>1, <2>1 DEF TakingInv
  <2> QED  BY <1>1, <1>3, <1>4, <2>1, <2>2, <2>3
<1>5. CASE taking.at \in DOMAIN LoadOrder /\ CopyField(taking.at) /\ UNCHANGED <<Pending, due>>
  <2> DEFINE f == LoadOrder[taking.at]
  <2>1. taking.at \in 1..5 /\ f \in Fields
    BY <1>5, Orders
  <2>2. /\ taking' \in Takings /\ taking'.kind = taking.kind /\ taking'.at = taking.at + 1
        /\ taking'.copy = [taking.copy EXCEPT ![f] = fields[taking.kind][f]]
    <3> DEFINE told == IF taking.at = 1 THEN {e \in due : e.kind = taking.kind /\ ~IsRaising(e)} ELSE taking.tells
               copied == [taking.copy EXCEPT ![f] = fields[taking.kind][f]]
    <3>1. told \in SUBSET Runs /\ copied \in [Fields -> Values]
      BY <1>1, <2>1 DEF Takings
    <3>2. taking' = [taking EXCEPT !.at = @ + 1, !.copy = copied, !.tells = told]
      BY <1>5 DEF Takings, CopyField
    <3> HIDE DEF told, copied
    <3>3. taking' = [kind |-> taking.kind, at |-> taking.at + 1, copy |-> copied, tells |-> told]
      BY <3>2 DEF Takings
    <3>4. taking' \in Takings
      BY <1>1, <2>1, <3>1, <3>3 DEF Takings
    <3> QED  BY <3>3, <3>4 DEF copied
  <2>3. Of(fields[taking.kind], raised[taking.kind], f)
    BY <1>1, <2>1 DEF SlotInv
  <2>4. SlotInv'
    BY <1>1, <1>2, <1>5, <2>2 DEF SlotInv
  <2>5. TakingInv'
    <3> SUFFICES ASSUME NEW i \in 1..5, i < taking'.at
                 PROVE  Of(taking'.copy, raised[taking.kind], LoadOrder[i])
      BY <1>1, <2>2 DEF TakingInv
    <3>1. taking.copy \in [Fields -> Values] /\ LoadOrder[i] \in Fields
      BY Orders DEF Takings
    <3>2. CASE LoadOrder[i] = f
      BY <3>1, <3>2, <2>2, <2>3 DEF Of
    <3>3. CASE LoadOrder[i] # f
      BY <3>1, <3>3, <1>1, <2>1, <2>2 DEF Of
    <3> QED  BY <3>2, <3>3
  <2> QED  BY <1>1, <1>3, <1>5, <2>2, <2>4, <2>5
<1>6. CASE /\ taking.at > Len(LoadOrder)
           /\ taking' = NotTaking
           /\ due' = due \ taking.tells
           /\ UNCHANGED Pending
  <2>1. NotTaking \in Takings /\ NotTaking.kind \notin Kinds
    BY UnsetAssumption DEF NotTaking, Takings, Blank, Values
  <2>2. SlotInv'
    BY <1>1, <1>2, <1>6, <2>1 DEF SlotInv
  <2> QED  BY <1>1, <1>3, <1>6, <2>1, <2>2 DEF TakingInv
<1> QED  BY <1>4, <1>5, <1>6 DEF Take

LEMMA ClearInv ==
  ASSUME EventsInv, Clear
  PROVE  EventsInv'
<1> USE DEF EventsInv, EventsTypeInv, Clear
<1>1. fields' \in [Kinds -> [Fields -> Values]]
  BY DEF Values
<1>2. SlotInv'
  BY UnsetAssumption DEF SlotInv, NotTaking
<1> QED  BY <1>1, <1>2 DEF RaisingInv, TakingInv

-----------------------------------------------------------------------------
(* The steps of the slots lose no event that is due. *)

\* The event is in the list a writer still has to report.
WithWriter(e) == \E w \in Writers : \E i \in DOMAIN write[w].report : write[w].report[i] = e
Told(e) == WithWriter(e) \/ IsRaising(e) \/ WillBeTold(e)

LEMMA ToldIs == EveryRunTold <=> \A e \in due : Told(e)
BY DEF EveryRunTold, Told, WithWriter

LEMMA RecordTells ==
  ASSUME EventsInv, NEW t \in Tasks, Record(t), UNCHANGED write, NEW e \in Runs, Told(e)
  PROVE  Told(e)'
<1> USE DEF EventsInv, EventsTypeInv
<1> DEFINE r == raising[t]
<1>1. r.event \in Runs /\ r.event.kind \in Kinds /\ r.at \in 1..6 /\ UNCHANGED <<taking, raised, due>>
  BY RunsType DEF RaisingInv, Record, Raisings
<1>2. WithWriter(e) => WithWriter(e)'
  BY DEF WithWriter
<1>3. e.kind \in Kinds /\ e # Unset
  BY RunsType
<1>4. CASE r.at <= 5
  <2>1. /\ raising' = [raising EXCEPT ![t].at = r.at + 1] /\ UNCHANGED Pending
    BY <1>1, <1>4, Orders DEF Record
  <2>2. \A u \in Tasks : raising'[u].event = raising[u].event
    BY <2>1 DEF Raisings
  <2> QED  BY <1>1, <1>2, <2>1, <2>2 DEF Told, IsRaising, WillBeTold
<1>5. CASE r.at > 5
  <2>1. Pending' = [Pending EXCEPT ![r.event.kind] = TRUE] /\ raising' = [raising EXCEPT ![t] = NotRaising]
    BY <1>1, <1>5, Orders DEF Record
  <2>2. Pending'[r.event.kind] /\ \A k \in Kinds : Pending[k] => Pending'[k]
    BY <1>1, <2>1
  <2>3. CASE r.event = e
    BY <2>2, <2>3 DEF Told, WillBeTold
  <2>4. CASE r.event # e
    <3>1. IsRaising(e) => IsRaising(e)'
      BY <2>1, <2>4 DEF IsRaising
    <3>2. WillBeTold(e) => WillBeTold(e)'
      BY <1>1, <1>3, <2>2 DEF WillBeTold
    <3> QED  BY <1>2, <3>1, <3>2 DEF Told
  <2> QED  BY <2>3, <2>4
<1> QED  BY <1>1, <1>4, <1>5

LEMMA TakeTells ==
  ASSUME EventsInv, Take, UNCHANGED write, NEW e \in due, Told(e), e \in due'
  PROVE  Told(e)'
<1> USE DEF EventsInv, EventsTypeInv
<1>1. /\ taking.kind \in Kinds /\ taking.at \in 0..6 /\ UNCHANGED raising
      /\ e.kind \in Kinds
  BY RunsType DEF Take, TakingInv, Takings
<1>2. (WithWriter(e) => WithWriter(e)') /\ (IsRaising(e) => IsRaising(e)')
  BY <1>1 DEF WithWriter, IsRaising
<1> SUFFICES ASSUME WillBeTold(e), ~IsRaising(e)  PROVE WillBeTold(e)'
  BY <1>2 DEF Told
<1>3. CASE /\ taking.at = 0
           /\ Pending' = [Pending EXCEPT ![taking.kind] = FALSE]
           /\ taking' = [taking EXCEPT !.at = 1]
  <2>1. taking'.kind = taking.kind /\ taking'.at = 1 /\ taking'.tells = taking.tells
    BY <1>3 DEF Takings
  <2> QED  BY <1>1, <1>3, <2>1 DEF WillBeTold
<1>4. CASE taking.at \in DOMAIN LoadOrder /\ CopyField(taking.at) /\ UNCHANGED <<Pending, due>>
  <2>1. /\ taking.at \in 1..5 /\ taking'.kind = taking.kind /\ taking'.at = taking.at + 1
        /\ taking'.tells = IF taking.at = 1 THEN {x \in due : x.kind = taking.kind /\ ~IsRaising(x)} ELSE taking.tells
    BY <1>4, Orders DEF Takings, CopyField
  <2> QED  BY <1>1, <1>4, <2>1 DEF WillBeTold
<1>5. CASE /\ taking.at > Len(LoadOrder)
           /\ due' = due \ taking.tells
           /\ UNCHANGED Pending
  BY <1>1, <1>5, Orders DEF WillBeTold
<1> QED  BY <1>3, <1>4, <1>5 DEF Take

LEMMA StartTakeTells ==
  ASSUME EventsInv, NEW k \in Kinds, StartTake(k), UNCHANGED write, NEW e \in Runs, Told(e)
  PROVE  Told(e)'
<1>1. UNCHANGED <<Pending, raising>> /\ taking.kind \notin Kinds
  BY UnsetAssumption DEF StartTake, slotVars, NotTaking
<1>2. (WithWriter(e) => WithWriter(e)') /\ (IsRaising(e) => IsRaising(e)')
  BY <1>1 DEF WithWriter, IsRaising
<1>3. WillBeTold(e) => WillBeTold(e)'
  BY <1>1, RunsType DEF WillBeTold
<1> QED  BY <1>2, <1>3 DEF Told

LEMMA StartRaisingTells ==
  ASSUME EventsInv, NEW t \in Tasks, NEW r \in Runs, StartRaising(t, r), UNCHANGED <<slotVars, taking>>
  PROVE  IsRaising(r)' /\ \A e \in Runs : (IsRaising(e) => IsRaising(e)') /\ (WillBeTold(e) => WillBeTold(e)')
<1>1. /\ raising'[t].event = r /\ raising[t].event = Unset
      /\ \A u \in Tasks \ {t} : raising'[u] = raising[u]
  BY DEF EventsInv, EventsTypeInv, StartRaising, NotRaising
<1>2. IsRaising(r)' /\ \A e \in Runs : IsRaising(e) => IsRaising(e)'
  BY <1>1, RunsType DEF IsRaising
<1> QED  BY <1>2 DEF WillBeTold, slotVars

-----------------------------------------------------------------------------
(* The writers *)

Has(s, e) == \E i \in DOMAIN s : s[i] = e

LEMMA ConcatHas == \A s, t \in Seq(Runs) : \A e : Has(s, e) \/ Has(t, e) => Has(s \o t, e)
<1> TAKE s, t \in Seq(Runs)
<1> TAKE e
<1>1. CASE Has(s, e)
  BY <1>1 DEF Has
<1>2. CASE Has(t, e)
  <2> PICK i \in DOMAIN t : t[i] = e
    BY <1>2 DEF Has
  <2>1. Len(s) + i \in DOMAIN (s \o t) /\ (s \o t)[Len(s) + i] = e
    OBVIOUS
  <2> QED  BY <2>1 DEF Has
<1> QED  BY <1>1, <1>2

LEMMA IdleType == Idle \in Writes /\ Idle.report = <<>>
BY DEF Idle, Writes

\* A write that ends with its runs marked leaves the ones it started to report,
\* and drops no report: it had none.
LEMMA NoteRunsInv ==
  ASSUME IInv, NEW w \in Writers, write[w].at # "report",
         NEW kept, kept \subseteq Reported, NEW met, met \subseteq {RECORD_REFUSED, SEND_FAILED}, NEW full,
         NoteRuns(w, kept, met, full)
  PROVE  IInv'
<1> DEFINE marked == (kept \ {RECORDS_EVICTED}) \cup NoteEvicted(w) \cup met
           started(run) == IF run \in marked \ Reported THEN <<run>> ELSE <<>>
           list == started(RECORDS_EVICTED) \o started(RECORD_REFUSED) \o started(SEND_FAILED)
           new == marked \ Reported
<1>1. new \subseteq {RECORDS_EVICTED, RECORD_REFUSED, SEND_FAILED} /\ new \subseteq Runs
  BY DEF NoteEvicted, Runs
<1>2. \A run \in Runs : started(run) \in Seq(Runs) /\ (run \in new => Has(started(run), run))
  BY DEF Has
<1>3. list \in Seq(Runs) /\ \A e \in new : Has(list, e)
  <2> DEFINE a == started(RECORDS_EVICTED)  b == started(RECORD_REFUSED)  c == started(SEND_FAILED)
  <2>1. /\ a \in Seq(Runs) /\ b \in Seq(Runs) /\ c \in Seq(Runs)
        /\ \A e \in new : Has(a, e) \/ Has(b, e) \/ Has(c, e)
    BY <1>1, <1>2 DEF Runs
  <2> HIDE DEF a, b, c, new
  <2>2. (a \o b) \in Seq(Runs) /\ (a \o b) \o c \in Seq(Runs)
    BY <2>1
  <2>3. \A e \in new : Has((a \o b) \o c, e)
    BY <2>1, <2>2, ConcatHas
  <2> QED  BY <2>2, <2>3 DEF a, b, c
<1>4. /\ write' = [write EXCEPT ![w] = [Idle EXCEPT !.at = "report", !.report = list]]
      /\ due' = due \cup new
      /\ UNCHANGED <<slotVars, raising, taking, raised>>
  BY DEF NoteRuns
<1> HIDE DEF list, new
<1>5. EventsInv'
  BY <1>1, <1>4 DEF IInv, EventsInv, EventsTypeInv, RaisingInv, SlotInv, TakingInv, slotVars
<1>6. [Idle EXCEPT !.at = "report", !.report = list] \in Writes
  BY <1>3 DEF Idle, Writes
<1>7. WriteInv' /\ write'[w].report = list /\ \A v \in Writers \ {w} : write'[v] = write[v]
  BY <1>4, <1>6 DEF IInv, WriteInv, Idle
<1>8. \A e \in due : Told(e)'
  <2> TAKE e \in due
  <2>1. Told(e)
    BY ToldIs DEF IInv
  <2>2. WithWriter(e) => WithWriter(e)'
    BY <1>7 DEF WithWriter, IInv, WriteInv
  <2> QED  BY <1>4, <2>1, <2>2 DEF Told, IsRaising, WillBeTold, slotVars
<1>9. \A e \in new : Told(e)'
  BY <1>3, <1>7 DEF Told, WithWriter, Has
<1>10. EveryRunTold'
  BY <1>4, <1>8, <1>9 DEF EveryRunTold, Told, WithWriter
<1> QED  BY <1>5, <1>7, <1>10 DEF IInv

\* A step of a writer that leaves the slots and the lists of reports alone.
LEMMA QuietWriteInv ==
  ASSUME IInv, NEW w \in Writers, NEW r \in Writes, r.report = <<>>, write[w].report = <<>>,
         write' = [write EXCEPT ![w] = r], UNCHANGED eventVars
  PROVE  IInv'
<1> USE DEF eventVars, slotVars
<1>1. EventsInv'
  BY DEF IInv, EventsInv, EventsTypeInv, RaisingInv, SlotInv, TakingInv
<1>2. WriteInv' /\ \A v \in Writers : write'[v].report = write[v].report
  <2>1. write'[w] = r /\ \A v \in Writers \ {w} : write'[v] = write[v]
    BY DEF IInv, WriteInv
  <2>2. write' \in [Writers -> Writes]
    BY DEF IInv, WriteInv
  <2> QED  BY <2>1, <2>2 DEF IInv, WriteInv
<1>3. \A e \in due : Told(e)'
  BY <1>2, ToldIs DEF IInv, Told, WithWriter, IsRaising, WillBeTold
<1>4. EveryRunTold'
  BY <1>3 DEF EveryRunTold, Told, WithWriter
<1> QED  BY <1>1, <1>2, <1>4 DEF IInv

LEMMA ReportInv ==
  ASSUME IInv, NEW w \in Writers, Report(w)
  PROVE  IInv'
<1> DEFINE list == write[w].report
<1>1. write[w] \in Writes /\ list \in Seq(Runs) /\ write[w].at = "report" /\ w \in Tasks
  BY TasksAssumption DEF IInv, WriteInv, Writes, Report
<1>2. CASE list # <<>>
  <2>1. /\ StartRaising(w, Head(list)) /\ UNCHANGED <<slotVars, taking, due>>
        /\ write' = [write EXCEPT ![w].report = Tail(list)]
        /\ Head(list) \in Runs /\ Tail(list) \in Seq(Runs)
    BY <1>1, <1>2 DEF Report
  <2>2. EventsInv'
    BY <1>1, <2>1, StartRaisingInv DEF IInv, EventsInv, EventsTypeInv
  <2>3. /\ WriteInv' /\ write'[w].report = Tail(list)
        /\ \A v \in Writers \ {w} : write'[v] = write[v]
    BY <1>1, <2>1 DEF IInv, WriteInv, Writes
  <2>4. \A e \in due : Told(e)'
    <3> TAKE e \in due
    <3>1. Told(e) /\ e \in Runs
      BY ToldIs DEF IInv, EventsInv, EventsTypeInv
    <3> PICK head \in Runs : head = Head(list)
      BY <2>1
    <3>2. IsRaising(head)' /\ (IsRaising(e) => IsRaising(e)') /\ (WillBeTold(e) => WillBeTold(e)')
      BY <1>1, <2>1, <3>1, StartRaisingTells DEF IInv
    <3>3. WithWriter(e) => e = Head(list) \/ WithWriter(e)'
      <4> SUFFICES ASSUME NEW v \in Writers, NEW i \in DOMAIN write[v].report, write[v].report[i] = e, e # Head(list)
                   PROVE  \E u \in Writers : \E j \in DOMAIN write'[u].report : write'[u].report[j] = e
        BY DEF WithWriter
      <4>1. CASE v # w
        BY <4>1, <2>3
      <4>2. CASE v = w
        <5>1. i \in 1..Len(list) /\ i # 1
          BY <1>1, <1>2, <4>2
        <5>2. i - 1 \in DOMAIN Tail(list) /\ Tail(list)[i - 1] = e
          BY <1>1, <1>2, <4>2, <5>1
        <5> QED  BY <4>2, <5>2, <2>3
      <4> QED  BY <4>1, <4>2
    <3> QED  BY <3>1, <3>2, <3>3 DEF Told
  <2>5. EveryRunTold'
    BY <2>1, <2>4 DEF EveryRunTold, Told, WithWriter
  <2> QED  BY <2>2, <2>3, <2>5 DEF IInv
<1>3. CASE list = <<>>
  <2>1. write' = [write EXCEPT ![w] = Idle] /\ UNCHANGED eventVars
    BY <1>3 DEF Report
  <2>2. Idle.report = write[w].report /\ Idle.at # "report"
    BY <1>3 DEF Idle
  <2> QED  BY <2>1, <2>2, IdleType, QuietWriteInv
<1> QED  BY <1>2, <1>3

\* A step of a writer keeps the invariant.
LEMMA WriterInv ==
  ASSUME IInv, NEW w \in Writers,
         \/ \E policy \in {"OLDEST", "NEWEST"} : AskPolicy(w, policy)
         \/ Lock(w) \/ Sent(w) \/ FindsFull(w) \/ Refused(w) \/ EvictOne(w) \/ EvictNothing(w)
         \/ SendFails(w) \/ Report(w)
  PROVE  IInv'
<1> USE DEF IInv, WriteInv
<1>0. write[w] \in Writes
  OBVIOUS
<1>1. ASSUME NEW p \in {"OLDEST", "NEWEST"}, AskPolicy(w, p)  PROVE IInv'
  <2> DEFINE r == [Idle EXCEPT !.at = "lock", !.policy = p]
  <2>1. r \in Writes /\ r.report = <<>>
    BY IdleType DEF Writes
  <2>2. write[w].report = <<>> /\ write' = [write EXCEPT ![w] = r] /\ UNCHANGED eventVars
    BY <1>1 DEF AskPolicy
  <2> HIDE DEF r
  <2> QED  BY <2>1, <2>2, QuietWriteInv
<1>2. CASE Lock(w)
  <2> DEFINE r == [write[w] EXCEPT !.at = "send"]
  <2>1. r \in Writes /\ r.report = write[w].report /\ write[w].report = <<>>
    BY <1>0, <1>2 DEF Writes, Lock
  <2>2. write' = [write EXCEPT ![w] = r] /\ UNCHANGED eventVars
    BY <1>2 DEF Lock
  <2> HIDE DEF r
  <2> QED  BY <2>1, <2>2, QuietWriteInv
<1>3. CASE FindsFull(w)
  <2> DEFINE r == [write[w] EXCEPT !.at = "evict"]
  <2>1. r \in Writes /\ r.report = write[w].report /\ write[w].report = <<>>
    BY <1>0, <1>3 DEF Writes, FindsFull
  <2>2. write' = [write EXCEPT ![w] = r] /\ UNCHANGED eventVars
    BY <1>3 DEF FindsFull
  <2> HIDE DEF r
  <2> QED  BY <2>1, <2>2, QuietWriteInv
<1>4. CASE EvictOne(w)
  <2> DEFINE r == [write[w] EXCEPT !.at = "send", !.evicted = TRUE]
  <2>1. r \in Writes /\ r.report = write[w].report /\ write[w].report = <<>>
    BY <1>0, <1>4 DEF Writes, EvictOne
  <2>2. write' = [write EXCEPT ![w] = r] /\ UNCHANGED eventVars
    BY <1>4, <1>0 DEF EvictOne, Writes
  <2> HIDE DEF r
  <2> QED  BY <2>1, <2>2, QuietWriteInv
<1>5. CASE Sent(w)
  BY <1>5, NoteRunsInv DEF Sent
<1>6. ASSUME Refuse(w), write[w].at # "report"  PROVE IInv'
  BY <1>6, NoteRunsInv DEF Refuse
<1>7. CASE Refused(w)
  BY <1>6, <1>7 DEF Refused
<1>8. CASE EvictNothing(w)
  BY <1>6, <1>8 DEF EvictNothing
<1>9. CASE SendFails(w)
  BY <1>9, NoteRunsInv DEF SendFails
<1>10. CASE Report(w)
  BY <1>10, ReportInv
<1> QED  BY <1>1, <1>2, <1>3, <1>4, <1>5, <1>7, <1>8, <1>9, <1>10

-----------------------------------------------------------------------------
(* The specification *)

LEMMA InitIInv == Init => IInv
<1> SUFFICES ASSUME Init  PROVE IInv
  OBVIOUS
<1>1. EventsInv
  BY EventsInitInv DEF Init
<1>2. WriteInv
  BY IdleType DEF Init, WriteInv
<1> QED  BY <1>1, <1>2 DEF IInv, Init, EventsInit, EveryRunTold

LEMMA NextIInv == IInv /\ [Next]_vars => IInv'
<1> SUFFICES ASSUME IInv, [Next]_vars  PROVE IInv'
  OBVIOUS
<1>0. \A e \in due : Told(e) /\ e \in Runs
  BY ToldIs DEF IInv, EventsInv, EventsTypeInv
<1>1. ASSUME UNCHANGED <<eventVars, write>>  PROVE IInv'
  <2>1. EventsInv' /\ WriteInv'
    BY <1>1 DEF IInv, WriteInv, EventsInv, EventsTypeInv, RaisingInv, SlotInv, TakingInv, eventVars, slotVars
  <2>2. EveryRunTold'
    BY <1>1 DEF IInv, EveryRunTold, IsRaising, WillBeTold, eventVars, slotVars
  <2> QED  BY <2>1, <2>2 DEF IInv
<1>2. ASSUME EventsInv', UNCHANGED write, \A e \in due' : Told(e)'  PROVE IInv'
  <2>1. WriteInv'
    BY <1>2 DEF IInv, WriteInv
  <2>2. EveryRunTold'
    BY <1>2 DEF EveryRunTold, Told, WithWriter
  <2> QED  BY <1>2, <2>1, <2>2 DEF IInv
<1>3. CASE \E w \in Writers :
             \/ \E policy \in {"OLDEST", "NEWEST"} : AskPolicy(w, policy)
             \/ Lock(w) \/ Sent(w) \/ FindsFull(w) \/ Refused(w) \/ EvictOne(w) \/ EvictNothing(w)
             \/ SendFails(w) \/ Report(w)
  BY <1>3, WriterInv
<1>4. CASE Received \/ NoteRecordTaken \/ OtherProcessSends \/ UNCHANGED vars
  BY <1>1, <1>4 DEF Received, NoteRecordTaken, OtherProcessSends, vars, bufferVars
<1>5. CASE NoteReceiveFailed
  <2>1. CASE RECEIVE_FAILED \in Reported
    <3>1. UNCHANGED <<eventVars, write>>
      BY <1>5, <2>1 DEF NoteReceiveFailed, eventVars
    <3> QED  BY <1>1, <3>1
  <2>2. CASE RECEIVE_FAILED \notin Reported
    <3>1. /\ StartRaising(Reader, RECEIVE_FAILED) /\ UNCHANGED <<slotVars, taking, write>>
          /\ due' = due \cup {RECEIVE_FAILED} /\ Reader \in Tasks /\ RECEIVE_FAILED \in Runs
      BY <1>5, <2>2, TasksAssumption DEF NoteReceiveFailed, Runs
    <3>2. EventsInv'
      BY <3>1, StartRaisingInv DEF IInv, EventsInv, EventsTypeInv
    <3>3. IsRaising(RECEIVE_FAILED)' /\ \A e \in Runs : (IsRaising(e) => IsRaising(e)') /\ (WillBeTold(e) => WillBeTold(e)')
      BY <3>1, StartRaisingTells DEF IInv
    <3>4. \A e \in due' : Told(e)'
      BY <1>0, <3>1, <3>3 DEF Told, WithWriter
    <3> QED  BY <1>2, <3>1, <3>2, <3>4
  <2> QED  BY <2>1, <2>2
<1>6. CASE ReportEvents
  <2>1. UNCHANGED write /\ EventsInv
    BY <1>6 DEF ReportEvents, bufferVars, IInv
  <2>2. ASSUME NEW k \in Kinds, StartTake(k)  PROVE IInv'
    BY <1>0, <1>2, <2>1, <2>2, StartTakeInv, StartTakeTells DEF StartTake
  <2>3. CASE Take
    <3>1. due' \subseteq due
      BY <2>3 DEF Take
    <3> QED  BY <1>0, <1>2, <2>1, <2>3, <3>1, TakeInv, TakeTells
  <2>4. ASSUME NEW t \in Tasks, Record(t)  PROVE IInv'
    BY <1>0, <1>2, <2>1, <2>4, RecordInv, RecordTells DEF Record
  <2> QED  BY <1>6, <2>2, <2>3, <2>4 DEF ReportEvents
<1>7. CASE Recreate
  <2>1. EventsInv' /\ UNCHANGED write /\ due' = {}
    BY <1>7, ClearInv DEF Recreate, Clear, bufferVars, IInv
  <2> QED  BY <1>2, <2>1
<1> QED  BY <1>3, <1>4, <1>5, <1>6, <1>7 DEF Next

\* Whatever the interleaving of the tasks that log with Take, a report of a run
\* of losses marked as reported is never dropped on its way (the ...Reported
\* flags of SolidSyslogPosixMessageQueueBuffer.c and the slots of
\* SolidSyslogPendingEvents.c).
THEOREM RunsTold == Spec => []EveryRunTold
<1>1. IInv => EveryRunTold
  BY DEF IInv
<1> QED  BY InitIInv, NextIInv, <1>1, PTL DEF Spec

\* Whatever the interleaving, a Take without a lock copies only values that
\* events of its kind put in the slot since SolidSyslog_Destroy last cleared it.
THEOREM ReportsRaised == Spec => []ReportsWhatWasRaised
<1>1. IInv => ReportsWhatWasRaised
  <2> SUFFICES ASSUME IInv, taking.at > Len(LoadOrder), NEW f \in Fields
               PROVE  \E e \in raised[taking.kind] : taking.copy[f] = Value(e, f)
    BY DEF ReportsWhatWasRaised
  <2>1. taking.at > 5 /\ taking # NotTaking
    BY Orders DEF NotTaking
  <2>2. PICK i \in 1..5 : f = LoadOrder[i]
    BY Orders
  <2> QED  BY <2>1, <2>2 DEF IInv, EventsInv, EventsTypeInv, Takings, TakingInv, Of
<1> QED  BY InitIInv, NextIInv, <1>1, PTL DEF Spec

\* A writer has the mutex from its first send to its note of the runs, and what it
\* evicted it evicted in between.
MutexInv ==
  /\ write \in [Writers -> Writes]
  /\ \A w \in Writers : /\ write[w].at \in {"send", "evict"} => mutex = w
                        /\ write[w].evicted => write[w].at = "send"

\* A write that met a full queue has been overtaken by no receive, but for one
\* whose reader waits for the mutex this writer has.
RoomInv ==
  \A w \in Writers : write[w].at = "evict" \/ write[w].evicted => crowded \/ read = "note"

FullInv == MutexInv /\ RoomInv /\ FullIsCurrent

\* A step that moves one writer, w, to the record r and gives the mutex to it or up,
\* keeps MutexInv and what RoomInv says of the others.
LEMMA WriterMoves ==
  ASSUME FullInv, NEW w \in Writers, NEW r \in Writes,
         write' = [write EXCEPT ![w] = r],
         mutex' = mutex \/ mutex = w \/ mutex = NoTask,
         r.at \in {"send", "evict"} => mutex' = w,
         r.evicted => r.at = "send"
  PROVE  /\ MutexInv' /\ write'[w] = r
         /\ \A u \in Writers : u # w => write'[u] = write[u]
         /\ write[w].at \in {"send", "evict"} =>
              \A u \in Writers : u # w => write[u].at # "evict" /\ ~write[u].evicted
<1> USE DEF FullInv, MutexInv
<1>1. \A u \in Writers : u # NoTask
  BY TasksAssumption
<1>2. write' \in [Writers -> Writes] /\ write'[w] = r /\ \A u \in Writers : u # w => write'[u] = write[u]
  OBVIOUS
<1>3. ASSUME NEW u \in Writers
      PROVE  (write'[u].at \in {"send", "evict"} => mutex' = u) /\ (write'[u].evicted => write'[u].at = "send")
  <2>1. CASE u = w
    BY <1>2, <2>1
  <2>2. CASE u # w
    BY <1>1, <1>2, <2>2
  <2> QED  BY <2>1, <2>2
<1> QED  BY <1>2, <1>3

LEMMA InitFullInv == Init => FullInv
<1> SUFFICES ASSUME Init PROVE FullInv
  OBVIOUS
<1>1. write \in [Writers -> Writes] /\ \A w \in Writers : write[w] = Idle
  BY IdleType DEF Init
<1> QED  BY <1>1 DEF Init, Idle, FullInv, MutexInv, RoomInv, FullIsCurrent

\* The end of a write, whatever it met: Full may be set by it where the writer met
\* a full queue, or was set before.
LEMMA NoteRunsFull ==
  ASSUME FullInv, NEW w \in Writers, NEW kept, NEW met, NEW full,
         write[w].at \in {"send", "evict"},
         NoteRuns(w, kept, met, full),
         full /\ read # "note" => crowded'
  PROVE  FullInv'
<1> DEFINE r == [Idle EXCEPT !.at = "report", !.report = write'[w].report]
<1>1. write' = [write EXCEPT ![w] = r] /\ r \in Writes /\ Full' = full /\ mutex = w /\ mutex' = NoTask /\ read' = read
  <2> DEFINE marked == (kept \ {RECORDS_EVICTED}) \cup NoteEvicted(w) \cup met
             started(run) == IF run \in marked \ Reported THEN <<run>> ELSE <<>>
             told == started(RECORDS_EVICTED) \o started(RECORD_REFUSED) \o started(SEND_FAILED)
  <2>1. write' = [write EXCEPT ![w] = [Idle EXCEPT !.at = "report", !.report = told]]
    BY DEF NoteRuns
  <2>2. \A run \in Runs : started(run) \in Seq(Runs)
    OBVIOUS
  <2> HIDE DEF started
  <2>3. told \in Seq(Runs)
    BY <2>2 DEF Runs
  <2> HIDE DEF told
  <2>4. write'[w].report = told
    BY <2>1 DEF FullInv, MutexInv, Idle
  <2>5. r \in Writes
    BY <2>3, <2>4 DEF Idle, Writes
  <2> QED  BY <2>1, <2>4, <2>5 DEF NoteRuns, FullInv, MutexInv
<1>2. r.at = "report" /\ ~r.evicted
  BY DEF Idle
<1> HIDE DEF r
<1>3. /\ MutexInv' /\ write'[w] = r
      /\ \A u \in Writers : u # w => write'[u] = write[u] /\ write[u].at # "evict" /\ ~write[u].evicted
  BY <1>1, <1>2, WriterMoves
<1> QED  BY <1>1, <1>2, <1>3 DEF FullInv, RoomInv, FullIsCurrent

\* A step of a writer keeps the invariant.
LEMMA WriterFull ==
  ASSUME FullInv, NEW w \in Writers,
         \/ \E policy \in {"OLDEST", "NEWEST"} : AskPolicy(w, policy)
         \/ Lock(w) \/ Sent(w) \/ FindsFull(w) \/ Refused(w) \/ EvictOne(w) \/ EvictNothing(w)
         \/ SendFails(w) \/ Report(w)
  PROVE  FullInv'
<1> USE DEF FullInv, MutexInv, RoomInv, FullIsCurrent
<1>0. write[w] \in Writes
  OBVIOUS
<1>1. ASSUME NEW policy \in {"OLDEST", "NEWEST"}, AskPolicy(w, policy)  PROVE FullInv'
  <2> DEFINE r == [Idle EXCEPT !.at = "lock", !.policy = policy]
  <2>1. r \in Writes /\ r.at = "lock" /\ ~r.evicted
    BY <1>1, IdleType DEF Idle, Writes
  <2>2. write' = [write EXCEPT ![w] = r] /\ UNCHANGED <<mutex, Full, read, crowded>>
    BY <1>1 DEF AskPolicy
  <2> HIDE DEF r
  <2> QED  BY <2>1, <2>2, WriterMoves
<1>2. CASE Lock(w)
  <2> DEFINE r == [write[w] EXCEPT !.at = "send"]
  <2>1. r \in Writes /\ r.at = "send" /\ r.evicted = write[w].evicted /\ ~write[w].evicted
    BY <1>0, <1>2 DEF Lock, Writes
  <2>2. write' = [write EXCEPT ![w] = r] /\ mutex = NoTask /\ mutex' = w /\ UNCHANGED <<Full, read, crowded>>
    BY <1>2 DEF Lock
  <2> HIDE DEF r
  <2> QED  BY <2>1, <2>2, WriterMoves
<1>3. CASE Sent(w)
  <2>1. NoteRuns(w, Reported \ {RECORD_REFUSED, SEND_FAILED}, {}, write[w].evicted)
    BY <1>3 DEF Sent
  <2>2. write[w].at = "send" /\ crowded' = (crowded /\ write[w].evicted)
    BY <1>3 DEF Sent
  <2>3. write[w].evicted /\ read # "note" => crowded'
    BY <2>2
  <2> QED  BY <2>1, <2>2, <2>3, NoteRunsFull
<1>4. CASE FindsFull(w)
  <2> DEFINE r == [write[w] EXCEPT !.at = "evict"]
  <2>1. r \in Writes /\ r.at = "evict" /\ ~r.evicted
    BY <1>0, <1>4 DEF FindsFull, Writes
  <2>2. write' = [write EXCEPT ![w] = r] /\ mutex = w /\ crowded' = TRUE /\ UNCHANGED <<mutex, Full, read>>
    BY <1>4 DEF FindsFull
  <2> HIDE DEF r
  <2> QED  BY <2>1, <2>2, WriterMoves
<1>5. CASE Refused(w)
  <2>1. NoteRuns(w, Reported, {RECORD_REFUSED}, TRUE) /\ write[w].at = "send" /\ crowded' = TRUE
    BY <1>5 DEF Refused, Refuse
  <2>2. PICK full : full = TRUE
    OBVIOUS
  <2>3. NoteRuns(w, Reported, {RECORD_REFUSED}, full)
    BY <2>1, <2>2
  <2>4. full /\ read # "note" => crowded'
    BY <2>1, <2>2
  <2> QED  BY <2>1, <2>3, <2>4, NoteRunsFull
<1>6. CASE EvictOne(w)
  <2> DEFINE r == [write[w] EXCEPT !.at = "send", !.evicted = TRUE]
  <2>1. r \in Writes /\ r.at = "send"
    BY <1>0, <1>6 DEF EvictOne, Writes
  <2>2. write' = [write EXCEPT ![w] = r] /\ mutex = w /\ UNCHANGED <<mutex, Full, read, crowded>>
    BY <1>6 DEF EvictOne
  <2>3. write[w].at = "evict" /\ (crowded \/ read = "note")
    BY <1>6 DEF EvictOne
  <2> HIDE DEF r
  <2> QED  BY <2>1, <2>2, <2>3, WriterMoves
<1>7. CASE EvictNothing(w)
  <2>1. NoteRuns(w, Reported, {RECORD_REFUSED}, TRUE) /\ write[w].at = "evict" /\ crowded' = crowded
    BY <1>7 DEF EvictNothing, Refuse
  <2>2. PICK full : full = TRUE
    OBVIOUS
  <2>3. NoteRuns(w, Reported, {RECORD_REFUSED}, full)
    BY <2>1, <2>2
  <2>4. full /\ read # "note" => crowded'
    BY <2>1, <2>2
  <2> QED  BY <2>1, <2>3, <2>4, NoteRunsFull
<1>8. CASE SendFails(w)
  <2>1. NoteRuns(w, Reported, {SEND_FAILED}, Full \/ write[w].evicted) /\ write[w].at = "send" /\ crowded' = crowded
    BY <1>8 DEF SendFails
  <2>2. PICK full : full = (Full \/ write[w].evicted)
    OBVIOUS
  <2>3. NoteRuns(w, Reported, {SEND_FAILED}, full)
    BY <2>1, <2>2
  <2>4. full /\ read # "note" => crowded'
    BY <2>1, <2>2
  <2> QED  BY <2>1, <2>3, <2>4, NoteRunsFull
<1>9. CASE Report(w)
  <2>1. UNCHANGED <<mutex, Full, read, crowded>> /\ write[w].at = "report" /\ ~write[w].evicted
    BY <1>9 DEF Report
  <2>2. CASE write[w].report # <<>>
    <3> DEFINE r == [write[w] EXCEPT !.report = Tail(@)]
    <3>0. write[w].report \in Seq(Runs) /\ Tail(write[w].report) \in Seq(Runs)
      BY <1>0, <2>2 DEF Writes
    <3>1. r \in Writes /\ r.at = "report" /\ ~r.evicted
      BY <1>0, <2>1, <3>0 DEF Writes
    <3>2. write' = [write EXCEPT ![w] = r]
      BY <1>9, <2>2 DEF Report
    <3> HIDE DEF r
    <3> QED  BY <2>1, <3>1, <3>2, WriterMoves
  <2>3. CASE write[w].report = <<>>
    <3>1. write' = [write EXCEPT ![w] = Idle] /\ Idle \in Writes /\ Idle.at = "out" /\ ~Idle.evicted
      BY <1>9, <2>3, IdleType DEF Report, Idle
    <3> QED  BY <2>1, <3>1, WriterMoves
  <2> QED  BY <2>2, <2>3
<1> QED  BY <1>1, <1>2, <1>3, <1>4, <1>5, <1>6, <1>7, <1>8, <1>9

\* Full, set under the mutex for a queue that receives outside it, is never left
\* over: whenever it is set and no receive waits to clear it, the last record
\* written found the kernel's queue full and none has been received since.
THEOREM FullFlagCurrent == Spec => []FullIsCurrent
<1>1. FullInv /\ [Next]_vars => FullInv'
  <2> SUFFICES ASSUME FullInv, [Next]_vars  PROVE FullInv'
    OBVIOUS
  <2> USE DEF FullInv, MutexInv, RoomInv, FullIsCurrent
  <2>1. CASE UNCHANGED <<mutex, write, Full, read, crowded>>
    BY <2>1
  <2>2. CASE Received
    BY <2>2 DEF Received
  <2>3. CASE NoteRecordTaken
    <3>1. \A w \in Writers : write[w].at # "evict" /\ ~write[w].evicted
      BY <2>3, TasksAssumption DEF NoteRecordTaken
    <3> QED  BY <2>3, <3>1 DEF NoteRecordTaken
  <2>4. CASE NoteReceiveFailed \/ OtherProcessSends \/ ReportEvents \/ Recreate \/ UNCHANGED vars
    BY <2>1, <2>4 DEF NoteReceiveFailed, OtherProcessSends, ReportEvents, Recreate, vars, bufferVars
  <2>5. ASSUME NEW w \in Writers,
               \/ \E policy \in {"OLDEST", "NEWEST"} : AskPolicy(w, policy)
               \/ Lock(w) \/ Sent(w) \/ FindsFull(w) \/ Refused(w) \/ EvictOne(w) \/ EvictNothing(w)
               \/ SendFails(w) \/ Report(w)
        PROVE  FullInv'
    BY <2>5, WriterFull
  <2> QED  BY <2>2, <2>3, <2>4, <2>5 DEF Next
<1> QED  BY InitFullInv, <1>1, PTL DEF Spec, FullInv
=============================================================================
