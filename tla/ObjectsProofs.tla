--------------------------- MODULE ObjectsProofs ---------------------------
(***************************************************************************)
(* Proofs about Objects.  Of the pools: every slot in use is one task's    *)
(* and a free one nobody's, for every class, every number of slots and     *)
(* every set of tasks.  Of the objects at work: the sequence ids and the   *)
(* time of the meta element are right, a policy's verdict is the record's, *)
(* and a logger loses no record in silence.                                *)
(***************************************************************************)
EXTENDS Objects, FiniteSetTheorems, TLAPS

Inner == {"record", "sequence"}
Free == Count           \* a claim on no slot

\* What the argument needs of a class: one that closes without looking has
\* always created what it closes, and one with inner pools neither fails to
\* initialise nor holds anything of the platform's.
ClassOk(c) ==
  /\ c.fallback \in {"null", "shared", "NULL", "stack"}
  /\ c.initialise \in {"works", "mayFall", "mayFail"}
  /\ c.native \in {"none", "created", "opened"}
  /\ c.closes = "always" => /\ c.native = "created" /\ c.initialise # "mayFall"
                            /\ c.initialise = "mayFail" => c.undo # "cleanup"
  /\ c.nested => c.initialise = "works" /\ c.native = "none" /\ ~c.clears

LifeOk(life) ==
  /\ life.initialise \in {"works", "mayFall", "mayFail"}
  /\ life.native \in {"none", "created", "opened"}
  /\ life.closes = "always" => life.native = "created" /\ life.initialise = "works"

-----------------------------------------------------------------------------
Walking == {"acquire", "looking", "claiming", "exhausted"}
Giving == {"release", "freeing", "marking"}
Locked == {"looking", "claiming", "freeing", "marking"}
Steps == Walking \cup Giving \cup {"idle", "initialise", "clearing"}

Objects == [mode : {"null", "live"}, native : {"none", "held"}, record : 0 .. Count, sequence : 0 .. Count]

TaskType(k) ==
  /\ k = [pc |-> k.pc, call |-> k.call, pool |-> k.pool, index |-> k.index,
          claimed |-> k.claimed, told |-> k.told, result |-> k.result]
  /\ k.pc \in Steps /\ k.call \in {"none", "create", "destroy"}
  /\ k.pool \in Allocators /\ k.index \in 0 .. Count
  /\ k.claimed \in [Allocators -> 0 .. Count]

TypeInv ==
  /\ inUse \in [Allocators -> [Slots -> BOOLEAN]]
  /\ object \in [Slots -> Objects]
  /\ owned \in [Tasks -> SUBSET Slots]
  /\ task = [t \in Tasks |-> task[t]]
  /\ \A t \in Tasks : TaskType(task[t])

\* The pools a call holds a slot of, by where it stands.
Before(pool) == CASE pool = "own" -> {} [] pool = "record" -> {"own"} [] OTHER -> {"own", "record"}
ToRelease(pool, nested) ==
  CASE pool = "own" -> (IF nested THEN Allocators ELSE {"own"})
    [] pool = "sequence" -> Inner
    [] OTHER -> {"record"}
Holding(k, nested) ==
  IF k.pc \in {"idle", "clearing"} THEN {}
  ELSE IF k.pc \in Walking THEN Before(k.pool)
  ELSE IF k.call = "create" THEN Before(k.pool) \cup {k.pool}
  ELSE ToRelease(k.pool, nested)

TaskOk(k, c) ==
  /\ \A p \in Allocators : k.claimed[p] # Free <=> p \in Holding(k, c.nested)
  /\ k.pc \in Walking \cup {"initialise"} => k.call = "create"
  /\ k.pc \in Giving => k.call \in {"create", "destroy"}
  /\ k.pc = "clearing" => k.call = "destroy"
  /\ k.pc \in Walking \ {"exhausted"} => k.index < Count
  /\ ~c.nested => k.pool = "own"
  /\ k.pc \in Giving /\ k.call = "create" =>
       /\ k.pool # "sequence" /\ (c.tells => Len(k.told) = 1)
       /\ c.nested \/ c.initialise = "mayFail"
  /\ k.pc = "idle" /\ k.call = "create" /\ c.tells =>
       Len(k.told) = IF k.result = "object" THEN 0 ELSE 1
TasksOk == \A t \in Tasks : TaskOk(task[t], C)

LockInv == \A t \in Tasks : task[t].pc \in Locked <=> holder = t

\* What is claimed is in use.
InUseInv ==
  /\ \A t \in Tasks, p \in Allocators : task[t].claimed[p] # Free => inUse[p][task[t].claimed[p]]
  /\ \A t \in Tasks : \A o \in owned[t] :
       /\ inUse["own"][o]
       /\ C.nested => \A q \in Inner : object[o][q] # Free /\ inUse[q][object[o][q]]
  /\ \A t \in Tasks : task[t].pc = "claiming" => ~inUse[task[t].pool][task[t].index]

\* No slot is claimed twice: by two calls, by a call and an object, by two
\* objects.
DistinctInv ==
  /\ \A t, u \in Tasks, p \in Allocators :
       t # u /\ task[t].claimed[p] # Free => task[t].claimed[p] # task[u].claimed[p]
  /\ \A t, u \in Tasks : \A o \in owned[u] :
       /\ task[t].claimed["own"] # o
       /\ C.nested => \A q \in Inner : task[t].claimed[q] # object[o][q]
  /\ \A t, u \in Tasks : t # u => owned[t] \cap owned[u] = {}
  /\ C.nested => \A t, u \in Tasks : \A o \in owned[t], oo \in owned[u] :
       o # oo => \A q \in Inner : object[o][q] # object[oo][q]

\* What is in use is claimed.
HasClaim(t, p, s) ==
  \/ task[t].claimed[p] = s
  \/ p = "own" /\ s \in owned[t]
  \/ p # "own" /\ C.nested /\ \E o \in owned[t] : object[o][p] = s
CoverInv ==
  \A p \in Allocators, s \in Slots : inUse[p][s] => \E t \in Tasks : HasClaim(t, p, s)

\* A call that still has an object to clean up.
Cleans(k) == k.call = "destroy" /\ k.pc \in {"release", "freeing"}
ObjectInv ==
  /\ \A s \in Slots : ~inUse["own"][s] => object[s].native = "none"
  /\ \A t \in Tasks : task[t].claimed["own"] # Free /\ ~Cleans(task[t]) =>
       object[task[t].claimed["own"]].native = "none"
  /\ C.closes = "always" => \A t \in Tasks :
       /\ \A o \in owned[t] : object[o].native = "held"
       /\ task[t].claimed["own"] # Free /\ Cleans(task[t]) =>
            object[task[t].claimed["own"]].native = "held"
  /\ \A t \in Tasks : \A o \in owned[t] : object[o].mode = "live" \/ C.initialise = "mayFall"
  /\ ~C.nested => \A s \in Slots, q \in Inner : object[s][q] = Free

PoolInv == /\ TypeInv /\ TasksOk /\ LockInv /\ InUseInv /\ DistinctInv /\ CoverInv /\ ObjectInv
        /\ ClassOk(C)

-----------------------------------------------------------------------------
LEMMA PooledOk ==
  ASSUME NEW requires, NEW life, LifeOk(life)
  PROVE  ClassOk(Pooled(requires, life))
BY DEF ClassOk, Pooled, LifeOk

LEMMA PooledKeptOk ==
  ASSUME NEW requires, NEW life, LifeOk(life)
  PROVE  ClassOk(PooledKept(requires, life))
BY DEF ClassOk, Pooled, PooledKept, LifeOk

LEMMA LivesOk ==
  /\ LifeOk(Plain) /\ LifeOk(OpenedLater) /\ LifeOk(PosixMutexLife)
  /\ LifeOk(FreeRtosMutexLife) /\ LifeOk(CmsisRtosMutexLife) /\ LifeOk(VxWorks64MutexLife)
  /\ LifeOk(WindowsMutexLife) /\ LifeOk(LittleFsFileLife) /\ LifeOk(FileBlockDeviceLife)
  /\ LifeOk(StreamSenderLife) /\ LifeOk(UdpSenderLife) /\ LifeOk(PosixFileLife)
  /\ LifeOk(WindowsFileLife) /\ LifeOk(VxWorks64FileLife) /\ LifeOk(FatFsFileLife)
  /\ LifeOk(PlusFatFileLife) /\ LifeOk(PosixDatagramLife) /\ LifeOk(WinsockDatagramLife)
  /\ LifeOk(VxWorks64DatagramLife) /\ LifeOk(PlusTcpDatagramLife) /\ LifeOk(LwipRawDatagramLife)
  /\ LifeOk(LwipSocketDatagramLife) /\ LifeOk(PosixTcpStreamLife) /\ LifeOk(WinsockTcpStreamLife)
  /\ LifeOk(VxWorks64TcpStreamLife) /\ LifeOk(PlusTcpTcpStreamLife) /\ LifeOk(LwipRawTcpStreamLife)
  /\ LifeOk(LwipSocketTcpStreamLife) /\ LifeOk(OpenSslStreamLife) /\ LifeOk(MbedTlsStreamLife)
  /\ LifeOk(WolfSslStreamLife) /\ LifeOk(MbedTlsPemBufferCredentialsLife)
BY DEF LifeOk, Life, Plain, OpenedLater,
     PosixMutexLife, FreeRtosMutexLife, CmsisRtosMutexLife, VxWorks64MutexLife, WindowsMutexLife,
     PosixMessageQueueBufferLife, LittleFsFileLife, FileBlockDeviceLife, StreamSenderLife,
     UdpSenderLife, PosixFileLife, WindowsFileLife, VxWorks64FileLife, FatFsFileLife,
     PlusFatFileLife, PosixDatagramLife, WinsockDatagramLife, VxWorks64DatagramLife,
     PlusTcpDatagramLife, LwipRawDatagramLife, LwipSocketDatagramLife, PosixTcpStreamLife,
     WinsockTcpStreamLife, VxWorks64TcpStreamLife, PlusTcpTcpStreamLife, LwipRawTcpStreamLife,
     LwipSocketTcpStreamLife, OpenSslStreamLife, MbedTlsStreamLife, WolfSslStreamLife,
     MbedTlsPemBufferCredentialsLife

LEMMA PlainClassesOk ==
  /\ ClassOk(CircularBuffer) /\ ClassOk(PassthroughBuffer) /\ ClassOk(FileBlockDevice)
  /\ ClassOk(MetaSd) /\ ClassOk(OriginSd) /\ ClassOk(TimeQualitySd)
  /\ ClassOk(StreamSender) /\ ClassOk(SwitchingSender) /\ ClassOk(UdpSender)
  /\ ClassOk(PosixMutex) /\ ClassOk(FreeRtosMutex) /\ ClassOk(CmsisRtosMutex)
  /\ ClassOk(VxWorks64Mutex) /\ ClassOk(WindowsMutex) /\ ClassOk(StdAtomicCounter)
  /\ ClassOk(VxWorks64AtomicCounter) /\ ClassOk(WindowsAtomicCounter) /\ ClassOk(PosixFile)
  /\ ClassOk(WindowsFile) /\ ClassOk(VxWorks64File) /\ ClassOk(FatFsFile)
  /\ ClassOk(PlusFatFile) /\ ClassOk(LittleFsFile) /\ ClassOk(PosixResolver)
  /\ ClassOk(WinsockResolver) /\ ClassOk(VxWorks64Resolver) /\ ClassOk(PlusTcpResolver)
  /\ ClassOk(LwipRawResolver) /\ ClassOk(LwipSocketResolver) /\ ClassOk(LwipRawDnsResolver)
  /\ ClassOk(PosixDatagram) /\ ClassOk(WinsockDatagram) /\ ClassOk(VxWorks64Datagram)
  /\ ClassOk(PlusTcpDatagram) /\ ClassOk(LwipRawDatagram) /\ ClassOk(LwipSocketDatagram)
  /\ ClassOk(PosixTcpStream) /\ ClassOk(WinsockTcpStream) /\ ClassOk(VxWorks64TcpStream)
  /\ ClassOk(PlusTcpTcpStream) /\ ClassOk(LwipRawTcpStream) /\ ClassOk(LwipSocketTcpStream)
  /\ ClassOk(OpenSslStream) /\ ClassOk(MbedTlsStream) /\ ClassOk(WolfSslStream)
BY PooledOk, LivesOk DEF
     CircularBuffer, PassthroughBuffer, FileBlockDevice, MetaSd, OriginSd, TimeQualitySd,
     StreamSender, SwitchingSender, UdpSender, PosixMutex, FreeRtosMutex, CmsisRtosMutex,
     VxWorks64Mutex, WindowsMutex, StdAtomicCounter, VxWorks64AtomicCounter, WindowsAtomicCounter,
     PosixFile, WindowsFile, VxWorks64File, FatFsFile, PlusFatFile, LittleFsFile, PosixResolver,
     WinsockResolver, VxWorks64Resolver, PlusTcpResolver, LwipRawResolver, LwipSocketResolver,
     LwipRawDnsResolver, PosixDatagram, WinsockDatagram, VxWorks64Datagram, PlusTcpDatagram,
     LwipRawDatagram, LwipSocketDatagram, PosixTcpStream, WinsockTcpStream, VxWorks64TcpStream,
     PlusTcpTcpStream, LwipRawTcpStream, LwipSocketTcpStream, OpenSslStream, MbedTlsStream,
     WolfSslStream

LEMMA OtherClassesOk ==
  /\ ClassOk(SolidSyslog) /\ ClassOk(BlockStore) /\ ClassOk(RecordStore)
  /\ ClassOk(BlockSequence) /\ ClassOk(SharedScratch) /\ ClassOk(PosixMessageQueueBuffer)
  /\ ClassOk(PosixAddress) /\ ClassOk(WinsockAddress) /\ ClassOk(VxWorks64Address)
  /\ ClassOk(PlusTcpAddress) /\ ClassOk(LwipRawAddress) /\ ClassOk(LwipSocketAddress)
  /\ ClassOk(OpenSslPemFileCredentials) /\ ClassOk(MbedTlsPemBufferCredentials) /\ ClassOk(MbedTlsHandleCredentials)
  /\ ClassOk(WolfSslPemBufferCredentials) /\ ClassOk(OpenSslAesGcmPolicy) /\ ClassOk(MbedTlsAesGcmPolicy)
  /\ ClassOk(WolfSslAesGcmPolicy) /\ ClassOk(OpenSslHmacSha256Policy) /\ ClassOk(MbedTlsHmacSha256Policy)
  /\ ClassOk(WolfSslHmacSha256Policy)
BY PooledOk, PooledKeptOk, LivesOk
DEF ClassOk, Pooled, PooledKept, PooledPolicy, PooledAddress, InnerPool, Life, Plain, PosixMessageQueueBufferLife,
     SolidSyslog, BlockStore, RecordStore, BlockSequence, SharedScratch, PosixMessageQueueBuffer,
     PosixAddress, WinsockAddress, VxWorks64Address, PlusTcpAddress, LwipRawAddress,
     LwipSocketAddress, OpenSslPemFileCredentials, MbedTlsPemBufferCredentials,
     MbedTlsHandleCredentials, WolfSslPemBufferCredentials, OpenSslAesGcmPolicy, MbedTlsAesGcmPolicy,
     WolfSslAesGcmPolicy, OpenSslHmacSha256Policy, MbedTlsHmacSha256Policy, WolfSslHmacSha256Policy

LEMMA ClassesOk == \A c \in Classes : ClassOk(ClassNamed[c])
<1>1. \A c \in DOMAIN ClassNamed : ClassOk(ClassNamed[c])
  BY PlainClassesOk, OtherClassesOk DEF ClassNamed
<1> QED
  BY <1>1, ClassesAssumption

LEMMA IdleFacts ==
  /\ TaskType(Idle) /\ Idle.pc = "idle" /\ Idle.call = "none" /\ Idle.pool = "own"
  /\ Idle.index = 0 /\ Idle.told = <<>>
  /\ Idle.claimed = [p \in Allocators |-> Count]
  /\ \A p \in Allocators : Idle.claimed[p] = Free
BY PoolsAssumption DEF Idle, TaskType, Allocators, Steps, Walking, Giving, Free

LEMMA PoolInit == Init => PoolInv
<1> SUFFICES ASSUME Init PROVE PoolInv
  OBVIOUS
<1>0. ClassOk(C)
  BY ClassesOk DEF Init, C
<1>1. /\ \A t \in Tasks : task[t] = Idle /\ owned[t] = {}
      /\ \A p \in Allocators, u \in Slots : ~inUse[p][u]
      /\ \A u \in Slots : object[u].native = "none"
  BY DEF Init
<1>2. TypeInv
  <2>1. inUse \in [Allocators -> [Slots -> BOOLEAN]]
    BY DEF Init
  <2>2. object \in [Slots -> Objects]
    BY PoolsAssumption DEF Init, Objects
  <2>3. owned \in [Tasks -> SUBSET Slots] /\ task = [t \in Tasks |-> task[t]]
    BY DEF Init
  <2> QED
    BY <1>1, <2>1, <2>2, <2>3, IdleFacts DEF TypeInv
<1>3. TasksOk
  BY <1>1, IdleFacts DEF TasksOk, TaskOk, Holding, Walking, Giving
<1>4. LockInv
  BY <1>1, IdleFacts, PoolsAssumption DEF LockInv, Locked, Init
<1>5. InUseInv /\ DistinctInv
  BY <1>1, IdleFacts DEF InUseInv, DistinctInv
<1>6. CoverInv /\ ObjectInv
  <2>1. \A u \in Slots, q \in Inner : object[u][q] = Free
    BY DEF Init, Inner, Free
  <2> QED
    BY <1>1, <2>1, IdleFacts DEF CoverInv, ObjectInv, Allocators
<1> QED
  BY <1>0, <1>2, <1>3, <1>4, <1>5, <1>6 DEF PoolInv

-----------------------------------------------------------------------------
LockMoves(t) ==
  \/ UNCHANGED holder
  \/ holder = nobody /\ holder' = t
  \/ holder = t /\ holder' = nobody

\* The parts that every step shares: the task that moves is in order again, and
\* so is the lock.
LEMMA TaskMoves ==
  ASSUME PoolInv, NEW t \in Tasks, NEW k, task' = [task EXCEPT ![t] = k],
         TaskType(k), TaskOk(k, C), UNCHANGED class,
         LockMoves(t), k.pc \in Locked <=> holder' = t
  PROVE  /\ \A u \in Tasks : task'[u] = IF u = t THEN k ELSE task[u]
         /\ task' = [u \in Tasks |-> task'[u]] /\ \A u \in Tasks : TaskType(task'[u])
         /\ TasksOk' /\ LockInv' /\ ClassOk(C)' /\ C' = C
<1>1. task = [u \in Tasks |-> task[u]]
  BY DEF PoolInv, TypeInv
<1>2. /\ \A u \in Tasks : task'[u] = IF u = t THEN k ELSE task[u]
      /\ task' = [u \in Tasks |-> task'[u]]
  BY <1>1
<1>3. C' = C
  BY DEF C
<1>4. \A u \in Tasks : TaskType(task'[u])
  BY <1>2 DEF PoolInv, TypeInv
<1>5. TasksOk'
  BY <1>2, <1>3 DEF PoolInv, TasksOk
<1>6. LockInv'
  BY <1>2, PoolsAssumption DEF PoolInv, LockInv, LockMoves
<1> QED
  BY <1>2, <1>3, <1>4, <1>5, <1>6 DEF PoolInv

\* A step that leaves every slot with whoever had it.
LEMMA OnlyMoves ==
  ASSUME PoolInv, NEW t \in Tasks, NEW k, task' = [task EXCEPT ![t] = k],
         TaskType(k), TaskOk(k, C), LockMoves(t), k.pc \in Locked <=> holder' = t,
         k.claimed = task[t].claimed, UNCHANGED <<class, inUse, object, owned>>,
         k.pc = "claiming" => ~inUse[k.pool][k.index],
         k.claimed["own"] = Free \/ (Cleans(k) <=> Cleans(task[t]))
  PROVE  PoolInv'
<1>1. /\ \A u \in Tasks : task'[u] = IF u = t THEN k ELSE task[u]
      /\ task' = [u \in Tasks |-> task'[u]] /\ \A u \in Tasks : TaskType(task'[u])
      /\ TasksOk' /\ LockInv' /\ ClassOk(C)' /\ C' = C
  BY TaskMoves
<1>2. \A u \in Tasks : task'[u].claimed = task[u].claimed
  BY <1>1
<1>3. TypeInv'
  BY <1>1 DEF PoolInv, TypeInv
<1>4. InUseInv'
  BY <1>1, <1>2 DEF PoolInv, InUseInv
<1>5. DistinctInv'
  BY <1>1, <1>2 DEF PoolInv, DistinctInv
<1>6. CoverInv'
  BY <1>1, <1>2 DEF PoolInv, CoverInv, HasClaim
<1>7. ObjectInv'
  <2>1. \A u \in Tasks : task'[u].claimed["own"] # Free => (Cleans(task'[u]) <=> Cleans(task[u]))
    BY <1>1, <1>2
  <2> QED
    BY <1>1, <1>2, <2>1 DEF PoolInv, ObjectInv
<1> QED
  BY <1>1, <1>3, <1>4, <1>5, <1>6, <1>7 DEF PoolInv

\* The same, as one fact.
QuietMove(t, k) ==
  /\ task' = [task EXCEPT ![t] = k] /\ TaskType(k) /\ TaskOk(k, C)
  /\ LockMoves(t) /\ (k.pc \in Locked <=> holder' = t)
  /\ k.claimed = task[t].claimed
  /\ UNCHANGED <<class, inUse, object, owned>>
  /\ k.pc = "claiming" => ~inUse[k.pool][k.index]
  /\ Cleans(k) <=> Cleans(task[t])

LEMMA QuietMoves ==
  ASSUME PoolInv, NEW t \in Tasks, NEW k, QuietMove(t, k)
  PROVE  PoolInv'
<1>1. /\ task' = [task EXCEPT ![t] = k] /\ TaskType(k) /\ TaskOk(k, C)
      /\ LockMoves(t) /\ (k.pc \in Locked <=> holder' = t)
      /\ k.claimed = task[t].claimed
      /\ UNCHANGED <<class, inUse, object, owned>>
      /\ k.pc = "claiming" => ~inUse[k.pool][k.index]
      /\ Cleans(k) <=> Cleans(task[t])
  BY DEF QuietMove
<1> QED
  BY <1>1, OnlyMoves

\* A call that holds nothing ends.
LEMMA AtEnd ==
  ASSUME PoolInv, NEW t \in Tasks, NEW call \in {"none", "create", "destroy"}, NEW faults, NEW result, NEW k,
         k = [Idle EXCEPT !.call = call, !.told = faults, !.result = result], Go(t, k),
         call = "create" /\ C.tells => Len(faults) = IF result = "object" THEN 0 ELSE 1,
         \A p \in Allocators : task[t].claimed[p] = Free,
         task[t].pc \notin Locked, UNCHANGED <<class, inUse, object, holder, owned>>
  PROVE  PoolInv'
<1>1. /\ k.pc = "idle" /\ k.call = call /\ k.told = faults /\ k.result = result /\ k.pool = "own"
      /\ k.claimed = Idle.claimed /\ k.index = 0
      /\ k = [pc |-> "idle", call |-> call, pool |-> "own", index |-> 0,
              claimed |-> k.claimed, told |-> faults, result |-> result]
  BY DEF Idle
<1>a. TaskType(k)
  BY <1>1, IdleFacts DEF TaskType
<1>2. task[t].claimed = Idle.claimed
  BY IdleFacts DEF PoolInv, TypeInv, TaskType, Free
<1>3. TaskOk(k, C)
  BY <1>1, IdleFacts DEF TaskOk, Holding, Walking, Giving
<1>4. k.pc \in Locked <=> holder' = t
  BY <1>1 DEF PoolInv, LockInv, Locked
<1>5. k.claimed["own"] = Free
  BY <1>1, IdleFacts DEF Allocators
<1>6. task' = [task EXCEPT ![t] = k] /\ LockMoves(t) /\ k.pc # "claiming"
  BY <1>1 DEF Go, LockMoves
<1>7. k.claimed = task[t].claimed
  BY <1>1, <1>2
<1> QED
  BY <1>a, <1>3, <1>4, <1>5, <1>6, <1>7, OnlyMoves

LEMMA CreateStep ==
  ASSUME PoolInv, NEW t \in Tasks, NEW missing, Create(t, missing)
  PROVE  PoolInv'
<1>1. task[t].pc = "idle" /\ TaskType(task[t]) /\ TaskOk(task[t], C) /\ (task[t].pc \in Locked <=> holder = t)
  BY DEF Create, At, PoolInv, TypeInv, TasksOk, LockInv
<1>2. \A p \in Allocators : task[t].claimed[p] = Free
  BY <1>1 DEF TaskOk, Holding
<1>3. UNCHANGED <<class, inUse, object, holder, owned>>
  BY DEF Create
<1>4. CASE missing = {}
  <2> PICK k : k = [Idle EXCEPT !.pc = "acquire", !.call = "create"]
    OBVIOUS
  <2>1. /\ k.pc = "acquire" /\ k.call = "create" /\ k.pool = "own" /\ k.index = 0
        /\ k.claimed = Idle.claimed
        /\ k = [pc |-> "acquire", call |-> "create", pool |-> "own", index |-> 0,
                claimed |-> k.claimed, told |-> k.told, result |-> k.result]
    BY DEF Idle
  <2>a. TaskType(k)
    BY <2>1, IdleFacts DEF TaskType, Steps, Walking
  <2>2. task[t].claimed = Idle.claimed
    BY <1>1, <1>2, IdleFacts DEF TaskType, Free
  <2>3. TaskOk(k, C)
    BY <2>1, IdleFacts, PoolsAssumption DEF TaskOk, Holding, Walking, Giving, Before
  <2>4. k.pc \in Locked <=> holder' = t
    BY <1>1, <1>3, <2>1 DEF Locked
  <2>5. k.claimed["own"] = Free
    BY <2>1, IdleFacts DEF Allocators
  <2>6. Go(t, k)
    BY <1>4 DEF Create
  <2> QED
    BY <1>3, <2>1, <2>a, <2>2, <2>3, <2>4, <2>5, <2>6, OnlyMoves DEF Go, LockMoves
<1>5. CASE missing # {}
  <2> PICK faults, result : faults = <<C.requires[Min(missing)]>> /\ result = C.fallback
    OBVIOUS
  <2> PICK k : k = [Idle EXCEPT !.call = "create", !.told = faults, !.result = result]
    OBVIOUS
  <2>1. C.fallback # "object"
    BY DEF PoolInv, ClassOk
  <2>2. Go(t, k)
    BY <1>5 DEF Create
  <2>3. Len(faults) = (IF result = "object" THEN 0 ELSE 1) /\ task[t].pc \notin Locked
    BY <1>1, <2>1 DEF Locked
  <2> QED
    BY <1>2, <1>3, <2>2, <2>3, AtEnd
<1> QED
  BY <1>4, <1>5

LEMMA DestroyUnknownStep ==
  ASSUME PoolInv, NEW t \in Tasks, DestroyUnknown(t)
  PROVE  PoolInv'
<1>1. task[t].pc = "idle" /\ TaskOk(task[t], C)
  BY DEF DestroyUnknown, At, PoolInv, TasksOk
<1>2. \A p \in Allocators : task[t].claimed[p] = Free
  BY <1>1 DEF TaskOk, Holding
<1> PICK k : k = [Idle EXCEPT !.call = "destroy", !.told = Tell("UNKNOWN_DESTROY")]
  OBVIOUS
<1> PICK faults : faults = Tell("UNKNOWN_DESTROY")
  OBVIOUS
<1> PICK l : l = [Idle EXCEPT !.call = "destroy", !.told = faults, !.result = "none"]
  OBVIOUS
<1>3. Go(t, l)
  <2> DEFINE ended == [pc |-> "idle", call |-> "destroy", pool |-> "own", index |-> 0,
                       claimed |-> Idle.claimed, told |-> faults, result |-> "none"]
  <2>1. k = ended
    BY DEF Idle
  <2>2. l = ended
    BY DEF Idle
  <2>3. Go(t, k)
    BY DEF DestroyUnknown
  <2>4. k = l
    BY <2>1, <2>2
  <2> QED
    BY <2>3, <2>4
<1>4. task[t].pc \notin Locked /\ UNCHANGED <<class, inUse, object, holder, owned>>
  BY <1>1 DEF Locked, DestroyUnknown
<1> QED
  BY <1>2, <1>3, <1>4, AtEnd

LEMMA ClearStep ==
  ASSUME PoolInv, NEW t \in Tasks, ClearPendingEvents(t)
  PROVE  PoolInv'
<1>1. task[t].pc = "clearing" /\ TaskOk(task[t], C) /\ TaskType(task[t])
  BY DEF ClearPendingEvents, At, PoolInv, TasksOk, TypeInv
<1>2. task[t].call = "destroy" /\ \A p \in Allocators : task[t].claimed[p] = Free
  BY <1>1 DEF TaskOk, Holding
<1> PICK k : k = [Idle EXCEPT !.call = task[t].call, !.told = <<>>, !.result = "none"]
  OBVIOUS
<1>3. task[t].pc \notin Locked /\ UNCHANGED <<class, inUse, object, holder, owned>> /\ Go(t, k)
  BY <1>1 DEF Locked, ClearPendingEvents, Ends
<1> QED
  BY <1>2, <1>3, AtEnd

LEMMA LockStep ==
  ASSUME PoolInv, NEW t \in Tasks, LockConfig(t)
  PROVE  PoolInv'
<1> PICK r : r = task[t]
  OBVIOUS
<1>0. /\ TaskType(r) /\ TaskOk(r, C) /\ (r.pc \in Locked <=> holder = t)
      /\ r.pc \in {"acquire", "release"} /\ holder = nobody /\ holder' = t
      /\ UNCHANGED <<class, inUse, object, owned>>
  BY DEF LockConfig, PoolInv, TypeInv, TasksOk, LockInv
<1> PICK k : k = [r EXCEPT !.pc = IF r.pc = "acquire" THEN "looking" ELSE "freeing"]
  OBVIOUS
<1>1. /\ k.pc = IF r.pc = "acquire" THEN "looking" ELSE "freeing"
      /\ k.call = r.call /\ k.pool = r.pool /\ k.index = r.index /\ k.claimed = r.claimed
      /\ k.told = r.told /\ k.result = r.result
      /\ k = [pc |-> k.pc, call |-> k.call, pool |-> k.pool, index |-> k.index,
              claimed |-> k.claimed, told |-> k.told, result |-> k.result]
  BY <1>0 DEF TaskType
<1>2. TaskType(k)
  BY <1>0, <1>1 DEF TaskType, Steps, Walking, Giving
<1>3. TaskOk(k, C)
  BY <1>0, <1>1 DEF TaskOk, Holding, Walking, Giving
<1>4. (k.pc \in Locked <=> holder' = t) /\ LockMoves(t) /\ (Cleans(k) <=> Cleans(r)) /\ k.pc # "claiming"
  BY <1>0, <1>1 DEF Locked, LockMoves, Cleans
<1>5. task' = [task EXCEPT ![t] = k]
  BY DEF LockConfig, Go
<1> QED
  BY <1>0, <1>1, <1>2, <1>3, <1>4, <1>5, OnlyMoves

LEMMA TryClaimStep ==
  ASSUME PoolInv, NEW t \in Tasks, TryClaim(t)
  PROVE  PoolInv'
<1> PICK r : r = task[t]
  OBVIOUS
<1>0. /\ TaskType(r) /\ TaskOk(r, C) /\ r.pc = "looking" /\ holder = t
      /\ UNCHANGED <<class, inUse, object, owned>>
  BY DEF TryClaim, At, PoolInv, TypeInv, TasksOk, LockInv, Locked
<1>1. CASE inUse[r.pool][r.index]
  <2> PICK k : k = [r EXCEPT !.index = r.index + 1,
                             !.pc = IF r.index + 1 < Count THEN "acquire" ELSE "exhausted"]
    OBVIOUS
  <2>1. /\ k.pc = IF r.index + 1 < Count THEN "acquire" ELSE "exhausted"
        /\ k.call = r.call /\ k.pool = r.pool /\ k.index = r.index + 1 /\ k.claimed = r.claimed
        /\ k.told = r.told /\ k.result = r.result
        /\ k = [pc |-> k.pc, call |-> k.call, pool |-> k.pool, index |-> k.index,
                claimed |-> k.claimed, told |-> k.told, result |-> k.result]
    BY <1>0 DEF TaskType
  <2>2. TaskType(k)
    BY <1>0, <2>1, PoolsAssumption DEF TaskType, TaskOk, Steps, Walking, Giving
  <2>3. TaskOk(k, C)
    BY <1>0, <2>1 DEF TaskOk, Holding, Walking, Giving
  <2>4. task' = [task EXCEPT ![t] = k] /\ holder' = nobody
    BY <1>1 DEF TryClaim, Go, UnlockConfig
  <2>5. (k.pc \in Locked <=> holder' = t) /\ LockMoves(t) /\ (Cleans(k) <=> Cleans(r)) /\ k.pc # "claiming"
    BY <1>0, <2>1, <2>4, PoolsAssumption DEF Locked, LockMoves, Cleans
  <2>6. QuietMove(t, k)
    BY <1>0, <2>1, <2>2, <2>3, <2>4, <2>5 DEF QuietMove
  <2> QED
    BY <2>6, QuietMoves
<1>2. CASE ~inUse[r.pool][r.index]
  <2> PICK k : k = [r EXCEPT !.pc = "claiming"]
    OBVIOUS
  <2>1. /\ k.pc = "claiming"
        /\ k.call = r.call /\ k.pool = r.pool /\ k.index = r.index /\ k.claimed = r.claimed
        /\ k.told = r.told /\ k.result = r.result
        /\ k = [pc |-> k.pc, call |-> k.call, pool |-> k.pool, index |-> k.index,
                claimed |-> k.claimed, told |-> k.told, result |-> k.result]
    BY <1>0 DEF TaskType
  <2>2. TaskType(k)
    BY <1>0, <2>1 DEF TaskType, Steps, Walking, Giving
  <2>3. TaskOk(k, C)
    BY <1>0, <2>1 DEF TaskOk, Holding, Walking, Giving
  <2>4. task' = [task EXCEPT ![t] = k] /\ UNCHANGED holder
    BY <1>2 DEF TryClaim, Go
  <2>5. (k.pc \in Locked <=> holder' = t) /\ LockMoves(t) /\ (Cleans(k) <=> Cleans(r)) /\ ~inUse[k.pool][k.index]
    BY <1>0, <1>2, <2>1, <2>4 DEF Locked, LockMoves, Cleans
  <2>6. QuietMove(t, k)
    BY <1>0, <2>1, <2>2, <2>3, <2>4, <2>5 DEF QuietMove
  <2> QED
    BY <2>6, QuietMoves
<1> QED
  BY <1>1, <1>2

LEMMA AcquireNextStep ==
  ASSUME PoolInv, NEW t \in Tasks, AcquireNext(t)
  PROVE  PoolInv'
<1> PICK r : r = task[t]
  OBVIOUS
<1>0. /\ TaskType(r) /\ TaskOk(r, C) /\ r.pc = "initialise" /\ C.nested /\ r.pool # "sequence"
      /\ (r.pc \in Locked <=> holder = t)
      /\ UNCHANGED <<class, inUse, object, holder, owned>>
  BY DEF AcquireNext, HasMoreToAcquire, At, PoolInv, TypeInv, TasksOk, LockInv
<1> PICK k : k = [r EXCEPT !.pc = "acquire", !.pool = NextPool(r.pool), !.index = 0]
  OBVIOUS
<1>1. /\ k.pc = "acquire"
      /\ k.call = r.call /\ k.pool = NextPool(r.pool) /\ k.index = 0 /\ k.claimed = r.claimed
      /\ k.told = r.told /\ k.result = r.result
      /\ k = [pc |-> k.pc, call |-> k.call, pool |-> k.pool, index |-> k.index,
              claimed |-> k.claimed, told |-> k.told, result |-> k.result]
  BY <1>0 DEF TaskType
<1>a. \/ r.pool = "own" /\ k.pool = "record"
      \/ r.pool = "record" /\ k.pool = "sequence"
  BY <1>0, <1>1 DEF TaskType, NextPool, Allocators
<1>2. TaskType(k)
  BY <1>0, <1>1, <1>a, PoolsAssumption DEF TaskType, Steps, Walking, Allocators
<1>b. \A p \in Allocators : k.claimed[p] # Free <=> p \in Before(k.pool)
  <2>1. r.call = "create" /\ \A p \in Allocators : r.claimed[p] # Free <=> p \in Before(r.pool) \cup {r.pool}
    BY <1>0 DEF TaskOk, Holding, Walking
  <2>2. Before(k.pool) = Before(r.pool) \cup {r.pool}
    BY <1>a DEF Before
  <2> QED
    BY <1>1, <2>1, <2>2
<1>3. TaskOk(k, C)
  <2>1. r.call = "create"
    BY <1>0 DEF TaskOk
  <2>2. Holding(k, C.nested) = Before(k.pool)
    BY <1>1 DEF Holding, Walking
  <2>3. /\ C.nested /\ k.call = "create" /\ k.index < Count /\ k.pc \notin Giving
        /\ k.pc # "clearing" /\ k.pc # "idle"
    BY <1>0, <1>1, <2>1, PoolsAssumption DEF Giving
  <2> QED
    BY <1>b, <2>2, <2>3 DEF TaskOk
<1>4. (k.pc \in Locked <=> holder' = t) /\ LockMoves(t) /\ (Cleans(k) <=> Cleans(r)) /\ k.pc # "claiming"
  BY <1>0, <1>1 DEF Locked, LockMoves, Cleans
<1>5. task' = [task EXCEPT ![t] = k]
  BY DEF AcquireNext, Go
<1>6. QuietMove(t, k)
  BY <1>0, <1>1, <1>2, <1>3, <1>4, <1>5 DEF QuietMove
<1> QED
  BY <1>6, QuietMoves

LEMMA ExhaustedStep ==
  ASSUME PoolInv, NEW t \in Tasks, Exhausted(t)
  PROVE  PoolInv'
<1> PICK r : r = task[t]
  OBVIOUS
<1>0. /\ TaskType(r) /\ TaskOk(r, C) /\ r.pc = "exhausted" /\ r.call = "create"
      /\ (r.pc \in Locked <=> holder = t)
      /\ UNCHANGED <<class, inUse, object, holder, owned>>
  BY DEF Exhausted, At, PoolInv, TypeInv, TasksOk, TaskOk, Walking, LockInv
<1> PICK faults, result : faults = Tell("POOL_EXHAUSTED") /\ result = C.fallback
  OBVIOUS
<1>1. (C.tells => Len(faults) = 1) /\ result # "object"
  BY DEF Tell, PoolInv, ClassOk
<1>2. CASE r.pool = "own"
  <2> PICK k : k = [Idle EXCEPT !.call = r.call, !.told = faults, !.result = result]
    OBVIOUS
  <2>1. Go(t, k)
    BY <1>2 DEF Exhausted, Ends
  <2>2. \A p \in Allocators : r.claimed[p] = Free
    BY <1>0, <1>2 DEF TaskOk, Holding, Walking, Before
  <2>3. r.pc \notin Locked /\ (r.call = "create" /\ C.tells => Len(faults) = IF result = "object" THEN 0 ELSE 1)
    BY <1>0, <1>1 DEF Locked
  <2> QED
    BY <1>0, <2>1, <2>2, <2>3, AtEnd
<1>3. CASE r.pool # "own"
  <2> PICK k : k = [r EXCEPT !.pc = "release", !.pool = IF r.pool = "sequence" THEN "record" ELSE "own",
                             !.told = faults]
    OBVIOUS
  <2>1. /\ k.pc = "release" /\ k.pool = IF r.pool = "sequence" THEN "record" ELSE "own"
        /\ k.call = r.call /\ k.index = r.index /\ k.claimed = r.claimed
        /\ k.told = faults /\ k.result = r.result
        /\ k = [pc |-> k.pc, call |-> k.call, pool |-> k.pool, index |-> k.index,
                claimed |-> k.claimed, told |-> k.told, result |-> k.result]
    BY <1>0 DEF TaskType
  <2>2. TaskType(k)
    BY <1>0, <2>1 DEF TaskType, Steps, Walking, Giving, Allocators
  <2>3. TaskOk(k, C)
    BY <1>0, <1>1, <1>3, <2>1 DEF TaskType, TaskOk, Holding, Walking, Giving, Before, Allocators
  <2>4. (k.pc \in Locked <=> holder' = t) /\ LockMoves(t) /\ (Cleans(k) <=> Cleans(r)) /\ k.pc # "claiming"
    BY <1>0, <2>1 DEF Locked, LockMoves, Cleans
  <2>5. task' = [task EXCEPT ![t] = k]
    BY <1>3 DEF Exhausted, Go
  <2>6. QuietMove(t, k)
    BY <1>0, <2>1, <2>2, <2>3, <2>4, <2>5 DEF QuietMove
  <2> QED
    BY <2>6, QuietMoves
<1> QED
  BY <1>2, <1>3

LEMMA MarkInUseStep ==
  ASSUME PoolInv, NEW t \in Tasks, MarkInUse(t)
  PROVE  PoolInv'
<1> PICK r : r = task[t]
  OBVIOUS
<1> PICK p0, i0 : p0 = r.pool /\ i0 = r.index
  OBVIOUS
<1>0. /\ TaskType(r) /\ TaskOk(r, C) /\ r.pc = "claiming" /\ holder = t /\ holder' = nobody
      /\ UNCHANGED <<class, object, owned>> /\ r.call = "create" /\ ~inUse[p0][i0]
  BY DEF MarkInUse, UnlockConfig, At, PoolInv, TypeInv, TasksOk, TaskOk, Walking, LockInv, Locked, InUseInv
<1>1. p0 \in Allocators /\ i0 \in Slots /\ r.claimed \in [Allocators -> 0 .. Count]
  BY <1>0, PoolsAssumption DEF TaskType, TaskOk, Walking, Slots
<1>2. \A p \in Allocators : r.claimed[p] # Free <=> p \in Before(p0)
  BY <1>0 DEF TaskOk, Holding, Walking
<1>3. r.claimed[p0] = Free
  BY <1>1, <1>2 DEF Before, Allocators
<1> PICK k : k = [r EXCEPT !.claimed[p0] = i0, !.pc = "initialise"]
  OBVIOUS
<1>4. /\ k.pc = "initialise"
      /\ k.call = r.call /\ k.pool = r.pool /\ k.index = r.index
      /\ k.claimed = [r.claimed EXCEPT ![p0] = i0]
      /\ k.told = r.told /\ k.result = r.result
      /\ k = [pc |-> k.pc, call |-> k.call, pool |-> k.pool, index |-> k.index,
              claimed |-> k.claimed, told |-> k.told, result |-> k.result]
  BY <1>0 DEF TaskType
<1>5. /\ \A p \in Allocators : k.claimed[p] = IF p = p0 THEN i0 ELSE r.claimed[p]
      /\ k.claimed \in [Allocators -> 0 .. Count] /\ i0 # Free
  BY <1>1, <1>4, PoolsAssumption DEF Slots, Free
<1>6. TaskType(k)
  BY <1>0, <1>4, <1>5 DEF TaskType, Steps
<1>7. TaskOk(k, C)
  <2>1. Holding(k, C.nested) = Before(p0) \cup {p0}
    BY <1>0, <1>4 DEF Holding, Walking
  <2>2. \A p \in Allocators : k.claimed[p] # Free <=> p \in Holding(k, C.nested)
    BY <1>2, <1>5, <2>1
  <2>3. /\ k.call = "create" /\ k.pc \notin Giving /\ k.pc \notin Walking
        /\ k.pc # "clearing" /\ k.pc # "idle" /\ (~C.nested => k.pool = "own")
    BY <1>0, <1>4 DEF Giving, Walking, TaskOk
  <2> QED
    BY <2>2, <2>3 DEF TaskOk
<1>8. task' = [task EXCEPT ![t] = k] /\ inUse' = [inUse EXCEPT ![p0][i0] = TRUE]
  BY DEF MarkInUse, Go
<1>9. LockMoves(t) /\ (k.pc \in Locked <=> holder' = t)
  BY <1>0, <1>4, PoolsAssumption DEF LockMoves, Locked
<1>10. /\ \A u \in Tasks : task'[u] = IF u = t THEN k ELSE task[u]
       /\ task' = [u \in Tasks |-> task'[u]] /\ \A u \in Tasks : TaskType(task'[u])
       /\ TasksOk' /\ LockInv' /\ ClassOk(C)' /\ C' = C
  BY <1>0, <1>6, <1>7, <1>8, <1>9, TaskMoves
<1>11. /\ inUse' \in [Allocators -> [Slots -> BOOLEAN]]
       /\ \A p \in Allocators, s \in Slots : inUse'[p][s] <=> inUse[p][s] \/ (p = p0 /\ s = i0)
  BY <1>1, <1>8 DEF PoolInv, TypeInv
<1>12. \A u \in Tasks, p \in Allocators :
         task'[u].claimed[p] = IF u = t /\ p = p0 THEN i0 ELSE task[u].claimed[p]
  BY <1>5, <1>10
<1>13. TypeInv'
  BY <1>0, <1>10, <1>11 DEF PoolInv, TypeInv
<1>14. InUseInv'
  <2>1. \A u \in Tasks : task'[u].pc # "claiming"
    BY <1>0, <1>4, <1>10 DEF PoolInv, LockInv, Locked
  <2>2. \A u \in Tasks, p \in Allocators : task[u].claimed[p] \in 0 .. Count
    BY DEF PoolInv, TypeInv, TaskType
  <2>3. \A u \in Tasks, p \in Allocators : task'[u].claimed[p] # Free => inUse'[p][task'[u].claimed[p]]
    <3> SUFFICES ASSUME NEW u \in Tasks, NEW p \in Allocators, task'[u].claimed[p] # Free
                 PROVE  inUse'[p][task'[u].claimed[p]]
      OBVIOUS
    <3> PICK s : s = task[u].claimed[p]
      OBVIOUS
    <3>1. s \in 0 .. Count /\ (s # Free => inUse[p][s])
      BY <2>2 DEF PoolInv, InUseInv
    <3>2. s # Free => s \in Slots
      BY <3>1, PoolsAssumption DEF Free, Slots
    <3> QED
      BY <1>1, <1>11, <1>12, <3>1, <3>2
  <2>4. \A u \in Tasks : \A o \in owned[u] : o \in Slots /\ inUse'["own"][o]
    BY <1>11 DEF PoolInv, InUseInv, TypeInv, Allocators
  <2>5. ASSUME C.nested, NEW u \in Tasks, NEW o \in owned[u], NEW q \in Inner
        PROVE  object[o][q] # Free /\ inUse'[q][object[o][q]]
    <3>1. object[o][q] # Free /\ inUse[q][object[o][q]]
      BY <2>5 DEF PoolInv, InUseInv
    <3>2. object[o][q] \in 0 .. Count /\ q \in Allocators
      BY <2>4 DEF PoolInv, TypeInv, Objects, Inner, Allocators
    <3> QED
      BY <1>11, <3>1, <3>2, PoolsAssumption DEF Slots, Free
  <2> QED
    BY <1>0, <1>10, <2>1, <2>3, <2>4, <2>5 DEF InUseInv
<1>15. DistinctInv'
  <2>1. \A u \in Tasks : task[u].claimed[p0] # i0
    BY <1>0, <1>1, <1>5 DEF PoolInv, InUseInv
  <2>2. \A u \in Tasks : \A o \in owned[u] :
          /\ p0 = "own" => o # i0
          /\ C.nested /\ p0 \in Inner => object[o][p0] # i0
    BY <1>0 DEF PoolInv, InUseInv
  <2>3. \A v, u \in Tasks, p \in Allocators :
          v # u /\ task'[v].claimed[p] # Free => task'[v].claimed[p] # task'[u].claimed[p]
    BY <1>12, <2>1 DEF PoolInv, DistinctInv
  <2>4. \A v, u \in Tasks : \A o \in owned[u] :
          /\ task'[v].claimed["own"] # o
          /\ C.nested => \A q \in Inner : task'[v].claimed[q] # object[o][q]
    <3>1. "own" \in Allocators /\ \A q \in Inner : q \in Allocators
      BY DEF Allocators, Inner
    <3> QED
      BY <1>12, <2>2, <3>1 DEF PoolInv, DistinctInv
  <2> QED
    BY <1>0, <1>10, <2>3, <2>4 DEF PoolInv, DistinctInv
<1>16. CoverInv'
  <2> SUFFICES ASSUME NEW p \in Allocators, NEW s \in Slots, inUse'[p][s]
               PROVE  \E u \in Tasks : HasClaim(u, p, s)'
    BY DEF CoverInv
  <2>1. CASE p = p0 /\ s = i0
    BY <1>12, <2>1 DEF HasClaim
  <2>2. CASE ~(p = p0 /\ s = i0)
    <3>1. PICK u \in Tasks : HasClaim(u, p, s)
      BY <1>11, <2>2 DEF PoolInv, CoverInv
    <3>2. task[u].claimed[p] = s => task'[u].claimed[p] = s
      BY <1>3, <1>12, PoolsAssumption DEF Free, Slots
    <3> QED
      BY <1>0, <1>10, <3>1, <3>2 DEF HasClaim
  <2> QED
    BY <2>1, <2>2
<1>17. ObjectInv'
  <2>1. "own" \in Allocators /\ \A s \in Slots : ~inUse'["own"][s] => ~inUse["own"][s]
    BY <1>11 DEF Allocators
  <2>2. ~Cleans(k) /\ ~Cleans(r)
    BY <1>0, <1>4 DEF Cleans
  <2>3. \A u \in Tasks : Cleans(task'[u]) <=> Cleans(task[u])
    BY <1>10, <2>2
  <2>4. p0 = "own" => object[i0].native = "none"
    BY <1>0, <1>1 DEF PoolInv, ObjectInv
  <2> QED
    BY <1>0, <1>10, <1>12, <2>1, <2>2, <2>3, <2>4 DEF PoolInv, ObjectInv
<1> QED
  BY <1>10, <1>13, <1>14, <1>15, <1>16, <1>17 DEF PoolInv

LEMMA InitialiseStep ==
  ASSUME PoolInv, NEW t \in Tasks, NEW outcome \in InitialiseOutcomes, Initialise(t, outcome)
  PROVE  PoolInv'
<1> PICK r : r = task[t]
  OBVIOUS
<1> PICK s0, rec0, seq0 : s0 = r.claimed["own"] /\ rec0 = r.claimed["record"] /\ seq0 = r.claimed["sequence"]
  OBVIOUS
<1>0. /\ TaskType(r) /\ TaskOk(r, C) /\ r.pc = "initialise" /\ r.call = "create"
      /\ C.nested => r.pool = "sequence"
      /\ (r.pc \in Locked <=> holder = t)
      /\ UNCHANGED <<class, inUse, holder>>
  BY DEF Initialise, HasMoreToAcquire, At, PoolInv, TypeInv, TasksOk, TaskOk, LockInv
<1>1. /\ outcome \in {"live", "null", "failed"}
      /\ outcome = "null" => C.initialise = "mayFall"
      /\ outcome = "failed" => C.initialise = "mayFail"
  BY DEF InitialiseOutcomes, PoolInv, ClassOk
<1>2. ~C.nested => r.pool = "own"
  BY <1>0 DEF TaskOk
<1>3. \A p \in Allocators : r.claimed[p] # Free <=> p \in Before(r.pool) \cup {r.pool}
  BY <1>0 DEF TaskOk, Holding, Walking
<1>4. /\ s0 # Free
      /\ C.nested => rec0 # Free /\ seq0 # Free
      /\ ~C.nested => rec0 = Free /\ seq0 = Free
  BY <1>0, <1>2, <1>3 DEF Before, Allocators
<1>5. s0 \in Slots /\ rec0 \in 0 .. Count /\ seq0 \in 0 .. Count
  <2>1. s0 \in 0 .. Count /\ rec0 \in 0 .. Count /\ seq0 \in 0 .. Count
    BY <1>0 DEF TaskType, Allocators
  <2> QED
    BY <1>4, <2>1, PoolsAssumption DEF Slots, Free
<1> PICK o0 : o0 = [mode |-> IF outcome = "live" THEN "live" ELSE "null",
                    native |-> IF outcome = "live" /\ C.native = "created" THEN "held" ELSE "none",
                    record |-> rec0, sequence |-> seq0]
  OBVIOUS
<1>6. object' = [object EXCEPT ![s0] = o0]
  BY DEF Initialise
<1>7. /\ o0 \in Objects
      /\ o0.native \in {"none", "held"}
      /\ outcome = "failed" => o0.native = "none"
      /\ C.closes = "always" /\ outcome # "failed" => o0.native = "held"
      /\ outcome # "failed" => o0.mode = "live" \/ C.initialise = "mayFall"
      /\ o0.record = rec0 /\ o0.sequence = seq0
      /\ o0["record"] = rec0 /\ o0["sequence"] = seq0
  BY <1>1, <1>5 DEF Objects, PoolInv, ClassOk
<1>8. /\ object' \in [Slots -> Objects]
      /\ \A s \in Slots : object'[s] = IF s = s0 THEN o0 ELSE object[s]
  BY <1>5, <1>6, <1>7 DEF PoolInv, TypeInv
<1>9. /\ inUse["own"][s0] /\ \A u \in Tasks : s0 \notin owned[u]
      /\ \A u \in Tasks : u # t => task[u].claimed["own"] # s0
  BY <1>4 DEF PoolInv, InUseInv, DistinctInv, Allocators
<1>a. \A u \in Tasks, p \in Allocators : task[u].claimed[p] \in 0 .. Count
  BY DEF PoolInv, TypeInv, TaskType
<1>b. \A u \in Tasks : \A o \in owned[u] : o \in Slots /\ object'[o] = object[o]
  BY <1>8, <1>9 DEF PoolInv, TypeInv
<1>c. \A u \in Tasks : u # t /\ task[u].claimed["own"] # Free =>
        object'[task[u].claimed["own"]] = object[task[u].claimed["own"]]
  BY <1>8, <1>9, <1>a, PoolsAssumption DEF Slots, Free, Allocators
<1>d. ~C.nested => \A s \in Slots, q \in Inner : object'[s][q] = Free
  BY <1>4, <1>7, <1>8 DEF PoolInv, ObjectInv, Inner
<1>10. CASE outcome = "failed"
  <2> PICK k : k = [r EXCEPT !.pc = "release", !.told = <<"CREATE_FAILED">>]
    OBVIOUS
  <2>1. /\ k.pc = "release"
        /\ k.call = r.call /\ k.pool = r.pool /\ k.index = r.index
        /\ k.claimed = r.claimed
        /\ k.told = <<"CREATE_FAILED">> /\ k.result = r.result
        /\ k = [pc |-> k.pc, call |-> k.call, pool |-> k.pool, index |-> k.index,
                claimed |-> k.claimed, told |-> k.told, result |-> k.result]
    BY <1>0 DEF TaskType
  <2>2. TaskType(k)
    BY <1>0, <2>1 DEF TaskType, Steps, Giving
  <2>3. ~C.nested /\ r.pool = "own"
    BY <1>1, <1>2, <1>10 DEF PoolInv, ClassOk
  <2>4. TaskOk(k, C)
    <3>1. Len(k.told) = 1
      BY <2>1
    <3>2. Holding(k, C.nested) = Before(r.pool) \cup {r.pool}
      BY <1>0, <2>1 DEF Holding, Walking
    <3>3. /\ k.call = "create" /\ k.pc \in Giving /\ k.pc \notin Walking /\ k.pc # "initialise"
          /\ k.pc # "clearing" /\ k.pc # "idle" /\ k.pool = "own"
      BY <1>0, <2>1, <2>3 DEF Giving, Walking
    <3> QED
      BY <1>1, <1>3, <1>10, <2>1, <3>1, <3>2, <3>3 DEF TaskOk
  <2>5. task' = [task EXCEPT ![t] = k] /\ UNCHANGED owned
    BY <1>10 DEF Initialise, Go
  <2>6. LockMoves(t) /\ (k.pc \in Locked <=> holder' = t)
    BY <1>0, <2>1 DEF LockMoves, Locked
  <2>7. /\ \A u \in Tasks : task'[u] = IF u = t THEN k ELSE task[u]
        /\ task' = [u \in Tasks |-> task'[u]] /\ \A u \in Tasks : TaskType(task'[u])
        /\ TasksOk' /\ LockInv' /\ ClassOk(C)' /\ C' = C
    BY <1>0, <2>2, <2>4, <2>5, <2>6, TaskMoves
  <2>8. \A u \in Tasks : task'[u].claimed = task[u].claimed
    BY <2>1, <2>7
  <2>9. TypeInv'
    BY <1>0, <1>8, <2>5, <2>7 DEF PoolInv, TypeInv
  <2>10. InUseInv'
    BY <1>0, <2>1, <2>3, <2>5, <2>7, <2>8 DEF PoolInv, InUseInv
  <2>11. DistinctInv'
    BY <2>3, <2>5, <2>7, <2>8 DEF PoolInv, DistinctInv
  <2>12. CoverInv'
    BY <1>0, <2>3, <2>5, <2>7, <2>8 DEF PoolInv, CoverInv, HasClaim
  <2>13. ObjectInv'
    <3>1. ~Cleans(k) /\ ~Cleans(r)
      BY <1>0, <2>1 DEF Cleans
    <3>2. \A u \in Tasks : Cleans(task'[u]) <=> Cleans(task[u])
      BY <2>7, <3>1
    <3>3. object'[s0].native = "none"
      BY <1>5, <1>7, <1>8, <1>10
    <3>4. \A s \in Slots : ~inUse'["own"][s] => object'[s].native = "none"
      BY <1>0, <1>8, <1>9 DEF PoolInv, ObjectInv
    <3>5. \A u \in Tasks : task'[u].claimed["own"] # Free /\ ~Cleans(task'[u]) =>
            object'[task'[u].claimed["own"]].native = "none"
      BY <1>c, <2>8, <3>2, <3>3 DEF PoolInv, ObjectInv
    <3>6. C.closes = "always" => \A u \in Tasks :
            /\ \A o \in owned[u] : object'[o].native = "held"
            /\ task'[u].claimed["own"] # Free /\ Cleans(task'[u]) =>
                 object'[task'[u].claimed["own"]].native = "held"
      BY <1>b, <1>c, <2>8, <3>1, <3>2 DEF PoolInv, ObjectInv
    <3>7. \A u \in Tasks : \A o \in owned[u] : object'[o].mode = "live" \/ C.initialise = "mayFall"
      BY <1>b DEF PoolInv, ObjectInv
    <3> QED
      BY <1>d, <2>5, <2>7, <3>4, <3>5, <3>6, <3>7 DEF ObjectInv
  <2> QED
    BY <2>7, <2>9, <2>10, <2>11, <2>12, <2>13 DEF PoolInv
<1>11. CASE outcome # "failed"
  <2> PICK k : k = [Idle EXCEPT !.call = r.call, !.told = <<>>, !.result = "object"]
    OBVIOUS
  <2>1. /\ k.pc = "idle" /\ k.call = "create" /\ k.pool = "own" /\ k.index = 0
        /\ k.claimed = Idle.claimed /\ k.told = <<>> /\ k.result = "object"
        /\ k = [pc |-> "idle", call |-> "create", pool |-> "own", index |-> 0,
                claimed |-> k.claimed, told |-> <<>>, result |-> "object"]
    BY <1>0 DEF Idle
  <2>2. TaskType(k)
    BY <2>1, IdleFacts DEF TaskType
  <2>3. \A p \in Allocators : k.claimed[p] = Free
    BY <2>1, IdleFacts
  <2>4. TaskOk(k, C)
    BY <2>1, <2>3 DEF TaskOk, Holding, Walking, Giving
  <2>5. task' = [task EXCEPT ![t] = k] /\ owned' = [owned EXCEPT ![t] = @ \cup {s0}]
    BY <1>11 DEF Initialise, Ends, Go
  <2>6. LockMoves(t) /\ (k.pc \in Locked <=> holder' = t)
    BY <1>0, <2>1 DEF LockMoves, Locked
  <2>7. /\ \A u \in Tasks : task'[u] = IF u = t THEN k ELSE task[u]
        /\ task' = [u \in Tasks |-> task'[u]] /\ \A u \in Tasks : TaskType(task'[u])
        /\ TasksOk' /\ LockInv' /\ ClassOk(C)' /\ C' = C
    BY <1>0, <2>2, <2>4, <2>5, <2>6, TaskMoves
  <2>8. /\ owned' \in [Tasks -> SUBSET Slots]
        /\ \A u \in Tasks, o \in Slots : o \in owned'[u] <=> o \in owned[u] \/ (u = t /\ o = s0)
        /\ \A u \in Tasks : \A o \in owned'[u] : o \in Slots
    BY <1>5, <2>5 DEF PoolInv, TypeInv
  <2>9. \A u \in Tasks, p \in Allocators : task'[u].claimed[p] = IF u = t THEN Free ELSE task[u].claimed[p]
    BY <2>3, <2>7
  <2>10. TypeInv'
    BY <1>0, <1>8, <2>7, <2>8 DEF PoolInv, TypeInv
  <2>a. object'[s0] = o0
    BY <1>5, <1>8
  <2>b. C.nested => \A q \in Inner : /\ q \in Allocators /\ o0[q] = r.claimed[q] /\ r.claimed[q] # Free
                                      /\ inUse[q][o0[q]]
    BY <1>4, <1>7 DEF Inner, Allocators, PoolInv, InUseInv
  <2>11. InUseInv'
    <3>1. \A u \in Tasks, p \in Allocators : task'[u].claimed[p] # Free => inUse[p][task'[u].claimed[p]]
      BY <2>9 DEF PoolInv, InUseInv
    <3>2. \A u \in Tasks : \A o \in owned'[u] :
            /\ inUse["own"][o]
            /\ C.nested => \A q \in Inner : object'[o][q] # Free /\ inUse[q][object'[o][q]]
      BY <1>9, <1>b, <2>8, <2>a, <2>b DEF PoolInv, InUseInv
    <3>3. \A u \in Tasks : task'[u].pc = "claiming" => ~inUse[task'[u].pool][task'[u].index]
      BY <2>1, <2>7 DEF PoolInv, InUseInv
    <3> QED
      BY <1>0, <2>7, <3>1, <3>2, <3>3 DEF InUseInv
  <2>12. DistinctInv'
    <3>1. \A v, u \in Tasks, p \in Allocators :
            v # u /\ task'[v].claimed[p] # Free => task'[v].claimed[p] # task'[u].claimed[p]
      BY <2>9 DEF PoolInv, DistinctInv
    <3>2. \A v, u \in Tasks : \A o \in owned'[u] : task'[v].claimed["own"] # o
      BY <1>4, <1>9, <2>8, <2>9, PoolsAssumption DEF PoolInv, DistinctInv, Allocators, Slots, Free
    <3>3. ASSUME C.nested, NEW v \in Tasks, NEW u \in Tasks, NEW o \in owned'[u], NEW q \in Inner
          PROVE  task'[v].claimed[q] # object'[o][q]
      <4>1. q \in Allocators
        BY DEF Inner, Allocators
      <4>2. CASE o \in owned[u]
        <5>1. object[o][q] # Free /\ task[v].claimed[q] # object[o][q]
          BY <3>3, <4>2 DEF PoolInv, InUseInv, DistinctInv
        <5> QED
          BY <1>b, <2>9, <4>1, <4>2, <5>1
      <4>3. CASE o = s0
        BY <2>9, <2>a, <2>b, <3>3, <4>1, <4>3 DEF PoolInv, DistinctInv
      <4> QED
        BY <2>8, <4>2, <4>3
    <3>4. \A v, u \in Tasks : v # u => owned'[v] \cap owned'[u] = {}
      BY <1>9, <2>8 DEF PoolInv, DistinctInv
    <3>5. ASSUME C.nested, NEW v \in Tasks, NEW u \in Tasks, NEW o \in owned'[v], NEW oo \in owned'[u],
                 o # oo, NEW q \in Inner
          PROVE  object'[o][q] # object'[oo][q]
      <4>1. \A w \in Tasks : \A x \in owned[w] : object[x][q] # o0[q]
        BY <2>b, <3>5 DEF PoolInv, DistinctInv
      <4>2. CASE o \in owned[v] /\ oo \in owned[u]
        BY <1>b, <3>5, <4>2 DEF PoolInv, DistinctInv
      <4>3. CASE o \in owned[v] /\ oo = s0
        BY <1>b, <2>a, <4>1, <4>3
      <4>4. CASE o = s0 /\ oo \in owned[u]
        BY <1>b, <2>a, <4>1, <4>4
      <4> QED
        BY <2>8, <3>5, <4>2, <4>3, <4>4
    <3> QED
      BY <2>7, <3>1, <3>2, <3>3, <3>4, <3>5 DEF DistinctInv
  <2>13. CoverInv'
    <3> SUFFICES ASSUME NEW p \in Allocators, NEW s \in Slots, inUse'[p][s]
                 PROVE  \E u \in Tasks : HasClaim(u, p, s)'
      BY DEF CoverInv
    <3>1. PICK u \in Tasks : HasClaim(u, p, s)
      BY <1>0 DEF PoolInv, CoverInv
    <3>2. CASE u = t /\ task[u].claimed[p] = s
      <4>1. s # Free
        BY PoolsAssumption DEF Slots, Free
      <4>2. CASE p = "own"
        BY <2>8, <3>2, <4>2 DEF HasClaim
      <4>3. CASE p # "own"
        <5>1. C.nested /\ p \in Inner
          BY <1>4, <3>2, <4>1, <4>3 DEF Allocators, Inner
        <5>2. s0 \in owned'[t] /\ object'[s0][p] = s
          BY <1>5, <2>8, <2>a, <2>b, <3>2, <5>1
        <5> QED
          BY <2>7, <4>3, <5>1, <5>2 DEF HasClaim
      <4> QED
        BY <4>2, <4>3
    <3>3. CASE ~(u = t /\ task[u].claimed[p] = s)
      <4>1. task[u].claimed[p] = s => task'[u].claimed[p] = s
        BY <2>9, <3>3
      <4>2. \A o \in owned[u] : o \in owned'[u] /\ object'[o] = object[o]
        BY <1>b, <2>8
      <4> QED
        BY <2>7, <3>1, <4>1, <4>2 DEF HasClaim
    <3> QED
      BY <3>2, <3>3
  <2>14. ObjectInv'
    <3>1. ~Cleans(k)
      BY <2>1 DEF Cleans
    <3>2. \A u \in Tasks : u # t => (Cleans(task'[u]) <=> Cleans(task[u]))
      BY <2>7
    <3>3. "own" \in Allocators
      BY DEF Allocators
    <3>4. \A s \in Slots : ~inUse'["own"][s] => object'[s].native = "none"
      BY <1>0, <1>8, <1>9 DEF PoolInv, ObjectInv
    <3>5. \A u \in Tasks : task'[u].claimed["own"] # Free /\ ~Cleans(task'[u]) =>
            object'[task'[u].claimed["own"]].native = "none"
      BY <1>c, <2>9, <3>2, <3>3 DEF PoolInv, ObjectInv
    <3>6. C.closes = "always" => \A u \in Tasks :
            /\ \A o \in owned'[u] : object'[o].native = "held"
            /\ task'[u].claimed["own"] # Free /\ Cleans(task'[u]) =>
                 object'[task'[u].claimed["own"]].native = "held"
      BY <1>7, <1>11, <1>b, <1>c, <2>8, <2>9, <2>a, <3>2, <3>3 DEF PoolInv, ObjectInv
    <3>7. \A u \in Tasks : \A o \in owned'[u] : object'[o].mode = "live" \/ C.initialise = "mayFall"
      BY <1>7, <1>11, <1>b, <2>8, <2>a DEF PoolInv, ObjectInv
    <3> QED
      BY <1>d, <2>7, <3>4, <3>5, <3>6, <3>7 DEF ObjectInv
  <2> QED
    BY <2>7, <2>10, <2>11, <2>12, <2>13, <2>14 DEF PoolInv
<1> QED
  BY <1>10, <1>11

LEMMA DestroyStep ==
  ASSUME PoolInv, NEW t \in Tasks, NEW s0 \in Slots, Destroy(t, s0)
  PROVE  PoolInv'
<1> PICK r, o0 : r = task[t] /\ o0 = object[s0]
  OBVIOUS
<1>0. /\ TaskType(r) /\ TaskOk(r, C) /\ r.pc = "idle" /\ s0 \in owned[t]
      /\ (r.pc \in Locked <=> holder = t)
      /\ UNCHANGED <<class, inUse, object, holder>>
  BY DEF Destroy, At, PoolInv, TypeInv, TasksOk, LockInv
<1>1. o0 \in Objects /\ o0["record"] = o0.record /\ o0["sequence"] = o0.sequence
  BY DEF PoolInv, TypeInv
<1> PICK k : k = [Idle EXCEPT !.pc = "release", !.call = "destroy",
                    !.claimed = [own |-> s0, record |-> o0.record, sequence |-> o0.sequence]]
  OBVIOUS
<1>2. /\ k.pc = "release" /\ k.call = "destroy" /\ k.pool = "own" /\ k.index = 0
      /\ k.claimed = [own |-> s0, record |-> o0.record, sequence |-> o0.sequence]
      /\ k = [pc |-> k.pc, call |-> k.call, pool |-> k.pool, index |-> k.index,
              claimed |-> k.claimed, told |-> k.told, result |-> k.result]
  BY DEF Idle
<1>3. /\ k.claimed["own"] = s0 /\ k.claimed["record"] = o0.record /\ k.claimed["sequence"] = o0.sequence
      /\ \A q \in Inner : k.claimed[q] = o0[q]
  BY <1>1, <1>2 DEF Inner
<1>4. k.claimed \in [Allocators -> 0 .. Count]
  <2>1. s0 \in 0 .. Count /\ o0.record \in 0 .. Count /\ o0.sequence \in 0 .. Count
    BY <1>1, PoolsAssumption DEF Slots, Objects
  <2> QED
    BY <1>2, <2>1 DEF Allocators
<1>5. TaskType(k)
  BY <1>2, <1>4, PoolsAssumption DEF TaskType, Steps, Giving, Allocators
<1>6. s0 # Free /\ (C.nested => \A q \in Inner : o0[q] # Free) /\ (~C.nested => \A q \in Inner : o0[q] = Free)
  <2>1. s0 # Free
    BY PoolsAssumption DEF Slots, Free
  <2>2. C.nested => \A q \in Inner : o0[q] # Free
    BY <1>0 DEF PoolInv, InUseInv
  <2>3. ~C.nested => \A q \in Inner : o0[q] = Free
    BY DEF PoolInv, ObjectInv
  <2> QED
    BY <2>1, <2>2, <2>3
<1>7. TaskOk(k, C)
  <2>1. Holding(k, C.nested) = IF C.nested THEN Allocators ELSE {"own"}
    BY <1>2 DEF Holding, Walking, ToRelease
  <2>2. \A p \in Allocators : k.claimed[p] # Free <=> p \in Holding(k, C.nested)
    BY <1>3, <1>6, <2>1 DEF Allocators, Inner
  <2>3. /\ k.pc \notin Walking /\ k.pc # "initialise" /\ k.pc # "clearing" /\ k.pc # "idle"
        /\ k.call = "destroy" /\ k.pool = "own"
    BY <1>2 DEF Walking
  <2> QED
    BY <2>2, <2>3 DEF TaskOk
<1>8. task' = [task EXCEPT ![t] = k] /\ owned' = [owned EXCEPT ![t] = @ \ {s0}]
  BY DEF Destroy, Go
<1>9. LockMoves(t) /\ (k.pc \in Locked <=> holder' = t)
  BY <1>0, <1>2 DEF LockMoves, Locked
<1>10. /\ \A u \in Tasks : task'[u] = IF u = t THEN k ELSE task[u]
       /\ task' = [u \in Tasks |-> task'[u]] /\ \A u \in Tasks : TaskType(task'[u])
       /\ TasksOk' /\ LockInv' /\ ClassOk(C)' /\ C' = C
  BY <1>0, <1>5, <1>7, <1>8, <1>9, TaskMoves
<1>e. task'[t] = k /\ \A u \in Tasks : u # t => task'[u] = task[u]
  BY <1>10
<1>11. /\ owned' \in [Tasks -> SUBSET Slots]
       /\ \A u \in Tasks, o \in Slots : o \in owned'[u] <=> o \in owned[u] /\ ~(u = t /\ o = s0)
       /\ \A u \in Tasks : \A o \in owned'[u] : o \in Slots /\ o \in owned[u] /\ o # s0
  <2>1. /\ owned' \in [Tasks -> SUBSET Slots]
        /\ \A u \in Tasks, o \in Slots : o \in owned'[u] <=> o \in owned[u] /\ ~(u = t /\ o = s0)
        /\ \A u \in Tasks : \A o \in owned'[u] : o \in Slots
    BY <1>8 DEF PoolInv, TypeInv
  <2>2. \A u \in Tasks : u # t => s0 \notin owned[u]
    BY <1>0 DEF PoolInv, DistinctInv
  <2> QED
    BY <2>1, <2>2
<1>12. \A p \in Allocators : r.claimed[p] = Free
  BY <1>0 DEF TaskOk, Holding
<1>13. TypeInv'
  BY <1>0, <1>10, <1>11 DEF PoolInv, TypeInv
<1>14. InUseInv'
  <2>1. \A p \in Allocators : k.claimed[p] # Free => inUse[p][k.claimed[p]]
    BY <1>0, <1>3, <1>6 DEF PoolInv, InUseInv, Allocators, Inner
  <2>2. \A u \in Tasks, p \in Allocators : task'[u].claimed[p] # Free => inUse[p][task'[u].claimed[p]]
    BY <1>10, <2>1 DEF PoolInv, InUseInv
  <2>3. \A u \in Tasks : task'[u].pc = "claiming" => ~inUse[task'[u].pool][task'[u].index]
    BY <1>2, <1>10 DEF PoolInv, InUseInv
  <2>4. \A u \in Tasks : \A o \in owned'[u] :
          /\ inUse["own"][o]
          /\ C.nested => \A q \in Inner : object[o][q] # Free /\ inUse[q][object[o][q]]
    BY <1>11 DEF PoolInv, InUseInv
  <2> QED
    BY <1>0, <1>10, <2>2, <2>3, <2>4 DEF InUseInv
<1>15. DistinctInv'
  <2>1. ASSUME NEW u \in Tasks, u # t, NEW p \in Allocators, k.claimed[p] # Free
        PROVE  k.claimed[p] # task[u].claimed[p]
    <3>1. CASE p = "own"
      BY <1>0, <1>3, <3>1 DEF PoolInv, DistinctInv
    <3>2. CASE p # "own"
      <4>1. p \in Inner
        BY <3>2 DEF Inner, Allocators
      <4>2. C.nested
        BY <1>3, <1>6, <2>1, <4>1
      <4> QED
        BY <1>0, <1>3, <4>1, <4>2 DEF PoolInv, DistinctInv
    <3> QED
      BY <3>1, <3>2
  <2>2. ASSUME NEW v \in Tasks, NEW u \in Tasks, NEW p \in Allocators, v # u, task'[v].claimed[p] # Free
        PROVE  task'[v].claimed[p] # task'[u].claimed[p]
    <3>1. CASE v = t
      <4>1. task'[v] = k /\ task'[u] = task[u] /\ u # t
        BY <1>e, <2>2, <3>1
      <4> QED
        BY <2>1, <2>2, <4>1
    <3>2. CASE u = t
      <4>1. task'[u] = k /\ task'[v] = task[v] /\ v # t
        BY <1>e, <2>2, <3>2
      <4> QED
        BY <2>1, <2>2, <4>1
    <3>3. CASE v # t /\ u # t
      BY <1>10, <2>2, <3>3 DEF PoolInv, DistinctInv
    <3> QED
      BY <3>1, <3>2, <3>3
  <2>3. ASSUME NEW v \in Tasks, NEW u \in Tasks, NEW o \in owned'[u]
        PROVE  /\ task'[v].claimed["own"] # o
               /\ C.nested => \A q \in Inner : task'[v].claimed[q] # object[o][q]
    <3>1. o \in owned[u] /\ o # s0
      BY <1>11
    <3>2. CASE v = t
      <4>1. s0 # o /\ (C.nested => \A q \in Inner : o0[q] # object[o][q])
        BY <1>0, <3>1 DEF PoolInv, DistinctInv
      <4>2. task'[v] = k
        BY <1>e, <3>2
      <4>3. task'[v].claimed["own"] = s0 /\ \A q \in Inner : task'[v].claimed[q] = o0[q]
        BY <1>3, <4>2
      <4> QED
        BY <4>1, <4>3
    <3>3. CASE v # t
      BY <1>e, <3>1, <3>3 DEF PoolInv, DistinctInv
    <3> QED
      BY <3>2, <3>3
  <2>5. \A v, u \in Tasks : v # u => owned'[v] \cap owned'[u] = {}
    BY <1>11 DEF PoolInv, DistinctInv
  <2>6. C.nested => \A v, u \in Tasks : \A o \in owned'[v], oo \in owned'[u] :
          o # oo => \A q \in Inner : object[o][q] # object[oo][q]
    BY <1>11 DEF PoolInv, DistinctInv
  <2> QED
    BY <1>0, <1>10, <2>2, <2>3, <2>5, <2>6 DEF DistinctInv
<1>16. CoverInv'
  <2> SUFFICES ASSUME NEW p \in Allocators, NEW s \in Slots, inUse'[p][s]
               PROVE  \E u \in Tasks : HasClaim(u, p, s)'
    BY DEF CoverInv
  <2>0. s # Free
    BY PoolsAssumption DEF Slots, Free
  <2>1. PICK u \in Tasks : HasClaim(u, p, s)
    BY <1>0 DEF PoolInv, CoverInv
  <2>2. CASE task[u].claimed[p] = s
    <3>1. u # t
      BY <1>12, <2>0, <2>2
    <3>2. task'[u].claimed[p] = s
      BY <1>10, <2>2, <3>1
    <3> QED
      BY <3>2 DEF HasClaim
  <2>3. CASE p = "own" /\ s \in owned[u]
    <3>1. CASE s = s0
      <4>1. task'[t].claimed[p] = s
        BY <1>3, <1>10, <2>3, <3>1
      <4> QED
        BY <4>1 DEF HasClaim
    <3>2. CASE s # s0
      <4>1. s \in owned'[u]
        BY <1>11, <2>3, <3>2
      <4> QED
        BY <2>3, <4>1 DEF HasClaim
    <3> QED
      BY <3>1, <3>2
  <2>4. CASE p # "own" /\ C.nested /\ \E o \in owned[u] : object[o][p] = s
    <3>1. PICK o \in owned[u] : object[o][p] = s
      BY <2>4
    <3>2. o \in Slots /\ p \in Inner
      BY <2>4 DEF PoolInv, TypeInv, Inner, Allocators
    <3>3. CASE o = s0
      <4>1. task'[t].claimed[p] = s
        BY <1>3, <1>10, <3>1, <3>2, <3>3
      <4> QED
        BY <4>1 DEF HasClaim
    <3>4. CASE o # s0
      <4>1. o \in owned'[u] /\ object'[o][p] = s
        BY <1>0, <1>11, <3>1, <3>2, <3>4
      <4> QED
        BY <1>10, <2>4, <4>1 DEF HasClaim
    <3> QED
      BY <3>3, <3>4
  <2> QED
    BY <2>1, <2>2, <2>3, <2>4 DEF HasClaim
<1>17. ObjectInv'
  <2>1. Cleans(k)
    BY <1>2 DEF Cleans
  <2>2. \A u \in Tasks : u # t => task'[u] = task[u]
    BY <1>10
  <2>3. \A u \in Tasks : task'[u].claimed["own"] # Free /\ ~Cleans(task'[u]) =>
          object[task'[u].claimed["own"]].native = "none"
    BY <1>10, <2>1, <2>2 DEF PoolInv, ObjectInv
  <2>4. C.closes = "always" => \A u \in Tasks :
          /\ \A o \in owned'[u] : object[o].native = "held"
          /\ task'[u].claimed["own"] # Free /\ Cleans(task'[u]) =>
               object[task'[u].claimed["own"]].native = "held"
    <3> SUFFICES ASSUME C.closes = "always", NEW u \in Tasks
                 PROVE  /\ \A o \in owned'[u] : object[o].native = "held"
                        /\ task'[u].claimed["own"] # Free /\ Cleans(task'[u]) =>
                             object[task'[u].claimed["own"]].native = "held"
      OBVIOUS
    <3>1. \A o \in owned'[u] : object[o].native = "held"
      BY <1>11 DEF PoolInv, ObjectInv
    <3>2. object[s0].native = "held"
      BY <1>0 DEF PoolInv, ObjectInv
    <3>3. CASE u = t
      BY <1>3, <1>e, <3>1, <3>2, <3>3
    <3>4. CASE u # t
      BY <1>e, <3>1, <3>4 DEF PoolInv, ObjectInv
    <3> QED
      BY <3>3, <3>4
  <2>5. \A u \in Tasks : \A o \in owned'[u] : object[o].mode = "live" \/ C.initialise = "mayFall"
    BY <1>11 DEF PoolInv, ObjectInv
  <2> QED
    BY <1>0, <1>10, <2>3, <2>4, <2>5 DEF PoolInv, ObjectInv
<1> QED
  BY <1>10, <1>13, <1>14, <1>15, <1>16, <1>17 DEF PoolInv

LEMMA OpenOrCloseStep ==
  ASSUME PoolInv, NEW t \in Tasks, NEW s0 \in Slots, OpenOrClose(t, s0)
  PROVE  PoolInv'
<1> PICK o0, n0 : o0 = object[s0] /\ n0 = IF o0.native = "held" THEN "none" ELSE "held"
  OBVIOUS
<1>0. /\ s0 \in owned[t] /\ C.native = "opened" /\ C' = C
      /\ UNCHANGED <<class, inUse, holder, task, owned>>
  BY DEF OpenOrClose, C
<1>1. object' = [object EXCEPT ![s0].native = n0] /\ o0 \in Objects
  BY DEF OpenOrClose, PoolInv, TypeInv
<1> PICK o1 : o1 = [o0 EXCEPT !.native = n0]
  OBVIOUS
<1>2. /\ o1 \in Objects /\ o1.mode = o0.mode
      /\ o1["record"] = o0["record"] /\ o1["sequence"] = o0["sequence"]
  BY <1>1 DEF Objects
<1>3. /\ object' \in [Slots -> Objects]
      /\ \A s \in Slots : object'[s] = IF s = s0 THEN o1 ELSE object[s]
  BY <1>1, <1>2 DEF PoolInv, TypeInv
<1>4. \A s \in Slots : /\ object'[s].mode = object[s].mode
                       /\ \A q \in Inner : object'[s][q] = object[s][q]
  BY <1>2, <1>3 DEF Inner
<1>5. \A u \in Tasks : \A o \in owned[u] : o \in Slots
  BY DEF PoolInv, TypeInv
<1>6. TypeInv'
  BY <1>0, <1>3 DEF PoolInv, TypeInv
<1>7. TasksOk' /\ LockInv' /\ ClassOk(C)'
  BY <1>0 DEF PoolInv, TasksOk, LockInv
<1>8. InUseInv'
  BY <1>0, <1>4, <1>5 DEF PoolInv, InUseInv
<1>9. DistinctInv'
  BY <1>0, <1>4, <1>5 DEF PoolInv, DistinctInv
<1>10. CoverInv'
  <2> SUFFICES ASSUME NEW p \in Allocators, NEW s \in Slots, inUse'[p][s]
               PROVE  \E u \in Tasks : HasClaim(u, p, s)'
    BY DEF CoverInv
  <2>1. PICK u \in Tasks : HasClaim(u, p, s)
    BY <1>0 DEF PoolInv, CoverInv
  <2>2. p # "own" => p \in Inner
    BY DEF Inner, Allocators
  <2> QED
    BY <1>0, <1>4, <1>5, <2>1, <2>2 DEF HasClaim
<1>11. ObjectInv'
  <2>1. C.closes # "always"
    BY <1>0 DEF PoolInv, ClassOk
  <2>2. inUse["own"][s0] /\ \A u \in Tasks : task[u].claimed["own"] # s0
    BY <1>0 DEF PoolInv, InUseInv, DistinctInv
  <2>3. \A u \in Tasks : task[u].claimed["own"] # Free => task[u].claimed["own"] \in Slots
    <3>1. \A u \in Tasks : task[u].claimed["own"] \in 0 .. Count
      BY DEF PoolInv, TypeInv, TaskType, Allocators
    <3> QED
      BY <3>1, PoolsAssumption DEF Slots, Free
  <2>4. \A s \in Slots : ~inUse["own"][s] => object'[s].native = "none"
    BY <1>3, <2>2 DEF PoolInv, ObjectInv
  <2>5. \A u \in Tasks : task[u].claimed["own"] # Free /\ ~Cleans(task[u]) =>
          object'[task[u].claimed["own"]].native = "none"
    BY <1>3, <2>2, <2>3 DEF PoolInv, ObjectInv
  <2>6. \A u \in Tasks : \A o \in owned[u] : object'[o].mode = "live" \/ C.initialise = "mayFall"
    BY <1>4, <1>5 DEF PoolInv, ObjectInv
  <2>7. ~C.nested => \A s \in Slots, q \in Inner : object'[s][q] = Free
    BY <1>4 DEF PoolInv, ObjectInv
  <2> QED
    BY <1>0, <2>1, <2>4, <2>5, <2>6, <2>7 DEF ObjectInv
<1> QED
  BY <1>6, <1>7, <1>8, <1>9, <1>10, <1>11 DEF PoolInv

LEMMA FreeIfInUseStep ==
  ASSUME PoolInv, NEW t \in Tasks, FreeIfInUse(t)
  PROVE  PoolInv'
<1> PICK r : r = task[t]
  OBVIOUS
<1> PICK s0 : s0 = r.claimed[r.pool]
  OBVIOUS
<1>0. /\ TaskType(r) /\ TaskOk(r, C) /\ r.pc = "freeing" /\ holder = t
      /\ UNCHANGED <<class, inUse, owned>>
  BY DEF FreeIfInUse, At, PoolInv, TypeInv, TasksOk, LockInv, Locked
<1>1. r.pool \in Allocators /\ s0 \in 0 .. Count /\ r.call \in {"create", "destroy"}
  BY <1>0 DEF TaskType, TaskOk, Giving
<1>2. \A p \in Allocators : r.claimed[p] # Free <=> p \in Holding(r, C.nested)
  BY <1>0 DEF TaskOk
<1>3. s0 # Free
  BY <1>0, <1>1, <1>2 DEF Holding, Walking, ToRelease, Allocators, Inner
<1>4. s0 \in Slots /\ inUse[r.pool][s0]
  BY <1>1, <1>3, PoolsAssumption DEF PoolInv, InUseInv, Slots, Free
<1> PICK k : k = [r EXCEPT !.pc = "marking"]
  OBVIOUS
<1>5. /\ k.pc = "marking"
      /\ k.call = r.call /\ k.pool = r.pool /\ k.index = r.index /\ k.claimed = r.claimed
      /\ k.told = r.told /\ k.result = r.result
      /\ k = [pc |-> k.pc, call |-> k.call, pool |-> k.pool, index |-> k.index,
              claimed |-> k.claimed, told |-> k.told, result |-> k.result]
  BY <1>0 DEF TaskType
<1>6. TaskType(k)
  BY <1>0, <1>5 DEF TaskType, Steps, Giving
<1>7. TaskOk(k, C)
  BY <1>0, <1>5 DEF TaskOk, Holding, Walking, Giving
<1>8. /\ task' = [task EXCEPT ![t] = k] /\ UNCHANGED holder
      /\ object' = IF r.pool = "own" /\ PassesCleanup(r) THEN [object EXCEPT ![s0] = Cleanup(object[s0])] ELSE object
  BY <1>4 DEF FreeIfInUse, Go
<1>9. LockMoves(t) /\ (k.pc \in Locked <=> holder' = t)
  BY <1>0, <1>5, <1>8 DEF LockMoves, Locked
<1>10. /\ \A u \in Tasks : task'[u] = IF u = t THEN k ELSE task[u]
       /\ task' = [u \in Tasks |-> task'[u]] /\ \A u \in Tasks : TaskType(task'[u])
       /\ TasksOk' /\ LockInv' /\ ClassOk(C)' /\ C' = C
  BY <1>0, <1>6, <1>7, <1>8, <1>9, TaskMoves
<1>11. /\ task'[t] = k /\ \A u \in Tasks : u # t => task'[u] = task[u]
       /\ \A u \in Tasks : task'[u].claimed = task[u].claimed
  BY <1>5, <1>10
\* A create that gives its slot back holds nothing; a destroy that closes
\* without looking has it held.
<1>12. r.pool = "own" /\ PassesCleanup(r) /\ C.closes = "always" => object[s0].native = "held"
  <2> SUFFICES ASSUME r.pool = "own", PassesCleanup(r), C.closes = "always"
               PROVE  object[s0].native = "held"
    OBVIOUS
  <2>1. CASE r.call = "destroy"
    BY <1>0, <1>3, <2>1 DEF PoolInv, ObjectInv, Cleans
  <2>2. CASE r.call = "create"
    <3>1. C.undo = "cleanup" /\ ~C.nested
      BY <2>2 DEF PassesCleanup
    <3>2. C.initialise = "mayFail"
      BY <1>0, <2>2, <3>1 DEF TaskOk, Giving
    <3> QED
      BY <3>1, <3>2 DEF PoolInv, ClassOk
  <2> QED
    BY <1>1, <2>1, <2>2
<1> PICK o1 : o1 = Cleanup(object[s0])
  OBVIOUS
<1>13. r.pool = "own" /\ PassesCleanup(r) =>
         /\ o1 \in Objects /\ o1.native = "none"
         /\ o1["record"] = object[s0]["record"] /\ o1["sequence"] = object[s0]["sequence"]
  <2>1. object[s0] \in Objects
    BY <1>4 DEF PoolInv, TypeInv
  <2> PICK b, m, n : /\ b = object[s0] /\ m = (IF C.after = "null" THEN "null" ELSE b.mode)
                     /\ n = (IF C.closes = "always" /\ b.native = "none" THEN "broken" ELSE "none")
    OBVIOUS
  <2>2. o1 = [b EXCEPT !.mode = m, !.native = n]
    BY DEF Cleanup
  <2>3. b \in Objects /\ m \in {"null", "live"}
    BY <2>1 DEF Objects
  <2>4. r.pool = "own" /\ PassesCleanup(r) => n = "none"
    BY <1>12
  <2> QED
    BY <2>2, <2>3, <2>4 DEF Objects
<1>14. /\ object' \in [Slots -> Objects]
       /\ \A s \in Slots : object'[s] = IF r.pool = "own" /\ PassesCleanup(r) /\ s = s0 THEN o1 ELSE object[s]
  BY <1>4, <1>8, <1>13 DEF PoolInv, TypeInv
<1>15. /\ \A s \in Slots, q \in Inner : object'[s][q] = object[s][q]
       /\ \A s \in Slots : object'[s].native = "none" \/ object'[s] = object[s]
  BY <1>13, <1>14 DEF Inner
<1>16. \A u \in Tasks : \A o \in owned[u] : o \in Slots /\ object'[o] = object[o]
  BY <1>14 DEF PoolInv, TypeInv, DistinctInv
<1>17. TypeInv'
  BY <1>0, <1>10, <1>14 DEF PoolInv, TypeInv
<1>18. InUseInv'
  <2>1. \A u \in Tasks : task'[u].pc = "claiming" => ~inUse[task'[u].pool][task'[u].index]
    BY <1>5, <1>11 DEF PoolInv, InUseInv
  <2> QED
    BY <1>0, <1>10, <1>11, <1>16, <2>1 DEF PoolInv, InUseInv
<1>19. DistinctInv'
  BY <1>0, <1>10, <1>11, <1>16 DEF PoolInv, DistinctInv
<1>20. CoverInv'
  <2> SUFFICES ASSUME NEW p \in Allocators, NEW s \in Slots, inUse'[p][s]
               PROVE  \E u \in Tasks : HasClaim(u, p, s)'
    BY DEF CoverInv
  <2>1. PICK u \in Tasks : HasClaim(u, p, s)
    BY <1>0 DEF PoolInv, CoverInv
  <2> QED
    BY <1>0, <1>10, <1>11, <1>16, <2>1 DEF HasClaim
<1>21. ObjectInv'
  <2>1. ~Cleans(k)
    BY <1>5 DEF Cleans
  <2>2. \A u \in Tasks : task[u].claimed["own"] # Free => task[u].claimed["own"] \in Slots
    <3>1. \A u \in Tasks : task[u].claimed["own"] \in 0 .. Count
      BY DEF PoolInv, TypeInv, TaskType, Allocators
    <3> QED
      BY <3>1, PoolsAssumption DEF Slots, Free
  <2>3. \A s \in Slots : ~inUse["own"][s] => object'[s].native = "none"
    BY <1>15 DEF PoolInv, ObjectInv
  <2>4. r.claimed["own"] # Free => object'[r.claimed["own"]].native = "none"
    <3>1. CASE r.call = "create"
      BY <1>15, <2>2, <3>1 DEF PoolInv, ObjectInv, Cleans
    <3>2. CASE r.call = "destroy" /\ r.pool = "own"
      BY <1>4, <1>13, <1>14, <3>2 DEF PassesCleanup
    <3>3. CASE r.call = "destroy" /\ r.pool # "own"
      BY <1>0, <1>1, <1>2, <3>3 DEF Holding, Walking, ToRelease, Allocators, Inner
    <3> QED
      BY <1>1, <3>1, <3>2, <3>3
  <2>5. \A u \in Tasks : task[u].claimed["own"] # Free /\ ~Cleans(task'[u]) =>
          object'[task[u].claimed["own"]].native = "none"
    BY <1>11, <1>15, <2>2, <2>4 DEF PoolInv, ObjectInv
  <2>6. \A u \in Tasks : u # t /\ task[u].claimed["own"] # Free =>
          object'[task[u].claimed["own"]] = object[task[u].claimed["own"]]
    BY <1>3, <1>14, <2>2 DEF PoolInv, DistinctInv, Allocators
  <2>7. C.closes = "always" => \A u \in Tasks :
          /\ \A o \in owned[u] : object'[o].native = "held"
          /\ task[u].claimed["own"] # Free /\ Cleans(task'[u]) =>
               object'[task[u].claimed["own"]].native = "held"
    BY <1>11, <1>16, <2>1, <2>6 DEF PoolInv, ObjectInv
  <2>8. \A u \in Tasks : \A o \in owned[u] : object'[o].mode = "live" \/ C.initialise = "mayFall"
    BY <1>16 DEF PoolInv, ObjectInv
  <2>9. ~C.nested => \A s \in Slots, q \in Inner : object'[s][q] = Free
    BY <1>15 DEF PoolInv, ObjectInv
  <2> QED
    BY <1>0, <1>10, <1>11, <2>3, <2>5, <2>7, <2>8, <2>9 DEF ObjectInv
<1> QED
  BY <1>10, <1>17, <1>18, <1>19, <1>20, <1>21 DEF PoolInv

\* The slot a call gives back is nobody's any more.
GivesBack(t, k, p0, s0) ==
  /\ task' = [task EXCEPT ![t] = k] /\ TaskType(k) /\ TaskOk(k, C)
  /\ k.pc \notin Locked /\ holder = t /\ holder' = nobody
  /\ \A p \in Allocators : k.claimed[p] = IF p = p0 THEN Free ELSE task[t].claimed[p]
  /\ p0 \in Allocators /\ s0 \in Slots /\ task[t].claimed[p0] = s0
  /\ inUse' = [inUse EXCEPT ![p0][s0] = FALSE]
  /\ UNCHANGED <<class, object, owned>>
  /\ ~Cleans(task[t]) /\ (k.claimed["own"] # Free => ~Cleans(k))

LEMMA GivesBackStep ==
  ASSUME PoolInv, NEW t \in Tasks, NEW k, NEW p0, NEW s0, GivesBack(t, k, p0, s0)
  PROVE  PoolInv'
<1>0. /\ task' = [task EXCEPT ![t] = k] /\ TaskType(k) /\ TaskOk(k, C)
      /\ k.pc \notin Locked /\ holder = t /\ holder' = nobody
      /\ \A p \in Allocators : k.claimed[p] = IF p = p0 THEN Free ELSE task[t].claimed[p]
      /\ p0 \in Allocators /\ s0 \in Slots /\ task[t].claimed[p0] = s0
      /\ inUse' = [inUse EXCEPT ![p0][s0] = FALSE]
      /\ UNCHANGED <<class, object, owned>>
      /\ ~Cleans(task[t]) /\ (k.claimed["own"] # Free => ~Cleans(k))
  BY DEF GivesBack
<1>1. LockMoves(t) /\ (k.pc \in Locked <=> holder' = t)
  BY <1>0, PoolsAssumption DEF LockMoves
<1>2. /\ \A u \in Tasks : task'[u] = IF u = t THEN k ELSE task[u]
      /\ task' = [u \in Tasks |-> task'[u]] /\ \A u \in Tasks : TaskType(task'[u])
      /\ TasksOk' /\ LockInv' /\ ClassOk(C)' /\ C' = C
  BY <1>0, <1>1, TaskMoves
<1>3. task'[t] = k /\ \A u \in Tasks : u # t => task'[u] = task[u]
  BY <1>2
<1>4. \A u \in Tasks, p \in Allocators :
        task'[u].claimed[p] = IF u = t /\ p = p0 THEN Free ELSE task[u].claimed[p]
  BY <1>0, <1>3
<1>5. /\ inUse' \in [Allocators -> [Slots -> BOOLEAN]]
      /\ \A p \in Allocators, s \in Slots : inUse'[p][s] <=> inUse[p][s] /\ ~(p = p0 /\ s = s0)
  BY <1>0 DEF PoolInv, TypeInv
<1>6. s0 # Free
  BY <1>0, PoolsAssumption DEF Slots, Free
<1>7. /\ \A u \in Tasks : u # t => task[u].claimed[p0] # s0
      /\ \A u \in Tasks : \A o \in owned[u] :
           /\ p0 = "own" => o # s0
           /\ C.nested /\ p0 \in Inner => object[o][p0] # s0
  BY <1>0, <1>6 DEF PoolInv, DistinctInv
<1>8. \A u \in Tasks, p \in Allocators : task[u].claimed[p] # Free => task[u].claimed[p] \in Slots
  <2>1. \A u \in Tasks, p \in Allocators : task[u].claimed[p] \in 0 .. Count
    BY DEF PoolInv, TypeInv, TaskType
  <2> QED
    BY <2>1, PoolsAssumption DEF Slots, Free
<1>9. TypeInv'
  BY <1>0, <1>2, <1>5 DEF PoolInv, TypeInv
<1>10. InUseInv'
  <2>1. ASSUME NEW u \in Tasks, NEW p \in Allocators, task'[u].claimed[p] # Free
        PROVE  inUse'[p][task'[u].claimed[p]]
    <3> PICK s : s = task[u].claimed[p]
      OBVIOUS
    <3>1. ~(u = t /\ p = p0) /\ task'[u].claimed[p] = s /\ s # Free
      BY <1>4, <2>1
    <3>2. s \in Slots /\ inUse[p][s]
      BY <1>8, <3>1 DEF PoolInv, InUseInv
    <3>3. ~(p = p0 /\ s = s0)
      BY <1>7, <3>1
    <3> QED
      BY <1>5, <3>1, <3>2, <3>3
  <2>2. \A u \in Tasks : \A o \in owned[u] : o \in Slots /\ inUse'["own"][o]
    BY <1>5, <1>7 DEF PoolInv, InUseInv, TypeInv, Allocators
  <2>3. ASSUME C.nested, NEW u \in Tasks, NEW o \in owned[u], NEW q \in Inner
        PROVE  object[o][q] # Free /\ inUse'[q][object[o][q]]
    <3> PICK s : s = object[o][q]
      OBVIOUS
    <3>1. s # Free /\ inUse[q][s]
      BY <2>3 DEF PoolInv, InUseInv
    <3>2. s \in 0 .. Count /\ q \in Allocators
      BY <2>2 DEF PoolInv, TypeInv, Objects, Inner, Allocators
    <3>3. s \in Slots
      BY <3>1, <3>2, PoolsAssumption DEF Slots, Free
    <3>4. ~(q = p0 /\ s = s0)
      BY <1>7, <2>3
    <3> QED
      BY <1>5, <3>1, <3>2, <3>3, <3>4
  <2>4. \A u \in Tasks : task'[u].pc # "claiming"
    BY <1>0, <1>3 DEF PoolInv, LockInv, Locked
  <2> QED
    BY <1>0, <1>2, <2>1, <2>2, <2>3, <2>4 DEF InUseInv
<1>11. DistinctInv'
  <2>1. \A v, u \in Tasks, p \in Allocators :
          v # u /\ task'[v].claimed[p] # Free => task'[v].claimed[p] # task'[u].claimed[p]
    BY <1>4 DEF PoolInv, DistinctInv
  <2>2. ASSUME NEW v \in Tasks, NEW u \in Tasks, NEW o \in owned[u]
        PROVE  /\ task'[v].claimed["own"] # o
               /\ C.nested => \A q \in Inner : task'[v].claimed[q] # object[o][q]
    <3>1. o # Free /\ "own" \in Allocators /\ \A q \in Inner : q \in Allocators
      BY PoolsAssumption DEF PoolInv, TypeInv, Slots, Free, Allocators, Inner
    <3>2. C.nested => \A q \in Inner : object[o][q] # Free
      BY DEF PoolInv, InUseInv
    <3>3. /\ task[v].claimed["own"] # o
          /\ C.nested => \A q \in Inner : task[v].claimed[q] # object[o][q]
      BY DEF PoolInv, DistinctInv
    <3> QED
      BY <1>4, <3>1, <3>2, <3>3
  <2> QED
    BY <1>0, <1>2, <2>1, <2>2 DEF PoolInv, DistinctInv
<1>12. CoverInv'
  <2> SUFFICES ASSUME NEW p \in Allocators, NEW s \in Slots, inUse'[p][s]
               PROVE  \E u \in Tasks : HasClaim(u, p, s)'
    BY DEF CoverInv
  <2>1. inUse[p][s] /\ ~(p = p0 /\ s = s0)
    BY <1>5
  <2>2. PICK u \in Tasks : HasClaim(u, p, s)
    BY <2>1 DEF PoolInv, CoverInv
  <2>3. task[u].claimed[p] = s => task'[u].claimed[p] = s
    BY <1>0, <1>4, <2>1
  <2> QED
    BY <1>0, <1>2, <2>2, <2>3 DEF HasClaim
<1>13. ObjectInv'
  <2>1. "own" \in Allocators
    BY DEF Allocators
  <2>2. \A s \in Slots : ~inUse'["own"][s] => object[s].native = "none"
    <3>1. p0 = "own" => object[s0].native = "none"
      BY <1>0, <1>6 DEF PoolInv, ObjectInv
    <3> QED
      BY <1>5, <2>1, <3>1 DEF PoolInv, ObjectInv
  <2>3. ASSUME NEW u \in Tasks, task'[u].claimed["own"] # Free
        PROVE  /\ task'[u].claimed["own"] = task[u].claimed["own"] /\ task[u].claimed["own"] # Free
               /\ Cleans(task'[u]) <=> Cleans(task[u])
    BY <1>0, <1>3, <1>4, <2>1, <2>3
  <2>4. \A u \in Tasks : task'[u].claimed["own"] # Free /\ ~Cleans(task'[u]) =>
          object[task'[u].claimed["own"]].native = "none"
    BY <2>3 DEF PoolInv, ObjectInv
  <2>5. C.closes = "always" => \A u \in Tasks :
          /\ \A o \in owned[u] : object[o].native = "held"
          /\ task'[u].claimed["own"] # Free /\ Cleans(task'[u]) =>
               object[task'[u].claimed["own"]].native = "held"
    BY <2>3 DEF PoolInv, ObjectInv
  <2> QED
    BY <1>0, <1>2, <2>2, <2>4, <2>5 DEF PoolInv, ObjectInv
<1> QED
  BY <1>2, <1>9, <1>10, <1>11, <1>12, <1>13 DEF PoolInv

LEMMA MarkFreeStep ==
  ASSUME PoolInv, NEW t \in Tasks, MarkFree(t)
  PROVE  PoolInv'
<1> PICK r : r = task[t]
  OBVIOUS
<1> PICK p0, s0 : p0 = r.pool /\ s0 = r.claimed[r.pool]
  OBVIOUS
<1>0. /\ TaskType(r) /\ TaskOk(r, C) /\ r.pc = "marking" /\ holder = t /\ holder' = nobody
      /\ inUse' = [inUse EXCEPT ![p0][s0] = FALSE]
      /\ UNCHANGED <<class, object, owned>>
  BY DEF MarkFree, UnlockConfig, At, PoolInv, TypeInv, TasksOk, LockInv, Locked
<1>1. /\ p0 \in Allocators /\ s0 \in 0 .. Count /\ r.call \in {"create", "destroy"}
      /\ r.claimed \in [Allocators -> 0 .. Count] /\ (~C.nested => p0 = "own")
      /\ r.call = "create" => p0 # "sequence" /\ (C.tells => Len(r.told) = 1) /\ (C.nested \/ C.initialise = "mayFail")
  BY <1>0 DEF TaskType, TaskOk, Giving
<1>2. \A p \in Allocators : r.claimed[p] # Free <=>
        p \in IF r.call = "create" THEN Before(p0) \cup {p0} ELSE ToRelease(p0, C.nested)
  BY <1>0 DEF TaskOk, Holding, Walking
<1>3. s0 # Free
  BY <1>1, <1>2 DEF ToRelease, Allocators, Inner
<1>4. s0 \in Slots
  BY <1>1, <1>3, PoolsAssumption DEF Slots, Free
<1>5. ~Cleans(r)
  BY <1>0 DEF Cleans
<1> PICK claims : claims = [r.claimed EXCEPT ![p0] = Count]
  OBVIOUS
<1>6. /\ claims \in [Allocators -> 0 .. Count]
      /\ \A p \in Allocators : claims[p] = IF p = p0 THEN Free ELSE r.claimed[p]
  BY <1>1, PoolsAssumption DEF Free
<1>7. ASSUME LeftToRelease(r) = {}
      PROVE  \A p \in Allocators : claims[p] = Free
  <2>1. CASE ~C.nested
    BY <1>1, <1>2, <1>6, <2>1 DEF Before, ToRelease
  <2>2. CASE C.nested /\ r.call = "destroy"
    <3>1. p0 = "record"
      BY <1>1, <1>7, <2>2 DEF LeftToRelease, Allocators
    <3> QED
      BY <1>2, <1>6, <2>2, <3>1 DEF ToRelease
  <2>3. CASE C.nested /\ r.call = "create"
    <3>1. p0 = "own"
      BY <1>1, <1>7, <2>3 DEF LeftToRelease, Allocators
    <3> QED
      BY <1>2, <1>6, <2>3, <3>1 DEF Before
  <2> QED
    BY <1>1, <2>1, <2>2, <2>3
<1>8. CASE /\ LeftToRelease(r) = {}
           /\ Ends(t, r.told, IF r.call = "create" THEN C.fallback ELSE "none")
  <2> PICK result : result = IF r.call = "create" THEN C.fallback ELSE "none"
    OBVIOUS
  <2> PICK k : k = [Idle EXCEPT !.call = r.call, !.told = r.told, !.result = result]
    OBVIOUS
  <2>1. /\ k.pc = "idle" /\ k.call = r.call /\ k.told = r.told /\ k.result = result /\ k.pool = "own"
        /\ k.claimed = Idle.claimed /\ k.index = 0
        /\ k = [pc |-> "idle", call |-> r.call, pool |-> "own", index |-> 0,
                claimed |-> k.claimed, told |-> r.told, result |-> result]
    BY DEF Idle
  <2>2. TaskType(k)
    BY <1>1, <2>1, IdleFacts DEF TaskType
  <2>3. \A p \in Allocators : k.claimed[p] = Free /\ claims[p] = Free
    BY <1>7, <1>8, <2>1, IdleFacts
  <2>4. TaskOk(k, C)
    <3>1. C.fallback # "object"
      BY DEF PoolInv, ClassOk
    <3>2. k.call = "create" /\ C.tells => Len(k.told) = IF k.result = "object" THEN 0 ELSE 1
      BY <1>1, <2>1, <3>1
    <3>3. Holding(k, C.nested) = {}
      BY <2>1 DEF Holding
    <3> QED
      BY <2>1, <2>3, <3>2, <3>3 DEF TaskOk, Walking, Giving
  <2>5. task' = [task EXCEPT ![t] = k]
    BY <1>8 DEF Ends, Go
  <2>6. GivesBack(t, k, p0, s0)
    <3>1. k.pc \notin Locked /\ ~Cleans(k)
      BY <2>1 DEF Locked, Cleans
    <3>2. \A p \in Allocators : k.claimed[p] = IF p = p0 THEN Free ELSE r.claimed[p]
      BY <1>6, <2>3
    <3> QED
      BY <1>0, <1>1, <1>4, <1>5, <2>2, <2>4, <2>5, <3>1, <3>2 DEF GivesBack
  <2> QED
    BY <2>6, GivesBackStep
<1>9. CASE /\ LeftToRelease(r) = {} /\ r.call = "destroy" /\ C.clears
           /\ Go(t, [r EXCEPT !.pc = "clearing", !.claimed[p0] = Count])
  <2> PICK k : k = [r EXCEPT !.pc = "clearing", !.claimed[p0] = Count]
    OBVIOUS
  <2>1. /\ k.pc = "clearing"
        /\ k.call = r.call /\ k.pool = r.pool /\ k.index = r.index /\ k.claimed = claims
        /\ k.told = r.told /\ k.result = r.result
        /\ k = [pc |-> k.pc, call |-> k.call, pool |-> k.pool, index |-> k.index,
                claimed |-> k.claimed, told |-> k.told, result |-> k.result]
    BY <1>0 DEF TaskType
  <2>2. TaskType(k)
    BY <1>0, <1>6, <2>1 DEF TaskType, Steps
  <2>3. \A p \in Allocators : k.claimed[p] = Free
    BY <1>7, <1>9, <2>1
  <2>4. TaskOk(k, C)
    <3>1. Holding(k, C.nested) = {}
      BY <2>1 DEF Holding
    <3> QED
      BY <1>1, <1>9, <2>1, <2>3, <3>1 DEF TaskOk, Walking, Giving
  <2>5. task' = [task EXCEPT ![t] = k]
    BY <1>9 DEF Go
  <2>6. GivesBack(t, k, p0, s0)
    <3>1. k.pc \notin Locked /\ ~Cleans(k)
      BY <2>1 DEF Locked, Cleans
    <3>2. \A p \in Allocators : k.claimed[p] = IF p = p0 THEN Free ELSE r.claimed[p]
      BY <1>6, <2>1
    <3> QED
      BY <1>0, <1>1, <1>4, <1>5, <2>2, <2>4, <2>5, <3>1, <3>2 DEF GivesBack
  <2> QED
    BY <2>6, GivesBackStep
<1>10. ASSUME NEW p1 \in LeftToRelease(r), Go(t, [r EXCEPT !.pc = "release", !.pool = p1, !.claimed[p0] = Count])
       PROVE  PoolInv'
  <2> PICK k : k = [r EXCEPT !.pc = "release", !.pool = p1, !.claimed[p0] = Count]
    OBVIOUS
  <2>1. /\ k.pc = "release"
        /\ k.call = r.call /\ k.pool = p1 /\ k.index = r.index /\ k.claimed = claims
        /\ k.told = r.told /\ k.result = r.result
        /\ k = [pc |-> k.pc, call |-> k.call, pool |-> k.pool, index |-> k.index,
                claimed |-> k.claimed, told |-> k.told, result |-> k.result]
    BY <1>0 DEF TaskType
  <2>2. C.nested
    BY <1>10 DEF LeftToRelease
  <2>3. \/ r.call = "destroy" /\ p0 = "own" /\ p1 = "sequence"
        \/ r.call = "destroy" /\ p0 = "sequence" /\ p1 = "record"
        \/ r.call = "create" /\ p0 = "record" /\ p1 = "own"
    BY <1>1, <1>10, <2>2 DEF LeftToRelease, Allocators
  <2>4. TaskType(k)
    <3>1. p1 \in Allocators
      BY <2>3 DEF Allocators
    <3> QED
      BY <1>0, <1>6, <2>1, <3>1 DEF TaskType, Steps, Giving
  <2>5. \A p \in Allocators : k.claimed[p] # Free <=>
          p \in IF r.call = "create" THEN {"own"} ELSE ToRelease(p1, C.nested)
    BY <1>2, <1>6, <2>1, <2>2, <2>3 DEF ToRelease, Before, Allocators, Inner
  <2>6. Holding(k, C.nested) = IF r.call = "create" THEN {"own"} ELSE ToRelease(p1, C.nested)
    BY <2>1, <2>3 DEF Holding, Walking, Before
  <2>7. TaskOk(k, C)
    <3>1. /\ k.pc \in Giving /\ k.pc \notin Walking /\ k.pc # "initialise" /\ k.pc # "clearing" /\ k.pc # "idle"
          /\ k.call \in {"create", "destroy"} /\ (k.call = "create" => k.pool # "sequence")
      BY <1>1, <2>1, <2>3 DEF Giving, Walking
    <3>2. k.call = "create" => (C.tells => Len(k.told) = 1)
      BY <1>1, <2>1
    <3>3. \A p \in Allocators : k.claimed[p] # Free <=> p \in Holding(k, C.nested)
      BY <2>5, <2>6
    <3> QED
      BY <2>2, <3>1, <3>2, <3>3 DEF TaskOk
  <2>8. task' = [task EXCEPT ![t] = k]
    BY <1>10 DEF Go
  <2>9. GivesBack(t, k, p0, s0)
    <3>1. k.pc \notin Locked
      BY <2>1 DEF Locked
    <3>2. \A p \in Allocators : k.claimed[p] = IF p = p0 THEN Free ELSE r.claimed[p]
      BY <1>6, <2>1
    <3>3. k.claimed["own"] # Free => ~Cleans(k)
      <4>1. "own" \in Allocators /\ (r.call = "destroy" => "own" \notin ToRelease(p1, C.nested))
        BY <2>3 DEF ToRelease, Allocators, Inner
      <4> QED
        BY <1>1, <2>1, <2>5, <4>1 DEF Cleans
    <3> QED
      BY <1>0, <1>1, <1>4, <1>5, <2>4, <2>7, <2>8, <3>1, <3>2, <3>3 DEF GivesBack
  <2> QED
    BY <2>9, GivesBackStep
<1> QED
  BY <1>8, <1>9, <1>10 DEF MarkFree

LEMMA RecordEventStep ==
  ASSUME PoolInv, RecordEvent
  PROVE  PoolInv'
<1>1. UNCHANGED <<class, inUse, object, holder, task, owned>> /\ C' = C
  BY DEF RecordEvent, C
<1> QED
  BY <1>1 DEF PoolInv, TypeInv, TasksOk, LockInv, InUseInv, DistinctInv, CoverInv, HasClaim, ObjectInv

LEMMA PoolStep == PoolInv /\ [PoolNext]_poolVars => PoolInv'
<1> SUFFICES ASSUME PoolInv, [PoolNext]_poolVars PROVE PoolInv'
  OBVIOUS
<1>1. CASE UNCHANGED poolVars
  <2>1. UNCHANGED <<class, inUse, object, holder, task, owned>> /\ C' = C
    BY <1>1 DEF poolVars, C
  <2> QED
    BY <2>1 DEF PoolInv, TypeInv, TasksOk, LockInv, InUseInv, DistinctInv, CoverInv, HasClaim, ObjectInv
<1>2. ASSUME NEW t \in Tasks, NEW missing \in SUBSET DOMAIN C.requires, Create(t, missing)
      PROVE  PoolInv'
  BY <1>2, CreateStep
<1>3. ASSUME NEW t \in Tasks, LockConfig(t) \/ TryClaim(t) \/ MarkInUse(t) \/ AcquireNext(t) \/ Exhausted(t)
      PROVE  PoolInv'
  BY <1>3, LockStep, TryClaimStep, MarkInUseStep, AcquireNextStep, ExhaustedStep
<1>4. ASSUME NEW t \in Tasks, NEW outcome \in InitialiseOutcomes, Initialise(t, outcome)
      PROVE  PoolInv'
  BY <1>4, InitialiseStep
<1>5. ASSUME NEW t \in Tasks, NEW s \in Slots, Destroy(t, s) \/ OpenOrClose(t, s)
      PROVE  PoolInv'
  BY <1>5, DestroyStep, OpenOrCloseStep
<1>6. ASSUME NEW t \in Tasks, DestroyUnknown(t) \/ FreeIfInUse(t) \/ MarkFree(t) \/ ClearPendingEvents(t)
      PROVE  PoolInv'
  BY <1>6, DestroyUnknownStep, FreeIfInUseStep, MarkFreeStep, ClearStep
<1>7. CASE RecordEvent
  BY <1>7, RecordEventStep
<1> QED
  BY <1>1, <1>2, <1>3, <1>4, <1>5, <1>6, <1>7 DEF PoolNext

-----------------------------------------------------------------------------
\* A slot has at most one claimant, and one when it is in use.
LEMMA ClaimsCounted ==
  ASSUME PoolInv, NEW p \in Allocators, NEW s \in Slots
  PROVE  Cardinality({t \in Tasks : s \in Claims(t, p)}) = IF inUse[p][s] THEN 1 ELSE 0
<1>0. s # Free /\ (p # "own" => p \in Inner)
  BY PoolsAssumption DEF Slots, Free, Allocators, Inner
<1>1. \A t \in Tasks : s \in Claims(t, p) <=> HasClaim(t, p, s)
  BY DEF Claims, HasClaim
<1>2. ASSUME NEW t \in Tasks, NEW u \in Tasks, HasClaim(t, p, s), HasClaim(u, p, s)
      PROVE  t = u
  <2>1. CASE task[t].claimed[p] = s
    <3>1. CASE task[u].claimed[p] = s
      BY <1>0, <2>1, <3>1 DEF PoolInv, DistinctInv
    <3>2. CASE task[u].claimed[p] # s
      BY <1>0, <1>2, <2>1, <3>2 DEF HasClaim, PoolInv, DistinctInv
    <3> QED
      BY <3>1, <3>2
  <2>2. CASE task[t].claimed[p] # s /\ task[u].claimed[p] = s
    BY <1>0, <1>2, <2>2 DEF HasClaim, PoolInv, DistinctInv
  <2>3. CASE task[t].claimed[p] # s /\ task[u].claimed[p] # s
    <3>1. CASE p = "own"
      BY <1>2, <2>3, <3>1 DEF HasClaim, PoolInv, DistinctInv
    <3>2. CASE p # "own"
      <4>1. C.nested
        BY <1>2, <2>3, <3>2 DEF HasClaim
      <4>2. PICK o \in owned[t], oo \in owned[u] : object[o][p] = s /\ object[oo][p] = s
        BY <1>2, <2>3, <3>2 DEF HasClaim
      <4>3. o = oo
        BY <1>0, <3>2, <4>1, <4>2 DEF PoolInv, DistinctInv
      <4> QED
        BY <4>3 DEF PoolInv, DistinctInv
    <3> QED
      BY <3>1, <3>2
  <2> QED
    BY <2>1, <2>2, <2>3
<1>3. CASE inUse[p][s]
  <2>1. PICK t \in Tasks : HasClaim(t, p, s)
    BY <1>3 DEF PoolInv, CoverInv
  <2>2. {u \in Tasks : s \in Claims(u, p)} = {t}
    BY <1>1, <1>2, <2>1
  <2> QED
    BY <1>3, <2>2, FS_Singleton
<1>4. CASE ~inUse[p][s]
  <2>1. \A t \in Tasks : ~HasClaim(t, p, s)
    BY <1>0, <1>4 DEF HasClaim, PoolInv, InUseInv
  <2>2. {u \in Tasks : s \in Claims(u, p)} = {}
    BY <1>1, <2>1
  <2> QED
    BY <1>4, <2>2, FS_EmptySet
<1> QED
  BY <1>3, <1>4

LEMMA InvGivesSlots == PoolInv => SlotsAccountedFor
<1> SUFFICES ASSUME PoolInv PROVE SlotsAccountedFor
  OBVIOUS
<1>1. \A p \in Allocators, s \in Slots :
        Cardinality({t \in Tasks : s \in Claims(t, p)}) = IF inUse[p][s] THEN 1 ELSE 0
  BY ClaimsCounted
<1>2. \A s \in Slots : object[s].native # "broken" /\ (object[s].native = "held" => inUse["own"][s])
  BY DEF PoolInv, TypeInv, Objects, ObjectInv
<1>3. \A t \in Tasks : \A s \in owned[t] : object[s].mode = "live" \/ C.initialise = "mayFall"
  BY DEF PoolInv, ObjectInv
<1>4. \A t \in Tasks :
        At(t, "idle") /\ task[t].call = "create" /\ C.tells =>
          Len(task[t].told) = IF task[t].result = "object" THEN 0 ELSE 1
  BY DEF PoolInv, TasksOk, TaskOk, At
<1> QED
  BY <1>1, <1>2, <1>3, <1>4 DEF SlotsAccountedFor

\* The tasks come to rest before the object that is left is put to work.
LEMMA StartWorkStep ==
  ASSUME PoolInv, StartWork
  PROVE  PoolInv'
<1>1. /\ UNCHANGED <<class, inUse, object, holder, owned>> /\ C' = C
      /\ task' = [t \in Tasks |-> Idle] /\ \A t \in Tasks : task[t].pc = "idle"
  BY DEF StartWork, At, C
<1>2. \A t \in Tasks : task'[t] = Idle
  BY <1>1
<1>3. \A t \in Tasks, p \in Allocators : task[t].claimed[p] = Free /\ task'[t].claimed[p] = Free
  BY <1>1, <1>2, IdleFacts DEF PoolInv, TasksOk, TaskOk, Holding
<1>4. TypeInv'
  BY <1>1, <1>2, IdleFacts DEF PoolInv, TypeInv
<1>5. TasksOk' /\ LockInv'
  <2>1. \A t \in Tasks : task[t].pc \notin Locked /\ task'[t].pc \notin Locked
    BY <1>1, <1>2, IdleFacts DEF Locked
  <2> QED
    BY <1>1, <1>2, <1>3, <2>1, IdleFacts DEF PoolInv, TasksOk, TaskOk, LockInv, Holding, Walking, Giving
<1>6. InUseInv' /\ DistinctInv'
  BY <1>1, <1>2, <1>3, IdleFacts DEF PoolInv, InUseInv, DistinctInv, Allocators, Inner
<1>7. CoverInv'
  BY <1>1, <1>3 DEF PoolInv, CoverInv, HasClaim
<1>8. ObjectInv'
  BY <1>1, <1>3 DEF PoolInv, ObjectInv, Allocators
<1> QED
  BY <1>1, <1>4, <1>5, <1>6, <1>7, <1>8 DEF PoolInv

LEMMA PoolsKept == PoolInv /\ [Next]_vars => PoolInv'
<1> SUFFICES ASSUME PoolInv, [Next]_vars PROVE PoolInv'
  OBVIOUS
<1>1. CASE StartWork
  BY <1>1, StartWorkStep
<1>2. CASE ~StartWork
  <2>1. PoolNext \/ UNCHANGED poolVars
    BY <1>2 DEF Next, SetUp, Increment, SealRecord, OpenRecord, SealFails, OpenFails, Altered, KeyReplaced,
                OthersUnchanged, FormatLine, ClockRuns, LoggerRuns, vars
  <2> QED
    BY <2>1, PoolStep
<1> QED
  BY <1>1, <1>2

\* While tasks create, use and destroy the objects of a class, and when the one
\* that is left is put to work, every slot of its pools that
\* SolidSyslogPoolAllocator marks InUse belongs to exactly one call or handle and
\* every other slot to none; nothing of the platform's is lost or closed twice,
\* and a Create that falls back tells one reason.
THEOREM SlotsKept == Spec => []SlotsAccountedFor
<1>1. InitObjects => PoolInv
  BY PoolInit DEF InitObjects
<1>2. PoolInv /\ [Next]_vars => PoolInv'
  BY PoolsKept
<1>3. PoolInv => SlotsAccountedFor
  BY InvGivesSlots
<1> QED
  BY <1>1, <1>2, <1>3, PTL DEF Spec

-----------------------------------------------------------------------------
(* The counter.  The ids handed out last lead up to the value, one step of   *)
(* the cycle after another, and are at most one cycle long.                  *)

\* The id that was handed out n increments before the value was v.
IdBefore(v, n) == IF v - n >= 1 THEN v - n ELSE v - n + SEQUENCE_ID_MAX

CounterInv ==
  /\ value \in 0 .. SEQUENCE_ID_MAX
  /\ issued \in Seq(Nat) /\ Len(issued) <= SEQUENCE_ID_MAX
  /\ value = 0 => issued = <<>>
  /\ \A i \in 1 .. Len(issued) : issued[i] = IdBefore(value, Len(issued) - i)

\* One increment, whichever of the counters makes it.
LEMMA IssueStep ==
  ASSUME CounterInv, value' = NextId(value), Issue(value')
  PROVE  CounterInv'
<1> DEFINE kept == IF Len(issued) = SEQUENCE_ID_MAX THEN Tail(issued) ELSE issued
<1> DEFINE dropped == IF Len(issued) = SEQUENCE_ID_MAX THEN 1 ELSE 0
<1>1. /\ value \in Nat /\ value <= SEQUENCE_ID_MAX /\ SEQUENCE_ID_MAX \in Nat \ {0}
      /\ Len(issued) \in Nat /\ Len(issued) <= SEQUENCE_ID_MAX /\ issued \in Seq(Nat)
  BY SequenceIdAssumption DEF CounterInv
<1>2. /\ kept \in Seq(Nat) /\ Len(kept) = Len(issued) - dropped
      /\ \A i \in 1 .. Len(kept) : kept[i] = issued[i + dropped]
  BY <1>1
<1>3. value' \in 1 .. SEQUENCE_ID_MAX /\ issued' = Append(kept, value')
  BY <1>1 DEF NextId, Issue
<1>4. /\ issued' \in Seq(Nat) /\ Len(issued') = Len(kept) + 1
      /\ issued'[Len(kept) + 1] = value' /\ \A i \in 1 .. Len(kept) : issued'[i] = kept[i]
  BY <1>2, <1>3
<1>5. Len(issued') <= SEQUENCE_ID_MAX
  BY <1>1, <1>2, <1>4
<1>6. ASSUME NEW i \in 1 .. Len(issued') PROVE issued'[i] = IdBefore(value', Len(issued') - i)
  <2>1. CASE i = Len(issued')
    BY <1>1, <1>3, <1>4, <2>1 DEF IdBefore
  <2>2. CASE i # Len(issued')
    <3>1. i \in 1 .. Len(kept) /\ i + dropped \in 1 .. Len(issued)
      BY <1>1, <1>2, <1>4, <2>2
    <3>2. issued'[i] = IdBefore(value, Len(issued) - (i + dropped)) /\ value # 0
      BY <1>1, <1>2, <1>4, <3>1 DEF CounterInv
    <3>3. /\ Len(issued) - (i + dropped) = Len(kept) - i
          /\ Len(issued') - i = Len(kept) - i + 1 /\ Len(kept) - i \in Nat /\ Len(kept) - i + 1 < SEQUENCE_ID_MAX
      BY <1>1, <1>2, <1>4, <1>5, <3>1
    <3> HIDE DEF kept, dropped
    <3>4. \A n \in Nat : n + 1 < SEQUENCE_ID_MAX => IdBefore(value, n) = IdBefore(NextId(value), n + 1)
      BY <1>1, <3>2 DEF IdBefore, NextId
    <3> QED
      BY <3>2, <3>3, <3>4
  <2> QED
    BY <2>1, <2>2
<1> QED
  BY <1>1, <1>3, <1>4, <1>5, <1>6 DEF CounterInv

CounterStep(t) == LoadValue(t) \/ CompareExchange(t) \/ IncrementLocked(t)

LEMMA CounterKept == CounterInv /\ [Next]_vars => CounterInv'
<1> SUFFICES ASSUME CounterInv, [Next]_vars PROVE CounterInv'
  OBVIOUS
<1>1. UNCHANGED counterVars \/ \E t \in Tasks : CounterStep(t)
  BY DEF Next, SetUp, StartWork, Increment, SealRecord, OpenRecord, SealFails, OpenFails, Altered, KeyReplaced,
         OthersUnchanged, FormatLine, ClockRuns, LoggerRuns, vars, CounterStep
<1>2. CASE UNCHANGED <<value, issued>>
  BY <1>2 DEF CounterInv
<1>3. ASSUME NEW t \in Tasks, CounterStep(t)
      PROVE  UNCHANGED <<value, issued>> \/ (value' = NextId(value) /\ Issue(value'))
  BY <1>3 DEF CounterStep, LoadValue, CompareExchange, IncrementLocked
<1> QED
  BY <1>1, <1>2, <1>3, IssueStep DEF counterVars

LEMMA InvGivesIds == CounterInv => IdsDistinct
<1> SUFFICES ASSUME CounterInv PROVE IdsDistinct
  OBVIOUS
<1>1. /\ value \in Nat /\ value <= SEQUENCE_ID_MAX /\ SEQUENCE_ID_MAX \in Nat
      /\ Len(issued) \in Nat /\ Len(issued) <= SEQUENCE_ID_MAX
  BY SequenceIdAssumption DEF CounterInv
<1>2. \A i \in 1 .. Len(issued) :
        issued[i] = (IF value - (Len(issued) - i) >= 1 THEN value - (Len(issued) - i)
                     ELSE value - (Len(issued) - i) + SEQUENCE_ID_MAX)
  BY DEF CounterInv, IdBefore
<1>3. Len(issued) > 0 => value # 0
  BY DEF CounterInv
<1>4. ASSUME NEW i \in 1 .. Len(issued) PROVE issued[i] \in 1 .. SEQUENCE_ID_MAX
  BY <1>1, <1>2, <1>3
<1>5. ASSUME NEW i \in 1 .. Len(issued), NEW j \in 1 .. Len(issued), issued[i] = issued[j]
      PROVE  i = j
  BY <1>1, <1>2, <1>5
<1> QED
  BY <1>4, <1>5 DEF IdsDistinct

-----------------------------------------------------------------------------
(* The time.  What Extend keeps is a count of ticks less than one wrap       *)
(* behind; who reads the count holds the critical section, so nobody extends *)
(* it meanwhile.                                                             *)

Counted == rollovers * TICK_WRAP + lastTicks

ReadingOk(c) ==
  /\ critical = c
  /\ reading[c].at \in Nat /\ reading[c].now = reading[c].at % TICK_WRAP
  /\ Counted <= reading[c].at /\ reading[c].at <= ticks

UpTimeInv ==
  /\ ticks \in Nat /\ rollovers \in Nat /\ lastTicks \in 0 .. TICK_WRAP - 1
  /\ Counted <= ticks /\ ticks < Counted + TICK_WRAP
  /\ reading = [c \in UpTimeCallers |-> reading[c]]
  /\ \A c \in UpTimeCallers : reading[c] # NotReading => ReadingOk(c)
  /\ UpTimeRight

\* Division: the quotient is the one number that leaves a remainder.
LEMMA Quotient ==
  ASSUME NEW n \in Nat, NEW d \in Nat \ {0}, NEW q \in Nat, NEW r \in 0 .. d - 1, n = q * d + r
  PROVE  n \div d = q /\ n % d = r
<1>1. PICK p \in Nat, s \in 0 .. d - 1 : p = n \div d /\ s = n % d /\ n = p * d + s
  OBVIOUS
<1>2. p * d + s = q * d + r
  BY <1>1
<1>3. ~(p >= q + 1)
  <2> SUFFICES ASSUME p >= q + 1 PROVE FALSE
    OBVIOUS
  <2>1. PICK k \in Nat : p = q + 1 + k
    <3>1. p - (q + 1) \in Nat
      OBVIOUS
    <3> QED
      BY <3>1
  <2>2. p * d = q * d + d + k * d /\ k * d \in Nat
    BY <2>1
  <2> QED
    BY <1>2, <2>2
<1>4. ~(q >= p + 1)
  <2> SUFFICES ASSUME q >= p + 1 PROVE FALSE
    OBVIOUS
  <2>1. PICK k \in Nat : q = p + 1 + k
    <3>1. q - (p + 1) \in Nat
      OBVIOUS
    <3> QED
      BY <3>1
  <2>2. q * d = p * d + d + k * d /\ k * d \in Nat
    BY <2>1
  <2> QED
    BY <1>2, <2>2
<1> QED
  BY <1>1, <1>2, <1>3, <1>4

\* Dividing first and scaling afterwards loses nothing.
LEMMA HundredthsRight ==
  ASSUME NEW t \in Nat
  PROVE  Hundredths(t) = ((t * 100) \div TickRate) % UINT32_WRAP
<1> PICK d \in Nat \ {0} : d = TickRate
  BY UpTimeAssumption
<1>1. PICK a \in Nat, b \in 0 .. d - 1 : a = t \div d /\ b = t % d /\ t = a * d + b
  OBVIOUS
<1>2. PICK q \in Nat, r \in 0 .. d - 1 : q = (b * 100) \div d /\ b * 100 = q * d + r
  OBVIOUS
<1>3. t * 100 = (a * 100 + q) * d + r
  <2>1. t * 100 = (a * d) * 100 + b * 100
    BY <1>1
  <2>2. (a * 100 + q) * d = (a * d) * 100 + q * d
    OBVIOUS
  <2>3. b * 100 = q * d + r
    BY <1>2
  <2> PICK x \in Nat, y \in Nat : x = (a * d) * 100 /\ y = q * d
    OBVIOUS
  <2>4. t * 100 = x + y + r /\ (a * 100 + q) * d = x + y
    BY <2>1, <2>2, <2>3
  <2> QED
    BY <2>4
<1>4. (t * 100) \div d = a * 100 + q
  <2> PICK n \in Nat : n = t * 100
    OBVIOUS
  <2> PICK p \in Nat : p = a * 100 + q
    OBVIOUS
  <2>1. n = p * d + r
    BY <1>3
  <2> QED
    BY <2>1, Quotient
<1> QED
  BY <1>1, <1>2, <1>4 DEF Hundredths

\* A count read less than a wrap after the last one tells how often it wrapped.
WithinAWrap(at, rolls, d, last) ==
  /\ at \in Nat /\ rolls \in Nat /\ d \in Nat \ {0} /\ last \in 0 .. d - 1
  /\ rolls * d + last <= at /\ at < rolls * d + last + d
Extended(at, rolls, d, last, m, w) == m = at % d /\ w = IF m < last THEN rolls + 1 ELSE rolls
Exact(at, d, m, w) == at = w * d + m /\ m \in 0 .. d - 1 /\ w \in Nat

LEMMA ExtendRight ==
  ASSUME NEW at, NEW rolls, NEW d, NEW last, WithinAWrap(at, rolls, d, last),
         NEW m, NEW w, Extended(at, rolls, d, last, m, w)
  PROVE  Exact(at, d, m, w)
<1>0. /\ at \in Nat /\ rolls \in Nat /\ d \in Nat \ {0} /\ last \in 0 .. d - 1
      /\ rolls * d + last <= at /\ at < rolls * d + last + d
      /\ m = at % d /\ w = IF m < last THEN rolls + 1 ELSE rolls
  BY DEF WithinAWrap, Extended
<1> USE <1>0
<1> SUFFICES at = w * d + m /\ m \in 0 .. d - 1 /\ w \in Nat
  BY DEF Exact
<1>1. PICK past \in Nat : past = at - rolls * d /\ last <= past /\ past < last + d
  <2>1. rolls * d \in Nat
    OBVIOUS
  <2> QED
    BY <2>1
<1>2. CASE past < d
  <2>1. past \in 0 .. d - 1 /\ at = rolls * d + past
    <3> PICK x \in Nat : x = rolls * d
      OBVIOUS
    <3> QED
      BY <1>1, <1>2
  <2>2. m = past
    BY <2>1, Quotient
  <2>3. w = rolls
    BY <1>1, <2>2
  <2> QED
    BY <2>1, <2>2, <2>3, Zenon
<1>3. CASE past >= d
  <2>1. PICK rest \in 0 .. d - 1 : rest = past - d
    BY <1>1, <1>3
  <2> PICK next \in Nat : next = rolls + 1
    OBVIOUS
  <2>2. next * d = rolls * d + d
    OBVIOUS
  <2>3. at = next * d + rest
    BY <1>1, <2>1, <2>2
  <2>4. m = rest
    BY <2>3, Quotient
  <2>5. w = next
    BY <1>1, <2>1, <2>4
  <2> QED
    BY <2>3, <2>4, <2>5, Zenon
<1> QED
  BY <1>1, <1>2, <1>3

LEMMA TickStep ==
  ASSUME UpTimeInv, Tick
  PROVE  UpTimeInv'
<1>1. /\ ticks' = ticks + 1 /\ UNCHANGED <<lastTicks, rollovers, critical, reading, upTime>>
      /\ ticks + 1 < Counted + TICK_WRAP /\ Counted' = Counted
  BY UpTimeAssumption DEF UpTimeInv, Tick, Counted
<1>2. \A c \in UpTimeCallers : ReadingOk(c) => ReadingOk(c)'
  BY <1>1 DEF ReadingOk, UpTimeInv
<1> QED
  BY <1>1, <1>2, UpTimeAssumption DEF UpTimeInv, UpTimeRight, Counted

LEMMA ReadTicksStep ==
  ASSUME UpTimeInv, NEW c \in UpTimeCallers, ReadTicks(c)
  PROVE  UpTimeInv'
<1>1. /\ critical = NoCaller /\ critical' = c /\ UNCHANGED <<ticks, lastTicks, rollovers, upTime>>
      /\ reading' = [reading EXCEPT ![c] = [now |-> ticks % TICK_WRAP, at |-> ticks]]
      /\ Counted' = Counted
  BY DEF ReadTicks, Counted
<1>2. \A e \in UpTimeCallers : reading[e] = NotReading
  BY <1>1, UpTimeAssumption DEF UpTimeInv, ReadingOk
<1>3. /\ reading' = [e \in UpTimeCallers |-> reading'[e]]
      /\ \A e \in UpTimeCallers : reading'[e] = IF e = c THEN [now |-> ticks % TICK_WRAP, at |-> ticks] ELSE NotReading
  BY <1>1, <1>2 DEF UpTimeInv
<1>4. ReadingOk(c)'
  BY <1>1, <1>3 DEF ReadingOk, UpTimeInv
<1> QED
  BY <1>1, <1>3, <1>4 DEF UpTimeInv, UpTimeRight

LEMMA ExtendStep ==
  ASSUME UpTimeInv, NEW c \in UpTimeCallers, Extend(c)
  PROVE  UpTimeInv'
<1>1. PICK at, now : at = reading[c].at /\ now = reading[c].now
  OBVIOUS
<1>2. /\ at \in Nat /\ now = at % TICK_WRAP /\ Counted <= at /\ at <= ticks /\ critical = c
      /\ reading[c] # NotReading
  BY <1>1 DEF UpTimeInv, ReadingOk, Extend
<1>3. /\ rollovers' = (IF now < lastTicks THEN rollovers + 1 ELSE rollovers)
      /\ lastTicks' = now /\ upTime' = [value |-> Hundredths(rollovers' * TICK_WRAP + now), at |-> at]
      /\ critical' = NoCaller /\ reading' = [reading EXCEPT ![c] = NotReading] /\ UNCHANGED ticks
  BY <1>1 DEF Extend
<1>4. at = rollovers' * TICK_WRAP + now /\ now \in 0 .. TICK_WRAP - 1 /\ rollovers' \in Nat
  <2> PICK rolls \in Nat, d \in Nat \ {0} : rolls = rollovers /\ d = TICK_WRAP
    BY UpTimeAssumption DEF UpTimeInv
  <2> PICK last \in 0 .. d - 1 : last = lastTicks
    BY DEF UpTimeInv
  <2> PICK w : w = IF now < last THEN rolls + 1 ELSE rolls
    OBVIOUS
  <2>1. rolls * d \in Nat /\ Counted = rolls * d + last
    BY DEF Counted
  <2>2. rolls * d + last <= at /\ at < rolls * d + last + d
    BY <1>2, <2>1 DEF UpTimeInv
  <2>3. WithinAWrap(at, rolls, d, last) /\ Extended(at, rolls, d, last, now, w)
    BY <1>2, <2>2 DEF WithinAWrap, Extended
  <2>4. Exact(at, d, now, w)
    BY <2>3, ExtendRight
  <2> QED
    BY <1>3, <2>4 DEF Exact
<1>5. Counted' = at
  BY <1>3, <1>4 DEF Counted
<1>6. /\ reading' = [e \in UpTimeCallers |-> reading'[e]]
      /\ \A e \in UpTimeCallers : reading'[e] = NotReading
  BY <1>2, <1>3 DEF UpTimeInv, ReadingOk
<1>7. UpTimeRight'
  <2>1. upTime' = [value |-> Hundredths(at), at |-> at]
    BY <1>3, <1>4
  <2> QED
    BY <1>2, <2>1, HundredthsRight DEF UpTimeRight
<1>8. ticks < at + TICK_WRAP
  <2>1. Counted \in Nat
    BY UpTimeAssumption DEF UpTimeInv, Counted
  <2> QED
    BY <1>2, <2>1, UpTimeAssumption DEF UpTimeInv
<1> QED
  BY <1>2, <1>3, <1>4, <1>5, <1>6, <1>7, <1>8 DEF UpTimeInv

LEMMA GetSysUpTime64Step ==
  ASSUME UpTimeInv, NEW c \in UpTimeCallers, NEW readable \in BOOLEAN, GetSysUpTime64(c, readable)
  PROVE  UpTimeInv'
<1>1. UNCHANGED <<ticks, lastTicks, rollovers, critical, reading>> /\ Counted' = Counted /\ ticks \in Nat
  BY DEF GetSysUpTime64, UpTimeInv, Counted
<1>2. \/ upTime' = [value |-> Hundredths(ticks), at |-> ticks]
      \/ upTime' = [value |-> ScaledFirst(ticks), at |-> ticks]
      \/ upTime' = [value |-> 0, at |-> 0]
  BY DEF GetSysUpTime64
<1>3. UpTimeRight'
  <2>1. ((0 * 100) \div TickRate) % UINT32_WRAP = 0
    BY UpTimeAssumption
  <2> QED
    BY <1>1, <1>2, <2>1, HundredthsRight DEF UpTimeRight, ScaledFirst
<1>4. \A e \in UpTimeCallers : ReadingOk(e) => ReadingOk(e)'
  BY <1>1 DEF ReadingOk
<1> QED
  BY <1>1, <1>3, <1>4 DEF UpTimeInv

LEMMA UpTimeKept == UpTimeInv /\ [Next]_vars => UpTimeInv'
<1> SUFFICES ASSUME UpTimeInv, [Next]_vars PROVE UpTimeInv'
  OBVIOUS
<1>1. UNCHANGED upTimeVars \/ ClockRuns
  BY DEF Next, SetUp, StartWork, Increment, SealRecord, OpenRecord, SealFails, OpenFails, Altered, KeyReplaced,
         OthersUnchanged, others, FormatLine, LoggerRuns, vars
<1>2. CASE UNCHANGED upTimeVars
  BY <1>2 DEF upTimeVars, UpTimeInv, ReadingOk, Counted, UpTimeRight
<1>3. CASE ClockRuns
  BY <1>3, TickStep, ReadTicksStep, ExtendStep, GetSysUpTime64Step DEF ClockRuns
<1> QED
  BY <1>1, <1>2, <1>3

LEMMA MetaInit == InitObjects => CounterInv /\ UpTimeInv
<1> SUFFICES ASSUME InitObjects PROVE CounterInv /\ UpTimeInv
  OBVIOUS
<1>1. CounterInv
  BY SequenceIdAssumption DEF InitObjects, InitCounter, CounterInv
<1>2. /\ ticks = 0 /\ lastTicks = 0 /\ rollovers = 0 /\ upTime = [value |-> 0, at |-> 0]
      /\ reading = [c \in UpTimeCallers |-> NotReading]
  BY DEF InitObjects, InitUpTime
<1>3. Counted = 0 /\ ((0 * 100) \div TickRate) % UINT32_WRAP = 0
  BY <1>2, UpTimeAssumption DEF Counted
<1> QED
  BY <1>1, <1>2, <1>3, UpTimeAssumption DEF UpTimeInv, UpTimeRight

\* However many tasks are inside Increment, and however the kernel schedules them
\* around the compare-and-exchange, no sequence id of the last full cycle is
\* handed out twice and none is 0; and however they meet in GetSysUpTime, Extend
\* neither misses a wrap of the tick count nor counts one twice, whatever the
\* tick rate and the widths are.
THEOREM MetaIsRight == Spec => []MetaRight
<1>1. InitObjects => CounterInv /\ UpTimeInv
  BY MetaInit
<1>2. CounterInv /\ UpTimeInv /\ [Next]_vars => CounterInv' /\ UpTimeInv'
  BY CounterKept, UpTimeKept
<1>3. CounterInv /\ UpTimeInv => MetaRight
  BY InvGivesIds DEF UpTimeInv, MetaRight
<1> QED
  BY <1>1, <1>2, <1>3, PTL DEF Spec

-----------------------------------------------------------------------------
(* The policies.  The trailer on the medium is the tag of what was sealed,   *)
(* under the key of then, whatever became of the content; the policy's       *)
(* FaultReported says whether it failed since it last ran.                   *)

TrailerOk(r) ==
  /\ r.by \in KeyedPolicies => r.trailer = TagOf(r.sealed, r.key)
  /\ r.by = "Crc16Policy" => r.trailer = TagOf(r.sealed, 0)

VerdictOk(v, r, k) ==
  /\ v = "REJECTED" => ~(r.content = r.sealed /\ (r.by \in KeyedPolicies => r.key = k))
  /\ v = "OPENED" => \/ r.content = r.sealed /\ (r.by \in KeyedPolicies => r.key = k)
                     \/ r.by = "NullSecurityPolicy"

SpellInv ==
  \/ faultReported = FALSE /\ spell.failed = FALSE /\ spell.told = <<>>
  \/ faultReported = TRUE /\ spell.failed = TRUE /\ Len(spell.told) = 1

PolicyInv ==
  /\ record = [by |-> record.by, content |-> record.content, trailer |-> record.trailer,
               sealed |-> record.sealed, key |-> record.key]
  /\ TrailerOk(record) /\ VerdictOk(verdict, record, key)
  /\ SpellInv

LEMMA RanStep == Ran => SpellInv'
BY DEF Ran, NoSpell, SpellInv

LEMMA ReportFaultStep ==
  ASSUME SpellInv, NEW fault, ReportFault(fault)
  PROVE  SpellInv'
<1>1. /\ faultReported' = TRUE /\ spell'.failed = TRUE
      /\ spell'.told = IF faultReported THEN spell.told ELSE Append(spell.told, fault)
  BY DEF ReportFault
<1>2. CASE faultReported
  BY <1>1, <1>2 DEF SpellInv
<1>3. CASE ~faultReported
  <2>1. spell'.told = Append(<<>>, fault)
    BY <1>1, <1>3 DEF SpellInv
  <2>2. Len(spell'.told) = 1
    BY <2>1
  <2> QED
    BY <1>1, <2>2 DEF SpellInv
<1> QED
  BY <1>2, <1>3

\* A tag matches a content and a key that are the sealed ones, and no others.
LEMMA TagsDiffer ==
  \A c, d, k, l : TagOf(c, k) = TagOf(d, l) <=> c = d /\ k = l
BY DEF TagOf

\* What a keyed policy finds the record to be.
LEMMA GcmRight ==
  ASSUME NEW policy \in AesGcmPolicies, NEW genuine \in BOOLEAN, NEW answer \in Answers(policy, genuine)
  PROVE  /\ GcmResult(policy, answer) = "REJECTED" => ~genuine
         /\ GcmResult(policy, answer) = "OPENED" => genuine
<1>1. /\ genuine => answer \in {"0", "error"}
      /\ ~genuine => answer \in {"auth", "error"}
      /\ answer = "error" => policy # "OpenSslAesGcmPolicy"
  BY DEF Answers
<1>2. CASE policy = "OpenSslAesGcmPolicy"
  BY <1>1, <1>2 DEF GcmResult, OpenSslVerdict
<1>3. CASE policy = "MbedTlsAesGcmPolicy"
  BY <1>1, <1>3 DEF GcmResult, MbedTlsVerdict
<1>4. CASE policy = "WolfSslAesGcmPolicy"
  BY <1>1, <1>4 DEF GcmResult, WolfSslVerdict
<1> QED
  BY <1>2, <1>3, <1>4 DEF AesGcmPolicies

LEMMA SealRecordStep ==
  ASSUME PolicyInv, NEW policy \in KeyedPolicies \cup StaticPolicies, NEW content \in Contents,
         SealRecord(policy, content)
  PROVE  PolicyInv'
<1>1. verdict' = "SEALED" /\ key' = key
  BY DEF SealRecord
<1>2. PICK r : /\ r = CASE policy = "NullSecurityPolicy" -> NullSealRecord(content)
                       [] policy = "Crc16Policy" -> Crc16SealRecord(content)
                       [] OTHER -> SealWith(content, key)
               /\ record' = [by |-> policy, content |-> r.content, trailer |-> r.trailer,
                             sealed |-> content, key |-> key]
  BY DEF SealRecord
<1>3. TrailerOk(record')
  <2>1. policy \in KeyedPolicies => r.trailer = TagOf(content, key)
    BY <1>2 DEF SealWith, KeyedPolicies, AesGcmPolicies, HmacPolicies
  <2>2. policy = "Crc16Policy" => r.trailer = TagOf(content, 0)
    BY <1>2 DEF Crc16SealRecord
  <2> QED
    BY <1>2, <2>1, <2>2 DEF TrailerOk
<1>4. VerdictOk(verdict', record', key')
  BY <1>1 DEF VerdictOk
<1>5. SpellInv'
  <2>1. CASE policy \in KeyedPolicies
    BY <2>1, RanStep DEF SealRecord
  <2>2. CASE policy \notin KeyedPolicies
    BY <2>2 DEF SealRecord, PolicyInv, SpellInv
  <2> QED
    BY <2>1, <2>2
<1> QED
  BY <1>2, <1>3, <1>4, <1>5 DEF PolicyInv

LEMMA OpenRecordStep ==
  ASSUME PolicyInv, NEW result \in {"OPENED", "REJECTED", "COULD_NOT_RUN"}, OpenRecord(result)
  PROVE  PolicyInv'
<1>1. /\ verdict' = result /\ key' = key /\ record' = record
      /\ record.by \in KeyedPolicies \cup StaticPolicies
      /\ result \in CASE record.by = "NullSecurityPolicy" -> NullOpenRecord
                      [] record.by = "Crc16Policy" -> Crc16OpenRecord(record)
                      [] record.by \in HmacPolicies -> HmacOpenRecord(record, key)
                      [] OTHER -> AesGcmOpenRecord(record.by, record, key)
  BY DEF OpenRecord, AtWork, Policies, StaticPolicies
<1>2. VerdictOk(result, record, key)
  <2>1. CASE record.by = "NullSecurityPolicy"
    BY <1>1, <2>1 DEF NullOpenRecord, HmacPolicies, VerdictOk
  <2>2. CASE record.by = "Crc16Policy"
    <3>1. result = IF record.trailer = TagOf(record.content, 0) THEN "OPENED" ELSE "REJECTED"
      BY <1>1, <2>2 DEF Crc16OpenRecord, HmacPolicies
    <3>2. record.trailer = TagOf(record.sealed, 0) /\ record.by \notin KeyedPolicies
      BY <2>2 DEF PolicyInv, TrailerOk, KeyedPolicies, AesGcmPolicies, HmacPolicies
    <3> QED
      BY <3>1, <3>2, TagsDiffer DEF VerdictOk
  <2>3. CASE record.by \in HmacPolicies
    <3>1. result = IF TagOf(record.content, key) = record.trailer THEN "OPENED" ELSE "REJECTED"
      BY <1>1, <2>3 DEF HmacOpenRecord, ConstantTimeEquals, HmacPolicies
    <3>2. record.trailer = TagOf(record.sealed, record.key) /\ record.by \in KeyedPolicies
      BY <2>3 DEF PolicyInv, TrailerOk, KeyedPolicies
    <3> QED
      BY <3>1, <3>2, TagsDiffer DEF VerdictOk
  <2>4. CASE record.by \in AesGcmPolicies
    <3> PICK genuine \in BOOLEAN : genuine <=> record.trailer = TagOf(record.content, key)
      BY Zenon
    <3>1. result \in AesGcmOpenRecord(record.by, record, key)
      BY <1>1, <2>4 DEF AesGcmPolicies, HmacPolicies
    <3>2. PICK answer \in Answers(record.by, genuine) : result = GcmResult(record.by, answer)
      BY <3>1 DEF AesGcmOpenRecord, Answers
    <3>3. (result = "REJECTED" => ~genuine) /\ (result = "OPENED" => genuine)
      BY <2>4, <3>2, GcmRight
    <3>4. record.trailer = TagOf(record.sealed, record.key) /\ record.by \in KeyedPolicies
      BY <2>4 DEF PolicyInv, TrailerOk, KeyedPolicies
    <3>5. genuine <=> record.content = record.sealed /\ record.key = key
      BY <3>4, TagsDiffer
    <3> QED
      BY <3>3, <3>4, <3>5 DEF VerdictOk
  <2> QED
    BY <1>1, <2>1, <2>2, <2>3, <2>4 DEF StaticPolicies, KeyedPolicies
<1>3. SpellInv'
  <2>1. CASE record.by \notin KeyedPolicies
    BY <2>1 DEF OpenRecord, PolicyInv, SpellInv
  <2>2. CASE record.by \in KeyedPolicies /\ result = "COULD_NOT_RUN"
    BY <2>2, ReportFaultStep DEF OpenRecord, PolicyInv
  <2>3. CASE record.by \in KeyedPolicies /\ result # "COULD_NOT_RUN"
    BY <2>3, RanStep DEF OpenRecord
  <2> QED
    BY <2>1, <2>2, <2>3
<1> QED
  BY <1>1, <1>2, <1>3 DEF PolicyInv

LEMMA PoliciesKept == PolicyInv /\ [Next]_vars => PolicyInv'
<1> SUFFICES ASSUME PolicyInv, [Next]_vars PROVE PolicyInv'
  OBVIOUS
<1>1. CASE UNCHANGED policyVars
  BY <1>1 DEF policyVars, PolicyInv, SpellInv
<1>2. ASSUME NEW p \in KeyedPolicies \cup StaticPolicies, NEW c \in Contents, SealRecord(p, c)
      PROVE  PolicyInv'
  BY <1>2, SealRecordStep
<1>3. ASSUME NEW r \in {"OPENED", "REJECTED", "COULD_NOT_RUN"}, OpenRecord(r)
      PROVE  PolicyInv'
  BY <1>3, OpenRecordStep
<1>4. ASSUME NEW call, SealFails(call) \/ OpenFails(call)
      PROVE  PolicyInv'
  <2>1. verdict' \in {"NOT_SEALED", "COULD_NOT_RUN"} /\ key' = key /\ record' = record
    BY <1>4 DEF SealFails, OpenFails
  <2>2. PICK fault : ReportFault(fault)
    BY <1>4 DEF SealFails, OpenFails
  <2>3. SpellInv'
    BY <2>2, ReportFaultStep DEF PolicyInv
  <2> QED
    BY <2>1, <2>3 DEF PolicyInv, VerdictOk
<1>5. ASSUME NEW c \in Contents, Altered(c)
      PROVE  PolicyInv'
  <2>1. record' = [record EXCEPT !.content = c] /\ verdict' = "none" /\ UNCHANGED <<key, faultReported, spell>>
    BY <1>5 DEF Altered
  <2>2. record' = [by |-> record.by, content |-> c, trailer |-> record.trailer,
                   sealed |-> record.sealed, key |-> record.key]
    BY <2>1 DEF PolicyInv
  <2> QED
    BY <2>1, <2>2 DEF PolicyInv, TrailerOk, VerdictOk, SpellInv
<1>6. ASSUME NEW k \in Keys, KeyReplaced(k)
      PROVE  PolicyInv'
  BY <1>6 DEF KeyReplaced, PolicyInv, TrailerOk, VerdictOk, SpellInv
<1> QED
  <2>1. SetUp \/ StartWork \/ (\E t \in Tasks : Increment(t)) \/ FormatLine \/ ClockRuns \/ LoggerRuns
          => UNCHANGED policyVars
    BY DEF SetUp, StartWork, Increment, FormatLine, ClockRuns, LoggerRuns
  <2> QED
    BY <1>1, <1>2, <1>3, <1>4, <1>5, <1>6, <2>1 DEF Next, vars

\* Whatever contents, keys and calls of the key callback or of the library fail,
\* in whatever order records are sealed and opened: OpenRecord never reports a
\* genuine record REJECTED nor another one OPENED, and of the faults since the
\* policy last ran ReportFault has told exactly one.
THEOREM VerdictsAreRight == Spec => []VerdictsRight
<1>1. InitObjects => PolicyInv
  <2> SUFFICES ASSUME InitObjects PROVE PolicyInv
    OBVIOUS
  <2>1. record = NoRecord /\ verdict = "none" /\ faultReported = FALSE /\ spell = NoSpell
    BY DEF InitObjects
  <2>2. TrailerOk(record) /\ VerdictOk(verdict, record, key)
    BY <2>1 DEF NoRecord, TrailerOk, VerdictOk, KeyedPolicies, AesGcmPolicies, HmacPolicies
  <2>3. SpellInv
    BY <2>1 DEF NoSpell, SpellInv
  <2> QED
    BY <2>1, <2>2, <2>3 DEF PolicyInv, NoRecord
<1>2. PolicyInv /\ [Next]_vars => PolicyInv'
  BY PoliciesKept
<1>3. PolicyInv => VerdictsRight
  BY DEF PolicyInv, VerdictsRight, VerdictOk, SpellInv, Genuine
<1> QED
  BY <1>1, <1>2, <1>3, PTL DEF Spec

-----------------------------------------------------------------------------
(* The logger.  The faults of the parts it lacks stand reported for as long  *)
(* as it lives; what the sender told of itself agrees with what it keeps;    *)
(* and under the shared scratch's mutex the scratch holds its holder's       *)
(* record.                                                                   *)

Standing(c) == ToldByCreates(c) \cup ToldByInstall(c)
Told(c) == Standing(c) \subseteq told

InstalledFrom(c) ==
  [Buffer |-> InstallBuffer(c), Sender |-> InstallSender(c), Store |-> InstallStore(c),
   Scratch |-> InstallScratch(c), Sd |-> InstallStructuredData(c), optional |-> c.optional \cap OptionalParts]

LoggerInv ==
  config # NoConfiguration => config \in Configurations /\ logger = InstalledFrom(config) /\ Told(config)

SenderInv ==
  /\ sending = [Connected |-> sending.Connected, DeliveryHealthy |-> sending.DeliveryHealthy,
                RecordTooLargeReported |-> sending.RecordTooLargeReported]
  /\ ~sending.DeliveryHealthy => "delivery" \in told
  /\ sending.RecordTooLargeReported => "record too large" \in told

HeldInv == held # 0 => "delivery" \in told /\ logger.Buffer = "CircularBuffer"

ScratchInv ==
  /\ formatting = [t \in Loggers |-> formatting[t]]
  /\ config # NoConfiguration /\ logger.Scratch = "SharedScratch" =>
       \A t \in Loggers : formatting[t] # 0 => scratchOf = t /\ storage = formatting[t]

\* Nothing has happened before the first record is logged.
QuietInv ==
  /\ logged \in Nat
  /\ logged = 0 =>
       /\ \A t \in Loggers : formatting[t] = 0
       /\ ring = <<>> /\ held = 0 /\ stored = <<>>
       /\ sending = [Connected |-> FALSE, DeliveryHealthy |-> TRUE, RecordTooLargeReported |-> FALSE]

\* A loss is unexplained only where a mutex fell to the Null one in silence.
Excepted(u) == u.part = "mutex" /\ u.scratch = "SharedScratch over silent NullMutex"
LossInv == \A u \in unexplained : Excepted(u)

AssemblyInv == LoggerInv /\ SenderInv /\ HeldInv /\ ScratchInv /\ QuietInv /\ LossInv

\* A loss to a part that was told, or to none, leaves it so.
LEMMA ExplainedLoss ==
  ASSUME LossInv, NEW r, NEW part, part \in told' \cup {"none"} \/ config = NoConfiguration,
         unexplained' = unexplained \cup Unexplained(r, part)
  PROVE  LossInv'
BY DEF LossInv, Unexplained, Excepted

\* A Send changes what was told of the sender, and nothing else.
SendTells(s, answer) ==
  /\ \A part : part \notin {"delivery", "record too large"} => (part \in told' <=> part \in told)
  /\ SenderInv'
  /\ ~Taken(s, answer) => "delivery" \in told'
  /\ s.kind # "NullSender" /\ Outcome(s, answer) = "OVERSIZE" => "record too large" \in told'
  /\ s.kind = "NullSender" \/ Outcome(s, answer) = "OVERSIZE" => ("delivery" \in told => "delivery" \in told')

LEMMA SendStep ==
  ASSUME SenderInv, NEW s, NEW answer, Send(s, answer)
  PROVE  SendTells(s, answer)
<1> PICK outcome : outcome = Outcome(s, answer)
  OBVIOUS
<1>1. CASE s.kind = "NullSender"
  <2>1. told' = told /\ sending' = sending
    BY <1>1 DEF Send
  <2> QED
    BY <1>1, <2>1 DEF SendTells, SenderInv, Taken
<1>2. CASE s.kind # "NullSender" /\ outcome = "OVERSIZE"
  <2>1. /\ told' = ReportRecordTooLarge
        /\ sending' = [sending EXCEPT !.Connected = TRUE, !.RecordTooLargeReported = TRUE]
    BY <1>2 DEF Send
  <2>2. told' = told \cup {"record too large"}
    BY <2>1 DEF ReportRecordTooLarge, SenderInv
  <2>3. sending' = [Connected |-> TRUE, DeliveryHealthy |-> sending.DeliveryHealthy, RecordTooLargeReported |-> TRUE]
    BY <2>1 DEF SenderInv
  <2>4. SenderInv'
    BY <2>2, <2>3 DEF SenderInv
  <2> QED
    BY <1>2, <2>2, <2>4 DEF SendTells, Taken
<1>3. CASE s.kind # "NullSender" /\ outcome # "OVERSIZE"
  <2> PICK delivered \in BOOLEAN : delivered <=> outcome = "SENT"
    BY Zenon
  <2>1. /\ told' = SenderHealth_Update(told, outcome = "SENT") \ (IF outcome = "SENT" THEN {"record too large"} ELSE {})
        /\ sending' = [Connected |-> Connects(s, answer) /\ (s.kind = "StreamSender" => outcome = "SENT"),
                       DeliveryHealthy |-> outcome = "SENT",
                       RecordTooLargeReported |-> sending.RecordTooLargeReported /\ ~(outcome = "SENT")]
    BY <1>3 DEF Send
  <2>2. CASE outcome = "SENT"
    <3>1. told' = told \ {"delivery", "record too large"} \/ told' = told \ {"record too large"}
      BY <2>1, <2>2 DEF SenderHealth_Update
    <3>2. sending'.DeliveryHealthy /\ ~sending'.RecordTooLargeReported
      BY <2>1, <2>2
    <3>3. SenderInv'
      BY <2>1, <3>2 DEF SenderInv
    <3>4. Taken(s, answer)
      BY <2>2 DEF Taken
    <3> QED
      BY <1>3, <2>2, <3>1, <3>3, <3>4 DEF SendTells
  <2>3. CASE outcome # "SENT"
    <3>1. told' = told \cup {"delivery"}
      BY <2>1, <2>3 DEF SenderHealth_Update, SenderInv
    <3>2. sending'.RecordTooLargeReported => sending.RecordTooLargeReported
      BY <2>1, <2>3
    <3>3. SenderInv'
      BY <2>1, <3>1, <3>2 DEF SenderInv
    <3> QED
      BY <1>3, <2>3, <3>1, <3>3 DEF SendTells
  <2> QED
    BY <2>2, <2>3
<1> QED
  BY <1>1, <1>2, <1>3

LEMMA StandingParts ==
  ASSUME NEW c
  PROVE  /\ "delivery" \notin Standing(c) /\ "record too large" \notin Standing(c)
         /\ c.Buffer \in {"NullBuffer", Missing} => "Buffer" \in Standing(c)
         /\ c.Sender.kind = "NullSender" \/ c.Sender = NoSender => "Sender" \in Standing(c)
         /\ c.Sender.wire \in {"NullStream", "NullDatagram"} => "wire" \in Standing(c)
         /\ c.Scratch = "SharedScratch over NullMutex" => "mutex" \in Standing(c)
         /\ c.Store = Missing \/ (c.Store \in BlockStores /\ ~Opened(c.Store)) => "Store" \in Standing(c)
         /\ c.Sd = "count without array" => "Sd" \in Standing(c)
<1>1. "delivery" \notin ToldByCreates(c) /\ "record too large" \notin ToldByCreates(c)
  BY DEF ToldByCreates
<1>2. "delivery" \notin ToldByInstall(c) /\ "record too large" \notin ToldByInstall(c)
  BY DEF ToldByInstall
<1>3. /\ c.Buffer = "NullBuffer" => "Buffer" \in ToldByCreates(c)
      /\ c.Sender.kind = "NullSender" => "Sender" \in ToldByCreates(c)
      /\ c.Sender.wire \in {"NullStream", "NullDatagram"} => "wire" \in ToldByCreates(c)
      /\ c.Scratch = "SharedScratch over NullMutex" => "mutex" \in ToldByCreates(c)
      /\ c.Store \in BlockStores /\ ~Opened(c.Store) => "Store" \in ToldByCreates(c)
  BY DEF ToldByCreates
<1>4. /\ c.Buffer = Missing => "Buffer" \in ToldByInstall(c)
      /\ c.Sender = NoSender => "Sender" \in ToldByInstall(c)
      /\ c.Store = Missing => "Store" \in ToldByInstall(c)
      /\ c.Sd = "count without array" => "Sd" \in ToldByInstall(c)
  BY DEF ToldByInstall
<1> QED
  BY <1>1, <1>2, <1>3, <1>4 DEF Standing

\* What a Send leaves of the invariant.
LEMMA SendKeeps ==
  ASSUME LoggerInv, SenderInv, NEW s, NEW answer, Send(s, answer), UNCHANGED <<config, logger>>
  PROVE  LoggerInv' /\ SenderInv'
<1>1. SendTells(s, answer)
  BY SendStep
<1>2. CASE config # NoConfiguration
  <2> PICK c : c = config
    OBVIOUS
  <2>1. c \in Configurations /\ logger = InstalledFrom(c) /\ Standing(c) \subseteq told
    BY <1>2 DEF LoggerInv, Told
  <2>2. Standing(c) \subseteq told'
    BY <1>1, <2>1, StandingParts DEF SendTells
  <2> QED
    BY <1>1, <2>1, <2>2 DEF SendTells, LoggerInv, Told
<1>3. CASE config = NoConfiguration
  BY <1>1, <1>3 DEF SendTells, LoggerInv
<1> QED
  BY <1>2, <1>3

\* A record that the sender took is lost to nobody, or to a part whose fault is
\* told; one that it did not take is a failure of the delivery.
LEMMA SendLoses ==
  ASSUME LoggerInv, SenderInv, NEW s, NEW answer, Send(s, answer),
         config # NoConfiguration, s \in {config.Sender, logger.Sender}
  PROVE  /\ Taken(s, answer) => LostTo(s, answer) \in told' \cup {"none"}
         /\ ~Taken(s, answer) => "delivery" \in told'
<1>1. SendTells(s, answer)
  BY SendStep
<1> PICK c : c = config
  OBVIOUS
<1>2. Standing(c) \subseteq told /\ logger = InstalledFrom(c)
  BY DEF LoggerInv, Told
<1>3. s = c.Sender \/ (s = NullSender /\ c.Sender = NoSender)
  BY <1>2 DEF InstalledFrom, InstallSender, Defaults
<1>4. s.kind = "NullSender" => "Sender" \in told'
  BY <1>1, <1>2, <1>3, StandingParts DEF SendTells
<1>5. s.kind # "NullSender" /\ s.wire \in {"NullStream", "NullDatagram"} => "wire" \in told'
  <2>1. NullSender.kind = "NullSender"
    BY DEF NullSender, SenderOf
  <2> QED
    BY <1>1, <1>2, <1>3, <2>1, StandingParts DEF SendTells
<1> QED
  BY <1>1, <1>4, <1>5 DEF SendTells, LostTo

LEMMA InitialiseLoggerStep ==
  ASSUME AssemblyInv, NEW c \in Configurations, InitialiseLogger(c)
  PROVE  AssemblyInv'
<1>1. /\ logged = 0 /\ config' = c /\ logger' = InstalledFrom(c) /\ told' = Standing(c)
      /\ UNCHANGED <<formatting, storage, scratchOf, logged, ring, held, stored, sending, unexplained>>
  BY DEF InitialiseLogger, InstalledFrom, Standing
<1>2. LoggerInv'
  BY <1>1 DEF LoggerInv, Told
<1>3. /\ \A t \in Loggers : formatting[t] = 0
      /\ held = 0 /\ sending = [Connected |-> FALSE, DeliveryHealthy |-> TRUE, RecordTooLargeReported |-> FALSE]
  BY <1>1 DEF AssemblyInv, QuietInv
<1>4. SenderInv' /\ HeldInv' /\ ScratchInv' /\ QuietInv'
  BY <1>1, <1>3 DEF AssemblyInv, SenderInv, HeldInv, ScratchInv, QuietInv
<1> QED
  BY <1>1, <1>2, <1>4 DEF AssemblyInv, LossInv, Excepted

LEMMA CleanupLoggerStep ==
  ASSUME AssemblyInv, CleanupLogger
  PROVE  AssemblyInv'
<1>1. /\ config' = NoConfiguration /\ held' = 0
      /\ UNCHANGED <<told, formatting, storage, scratchOf, logged, ring, stored, sending>>
      /\ unexplained' = unexplained \cup Unexplained(held, IF held = 0 THEN "none" ELSE "delivery")
  BY DEF CleanupLogger
<1>2. (IF held = 0 THEN "none" ELSE "delivery") \in told' \cup {"none"}
  BY <1>1 DEF AssemblyInv, HeldInv
<1>3. LossInv'
  BY <1>1, <1>2, ExplainedLoss DEF AssemblyInv
<1>4. LoggerInv' /\ SenderInv' /\ HeldInv' /\ ScratchInv' /\ QuietInv'
  BY <1>1 DEF AssemblyInv, LoggerInv, SenderInv, HeldInv, ScratchInv, QuietInv
<1> QED
  BY <1>3, <1>4 DEF AssemblyInv

LEMMA WithScratchStep ==
  ASSUME AssemblyInv, NEW t \in Loggers, WithScratch(t)
  PROVE  AssemblyInv'
<1>1. /\ LockScratch(t) /\ logged' = logged + 1 /\ formatting' = [formatting EXCEPT ![t] = logged + 1]
      /\ storage' = (IF Shared THEN logged + 1 ELSE storage)
      /\ UNCHANGED <<config, logger, told, ring, held, stored, sending, unexplained>>
  BY DEF WithScratch
<1>2. /\ logged \in Nat /\ formatting' = [u \in Loggers |-> formatting'[u]]
      /\ \A u \in Loggers : formatting'[u] = IF u = t THEN logged + 1 ELSE formatting[u]
  BY <1>1 DEF AssemblyInv, QuietInv, ScratchInv
<1>3. ScratchInv'
  <2>1. CASE config # NoConfiguration /\ logger.Scratch = "SharedScratch"
    <3>1. scratchOf = NoLogger /\ scratchOf' = t /\ storage' = logged + 1
      BY <1>1, <2>1 DEF LockScratch, Shared
    <3>2. \A u \in Loggers : formatting[u] = 0
      BY <2>1, <3>1, AssemblyAssumption DEF AssemblyInv, ScratchInv
    <3> QED
      BY <1>1, <1>2, <3>1, <3>2 DEF ScratchInv
  <2> QED
    BY <1>1, <1>2, <2>1 DEF ScratchInv
<1>4. QuietInv'
  BY <1>1, <1>2 DEF QuietInv
<1>5. LoggerInv' /\ SenderInv' /\ HeldInv'
  BY <1>1 DEF AssemblyInv, LoggerInv, Told, SenderInv, HeldInv
<1> QED
  BY <1>1, <1>3, <1>4, <1>5 DEF AssemblyInv, LossInv, Excepted

LEMMA WriteAndUnlockStep ==
  ASSUME AssemblyInv, NEW t \in Loggers, NEW answer \in NetworkAnswers, WriteAndUnlock(t, answer)
  PROVE  AssemblyInv'
<1> PICK own, text : own = formatting[t] /\ text = IF Shared THEN storage ELSE own
  OBVIOUS
<1>1. /\ own # 0 /\ BufferWrite(text, answer)
      /\ unexplained' = unexplained \cup Unexplained(text, BufferLosesTo(answer))
                          \cup Unexplained(own, IF text = own THEN "none" ELSE "mutex")
      /\ formatting' = [formatting EXCEPT ![t] = 0]
      /\ scratchOf' = (IF scratchOf = t THEN NoLogger ELSE scratchOf)
      /\ UNCHANGED <<config, logger, storage, logged, held, stored>>
  BY DEF WriteAndUnlock
<1>2. /\ logger.Buffer = "PassthroughBuffer" => Send(config.Sender, answer)
      /\ logger.Buffer # "PassthroughBuffer" => UNCHANGED <<told, sending>>
  BY <1>1 DEF BufferWrite
<1> PICK s : s = config.Sender
  OBVIOUS
<1>3. LoggerInv' /\ SenderInv'
  <2>1. CASE logger.Buffer = "PassthroughBuffer"
    BY <1>1, <1>2, <2>1, SendKeeps DEF AssemblyInv
  <2>2. CASE logger.Buffer # "PassthroughBuffer"
    BY <1>1, <1>2, <2>2 DEF AssemblyInv, LoggerInv, Told, SenderInv
  <2> QED
    BY <2>1, <2>2
<1>4. HeldInv'
  BY <1>1, <1>2 DEF AssemblyInv, HeldInv
<1>5. /\ formatting' = [u \in Loggers |-> formatting'[u]]
      /\ \A u \in Loggers : formatting'[u] = IF u = t THEN 0 ELSE formatting[u]
  BY <1>1 DEF AssemblyInv, ScratchInv
<1>6. ScratchInv'
  <2>1. CASE config # NoConfiguration /\ logger.Scratch = "SharedScratch"
    <3>1. \A u \in Loggers : formatting'[u] = 0
      BY <1>1, <1>5, <2>1 DEF AssemblyInv, ScratchInv
    <3> QED
      BY <1>5, <3>1 DEF ScratchInv
  <2> QED
    BY <1>1, <1>5, <2>1 DEF ScratchInv
<1>7. QuietInv'
  <2>1. logged # 0
    BY <1>1 DEF AssemblyInv, QuietInv
  <2> QED
    BY <1>1, <2>1 DEF AssemblyInv, QuietInv
<1>8. CASE config = NoConfiguration
  BY <1>1, <1>3, <1>4, <1>6, <1>7, <1>8 DEF AssemblyInv, LossInv, Excepted, Unexplained
<1>9. CASE config # NoConfiguration
  <2> PICK c : c = config
    OBVIOUS
  <2>1. c \in Configurations /\ logger = InstalledFrom(c) /\ Standing(c) \subseteq told'
    BY <1>1, <1>3, <1>9 DEF LoggerInv, Told
  <2>2. BufferLosesTo(answer) \in told' \cup {"none"}
    <3>1. CASE logger.Buffer = "NullBuffer"
      <4>1. c.Buffer \in {"NullBuffer", Missing}
        BY <2>1, <3>1 DEF InstalledFrom, InstallBuffer
      <4> QED
        BY <2>1, <3>1, <4>1, StandingParts DEF BufferLosesTo
    <3>2. CASE logger.Buffer = "PassthroughBuffer"
      BY <1>2, <1>9, <3>2, SendLoses DEF AssemblyInv, BufferLosesTo
    <3> QED
      BY <3>1, <3>2 DEF BufferLosesTo
  <2>3. text # own => "mutex" \in told' \/ logger.Scratch = "SharedScratch over silent NullMutex"
    <3>1. CASE logger.Scratch = "StackScratch"
      BY <3>1 DEF Shared
    <3>2. CASE logger.Scratch = "SharedScratch"
      BY <1>1, <1>9, <3>2 DEF AssemblyInv, ScratchInv, Shared
    <3>3. CASE logger.Scratch \notin {"StackScratch", "SharedScratch"}
      <4>1. c.Scratch = logger.Scratch /\ c.Scratch \in {"SharedScratch over NullMutex", "SharedScratch over silent NullMutex"}
        BY <2>1, <3>3, AssemblyAssumption DEF InstalledFrom, InstallScratch, Defaults, Missing
      <4> QED
        BY <2>1, <4>1, StandingParts
    <3> QED
      BY <3>1, <3>2, <3>3
  <2>4. LossInv'
    <3>1. Unexplained(text, BufferLosesTo(answer)) = {}
      BY <2>2 DEF Unexplained
    <3>2. \A u \in Unexplained(own, IF text = own THEN "none" ELSE "mutex") : Excepted(u)
      <4>1. CASE text = own
        BY <4>1 DEF Unexplained
      <4>2. CASE text # own
        <5> PICK u : u = [record |-> own, part |-> "mutex", scratch |-> logger.Scratch]
          OBVIOUS
        <5>1. u.part = "mutex" /\ u.scratch = logger.Scratch
          OBVIOUS
        <5>2. Unexplained(own, "mutex") \in {{}, {u}} /\ ("mutex" \in told' => Unexplained(own, "mutex") = {})
          BY DEF Unexplained
        <5> QED
          BY <2>3, <4>2, <5>1, <5>2 DEF Excepted
      <4> QED
        BY <4>1, <4>2
    <3> QED
      BY <1>1, <3>1, <3>2 DEF AssemblyInv, LossInv
  <2> QED
    BY <1>3, <1>4, <1>6, <1>7, <2>4 DEF AssemblyInv
<1> QED
  BY <1>8, <1>9

LEMMA DealWithHeldStep ==
  ASSUME AssemblyInv, NEW answer \in NetworkAnswers, DealWithHeld(answer)
  PROVE  AssemblyInv'
<1> PICK r : r = IF held = 0 THEN Head(ring) ELSE held
  OBVIOUS
<1>1. /\ logger.Buffer = "CircularBuffer" /\ (held = 0 => ring # <<>>)
      /\ UNCHANGED <<config, logger, formatting, storage, scratchOf, logged>>
  BY DEF DealWithHeld
<1>2. QuietInv' /\ ScratchInv'
  <2>1. logged # 0
    BY <1>1 DEF AssemblyInv, QuietInv
  <2> QED
    BY <1>1, <2>1 DEF AssemblyInv, QuietInv, ScratchInv
<1>3. CASE StoreWrite(logger.Store) = "KEPT"
  <2>1. held' = 0 /\ UNCHANGED <<told, sending, unexplained>>
    BY <1>3 DEF DealWithHeld
  <2> QED
    BY <1>1, <1>2, <2>1 DEF AssemblyInv, LoggerInv, Told, SenderInv, HeldInv, LossInv, Excepted
<1>4. CASE StoreWrite(logger.Store) # "KEPT"
  <2>1. /\ Send(logger.Sender, answer)
        /\ \/ /\ Taken(logger.Sender, answer) /\ held' = 0
              /\ unexplained' = unexplained \cup Unexplained(r, LostTo(logger.Sender, answer))
           \/ ~Taken(logger.Sender, answer) /\ held' = r /\ unexplained' = unexplained
    BY <1>4 DEF DealWithHeld
  <2> PICK s : s = logger.Sender
    OBVIOUS
  <2>2. LoggerInv' /\ SenderInv'
    BY <1>1, <2>1, SendKeeps DEF AssemblyInv
  <2>3. HeldInv'
    <3>1. SendTells(s, answer)
      BY <2>1, SendStep DEF AssemblyInv
    <3> QED
      BY <1>1, <2>1, <3>1 DEF SendTells, HeldInv
  <2>4. LossInv'
    <3>0. unexplained' = unexplained => LossInv'
      BY DEF AssemblyInv, LossInv, Excepted
    <3>1. CASE config = NoConfiguration
      BY <2>1, <3>0, <3>1, ExplainedLoss DEF AssemblyInv
    <3>2. CASE config # NoConfiguration
      <4>1. Taken(s, answer) => LostTo(s, answer) \in told' \cup {"none"}
        BY <2>1, <3>2, SendLoses DEF AssemblyInv
      <4> QED
        BY <2>1, <3>0, <4>1, ExplainedLoss DEF AssemblyInv
    <3> QED
      BY <3>1, <3>2
  <2> QED
    BY <1>2, <2>2, <2>3, <2>4 DEF AssemblyInv
<1> QED
  BY <1>3, <1>4

LEMMA SendStoredStep ==
  ASSUME AssemblyInv, NEW answer \in NetworkAnswers, SendStored(answer)
  PROVE  AssemblyInv'
<1>1. /\ held = 0 /\ stored # <<>> /\ Send(logger.Sender, answer)
      /\ UNCHANGED <<config, logger, formatting, storage, scratchOf, logged, ring, held>>
      /\ \/ /\ Taken(logger.Sender, answer)
            /\ unexplained' = unexplained \cup Unexplained(Head(stored), LostTo(logger.Sender, answer))
         \/ unexplained' = unexplained
  BY DEF SendStored
<1> PICK s : s = logger.Sender
  OBVIOUS
<1>2. QuietInv' /\ ScratchInv' /\ HeldInv'
  <2>1. logged # 0
    BY <1>1 DEF AssemblyInv, QuietInv
  <2> QED
    BY <1>1, <2>1 DEF AssemblyInv, QuietInv, ScratchInv, HeldInv
<1>3. LoggerInv' /\ SenderInv'
  BY <1>1, SendKeeps DEF AssemblyInv
<1>4. LossInv'
  <2>0. unexplained' = unexplained => LossInv'
    BY DEF AssemblyInv, LossInv, Excepted
  <2>1. CASE config = NoConfiguration
    BY <1>1, <2>0, <2>1, ExplainedLoss DEF AssemblyInv
  <2>2. CASE config # NoConfiguration
    <3>1. Taken(s, answer) => LostTo(s, answer) \in told' \cup {"none"}
      BY <1>1, <2>2, SendLoses DEF AssemblyInv
    <3> QED
      BY <1>1, <2>0, <3>1, ExplainedLoss DEF AssemblyInv
  <2> QED
    BY <2>1, <2>2
<1> QED
  BY <1>2, <1>3, <1>4 DEF AssemblyInv

LEMMA AssembliesKept == AssemblyInv /\ [Next]_vars => AssemblyInv'
<1> SUFFICES ASSUME AssemblyInv, [Next]_vars PROVE AssemblyInv'
  OBVIOUS
<1>1. UNCHANGED assemblyVars \/ AssemblyNext
  BY DEF Next, SetUp, StartWork, Increment, SealRecord, OpenRecord, SealFails, OpenFails, Altered, KeyReplaced,
         OthersUnchanged, others, FormatLine, ClockRuns, LoggerRuns, vars
<1>2. CASE UNCHANGED assemblyVars
  BY <1>2 DEF assemblyVars, AssemblyInv, LoggerInv, Told, SenderInv, HeldInv, ScratchInv, QuietInv, LossInv, Excepted
<1>3. CASE AssemblyNext
  BY <1>2, <1>3, InitialiseLoggerStep, CleanupLoggerStep, WithScratchStep, WriteAndUnlockStep, DealWithHeldStep,
     SendStoredStep DEF AssemblyNext, IdlePass
<1> QED
  BY <1>1, <1>2, <1>3

LEMMA InvGivesLosses == AssemblyInv => LossesTold
<1> SUFFICES ASSUME AssemblyInv, config # NoConfiguration,
                    NEW part \in {"Buffer", "Sender", "Store", "Sd"}, logger[part] # config[part]
             PROVE  part \in told
  BY DEF AssemblyInv, LossInv, Excepted, LossesTold
<1> PICK c : c = config
  OBVIOUS
<1>1. logger = InstalledFrom(c) /\ Standing(c) \subseteq told
  BY DEF AssemblyInv, LoggerInv, Told
<1>2. CASE part = "Buffer"
  BY <1>1, <1>2, StandingParts DEF InstalledFrom, InstallBuffer
<1>3. CASE part = "Sender"
  BY <1>1, <1>3, StandingParts DEF InstalledFrom, InstallSender
<1>4. CASE part = "Store"
  BY <1>1, <1>4, StandingParts DEF InstalledFrom, InstallStore, StoreAfterCreate
<1>5. CASE part = "Sd"
  BY <1>1, <1>5, StandingParts DEF InstalledFrom, InstallStructuredData
<1> QED
  BY <1>2, <1>3, <1>4, <1>5

\* Of a logger put together from any parts, by any number of tasks that log and
\* a network that answers as it likes: no record is lost to a part that neither
\* its own Create, nor an Install function, nor SenderHealth_Update reported,
\* but to a mutex that a Posix or FreeRTOS Create made the Null one in silence;
\* and no buffer, sender, store or structured data stands in for another in
\* silence.
THEOREM LossesAreTold == Spec => []LossesTold
<1>1. InitObjects => AssemblyInv
  <2> SUFFICES ASSUME InitObjects PROVE AssemblyInv
    OBVIOUS
  <2>1. /\ config = NoConfiguration /\ formatting = [t \in Loggers |-> 0] /\ logged = 0 /\ ring = <<>>
        /\ held = 0 /\ stored = <<>> /\ unexplained = {}
        /\ sending = [Connected |-> FALSE, DeliveryHealthy |-> TRUE, RecordTooLargeReported |-> FALSE]
    BY DEF InitObjects, InitAssembly
  <2> QED
    BY <2>1 DEF AssemblyInv, LoggerInv, SenderInv, HeldInv, ScratchInv, QuietInv, LossInv
<1>2. AssemblyInv /\ [Next]_vars => AssemblyInv'
  BY AssembliesKept
<1>3. AssemblyInv => LossesTold
  BY InvGivesLosses
<1> QED
  BY <1>1, <1>2, <1>3, PTL DEF Spec
=============================================================================
