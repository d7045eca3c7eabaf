------------------------------- MODULE Pools -------------------------------
(* The static pools: SolidSyslogPoolAllocator under the config lock, and the  *)
(* Create and Destroy of the classes that keep their instances in one.  Two   *)
(* tasks create and destroy objects of one class, chosen at the start; each   *)
(* destroys only what its own Create handed out.                              *)
EXTENDS Naturals, FiniteSets, Sequences, FiniteSetsExt

CONSTANTS
  Tasks,
  nobody,      \* the config lock's holder when it is free
  Count,       \* the allocators' Count, a pool size tunable
  Classes      \* the classes the tasks may set up

ASSUME PoolsAssumption == Count \in Nat \ {0} /\ nobody \notin Tasks

(***************************************************************************)
(* What a class's Initialise and Cleanup do to the platform's object.      *)
(* initialise: whether Initialise always works, may fail, or may fall to   *)
(* the Null object; native: whether it creates the platform's object, a    *)
(* later Open does, or nothing does; closes: whether Cleanup looks whether *)
(* it holds one before it closes it.                                       *)
(***************************************************************************)
Life(initialise, native, closes) ==
  [initialise |-> initialise, native |-> native, closes |-> closes]
Plain == Life("works", "none", "ifHeld")
OpenedLater == Life("works", "opened", "ifHeld")

PosixMutexLife == Life("mayFall", "created", "ifHeld")
FreeRtosMutexLife == Life("mayFall", "created", "ifHeld")
CmsisRtosMutexLife == Life("mayFail", "created", "ifHeld")
VxWorks64MutexLife == Life("mayFail", "created", "ifHeld")
WindowsMutexLife == Life("works", "created", "always")
PosixMessageQueueBufferLife == Life("mayFail", "created", "always")
LittleFsFileLife == Life("mayFail", "opened", "ifHeld")
FileBlockDeviceLife == OpenedLater
StreamSenderLife == OpenedLater
UdpSenderLife == OpenedLater
PosixFileLife == OpenedLater
WindowsFileLife == OpenedLater
VxWorks64FileLife == OpenedLater
FatFsFileLife == OpenedLater
PlusFatFileLife == OpenedLater
PosixDatagramLife == OpenedLater
WinsockDatagramLife == OpenedLater
VxWorks64DatagramLife == OpenedLater
PlusTcpDatagramLife == OpenedLater
LwipRawDatagramLife == OpenedLater
LwipSocketDatagramLife == OpenedLater
PosixTcpStreamLife == OpenedLater
WinsockTcpStreamLife == OpenedLater
VxWorks64TcpStreamLife == OpenedLater
PlusTcpTcpStreamLife == OpenedLater
LwipRawTcpStreamLife == OpenedLater
LwipSocketTcpStreamLife == OpenedLater
OpenSslStreamLife == OpenedLater
MbedTlsStreamLife == OpenedLater
WolfSslStreamLife == OpenedLater
MbedTlsPemBufferCredentialsLife == OpenedLater

(***************************************************************************)
(* The classes.  requires: the checks of the configuration, in order;      *)
(* undo: whether a Create whose Initialise failed cleans the slot up       *)
(* before it frees it; after: what a destroyed handle is; fallback: what   *)
(* Create hands back instead, and tells: whether it says so.               *)
(***************************************************************************)
Pooled(requires, life) ==
  [requires |-> requires, initialise |-> life.initialise, undo |-> "cleanup",
   native |-> life.native, closes |-> life.closes, after |-> "null", fallback |-> "null",
   tells |-> TRUE, nested |-> FALSE, clears |-> FALSE]

PooledKept(requires, life) == [Pooled(requires, life) EXCEPT !.after = "kept"]
PooledPolicy(requires) == PooledKept(requires, Plain)
PooledAddress == [PooledKept(<<>>, Plain) EXCEPT !.fallback = "shared"]
InnerPool == [PooledKept(<<>>, Plain) EXCEPT !.fallback = "NULL", !.tells = FALSE]

SolidSyslog == [Pooled(<<"config">>, Plain) EXCEPT !.clears = TRUE]
BlockStore == [Pooled(<<"config", "BlockDevice", "trailer fits">>, Plain) EXCEPT !.nested = TRUE]
RecordStore == InnerPool
BlockSequence == InnerPool
CircularBuffer == Pooled(<<"mutex", "ring">>, Plain)
PassthroughBuffer == Pooled(<<"sender">>, Plain)
SharedScratch == [Pooled(<<"mutex">>, Plain) EXCEPT !.fallback = "stack"]
FileBlockDevice == Pooled(<<>>, FileBlockDeviceLife)
MetaSd == Pooled(<<"config", "Counter">>, Plain)
OriginSd == Pooled(<<>>, Plain)
TimeQualitySd == Pooled(<<"getTimeQuality">>, Plain)
StreamSender == Pooled(<<"config", "Resolver", "Stream", "Address">>, StreamSenderLife)
SwitchingSender == Pooled(<<"config", "Senders", "count", "Selector", "inner senders">>, Plain)
UdpSender == Pooled(<<"config", "Resolver", "Datagram", "Address", "Endpoint">>, UdpSenderLife)

PosixMutex == Pooled(<<>>, PosixMutexLife)
FreeRtosMutex == Pooled(<<>>, FreeRtosMutexLife)
CmsisRtosMutex == Pooled(<<>>, CmsisRtosMutexLife)
VxWorks64Mutex == Pooled(<<>>, VxWorks64MutexLife)
WindowsMutex == Pooled(<<>>, WindowsMutexLife)
StdAtomicCounter == Pooled(<<>>, Plain)
VxWorks64AtomicCounter == Pooled(<<>>, Plain)
WindowsAtomicCounter == Pooled(<<>>, Plain)
PosixMessageQueueBuffer ==
  [Pooled(<<"mutex">>, PosixMessageQueueBufferLife) EXCEPT !.undo = "none"]

PosixFile == Pooled(<<>>, PosixFileLife)
WindowsFile == Pooled(<<>>, WindowsFileLife)
VxWorks64File == Pooled(<<>>, VxWorks64FileLife)
FatFsFile == Pooled(<<>>, FatFsFileLife)
PlusFatFile == Pooled(<<>>, PlusFatFileLife)
LittleFsFile == Pooled(<<>>, LittleFsFileLife)

PosixAddress == PooledAddress
WinsockAddress == PooledAddress
VxWorks64Address == PooledAddress
PlusTcpAddress == PooledAddress
LwipRawAddress == PooledAddress
LwipSocketAddress == PooledAddress
PosixResolver == Pooled(<<>>, Plain)
WinsockResolver == Pooled(<<>>, Plain)
VxWorks64Resolver == Pooled(<<>>, Plain)
PlusTcpResolver == Pooled(<<>>, Plain)
LwipRawResolver == Pooled(<<>>, Plain)
LwipSocketResolver == Pooled(<<>>, Plain)
LwipRawDnsResolver == Pooled(<<"config", "Sleep">>, Plain)
PosixDatagram == Pooled(<<>>, PosixDatagramLife)
WinsockDatagram == Pooled(<<>>, WinsockDatagramLife)
VxWorks64Datagram == Pooled(<<>>, VxWorks64DatagramLife)
PlusTcpDatagram == Pooled(<<>>, PlusTcpDatagramLife)
LwipRawDatagram == Pooled(<<>>, LwipRawDatagramLife)
LwipSocketDatagram == Pooled(<<>>, LwipSocketDatagramLife)
PosixTcpStream == Pooled(<<>>, PosixTcpStreamLife)
WinsockTcpStream == Pooled(<<>>, WinsockTcpStreamLife)
VxWorks64TcpStream == Pooled(<<>>, VxWorks64TcpStreamLife)
PlusTcpTcpStream == Pooled(<<>>, PlusTcpTcpStreamLife)
LwipRawTcpStream == Pooled(<<"config", "Sleep">>, LwipRawTcpStreamLife)
LwipSocketTcpStream == Pooled(<<>>, LwipSocketTcpStreamLife)

OpenSslStream == Pooled(<<"config", "Transport", "Sleep", "Credentials">>, OpenSslStreamLife)
MbedTlsStream == Pooled(<<"config", "Transport", "Sleep", "Rng", "Credentials">>, MbedTlsStreamLife)
WolfSslStream == Pooled(<<"config", "Transport", "Sleep", "Credentials">>, WolfSslStreamLife)
OpenSslPemFileCredentials == PooledKept(<<"config", "PeerFingerprints">>, Plain)
MbedTlsPemBufferCredentials == PooledKept(<<"config", "Rng", "PeerFingerprints">>, MbedTlsPemBufferCredentialsLife)
MbedTlsHandleCredentials == PooledKept(<<"config", "Rng", "PeerFingerprints">>, Plain)
WolfSslPemBufferCredentials == PooledKept(<<"config", "PeerFingerprints">>, Plain)
OpenSslAesGcmPolicy == PooledPolicy(<<"config and GetKey">>)
MbedTlsAesGcmPolicy == PooledPolicy(<<"config, GetKey and Rng">>)
WolfSslAesGcmPolicy == PooledPolicy(<<"config, GetKey and Rng">>)
OpenSslHmacSha256Policy == PooledPolicy(<<"config and GetKey">>)
MbedTlsHmacSha256Policy == PooledPolicy(<<"config and GetKey">>)
WolfSslHmacSha256Policy == PooledPolicy(<<"config and GetKey">>)

ClassNamed ==
  [SolidSyslog |-> SolidSyslog, BlockStore |-> BlockStore, RecordStore |-> RecordStore,
   BlockSequence |-> BlockSequence, CircularBuffer |-> CircularBuffer,
   PassthroughBuffer |-> PassthroughBuffer, SharedScratch |-> SharedScratch,
   FileBlockDevice |-> FileBlockDevice, MetaSd |-> MetaSd, OriginSd |-> OriginSd,
   TimeQualitySd |-> TimeQualitySd, StreamSender |-> StreamSender,
   SwitchingSender |-> SwitchingSender, UdpSender |-> UdpSender, PosixMutex |-> PosixMutex,
   FreeRtosMutex |-> FreeRtosMutex, CmsisRtosMutex |-> CmsisRtosMutex,
   VxWorks64Mutex |-> VxWorks64Mutex, WindowsMutex |-> WindowsMutex,
   StdAtomicCounter |-> StdAtomicCounter,
   VxWorks64AtomicCounter |-> VxWorks64AtomicCounter,
   WindowsAtomicCounter |-> WindowsAtomicCounter,
   PosixMessageQueueBuffer |-> PosixMessageQueueBuffer, PosixFile |-> PosixFile,
   WindowsFile |-> WindowsFile, VxWorks64File |-> VxWorks64File, FatFsFile |-> FatFsFile,
   PlusFatFile |-> PlusFatFile, LittleFsFile |-> LittleFsFile,
   PosixAddress |-> PosixAddress, WinsockAddress |-> WinsockAddress,
   VxWorks64Address |-> VxWorks64Address, PlusTcpAddress |-> PlusTcpAddress,
   LwipRawAddress |-> LwipRawAddress, LwipSocketAddress |-> LwipSocketAddress,
   PosixResolver |-> PosixResolver, WinsockResolver |-> WinsockResolver,
   VxWorks64Resolver |-> VxWorks64Resolver, PlusTcpResolver |-> PlusTcpResolver,
   LwipRawResolver |-> LwipRawResolver, LwipSocketResolver |-> LwipSocketResolver,
   LwipRawDnsResolver |-> LwipRawDnsResolver, PosixDatagram |-> PosixDatagram,
   WinsockDatagram |-> WinsockDatagram, VxWorks64Datagram |-> VxWorks64Datagram,
   PlusTcpDatagram |-> PlusTcpDatagram, LwipRawDatagram |-> LwipRawDatagram,
   LwipSocketDatagram |-> LwipSocketDatagram, PosixTcpStream |-> PosixTcpStream,
   WinsockTcpStream |-> WinsockTcpStream, VxWorks64TcpStream |-> VxWorks64TcpStream,
   PlusTcpTcpStream |-> PlusTcpTcpStream, LwipRawTcpStream |-> LwipRawTcpStream,
   LwipSocketTcpStream |-> LwipSocketTcpStream, OpenSslStream |-> OpenSslStream,
   MbedTlsStream |-> MbedTlsStream, WolfSslStream |-> WolfSslStream,
   OpenSslPemFileCredentials |-> OpenSslPemFileCredentials,
   MbedTlsPemBufferCredentials |-> MbedTlsPemBufferCredentials,
   MbedTlsHandleCredentials |-> MbedTlsHandleCredentials,
   WolfSslPemBufferCredentials |-> WolfSslPemBufferCredentials,
   OpenSslAesGcmPolicy |-> OpenSslAesGcmPolicy,
   MbedTlsAesGcmPolicy |-> MbedTlsAesGcmPolicy,
   WolfSslAesGcmPolicy |-> WolfSslAesGcmPolicy,
   OpenSslHmacSha256Policy |-> OpenSslHmacSha256Policy,
   MbedTlsHmacSha256Policy |-> MbedTlsHmacSha256Policy,
   WolfSslHmacSha256Policy |-> WolfSslHmacSha256Policy]

ASSUME ClassesAssumption == Classes \subseteq DOMAIN ClassNamed

-----------------------------------------------------------------------------
VARIABLES
  class,     \* the class the tasks set up
  inUse,     \* the allocators' InUse
  object,    \* the class's pool: vtable, platform object and inner objects
  holder,    \* the task inside the config lock
  task,      \* the locals of each task's call, and what its last call told
  owned,     \* the handles each task's Creates handed out
  pending    \* whether an event is pending: SolidSyslog's Destroy clears it

poolVars == <<class, inUse, object, holder, task, owned, pending>>

Allocators == {"own", "record", "sequence"}
Slots == 0..Count - 1
C == ClassNamed[class]

\* A task outside the library: none of its locals points to a slot.
Idle ==
  [pc |-> "idle", call |-> "none", pool |-> "own", index |-> 0,
   claimed |-> [p \in Allocators |-> Count], told |-> <<>>, result |-> "none"]

Init ==
  /\ class \in Classes
  /\ inUse = [p \in Allocators |-> [s \in Slots |-> FALSE]]
  /\ object = [s \in Slots |-> [mode |-> "null", native |-> "none", record |-> Count, sequence |-> Count]]
  /\ holder = nobody
  /\ task = [t \in Tasks |-> Idle]
  /\ owned = [t \in Tasks |-> {}]
  /\ pending = FALSE

At(t, pc) == task[t].pc = pc
Go(t, k) == task' = [task EXCEPT ![t] = k]
Ends(t, told, result) == Go(t, [Idle EXCEPT !.call = task[t].call, !.told = told, !.result = result])
Tell(detail) == IF C.tells THEN <<detail>> ELSE <<>>

\* Create, up to the walk: the first check that fails is told.
Create(t, missing) ==
  /\ At(t, "idle")
  /\ IF missing = {}
       THEN Go(t, [Idle EXCEPT !.pc = "acquire", !.call = "create"])
       ELSE Go(t, [Idle EXCEPT !.call = "create", !.told = <<C.requires[Min(missing)]>>, !.result = C.fallback])
  /\ UNCHANGED <<class, inUse, object, holder, owned, pending>>

\* SolidSyslog_LockConfig: the host's mutex, taken for one slot at a time.
LockConfig(t) ==
  /\ task[t].pc \in {"acquire", "release"} /\ holder = nobody
  /\ holder' = t
  /\ Go(t, [task[t] EXCEPT !.pc = IF @ = "acquire" THEN "looking" ELSE "freeing"])
  /\ UNCHANGED <<class, inUse, object, owned, pending>>

UnlockConfig == holder' = nobody

\* A mutant: the slot is looked at under the lock and claimed after it.
TryClaimAfterUnlock(t) ==
  /\ At(t, "looking")
  /\ LET k == task[t] IN
       IF inUse[k.pool][k.index]
         THEN Go(t, [k EXCEPT !.index = @ + 1, !.pc = IF k.index + 1 < Count THEN "acquire" ELSE "exhausted"])
         ELSE Go(t, [k EXCEPT !.pc = "claiming"])
  /\ UnlockConfig
  /\ UNCHANGED <<class, inUse, object, owned, pending>>

\* PoolAllocator_TryClaim, and AcquireFirstFree's step to the next slot.
TryClaim(t) ==
  /\ At(t, "looking")
  /\ LET k == task[t] IN
       IF inUse[k.pool][k.index]
         THEN /\ Go(t, [k EXCEPT !.index = @ + 1, !.pc = IF k.index + 1 < Count THEN "acquire" ELSE "exhausted"])
              /\ UnlockConfig
         ELSE Go(t, [k EXCEPT !.pc = "claiming"]) /\ UNCHANGED holder
  /\ UNCHANGED <<class, inUse, object, owned, pending>>

\* PoolAllocator_MarkInUse, still inside the lock.
MarkInUse(t) ==
  /\ At(t, "claiming")
  /\ LET k == task[t] IN
       /\ inUse' = [inUse EXCEPT ![k.pool][k.index] = TRUE]
       /\ Go(t, [k EXCEPT !.claimed[k.pool] = k.index, !.pc = "initialise"])
  /\ UnlockConfig
  /\ UNCHANGED <<class, object, owned, pending>>

\* The next walk of BlockStore_CreateInSlot: its own slot, then a record store
\* and a block sequence, whose Creates are Creates of their own pools.
HasMoreToAcquire(k) == C.nested /\ k.pool # "sequence"
NextPool(pool) == IF pool = "own" THEN "record" ELSE "sequence"

AcquireNext(t) ==
  /\ At(t, "initialise") /\ HasMoreToAcquire(task[t])
  /\ Go(t, [task[t] EXCEPT !.pc = "acquire", !.pool = NextPool(@), !.index = 0])
  /\ UNCHANGED <<class, inUse, object, holder, owned, pending>>

InitialiseOutcomes ==
  CASE C.initialise = "works" -> {"live"}
    [] C.initialise = "mayFall" -> {"live", "null"}
    [] C.initialise = "mayFail" -> {"live", "failed"}

\* Initialise, outside the lock, and the end of Create; one that failed tells
\* and gives the slot back.
Initialise(t, outcome) ==
  LET k == task[t]
      s == k.claimed["own"]
  IN  /\ At(t, "initialise") /\ ~HasMoreToAcquire(k)
      /\ object' = [object EXCEPT ![s] =
           [mode |-> IF outcome = "live" THEN "live" ELSE "null",
            native |-> IF outcome = "live" /\ C.native = "created" THEN "held" ELSE "none",
            record |-> k.claimed["record"], sequence |-> k.claimed["sequence"]]]
      /\ IF outcome = "failed"
           THEN /\ Go(t, [k EXCEPT !.pc = "release", !.told = <<"CREATE_FAILED">>])
                /\ UNCHANGED owned
           ELSE /\ owned' = [owned EXCEPT ![t] = @ \cup {s}]
                /\ Ends(t, <<>>, "object")
      /\ UNCHANGED <<class, inUse, holder, pending>>

\* No slot was free: a store gives back what it claimed before.
Exhausted(t) ==
  /\ At(t, "exhausted")
  /\ LET k == task[t] IN
       IF k.pool = "own"
         THEN Ends(t, Tell("POOL_EXHAUSTED"), C.fallback)
         ELSE Go(t, [k EXCEPT !.pc = "release", !.pool = IF @ = "sequence" THEN "record" ELSE "own",
                              !.told = Tell("POOL_EXHAUSTED")])
  /\ UNCHANGED <<class, inUse, object, holder, owned, pending>>

\* Destroy of a handle the pool knows: BlockStore_Destroy reads its inner
\* objects before the lock.
Destroy(t, s) ==
  /\ At(t, "idle") /\ s \in owned[t]
  /\ owned' = [owned EXCEPT ![t] = @ \ {s}]
  /\ Go(t, [Idle EXCEPT !.pc = "release", !.call = "destroy",
              !.claimed = [own |-> s, record |-> object[s].record, sequence |-> object[s].sequence]])
  /\ UNCHANGED <<class, inUse, object, holder, pending>>

\* Destroy of the fallback: IndexFromHandle finds no slot.
DestroyUnknown(t) ==
  /\ At(t, "idle")
  /\ Go(t, [Idle EXCEPT !.call = "destroy", !.told = Tell("UNKNOWN_DESTROY")])
  /\ UNCHANGED <<class, inUse, object, holder, owned, pending>>

\* The class's Cleanup: closes what the object holds and, where after says so,
\* leaves the handle a Null object.
Cleanup(o) ==
  [o EXCEPT !.mode = IF C.after = "null" THEN "null" ELSE @,
            !.native = IF C.closes = "always" /\ @ = "none" THEN "broken" ELSE "none"]

\* Whether FreeIfInUse is given the cleanup: not by a store that gives back a
\* slot it has not initialised, nor for a queue that did not open.
PassesCleanup(k) == k.call = "destroy" \/ (C.undo = "cleanup" /\ ~C.nested)

\* SolidSyslogPoolAllocator_FreeIfInUse, up to MarkFree
FreeIfInUse(t) ==
  LET k == task[t]
      slot == k.claimed[k.pool]
  IN  /\ At(t, "freeing")
      /\ IF inUse[k.pool][slot]
           THEN /\ object' = IF k.pool = "own" /\ PassesCleanup(k) THEN [object EXCEPT ![slot] = Cleanup(@)] ELSE object
                /\ Go(t, [k EXCEPT !.pc = "marking"]) /\ UNCHANGED holder
           ELSE Ends(t, Tell("UNKNOWN_DESTROY"), "none") /\ UnlockConfig /\ UNCHANGED object
      /\ UNCHANGED <<class, inUse, owned, pending>>

\* What a call has left to give back: BlockStore_Destroy its inner objects, the
\* sequence first; a failed Create the slot the store itself claimed.
LeftToRelease(k) ==
  IF ~C.nested THEN {}
  ELSE IF k.call = "destroy"
    THEN (CASE k.pool = "own" -> {"sequence"} [] k.pool = "sequence" -> {"record"} [] OTHER -> {})
    ELSE (IF k.pool = "record" THEN {"own"} ELSE {})

MarkFree(t) ==
  LET k == task[t] IN
    /\ At(t, "marking")
    /\ inUse' = [inUse EXCEPT ![k.pool][k.claimed[k.pool]] = FALSE]
    /\ UnlockConfig
    /\ \/ /\ LeftToRelease(k) = {} /\ ~(C.clears /\ k.call = "destroy")
          /\ Ends(t, k.told, IF k.call = "create" THEN C.fallback ELSE "none")
       \/ /\ LeftToRelease(k) = {} /\ C.clears /\ k.call = "destroy"
          /\ Go(t, [k EXCEPT !.pc = "clearing", !.claimed[k.pool] = Count])
       \/ \E p \in LeftToRelease(k) :
            Go(t, [k EXCEPT !.pc = "release", !.pool = p, !.claimed[k.pool] = Count])
    /\ UNCHANGED <<class, object, owned, pending>>

\* SolidSyslog_Destroy, once the slot is released: PendingEvents_Clear.
ClearPendingEvents(t) ==
  /\ At(t, "clearing") /\ pending' = FALSE /\ Ends(t, <<>>, "none")
  /\ UNCHANGED <<class, inUse, object, holder, owned>>

\* An event of the live logger.
RecordEvent ==
  /\ C.clears /\ ~pending /\ \E s \in Slots : object[s].mode = "live"
  /\ pending' = TRUE
  /\ UNCHANGED <<class, inUse, object, holder, task, owned>>

\* The owner opens what the object holds, or closes it.
OpenOrClose(t, s) ==
  /\ At(t, "idle") /\ s \in owned[t] /\ C.native = "opened"
  /\ object' = [object EXCEPT ![s].native = IF @ = "held" THEN "none" ELSE "held"]
  /\ UNCHANGED <<class, inUse, holder, task, owned, pending>>

PoolNext ==
  \/ \E t \in Tasks :
       \/ \E missing \in SUBSET DOMAIN C.requires : Create(t, missing)
       \/ LockConfig(t) \/ TryClaim(t) \/ MarkInUse(t) \/ AcquireNext(t) \/ Exhausted(t)
       \/ \E outcome \in InitialiseOutcomes : Initialise(t, outcome)
       \/ \E s \in Slots : Destroy(t, s) \/ OpenOrClose(t, s)
       \/ DestroyUnknown(t) \/ FreeIfInUse(t) \/ MarkFree(t) \/ ClearPendingEvents(t)
  \/ RecordEvent

-----------------------------------------------------------------------------
\* The slots of pool p that are task t's: of the objects it owns, and of the
\* call it is in.
Claims(t, p) ==
  ({task[t].claimed[p]} \cap Slots)
    \cup (IF p = "own" THEN owned[t] ELSE {object[s][p] : s \in {o \in owned[t] : C.nested}})

\* Every slot in use is one task's, and a free one nobody's: two Creates never
\* hand out the same slot, a slot whose object is alive is never cleaned, and a
\* Create that fails half way keeps none of the slots it claimed.  A free slot
\* holds nothing of the platform's, and nothing is closed that was not created.
\* A Create that handed back the fallback told exactly one reason.
SlotsAccountedFor ==
  /\ \A p \in Allocators, s \in Slots :
       Cardinality({t \in Tasks : s \in Claims(t, p)}) = IF inUse[p][s] THEN 1 ELSE 0
  /\ \A s \in Slots : object[s].native # "broken" /\ (object[s].native = "held" => inUse["own"][s])
  /\ \A t \in Tasks : \A s \in owned[t] : object[s].mode = "live" \/ C.initialise = "mayFall"
  /\ \A t \in Tasks :
       At(t, "idle") /\ task[t].call = "create" /\ C.tells =>
         Len(task[t].told) = IF task[t].result = "object" THEN 0 ELSE 1
=============================================================================
