------------------------------ MODULE Assembly ------------------------------
(* A logger as it was put together: parts that are there, parts the           *)
(* configuration lacks, and the Null objects that stand in for parts whose    *)
(* Create was refused.  Tasks log through the scratch into the buffer and     *)
(* Service hands the records to the store and the sender, as in module        *)
(* Service; here it matters only where a record goes, and what was told of    *)
(* the part that loses it.                                                    *)
EXTENDS Naturals, Sequences, FiniteSets

CONSTANTS
  Loggers,         \* the tasks that log
  NoLogger,
  MaxLogged,       \* bound: the records logged
  Configurations   \* [Buffer, Sender, Store, Scratch, Sd, optional]

VARIABLES
  config,      \* what Create was given, none before it
  logger,      \* the parts installed
  told,        \* the parts a fault was reported of and that have not been restored since
  formatting,  \* of each task: the record it is logging, 0 if none
  storage,     \* the record the shared scratch holds
  scratchOf,   \* who holds the shared scratch's mutex
  logged,      \* how many records have been logged
  ring,        \* the circular buffer
  held,        \* the record in the logger's slot, or 0
  stored,      \* the records the store holds
  sending,     \* the sender's Connected, DeliveryHealthy and RecordTooLargeReported
  unexplained  \* ghost: the records lost to a part nobody was told about, and to which

assemblyVars ==
  <<config, logger, told, formatting, storage, scratchOf, logged, ring, held, stored, sending, unexplained>>

SenderOf(kind, resolver, wire) == [kind |-> kind, resolver |-> resolver, wire |-> wire]
NullSender == SenderOf("NullSender", "none", "none")
Missing == "NULL"
NoSender == SenderOf(Missing, "none", "none")

OptionalParts ==
  {"Clock", "GetHostname", "GetAppName", "GetProcessId", "GetDiscardPolicy", "OnHalt", "IsEventReportingOn"}

ASSUME AssemblyAssumption ==
  /\ MaxLogged \in Nat /\ NoLogger \notin Loggers
  /\ \A c \in Configurations :
       c.Scratch \in {Missing, "StackScratch", "SharedScratch", "SharedScratch over NullMutex",
                      "SharedScratch over silent NullMutex"}

\* ResetToDefaults
Defaults ==
  [Buffer |-> "NullBuffer", Sender |-> NullSender, Store |-> "NullStore", Scratch |-> "StackScratch",
   Sd |-> "none", optional |-> {}]

NoConfiguration == [Defaults EXCEPT !.Sd = "no logger"]

InitAssembly ==
  /\ config = NoConfiguration /\ logger = Defaults /\ told = {}
  /\ formatting = [t \in Loggers |-> 0] /\ storage = 0 /\ scratchOf = NoLogger
  /\ logged = 0 /\ ring = <<>> /\ held = 0 /\ stored = <<>>
  /\ sending = [Connected |-> FALSE, DeliveryHealthy |-> TRUE, RecordTooLargeReported |-> FALSE]
  /\ unexplained = {}

-----------------------------------------------------------------------------
(* The objects that stand in for a part.                                     *)

NullFile ==
  [Open |-> FALSE, IsOpen |-> FALSE, Read |-> FALSE, Write |-> TRUE, Size |-> FALSE, Exists |-> FALSE,
   Delete |-> TRUE]

NullBlockDevice ==
  [Acquire |-> FALSE, Dispose |-> FALSE, Exists |-> FALSE, Read |-> FALSE, Append |-> FALSE, WriteAt |-> FALSE,
   Size |-> FALSE, GetBlockSize |-> 0]

\* A file block device finds and acquires its blocks with the file's Exists and
\* Open.
Device(store) ==
  CASE store = "BlockStore on NullBlockDevice" -> [exists |-> NullBlockDevice.Exists, acquired |-> NullBlockDevice.Acquire]
    [] store = "BlockStore on NullFile" -> [exists |-> NullFile.Exists, acquired |-> NullFile.Open]
    [] OTHER -> [exists |-> FALSE, acquired |-> TRUE]

\* BlockStore_Initialise: a device that holds nothing and gives no block freezes
\* the store, which from then on is the Null store.
Opened(store) == Device(store).exists \/ Device(store).acquired

BlockStores == {"BlockStore", "BlockStore on NullBlockDevice", "BlockStore on NullFile"}
StoreAfterCreate(store) == IF store \in BlockStores /\ ~Opened(store) THEN "NullStore" ELSE store

\* NullStore_Write retains nothing, and IsTransient leaves the record to the
\* sender.
NullStore == [Write |-> "NOT_RETAINED", ReadNextUnsent |-> FALSE, HasUnsent |-> FALSE, IsTransient |-> TRUE]
StoreWrite(store) == IF store = "NullStore" THEN NullStore.Write ELSE "KEPT"
IsTransient(store) == store = "NullStore" /\ NullStore.IsTransient

\* What the network makes of a Send.
NetworkAnswers == {"ok", "unresolved", "refused", "broken", "oversize"}

NullResolver_Resolve == FALSE
Resolve(s, answer) == IF s.resolver = "NullResolver" THEN NullResolver_Resolve ELSE answer # "unresolved"

NullStream == [Open |-> TRUE, Send |-> TRUE, Read |-> 0, Version |-> 0]
NullDatagram == [Open |-> TRUE, SendTo |-> "SENT"]
WireOpen(s, answer) ==
  CASE s.wire = "NullStream" -> NullStream.Open
    [] s.wire = "NullDatagram" -> NullDatagram.Open
    [] OTHER -> answer # "refused"
WireSend(s, answer) ==
  CASE s.wire = "NullStream" -> IF NullStream.Send THEN "SENT" ELSE "FAILED"
    [] s.wire = "NullDatagram" -> NullDatagram.SendTo
    [] OTHER -> IF answer = "broken" THEN "FAILED"
                ELSE IF answer = "oversize" /\ s.kind = "UdpSender" THEN "OVERSIZE"
                ELSE "SENT"

-----------------------------------------------------------------------------
(* Losing a record, and telling.                                             *)

\* The record is lost to the part, and nobody knows unless the part's fault was
\* told.  A handle that was destroyed is a no-op, and meant to be silent.
Unexplained(r, part) ==
  IF part \in told' \cup {"none"} \/ config = NoConfiguration THEN {}
  ELSE {[record |-> r, part |-> part, scratch |-> logger.Scratch]}

\* A mutant: a failure is told when delivery had failed before.
SenderHealth_UpdateUnchanged(faults, delivered) ==
  CASE ~delivered /\ ~sending.DeliveryHealthy -> faults \cup {"delivery"}
    [] delivered -> faults \ {"delivery"}
    [] OTHER -> faults

\* The faults that stand once a Send was delivered or not: the changes are told.
SenderHealth_Update(faults, delivered) ==
  CASE ~delivered /\ sending.DeliveryHealthy -> faults \cup {"delivery"}
    [] delivered /\ ~sending.DeliveryHealthy -> faults \ {"delivery"}
    [] OTHER -> faults

\* RecordTooLargeReported: the first of a run is told, and a record that goes out
\* ends the run.
ReportRecordTooLarge ==
  IF sending.RecordTooLargeReported THEN told ELSE told \cup {"record too large"}

\* StreamSender_Send and UdpSender_Send: connect where it is not connected, and
\* transmit.
Connects(s, answer) == sending.Connected \/ (Resolve(s, answer) /\ WireOpen(s, answer))
Outcome(s, answer) == IF Connects(s, answer) THEN WireSend(s, answer) ELSE "FAILED"

\* A stream that fails is closed; a datagram that is too large says nothing
\* about the delivery.  NullSender_Send does nothing.
Send(s, answer) ==
  LET outcome == Outcome(s, answer)
      delivered == outcome = "SENT"
  IN  IF s.kind = "NullSender" THEN UNCHANGED <<told, sending>>
      ELSE IF outcome = "OVERSIZE"
      THEN /\ told' = ReportRecordTooLarge
           /\ sending' = [sending EXCEPT !.Connected = TRUE, !.RecordTooLargeReported = TRUE]
      ELSE /\ told' = SenderHealth_Update(told, delivered) \ (IF delivered THEN {"record too large"} ELSE {})
           /\ sending' =
                [Connected |-> Connects(s, answer) /\ (s.kind = "StreamSender" => delivered),
                 DeliveryHealthy |-> delivered,
                 RecordTooLargeReported |-> sending.RecordTooLargeReported /\ ~delivered]

\* NullSender_Send says that it took the record, and so does a UDP sender that
\* gave it up.
Taken(s, answer) == s.kind = "NullSender" \/ Outcome(s, answer) # "FAILED"

\* The part that loses a record the sender took.
LostTo(s, answer) ==
  IF s.kind = "NullSender" THEN "Sender"
  ELSE IF Outcome(s, answer) = "OVERSIZE" THEN "record too large"
  ELSE IF s.wire \in {"NullStream", "NullDatagram"} THEN "wire"
  ELSE "none"

-----------------------------------------------------------------------------
(* Create and Destroy.                                                       *)

\* The faults the Creates of the parts told: whoever was refused a part has a
\* Null object in its place.  A Null store may be the integrator's choice.  A mutex
\* pool that is exhausted tells, and so do CMSIS-RTOS and VxWorks when the kernel
\* gives no mutex; but a Posix or FreeRTOS mutex that cannot be initialised becomes
\* the Null mutex, here the silent one, without a word.
ToldByCreates(c) ==
  (IF c.Buffer = "NullBuffer" THEN {"Buffer"} ELSE {})
    \cup (IF c.Sender.kind = "NullSender" THEN {"Sender"} ELSE {})
    \cup (IF c.Sender.wire \in {"NullStream", "NullDatagram"} THEN {"wire"} ELSE {})
    \cup (IF c.Sender.resolver = "NullResolver" THEN {"resolver"} ELSE {})
    \cup (IF c.Scratch = "SharedScratch over NullMutex" THEN {"mutex"} ELSE {})
    \cup (IF c.Store \in BlockStores /\ ~Opened(c.Store) THEN {"Store"} ELSE {})

InstallBuffer(c) == IF c.Buffer = Missing THEN Defaults.Buffer ELSE c.Buffer
InstallSender(c) == IF c.Sender = NoSender THEN Defaults.Sender ELSE c.Sender
InstallStore(c) == IF c.Store = Missing THEN Defaults.Store ELSE StoreAfterCreate(c.Store)
InstallScratch(c) == IF c.Scratch = Missing THEN Defaults.Scratch ELSE c.Scratch
InstallStructuredData(c) == IF c.Sd = "count without array" THEN Defaults.Sd ELSE c.Sd

\* What Initialise tells of the parts it installs a default for.
ToldByInstall(c) ==
  (IF c.Buffer = Missing THEN {"Buffer"} ELSE {})
    \cup (IF c.Sender = NoSender THEN {"Sender"} ELSE {})
    \cup (IF c.Store = Missing THEN {"Store"} ELSE {})
    \cup (IF c.Sd = "count without array" THEN {"Sd"} ELSE {})

\* SolidSyslog_Initialise.  The functions default to ones that do nothing, and
\* the scratch to the stack's, without a word.
InitialiseLogger(c) ==
  /\ config = NoConfiguration /\ logged = 0
  /\ config' = c
  /\ logger' = [Buffer |-> InstallBuffer(c), Sender |-> InstallSender(c), Store |-> InstallStore(c),
                Scratch |-> InstallScratch(c), Sd |-> InstallStructuredData(c),
                optional |-> c.optional \cap OptionalParts]
  /\ told' = ToldByCreates(c) \cup ToldByInstall(c)
  /\ UNCHANGED <<formatting, storage, scratchOf, logged, ring, held, stored, sending, unexplained>>

\* SolidSyslog_Cleanup, with neither Log nor Service under way: the record in the
\* slot is gone.
CleanupLogger ==
  /\ config # NoConfiguration /\ \A t \in Loggers : formatting[t] = 0
  /\ config' = NoConfiguration /\ logger' = Defaults /\ held' = 0
  /\ UNCHANGED told
  /\ unexplained' = unexplained \cup Unexplained(held, IF held = 0 THEN "none" ELSE "delivery")
  /\ UNCHANGED <<formatting, storage, scratchOf, logged, ring, stored, sending>>

-----------------------------------------------------------------------------
(* Log, which formats into the scratch and writes what the scratch holds.    *)

Shared == logger.Scratch # "StackScratch"

\* Mutex_Lock of the shared scratch; NullMutex_Lock keeps nobody out.
LockScratch(t) ==
  IF logger.Scratch = "SharedScratch" THEN scratchOf = NoLogger /\ scratchOf' = t ELSE UNCHANGED scratchOf

WithScratch(t) ==
  /\ formatting[t] = 0 /\ logged < MaxLogged
  /\ LockScratch(t)
  /\ logged' = logged + 1
  /\ formatting' = [formatting EXCEPT ![t] = logged + 1]
  /\ storage' = IF Shared THEN logged + 1 ELSE storage
  /\ UNCHANGED <<config, logger, told, ring, held, stored, sending, unexplained>>

\* Write of the buffers: the Null one forgets the record, the passthrough one
\* sends it at once and forgets a record that was refused, the ring keeps it.
BufferWrite(r, answer) ==
  /\ IF logger.Buffer = "PassthroughBuffer" THEN Send(config.Sender, answer) ELSE UNCHANGED <<told, sending>>
  /\ ring' = IF logger.Buffer = "CircularBuffer" THEN Append(ring, r) ELSE ring

BufferLosesTo(answer) ==
  CASE logger.Buffer = "NullBuffer" -> "Buffer"
    [] logger.Buffer = "PassthroughBuffer" ->
         IF Taken(config.Sender, answer) THEN LostTo(config.Sender, answer) ELSE "delivery"
    [] OTHER -> "none"

\* A record another task formatted over is lost as well.
WriteAndUnlock(t, answer) ==
  LET own == formatting[t]
      text == IF Shared THEN storage ELSE own
  IN  /\ own # 0
      /\ BufferWrite(text, answer)
      /\ unexplained' = unexplained \cup Unexplained(text, BufferLosesTo(answer))
                          \cup Unexplained(own, IF text = own THEN "none" ELSE "mutex")
      /\ formatting' = [formatting EXCEPT ![t] = 0]
      /\ scratchOf' = IF scratchOf = t THEN NoLogger ELSE scratchOf
      /\ UNCHANGED <<config, logger, storage, logged, held, stored>>

-----------------------------------------------------------------------------
(* Service.                                                                  *)

\* HoldNextRecord, where the slot is free, and StoreOrSenderTakesHeldRecord.  Only
\* the ring ever has a record to read.
DealWithHeld(answer) ==
  LET reads == held = 0
      r == IF reads THEN Head(ring) ELSE held
  IN  /\ logger.Buffer = "CircularBuffer" /\ (reads => ring # <<>>)
      /\ ring' = IF reads THEN Tail(ring) ELSE ring
      /\ IF StoreWrite(logger.Store) = "KEPT"
         THEN stored' = Append(stored, r) /\ held' = 0 /\ UNCHANGED <<told, sending, unexplained>>
         ELSE /\ IsTransient(logger.Store)
              /\ Send(logger.Sender, answer)
              /\ IF Taken(logger.Sender, answer)
                 THEN held' = 0 /\ unexplained' = unexplained \cup Unexplained(r, LostTo(logger.Sender, answer))
                 ELSE held' = r /\ UNCHANGED unexplained
              /\ UNCHANGED stored
  /\ UNCHANGED <<config, logger, formatting, storage, scratchOf, logged>>

\* SendOneFromStore
SendStored(answer) ==
  /\ held = 0 /\ logger.Store \in BlockStores /\ stored # <<>>
  /\ Send(logger.Sender, answer)
  /\ IF Taken(logger.Sender, answer)
     THEN /\ stored' = Tail(stored)
          /\ unexplained' = unexplained \cup Unexplained(Head(stored), LostTo(logger.Sender, answer))
     ELSE UNCHANGED <<stored, unexplained>>
  /\ UNCHANGED <<config, logger, formatting, storage, scratchOf, logged, ring, held>>

\* A pass that finds nothing: NullBuffer_Read and PassthroughBuffer_Read have no
\* record, nor has NullStore.
IdlePass ==
  /\ logger.Buffer # "CircularBuffer" \/ (held = 0 /\ ring = <<>>)
  /\ logger.Store \notin BlockStores \/ stored = <<>>
  /\ UNCHANGED assemblyVars

AssemblyNext ==
  \/ \E c \in Configurations : InitialiseLogger(c)
  \/ CleanupLogger
  \/ \E t \in Loggers : WithScratch(t)
  \/ \E t \in Loggers, answer \in NetworkAnswers : WriteAndUnlock(t, answer)
  \/ \E answer \in NetworkAnswers : DealWithHeld(answer) \/ SendStored(answer)
  \/ IdlePass

\* A record is never lost in silence.  Whatever parts the logger was put
\* together from, and whatever the network does, a record that Log took reaches
\* the sender, or the part that lost it is one whose fault stands reported: by
\* the Create that was refused it, by the logger's own Create where the
\* configuration lacked it, or by the sender, whose failures are told once each
\* time they begin (SenderHealth_Update and the Install functions).  The one
\* exception is a record formatted over by another task in a scratch whose mutex
\* fell to the Null mutex in silence (PosixMutex and FreeRtosMutex_Initialise).
LossesTold ==
  /\ \A u \in unexplained : u.part = "mutex" /\ u.scratch = "SharedScratch over silent NullMutex"
  /\ \A part \in {"Buffer", "Sender", "Store", "Sd"} :
       config # NoConfiguration /\ logger[part] # config[part] => part \in told
=============================================================================
