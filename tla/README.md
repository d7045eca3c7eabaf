# A TLA+ model of solid-syslog

solid-syslog is a syslog client library for embedded devices. An application
calls `SolidSyslog_Log` from any task. One task calls `SolidSyslog_Service` in a
loop, which moves records from a buffer to a store and from the store to a
sender. This project models what decides whether a record survives that journey
and arrives where and as it should: the buffers, the store down to its files,
the logger, the senders down to the network stacks, the TLS streams, the line
that is formatted, and the pools all of these objects come from.

`PROJECT.json` lists the components, the runs, the source lines each definition
stands for, the mutants and the hazards. This file explains how they fit.

## The system

```
 Log (any task) -- scratch --> Buffer --> Service (one task) --> Store --> Sender
   |                             |             |                  |          |
   formatter, sequence id,       +-- reports --+----- reports ----+    Stream, Datagram,
   sysUpTime, structured data           PendingEvents                  Resolver, TLS
                                                     Store --> BlockSequence, RecordStore,
 Create / Destroy --> static pools                             SecurityPolicy --> BlockDevice --> File
```

| Component | State it keeps | Operations | What makes it correct |
|---|---|---|---|
| Circular buffer | a byte ring with Head, Tail and WrapPoint, the Full flag, three report latches, a mutex | Write (policy question, eviction loop, keep or refuse, report), Read, IsFull | a FIFO queue of intact records; one report a run of losses; Full never set over an empty ring; the mutex is given back |
| POSIX message queue buffer | a kernel queue, Full and four report latches under a mutex | Write with one eviction, Read, IsFull | every run of losses told of; Full not left over |
| Pending events | one slot for each kind of event, shared without a lock | Record, IsPending, AnyPending, Take, Clear | an event raised is reported, and a report says what was raised |
| Logger | one slot for the record in hand, Halted, two latches; the parts of its configuration | Log, Service, Create, Destroy | no record vanishes unexplained or overtakes another; the status never puts the loop to sleep over work |
| Block sequence | the run of blocks in a circular space of 100 numbers: oldest, read and write block, cursors, presence map, capacity latches | Open with its scan, PrepareForWrite with rotation and eviction, disposal of drained blocks, threshold notification | it follows the device; the run is found again after a restart; the ceiling holds |
| Record store | the record last read, and the bytes of a block | Append, Read, MarkLastReadAsSent, StepPastLastRead, ForgetLastRead, FindFirstUnsent, ScanToEnd | damage, and a write cut short, are seen for what they are |
| Block store | the two above, whether it is frozen, report latches | Write, ReadNextUnsent, MarkSent, HasUnsent, Freeze | what it said it kept stays until it is marked, is evicted, or the media is ruined |
| File block device and file adapters | one cached file handle; the file system's open objects | Acquire, Dispose, Append, WriteAt, Read, Size, Exists over Open, Close, Read, Write, SeekTo, Size, Truncate, Exists, Delete | a call reaches the block it names; no file object is forgotten; what a committing adapter took is on the medium |
| Security policies | key and library handles, a report latch | SealRecord, OpenRecord | a fault is never taken for a forgery, nor a forgery for a record |
| Stream, UDP and switching senders | connection, endpoint and stream versions, the sender selected | Send, Disconnect | a frame is whole or the connection is closed; what was acknowledged was handed over, to the endpoint in force |
| TCP streams, datagrams, resolvers | a socket or pcb, the receive queue of the raw API, the latches of a failed Open, a pending DNS query | Open, Send, Read, Close; SendTo, MaxPayload; Resolve | sockets are given back; an outage is told; no datagram ends inside a code point |
| TLS streams and credentials | context, session, transport, what the verify callback collected; the count of outstanding installs | Open stage by stage, Send, Read, Close; Install, Release, Authorise | only an authorised peer is let in; the first fault is named; material outlives its users; Open returns |
| Formatter and message formatter | a bounded buffer, the UTF-8 decoder's state, the elements being streamed | the header, structured data, the text, the trimmed tail | the line is well-formed and reads back as what was given |
| Sequence counters, system up-time | one atomic; a wrap count shared by the tasks | Increment; GetSysUpTime | ids distinct, time right |
| Pools, `*Static.c`, mutex adapters | the in-use flags of a static pool | AcquireFirstFree, FreeIfInUse, every Create and Destroy | no slot handed out twice or lost, no native object leaked |
| Shared scratch, Null objects | a buffer behind a mutex; nothing | WithScratch; the answers of an absent part | a record is lost only to a part whose fault was told |

How they interact: every part is called through a vtable; the integrator
supplies the discard policy, the capacity threshold, the key, the endpoint, the
TLS profile and the error handler as callbacks. Log and Service share the
buffer and the pending events; tasks that log share the scratch, the sequence
counter and the wrap count; two TLS streams may share a credentials object; the
lwIP thread shares the raw stream and the DNS resolver with their callers.

What is hard here: the buffer's policy is asked outside the lock and the loss
reported outside it; the message queue is read outside the lock; events are
written and taken field by field with no lock; the store must survive a power
cut between any two device calls, and inside an append or a mark; after a
restart it has only the presence of blocks to tell where the run begins; one
file handle serves every block; one slot in the logger serves three purposes;
the status Service returns decides whether the integrator's loop sleeps; a frame
goes out in two calls either of which may be cut short; the endpoint may change
under a Send; lwIP calls back between any two hops; three TLS libraries report
on a peer in three different orders; and every Create may fail half way.

## Modules

| Module | Models | Uses |
|---|---|---|
| `RecordQueue` | what a buffer promises: a queue with evictions | |
| `CircularBuffer` | the circular buffer | refines `RecordQueue` |
| `CircularBufferProofs` | theorems about `CircularBuffer` | |
| `PendingEvents` | the slots of the events, every volatile access a step | |
| `MessageQueueBuffer` | the POSIX message queue buffer | `PendingEvents` |
| `MessageQueueBufferProofs` | theorems about `MessageQueueBuffer` and `PendingEvents` | |
| `BlockSequence` | the run of blocks, as operators on the struct | |
| `BlockSequenceProofs` | lemmas about those operators: what each leaves of the struct, arcs, the largest gap | |
| `RecordStore` | what the bytes of a block say, as operators on a block | |
| `BlockStore` | the store: the steps between device calls, power cuts, damage | `BlockSequence`, `RecordStore` |
| `BlockStoreProofs` | theorems about `BlockStore` | `BlockSequenceProofs` |
| `FileBlocksProofs` | theorems about `FileBlocks` | `BlockSequenceProofs` |
| `File` | the File vtable and its six adapters | |
| `FileBlockDevice` | the block device over files | `File` |
| `FileBlocks` | the block sequence's calls over that device | `BlockSequence`, `FileBlockDevice` |
| `Service` | the logger, over the interfaces of the other parts | |
| `ServiceProofs` | theorems about `Service` | |
| `TcpStream` | the TCP streams over five socket APIs | |
| `LwipRawTcpStream` | the TCP stream over lwIP's callbacks | `TcpStream` |
| `Datagram` | the datagrams of six stacks and the UDP payload | |
| `Resolver` | the resolvers, lwIP's asynchronous DNS among them | |
| `Transport` | the three senders over all of these | `LwipRawTcpStream`, `Datagram`, `Resolver` |
| `Tls` | the TLS streams, the credentials, the fingerprints | |
| `TransportProofs` | theorems about `Transport` and what it extends, and about `Tls` | |
| `Pools` | the pool allocator, Create and Destroy of 67 classes | |
| `AtomicCounter` | the sequence counters | |
| `SysUpTime` | the up-time of the platforms | |
| `SecurityPolicy` | the at-rest policies as outcomes | |
| `Formatter` | bounded text and UTF-8 | |
| `MessageFormatter` | one RFC 5424 line | `Formatter` |
| `Assembly` | a logger put together from parts, missing parts and Null parts | |
| `Objects` | the pooled objects, created and then at work | the seven above |
| `ObjectsProofs` | theorems about `Objects` and what it extends | |
| `MC*` | the instances TLC checks | |

### CircularBuffer

A writer goes through the states of `pc`: `AskPolicy` (before the mutex),
`LockToStore`, `EvictOne` for each turn of the eviction loop, `KeepRecord` or
`RefuseRecord`, which unlock, and `ReportRunStarted` where the write began a run
of losses. `Read` is a single step, since all of it is under the mutex but for
the report, `ReportRecordTooLarge`. The
integrator's policy is any member of `Policies` on each call.

The bytes of the ring are abstracted to `mem`, the set of extents whose bytes
are still what was written: a store removes every extent it overlaps. The
reader finds its record by looking up the extent at the head, as the code reads
a header there. `held` is a ghost with the extents the ring ought to hold.

A record longer than `SOLIDSYSLOG_MAX_MESSAGE_SIZE` is only reported and never
reaches the ring, so it is not a step.

### PendingEvents, MessageQueueBuffer

A task that raises an event stores its fields and then Pending; Take loads
Pending, clears it and loads the fields: each volatile access is a step, and the
order of each is a sequence in the module (`StoreOrder`, `LoadOrder`), so that a
different order is one definition away. Since no lock is held, a report may mix
the fields of two events of one kind. `ReportsWhatWasRaised` says that this is
all it may do, and `EveryRunTold` that no kind is lost for good.

The kernel's queue is atomic and only its length is kept. The reader receives
outside the mutex and clears Full afterwards under it (`NoteRecordTaken`), so it
may clear a Full that a writer has set since. What the header promises of IsFull
is thus two questions. `crowded` is a ghost for what the header speaks of: the last
record written met a full queue, and none was received since; it follows the
kernel's queue and the sends, not Full. `FullIsCurrent` asks that Full is never left
over, which would make Service drop or halt for nothing. It holds. `FullWhenNoRoom`
asks that Full is there when it should be. It does not hold, and is a finding below.

### BlockSequence, RecordStore, BlockStore

`seq` is `struct SolidSyslogBlockSequence` with the source's field names;
`ReadBlockSize` and `ReadBlockSizeKnown` are one field that may be `SizeUnknown`.
Operators of `BlockSequence` return the struct after the assignments of a C
function. The device calls in between are steps of `BlockStore`, one for each
call that changes the media, so that `Restart` may fall between any two. Every
device call has an `ok` that may be FALSE. `Restart` inside an append leaves any
prefix of the record, and inside a mark leaves the flag unwritten, half-written
or written.

A block is its size and the records written to it. A record has a place, a
length, a flag and a state: header damaged, content rejected, or sound. The
security policy's verdict "not yet" is drawn at each read (`opens`), and so is
a failure to seal.

`DamageRecord`, `RemoveBlock`, `StaleBlock` and `Restart` are the world. A
removed block leaves a hole shorter than the free gap, which is the assumption
the comment on `BlockSequence_LocateRunBoundaries` states. `ResumeFindsRun`, in
`FileBlocks`, says what it amounts to.

### File, FileBlockDevice, FileBlocks

An adapter is a set of tables: which calls an operation makes, and how it reads
their answers. Each operation maps the device to the set of its outcomes, any
call failing included. `dev` is the adapter's fields (`IsOpen`, `Path`,
`CloseOwed`), the handle of the block device, the files as the running system
sees them (`files`) and as a power cut would leave them (`medium`), and the file
objects the file system holds (`held`).

- A seek and the transfer after it are one step, of which the seek may fail.
  `SeekTo` has no result: it reports `SEEK_FAILED` and the device transfers where
  the file stands (`FileBlockDevice.c:286`, `313` and `338`). A read then gets any
  record of the file or bytes of two, a write is laid over another record, across
  two, or at the end (`Astray`), and either may answer true. So no call of the
  store fails, and it is not frozen. `strayed` is a ghost with the blocks that this
  befell a write to, `astray` says it of a read. `BlocksHoldWhatWasPut` and
  `TakenIsOnMedium` do not answer for the contents of such a block; that it is
  there, and that a read never gives a record of another block, is asked of it too.
- `WriteBlockCorrupt` is what the open finds of the newest block: one that ends in
  a record cut short is not appended to. A seek that fails under that scan may
  mislead it either way; a block that it takes for sound and is not counts as
  `strayed`, since the next record goes behind one that was cut short.
- Creating and deleting a file reaches the medium at once. Exists never errs: the
  adapters fold an error into "no".
- After a call that fails nothing more is called until a stop or a power cut,
  which is what the store's freeze does (`FailedDeviceLeftAlone`).
- Nothing reads `BlockIndex` of a handle that is not open, or `Path` of a closed
  file with no close owed: both are then taken to be 0.
- `CommittingAdapters` are FatFs, VxWorks and littlefs. Posix and Windows do not
  fsync, and FreeRTOS-Plus-FAT does not commit the size until a close; the
  platform pages of the repository say so, and `TakenIsOnMedium` leaves them out.
- A check of the file system after a power cut may remove one inner block, which
  is the hole `ResumeFindsRun` is about.

### Service

One step for each call a pass makes, with `Log` and its return between any two.
`pc` and `phase` follow the control flow: `policy` (a full buffer), `deal` (the
store), `refused`, `sendHeld` (the sender), `walk` over the pending events,
`hold` (read the buffer), `take` and `sendStored` (send one from the store),
`status`. The buffer is a queue, which is what `RefinesQueue` allows, and the
store a queue that keeps, evicts, refuses, loses or freezes, which is what
`BlockStore` shows. The store that keeps nothing from the start (`NullStore`)
and the store that has frozen are both `transient`.

The three kinds of event keep the order of `PendingEvents_Kinds`. The store's
kinds are next to one another there and are one kind in the model.

Raising an event is a single step here, and so is taking one. What happens
between the two field by field is `PendingEvents`.

### TcpStream, LwipRawTcpStream, Datagram, Resolver, Transport

`Transport` follows one Send at a time through the switching sender, the stream
sender or the UDP sender, to the calls of one of seven stacks (Posix, Winsock,
lwIP sockets, VxWorks, FreeRTOS-Plus-TCP, lwIP raw with numeric addresses and
lwIP raw with DNS). A step ends where the stack is called; every call may fail,
time out or be cut short. Between two steps the peer may close or send, another
task may change the endpoint or the TLS profile (the change, and then its
version), and lwIP may call back.

- `request` bundles the locals of the Send under way. `Failing` stands for the
  pair Failing and FailedDetail of `StreamOpenHealth`. The latch that repeats a
  failing next-hop report once is left out. `TlsOver` are the stacks with a TLS
  stream above them. What a path takes and what the stack says it takes (`mtu`,
  `stated`) are chosen for each send.
- Bytes of a frame are abstracted to where they stand in it, a record for UDP to
  the kinds of its bytes.
- The senders' own delivery report (`SenderHealth`) is in `Assembly`.
- A host and its address are one number, so that an answer to another question
  shows.
- A peer may close behind bytes it sent and nobody read. The peek before a write
  then finds the bytes and takes the peer to be there, as the comments of four
  adapters say (`PosixTcpStream.c:553` for one). A TLS session reads before it
  writes and meets the close, unless there are more bytes than it reads
  (`goneBehindBytes` and `goneBehindMore`). Plus-TCP's stack tells of the close in
  either case.
- The UDP sender asks for the endpoint just before it opens its socket and here in
  the step after it (`StartResolve`). For a host that lwIP already knows, the hop to
  its thread and the publishing of the address are one step (`DoGetHostByName`).

Three things in the raw lwIP stream are modelled as they are and worth knowing:
`DoSend` and `DoRead` can run with a NULL pcb when the error callback falls
between the caller's check and the hop (the model takes lwIP to refuse it, as
its parameter checks do where they are compiled in); a Send refused
because nothing is writable does not close the stream itself and leaves that to
the sender; and a byte that is enqueued between the wait's timeout and the abort
stays in the receive queue.

### Tls

The three streams run one state machine, `stage`: transport, context,
credentials, session, name, handshake, open. Any failure closes everything that
is up. The libraries differ in the calls a verify callback gets and in when it is
asked, so each has its own walk over the peer's chain. wolfSSL has three builds:
one whose callback is also called for a leaf that passed, one that compares the
kept leaf after the handshake, and one that can do neither and refuses a profile
with both anchors and pins. Mbed TLS has two kinds of credentials.
Those are the six `Libraries`. The order of a library's own calls is external.

- A peer is a chain of certificates with faults: no anchor, the dates (expired
  and not yet valid are one), a name, a digest. `entitled`, `fault` and `named`
  are ghosts: what the profile and the credentials ask for, the first of the
  faults, and what the stream reported.
- A pin is a digest and the certificate it is of. `InspectList` and `Authorise`
  are operators on lists of pins.
- Two streams share one Mbed TLS PEM buffer object, the one that counts its
  installs, and interleave at the stages and the polls of the handshake. The
  other credentials keep nothing between streams, so one stream is enough there
  (`Sharing`).
- The client's own credential is drawn anew at each Install, since files are read
  again: absent, whole, half, not a pair, unterminated or unreadable. OpenSSL presents only a
  whole and paired credential; Mbed TLS keeps both halves or none; wolfSSL does
  not check that they are a pair and leaves that to the collector, as
  `docs/platforms/wolfssl/index.md` says. An identity set by an OpenSSL Install
  that then failed dies with the context, so it is not kept.
- A handshake that fails for want of memory is reported in its own detail
  (`LIBRARY_OUT_OF_MEMORY`) by two of the libraries. It is one more failure here:
  `FirstFaultNamed` is about faults of the peer.

### Pools, Objects and what they are made of

`Pools` has one row for each class: what its Create checks and in which order,
what it initialises and how that may fail, which pools it nests, and what its
Destroy does. Claiming is one lock for each slot probed, as in the code. The 31
`Life` rows say what a class creates natively and gives back. Two tasks create
and destroy objects of one class, each only what it was handed: a concurrent
double Destroy breaks the contract and is not modelled.

`Objects` then puts a live object to work: a counter, an up-time, a policy, a
line, or a logger. Set-up ends before that, with at most one object, in slot 0.

Things the model keeps that a reader may not expect:

- A Create may miss a slot that is freed behind its probe, and answer with the
  fallback. `BlockStore_Destroy` frees its own slot before the objects inside.
- A Posix or FreeRTOS mutex that cannot be initialised falls to the Null mutex
  without a report (`PosixMutex.c:31`, `FreeRtosMutex.c:47`). It is the one fallback
  nobody is told of, although `docs/rfc-compliance.md:23` says that a component that
  could not be built is replaced "and reported through the error handler". A
  configuration with a scratch over it is among those checked, and in it two tasks
  mix their records in silence: the exception that `LossesTold` names.
- `SolidSyslog_Destroy` clears the pending events after it released its slot, so
  it may wipe those of a logger just created.
- Destroyed policies and credentials keep their vtable.
- The default of the config lock is no lock, for set-ups by one task. The model
  has the lock.

`AtomicCounter` has the compare-and-swap loops and the interlocked increments of
three platforms, with `SEQUENCE_ID_MAX` small enough for a value to come round
between a load and a swap. `SysUpTime` extends a 32-bit tick count under a
critical section and scales it; that it is called at least once a wrap is the
assumption of the code's comments and the guard of `Tick`. 64-bit intermediates
do not overflow; Windows' formula is the case of rate 1000.

`SecurityPolicy` is tables from the call that fails to what is told and answered.
A tag is ideal. What AES-GCM leaves in the buffer after a failure is not
modelled, and `EVP_DecryptFinal_ex` is taken to fail for the tag alone.

`Formatter` abstracts a byte to the ranges of UTF-8 the code tells apart, a name
to one character and a number to one digit. Authors of structured data stream
their bytes in any split. Three things follow from the code and shape
`MessageReadsBack`: an ill-formed sequence split over two calls yields one
replacement character where the unsplit one yields one for each byte, so runs of
them count as one; a bounded value may end in one replacement for the code point
the bound cuts; and a cut tail is masked with NULs that `Length` still counts
(`Formatter.h:66`).

`Assembly` is a logger made of parts that are there, parts the configuration
lacks and Null parts from refused Creates (NullStore may also be chosen). Two
tasks log through the scratch; Service delivers. The ring does not fill here, the
store freezes only at its Initialise, and Destroy waits for calls under way: what
happens otherwise is `Service`, `CircularBuffer` and `BlockStore`. The error
handler may not call back, by contract, which excludes a deadlock on the scratch.

## Runs

| Run | Bounds | Shows |
|---|---|---|
| `circular_buffer` | 2 writers, ring of 7 bytes, messages of 0, 1, 5 and 6 bytes, reads of up to 1 or 6 bytes | `RingInv`, `EveryRunReportedOnce`, `FullMeansRecords`, `MutexIsReleased`; the ring implements `RecordQueue` |
| `block_store` | 5 sequence numbers, ceiling of 2, blocks of 5 bytes, records of 2 and 3, 4 records, 1 restart, 1 piece of damage | nothing kept is lost, marks land where they should, the medium stays in order, the latches, a failed device is left alone |
| `block_store_wrap` | 4 sequence numbers, one record a block, 6 records, 1 restart | oldest first when the run goes round the space; every call ends |
| `block_store_over_ceiling` | 4 sequence numbers, ceiling of 2, 2 restarts | the first finding below |
| `service` | 2 records, a buffer of 1, a store of 2 | no record vanishes or overtakes, no event is lost, every record settles and every event is reported |
| `message_queue_buffer` | 2 symmetric writers and Service, a queue of 1, 1 fault of the kernel, 2 kinds | every run of losses is told, no report is invented, Full is not left over |
| `full_cleared` | the same without faults | the second finding below |
| `transport` | 7 stacks, 2 endpoints, versions up to 1, a receive queue of 1, two records over paths shorter and longer | whole frames, the endpoint in force, balanced opens, what an acknowledgement means, outages told, whole code points |
| `late_dns_answer` | the raw lwIP stack with DNS | the third finding below |
| `tls` | 6 builds, 2 streams, chains of up to 2, a budget of 3 and polls of 2 | who is let in, the fault named, what is held, Open returns |
| `file_blocks` | 6 adapters, 5 numbers, ceiling of 2, one record a block, one interrupted rotation, one block a write goes astray on | blocks hold what was put, what was taken is on the medium, no file object forgotten, the scan finds the run |
| `objects` | 67 classes, 2 tasks, 2 slots; 3 ids; 3 wraps of a 4-tick count; 4 streamed bytes; every buffer with every sender and store | slots, ids and time, verdicts, the line, losses |

Why these bounds reach the interesting cases:

- A ring of 7 bytes with a 2-byte header takes one message of 5 exactly, three
  empty ones with a byte to spare, a wrap with and without a gap, and never a
  message of 6. An eviction may have to drop one, two or three records. One tag
  is enough: a record's length tells it from its neighbours, and what could go
  wrong with two of one length is a matter of where they lie, which `held`
  records. `HALT` is left out of the policies of this run and of the store's:
  both components only compare the policy with `OLDEST`.
- Blocks of 5 bytes take a record of 2 and one of 3, or 2 and 2 with a byte
  left, so a block is full both exactly and with room to spare. A ceiling of 2
  is the smallest the code allows. Four records make two rotations and an
  eviction. The threshold of 10 bytes is the whole store, which is reached both
  by writing and by a refusal.
- 4 numbers with a ceiling of 2 is the smallest space the code's clamp allows
  (two more than the ceiling). Six one-record blocks go round it. With 5 numbers,
  a ceiling of 2 and an interrupted rotation a run of three blocks can lose the one
  inside it, which leaves a hole shorter than the gap. A seek that fails on one
  block shows what it does to that block and, through the shared handle, to the
  others; failed reads are not bounded.
- A buffer of 1 is full, emptied and evicted from with two records. A store of 2
  holds a record behind another one. The liveness properties keep this run at two
  records; the safety ones are proved for any number.
- A queue of 1 is filled and emptied by two writers, and one fault of the kernel
  is enough for a second kind of run to begin while the first is being told.
- One change of version is a change that falls before, inside or after a Send;
  more would repeat it. A receive queue of 1 overflows at the second segment.
- Two streams on one credentials object are a last release and one that is not;
  a handshake budget of 3 with polls of 2 ends between two polls.
- Two slots and two tasks are an exhausted pool, a slot freed behind a probe and
  one claimed under it. The buffer sizes of the lines cut a code point at each of
  its bytes, and the values meet their bound with and without an escape.

`CHECK_DEADLOCK FALSE` is given where the system does stop: a frozen store with
no restart left and a store with every record offered have nothing to do, a
logger that is IDLE with nothing more to log sleeps, and a sender whose
endpoint has changed for the last time may have no Send to make. The other runs
check for deadlock.

Symmetry is used in the two runs that check no liveness and have
interchangeable tasks.

### Fairness

- `CircularBuffer`: the task that holds the mutex keeps running until it gives
  it back. Nothing in between blocks.
- `BlockStore`: Service runs the call it is in to its end. `WF` is on the device
  step that succeeds or any outcome of an append. No fairness is assumed of the
  caller, of restarts or of the policy.
- `Service`: the integrator's loop runs, and a `Log` that started returns.
  `RecordsSettle` and `EventsReported` are about what happens once the
  surroundings are `calm`: the sender takes what it is given, the policy is not
  HALT, reporting is switched on, and the store can open its records. The store
  may still freeze, refuse, evict and fail to seal. Nothing says that the
  surroundings ever become calm. A loop that sleeps on IDLE wakes only for a
  `Log`, as the header of the library says it may.
  `EventsReported` excepts events that wait behind a reporting switch that was
  off when the loop went to sleep: the code turns the switch's answer into IDLE
  on purpose, and asks again at the next pass.
- `Tls`: the task in an Open keeps running (`WF` on `Proceed(s)`, one for each
  stream). The peer need not answer: time passing on the handshake's budget is
  what ends the Open.

### What to know about some properties

- `EveryRunReportedOnce` counts, in the ghost `owed`, runs begun and not yet
  reported. Two writers may be on their way to report different runs.
- `KeptIsRetained` asks more than presence: the record must lie ahead of the
  read cursor in the run, or the reader would pass it by.
- `MediumInOrder` allows one block over the ceiling for each restart, and for
  each piece of damage, because a stale block next to the run is taken for part
  of it by the next start. See the finding.
- `LatchesCurrent` excepts a write whose record could not be sealed: the
  rotation it made is not followed by a look at the threshold until the next
  write or drain.
- `SentToCurrent` leaves out the stack with lwIP's DNS, which is the third
  finding.
- `AcknowledgedIsHandedOver` is about the hand-over to the stack: TCP gives no
  more. A record is acknowledged, and lost, where the peer closed behind bytes that
  nobody read, or closes between the check and the write. The property is that this
  is all: a close that the check can come upon (`CloseCanBeSeen`) before either
  piece of the frame stops the Send.
- `BlocksHoldWhatWasPut` and `TakenIsOnMedium` except a block from the time a seek
  for a write to it, or for the check of its end at the open, failed, until it is
  acquired anew or removed. An integrator
  who watches for `SEEK_FAILED` knows of it; the store does not.
- `LossesTold` asks for a report that stands, not one for each record: failures
  are told once each time they begin. Its one exception is the silent Null mutex.
  `unexplained` notes for each loss the part it was lost to and the scratch of that
  configuration, so that the exception covers nothing else.

## Findings

`SolidSyslogBlockSequence.c:23` says the ceiling is "two short of the sequence
space: a failed eviction leaves one block over the ceiling, and a resume still
needs an absent number to find the run". A rotation acquires a block and evicts
at most one. A rotation that was cut between the two, or whose eviction failed,
leaves the run one over, and no later rotation brings it back: a second such
rotation leaves it two over. With the largest ceiling the space is then full,
`BlockSequence_LocateRunBoundaries` finds no gap, and reads from number 0
wherever the oldest block is. `block_store_over_ceiling` shows the steps. It
takes the largest ceiling (98 blocks) and two such interruptions with no drain
in between to bring the run down.

`SolidSyslogBuffer.h:40` says that IsFull is "true when the last record written
found no room - the buffer evicted to make some, or refused it - and nothing has
been taken out since" (`SolidSyslogBufferDefinition.h:38` says the same). The POSIX
message queue buffer receives outside its mutex and clears Full under it afterwards
(`SolidSyslogPosixMessageQueueBuffer.c:199`). A writer that finds the queue full
again between the two sets Full, and the reader clears it although it took nothing
since. Service then does not ask the discard policy about the record it has in hand.
The next write that finds no room puts it right. `full_cleared` shows the steps.

`SolidSyslogLwipRawDnsResolver.c:194`: `FoundCallback` throws away the name it is
called back with and completes whichever Resolve waits. After a Resolve that ran
into its deadline the query is still with lwIP. Its answer, when it arrives while
the next host is being resolved, is published as that host's address, and the
record goes to the old one. `late_dns_answer` shows the steps.

One more disagreement has no run: `HeaderField.h` says a number in a header field
is "bounded by the same field width", and `HeaderField.c:32-48` writes all of its
digits once anything of the width remains. In the model a number is one digit, so
it never overruns.

## Proofs

TLC checks each property on the instance of its run. The theorems below hold for
every value of the constants: any number of tasks, any capacity, any set of
records, platforms or classes. Each has the form `Spec => []P`, where `P` is the
definition the run checks and `Spec` the specification it checks it of (for `Tls`,
`TlsSpec`), and rests on an inductive invariant (`IInv` where no other is named) of
its proofs module: it holds at first, every action keeps it
(a lemma for each action, put together in one for `Next`), and it implies `P`.

### CircularBufferProofs

| Theorem | States |
|---|---|
| `TypeCorrect` | `TypeOK` |
| `RingNeverCorrupts` | `RingInv`: the records lie end to end from head to tail, none is overwritten before it is taken, only the task with the mutex stores |
| `FullRingHasRecords` | `FullMeansRecords` |
| `RunsReportedOnce` | `EveryRunReportedOnce` |
| `RingIsAQueue` | `RefinesQueue`: every behaviour of the ring is one of `RecordQueue` |

Assumptions: lengths are naturals, policies are among the three of the source,
the tasks are finitely many and "no task" is not one of them. The capacity may
be anything, 0 included.

`IInv == TypeOK /\ RingInv /\ FullMeansRecords`. None of the three is inductive
alone. That no record is overwritten (`RecordsIntact`) needs to know where the
records lie (`Placed`), which needs them to lie end to end (`Chain`), and popping
the head keeps that only when the offsets are in order (`OffsetsInRing`).
`FullMeansRecords` for a refusal needs `EmptyRingStartsOver`: an emptied ring is
back at its start while a task stores, so a record that does not fit one cannot
be one that an empty ring could hold (`EmptyRingFits`). The same fact is why the
eviction loop ends.

The argument goes over three ring operations, each with a lemma:
`StepHeadKeepsLayout` (take the head record, over the wrap marker),
`StoreKeepsLayout` (store at the tail or, wrapping, at the start) and
`DropHeadKeepsLayout` (evict, starting over when empty).

`RunsReportedOnce` adds a count: the tasks on their way to report a kind of loss
are as many as the runs of that kind that are owed. That is why the tasks have
to be finitely many.

`RingIsAQueue` maps the ring to `RecordQueue` by `held`. Every action is shown
to be a step of the queue or to leave it alone. The one that takes care is
`Read`: what it finds at the head must be the oldest record `held` has, which is
what `RecordsIntact` and `Chain` together give (`HeadRecordIsOldest`).

### MessageQueueBufferProofs

`RunsTold` (`EveryRunTold`), `ReportsRaised` (`ReportsWhatWasRaised`),
`FullFlagCurrent` (`FullIsCurrent`), for any number of tasks that log, any
capacity of the queue and any number of faults. Assumed: the reader is not one of
the writers, and an event has one of the kinds.

The slots are shared without a lock, so the invariant has to speak of every
moment between two accesses. `RaisingInv`: the fields a task has stored so far
are its own, or those of another event of the kind raised since the last Clear.
`SlotInv`: a slot that is pending is such throughout, and remains so while Take
reads it. `TakingInv`: so is what Take has copied. `WriteInv`: only a writer that
has left the mutex has something to report.

`FullFlagCurrent` has an invariant of its own, `FullInv`: a writer that met a full
queue and is still inside the mutex (`MutexInv`) can only have been overtaken by a
receive whose reader waits for that mutex (`RoomInv`). That reader is the one who
clears the Full this writer is about to set, for good or, as in the finding, for ill.

### BlockStoreProofs

| Theorem | States | Hypothesis |
|---|---|---|
| `LatchesKeptCurrent` | `LatchesCurrent` | |
| `FailedDeviceNotCalled` | `FailedDeviceLeftAlone` | |
| `MapKeptCurrent` | `MapFollowsDevice` | `Room` |
| `MediumKeptInOrder` | `MediumInOrder` | `Room` |
| `KeptStaysRetained` | `KeptIsRetained` | `Room` |
| `MarkIsForDelivered` | `MarksWhatWasDelivered` | `Room` |
| `HandedOutOldestFirst` | `OldestFirst` | `Room` |

For any sizes of block, record and sequence space, any policies, any number of
records, and as many restarts and pieces of damage as `Room` leaves numbers for.
Assumed of the constants: what the code enforces at Create (a ceiling of at least 2,
a block that takes a record), and that `NoBlock` is not a block.

`Room` is `MaxBlocks + MaxCrashes + MaxDamage < Modulus`: there are more numbers
than the run can come to span. The code bounds `MaxBlocks` by `Modulus - 2`, and
the first finding is that this is not enough: each restart inside a rotation may
leave a block more. So the theorems say that the store is right for as long as
those have not used up the room; the run `block_store_over_ceiling` is what
happens after. The first two theorems need no such thing.

The first two follow from `ControlInv`, which says where in a call a failed
device and a latch that is behind may be met. The others need `IInv ==
ControlInv /\ MediumInv /\ WhereInv /\ CallInv`:

- `MediumInv`: the records of a block tile it (`Tiled`): they lie end to end, and
  only the last may be cut short, so that the next record always begins where
  one ends. An id is on the media once. What lies behind a damaged header is not
  counted as kept, since no scan gets past it.
- `WhereInv`: the blocks of the run lie in an arc of the circular space from
  oldest to newest (`RunInv`), and while the store is down there is such an arc
  (`DownInv`), no longer than the ceiling, the restarts and the damage allow. The
  complement of the arc is then where the numbers are free, and
  `ScanForExistingBlocks`, which takes the largest gap for the free numbers, finds
  an arc again (`FreshRun`). The read cursor is on a boundary between records or at the end of a
  block that was given up (`CursorInv`).
- `CallInv`: a write block that does not end with a whole record is closed, so an
  append never lands behind one that was cut short; the record handed out is
  where `lastRead` says for as long as a mark may follow; what is kept can
  still be sent and lies ahead of the cursor (`KeptInv`).

`KeptInv` needs all of the rest: a scan stops at damage (`ScanFrom`), a block is
disposed of when the cursor is at its end, and both lose nothing only because of
where the records lie.

The scans are recursive functions over the offsets of a block. What they compute
is proved by strong induction downwards from the end of the block
(`BackwardInduction`, over a set and not over a predicate, so that no operator has
to be instantiated).

`HandedOutOldestFirst` adds `FirstInv` to that. `OrderInv` says that the ids on the
media ascend along the run, from the oldest block while the store is up and from
some block while it is down; `NewInv` and `NewestInv` that the next record is newer
than every one on the media and is appended behind the newest; `SentInv` and
`DeliveredInv` that what was delivered or marked lies before the cursor. Then the
record at the cursor is the first that is left (`CursorIsFirst`). The hard step is
the restart: the scan has to find the beginning the order is about
(`OneBeginning`). A hole in the run, left by a block that the media lost, is a gap
too, and only the largest gap is the right one. That is a matter of counting:
`Spans(P, o, len, lost, most)` says that the blocks lie within `len` numbers of `o`,
that no more than `lost` of those are holes, and that length and holes together are no
more than `most`. `SpanInv` and the clause of `OrderInv` for a store that is down keep
this with `damage` for `lost` and the bound of `WhereInv` for `most`: a block that the
media loses is a hole and a piece of damage, a rotation makes the run one longer, an
eviction or a drained block one shorter, and a restart between the two accounts for
itself. With `most < Modulus` there are fewer holes than free numbers, so no hole is
as long as the gap behind the run. No more room is needed for this than for the
other theorems, and both `block_store` runs are instances of it.

### FileBlocksProofs

| Theorem | States |
|---|---|
| `NoFileObjectLost` | `FileObjectsKnown` |
| `TakenSurvives` | `TakenIsOnMedium` |
| `BlocksNotMixedUp` | `BlocksHoldWhatWasPut` |
| `ResumeFindsTheRun` | `ResumeFindsRun` |

For any adapters out of the six, any sequence space and ceiling that the code
allows, any number of records in a block, of rotations that a power cut
interrupts and of blocks a write goes astray on. There is no hypothesis besides the
assumptions on the constants.

`Inv == DeviceInv /\ SpaceInv /\ RunInv /\ PutInv /\ EndInv /\ TakenIsOnMedium /\ SeenInv`:

- `DeviceInv` is about the device alone. `HandleInv`: the device's handle is open
  exactly where the File is, and on the path of the block it names, and only
  FatFs can owe a close. `FilesInv`: a file and its medium hold nothing but records of its own
  block and torn ones, whatever seeks failed (`FileShape`), and where no write went
  astray the medium is behind only by records at its end and by marks (`FileInv`).
- `RunInv`: as long as no call has failed, the blocks the store takes for present
  are the files there are, and they lie in an arc from oldest to newest that
  leaves a number free. `SpaceInv` keeps that number when the store is down, so
  that the next scan finds an arc. It is also why a rotation never meets a stale
  block: the number after the newest has no file.
- `PutInv`: a file has the records put to its block, in their places, and exactly
  those as long as no call has failed, unless a write to it went astray. `EndInv`:
  the block written to ends where its last whole record does, unless the open found
  otherwise, so that an append goes where the next record belongs. `SeenInv`: what
  the last call learned is about the block it asked for.

Every operation of the device has a lemma that says what it may leave behind
(`BlockSizeIs`, `ReadBlockIs`, `AcquireIs`, `AppendToBlockIs`, `WriteAtIs`,
`DisposeIs`), over all the outcomes of its File calls: closing the handle on
another block (`CloseIs`), settling an owed close (`SettleOwedCloseIs`), opening
(`OpenIs`), writing and committing (`WriteIs`). `Grown` is what they have in
common: the blocks stay, and a file and its medium only grow and gain marks until a
write goes astray on it. That is why what was taken stays (`TakenGrows`). A write
that goes astray has a shape and no more: it is laid on the open file
and nowhere else.

`ResumeFindsTheRun` is one fact about sets of numbers more (`LocateOrHole`): of
two arcs that hold all blocks and end in blocks, the shorter begins elsewhere only
if the gap before it lies inside the other, as a hole no shorter than the gap
behind that one.

### ServiceProofs

`RecordsAccountedFor` (`EveryRecordAccountedFor`), `OrderKept`
(`NothingOvertaken`), `EventsNotForgotten` (`EventsKept`), for any number of
records and any capacities.

The properties say where a record is, and the invariant why it stays there.
`SlotInv` says what the one slot holds at each step of a pass: for example that a
record, as opposed to a report, is sent from the slot only where the store is
empty. Without that a record from the slot could overtake one in the store.
`OrderInv` says that store, slot and buffer, read in this order, hold ascending
records, `SentInv` that all of them come after the last one sent, `LogInv` that
they come before the next to be logged, and `PlaceInv` that a live record is in
one of the three.

### TransportProofs

| Theorem | States |
|---|---|
| `SocketsBalanced` | `OpensBalanced` |
| `FramesKeptWhole` | `FramesWhole` |
| `DeliveredIsHandedOver` | `AcknowledgedIsHandedOver` |
| `DeliveredToCurrent` | `SentToCurrent` |
| `OutagesTold` | `OutageTold` |
| `CodepointsKeptWhole` | `WholeCodepoints` |

For every set of platforms out of those modelled, any number of endpoint and
profile versions, any paths, and any records that are UTF-8: the last is what the
formatter's output is, and `CodepointsKeptWhole` would be false without it.

`IInv` has a part for each property over a common `BaseInv`, which says where a
Send may stand, of which sender, and which sockets are held there. `FrameInv`:
the frame on a connection is open between the count and the record and nowhere
else. `ConnInv`: the connection goes with the socket, and lwIP's Errored with its
end, which is what lets `HandedOverInv` say that a Send that met a close it
can see gets nowhere: the check before the piece closes the stream, on each stack by
its own reading of the answers. `CurrentInv` is a chain of versions, none older than the
one before: what the request began with, what the sender noted, the address
resolved, what the connection leads to. The last links are where lwIP's DNS has
to be left out. `OutageInv`: what was told is what the last Open failed of.

`CodepointsKeptWhole` is arithmetic about `UdpPayload`: walking back at most three
bytes from the cut of a text that is UTF-8 finds the first byte of a code point.

Of `Tls`, for the six library builds, any number of streams on one credentials
object, any peers, names, digests and lists of pins:

| Theorem | States |
|---|---|
| `PeerIsAuthorised` | `PeerAuthorised` |
| `FirstFaultIsNamed` | `FirstFaultNamed` |
| `MaterialIsHeld` | `MaterialHeld` |

The heart is a fact about one handshake, `Judged`: whatever calls the library makes
of the verify callback, what the callback collected and the checks that follow the
handshake accept a peer only if it has no fault, and refuse it by the name of the
first. It is shown for each library by following its calls down the chain
(`OpenSslCallsJudge` and its siblings), because each carries the verdict of one call
to the next in its own way: OpenSSL in an error the callback may clear, Mbed TLS in
flags, wolfSSL in the return value. A modelled chain has at most two
certificates (`Top`) and the calls down it are written out, so this takes no
induction. `TlsInv` says the rest. Of
each stream (`TlsStreamInv`): what it holds at each stage; that what an earlier
handshake collected is gone before the next, without which a fault could be named
for a peer of long ago; and that no handshake starts with credentials whose install
failed. Of the shared credentials (`TlsAccounts`): the count is the number of streams
that owe a release, so the last release, and no other, frees what a session refers
to.

### ObjectsProofs

| Theorem | States |
|---|---|
| `SlotsKept` | `SlotsAccountedFor` |
| `MetaIsRight` | `MetaRight` |
| `VerdictsAreRight` | `VerdictsRight` |
| `LossesAreTold` | `LossesTold` |

All are of the specification of `Objects`. An operation of an object at work leaves
the others alone, so each theorem has an invariant of its own, about the variables of
its module, and a lemma that every other step leaves those unchanged (`PoolsKept`,
`CounterKept`, `UpTimeKept`, `PoliciesKept`, `AssembliesKept`).

`SlotsKept` is for every class of the table, any number of slots and any tasks.
A Create or Destroy is many steps of one task, the lock held only around the
marks. `TasksOk` says of which pools a call holds a slot at each of its steps and
`LockInv` which task is inside the lock. `InUseInv`: what a call or a handle
claims is marked in use, and what a task is about to mark is not, which only the
lock guarantees. `DistinctInv`: nothing is claimed twice. `CoverInv`: what is in
use is claimed. `ObjectInv` says what an object holds of the platform and of
inner slots.
`ClassOk` is what the argument needs of the 67 rows of the table of classes, and
is checked row by row: a class that closes without looking has always created
what it closes, for one.

`MetaIsRight` is for any number of tasks and ids, any tick rate and any widths.
`CounterInv` gives the ids handed out last in closed form: counted back from the value,
one step of the cycle each, so that as many as there are in a cycle are distinct. What
a slow caller read does not matter, since the exchange only succeeds from the value
that is there. `UpTimeInv`: what Extend keeps is less than a wrap behind the ticks, and
who has read the count is the one in the critical section. A count read less than a
wrap after the last tells how often it wrapped (`ExtendRight`), and dividing before
scaling gives the same as scaling first (`HundredthsRight`).

`VerdictsAreRight` is for any contents and keys. `PolicyInv`: the trailer is the tag of
what was sealed under the key of then, whatever has become of the record or the key,
and FaultReported agrees with the spell of failures. `GcmRight` then goes through what
each library may answer.

`LossesAreTold` is for any set of configurations whose scratch is one of those there
are, any number of tasks and records. `AssemblyInv`: what the Creates and the Install
functions told of the configuration stays told (`LoggerInv`); the sender's two flags
agree with what was told of it (`SenderInv`), which is needed since a failure is only
told when the flag changes; a record is held only after a failure that was told
(`HeldInv`); under a mutex that excludes, the scratch holds its holder's record
(`ScratchInv`); and a loss that nothing explains is one of the exception
(`LossInv`), since only under the silent Null mutex do two tasks meet in the scratch
with nothing told. `SendLoses` puts these together for one Send.

### Only model-checked

- All liveness: fairness and ENABLED are out of the prover's reach.
- `MessageReadsBack`: that every text the formatter writes is read back as what was
  given is an induction over the text, the calls and the elements at once, through the
  functions that write it and those that read it.

## Not modelled

- Clocks, host names and process ids: the adapters keep no state and answer a
  question of the header. `MessageFormatter` draws their answers from small sets.
- The arithmetic of checksums, digests and ciphers: the store sees only their
  verdict.
- The vtable dispatchers and the tables of error names and categories: no state
  and no choice.
- The warning that a block is too small for a record, at Create.
- Test doubles, the BDD targets, the examples, and the vendored drivers.

## Plan

Done: the modules and the theorems above. What is left is `MessageReadsBack`: lemmas
about the loops of `Formatter`, as recursive functions over the positions of a
string, would come first (that each writes whole code points, within its bound).
