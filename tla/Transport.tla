----------------------------- MODULE Transport -----------------------------
(***************************************************************************)
(* The senders: Core/Source/SolidSyslogSwitchingSender.c over a            *)
(* SolidSyslogStreamSender.c (octet-counted frames on a TCP stream, with   *)
(* or without TLS above it) and a SolidSyslogUdpSender.c, on one of the    *)
(* network stacks.                                                         *)
(*                                                                         *)
(* The Service task runs one Send at a time, in steps that end where it    *)
(* calls a stream, a datagram or a resolver.  Another task may change the  *)
(* endpoint, or the TLS profile, at any moment: the change first and then  *)
(* its version, as the Stream and endpoint contracts ask.  The peer, and   *)
(* the lwIP thread, act between any two steps.                             *)
(***************************************************************************)
EXTENDS LwipRawTcpStream, Datagram, Resolver

CONSTANTS
  TlsOver,        \* the platforms on which the stream may be TLS over TCP
  MaxVersion,     \* bound: how often the endpoint and the profile change
  Records,        \* the records to send
  Paths           \* the paths: an MTU, and the payload the integrator states

\* A byte of a record belongs to a code point that starts in the record.
IsUtf8(record) ==
  \A i \in DOMAIN record :
    \E start \in 1 .. i :
      /\ record[start] # "c"
      /\ i < start + ExpectedSequenceLength(record[start])
      /\ \A j \in start + 1 .. i : record[j] = "c"

ASSUME VersionAssumption == MaxVersion \in Nat /\ NoDestination \notin 0 .. MaxVersion
ASSUME RecordsAssumption ==
  /\ Records # {}
  /\ Records \subseteq Seq({"1", "2", "3", "4", "c"})
  /\ \A r \in Records : IsUtf8(r)
ASSUME PathsAssumption == Paths \subseteq [mtu : Nat, stated : Nat]

VARIABLES
  CurrentSender,          \* SwitchingSender: "null", "stream" or "udp"
  OutOfRangeReported,
  senders,                \* the state of the two senders
  RecordTooLargeReported, \* UdpSender
  EndpointVersion, endpoint,   \* the endpoint's version, and what it names
  StreamVersion, profile,      \* the same for the TLS profile
  secure,                 \* whether the stream is TLS over TCP
  pc,                     \* the step the Send in hand is at
  request,                \* what that Send holds
  lost, outdated, cut     \* ghost: see the properties

senderVars == <<CurrentSender, OutOfRangeReported, senders, RecordTooLargeReported>>
configVars == <<EndpointVersion, endpoint, StreamVersion, profile>>
ghostVars == <<lost, outdated, cut>>
vars == <<streamVars, rawVars, datagramVars, resolverVars, senderVars, configVars,
          pc, request, secure, ghostVars>>

Fresh == [Connected |-> FALSE, LastEndpointVersion |-> 0, LastStreamVersion |-> 0]

\* The record, the host read for Resolve, the profile a TLS stream opens
\* with, and, for the properties, the versions when the Send began and
\* whether the peer had closed before a piece was sent.  A record's bytes
\* matter to a datagram only.
AnyRecord == CHOOSE r \in Records : TRUE
NoRequest == [record |-> AnyRecord, host |-> 0, pulled |-> 0,
              endpoint |-> 0, profile |-> 0, gone |-> FALSE]

Init ==
  /\ StreamInit /\ RawInit /\ DatagramInit /\ ResolverInit
  /\ CurrentSender = "null" /\ OutOfRangeReported = FALSE
  /\ senders = [s \in {"stream", "udp"} |-> Fresh]
  /\ RecordTooLargeReported = FALSE
  /\ EndpointVersion = 0 /\ endpoint = 0 /\ StreamVersion = 0 /\ profile = 0
  /\ secure \in {tls \in BOOLEAN : tls => platform \in TlsOver}
  /\ pc = "idle"
  /\ request = NoRequest
  /\ lost = FALSE /\ outdated = FALSE /\ cut = FALSE

Wires == <<streamVars, rawVars, datagramVars>>
Self == senders[CurrentSender]
Set(field, value) == senders' = [senders EXCEPT ![CurrentSender][field] = value]

-----------------------------------------------------------------------------
(* The configuration, changed by another task.                             *)
ChangeEndpoint ==
  /\ endpoint < MaxVersion
  /\ endpoint = EndpointVersion
  /\ endpoint' = endpoint + 1
  /\ UNCHANGED <<EndpointVersion, StreamVersion, profile>>
MoveEndpointVersion ==
  /\ EndpointVersion' = endpoint
  /\ UNCHANGED <<endpoint, StreamVersion, profile>>
ChangeProfile ==
  /\ secure
  /\ profile < MaxVersion
  /\ profile = StreamVersion
  /\ profile' = profile + 1
  /\ UNCHANGED <<EndpointVersion, endpoint, StreamVersion>>
MoveStreamVersion ==
  /\ StreamVersion' = profile
  /\ UNCHANGED <<EndpointVersion, endpoint, profile>>

Configure ==
  /\ ChangeEndpoint \/ MoveEndpointVersion \/ ChangeProfile \/ MoveStreamVersion
  /\ UNCHANGED <<Wires, resolverVars, senderVars, pc, request, secure, ghostVars>>

-----------------------------------------------------------------------------
(* Closing.                                                                *)
CloseStream ==
  /\ call' = "idle"
  /\ IF IsRaw THEN ClosePcb ELSE CloseSocket /\ UNCHANGED rawVars
  /\ UNCHANGED <<platform, Failing, told, cause, refused>>

\* Sender_Disconnect: what the sender holds, if it is connected.
Disconnect(s) ==
  CASE s = "stream" /\ senders[s].Connected -> CloseStream /\ UNCHANGED datagramVars
    [] s = "udp" /\ senders[s].Connected -> DatagramClose /\ UNCHANGED <<streamVars, rawVars>>
    [] OTHER -> UNCHANGED Wires

Disconnected(s) ==
  IF s = "null" THEN senders ELSE [senders EXCEPT ![s].Connected = FALSE]

-----------------------------------------------------------------------------
(* SwitchingSender_Send: the selector's index picks the sender.  Out of    *)
(* range, it is the NullSender, which takes the record.                    *)
RequestedSender(index) == CASE index = 0 -> "stream" [] index = 1 -> "udp" [] OTHER -> "null"

SwitchTo(requested) ==
  IF requested = CurrentSender
  THEN UNCHANGED <<Wires, senders>>
  ELSE /\ Disconnect(CurrentSender)
       /\ senders' = Disconnected(CurrentSender)

Send(index, r) ==
  LET requested == RequestedSender(index)
  IN  /\ pc = "idle"
      /\ SwitchTo(requested)
      /\ CurrentSender' = requested
      /\ OutOfRangeReported' = (requested = "null")
      /\ requested # "udp" => r = AnyRecord
      /\ request' = (IF requested = "null" THEN NoRequest
                     ELSE [NoRequest EXCEPT !.record = r, !.endpoint = EndpointVersion,
                                            !.profile = StreamVersion])
      /\ pc' = (IF requested = "null" THEN "idle" ELSE "reconcile")
      /\ UNCHANGED <<resolverVars, RecordTooLargeReported, configVars, secure, ghostVars>>

-----------------------------------------------------------------------------
(* Reconcile, which both senders run before they transmit.                 *)
StreamMoved == CurrentSender = "stream" /\ StreamVersion # Self.LastStreamVersion
Moved == EndpointVersion # Self.LastEndpointVersion \/ StreamMoved
IfConnected(transmit, connect) == IF Self.Connected THEN transmit ELSE connect

Transmit == IF CurrentSender = "stream" THEN "count" ELSE "sendTo"
ConnectStep == IF CurrentSender = "stream" THEN "resolve" ELSE "openDatagram"

\* Mutant: the endpoint's version is looked at once the sender is connected.
ReconcileUnlessConnected ==
  /\ pc = "reconcile"
  /\ pc' = IfConnected(Transmit, ConnectStep)
  /\ UNCHANGED <<Wires, senders>>
  /\ UNCHANGED <<resolverVars, CurrentSender, OutOfRangeReported, RecordTooLargeReported,
                 configVars, request, secure, ghostVars>>

\* DisconnectIfStale, and then whether a connection has to be made.
Reconcile ==
  /\ pc = "reconcile"
  /\ IF Moved
     THEN /\ Disconnect(CurrentSender)
          /\ senders' = [senders EXCEPT
               ![CurrentSender].Connected = FALSE,
               ![CurrentSender].LastEndpointVersion = EndpointVersion,
               ![CurrentSender].LastStreamVersion =
                 IF CurrentSender = "stream" THEN StreamVersion ELSE @]
          /\ pc' = ConnectStep
     ELSE /\ UNCHANGED <<Wires, senders>>
          /\ pc' = IfConnected(Transmit, ConnectStep)
  /\ UNCHANGED <<resolverVars, CurrentSender, OutOfRangeReported, RecordTooLargeReported,
                 configVars, request, secure, ghostVars>>

(* ResolveDestination: the endpoint is read and its host resolved.         *)
StartResolve ==
  /\ pc = "resolve" /\ resolving = "no"
  /\ \/ \E answer \in DOMAIN ResolveAnswers("VxWorks64") \cup DOMAIN ResolveAnswers("LwipSocket")
                      \cup DOMAIN ResolveAnswers("LwipRaw") :
          ResolveAtOnce(platform, endpoint, answer)
     \/ ResolveStart(platform)
  /\ request' = [request EXCEPT !.host = endpoint]
  /\ UNCHANGED <<Wires, senderVars, configVars, pc, secure, ghostVars>>

StepResolve ==
  /\ \/ \E answer \in {"known", "knownIpv6", "queued", "declined"} : DoGetHostByName(request.host, answer)
     \/ WaitForCallback
     \/ \E ipv4 \in BOOLEAN : DoPublishResult(ipv4)
     \/ \E h \in queries, found \in BOOLEAN : FoundCallback(h, found)
  /\ UNCHANGED <<Wires, senderVars, configVars, pc, request, secure, ghostVars>>

-----------------------------------------------------------------------------
(* The end of a Send.                                                      *)
Finish ==
  /\ pc' = "idle"
  /\ request' = NoRequest
  /\ UNCHANGED senders

NotForCurrent(to, opened) == to < request.endpoint \/ opened < request.profile

ResolveFailed ==
  /\ pc = "resolve" /\ resolving = "failed"
  /\ resolving' = "no"
  /\ IF CurrentSender = "udp" THEN DatagramClose ELSE UNCHANGED datagramVars
  /\ Finish
  /\ UNCHANGED <<streamVars, rawVars, Address, dnsVars, CurrentSender, OutOfRangeReported,
                 RecordTooLargeReported, configVars, secure, ghostVars>>

-----------------------------------------------------------------------------
(* StreamSender.                                                           *)
\* Stream_Open; a TLS stream pulls its profile as it starts.
OpenStream ==
  /\ pc = "resolve" /\ resolving = "found" /\ CurrentSender = "stream"
  /\ Open
  /\ request' = [request EXCEPT !.pulled = profile]
  /\ resolving' = "no"
  /\ pc' = "opening"
  /\ UNCHANGED <<rawVars, datagramVars, Address, dnsVars, senderVars, configVars, secure, ghostVars>>

Destination == [endpoint |-> Address, profile |-> request.pulled]

StepStream ==
  /\ pc \in {"opening", "count", "record"}
  /\ \/ /\ ~IsRaw
        /\ \/ \E failing \in 0 .. 2 : TakeSocket(failing)
           \/ \E answer \in DOMAIN ConnectPosix \cup DOMAIN ConnectWinsock \cup DOMAIN ConnectPlusTcp :
                Connect(answer, Destination)
           \/ \E answer \in DOMAIN WaitPosix : WaitForConnectCompletion(answer, Destination)
           \/ \E answer \in RecvAnswers : Check(answer) \/ Read(answer)
           \/ \E wrote \in SendAnswers : Write(pc, wrote)
        /\ UNCHANGED rawVars
     \/ \E created, started \in BOOLEAN : DoOpenAndConnect(created, started)
     \/ WaitForConnectedCallback
     \/ DoAbort
     \/ RawCheck
     \/ \E wrote \in {"all", "error", "late"} : DoSend(pc, wrote)
     \/ RawRead
     \/ DoRead
  /\ UNCHANGED <<datagramVars, resolverVars, senderVars, configVars, pc, request, secure, ghostVars>>

\* The peer and lwIP's thread.
Network ==
  /\ \/ ~IsRaw /\ PeerCloses /\ UNCHANGED rawVars
     \/ \E ok \in BOOLEAN : ConnectedCallback(ok, Destination)
     \/ \E fin \in BOOLEAN : (fin \/ secure) /\ RecvCallback(fin)
     \/ ErrCallback
  /\ UNCHANGED <<datagramVars, resolverVars, senderVars, configVars, pc, request, secure, ghostVars>>

\* StreamSender_Connect ends: Connected is what Open returned.
StreamOpened ==
  /\ pc = "opening" /\ call \in {"opened", "failed"}
  /\ IF call = "opened"
     THEN /\ Set("Connected", TRUE)
          /\ pc' = "count"
          /\ UNCHANGED request
     ELSE Finish
  /\ call' = "idle"
  /\ UNCHANGED <<platform, Fd, Failing, sockets, conn, told, cause, refused, rawVars, datagramVars,
                 resolverVars, CurrentSender, OutOfRangeReported, RecordTooLargeReported,
                 configVars, secure, ghostVars>>

\* A close of the peer that the checks before a write come upon: the peek of a
\* plain stream where no unread bytes stand before it, the reads of a TLS session
\* where they take all of them, and Plus-TCP's stack wherever it is.
CloseCanBeSeen ==
  \/ conn.peer \in {"none", "gone"}
  \/ conn.peer = "goneBehindBytes" /\ secure
  \/ conn.peer # "up" /\ platform = "PlusTcp"

\* SendBytes of the octet count, then of the record.  A TLS stream looks
\* at what its session has to read before it writes.
StartPiece ==
  /\ pc \in {"count", "record"} /\ call = "idle"
  /\ call' = (IF secure THEN "Read" ELSE "Check")
  /\ request' = [request EXCEPT !.gone = @ \/ CloseCanBeSeen]
  /\ UNCHANGED <<platform, Fd, Failing, sockets, conn, told, cause, refused, rawVars, datagramVars,
                 resolverVars, senderVars, configVars, pc, secure, ghostVars>>

\* SendBytes ends: a piece that did not go closes the stream.
PieceSent ==
  /\ pc \in {"count", "record"} /\ call \in {"sent", "failed"}
  /\ IF call = "sent"
     THEN /\ IF pc = "count" THEN pc' = "record" /\ UNCHANGED <<senders, request>> ELSE Finish
          /\ lost' = (lost \/ (pc = "record" /\ request.gone))
          /\ outdated' = (outdated \/ (pc = "record" /\ conn.peer # "none"
                            /\ NotForCurrent(conn.to.endpoint, conn.to.profile)))
          /\ call' = "idle"
          /\ UNCHANGED <<platform, Fd, Failing, sockets, conn, told, cause, refused, rawVars>>
     ELSE /\ CloseStream
          /\ pc' = "idle"
          /\ request' = NoRequest
          /\ senders' = [senders EXCEPT !.stream.Connected = FALSE]
          /\ UNCHANGED <<lost, outdated>>
  /\ UNCHANGED <<datagramVars, resolverVars, CurrentSender, OutOfRangeReported,
                 RecordTooLargeReported, configVars, secure, cut>>

-----------------------------------------------------------------------------
(* UdpSender.                                                              *)
\* Connect: the socket first, then the destination.
OpenDatagram(ok) ==
  /\ pc = "openDatagram"
  /\ DatagramOpen(ok)
  /\ IF ok THEN pc' = "resolve" /\ UNCHANGED <<senders, request>> ELSE Finish
  /\ UNCHANGED <<streamVars, rawVars, resolverVars, CurrentSender, OutOfRangeReported,
                 RecordTooLargeReported, configVars, secure, ghostVars>>

UdpConnected ==
  /\ pc = "resolve" /\ resolving = "found" /\ CurrentSender = "udp"
  /\ resolving' = "no"
  /\ Set("Connected", TRUE)
  /\ pc' = "sendTo"
  /\ UNCHANGED <<Wires, Address, dnsVars, CurrentSender, OutOfRangeReported,
                 RecordTooLargeReported, configVars, request, secure, ghostVars>>

(* A datagram the stack took is lost if its next hop was not resolved on a *)
(* stack that drops it then, and cut if it ends inside a code point.       *)
DroppedByStack(said) ==
  \/ platform = "PlusTcp" /\ said.hop # "resolved"
  \/ platform = "VxWorks64" /\ said.hop # "resolved" /\ Address \notin OffSubnet
EndsInside(length) == length < Len(request.record) /\ request.record[length + 1] = "c"

\* What SendTo's result leaves behind it.
Sent(length, said) ==
  /\ RecordTooLargeReported' = FALSE
  /\ Finish
  /\ lost' = (lost \/ DroppedByStack(said))
  /\ outdated' = (outdated \/ Address < request.endpoint)
  /\ cut' = (cut \/ EndsInside(length))

\* OVERSIZE at the last: the record is dropped, and that is reported.
Discard ==
  /\ pc' = "idle"
  /\ request' = NoRequest
  /\ RecordTooLargeReported' = TRUE
  /\ UNCHANGED <<senders, lost, outdated, cut>>

NotDelivered ==
  /\ Finish
  /\ UNCHANGED <<RecordTooLargeReported, lost, outdated, cut>>

\* The record whole.  A failure counts as oversize when the record is longer
\* than the path takes, and is retried like one.
SendWhole(said, path, result) ==
  LET maxPayload == MaxPayload(platform, path, said.answered)
      oversize == result = "OVERSIZE"
                  \/ (result = "FAILED" /\ maxPayload > 0 /\ Len(request.record) > maxPayload)
  IN  /\ pc = "sendTo"
      /\ SendTo(platform, Len(request.record), Address, path, said, result)
      /\ CASE result = "SENT" -> Sent(Len(request.record), said)
           [] oversize -> pc' = "retry" /\ UNCHANGED <<senders, request, RecordTooLargeReported, lost, outdated, cut>>
           [] OTHER -> NotDelivered

\* RetryAfterOversize: as much as fits, cut at a code point.
Trimmed(path, said) ==
  TrimToCodepointBoundary(request.record, Min({Len(request.record), MaxPayload(platform, path, said.answered)}))

Retry(said, path, result) ==
  /\ pc = "retry"
  /\ IF Trimmed(path, said) = 0
     THEN result = "OVERSIZE" /\ Discard /\ UNCHANGED datagramVars
     ELSE /\ SendTo(platform, Trimmed(path, said), Address, path, said, result)
          /\ CASE result = "SENT" -> Sent(Trimmed(path, said), said)
               [] result = "OVERSIZE" -> Discard
               [] OTHER -> NotDelivered

\* What the stack may say, of what this one is asked.
Sayings ==
  [connects : IF ConnectsFirst(platform) THEN BOOLEAN ELSE {TRUE},
   answered : IF ConnectsFirst(platform) THEN BOOLEAN ELSE {TRUE},
   hop : IF platform \in {"VxWorks64", "PlusTcp"} THEN {"resolved", "unresolved"} ELSE {"resolved"},
   answer : DOMAIN SendToAnswers(platform)]

TransmitDatagram ==
  /\ \E said \in Sayings, path \in Paths, result \in {"SENT", "OVERSIZE", "FAILED"} :
       SendWhole(said, path, result) \/ Retry(said, path, result)
  /\ UNCHANGED <<streamVars, rawVars, resolverVars, CurrentSender, OutOfRangeReported,
                 configVars, secure>>

-----------------------------------------------------------------------------
\* The senders are destroyed and created again between two Sends.
Recreate ==
  /\ pc = "idle"
  /\ IF senders.stream.Connected THEN CloseStream ELSE UNCHANGED <<streamVars, rawVars>>
  /\ IF senders.udp.Connected THEN DatagramClose ELSE UNCHANGED datagramVars
  /\ CurrentSender' = "null" /\ OutOfRangeReported' = FALSE /\ RecordTooLargeReported' = FALSE
  /\ senders' = [s \in {"stream", "udp"} |-> Fresh]
  /\ UNCHANGED <<resolverVars, configVars, pc, request, secure, ghostVars>>

Next ==
  \/ Configure
  \/ \E index \in 0 .. 2, r \in Records : Send(index, r)
  \/ Reconcile
  \/ StartResolve
  \/ StepResolve
  \/ ResolveFailed
  \/ OpenStream
  \/ StepStream
  \/ Network
  \/ StreamOpened
  \/ StartPiece
  \/ PieceSent
  \/ \E ok \in BOOLEAN : OpenDatagram(ok)
  \/ UdpConnected
  \/ TransmitDatagram
  \/ Recreate

Spec == Init /\ [][Next]_vars

-----------------------------------------------------------------------------
(* Frames stay whole: once part of a frame is on a connection and the rest *)
(* did not follow, nothing more goes on that connection.  StreamSender     *)
(* sends the octet count and the record in two calls, either of which may  *)
(* fail or be cut short.                                                   *)
FramesWhole == conn.frame # "garbled"

(* A record that Send reported as delivered went to where the endpoint and *)
(* the TLS profile in force when Send began point, or to something newer.  *)
(* DisconnectIfStale reads the versions before the connection is made.     *)
(* lwIP's DNS is left out: the run late_dns_answer is about it.            *)
SentToCurrent == platform # "LwipRawDns" => ~outdated

(* The adapters give back every socket they take, and a sender that is not *)
(* connected holds none between two Sends: an Open, which the sender makes *)
(* without a Close before it, never meets a stream that is still open.     *)
OpensBalanced ==
  /\ ~refused
  /\ sockets = IF Fd THEN 1 ELSE 0
  /\ datagramSockets = IF Socket THEN 1 ELSE 0
  /\ pc = "idle" => /\ ~senders.stream.Connected => ~Fd
                    /\ ~senders.udp.Connected => ~Socket

(* A record Send reported as delivered was handed over: no close of the    *)
(* peer stood where the checks before a write look for it, and the next    *)
(* hop was resolved on a stack that drops what it cannot address.  Bytes   *)
(* of the peer's that nothing has read hide its close from a peek, and     *)
(* more of them than a session reads before a write hide it from TLS: the  *)
(* adapters take it that a collector sends nothing.  What is dropped with  *)
(* a report (a record too large for the path, a selector out of range) is  *)
(* LossesTold's.                                                           *)
AcknowledgedIsHandedOver == ~lost

(* Whatever the last Open failed of has been reported since a connection   *)
(* was last up, although a failure that repeats is reported once.          *)
OutageTold == told = cause

(* No datagram ends inside a code point, whatever part of a record it      *)
(* carries.                                                                *)
WholeCodepoints == ~cut

(* What Resolve fills in is the address of the host it was asked for.      *)
ResolvesTheHostAsked == resolving = "found" => Address = request.host

=============================================================================
