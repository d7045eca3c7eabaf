-------------------------- MODULE TransportProofs --------------------------
(***************************************************************************)
(* Proofs about the transports.                                            *)
(*                                                                         *)
(* Transport: sockets are given back, frames stay whole, what Send reports *)
(* as delivered was handed over and went where the endpoint pointed, a     *)
(* failing Open is reported, and no datagram ends inside a code point, for *)
(* every set of platforms, records, paths and versions.                    *)
(*                                                                         *)
(* Tls: an open session is with a peer that met all that was configured, a *)
(* refusal names the first fault, and what the streams share is in memory  *)
(* for as long as a session refers to it, for every number of streams,     *)
(* every list of fingerprints, set of digests and handshake budget.        *)
(***************************************************************************)
EXTENDS Transport, Tls, FiniteSetTheorems, TLAPS

Versions == 0 .. MaxVersion
OpenCalls == {"TakeSocket", "Connect", "Wait", "NotStarted", "Abort", "opened", "failed"}
SendCalls == {"idle", "Read", "DoRead", "Check", "Write", "sent", "failed"}
OnStream == pc \in {"opening", "count", "record"}

Conns == [to : [endpoint : Versions, profile : Versions], peer : {"none", "up", "gone"} \cup Hidden,
          frame : {"whole", "counted", "partial", "garbled"}]
Senders == [Connected : BOOLEAN, LastEndpointVersion : Versions, LastStreamVersion : Versions]
Requests == [record : Records, host : Versions, pulled : Versions,
             endpoint : Versions, profile : Versions, gone : BOOLEAN]

TypeInv ==
  /\ platform \in Platforms
  /\ sockets \in Int /\ datagramSockets \in Int
  /\ conn \in Conns
  /\ Address \in Versions /\ ResolvedIp \in Versions /\ queries \subseteq Versions
  /\ CurrentSender \in {"null", "stream", "udp"}
  /\ senders \in [{"stream", "udp"} -> Senders]
  /\ EndpointVersion \in Versions /\ endpoint \in Versions
  /\ StreamVersion \in Versions /\ profile \in Versions
  /\ pc \in {"idle", "reconcile", "resolve", "opening", "count", "record",
             "openDatagram", "sendTo", "retry"}
  /\ request \in Requests

\* Where a Send may stand, of which sender, and whether it is connected there.
ControlInv ==
  /\ pc = "opening" => call \in OpenCalls
  /\ pc \in {"count", "record"} => call \in SendCalls /\ senders["stream"].Connected
  /\ ~OnStream => call = "idle"
  /\ OnStream => CurrentSender = "stream"
  /\ pc \in {"openDatagram", "sendTo", "retry"} => CurrentSender = "udp"
  /\ pc # "idle" => CurrentSender # "null"
  /\ pc \in {"opening", "openDatagram", "resolve"} => ~senders[CurrentSender].Connected
  /\ pc \in {"sendTo", "retry"} => senders["udp"].Connected
  /\ senders["stream"].Connected => CurrentSender = "stream"
  /\ senders["udp"].Connected => CurrentSender = "udp"
  /\ resolving # "no" => pc = "resolve"
  /\ platform # "LwipRawDns" => resolving \in {"no", "found", "failed"} /\ queries = {}

\* Who holds a socket, and when.
SocketInv ==
  /\ ~refused
  /\ sockets = IF Fd THEN 1 ELSE 0
  /\ datagramSockets = IF Socket THEN 1 ELSE 0
  /\ Fd => \/ senders["stream"].Connected
           \/ pc = "opening" /\ call \notin {"TakeSocket", "failed"}
  /\ /\ ~IsRaw /\ call # "failed"
     /\ senders["stream"].Connected \/ (pc = "opening" /\ call # "TakeSocket")
     => Fd
  /\ Socket => \/ senders["udp"].Connected
               \/ pc = "resolve" /\ CurrentSender = "udp"

BaseInv == TypeInv /\ ControlInv /\ SocketInv

\* Between the octet count and the record, and only there, the frame is open.
InFrame == \/ pc = "count" /\ call = "sent"
           \/ pc = "record" /\ call # "sent"
FrameInv ==
  /\ conn.frame \in {"whole", "counted"}
  /\ conn.frame = "counted" => InFrame
  /\ Fd /\ InFrame => conn.frame = "counted"

\* The connection goes with the socket, and lwIP's Errored with its end.
ConnInv ==
  /\ ~Fd => conn = NoConn
  /\ Fd => \/ conn.peer # "none"
           \/ pc = "opening" /\ call \in {"Connect", "Wait", "NotStarted", "Abort"}
  /\ IsRaw /\ Fd /\ call = "Wait" /\ Connected => conn.peer # "none"
  /\ ~IsRaw /\ call \in {"Connect", "Wait"} => conn = NoConn
  /\ IsRaw /\ conn.peer \notin {"none", "up"} => Errored

\* A Send that met a close it can see gets nowhere.
HandedOverInv ==
  /\ request.gone => /\ pc \in {"count", "record"} /\ CloseCanBeSeen
                     /\ call \in {"Read", "DoRead", "Check", "Write", "failed"}
                     /\ call = "Check" => conn.peer \notin Hidden \/ IsRaw \/ platform = "PlusTcp"
                     /\ call = "Write" => platform = "PlusTcp"
  /\ OffSubnetDestination \in OffSubnet \cup {NoDestination}
  /\ ~lost

\* What was read of the configuration follows it, and what is connected to
\* follows what was read.
VersionInv ==
  /\ EndpointVersion <= endpoint /\ StreamVersion <= profile
  /\ request.endpoint <= EndpointVersion /\ request.profile <= StreamVersion
  /\ \A s \in {"stream", "udp"} : /\ senders[s].LastEndpointVersion <= EndpointVersion
                                  /\ senders[s].LastStreamVersion <= StreamVersion
  /\ pc \notin {"idle", "reconcile"} =>
       /\ request.endpoint <= senders[CurrentSender].LastEndpointVersion
       /\ CurrentSender = "stream" => request.profile <= senders["stream"].LastStreamVersion
  /\ pc = "opening" => senders["stream"].LastStreamVersion <= request.pulled

DestinationInv ==
  /\ resolving = "found" \/ pc = "opening" \/ senders["udp"].Connected =>
       senders[CurrentSender].LastEndpointVersion <= Address
  /\ conn.peer # "none" =>
       /\ senders["stream"].LastEndpointVersion <= conn.to.endpoint
       /\ senders["stream"].LastStreamVersion <= conn.to.profile
  /\ ~outdated

OutageInv == told = cause /\ Failing = cause

CurrentInv == VersionInv /\ (platform # "LwipRawDns" => DestinationInv)
IInv == BaseInv /\ FrameInv /\ ConnInv /\ HandedOverInv /\ CurrentInv /\ OutageInv

-----------------------------------------------------------------------------
LEMMA NoRequestFacts ==
  /\ NoRequest \in Requests
  /\ NoRequest.endpoint = 0 /\ NoRequest.profile = 0 /\ ~NoRequest.gone
<1>1. AnyRecord \in Records
  BY RecordsAssumption DEF AnyRecord
<1> QED
  BY <1>1, VersionAssumption DEF NoRequest, Requests, Versions

LEMMA NoConnFacts == NoConn \in Conns /\ NoConn.peer = "none" /\ NoConn.frame = "whole"
BY VersionAssumption DEF NoConn, Conns, Versions

LEMMA FreshFacts ==
  /\ Fresh \in Senders
  /\ ~Fresh.Connected /\ Fresh.LastEndpointVersion = 0 /\ Fresh.LastStreamVersion = 0
BY VersionAssumption DEF Fresh, Senders, Versions

LEMMA BaseInit == Init => BaseInv
<1> SUFFICES ASSUME Init PROVE BaseInv
  OBVIOUS
<1> USE NoRequestFacts, NoConnFacts, FreshFacts, VersionAssumption
        DEF Init, StreamInit, RawInit, DatagramInit, ResolverInit
<1>1. TypeInv
  <2>1. senders \in [{"stream", "udp"} -> Senders]
    OBVIOUS
  <2>2. 0 \in Versions
    BY DEF Versions
  <2> QED
    BY <2>1, <2>2 DEF TypeInv
<1>2. ControlInv
  BY DEF ControlInv, OnStream
<1>3. SocketInv
  BY DEF SocketInv, IsRaw
<1> QED
  BY <1>1, <1>2, <1>3 DEF BaseInv

LEMMA SendToFacts ==
  ASSUME NEW length, NEW path, NEW said, NEW result,
         SendTo(platform, length, Address, path, said, result)
  PROVE  /\ UNCHANGED <<Socket, datagramSockets>>
         /\ OffSubnetDestination' \in OffSubnet \cup {OffSubnetDestination}
BY DEF SendTo, NoteOffSubnet, datagramVars

\* What a datagram's transmission may leave changed.
LEMMA TransmitFacts ==
  ASSUME TransmitDatagram
  PROVE  /\ pc \in {"sendTo", "retry"} /\ pc' \in {"idle", "retry"}
         /\ request' \in {request, NoRequest}
         /\ UNCHANGED <<senders, Socket, datagramSockets>>
         /\ OffSubnetDestination' \in OffSubnet \cup {OffSubnetDestination}
         /\ \/ UNCHANGED ghostVars
            \/ \E said \in Sayings, path \in Paths :
                 \E length \in {Len(request.record), Trimmed(path, said)} :
                   SendTo(platform, length, Address, path, said, "SENT") /\ Sent(length, said)
<1> DEFINE SentSome ==
      \E said \in Sayings, path \in Paths :
        \E length \in {Len(request.record), Trimmed(path, said)} :
          SendTo(platform, length, Address, path, said, "SENT") /\ Sent(length, said)
<1> PICK said \in Sayings, path \in Paths, result \in {"SENT", "OVERSIZE", "FAILED"} :
      SendWhole(said, path, result) \/ Retry(said, path, result)
  BY DEF TransmitDatagram
<1>1. CASE SendWhole(said, path, result)
  <2>1. /\ SendTo(platform, Len(request.record), Address, path, said, result)
        /\ pc = "sendTo"
    BY <1>1 DEF SendWhole
  <2>2. /\ UNCHANGED <<Socket, datagramSockets>>
        /\ OffSubnetDestination' \in OffSubnet \cup {OffSubnetDestination}
    BY <2>1, SendToFacts
  <2>3. \/ result = "SENT" /\ Sent(Len(request.record), said)
        \/ pc' = "retry" /\ UNCHANGED <<senders, request, ghostVars>>
        \/ NotDelivered
    BY <1>1 DEF SendWhole, ghostVars
  <2>4. UNCHANGED ghostVars \/ SentSome
    BY <2>1, <2>3 DEF NotDelivered, ghostVars
  <2> QED
    BY <2>1, <2>2, <2>3, <2>4 DEF Sent, NotDelivered, Finish
<1>2. CASE Retry(said, path, result)
  <2>1. pc = "retry"
    BY <1>2 DEF Retry
  <2>2. \/ UNCHANGED datagramVars
        \/ SendTo(platform, Trimmed(path, said), Address, path, said, result)
    BY <1>2 DEF Retry
  <2>3. /\ UNCHANGED <<Socket, datagramSockets>>
        /\ OffSubnetDestination' \in OffSubnet \cup {OffSubnetDestination}
    BY <2>2, SendToFacts DEF datagramVars
  <2>4. \/ Discard
        \/ NotDelivered
        \/ /\ SendTo(platform, Trimmed(path, said), Address, path, said, result)
           /\ result = "SENT" /\ Sent(Trimmed(path, said), said)
    BY <1>2 DEF Retry
  <2>5. UNCHANGED ghostVars \/ SentSome
    BY <2>4 DEF Discard, NotDelivered, ghostVars
  <2> QED
    BY <2>1, <2>3, <2>4, <2>5 DEF Sent, Discard, NotDelivered, Finish
<1> QED
  BY <1>1, <1>2

\* Every answer to a read has a meaning, on the platforms that read a socket.
LEMMA ReadAnswersFacts ==
  ASSUME BaseInv, ~IsRaw, NEW answer \in RecvAnswers
  PROVE  ReadAnswers[answer] \in {"data", "nothing", "closed"}
BY PlatformsAssumption
   DEF BaseInv, TypeInv, IsRaw, RecvAnswers, ReadAnswers, ReadPosix, ReadWinsock,
     ReadLwipSocket, ReadVxWorks64, ReadPlusTcp

\* What a read of a socket comes to.
LEMMA ReadFacts ==
  ASSUME BaseInv, ~IsRaw, NEW answer \in RecvAnswers, Read(answer)
  PROVE  /\ call = "Read" /\ UNCHANGED <<platform, refused>>
         /\ \/ call' = "failed" /\ CloseSocket
            \/ /\ call' \in {"Read", "Check"} /\ UNCHANGED <<Fd, sockets>>
               /\ \/ UNCHANGED conn
                  \/ conn.peer \in Hidden /\ conn' = [conn EXCEPT !.peer = "gone"]
<1>1. ReadAnswers[answer] \in {"data", "nothing", "closed"}
  BY ReadAnswersFacts
<1>2. CASE ReadAnswers[answer] = "data"
  BY <1>2 DEF Read, ReadOn
<1>3. CASE ReadAnswers[answer] = "nothing"
  BY <1>3 DEF Read
<1>4. CASE ReadAnswers[answer] = "closed"
  BY <1>4 DEF Read
<1> QED
  BY <1>1, <1>2, <1>3, <1>4

LEMMA DestinationType == BaseInv => Destination \in [endpoint : Versions, profile : Versions]
BY DEF BaseInv, TypeInv, Destination, Requests

LEMMA StreamBaseStep ==
  ASSUME BaseInv, StepStream \/ Network
  PROVE  BaseInv'
<1>0. UNCHANGED <<datagramVars, resolverVars, senderVars, configVars, pc, request>>
  BY DEF StepStream, Network
<1>a. Destination \in [endpoint : Versions, profile : Versions]
  BY DestinationType
<1> USE NoConnFacts, <1>0, <1>a
<1> USE DEF BaseInv, TypeInv, ControlInv, SocketInv, OnStream, IsRaw, OpenCalls,
            SendCalls, Conns, rawVars, datagramVars, resolverVars,
            dnsVars, senderVars, configVars, CloseSocket, ReleasePcb, ClosePcb
<1>1. CASE StepStream
  <2>0. pc \in {"opening", "count", "record"}
    BY <1>1 DEF StepStream
  <2>1. ASSUME NEW failing, ~IsRaw, TakeSocket(failing) PROVE BaseInv'
    BY <2>0, <2>1 DEF TakeSocket
  <2>2. ASSUME NEW answer, ~IsRaw, Connect(answer, Destination) PROVE BaseInv'
    BY <2>0, <2>2 DEF Connect, Attempted
  <2>3. ASSUME NEW answer, ~IsRaw, WaitForConnectCompletion(answer, Destination) PROVE BaseInv'
    BY <2>0, <2>3 DEF WaitForConnectCompletion, Attempted
  <2>4. ASSUME NEW answer, ~IsRaw, Check(answer) PROVE BaseInv'
    BY <2>0, <2>4 DEF Check
  <2>5. ASSUME NEW answer \in RecvAnswers, ~IsRaw, Read(answer) PROVE BaseInv'
    <3>1. conn' \in Conns
      BY <2>5, ReadFacts
    <3>2. /\ call = "Read" /\ UNCHANGED <<platform, refused>>
          /\ \/ call' = "failed" /\ ~Fd' /\ sockets' = (IF Fd THEN sockets - 1 ELSE sockets)
             \/ call' \in {"Read", "Check"} /\ UNCHANGED <<Fd, sockets>>
      BY <2>5, ReadFacts
    <3> QED
      BY <2>0, <2>5, <3>1, <3>2
  <2>6. ASSUME NEW wrote, ~IsRaw, Write(pc, wrote) PROVE BaseInv'
    BY <2>0, <2>6 DEF Write, After
  <2>7. ASSUME NEW created \in BOOLEAN, NEW started \in BOOLEAN, DoOpenAndConnect(created, started)
        PROVE  BaseInv'
    BY <2>0, <2>7 DEF DoOpenAndConnect
  <2>8. CASE WaitForConnectedCallback
    BY <2>0, <2>8 DEF WaitForConnectedCallback
  <2>9. CASE DoAbort
    BY <2>0, <2>9 DEF DoAbort
  <2>10. CASE RawCheck \/ RawRead \/ DoRead
    BY <2>0, <2>10 DEF RawCheck, RawRead, DoRead
  <2>11. ASSUME NEW wrote, DoSend(pc, wrote) PROVE BaseInv'
    BY <2>0, <2>11 DEF DoSend, After
  <2> QED
    BY <1>1, <2>1, <2>2, <2>3, <2>4, <2>5, <2>6, <2>7, <2>8, <2>9, <2>10, <2>11
       DEF StepStream, Check, Read
<1>2. CASE Network
  <2>1. CASE PeerCloses
    BY <2>1 DEF PeerCloses
  <2>2. ASSUME NEW ok \in BOOLEAN, ConnectedCallback(ok, Destination) PROVE BaseInv'
    BY <2>2 DEF ConnectedCallback, Connecting
  <2>3. ASSUME NEW fin \in BOOLEAN, RecvCallback(fin) PROVE BaseInv'
    BY <2>3 DEF RecvCallback
  <2>4. CASE ErrCallback
    BY <2>4 DEF ErrCallback
  <2> QED
    BY <1>2, <2>1, <2>2, <2>3, <2>4 DEF Network
<1> QED
  BY <1>1, <1>2

LEMMA BaseStep == BaseInv /\ [Next]_vars => BaseInv'
<1> SUFFICES ASSUME BaseInv, [Next]_vars PROVE BaseInv'
  OBVIOUS
<1> USE NoRequestFacts, NoConnFacts, FreshFacts, VersionAssumption
<1> USE DEF BaseInv, TypeInv, ControlInv, SocketInv, Versions, OnStream, IsRaw, OpenCalls,
            SendCalls, Senders, Conns, streamVars, rawVars, datagramVars, resolverVars,
            dnsVars, senderVars, configVars, ghostVars, Wires
<1>1. CASE Configure
  BY <1>1 DEF Configure, ChangeEndpoint, MoveEndpointVersion, ChangeProfile, MoveStreamVersion
<1>2. ASSUME NEW index \in 0 .. 2, NEW r \in Records, Send(index, r) PROVE BaseInv'
  <2> DEFINE requested == RequestedSender(index)
  <2> USE <1>2
  <2>1. requested \in {"null", "stream", "udp"} /\ CurrentSender' = requested
    BY DEF RequestedSender, Send
  <2>2. request' \in Requests
    BY DEF Send, Requests
  <2>3. /\ pc = "idle" /\ pc' = IF requested = "null" THEN "idle" ELSE "reconcile"
        /\ UNCHANGED <<resolverVars, configVars>>
    BY DEF Send
  <2>4. CASE requested = CurrentSender
    <3>1. UNCHANGED <<Wires, senders>>
      BY <2>4 DEF Send, SwitchTo
    <3> QED
      BY <2>1, <2>2, <2>3, <2>4, <3>1
  <2>5. CASE requested # CurrentSender
    <3>1. Disconnect(CurrentSender) /\ senders' = Disconnected(CurrentSender)
      BY <2>5 DEF Send, SwitchTo
    <3>2. /\ senders' \in [{"stream", "udp"} -> Senders]
          /\ ~senders'["stream"].Connected /\ ~senders'["udp"].Connected
      BY <3>1 DEF Disconnected
    <3>3. /\ call' = "idle" /\ conn' \in Conns
          /\ ~Fd' /\ sockets' = 0 /\ ~Socket' /\ datagramSockets' = 0
          /\ UNCHANGED <<platform, refused>>
      BY <2>3, <3>1 DEF Disconnect, CloseStream, ClosePcb, ReleasePcb, CloseSocket, DatagramClose
    <3> QED
      BY <2>1, <2>2, <2>3, <3>2, <3>3
  <2> QED
    BY <2>4, <2>5
<1>3. CASE Reconcile
  BY <1>3 DEF Reconcile, Moved, StreamMoved, Self, ConnectStep, Transmit, IfConnected, Disconnect,
              CloseStream, ClosePcb, ReleasePcb, CloseSocket, DatagramClose
<1>4. CASE StartResolve
  BY <1>4 DEF Requests, StartResolve, ResolveAtOnce, ResolveStart
<1>5. CASE StepResolve
  BY <1>5
     DEF Requests, StepResolve, DoGetHostByName, WaitForCallback, DoPublishResult, FoundCallback
<1>6. CASE ResolveFailed
  BY <1>6 DEF ResolveFailed, DatagramClose, Finish
<1>7. CASE OpenStream
  BY <1>7 DEF Requests, OpenStream, Open
<1>8. CASE StreamOpened
  <2> USE <1>8 DEF StreamOpened, Set, Finish
  <2>1. request' \in Requests
    OBVIOUS
  <2>5. senders' \in [{"stream", "udp"} -> Senders]
    <3>1. CASE call = "opened"
      <4>1. senders' = [senders EXCEPT !["stream"].Connected = TRUE]
        BY <3>1
      <4> QED
        BY <4>1
    <3>2. CASE call = "failed"
      BY <3>2
    <3> QED
      BY <3>1, <3>2
  <2>2. TypeInv'
    BY <2>1, <2>5
  <2>3. ControlInv'
    OBVIOUS
  <2>4. SocketInv'
    OBVIOUS
  <2> QED
    BY <2>2, <2>3, <2>4
<1>9. CASE StartPiece
  BY <1>9 DEF Requests, StartPiece
<1>10. CASE PieceSent
  <2> USE <1>10 DEF PieceSent, Finish, CloseStream, ClosePcb, ReleasePcb, CloseSocket
  <2>1. request' \in Requests
    OBVIOUS
  <2>5. senders' \in [{"stream", "udp"} -> Senders]
    <3>1. CASE call = "sent"
      <4>1. UNCHANGED senders
        BY <3>1
      <4> QED
        BY <4>1
    <3>2. CASE call = "failed"
      <4>1. senders' = [senders EXCEPT !["stream"].Connected = FALSE]
        BY <3>2
      <4> QED
        BY <4>1
    <3> QED
      BY <3>1, <3>2
  <2>2. TypeInv'
    BY <2>1, <2>5
  <2>3. ControlInv'
    OBVIOUS
  <2>4. SocketInv'
    OBVIOUS
  <2> QED
    BY <2>2, <2>3, <2>4
<1>11. CASE \E ok \in BOOLEAN : OpenDatagram(ok)
  BY <1>11 DEF OpenDatagram, DatagramOpen, Finish
<1>12. CASE UdpConnected
  BY <1>12 DEF UdpConnected, Set
<1>13. CASE TransmitDatagram
  <2>1. request' \in Requests
    BY <1>13, TransmitFacts
  <2> QED
    BY <1>13, <2>1, TransmitFacts DEF TransmitDatagram
<1>14. CASE Recreate
  BY <1>14 DEF Recreate, CloseStream, ClosePcb, ReleasePcb, CloseSocket, DatagramClose
<1>15. CASE StepStream \/ Network
  BY <1>15, StreamBaseStep
<1>16. CASE UNCHANGED vars
  BY <1>16 DEF vars
<1> HIDE DEF BaseInv
<1> QED
  BY <1>1, <1>2, <1>3, <1>4, <1>5, <1>6, <1>7, <1>8, <1>9, <1>10, <1>11, <1>12, <1>13, <1>14, <1>15, <1>16
  DEF Next

-----------------------------------------------------------------------------
LEMMA FrameInit == Init => FrameInv
BY NoConnFacts DEF Init, StreamInit, FrameInv, InFrame

LEMMA FrameStep ==
  ASSUME BaseInv, FrameInv, [Next]_vars
  PROVE  FrameInv'
<1> USE NoConnFacts
<1> USE DEF BaseInv, TypeInv, ControlInv, SocketInv, OnStream, IsRaw, FrameInv, InFrame, Conns,
            streamVars, rawVars, Wires, OpenCalls, SendCalls, CloseSocket, ReleasePcb, ClosePcb
<1>1. CASE Configure \/ StartResolve \/ StepResolve \/ UdpConnected
  <2>1. UNCHANGED streamVars
    BY <1>1 DEF Configure, StartResolve, StepResolve, UdpConnected
  <2>2. UNCHANGED pc \/ (pc = "resolve" /\ pc' = "sendTo")
    BY <1>1 DEF Configure, StartResolve, StepResolve, UdpConnected
  <2> QED
    BY <2>1, <2>2
<1>2. ASSUME NEW index \in 0 .. 2, NEW r \in Records, Send(index, r) PROVE FrameInv'
  <2>1. pc = "idle" /\ pc' \in {"idle", "reconcile"}
    BY <1>2 DEF Send
  <2>2. UNCHANGED streamVars \/ (conn' = NoConn /\ ~Fd')
    BY <1>2 DEF Send, SwitchTo, Disconnect, CloseStream
  <2> QED
    BY <2>1, <2>2
<1>3. CASE Reconcile
  <2>1. pc = "reconcile" /\ pc' \in {"count", "sendTo", "resolve", "openDatagram"}
    BY <1>3 DEF Reconcile, ConnectStep, Transmit, IfConnected
  <2>2. UNCHANGED streamVars \/ (conn' = NoConn /\ ~Fd')
    BY <1>3 DEF Reconcile, Disconnect, CloseStream
  <2>3. call = "idle" /\ call' = "idle"
    BY <1>3, <2>1 DEF Reconcile, Disconnect, CloseStream
  <2> QED
    BY <2>1, <2>2, <2>3
<1>4. CASE ResolveFailed \/ (\E ok \in BOOLEAN : OpenDatagram(ok)) \/ TransmitDatagram
  <2>1. pc \notin {"count", "record"} /\ pc' \notin {"count", "record"} /\ UNCHANGED streamVars
    BY <1>4, TransmitFacts DEF ResolveFailed, OpenDatagram, TransmitDatagram, Finish
  <2> QED
    BY <2>1
<1>5. CASE OpenStream
  BY <1>5 DEF OpenStream, Open
<1>6. CASE StreamOpened
  BY <1>6 DEF StreamOpened, Finish
<1>7. CASE StartPiece
  BY <1>7 DEF StartPiece
<1>8. CASE PieceSent
  BY <1>8 DEF PieceSent, Finish, CloseStream
<1>9. CASE Recreate
  BY <1>9 DEF Recreate, CloseStream
<1>10. CASE StepStream
  <2>0. pc \in {"opening", "count", "record"} /\ UNCHANGED pc
    BY <1>10 DEF StepStream
  <2>1. ASSUME NEW failing, ~IsRaw, TakeSocket(failing) PROVE FrameInv'
    BY <2>0, <2>1 DEF TakeSocket
  <2>2. ASSUME NEW answer, ~IsRaw, Connect(answer, Destination) PROVE FrameInv'
    BY <2>0, <2>2 DEF Connect, Attempted
  <2>3. ASSUME NEW answer, ~IsRaw, WaitForConnectCompletion(answer, Destination) PROVE FrameInv'
    BY <2>0, <2>3 DEF WaitForConnectCompletion, Attempted
  <2>4. ASSUME NEW answer, ~IsRaw, Check(answer) PROVE FrameInv'
    BY <2>0, <2>4 DEF Check
  <2>5. ASSUME NEW answer \in RecvAnswers, ~IsRaw, Read(answer) PROVE FrameInv'
    BY <2>0, <2>5, ReadFacts DEF Hidden
  <2>6. ASSUME NEW wrote, ~IsRaw, Write(pc, wrote) PROVE FrameInv'
    BY <2>0, <2>6 DEF Write, After
  <2>7. ASSUME NEW created \in BOOLEAN, NEW started \in BOOLEAN, DoOpenAndConnect(created, started)
        PROVE  FrameInv'
    BY <2>0, <2>7 DEF DoOpenAndConnect
  <2>8. CASE WaitForConnectedCallback \/ DoAbort
    BY <2>0, <2>8 DEF WaitForConnectedCallback, DoAbort
  <2>9. CASE RawCheck \/ RawRead \/ DoRead
    BY <2>0, <2>9 DEF RawCheck, RawRead, DoRead
  <2>10. ASSUME NEW wrote, DoSend(pc, wrote) PROVE FrameInv'
    BY <2>0, <2>10 DEF DoSend, After
  <2> QED
    BY <1>10, <2>1, <2>2, <2>3, <2>4, <2>5, <2>6, <2>7, <2>8, <2>9, <2>10 DEF StepStream, Read
<1>11. CASE Network
  <2>0. UNCHANGED pc
    BY <1>11 DEF Network
  <2>1. CASE PeerCloses
    BY <2>0, <2>1 DEF PeerCloses
  <2>2. ASSUME NEW ok \in BOOLEAN, ConnectedCallback(ok, Destination) PROVE FrameInv'
    BY <2>0, <2>2 DEF ConnectedCallback, Connecting
  <2>3. ASSUME NEW fin \in BOOLEAN, RecvCallback(fin) PROVE FrameInv'
    BY <2>0, <2>3 DEF RecvCallback
  <2>4. CASE ErrCallback
    BY <2>0, <2>4 DEF ErrCallback
  <2> QED
    BY <1>11, <2>1, <2>2, <2>3, <2>4 DEF Network
<1>12. CASE UNCHANGED vars
  BY <1>12 DEF vars
<1> HIDE DEF FrameInv
<1> QED
  BY <1>1, <1>2, <1>3, <1>4, <1>5, <1>6, <1>7, <1>8, <1>9, <1>10, <1>11, <1>12 DEF Next

-----------------------------------------------------------------------------
LEMMA ConnInit == Init => ConnInv
BY NoConnFacts DEF Init, StreamInit, RawInit, ConnInv

LEMMA ConnStep ==
  ASSUME BaseInv, ConnInv, [Next]_vars
  PROVE  ConnInv'
<1> USE NoConnFacts
<1> USE DEF BaseInv, TypeInv, ControlInv, SocketInv, OnStream, IsRaw, ConnInv, Conns,
            streamVars, rawVars, Wires, OpenCalls, SendCalls, CloseSocket, ReleasePcb, ClosePcb
<1>1. CASE Configure \/ StartResolve \/ StepResolve \/ UdpConnected
  <2>1. UNCHANGED <<streamVars, rawVars>>
    BY <1>1 DEF Configure, StartResolve, StepResolve, UdpConnected
  <2>2. UNCHANGED pc \/ (pc = "resolve" /\ pc' = "sendTo")
    BY <1>1 DEF Configure, StartResolve, StepResolve, UdpConnected
  <2> QED
    BY <2>1, <2>2
<1>2. ASSUME NEW index \in 0 .. 2, NEW r \in Records, Send(index, r) PROVE ConnInv'
  <2>1. pc = "idle" /\ pc' \in {"idle", "reconcile"}
    BY <1>2 DEF Send
  <2>2. \/ UNCHANGED <<streamVars, rawVars>>
        \/ conn' = NoConn /\ ~Fd' /\ call' = "idle" /\ UNCHANGED <<platform, Errored>>
    BY <1>2 DEF Send, SwitchTo, Disconnect, CloseStream
  <2> QED
    BY <2>1, <2>2
<1>3. CASE Reconcile
  <2>1. pc = "reconcile" /\ pc' \in {"count", "sendTo", "resolve", "openDatagram"}
    BY <1>3 DEF Reconcile, ConnectStep, Transmit, IfConnected
  <2>2. \/ UNCHANGED <<streamVars, rawVars>>
        \/ conn' = NoConn /\ ~Fd' /\ call' = "idle" /\ UNCHANGED <<platform, Errored>>
    BY <1>3 DEF Reconcile, Disconnect, CloseStream
  <2> QED
    BY <2>1, <2>2
<1>4. CASE ResolveFailed \/ (\E ok \in BOOLEAN : OpenDatagram(ok)) \/ TransmitDatagram
  <2>1. /\ pc \notin {"opening", "count", "record"} /\ pc' \notin {"opening", "count", "record"}
        /\ UNCHANGED <<streamVars, rawVars>>
    BY <1>4, TransmitFacts DEF ResolveFailed, OpenDatagram, TransmitDatagram, Finish
  <2> QED
    BY <2>1
<1>5. CASE OpenStream
  BY <1>5 DEF OpenStream, Open
<1>6. CASE StreamOpened
  BY <1>6 DEF StreamOpened, Finish
<1>7. CASE StartPiece
  BY <1>7 DEF StartPiece
<1>8. CASE PieceSent
  BY <1>8 DEF PieceSent, Finish, CloseStream
<1>9. CASE Recreate
  BY <1>9 DEF Recreate, CloseStream
<1>10. CASE StepStream
  <2>0. pc \in {"opening", "count", "record"} /\ UNCHANGED pc
    BY <1>10 DEF StepStream
  <2>1. ASSUME NEW failing, ~IsRaw, TakeSocket(failing) PROVE ConnInv'
    BY <2>0, <2>1 DEF TakeSocket
  <2>2. ASSUME NEW answer, ~IsRaw, Connect(answer, Destination) PROVE ConnInv'
    BY <2>0, <2>2 DEF Connect, Attempted
  <2>3. ASSUME NEW answer, ~IsRaw, WaitForConnectCompletion(answer, Destination) PROVE ConnInv'
    BY <2>0, <2>3 DEF WaitForConnectCompletion, Attempted
  <2>4. ASSUME NEW answer, ~IsRaw, Check(answer) PROVE ConnInv'
    BY <2>0, <2>4 DEF Check
  <2>5. ASSUME NEW answer \in RecvAnswers, ~IsRaw, Read(answer) PROVE ConnInv'
    BY <2>0, <2>5, ReadFacts DEF Hidden
  <2>6. ASSUME NEW wrote, ~IsRaw, Write(pc, wrote) PROVE ConnInv'
    BY <2>0, <2>6 DEF Write
  <2>7. ASSUME NEW created \in BOOLEAN, NEW started \in BOOLEAN, DoOpenAndConnect(created, started)
        PROVE  ConnInv'
    BY <2>0, <2>7 DEF DoOpenAndConnect
  <2>8. CASE WaitForConnectedCallback \/ DoAbort
    BY <2>0, <2>8 DEF WaitForConnectedCallback, DoAbort
  <2>9. CASE RawCheck \/ RawRead \/ DoRead
    BY <2>0, <2>9 DEF RawCheck, RawRead, DoRead
  <2>10. ASSUME NEW wrote, DoSend(pc, wrote) PROVE ConnInv'
    BY <2>0, <2>10 DEF DoSend
  <2> QED
    BY <1>10, <2>1, <2>2, <2>3, <2>4, <2>5, <2>6, <2>7, <2>8, <2>9, <2>10 DEF StepStream, Read
<1>11. CASE Network
  <2>0. UNCHANGED pc
    BY <1>11 DEF Network
  <2>1. CASE ~IsRaw /\ PeerCloses
    BY <2>0, <2>1 DEF PeerCloses, Hidden
  <2>2. ASSUME NEW ok \in BOOLEAN, ConnectedCallback(ok, Destination) PROVE ConnInv'
    BY <2>0, <2>2 DEF ConnectedCallback, Connecting
  <2>3. ASSUME NEW fin \in BOOLEAN, RecvCallback(fin) PROVE ConnInv'
    BY <2>0, <2>3 DEF RecvCallback
  <2>4. CASE ErrCallback
    BY <2>0, <2>4 DEF ErrCallback
  <2> QED
    BY <1>11, <2>1, <2>2, <2>3, <2>4 DEF Network
<1>12. CASE UNCHANGED vars
  BY <1>12 DEF vars
<1> HIDE DEF ConnInv
<1> QED
  BY <1>1, <1>2, <1>3, <1>4, <1>5, <1>6, <1>7, <1>8, <1>9, <1>10, <1>11, <1>12 DEF Next

-----------------------------------------------------------------------------
LEMMA HopResolved ==
  ASSUME BaseInv, HandedOverInv, NEW said, NEW path, NEW length,
         SendTo(platform, length, Address, path, said, "SENT")
  PROVE  ~DroppedByStack(said)
<1>1. ResolveNextHop(platform, Address, said.hop)
  BY DEF SendTo
<1>2. Address # NoDestination
  BY VersionAssumption DEF BaseInv, TypeInv, Versions
<1> QED
  BY <1>1, <1>2 DEF ResolveNextHop, DroppedByStack, HandedOverInv

LEMMA HandedOverInit == Init => HandedOverInv
BY NoRequestFacts DEF Init, DatagramInit, HandedOverInv

LEMMA HandedOverStep ==
  ASSUME BaseInv, ConnInv, HandedOverInv, [Next]_vars
  PROVE  HandedOverInv'
<1> USE NoConnFacts, NoRequestFacts
<1> USE DEF BaseInv, TypeInv, ControlInv, SocketInv, OnStream, IsRaw, ConnInv, HandedOverInv, Conns, Hidden,
            CloseCanBeSeen,
            streamVars, rawVars, datagramVars, ghostVars, Wires, OpenCalls, SendCalls,
            CloseSocket, ReleasePcb, ClosePcb, DatagramClose
<1>1. CASE Configure \/ StartResolve \/ StepResolve \/ UdpConnected
  <2>1. /\ UNCHANGED <<streamVars, secure, datagramVars, lost>>
        /\ request'.gone = request.gone
    BY <1>1 DEF Requests, Configure, StartResolve, StepResolve, UdpConnected
  <2>2. UNCHANGED pc \/ (pc = "resolve" /\ pc' = "sendTo")
    BY <1>1 DEF Configure, StartResolve, StepResolve, UdpConnected
  <2> QED
    BY <2>1, <2>2
<1>2. ASSUME NEW index \in 0 .. 2, NEW r \in Records, Send(index, r) PROVE HandedOverInv'
  <2>1. ~request'.gone
    BY <1>2 DEF Send, Requests
  <2>2. UNCHANGED <<OffSubnetDestination, lost>>
    BY <1>2 DEF Send, SwitchTo, Disconnect
  <2> QED
    BY <2>1, <2>2
<1>3. CASE Reconcile
  <2>1. ~request'.gone
    BY <1>3 DEF Reconcile
  <2>2. UNCHANGED <<OffSubnetDestination, lost>>
    BY <1>3 DEF Reconcile, Disconnect
  <2> QED
    BY <2>1, <2>2
<1>4. CASE ResolveFailed \/ (\E ok \in BOOLEAN : OpenDatagram(ok))
  <2>1. ~request'.gone
    BY <1>4 DEF ResolveFailed, OpenDatagram, Finish
  <2>2. UNCHANGED <<OffSubnetDestination, lost>>
    BY <1>4 DEF ResolveFailed, OpenDatagram, DatagramOpen
  <2> QED
    BY <2>1, <2>2
<1>5. CASE TransmitDatagram
  <2>1. ~request'.gone
    BY <1>5, TransmitFacts
  <2>2. OffSubnetDestination' \in OffSubnet \cup {NoDestination}
    BY <1>5, TransmitFacts
  <2>3. ~lost'
    BY <1>5, TransmitFacts, HopResolved DEF Sent
  <2> QED
    BY <2>1, <2>2, <2>3
<1>6. CASE OpenStream
  BY <1>6 DEF OpenStream, Requests
<1>7. CASE StreamOpened
  BY <1>7 DEF StreamOpened, Finish
<1>8. CASE StartPiece
  BY <1>8 DEF StartPiece, Requests
<1>9. CASE PieceSent
  BY <1>9 DEF PieceSent, Finish
<1>10. CASE Recreate
  BY <1>10 DEF Recreate
<1>11. CASE StepStream
  <2>0. pc \in {"opening", "count", "record"} /\ UNCHANGED <<pc, request, secure, datagramVars, lost>>
    BY <1>11 DEF StepStream
  <2>1. ASSUME NEW failing, ~IsRaw, TakeSocket(failing) PROVE HandedOverInv'
    BY <2>0, <2>1 DEF TakeSocket
  <2>2. ASSUME NEW answer, ~IsRaw, Connect(answer, Destination) PROVE HandedOverInv'
    BY <2>0, <2>2 DEF Connect, Attempted
  <2>3. ASSUME NEW answer, ~IsRaw, WaitForConnectCompletion(answer, Destination) PROVE HandedOverInv'
    BY <2>0, <2>3 DEF WaitForConnectCompletion, Attempted
  <2>4. ASSUME NEW answer, ~IsRaw, Check(answer) PROVE HandedOverInv'
    BY <2>0, <2>4, PlatformsAssumption
    DEF Check, RecvAnswers, PeerIsStillThere, SendPosix, SendWinsock, SendLwipSocket, SendVxWorks64
  <2>5. ASSUME NEW answer \in RecvAnswers, ~IsRaw, Read(answer) PROVE HandedOverInv'
    <3>1. ReadAnswers[answer] \in {"data", "nothing", "closed"}
      BY <2>5, ReadAnswersFacts
    <3>2. conn.peer \in {"none", "gone"} => ReadAnswers[answer] = "closed"
      BY <2>5, PlatformsAssumption DEF RecvAnswers, ReadAnswers, ReadPosix, ReadWinsock,
         ReadLwipSocket, ReadVxWorks64, ReadPlusTcp
    <3>3. conn.peer \in Hidden => ReadAnswers[answer] \in {"data", "closed"}
      BY <2>5, PlatformsAssumption DEF RecvAnswers, ReadAnswers, ReadPosix, ReadWinsock,
         ReadLwipSocket, ReadVxWorks64, ReadPlusTcp, Hidden
    <3>4. \/ conn.peer = "up" /\ UNCHANGED conn
          \/ call' = "failed" /\ CloseSocket
          \/ conn.peer \in Hidden /\ ReadOn
      BY <2>5, <3>1, <3>2, <3>3 DEF Read, ReadOn
    <3>5. UNCHANGED platform /\ call = "Read"
      BY <2>5 DEF Read
    <3>6. CASE conn.peer \in Hidden /\ ReadOn
      BY <2>0, <3>5, <3>6 DEF ReadOn
    <3> QED
      BY <2>0, <3>4, <3>5, <3>6
  <2>6. ASSUME NEW wrote, ~IsRaw, Write(pc, wrote) PROVE HandedOverInv'
    BY <2>0, <2>6 DEF Write, SendAnswers
  <2>7. ASSUME NEW created \in BOOLEAN, NEW started \in BOOLEAN, DoOpenAndConnect(created, started)
        PROVE  HandedOverInv'
    BY <2>0, <2>7 DEF DoOpenAndConnect
  <2>8. CASE WaitForConnectedCallback \/ DoAbort
    BY <2>0, <2>8 DEF WaitForConnectedCallback, DoAbort
  <2>9. CASE RawCheck
    BY <2>0, <2>9 DEF RawCheck
  <2>10. CASE RawRead
    BY <2>0, <2>10 DEF RawRead
  <2>11. CASE DoRead
    BY <2>0, <2>11 DEF DoRead
  <2>12. ASSUME NEW wrote, DoSend(pc, wrote) PROVE HandedOverInv'
    BY <2>0, <2>12 DEF DoSend
  <2> QED
    BY <1>11, <2>1, <2>2, <2>3, <2>4, <2>5, <2>6, <2>7, <2>8, <2>9, <2>10, <2>11, <2>12
       DEF StepStream, Read
<1>12. CASE Network
  <2>0. UNCHANGED <<pc, request, secure, datagramVars, lost>>
    BY <1>12 DEF Network
  <2>1. CASE ~IsRaw /\ PeerCloses
    BY <2>0, <2>1 DEF PeerCloses
  <2>2. ASSUME NEW ok \in BOOLEAN, ConnectedCallback(ok, Destination) PROVE HandedOverInv'
    BY <2>0, <2>2 DEF ConnectedCallback, Connecting
  <2>3. ASSUME NEW fin \in BOOLEAN, RecvCallback(fin) PROVE HandedOverInv'
    BY <2>0, <2>3 DEF RecvCallback
  <2>4. CASE ErrCallback
    BY <2>0, <2>4 DEF ErrCallback
  <2> QED
    BY <1>12, <2>1, <2>2, <2>3, <2>4 DEF Network
<1>13. CASE UNCHANGED vars
  BY <1>13 DEF vars
<1> HIDE DEF HandedOverInv
<1> QED
  BY <1>1, <1>2, <1>3, <1>4, <1>5, <1>6, <1>7, <1>8, <1>9, <1>10, <1>11, <1>12, <1>13 DEF Next

-----------------------------------------------------------------------------
LEMMA OutageStep == OutageInv /\ [Next]_vars => OutageInv'
<1> SUFFICES ASSUME OutageInv, [Next]_vars PROVE OutageInv'
  OBVIOUS
<1> USE DEF OutageInv
<1>1. ASSUME NEW detail, ReportFailure(detail) PROVE OutageInv'
  BY <1>1 DEF ReportFailure
<1>2. CASE Opened
  BY <1>2 DEF Opened
<1>3. CASE UNCHANGED <<Failing, told, cause>>
  BY <1>3
<1>4. CASE StepStream
  <2>1. ASSUME NEW verdict, Attempted(verdict, Destination) PROVE OutageInv'
    BY <1>1, <1>2, <2>1 DEF Attempted
  <2>2. ASSUME NEW failing, TakeSocket(failing) PROVE OutageInv'
    BY <1>1, <2>2 DEF TakeSocket
  <2>3. ASSUME NEW created \in BOOLEAN, NEW started \in BOOLEAN, DoOpenAndConnect(created, started)
        PROVE  OutageInv'
    BY <1>1, <2>3 DEF DoOpenAndConnect
  <2>4. CASE DoAbort
    BY <1>1, <2>4 DEF DoAbort
  <2>5. CASE WaitForConnectedCallback
    BY <1>2, <2>5 DEF WaitForConnectedCallback
  <2>6. CASE UNCHANGED <<Failing, told, cause>>
    BY <2>6
  <2> QED
    BY <1>4, <2>1, <2>2, <2>3, <2>4, <2>5, <2>6
    DEF StepStream, Connect, WaitForConnectCompletion, Check, Read, Write, RawCheck, DoSend, RawRead, DoRead
<1>5. CASE ~StepStream
  <2>1. UNCHANGED <<Failing, told, cause>>
    BY <1>5
       DEF Next, vars, Configure, Send, SwitchTo, Reconcile, StartResolve, StepResolve, ResolveFailed,
      OpenStream, Open, Network, PeerCloses, ConnectedCallback, RecvCallback, ErrCallback, StreamOpened,
      StartPiece, PieceSent, OpenDatagram, UdpConnected, TransmitDatagram, Recreate, Disconnect,
      CloseStream, streamVars, Wires
  <2> QED
    BY <2>1
<1> QED
  BY <1>4, <1>5

-----------------------------------------------------------------------------
(* The payload of a datagram.                                              *)
LEMMA LastStart ==
  ASSUME NEW r \in Records, NEW length \in 1 .. Len(r)
  PROVE  LET start == FindLastCodepointStart(r, length)
         IN  /\ start \in 1 .. length /\ r[start] # "c"
             /\ \A j \in start + 1 .. length : r[j] = "c"
<1> DEFINE S == {1} \cup {i \in 1 .. length : r[i] # "c"}
<1>0. r \in Seq({"1", "2", "3", "4", "c"}) /\ IsUtf8(r) /\ length \in DOMAIN r
  BY RecordsAssumption
<1>1. PICK start \in 1 .. length : /\ r[start] # "c"
                                  /\ \A j \in start + 1 .. length : r[j] = "c"
  BY <1>0 DEF IsUtf8
<1>2. r[1] # "c"
  <2>1. 1 \in DOMAIN r
    BY <1>0
  <2> QED
    BY <1>0, <2>1 DEF IsUtf8
<1>3. start \in S /\ \A i \in S : start >= i
  BY <1>1
<1>4. Max(S) = start
  BY <1>1, <1>3 DEF Max
<1> QED
  BY <1>1, <1>4 DEF FindLastCodepointStart

\* What is left of a record does not stop before a continuation byte.
LEMMA TrimKeepsCodepoints ==
  ASSUME NEW r \in Records, NEW length \in 0 .. Len(r)
  PROVE  LET end == TrimToCodepointBoundary(r, length)
         IN  end \in 0 .. length /\ (end < Len(r) => r[end + 1] # "c")
<1> DEFINE start == FindLastCodepointStart(r, length)
<1>0. r \in Seq({"1", "2", "3", "4", "c"}) /\ IsUtf8(r)
  BY RecordsAssumption
<1>1. CASE length = 0
  <2>1. 1 \in DOMAIN r => r[1] # "c"
    BY <1>0 DEF IsUtf8
  <2> QED
    BY <1>0, <1>1, <2>1 DEF TrimToCodepointBoundary
<1>2. CASE length # 0
  <2>1. /\ start \in 1 .. length /\ r[start] # "c"
        /\ \A j \in start + 1 .. length : r[j] = "c"
    BY <1>2, LastStart
  <2>2. ExpectedSequenceLength(r[start]) \in 1 .. 4
    BY DEF ExpectedSequenceLength
  <2> DEFINE e == ExpectedSequenceLength(r[start])
  <2>3. CASE (start - 1) + e > length
    <3>1. TrimToCodepointBoundary(r, length) = start - 1
      BY <1>2, <2>3 DEF TrimToCodepointBoundary
    <3> QED
      BY <2>1, <3>1
  <2>4. CASE ~((start - 1) + e > length)
    <3>1. TrimToCodepointBoundary(r, length) = length
      BY <1>2, <2>4 DEF TrimToCodepointBoundary
    <3>2. ASSUME length < Len(r), r[length + 1] = "c" PROVE FALSE
      <4>1. length + 1 \in DOMAIN r
        BY <1>0, <3>2
      <4>2. PICK k \in 1 .. length + 1 :
              /\ r[k] # "c"
              /\ length + 1 < k + ExpectedSequenceLength(r[k])
              /\ \A j \in k + 1 .. length + 1 : r[j] = "c"
        BY <1>0, <4>1 DEF IsUtf8
      <4>3. k = start
        BY <2>1, <3>2, <4>2
      <4> QED
        BY <2>1, <2>2, <2>4, <4>2, <4>3
    <3> QED
      BY <3>1, <3>2
  <2> QED
    BY <2>3, <2>4
<1> QED
  BY <1>1, <1>2

LEMMA SentIsWhole ==
  ASSUME BaseInv, NEW said, NEW path \in Paths,
         NEW length \in {Len(request.record), Trimmed(path, said)}
  PROVE  ~EndsInside(length)
<1> DEFINE r == request.record
           most == MaxPayload(platform, path, said.answered)
<1>1. r \in Records /\ r \in Seq({"1", "2", "3", "4", "c"})
  BY RecordsAssumption DEF BaseInv, TypeInv, Requests
<1>2. most \in Nat
  BY PathsAssumption, PayloadAssumption
  DEF MaxPayload, MaxPayloadPosix, MaxPayloadWinsock, StatedPayload, FromMtu
<1>3. Min({Len(r), most}) \in 0 .. Len(r)
  <2>1. Len(r) \in Nat
    BY <1>1
  <2>2. Min({Len(r), most}) = IF Len(r) <= most THEN Len(r) ELSE most
    BY <1>2, <2>1 DEF Min
  <2> QED
    BY <1>2, <2>1, <2>2
<1>4. CASE length = Len(r)
  BY <1>1, <1>4 DEF EndsInside
<1>5. CASE length = Trimmed(path, said)
  BY <1>1, <1>3, <1>5, TrimKeepsCodepoints DEF EndsInside, Trimmed
<1> QED
  BY <1>4, <1>5

LEMMA CutStep ==
  ASSUME BaseInv, ~cut, [Next]_vars
  PROVE  ~cut'
<1>1. CASE TransmitDatagram
  BY <1>1, TransmitFacts, SentIsWhole DEF Sent, ghostVars
<1>2. CASE ~TransmitDatagram
  BY <1>2 DEF Next, vars, Configure, Send, Reconcile, StartResolve, StepResolve, ResolveFailed,
      OpenStream, StepStream, Network, StreamOpened, StartPiece, PieceSent, OpenDatagram, UdpConnected,
      Recreate, ghostVars
<1> QED
  BY <1>1, <1>2

-----------------------------------------------------------------------------
(* The versions.                                                           *)
LEMMA CurrentInit == Init => CurrentInv
BY NoRequestFacts, NoConnFacts, FreshFacts, VersionAssumption
DEF Init, StreamInit, ResolverInit, CurrentInv, VersionInv, DestinationInv

LEMMA VersionStep ==
  ASSUME BaseInv, VersionInv, [Next]_vars
  PROVE  VersionInv'
<1> USE NoRequestFacts, FreshFacts, VersionAssumption
<1> USE DEF BaseInv, TypeInv, ControlInv, OnStream, VersionInv, Versions, Senders, configVars, senderVars
<1>1. CASE Configure
  BY <1>1
     DEF Configure, ChangeEndpoint, MoveEndpointVersion, ChangeProfile, MoveStreamVersion, Requests
<1>2. ASSUME NEW index \in 0 .. 2, NEW r \in Records, Send(index, r) PROVE VersionInv'
  <2>1. /\ pc' \in {"idle", "reconcile"} /\ UNCHANGED configVars
        /\ request'.endpoint <= EndpointVersion /\ request'.profile <= StreamVersion
    BY <1>2 DEF Send, Requests
  <2>2. senders' \in {senders, Disconnected(CurrentSender)}
    BY <1>2 DEF Send, SwitchTo
  <2>3. \A s \in {"stream", "udp"} :
          /\ senders'[s].LastEndpointVersion = senders[s].LastEndpointVersion
          /\ senders'[s].LastStreamVersion = senders[s].LastStreamVersion
    BY <2>2 DEF Disconnected
  <2> QED
    BY <2>1, <2>3
<1>3. CASE Reconcile
  BY <1>3 DEF Reconcile, Moved, StreamMoved, Self, ConnectStep, Transmit, IfConnected, Requests
<1>4. CASE StartResolve
  BY <1>4 DEF StartResolve, Requests
<1>5. CASE StepResolve \/ StepStream \/ Network
  BY <1>5 DEF StepResolve, StepStream, Network
<1>6. CASE ResolveFailed
  BY <1>6 DEF ResolveFailed, Finish
<1>7. CASE OpenStream
  BY <1>7 DEF OpenStream, Requests
<1>8. CASE StreamOpened
  <2>1. CASE call = "opened"
    <3>1. senders' = [senders EXCEPT !["stream"].Connected = TRUE]
      BY <1>8, <2>1 DEF StreamOpened, Set
    <3> QED
      BY <1>8, <2>1, <3>1 DEF StreamOpened
  <2>2. CASE call # "opened"
    BY <1>8, <2>2 DEF StreamOpened, Finish
  <2> QED
    BY <2>1, <2>2
<1>9. CASE StartPiece
  BY <1>9 DEF StartPiece, Requests
<1>10. CASE PieceSent
  BY <1>10 DEF PieceSent, Finish
<1>11. CASE \E ok \in BOOLEAN : OpenDatagram(ok)
  BY <1>11 DEF OpenDatagram, Finish
<1>12. CASE UdpConnected
  BY <1>12 DEF UdpConnected, Set
<1>13. CASE TransmitDatagram
  BY <1>13, TransmitFacts DEF TransmitDatagram
<1>14. CASE Recreate
  BY <1>14 DEF Recreate, Requests
<1>15. CASE UNCHANGED vars
  BY <1>15 DEF vars
<1> HIDE DEF VersionInv
<1> QED
  BY <1>1, <1>2, <1>3, <1>4, <1>5, <1>6, <1>7, <1>8, <1>9, <1>10, <1>11, <1>12, <1>13, <1>14, <1>15
  DEF Next

\* On a platform whose resolver answers at once.
LEMMA DestinationStep ==
  ASSUME BaseInv, ConnInv, VersionInv, DestinationInv, platform # "LwipRawDns", [Next]_vars
  PROVE  DestinationInv'
<1> USE NoConnFacts, FreshFacts, VersionAssumption
<1> USE DEF BaseInv, TypeInv, ControlInv, SocketInv, OnStream, ConnInv, VersionInv, DestinationInv,
            Versions, Senders, Conns, streamVars, senderVars, configVars, ghostVars, Wires,
            CloseSocket, ReleasePcb, ClosePcb
<1>1. CASE Configure
  BY <1>1 DEF Configure, resolverVars
<1>2. ASSUME NEW index \in 0 .. 2, NEW r \in Records, Send(index, r) PROVE DestinationInv'
  <2>1. /\ pc = "idle" /\ pc' \in {"idle", "reconcile"}
        /\ UNCHANGED <<resolving, Address, outdated>>
        /\ conn' \in {conn, NoConn}
    BY <1>2 DEF Send, SwitchTo, Disconnect, CloseStream, resolverVars
  <2>2. \/ UNCHANGED <<senders, CurrentSender>>
        \/ senders' = Disconnected(CurrentSender)
    BY <1>2 DEF Send, SwitchTo
  <2>3. \A s \in {"stream", "udp"} :
          /\ senders'[s].LastEndpointVersion = senders[s].LastEndpointVersion
          /\ senders'[s].LastStreamVersion = senders[s].LastStreamVersion
    BY <2>2 DEF Disconnected
  <2>4. senders'["udp"].Connected => UNCHANGED <<senders, CurrentSender>>
    BY <2>2 DEF Disconnected
  <2> QED
    BY <2>1, <2>3, <2>4
<1>3. CASE Reconcile
  <2>1. /\ pc = "reconcile" /\ pc' \in {"count", "sendTo", "resolve", "openDatagram"}
        /\ UNCHANGED <<CurrentSender, resolving, Address, outdated>>
    BY <1>3 DEF Reconcile, ConnectStep, Transmit, IfConnected, resolverVars
  <2>2. CASE ~Moved
    BY <1>3, <2>1, <2>2 DEF Reconcile
  <2>3. CASE Moved
    <3>1. ~senders'["udp"].Connected
      BY <1>3, <2>1, <2>3 DEF Reconcile
    <3>2. CASE CurrentSender = "stream"
      <4>1. conn' = NoConn
        BY <1>3, <2>1, <2>3, <3>2 DEF Reconcile, Disconnect, CloseStream
      <4> QED
        BY <2>1, <3>1, <4>1
    <3>3. CASE CurrentSender = "udp"
      <4>1. UNCHANGED conn /\ senders'["stream"] = senders["stream"]
        BY <1>3, <2>3, <3>3 DEF Reconcile, Disconnect
      <4> QED
        BY <2>1, <3>1, <4>1
    <3> QED
      BY <2>1, <3>2, <3>3
  <2> QED
    BY <2>2, <2>3
<1>4. CASE StartResolve
  BY <1>4 DEF StartResolve, ResolveAtOnce, ResolveStart
<1>5. CASE StepResolve
  BY <1>5 DEF StepResolve, DoGetHostByName, WaitForCallback, DoPublishResult, FoundCallback
<1>6. CASE ResolveFailed
  BY <1>6 DEF ResolveFailed, Finish
<1>7. CASE OpenStream
  BY <1>7 DEF OpenStream, Open
<1>8. CASE StreamOpened
  <2>1. CASE call = "opened"
    <3>1. senders' = [senders EXCEPT !["stream"].Connected = TRUE]
      BY <1>8, <2>1 DEF StreamOpened, Set
    <3> QED
      BY <1>8, <2>1, <3>1 DEF StreamOpened, resolverVars
  <2>2. CASE call # "opened"
    BY <1>8, <2>2 DEF StreamOpened, Finish, resolverVars
  <2> QED
    BY <2>1, <2>2
<1>9. CASE StartPiece
  BY <1>9 DEF StartPiece, resolverVars
<1>10. CASE PieceSent
  <2>1. CASE call = "sent"
    <3>1. ~outdated'
      BY <1>10, <2>1 DEF PieceSent, NotForCurrent, Requests
    <3> QED
      BY <1>10, <2>1, <3>1 DEF PieceSent, Finish, resolverVars
  <2>2. CASE call = "failed"
    BY <1>10, <2>2 DEF PieceSent, CloseStream, resolverVars
  <2> QED
    BY <1>10, <2>1, <2>2 DEF PieceSent
<1>11. CASE \E ok \in BOOLEAN : OpenDatagram(ok)
  BY <1>11 DEF OpenDatagram, Finish, resolverVars
<1>12. CASE UdpConnected
  BY <1>12 DEF UdpConnected, Set
<1>13. CASE TransmitDatagram
  <2>0. Address >= request.endpoint
    <3>1. CurrentSender = "udp" /\ senders["udp"].Connected /\ pc \notin {"idle", "reconcile"}
      BY <1>13, TransmitFacts
    <3> QED
      BY <3>1 DEF Requests
  <2>1. ~outdated'
    <3>1. request.endpoint \in Versions
      BY DEF Requests
    <3>2. ~(Address < request.endpoint)
      BY <2>0, <3>1
    <3>3. UNCHANGED outdated \/ outdated' = (outdated \/ Address < request.endpoint)
      BY <1>13, TransmitFacts DEF Sent
    <3> QED
      BY <3>2, <3>3
  <2> QED
    BY <1>13, <2>1, TransmitFacts DEF TransmitDatagram, resolverVars
<1>14. CASE Recreate
  BY <1>14 DEF Recreate, CloseStream, resolverVars
<1>15. CASE StepStream
  <2>0. /\ pc \in {"opening", "count", "record"}
        /\ UNCHANGED <<pc, request, senders, CurrentSender, resolving, Address, outdated>>
    BY <1>15 DEF StepStream, resolverVars
  <2>1. \/ conn' = NoConn
        \/ UNCHANGED conn
        \/ pc = "opening" /\ conn'.to = Destination
        \/ conn'.to = conn.to /\ conn'.peer = conn.peer
        \/ conn'.to = conn.to /\ conn.peer \in Hidden
    <3>1. ASSUME NEW answer \in RecvAnswers, ~IsRaw, Read(answer)
          PROVE  conn' \in {conn, NoConn} \/ (conn'.to = conn.to /\ conn.peer \in Hidden)
      BY <3>1, ReadFacts DEF CloseSocket
    <3>2. ASSUME NEW verdict, Attempted(verdict, Destination)
          PROVE  UNCHANGED conn \/ conn'.to = Destination
      BY <3>2 DEF Attempted
    <3>3. ASSUME NEW piece, NEW wrote, Write(piece, wrote) \/ DoSend(piece, wrote)
          PROVE  conn' = NoConn \/ (conn'.to = conn.to /\ conn'.peer = conn.peer)
      BY <3>3 DEF Write, DoSend
    <3>4. ASSUME NEW answer, Connect(answer, Destination) \/ WaitForConnectCompletion(answer, Destination)
          PROVE  pc = "opening" /\ (UNCHANGED conn \/ conn'.to = Destination)
      BY <2>0, <3>2, <3>4 DEF Connect, WaitForConnectCompletion, SendCalls
    <3>5. CASE conn' \in {conn, NoConn}
      BY <3>5
    <3> QED
      BY <1>15, <3>1, <3>3, <3>4, <3>5 DEF StepStream, TakeSocket, Check, Read,
         DoOpenAndConnect, WaitForConnectedCallback, DoAbort, RawCheck, RawRead, DoRead
  <2> QED
    BY <2>0, <2>1 DEF Destination, Requests, Hidden
<1>16. CASE Network
  <2>0. UNCHANGED <<pc, request, senders, CurrentSender, resolving, Address, outdated>>
    BY <1>16 DEF Network, resolverVars
  <2>1. \/ conn' = NoConn
        \/ UNCHANGED conn
        \/ pc = "opening" /\ conn'.to = Destination
        \/ conn.peer # "none" /\ conn'.to = conn.to
    BY <1>16 DEF Network, PeerCloses, ConnectedCallback, Connecting, RecvCallback, ErrCallback
  <2> QED
    BY <2>0, <2>1 DEF Destination, Requests
<1>17. CASE UNCHANGED vars
  BY <1>17 DEF vars, resolverVars
<1> HIDE DEF DestinationInv
<1> QED
  BY <1>1, <1>2, <1>3, <1>4, <1>5, <1>6, <1>7, <1>8, <1>9, <1>10, <1>11, <1>12, <1>13, <1>14, <1>15, <1>16, <1>17
  DEF Next

LEMMA CurrentStep ==
  ASSUME BaseInv, ConnInv, CurrentInv, [Next]_vars
  PROVE  CurrentInv'
<1>1. UNCHANGED platform
  BY DEF Next, vars, streamVars, Wires, Configure, Send, SwitchTo, Disconnect, CloseStream, Reconcile,
     StartResolve, StepResolve, ResolveFailed, OpenStream, Open, StreamOpened, StartPiece, PieceSent,
     OpenDatagram, UdpConnected, TransmitDatagram, Recreate, Network, PeerCloses, ConnectedCallback,
     RecvCallback, ErrCallback, StepStream, TakeSocket, Connect, WaitForConnectCompletion, Check, Read,
     Write, DoOpenAndConnect, WaitForConnectedCallback, DoAbort, RawCheck, DoSend, RawRead, DoRead
<1> QED
  BY <1>1, VersionStep, DestinationStep DEF CurrentInv

-----------------------------------------------------------------------------
LEMMA Invariance == Spec => [](IInv /\ ~cut)
<1>1. Init => IInv /\ ~cut
  <2>1. Init => OutageInv /\ ~cut
    BY DEF Init, StreamInit, OutageInv
  <2> QED
    BY <2>1, BaseInit, FrameInit, ConnInit, HandedOverInit, CurrentInit DEF IInv
<1>2. IInv /\ ~cut /\ [Next]_vars => IInv' /\ ~cut'
  BY BaseStep, FrameStep, ConnStep, HandedOverStep, CurrentStep, OutageStep, CutStep DEF IInv
<1> QED
  BY <1>1, <1>2, PTL DEF Spec

(* The adapters give back every socket they take, on every network stack,  *)
(* and a sender that is not connected holds none between two Sends, so     *)
(* that its next Open never meets a stream that is still open.             *)
THEOREM SocketsBalanced == Spec => []OpensBalanced
<1>1. IInv => OpensBalanced
  BY DEF IInv, BaseInv, TypeInv, ControlInv, SocketInv, OnStream, OpensBalanced
<1> QED
  BY <1>1, Invariance, PTL

(* Once part of a frame is on a connection and the rest did not follow,    *)
(* nothing more goes on that connection, whichever of StreamSender's two   *)
(* writes failed or was cut short, and whatever lwIP's thread did between. *)
THEOREM FramesKeptWhole == Spec => []FramesWhole
<1>1. IInv => FramesWhole
  BY DEF IInv, FrameInv, FramesWhole
<1> QED
  BY <1>1, Invariance, PTL

(* What Send reported as delivered was handed to a peer that had not       *)
(* closed, as far as the checks before a write can see (unread bytes hide  *)
(* a close from them), or to a stack that had resolved the next hop.       *)
THEOREM DeliveredIsHandedOver == Spec => []AcknowledgedIsHandedOver
<1>1. IInv => AcknowledgedIsHandedOver
  BY DEF IInv, HandedOverInv, AcknowledgedIsHandedOver
<1> QED
  BY <1>1, Invariance, PTL

(* What Send reported as delivered went to where the endpoint and the TLS  *)
(* profile in force when it began point, or to something newer, however    *)
(* often another task changes them in between (lwIP's DNS left out).       *)
THEOREM DeliveredToCurrent == Spec => []SentToCurrent
<1>1. IInv => SentToCurrent
  BY DEF IInv, CurrentInv, DestinationInv, SentToCurrent
<1> QED
  BY <1>1, Invariance, PTL

(* Whatever the last Open failed of has been reported since a connection   *)
(* was last up, although StreamOpenHealth keeps a repeated failure quiet.  *)
THEOREM OutagesTold == Spec => []OutageTold
<1>1. IInv => OutageTold
  BY DEF IInv, OutageInv, OutageTold
<1> QED
  BY <1>1, Invariance, PTL

(* No datagram UdpSender sends ends inside a code point, whatever MTU the  *)
(* path has or the integrator states, for every record that is UTF-8.      *)
THEOREM CodepointsKeptWhole == Spec => []WholeCodepoints
<1>1. ~cut => WholeCodepoints
  BY DEF WholeCodepoints
<1> QED
  BY <1>1, Invariance, PTL

-----------------------------------------------------------------------------
(***************************************************************************)
(* TLS.  The verify callbacks are followed call by call: one lemma for one *)
(* call, one for what stands while no call has refused, and at the end of  *)
(* each library's section Judged, which says of its verdict what the three *)
(* have in common.  The invariant TlsInv then needs nothing more of them.  *)
(***************************************************************************)
PinVerdicts == {"NoMatch", "Matched", "DigestUnavailable", "Malformed"}

\* A verdict field by field.
IsVerdict(v) ==
  /\ v = [carried |-> v.carried, pin |-> v.pin, error |-> v.error, result |-> v.result, ok |-> v.ok]
  /\ v.ok \in BOOLEAN

LEMMA AuthoriseOneIs ==
  ASSUME NEW pin, NEW leaf
  PROVE  AuthoriseOne(pin, leaf) \in PinVerdicts
BY DEF AuthoriseOne, PinVerdicts

\* Whatever the list and the leaf, the verdict on the pins is one of four.
LEMMA AuthoriseIs ==
  ASSUME NEW pins, NEW leaf
  PROVE  Authorise(pins, leaf) \in PinVerdicts
<1>1. \A i : AuthoriseOne(pins[i], leaf) \in PinVerdicts
  BY AuthoriseOneIs
<1> QED
  BY <1>1 DEF Authorise, PinVerdicts

LEMMA PeerIs ==
  ASSUME NEW peer \in Peers
  PROVE  /\ peer # NoCertificate
         /\ peer.anchored \in BOOLEAN /\ peer.valid \in BOOLEAN /\ peer.named \in BOOLEAN
         /\ peer.issuer \in {"none", "valid", "outOfDate"}
         /\ Top(peer) \in {0, 1} /\ (Top(peer) = 0) = (peer.issuer = "none")
<1>1. peer # NoCertificate
  BY DEF Peers, NoCertificate
<1> QED
  BY <1>1 DEF Peers, Top

\* What CHOOSE picks as the least of a set of numbers.
LEMMA LeastIs ==
  ASSUME NEW S, S \subseteq Nat, NEW m \in S, \A j \in S : m <= j
  PROVE  (CHOOSE i \in S : \A j \in S : i <= j) = m
<1>1. \A i \in S : (\A j \in S : i <= j) => i = m
  OBVIOUS
<1> QED
  BY <1>1

\* FirstOf names the first of the precedence that was found.
LEMMA FirstOfIs ==
  ASSUME NEW n \in Nat, NEW p, DOMAIN p = 1..n, NEW faults
  PROVE  /\ \A k \in 1..n : p[k] \in faults /\ (\A j \in 1..k - 1 : p[j] \notin faults)
                              => FirstOf(p, faults) = p[k]
         /\ (\A k \in 1..n : p[k] \notin faults) => FirstOf(p, faults) = "rejected"
<1> DEFINE found == {i \in DOMAIN p : p[i] \in faults}
           first == CHOOSE i \in found : \A j \in found : i <= j
<1>1. FirstOf(p, faults) = IF found = {} THEN "rejected" ELSE p[first]
  BY DEF FirstOf
<1>2. ASSUME NEW k \in 1..n, p[k] \in faults, \A j \in 1..k - 1 : p[j] \notin faults
      PROVE  FirstOf(p, faults) = p[k]
  <2>1. found \subseteq Nat /\ k \in found
    BY <1>2
  <2>2. \A j \in found : k <= j
    BY <1>2
  <2> HIDE DEF found
  <2>3. first = k
    BY <2>1, <2>2, LeastIs
  <2> QED
    BY <1>1, <2>1, <2>3
<1> QED
  BY <1>1, <1>2

LEMMA FirstOfFour ==
  ASSUME NEW a, NEW b, NEW c, NEW d, NEW faults
  PROVE  FirstOf(<<a, b, c, d>>, faults) =
           IF a \in faults THEN a ELSE IF b \in faults THEN b
           ELSE IF c \in faults THEN c ELSE IF d \in faults THEN d ELSE "rejected"
<1>1. PICK p : p = <<a, b, c, d>>
  OBVIOUS
<1>2. DOMAIN p = 1..4 /\ p[1] = a /\ p[2] = b /\ p[3] = c /\ p[4] = d
  BY <1>1
<1> DEFINE n == 4
<1>3. n \in Nat /\ DOMAIN p = 1..n
  BY <1>2
<1> HIDE DEF n
<1>4. /\ \A k \in 1..n : p[k] \in faults /\ (\A j \in 1..k - 1 : p[j] \notin faults)
                           => FirstOf(p, faults) = p[k]
      /\ (\A k \in 1..n : p[k] \notin faults) => FirstOf(p, faults) = "rejected"
  BY <1>3, FirstOfIs
<1> QED
  BY <1>1, <1>2, <1>4 DEF n

LEMMA FirstOfFive ==
  ASSUME NEW a, NEW b, NEW c, NEW d, NEW e, NEW faults
  PROVE  FirstOf(<<a, b, c, d, e>>, faults) =
           IF a \in faults THEN a ELSE IF b \in faults THEN b ELSE IF c \in faults THEN c
           ELSE IF d \in faults THEN d ELSE IF e \in faults THEN e ELSE "rejected"
<1>1. PICK p : p = <<a, b, c, d, e>>
  OBVIOUS
<1>2. DOMAIN p = 1..5 /\ p[1] = a /\ p[2] = b /\ p[3] = c /\ p[4] = d /\ p[5] = e
  BY <1>1
<1> DEFINE n == 5
<1>3. n \in Nat /\ DOMAIN p = 1..n
  BY <1>2
<1> HIDE DEF n
<1>4. /\ \A k \in 1..n : p[k] \in faults /\ (\A j \in 1..k - 1 : p[j] \notin faults)
                           => FirstOf(p, faults) = p[k]
      /\ (\A k \in 1..n : p[k] \notin faults) => FirstOf(p, faults) = "rejected"
  BY <1>3, FirstOfIs
<1> QED
  BY <1>1, <1>2, <1>4 DEF n

-----------------------------------------------------------------------------
(* OpenSSL *)

\* The order of the faults of a peer that has a certificate.
FaultIs(f, peer, name, pin) ==
  f = IF Pinned /\ pin = "DigestUnavailable" THEN "DigestUnavailable"
      ELSE IF Pinned /\ pin # "Matched" THEN "fingerprint"
      ELSE IF config.anchors /\ ~Trusted(peer) THEN "chain"
      ELSE IF ~InDate(peer, 0) \/ (Top(peer) = 1 /\ ~InDate(peer, 1)) THEN "dates"
      ELSE IF Misnamed(peer, name) THEN "name" ELSE "none"

\* FirstFault, the reference the callbacks are measured by, as FaultIs has it.
LEMMA FirstFaultIs ==
  ASSUME NEW peer \in Peers, NEW name, NEW pin, pin = Authorise(config.pins, peer.leaf)
  PROVE  FaultIs(FirstFault(peer, name), peer, name, pin)
<1>1. peer # NoCertificate /\ Top(peer) \in {0, 1}
  BY PeerIs
<1>2. (\E d \in 0..Top(peer) : ~InDate(peer, d)) <=> ~InDate(peer, 0) \/ (Top(peer) = 1 /\ ~InDate(peer, 1))
  BY <1>1
<1>3. config.anchors /\ ~Trusted(peer) <=> config.anchors /\ ~peer.anchored
  BY DEF Trusted
<1> QED
  BY <1>1, <1>2, <1>3 DEF FirstFault, FaultIs

\* One call above the leaf.
AboveLeafIs(v, error, e, t) ==
  /\ IsVerdict(t) /\ t.error = e /\ t.pin = v.pin /\ t.result = v.result
  /\ t.carried = IF Pinned /\ e \in {"chain", "dates"} THEN v.carried \cup {e} ELSE v.carried
  /\ t.ok <=> (Pinned /\ e \in {"chain", "dates"}) \/ error = "none"

LEMMA OpenSslAboveLeaf ==
  ASSUME NEW v, IsVerdict(v), v.ok, NEW peer, NEW error, NEW t, t = OpenSslVerifyPeer(v, peer, 1, error),
         NEW e, e = IF error = "none" THEN v.error ELSE error
  PROVE  AboveLeafIs(v, error, e, t)
<1>1. PICK r : r = [v EXCEPT !.error = IF error = "none" THEN @ ELSE error, !.ok = error = "none"]
  OBVIOUS
<1>2. IsVerdict(r) /\ r.error = e /\ r.pin = v.pin /\ r.result = v.result /\ r.carried = v.carried
      /\ r.ok = (error = "none")
  BY <1>1 DEF IsVerdict
<1>3. t = CarryObjectionToTheLeaf(r)
  BY <1>1 DEF OpenSslVerifyPeer
<1> QED
  BY <1>2, <1>3 DEF CarryObjectionToTheLeaf, IsVerdict, AboveLeafIs

\* One call for the leaf.  The pin is compared on each of them.
AtLeafIs(v, e, pin, ok, t) ==
  /\ IsVerdict(t) /\ t.result = v.result /\ t.pin = IF Pinned THEN pin ELSE v.pin
  /\ t.carried \subseteq v.carried \cup {"name"}
  /\ Pinned /\ pin # "Matched" => ~t.ok /\ t.error = "fingerprint"
  /\ Pinned /\ pin = "Matched" /\ config.anchors /\ "chain" \in v.carried => ~t.ok /\ t.error = "chain"
  /\ (Pinned => pin = "Matched" /\ ~(config.anchors /\ "chain" \in v.carried)) =>
       /\ ok /\ Pinned /\ "dates" \in v.carried => ~t.ok /\ t.error = "dates"
       /\ ok /\ ~(Pinned /\ "dates" \in v.carried) =>
            /\ "name" \in v.carried => ~t.ok /\ t.error = "name"
            /\ "name" \notin v.carried => t.ok /\ t.error = e /\ t.carried = v.carried
       /\ ~ok /\ e = "name" => t.ok /\ t.error = e /\ t.carried = v.carried \cup {"name"}
       /\ ~ok /\ e # "name" => ~t.ok /\ t.error = e

LEMMA OpenSslAtLeaf ==
  ASSUME NEW v, IsVerdict(v), v.ok, NEW peer, NEW error, NEW t, t = OpenSslVerifyPeer(v, peer, 0, error),
         NEW e, e = (IF error = "none" THEN v.error ELSE error),
         NEW pin, pin = Authorise(config.pins, peer.leaf),
         NEW ok \in BOOLEAN, ok <=> (error = "none" \/ (WaivesChain /\ e = "chain"))
  PROVE  AtLeafIs(v, e, pin, ok, t)
<1>1. PICK r : r = [v EXCEPT !.error = IF error = "none" THEN @ ELSE error, !.ok = error = "none"]
  OBVIOUS
<1>2. IsVerdict(r) /\ r.error = e /\ r.pin = v.pin /\ r.result = v.result /\ r.carried = v.carried
      /\ r.ok = (error = "none")
  BY <1>1 DEF IsVerdict
<1>3. CASE ~Pinned
  <2>1. t = ResolveNameObjection(r)
    BY <1>1, <1>3 DEF OpenSslVerifyPeer
  <2>2. ok <=> r.ok
    BY <1>2, <1>3 DEF WaivesChain
  <2> QED
    BY <1>2, <1>3, <2>1, <2>2 DEF ResolveNameObjection, IsVerdict, AtLeafIs
<1>4. CASE Pinned
  <2>1. PICK x : x = VerifyPinnedLeaf(r, peer)
    OBVIOUS
  <2>2. t = ResolveNameObjection(x)
    BY <1>1, <1>4, <2>1 DEF OpenSslVerifyPeer
  <2>3. PICK w : w = [r EXCEPT !.pin = pin]
    OBVIOUS
  <2>4. IsVerdict(w) /\ w.error = e /\ w.pin = pin /\ w.result = v.result /\ w.carried = v.carried /\ w.ok = r.ok
    BY <1>2, <2>3 DEF IsVerdict
  <2>5. PICK y : y = IF pin # "Matched"
                     THEN [w EXCEPT !.error = "fingerprint", !.ok = FALSE]
                     ELSE IF config.anchors /\ "chain" \in r.carried
                     THEN [w EXCEPT !.error = "chain", !.ok = FALSE]
                     ELSE [w EXCEPT !.ok = @ \/ (WaivesChain /\ r.error = "chain")]
    OBVIOUS
  <2>6. /\ IsVerdict(y) /\ y.pin = pin /\ y.result = v.result /\ y.carried = v.carried
        /\ pin # "Matched" => ~y.ok /\ y.error = "fingerprint"
        /\ pin = "Matched" /\ config.anchors /\ "chain" \in v.carried => ~y.ok /\ y.error = "chain"
        /\ pin = "Matched" /\ ~(config.anchors /\ "chain" \in v.carried) => (y.ok <=> ok) /\ y.error = e
    BY <1>2, <2>4, <2>5 DEF IsVerdict
  <2>7. x = IF y.ok /\ "dates" \in y.carried THEN [y EXCEPT !.error = "dates", !.ok = FALSE] ELSE y
    BY <2>1, <2>3, <2>5 DEF VerifyPinnedLeaf
  <2>8. /\ IsVerdict(x) /\ x.pin = pin /\ x.result = v.result /\ x.carried = v.carried
        /\ pin # "Matched" => ~x.ok /\ x.error = "fingerprint"
        /\ pin = "Matched" /\ config.anchors /\ "chain" \in v.carried => ~x.ok /\ x.error = "chain"
        /\ pin = "Matched" /\ ~(config.anchors /\ "chain" \in v.carried) =>
             IF ok /\ "dates" \in v.carried THEN ~x.ok /\ x.error = "dates" ELSE (x.ok <=> ok) /\ x.error = e
    BY <2>6, <2>7 DEF IsVerdict
  <2> QED
    BY <1>4, <2>2, <2>8 DEF ResolveNameObjection, IsVerdict, AtLeafIs
<1> QED
  BY <1>3, <1>4

\* What stands of a verdict while no call has refused: the objections that were
\* carried are the ones there were cause for, the name's once its call was made
\* and the issuer's dates once the issuer is done.
OpenSslStands(v, peer, name, named, dated) ==
  /\ IsVerdict(v) /\ v.ok /\ v.result = {} /\ v.pin \in {"NoMatch", "Matched"}
  /\ v.error \in {"none", "chain", "dates", "name"} /\ v.carried \subseteq {"chain", "dates", "name"}
  /\ ~Trusted(peer) => Pinned /\ (Top(peer) = 0 => ~config.anchors)
  /\ "chain" \in v.carried <=> ~Trusted(peer) /\ Top(peer) = 1
  /\ "dates" \in v.carried <=> dated /\ Top(peer) = 1 /\ ~InDate(peer, 1)
  /\ "dates" \in v.carried => Pinned
  /\ "name" \in v.carried <=> named /\ Misnamed(peer, name)
  /\ v.error = "chain" => ~Trusted(peer)
  /\ v.error \in {"dates", "name"} => v.error \in v.carried

VerdictTyped(v) == IsVerdict(v) /\ v.carried \subseteq Details /\ v.pin \in PinVerdicts

LEMMA DetailsAre ==
  /\ {"rejected", "anonymous", "DigestUnavailable", "fingerprint", "chain", "dates", "name"} \subseteq Details
  /\ {"DigestUnavailable", "fingerprint", "chain", "dates", "name"} \subseteq Details
BY DEF Details

OpenSslRefused(v, fault) ==
  /\ IsVerdict(v) /\ ~v.ok /\ OpenSslRefusalDetail(v) = fault
  /\ v.carried \subseteq {"chain", "dates", "name"} /\ v.pin \in PinVerdicts

\* What the credentials are when there is a handshake.
Usable == config.anchors \in BOOLEAN /\ (config.anchors \/ Pinned)

\* The four parts of OpenSSL's verification in their order: the chain, the name,
\* the issuer and the leaf.
LEMMA OpenSslChain ==
  ASSUME Usable, NEW peer \in Peers, NEW name, NEW f, f = FirstFault(peer, name),
         NEW v, IsVerdict(v), v.ok, v.carried = {}, v.pin = "NoMatch",
         v.error = "none", v.result = {},
         NEW t, t = OpenSslCall(v, ~Trusted(peer), peer, Top(peer), "chain")
  PROVE  OpenSslStands(t, peer, name, FALSE, FALSE) \/ OpenSslRefused(t, f)
<1>1. PICK pin : pin = Authorise(config.pins, peer.leaf)
  OBVIOUS
<1>2. pin \in PinVerdicts /\ FaultIs(f, peer, name, pin)
  BY <1>1, AuthoriseIs, FirstFaultIs
<1>3. CASE Trusted(peer)
  <2>1. t = v
    BY <1>3 DEF OpenSslCall
  <2> QED
    BY <1>3, <2>1 DEF OpenSslStands
<1>4. CASE ~Trusted(peer) /\ Top(peer) = 1
  <2>1. t = OpenSslVerifyPeer(v, peer, 1, "chain")
    BY <1>4 DEF OpenSslCall
  <2>2. AboveLeafIs(v, "chain", "chain", t)
    BY <2>1, OpenSslAboveLeaf
  <2>3. CASE Pinned
    BY <1>4, <2>2, <2>3 DEF OpenSslStands, AboveLeafIs
  <2>4. CASE ~Pinned
    BY <1>2, <1>4, <2>2, <2>4
       DEF PinVerdicts, OpenSslStands, OpenSslRefused, AboveLeafIs, FaultIs, OpenSslRefusalDetail, Usable, WaivesChain
  <2> QED
    BY <2>3, <2>4
<1>5. CASE ~Trusted(peer) /\ Top(peer) = 0
  <2>1. t = OpenSslVerifyPeer(v, peer, 0, "chain")
    BY <1>5 DEF OpenSslCall
  <2>2. PICK ok \in BOOLEAN : ok <=> ("chain" = "none" \/ (WaivesChain /\ "chain" = "chain"))
    OBVIOUS
  <2>3. AtLeafIs(v, "chain", pin, ok, t)
    BY <1>1, <2>1, <2>2, OpenSslAtLeaf
  <2>4. CASE Pinned /\ pin # "Matched"
    BY <1>2, <2>3, <2>4
       DEF OpenSslStands, OpenSslRefused, AtLeafIs, FaultIs, OpenSslRefusalDetail, Usable, PinVerdicts
  <2>5. CASE (Pinned => pin = "Matched") /\ ok
    BY <1>5, <2>2, <2>3, <2>5 DEF OpenSslStands, AtLeafIs, WaivesChain
  <2>6. CASE (Pinned => pin = "Matched") /\ ~ok
    BY <1>2, <1>5, <2>2, <2>3, <2>6
       DEF PinVerdicts, OpenSslStands, OpenSslRefused, AtLeafIs, FaultIs,
       OpenSslRefusalDetail, Usable, WaivesChain
  <2> QED
    BY <2>4, <2>5, <2>6
<1> QED
  BY <1>3, <1>4, <1>5, PeerIs

LEMMA OpenSslName ==
  ASSUME Usable, NEW peer \in Peers, NEW name, NEW f, f = FirstFault(peer, name),
         NEW v, OpenSslStands(v, peer, name, FALSE, FALSE),
         NEW t, t = OpenSslCall(v, Misnamed(peer, name), peer, 0, "name")
  PROVE  OpenSslStands(t, peer, name, TRUE, FALSE) \/ OpenSslRefused(t, f)
<1>1. PICK pin : pin = Authorise(config.pins, peer.leaf)
  OBVIOUS
<1>2. pin \in PinVerdicts /\ FaultIs(f, peer, name, pin)
  BY <1>1, AuthoriseIs, FirstFaultIs
<1>3. CASE ~Misnamed(peer, name)
  <2>1. t = v
    BY <1>3 DEF OpenSslCall
  <2> QED
    BY <1>3, <2>1 DEF OpenSslStands
<1>4. CASE Misnamed(peer, name)
  <2>1. IsVerdict(v) /\ v.ok
    BY DEF OpenSslStands
  <2>2. t = OpenSslVerifyPeer(v, peer, 0, "name")
    BY <1>4, <2>1 DEF OpenSslCall
  <2>3. PICK ok \in BOOLEAN : ok <=> ("name" = "none" \/ (WaivesChain /\ "name" = "chain"))
    OBVIOUS
  <2>4. AtLeafIs(v, "name", pin, ok, t) /\ ~ok
    BY <1>1, <2>1, <2>2, <2>3, OpenSslAtLeaf
  <2>5. CASE Pinned /\ pin # "Matched"
    BY <1>2, <2>4, <2>5
       DEF OpenSslStands, OpenSslRefused, AtLeafIs, FaultIs, OpenSslRefusalDetail, PinVerdicts
  <2>6. CASE Pinned /\ pin = "Matched" /\ config.anchors /\ "chain" \in v.carried
    BY <1>2, <2>4, <2>6
       DEF PinVerdicts, OpenSslStands, OpenSslRefused, AtLeafIs, FaultIs, OpenSslRefusalDetail, WaivesChain
  <2>7. CASE Pinned => pin = "Matched" /\ ~(config.anchors /\ "chain" \in v.carried)
    BY <1>4, <2>4, <2>7 DEF OpenSslStands, AtLeafIs
  <2> QED
    BY <2>5, <2>6, <2>7
<1> QED
  BY <1>3, <1>4

LEMMA OpenSslIssuer ==
  ASSUME Usable, NEW peer \in Peers, NEW name, NEW f, f = FirstFault(peer, name),
         NEW v, OpenSslStands(v, peer, name, TRUE, FALSE),
         NEW t, t = OpenSslCertificate(v, peer, 1)
  PROVE  OpenSslStands(t, peer, name, TRUE, TRUE) \/ OpenSslRefused(t, f)
<1>1. PICK pin : pin = Authorise(config.pins, peer.leaf)
  OBVIOUS
<1>2. FaultIs(f, peer, name, pin)
  BY <1>1, FirstFaultIs
<1>3. IsVerdict(v) /\ v.ok /\ Top(peer) \in {0, 1}
  BY PeerIs DEF OpenSslStands
<1>4. CASE Top(peer) = 0
  <2>1. t = v
    BY <1>4 DEF OpenSslCertificate
  <2> QED
    BY <1>4, <2>1 DEF OpenSslStands
<1>5. CASE Top(peer) = 1
  <2>1. PICK u : u = OpenSslCall(v, ~InDate(peer, 1), peer, 1, "dates")
    OBVIOUS
  <2>2. t = OpenSslCall(u, TRUE, peer, 1, "none")
    BY <1>5, <2>1 DEF OpenSslCertificate
  <2>3. OpenSslStands(u, peer, name, TRUE, TRUE) \/ OpenSslRefused(u, f)
    <3>1. CASE InDate(peer, 1)
      <4>1. u = v
        BY <2>1, <3>1 DEF OpenSslCall
      <4> QED
        BY <3>1, <4>1 DEF OpenSslStands
    <3>2. CASE ~InDate(peer, 1)
      <4>1. u = OpenSslVerifyPeer(v, peer, 1, "dates")
        BY <1>3, <2>1, <3>2 DEF OpenSslCall
      <4>2. AboveLeafIs(v, "dates", "dates", u)
        BY <1>3, <4>1, OpenSslAboveLeaf
      <4>3. CASE Pinned
        BY <1>5, <3>2, <4>2, <4>3 DEF OpenSslStands, AboveLeafIs
      <4>4. CASE ~Pinned
        BY <1>2, <1>5, <3>2, <4>2, <4>4
           DEF PinVerdicts, OpenSslStands, OpenSslRefused, AboveLeafIs, FaultIs, OpenSslRefusalDetail
      <4> QED
        BY <4>3, <4>4
    <3> QED
      BY <3>1, <3>2
  <2>4. CASE OpenSslRefused(u, f)
    BY <2>2, <2>4 DEF PinVerdicts, OpenSslStands, OpenSslCall, OpenSslRefused
  <2>5. CASE OpenSslStands(u, peer, name, TRUE, TRUE)
    <3>1. IsVerdict(u) /\ u.ok
      BY <2>5 DEF OpenSslStands
    <3>2. t = OpenSslVerifyPeer(u, peer, 1, "none")
      BY <2>2, <3>1 DEF OpenSslCall
    <3>3. PICK e : e = u.error
      OBVIOUS
    <3>4. AboveLeafIs(u, "none", e, t)
      BY <3>1, <3>2, <3>3, OpenSslAboveLeaf
    <3> QED
      BY <1>5, <2>5, <3>3, <3>4 DEF OpenSslStands, AboveLeafIs
  <2> QED
    BY <2>3, <2>4, <2>5
<1> QED
  BY <1>3, <1>4, <1>5

\* A peer that was let in: there was no fault, and nothing is left to object.
OpenSslAccepted(v, fault) ==
  /\ IsVerdict(v) /\ v.ok /\ fault = "none" /\ OpenSslRefusalDetail(v) = "rejected" /\ "name" \notin v.carried
  /\ v.carried \subseteq {"chain", "dates", "name"} /\ v.pin \in PinVerdicts

LEMMA OpenSslLeaf ==
  ASSUME Usable, NEW peer \in Peers, NEW name, NEW f, f = FirstFault(peer, name),
         NEW v, OpenSslStands(v, peer, name, TRUE, TRUE),
         NEW t, t = OpenSslCertificate(v, peer, 0)
  PROVE  OpenSslAccepted(t, f) \/ OpenSslRefused(t, f)
<1>1. PICK pin : pin = Authorise(config.pins, peer.leaf)
  OBVIOUS
<1>2. pin \in PinVerdicts /\ FaultIs(f, peer, name, pin)
  BY <1>1, AuthoriseIs, FirstFaultIs
<1>3. IsVerdict(v) /\ v.ok /\ Top(peer) \in {0, 1}
  BY PeerIs DEF OpenSslStands
<1>4. PICK u : u = OpenSslCall(v, ~InDate(peer, 0), peer, 0, "dates")
  OBVIOUS
<1>5. ~(0 > Top(peer))
  BY <1>3
<1>6. t = OpenSslCall(u, TRUE, peer, 0, "none")
  BY <1>5, <1>4 DEF OpenSslCertificate
<1>7. CASE ~InDate(peer, 0)
  <2>1. u = OpenSslVerifyPeer(v, peer, 0, "dates")
    BY <1>3, <1>4, <1>7 DEF OpenSslCall
  <2>2. PICK ok \in BOOLEAN : ok <=> ("dates" = "none" \/ (WaivesChain /\ "dates" = "chain"))
    OBVIOUS
  <2>3. AtLeafIs(v, "dates", pin, ok, u) /\ ~ok
    BY <1>1, <1>3, <2>1, <2>2, OpenSslAtLeaf
  <2>4. OpenSslRefused(u, f)
    <3>1. CASE Pinned /\ pin # "Matched"
      BY <1>2, <2>3, <3>1
         DEF OpenSslStands, OpenSslRefused, AtLeafIs, FaultIs, OpenSslRefusalDetail, PinVerdicts
    <3>2. CASE Pinned /\ pin = "Matched" /\ config.anchors /\ "chain" \in v.carried
      BY <1>2, <2>3, <3>2
         DEF PinVerdicts, OpenSslStands, OpenSslRefused, AtLeafIs, FaultIs, OpenSslRefusalDetail, WaivesChain
    <3>3. CASE Pinned => pin = "Matched" /\ ~(config.anchors /\ "chain" \in v.carried)
      BY <1>2, <1>3, <1>7, <2>3, <3>3
         DEF PinVerdicts, OpenSslStands, OpenSslRefused, AtLeafIs, FaultIs, OpenSslRefusalDetail
    <3> QED
      BY <3>1, <3>2, <3>3
  <2> QED
    BY <1>6, <2>4 DEF PinVerdicts, OpenSslStands, OpenSslCall, OpenSslRefused
<1>8. CASE InDate(peer, 0)
  <2>1. t = OpenSslVerifyPeer(v, peer, 0, "none")
    BY <1>3, <1>4, <1>6, <1>8 DEF OpenSslCall
  <2>2. PICK e : e = v.error
    OBVIOUS
  <2>3. AtLeafIs(v, e, pin, TRUE, t)
    BY <1>1, <1>3, <2>1, <2>2, OpenSslAtLeaf
  <2>4. CASE Pinned /\ pin # "Matched"
    BY <1>2, <2>3, <2>4
       DEF OpenSslStands, OpenSslRefused, AtLeafIs, FaultIs, OpenSslRefusalDetail, PinVerdicts
  <2>5. CASE Pinned /\ pin = "Matched" /\ config.anchors /\ "chain" \in v.carried
    BY <1>2, <2>3, <2>5
       DEF PinVerdicts, OpenSslStands, OpenSslRefused, AtLeafIs, FaultIs, OpenSslRefusalDetail, WaivesChain
  <2>6. CASE Pinned => pin = "Matched" /\ ~(config.anchors /\ "chain" \in v.carried)
    <3>1. ~(config.anchors /\ ~Trusted(peer))
      BY <1>3, <2>6 DEF OpenSslStands
    <3>2. CASE Pinned /\ "dates" \in v.carried
      BY <1>2, <2>3, <2>6, <3>1, <3>2
         DEF PinVerdicts, OpenSslStands, OpenSslRefused, AtLeafIs, FaultIs, OpenSslRefusalDetail
    <3>3. CASE "dates" \notin v.carried /\ "name" \in v.carried
      BY <1>2, <1>8, <2>3, <2>6, <3>1, <3>3
         DEF PinVerdicts, OpenSslStands, OpenSslRefused, AtLeafIs, FaultIs, OpenSslRefusalDetail
    <3>4. CASE "dates" \notin v.carried /\ "name" \notin v.carried
      BY <1>2, <1>8, <2>2, <2>3, <2>6, <3>1, <3>4
         DEF PinVerdicts, OpenSslStands, OpenSslAccepted, AtLeafIs, FaultIs, OpenSslRefusalDetail, WaivesChain, Usable
    <3> QED
      BY <3>2, <3>3, <3>4 DEF OpenSslStands
  <2> QED
    BY <2>4, <2>5, <2>6
<1> QED
  BY <1>7, <1>8

FreshVerdict == [carried |-> {}, pin |-> "NoMatch", error |-> "none", result |-> {}, ok |-> TRUE]

\* What is to be shown of each library: v when the handshake is over, w after
\* the checks that follow it.
Judged(v, w, fault) ==
  /\ VerdictTyped(v) /\ VerdictTyped(w) /\ fault \in Details
  /\ v.ok /\ w.ok => fault = "none"
  /\ ~v.ok => RefusalDetail(v) = fault
  /\ v.ok => RefusalDetail(v) = "rejected"
  /\ v.ok /\ ~w.ok => RefusalDetail(w) = fault

LEMMA FirstFaultTyped ==
  ASSUME NEW peer, NEW name
  PROVE  FirstFault(peer, name) \in Details
BY DEF FirstFault, Details

LEMMA OpenSslCallsJudge ==
  ASSUME Usable, NEW peer \in Peers, NEW name, NEW f, f = FirstFault(peer, name),
         NEW v, v = OpenSslCalls(FreshVerdict, peer, name)
  PROVE  OpenSslAccepted(v, f) \/ OpenSslRefused(v, f)
<1>1. PICK u : u = FreshVerdict
  OBVIOUS
<1>2. IsVerdict(u) /\ u.ok /\ u.carried = {} /\ u.pin = "NoMatch" /\ u.error = "none" /\ u.result = {}
  BY <1>1 DEF FreshVerdict, IsVerdict
<1>3. PICK a : a = OpenSslCall(u, ~Trusted(peer), peer, Top(peer), "chain")
  OBVIOUS
<1>4. PICK b : b = OpenSslCall(a, Misnamed(peer, name), peer, 0, "name")
  OBVIOUS
<1>5. PICK c : c = OpenSslCertificate(b, peer, 1)
  OBVIOUS
<1>6. v = OpenSslCertificate(c, peer, 0)
  BY <1>1, <1>3, <1>4, <1>5 DEF OpenSslCalls
<1>7. OpenSslStands(a, peer, name, FALSE, FALSE) \/ OpenSslRefused(a, f)
  BY <1>2, <1>3, OpenSslChain
<1>8. OpenSslStands(b, peer, name, TRUE, FALSE) \/ OpenSslRefused(b, f)
  <2>1. CASE OpenSslRefused(a, f)
    BY <1>4, <2>1 DEF OpenSslCall, OpenSslRefused
  <2> QED
    BY <1>4, <1>7, <2>1, OpenSslName
<1>9. OpenSslStands(c, peer, name, TRUE, TRUE) \/ OpenSslRefused(c, f)
  <2>1. CASE OpenSslRefused(b, f)
    BY <1>5, <2>1 DEF OpenSslCertificate, OpenSslCall, OpenSslRefused
  <2> QED
    BY <1>5, <1>8, <2>1, OpenSslIssuer
<1>10. CASE OpenSslRefused(c, f)
  BY <1>6, <1>10 DEF OpenSslCertificate, OpenSslCall, OpenSslRefused
<1> QED
  BY <1>6, <1>9, <1>10, OpenSslLeaf

\* OpenSSL: the callback and the two checks that follow the handshake.
LEMMA OpenSslJudges ==
  ASSUME Usable, library = "OpenSsl", NEW peer \in Peers \cup {NoCertificate},
         NEW s, Verdict(s) = FreshVerdict, NEW name, name = stream[s].name,
         NEW v, v = Verify(s, peer), NEW w, w = ChecksAfterHandshake(v, peer)
  PROVE  Judged(v, w, FirstFault(peer, name))
<1>1. PICK f : f = FirstFault(peer, name)
  OBVIOUS
<1>2. ~IsMbedTls /\ ~IsWolfSsl /\ f \in Details
  BY <1>1, FirstFaultTyped DEF IsMbedTls, IsWolfSsl
<1>3. \A x : RefusalDetail(x) = OpenSslRefusalDetail(x)
  BY <1>2 DEF RefusalDetail
<1>4. w = NoNameObjectionIsOutstanding(PeerPresentedACertificate(v, peer))
  BY <1>2 DEF ChecksAfterHandshake
<1>5. CASE peer = NoCertificate
  <2>1. v = [FreshVerdict EXCEPT !.ok = TRUE]
    BY <1>5 DEF Verify
  <2>2. IsVerdict(v) /\ v.ok /\ v.carried = {} /\ v.pin = "NoMatch" /\ v.error = "none"
    BY <2>1 DEF FreshVerdict, IsVerdict
  <2>3. w = [v EXCEPT !.ok = FALSE, !.error = "anonymous"]
    BY <1>4, <1>5, <2>2 DEF NoNameObjectionIsOutstanding, PeerPresentedACertificate, IsVerdict
  <2>4. IsVerdict(w) /\ ~w.ok /\ w.carried = {} /\ w.pin = "NoMatch" /\ w.error = "anonymous"
    BY <2>2, <2>3 DEF IsVerdict
  <2>5. f = "anonymous"
    BY <1>1, <1>5 DEF FirstFault
  <2> QED
    BY <1>1, <1>2, <1>3, <2>2, <2>4, <2>5
       DEF Judged, VerdictTyped, OpenSslRefusalDetail, PinVerdicts
<1>6. CASE peer \in Peers
  <2>1. peer # NoCertificate
    BY <1>6, PeerIs
  <2>2. v = OpenSslCalls(FreshVerdict, peer, name)
    BY <1>2, <2>1 DEF Verify
  <2>3. OpenSslAccepted(v, f) \/ OpenSslRefused(v, f)
    BY <1>1, <1>6, <2>2, OpenSslCallsJudge
  <2>4. w = v
    BY <1>4, <2>1, <2>3 DEF NoNameObjectionIsOutstanding, PeerPresentedACertificate,
       OpenSslAccepted, OpenSslRefused
  <2> QED
    BY <1>1, <1>2, <1>3, <2>3, <2>4, DetailsAre
       DEF Judged, VerdictTyped, OpenSslAccepted, OpenSslRefused
<1> QED
  BY <1>5, <1>6

-----------------------------------------------------------------------------
(* Mbed TLS *)

\* One call of the callback.
MbedTlsFound(v, found, depth, pin, t) ==
  /\ IsVerdict(t)
  /\ t.pin = IF Pinned /\ depth = 0 THEN pin ELSE v.pin
  /\ t.result = v.result \cup (IF WaivesChain THEN found \ {"chain"} ELSE found)
                \cup (IF Pinned /\ depth = 0 /\ pin # "Matched" THEN {"fingerprint"} ELSE {})
  /\ t.carried = IF config.anchors THEN {} ELSE t.result
  /\ t.ok <=> (config.anchors \/ depth # 0 \/ t.result = {})

LEMMA MbedTlsOneCall ==
  ASSUME NEW v, IsVerdict(v), v.carried = IF config.anchors THEN {} ELSE v.result,
         config.anchors \in BOOLEAN,
         NEW peer, NEW depth, NEW found, NEW pin, pin = Authorise(config.pins, peer.leaf),
         NEW t, t = MbedTlsVerifyPeer(v, peer, depth, found)
  PROVE  MbedTlsFound(v, found, depth, pin, t)
<1>1. PICK p : p = IF Pinned /\ depth = 0 THEN pin ELSE v.pin
  OBVIOUS
<1>2. PICK flags : flags = (IF WaivesChain THEN found \ {"chain"} ELSE found)
                           \cup IF Pinned /\ depth = 0 /\ p # "Matched" THEN {"fingerprint"} ELSE {}
  OBVIOUS
<1>3. PICK objections : objections = IF config.anchors THEN v.carried ELSE v.carried \cup flags
  OBVIOUS
<1>4. t = [v EXCEPT !.pin = p, !.carried = objections, !.result = @ \cup flags,
                    !.ok = config.anchors \/ depth # 0 \/ objections = {}]
  BY <1>1, <1>2, <1>3 DEF MbedTlsVerifyPeer
<1>5. /\ IsVerdict(t) /\ t.pin = p /\ t.carried = objections /\ t.result = v.result \cup flags
      /\ t.ok = (config.anchors \/ depth # 0 \/ objections = {})
  BY <1>4 DEF IsVerdict
<1>6. objections = IF config.anchors THEN {} ELSE t.result
  BY <1>3, <1>5
<1>7. flags = (IF WaivesChain THEN found \ {"chain"} ELSE found)
              \cup (IF Pinned /\ depth = 0 /\ pin # "Matched" THEN {"fingerprint"} ELSE {})
  BY <1>1, <1>2
<1> QED
  BY <1>1, <1>5, <1>6, <1>7 DEF MbedTlsFound

\* The faults found on all the certificates, and where they are kept.
MbedTlsAll(v, peer, name, pin) ==
  /\ IsVerdict(v) /\ v.pin = IF Pinned THEN pin ELSE "NoMatch"
  /\ v.result \subseteq {"fingerprint", "chain", "dates", "name"}
  /\ "fingerprint" \in v.result <=> Pinned /\ pin # "Matched"
  /\ "chain" \in v.result <=> config.anchors /\ ~Trusted(peer)
  /\ "dates" \in v.result <=> ~InDate(peer, 0) \/ (Top(peer) = 1 /\ ~InDate(peer, 1))
  /\ "name" \in v.result <=> Misnamed(peer, name)
  /\ v.carried = IF config.anchors THEN {} ELSE v.result
  /\ v.ok <=> (config.anchors \/ v.result = {})

LEMMA MbedTlsCallsFind ==
  ASSUME Usable, NEW peer \in Peers, NEW name, NEW pin, pin = Authorise(config.pins, peer.leaf),
         NEW v, v = MbedTlsCalls(FreshVerdict, peer, name)
  PROVE  MbedTlsAll(v, peer, name, pin)
<1>1. PICK u : u = FreshVerdict
  OBVIOUS
<1>2. IsVerdict(u) /\ u.ok /\ u.carried = {} /\ u.pin = "NoMatch" /\ u.result = {}
  BY <1>1 DEF FreshVerdict, IsVerdict
<1>3. PICK a : a = MbedTlsCertificate(u, peer, name, 1)
  OBVIOUS
<1>4. v = MbedTlsCertificate(a, peer, name, 0)
  BY <1>1, <1>3 DEF MbedTlsCalls
<1>5. Top(peer) \in {0, 1} /\ config.anchors \in BOOLEAN /\ (WaivesChain <=> ~config.anchors)
      /\ (~config.anchors => ~Trusted(peer))
  BY PeerIs DEF Usable, WaivesChain, Trusted
<1>6. /\ IsVerdict(a) /\ a.ok /\ a.pin = "NoMatch" /\ a.result \subseteq {"chain", "dates"}
      /\ "chain" \in a.result <=> Top(peer) = 1 /\ config.anchors /\ ~Trusted(peer)
      /\ "dates" \in a.result <=> Top(peer) = 1 /\ ~InDate(peer, 1)
      /\ a.carried = IF config.anchors THEN {} ELSE a.result
  <2>1. CASE Top(peer) = 0
    <3>1. a = u
      BY <1>3, <2>1 DEF MbedTlsCertificate
    <3> QED
      BY <1>2, <2>1, <3>1
  <2>2. CASE Top(peer) = 1
    <3>1. PICK found : found = MbedTlsFlags(peer, name, 1)
      OBVIOUS
    <3>2. ~(1 > Top(peer))
      BY <2>2
    <3>3. a = MbedTlsVerifyPeer(u, peer, 1, found)
      BY <1>2, <1>3, <3>1, <3>2 DEF MbedTlsCertificate
    <3>4. MbedTlsFound(u, found, 1, pin, a)
      BY <1>2, <1>5, <3>3, MbedTlsOneCall
    <3>5. /\ found \subseteq {"chain", "dates"}
          /\ "chain" \in found <=> ~Trusted(peer)
          /\ "dates" \in found <=> ~InDate(peer, 1)
      BY <2>2, <3>1 DEF MbedTlsFlags
    <3> QED
      BY <1>2, <1>5, <2>2, <3>4, <3>5 DEF MbedTlsFound
  <2> QED
    BY <1>5, <2>1, <2>2
<1>7. PICK found : found = MbedTlsFlags(peer, name, 0)
  OBVIOUS
<1>8. ~(0 > Top(peer))
  BY <1>5
<1>9. v = MbedTlsVerifyPeer(a, peer, 0, found)
  BY <1>4, <1>6, <1>7, <1>8 DEF MbedTlsCertificate
<1>10. MbedTlsFound(a, found, 0, pin, v)
  BY <1>5, <1>6, <1>9, MbedTlsOneCall
<1>11. /\ found \subseteq {"chain", "dates", "name"}
       /\ "chain" \in found <=> Top(peer) = 0 /\ ~Trusted(peer)
       /\ "dates" \in found <=> ~InDate(peer, 0)
       /\ "name" \in found <=> Misnamed(peer, name)
  BY <1>7 DEF MbedTlsFlags
<1> QED
  BY <1>5, <1>6, <1>10, <1>11 DEF MbedTlsFound, MbedTlsAll

\* Mbed TLS: what the callback leaves of the flags is what is refused and named.
LEMMA MbedTlsJudges ==
  ASSUME Usable, IsMbedTls, NEW peer \in Peers \cup {NoCertificate},
         NEW s, Verdict(s) = FreshVerdict, NEW name, name = stream[s].name,
         NEW v, v = Verify(s, peer), NEW w, w = ChecksAfterHandshake(v, peer)
  PROVE  Judged(v, w, FirstFault(peer, name))
<1>1. PICK f : f = FirstFault(peer, name)
  OBVIOUS
<1>2. library # "OpenSsl" /\ ~IsWolfSsl /\ f \in Details
  BY <1>1, FirstFaultTyped DEF IsMbedTls, IsWolfSsl
<1>3. \A x : RefusalDetail(x) = MbedTlsRefusalDetail(x)
  BY <1>2 DEF RefusalDetail
<1>4. w = [v EXCEPT !.ok = v.result = {}]
  BY <1>2 DEF ChecksAfterHandshake
<1>5. \A x : MbedTlsRefusalDetail(x) =
         IF x.pin = "DigestUnavailable" THEN "DigestUnavailable"
         ELSE FirstOf(<<"fingerprint", "chain", "dates", "name">>, IF x.carried = {} THEN x.result ELSE x.carried)
  BY DEF MbedTlsRefusalDetail
<1>6. CASE peer = NoCertificate
  <2>1. v = [FreshVerdict EXCEPT !.ok = FALSE]
    BY <1>2, <1>6 DEF Verify
  <2>2. IsVerdict(v) /\ ~v.ok /\ v.carried = {} /\ v.pin = "NoMatch" /\ v.result = {}
    BY <2>1 DEF FreshVerdict, IsVerdict
  <2>3. IsVerdict(w) /\ w.carried = {} /\ w.pin = "NoMatch"
    BY <1>4, <2>2 DEF IsVerdict
  <2>4. MbedTlsRefusalDetail(v) = FirstOf(<<"fingerprint", "chain", "dates", "name">>, {})
    BY <1>5, <2>2
  <2>5. MbedTlsRefusalDetail(v) = "rejected"
    BY <2>4, FirstOfFour
  <2>6. f = "rejected"
    BY <1>1, <1>2, <1>6 DEF FirstFault
  <2> QED
    BY <1>1, <1>2, <1>3, <2>2, <2>3, <2>5, <2>6 DEF Judged, VerdictTyped, PinVerdicts
<1>7. CASE peer \in Peers
  <2>1. peer # NoCertificate
    BY <1>7, PeerIs
  <2>2. PICK u : u = MbedTlsCalls(FreshVerdict, peer, name)
    OBVIOUS
  <2>3. v = [u EXCEPT !.ok = @ /\ (config.anchors => u.result = {})]
    BY <1>2, <2>1, <2>2 DEF Verify
  <2>4. PICK pin : pin = Authorise(config.pins, peer.leaf)
    OBVIOUS
  <2>5. MbedTlsAll(u, peer, name, pin)
    BY <1>7, <2>2, <2>4, MbedTlsCallsFind
  <2>6. pin \in PinVerdicts /\ FaultIs(f, peer, name, pin)
    BY <1>1, <1>7, <2>4, AuthoriseIs, FirstFaultIs
  <2>7. IsVerdict(v) /\ v.carried = u.carried /\ v.pin = u.pin /\ v.result = u.result /\ (v.ok <=> u.result = {})
    BY <2>3, <2>5 DEF MbedTlsAll, IsVerdict
  <2>8. IsVerdict(w) /\ w.carried = u.carried /\ w.pin = u.pin /\ w.result = u.result /\ (w.ok <=> u.result = {})
    BY <1>4, <2>7 DEF IsVerdict
  <2>9. PICK all : all = u.result
    OBVIOUS
  <2>10. MbedTlsRefusalDetail(v) = IF v.pin = "DigestUnavailable" THEN "DigestUnavailable"
                                   ELSE FirstOf(<<"fingerprint", "chain", "dates", "name">>, all)
    <3>1. (IF v.carried = {} THEN v.result ELSE v.carried) = all
      BY <2>5, <2>7, <2>9 DEF MbedTlsAll
    <3> QED
      BY <1>5, <3>1
  <2>11. MbedTlsRefusalDetail(v) = IF v.pin = "DigestUnavailable" THEN "DigestUnavailable"
           ELSE IF "fingerprint" \in all THEN "fingerprint" ELSE IF "chain" \in all THEN "chain"
           ELSE IF "dates" \in all THEN "dates" ELSE IF "name" \in all THEN "name" ELSE "rejected"
    BY <2>10, FirstOfFour
  <2>12. v.ok => f = "none" /\ MbedTlsRefusalDetail(v) = "rejected"
    BY <2>5, <2>6, <2>7, <2>9, <2>11 DEF MbedTlsAll, FaultIs
  <2>13. ~v.ok => MbedTlsRefusalDetail(v) = f
    BY <2>5, <2>6, <2>7, <2>9, <2>11 DEF MbedTlsAll, FaultIs
  <2>14. VerdictTyped(v) /\ VerdictTyped(w)
    <3>1. u.carried \subseteq Details
      BY <2>5, DetailsAre DEF MbedTlsAll
    <3> QED
      BY <2>5, <2>6, <2>7, <2>8, <3>1 DEF MbedTlsAll, VerdictTyped, PinVerdicts
  <2> QED
    BY <1>1, <1>2, <1>3, <2>7, <2>8, <2>12, <2>13, <2>14 DEF Judged
<1> QED
  BY <1>6, <1>7

-----------------------------------------------------------------------------
(* wolfSSL *)

LEMMA CheckFailedForPinIs ==
  ASSUME NEW pin \in PinVerdicts
  PROVE  /\ pin = "Matched" => CheckFailedForPin(pin) = {}
         /\ pin = "DigestUnavailable" => CheckFailedForPin(pin) = {"DigestUnavailable"}
         /\ pin \notin {"Matched", "DigestUnavailable"} => CheckFailedForPin(pin) = {"fingerprint"}
BY DEF CheckFailedForPin

\* One call of the callback with nothing carried.
WolfSslFound(v, peer, depth, error, pin, t) ==
  /\ IsVerdict(t)
  /\ WaivesChain /\ error = "chain" =>
       /\ t.pin = pin
       /\ pin # "Matched" => ~t.ok /\ t.carried = CheckFailedForPin(pin)
       /\ pin = "Matched" => /\ t.ok <=> InDate(peer, depth)
                             /\ t.carried = IF InDate(peer, depth) THEN {} ELSE {"dates"}
  /\ ~(WaivesChain /\ error = "chain") /\ IsPinCheckedHere(error) =>
       /\ t.pin = pin
       /\ t.carried = CheckFailedForPin(pin) \cup CheckFailedFor(error)
       /\ t.ok <=> error = "none" /\ pin = "Matched"
  /\ ~(WaivesChain /\ error = "chain") /\ ~IsPinCheckedHere(error) =>
       /\ t.pin = v.pin
       /\ t.carried = CheckFailedFor(error)
       /\ t.ok <=> error = "none"

LEMMA WolfSslOneCall ==
  ASSUME NEW v, IsVerdict(v), v.carried = {}, NEW peer \in Peers, NEW depth, NEW error,
         NEW pin, pin = Authorise(config.pins, peer.leaf), NEW t, t = WolfSslVerifyPeer(v, peer, depth, error)
  PROVE  WolfSslFound(v, peer, depth, error, pin, t)
<1>1. PICK p : p = AuthoriseLeaf(v, peer)
  OBVIOUS
<1>2. pin \in PinVerdicts
  BY AuthoriseIs
<1>3. IsVerdict(p) /\ p.pin = pin /\ p.carried = CheckFailedForPin(pin)
  <2>1. p = [v EXCEPT !.carried = @ \cup CheckFailedForPin(pin), !.pin = pin]
    BY <1>1 DEF AuthoriseLeaf
  <2>2. PICK c : c = CheckFailedForPin(pin)
    OBVIOUS
  <2> QED
    BY <2>1, <2>2 DEF IsVerdict
<1>4. InDate(peer, depth) \in BOOLEAN
  BY DEF InDate, Peers
<1>5. CASE WaivesChain /\ error = "chain"
  <2>1. t = IF pin # "Matched" THEN [p EXCEPT !.ok = FALSE]
            ELSE [p EXCEPT !.ok = InDate(peer, depth),
                           !.carried = @ \cup IF InDate(peer, depth) THEN {} ELSE {"dates"}]
    BY <1>1, <1>3, <1>5 DEF WolfSslVerifyPeer, StandsWithoutASigner
  <2>2. CASE pin # "Matched"
    <3>1. IsVerdict(t) /\ t.pin = pin /\ ~t.ok /\ t.carried = CheckFailedForPin(pin)
      BY <1>3, <2>1, <2>2 DEF IsVerdict
    <3> QED
      BY <1>5, <2>2, <3>1 DEF WolfSslFound
  <2>3. CASE pin = "Matched"
    <3>1. p.carried = {}
      BY <1>2, <1>3, <2>3, CheckFailedForPinIs
    <3>2. /\ IsVerdict(t) /\ t.pin = pin /\ t.ok = InDate(peer, depth)
          /\ t.carried = IF InDate(peer, depth) THEN {} ELSE {"dates"}
      BY <1>3, <1>4, <2>1, <2>3, <3>1 DEF IsVerdict
    <3> QED
      BY <1>5, <2>3, <3>2 DEF WolfSslFound
  <2> QED
    BY <2>2, <2>3
<1>6. CASE ~(WaivesChain /\ error = "chain")
  <2>1. PICK w : w = IF IsPinCheckedHere(error) THEN p ELSE v
    OBVIOUS
  <2>2. t = [w EXCEPT !.carried = @ \cup CheckFailedFor(error),
                      !.ok = /\ error = "none"
                             /\ IsPinCheckedHere(error) => w.pin = "Matched"]
    BY <1>1, <1>6, <2>1 DEF WolfSslVerifyPeer
  <2>3. PICK c : c = CheckFailedFor(error)
    OBVIOUS
  <2>4. /\ IsVerdict(t) /\ t.pin = w.pin /\ t.carried = w.carried \cup c
        /\ t.ok <=> error = "none" /\ (IsPinCheckedHere(error) => w.pin = "Matched")
    <3>1. IsVerdict(w)
      BY <1>3, <2>1
    <3> QED
      BY <2>2, <2>3, <3>1 DEF IsVerdict
  <2>5. CASE IsPinCheckedHere(error)
    <3>1. t.carried = CheckFailedForPin(pin) \cup CheckFailedFor(error)
      BY <1>3, <2>1, <2>3, <2>4, <2>5
    <3> QED
      BY <1>3, <1>6, <2>1, <2>4, <2>5, <3>1 DEF WolfSslFound
  <2>6. CASE ~IsPinCheckedHere(error)
    <3>1. t.carried = CheckFailedFor(error)
      BY <2>1, <2>3, <2>4, <2>6
    <3> QED
      BY <1>6, <2>1, <2>4, <2>6, <3>1 DEF WolfSslFound
  <2> QED
    BY <2>5, <2>6
<1> QED
  BY <1>5, <1>6

\* What stands while no call has refused: nothing is carried, and an unsigned
\* chain is one that a pin waives, seen to match by the first call for it.
WolfSslStands(v, peer, pin, d) ==
  /\ IsVerdict(v) /\ v.ok /\ v.carried = {} /\ v.pin \in {"NoMatch", "Matched"}
  /\ v.pin = "Matched" => pin = "Matched"
  /\ (d = 0 \/ Top(peer) = 1) /\ ~Trusted(peer) =>
       ~config.anchors /\ Pinned /\ v.pin = "Matched"
  /\ d = 0 => InDate(peer, 0)
  /\ Top(peer) = 1 => InDate(peer, 1)

WolfSslRefused(v, fault) ==
  /\ IsVerdict(v) /\ ~v.ok /\ WolfSslRefusalDetail(v) = fault
  /\ v.carried \subseteq {"DigestUnavailable", "fingerprint", "chain", "dates", "name"}
  /\ v.pin \in PinVerdicts

\* The order in which wolfSSL's refused checks are named.
LEMMA WolfSslDetail ==
  ASSUME NEW v
  PROVE  WolfSslRefusalDetail(v) =
           IF "DigestUnavailable" \in v.carried THEN "DigestUnavailable"
           ELSE IF "fingerprint" \in v.carried THEN "fingerprint"
           ELSE IF "chain" \in v.carried THEN "chain"
           ELSE IF "dates" \in v.carried THEN "dates"
           ELSE IF "name" \in v.carried THEN "name" ELSE "rejected"
<1>1. PICK c : c = v.carried
  OBVIOUS
<1>2. WolfSslRefusalDetail(v) = FirstOf(<<"DigestUnavailable", "fingerprint", "chain", "dates", "name">>, c)
  BY <1>1 DEF WolfSslRefusalDetail
<1> QED
  BY <1>1, <1>2, FirstOfFive

\* One certificate: the call for its fault, if it has one.
LEMMA WolfSslOneCertificate ==
  ASSUME Usable, NEW peer \in Peers, NEW name, NEW pin, pin = Authorise(config.pins, peer.leaf),
         NEW f, FaultIs(f, peer, name, pin), NEW d \in {0, 1}, d <= Top(peer),
         NEW v, d = 0 => WolfSslStands(v, peer, pin, 1),
         d = 1 => v = FreshVerdict,
         NEW t, t = WolfSslCertificate(v, peer, d)
  PROVE  WolfSslStands(t, peer, pin, d) \/ WolfSslRefused(t, f)
<1>1. pin \in PinVerdicts /\ Top(peer) \in {0, 1}
  BY AuthoriseIs, PeerIs
<1>2. IsVerdict(v) /\ v.ok /\ v.carried = {} /\ v.pin \in {"NoMatch", "Matched"} /\ (v.pin = "Matched" => pin = "Matched")
  <2>1. CASE d = 0
    BY <2>1 DEF WolfSslStands
  <2>2. CASE d = 1
    <3>1. v = FreshVerdict
      BY <2>2
    <3> QED
      BY <3>1 DEF FreshVerdict, IsVerdict
  <2> QED
    BY <2>1, <2>2
<1>3. d = 0 /\ Top(peer) = 1 =>
        InDate(peer, 1) /\ (~Trusted(peer) => ~config.anchors /\ Pinned /\ v.pin = "Matched")
  BY DEF WolfSslStands
<1>4. ~(d > Top(peer))
  BY <1>1
<1>5. ~config.anchors => ~Trusted(peer) /\ WaivesChain /\ Pinned
  BY DEF Trusted, WaivesChain, Usable
<1>6. CASE Trusted(peer) /\ InDate(peer, d)
  <2>1. WolfSslFault(peer, d) = "none"
    BY <1>6 DEF WolfSslFault
  <2>2. t = v
    BY <1>4, <2>1 DEF WolfSslCertificate, WolfSslCall
  <2> QED
    BY <1>1, <1>2, <1>3, <1>6, <2>2 DEF WolfSslStands
<1>7. CASE ~Trusted(peer) \/ ~InDate(peer, d)
  <2>1. PICK error : error = IF ~Trusted(peer) THEN "chain" ELSE "dates"
    OBVIOUS
  <2>2. WolfSslFault(peer, d) = error /\ error # "none"
    BY <1>7, <2>1 DEF WolfSslFault
  <2>3. t = WolfSslVerifyPeer(v, peer, d, error)
    BY <1>2, <1>4, <2>2 DEF WolfSslCertificate, WolfSslCall
  <2>4. WolfSslFound(v, peer, d, error, pin, t)
    BY <1>2, <2>3, WolfSslOneCall
  <2>5. CASE WaivesChain
    <3>1. error = "chain" /\ Pinned /\ ~config.anchors /\ ~Trusted(peer)
      BY <2>1, <2>5 DEF WaivesChain, Trusted
    <3>2. CASE pin # "Matched"
      <4>1. IsVerdict(t) /\ ~t.ok /\ t.pin = pin /\ t.carried = CheckFailedForPin(pin)
        BY <2>4, <2>5, <3>1, <3>2 DEF WolfSslFound
      <4>2. f = IF pin = "DigestUnavailable" THEN "DigestUnavailable" ELSE "fingerprint"
        BY <3>1, <3>2 DEF FaultIs
      <4> QED
        BY <1>1, <3>2, <4>1, <4>2, CheckFailedForPinIs, WolfSslDetail DEF WolfSslRefused
    <3>3. CASE pin = "Matched" /\ ~InDate(peer, d)
      <4>1. IsVerdict(t) /\ ~t.ok /\ t.pin = pin /\ t.carried = {"dates"}
        BY <2>4, <2>5, <3>1, <3>3 DEF WolfSslFound
      <4>2. f = "dates"
        BY <1>1, <3>1, <3>3 DEF FaultIs
      <4> QED
        BY <1>1, <4>1, <4>2, WolfSslDetail DEF WolfSslRefused
    <3>4. CASE pin = "Matched" /\ InDate(peer, d)
      <4>1. IsVerdict(t) /\ t.ok /\ t.pin = pin /\ t.carried = {}
        BY <2>4, <2>5, <3>1, <3>4 DEF WolfSslFound
      <4> QED
        BY <1>1, <1>3, <3>1, <3>4, <4>1 DEF WolfSslStands
    <3> QED
      BY <3>2, <3>3, <3>4
  <2>6. CASE ~WaivesChain
    <3>1. config.anchors
      BY <1>5, <2>6
    <3>2. f = IF Pinned /\ pin = "DigestUnavailable" THEN "DigestUnavailable"
              ELSE IF Pinned /\ pin # "Matched" THEN "fingerprint" ELSE error
      BY <1>1, <1>7, <2>1, <3>1 DEF FaultIs
    <3>3. CheckFailedFor(error) = {error} /\ error \in {"chain", "dates"}
      BY <2>1 DEF CheckFailedFor
    <3>4. CASE Pinned
      <4>1. IsPinCheckedHere(error)
        BY <2>2, <3>4 DEF IsPinCheckedHere
      <4>2. IsVerdict(t) /\ ~t.ok /\ t.pin = pin /\ t.carried = CheckFailedForPin(pin) \cup {error}
        BY <2>2, <2>4, <2>6, <3>3, <4>1 DEF WolfSslFound
      <4>3. CASE pin = "Matched"
        BY <1>1, <3>2, <3>3, <4>2, <4>3, CheckFailedForPinIs, WolfSslDetail DEF WolfSslRefused
      <4>4. CASE pin = "DigestUnavailable"
        BY <1>1, <3>2, <3>3, <3>4, <4>2, <4>4, CheckFailedForPinIs, WolfSslDetail DEF WolfSslRefused
      <4>5. CASE pin \notin {"Matched", "DigestUnavailable"}
        BY <1>1, <3>2, <3>3, <3>4, <4>2, <4>5, CheckFailedForPinIs, WolfSslDetail DEF WolfSslRefused
      <4> QED
        BY <4>3, <4>4, <4>5
    <3>5. CASE ~Pinned
      <4>1. ~IsPinCheckedHere(error)
        BY <3>5 DEF IsPinCheckedHere
      <4>2. IsVerdict(t) /\ ~t.ok /\ t.pin = v.pin /\ t.carried = {error}
        BY <2>2, <2>4, <2>6, <3>3, <4>1 DEF WolfSslFound
      <4> QED
        BY <1>2, <3>2, <3>3, <3>5, <4>2, WolfSslDetail DEF WolfSslRefused, PinVerdicts
    <3> QED
      BY <3>4, <3>5
  <2> QED
    BY <2>5, <2>6
<1> QED
  BY <1>6, <1>7

\* The library is done and nothing was refused: only a pin that could not be
\* compared in the callback is left.
WolfSslPassed(v, peer, name, pin) ==
  /\ IsVerdict(v) /\ v.ok /\ v.carried = {} /\ v.pin \in {"NoMatch", "Matched"}
  /\ v.pin = "Matched" => pin = "Matched"
  /\ config.anchors => Trusted(peer)
  /\ InDate(peer, 0) /\ (Top(peer) = 1 => InDate(peer, 1)) /\ ~Misnamed(peer, name)
  /\ Pinned /\ v.pin # "Matched" => library = "WolfSslAfterHandshake"

\* wolfSSL: every call of the three builds, from the top of the chain down.
LEMMA WolfSslCallsJudge ==
  ASSUME Usable, IsWolfSsl, BuildCanEnforceBoth, NEW peer \in Peers, NEW name,
         NEW pin, pin = Authorise(config.pins, peer.leaf), NEW f, FaultIs(f, peer, name, pin),
         NEW v, v = WolfSslCalls(FreshVerdict, peer, name)
  PROVE  WolfSslPassed(v, peer, name, pin) \/ WolfSslRefused(v, f)
<1>1. pin \in PinVerdicts /\ Top(peer) \in {0, 1}
  BY AuthoriseIs, PeerIs
<1>2. PICK u : u = FreshVerdict
  OBVIOUS
<1>3. PICK a : a = WolfSslCertificate(u, peer, 1)
  OBVIOUS
<1>4. PICK b : b = WolfSslCertificate(a, peer, 0)
  OBVIOUS
<1>5. PICK c : c = WolfSslCall(b, Misnamed(peer, name), peer, 0, "name")
  OBVIOUS
<1>6. v = WolfSslCall(c, (WolfSslFault(peer, 0) = "none" /\ ~Misnamed(peer, name)) /\ library = "WolfSslInCallback",
                      peer, 0, "none")
  BY <1>2, <1>3, <1>4, <1>5 DEF WolfSslCalls
<1>7. WolfSslStands(a, peer, pin, 1) \/ WolfSslRefused(a, f)
  <2>1. CASE Top(peer) = 0
    <3>1. a = u
      BY <1>3, <2>1 DEF WolfSslCertificate
    <3>2. IsVerdict(a) /\ a.ok /\ a.carried = {} /\ a.pin = "NoMatch"
      BY <1>2, <3>1 DEF FreshVerdict, IsVerdict
    <3> QED
      BY <2>1, <3>2 DEF WolfSslStands
  <2>2. CASE Top(peer) = 1
    <3> DEFINE d == 1
    <3>1. d \in {0, 1} /\ d <= Top(peer) /\ a = WolfSslCertificate(u, peer, d) /\ d # 0
      BY <1>3, <2>2
    <3> HIDE DEF d
    <3>2. WolfSslStands(a, peer, pin, d) \/ WolfSslRefused(a, f)
      BY <1>2, <3>1, WolfSslOneCertificate
    <3> QED
      BY <3>2 DEF d
  <2> QED
    BY <1>1, <2>1, <2>2
<1>8. WolfSslStands(b, peer, pin, 0) \/ WolfSslRefused(b, f)
  <2>1. CASE WolfSslRefused(a, f)
    BY <1>4, <2>1 DEF WolfSslCertificate, WolfSslCall, WolfSslRefused
  <2>2. CASE WolfSslStands(a, peer, pin, 1)
    <3> DEFINE d == 0
    <3>1. d \in {0, 1} /\ d <= Top(peer) /\ b = WolfSslCertificate(a, peer, d) /\ d # 1
      BY <1>1, <1>4
    <3> HIDE DEF d
    <3>2. WolfSslStands(b, peer, pin, d) \/ WolfSslRefused(b, f)
      BY <2>2, <3>1, WolfSslOneCertificate
    <3> QED
      BY <3>2 DEF d
  <2> QED
    BY <1>7, <2>1, <2>2
<1>9. CASE WolfSslRefused(b, f)
  <2>1. c = b
    BY <1>5, <1>9 DEF WolfSslCall, WolfSslRefused
  <2>2. v = b
    BY <1>6, <1>9, <2>1 DEF WolfSslCall, WolfSslRefused
  <2> QED
    BY <1>9, <2>2
<1>10. CASE WolfSslStands(b, peer, pin, 0)
  <2>1. /\ IsVerdict(b) /\ b.ok /\ b.carried = {} /\ b.pin \in {"NoMatch", "Matched"}
        /\ b.pin = "Matched" => pin = "Matched"
        /\ ~Trusted(peer) => ~config.anchors /\ Pinned /\ b.pin = "Matched"
        /\ InDate(peer, 0) /\ (Top(peer) = 1 => InDate(peer, 1))
    BY <1>10 DEF WolfSslStands
  <2>2. /\ ~config.anchors => ~Trusted(peer) /\ WaivesChain /\ Pinned
        /\ config.anchors => Trusted(peer) /\ ~WaivesChain
    BY <2>1 DEF Trusted, WaivesChain, Usable
  <2>3. CASE Misnamed(peer, name)
    <3>1. c = WolfSslVerifyPeer(b, peer, 0, "name")
      BY <1>5, <2>1, <2>3 DEF WolfSslCall
    <3>2. WolfSslFound(b, peer, 0, "name", pin, c)
      BY <2>1, <3>1, WolfSslOneCall
    <3>3. CheckFailedFor("name") = {"name"}
      BY DEF CheckFailedFor
    <3>4. WolfSslRefused(c, f)
      <4>1. CASE ~Pinned
        <5>1. ~IsPinCheckedHere("name")
          BY <4>1 DEF IsPinCheckedHere
        <5>2. IsVerdict(c) /\ ~c.ok /\ c.pin = b.pin /\ c.carried = {"name"}
          BY <3>2, <3>3, <5>1 DEF WolfSslFound
        <5>3. f = "name"
          BY <1>1, <2>1, <2>2, <2>3, <4>1 DEF FaultIs
        <5> QED
          BY <2>1, <5>2, <5>3, WolfSslDetail DEF WolfSslRefused, PinVerdicts
      <4>2. CASE Pinned
        <5>1. IsPinCheckedHere("name")
          BY <4>2 DEF IsPinCheckedHere
        <5>2. IsVerdict(c) /\ ~c.ok /\ c.pin = pin /\ c.carried = CheckFailedForPin(pin) \cup {"name"}
          BY <3>2, <3>3, <5>1 DEF WolfSslFound
        <5>3. f = IF pin = "DigestUnavailable" THEN "DigestUnavailable"
                  ELSE IF pin # "Matched" THEN "fingerprint" ELSE "name"
          BY <1>1, <2>1, <2>2, <2>3, <4>2 DEF FaultIs
        <5>4. CASE pin = "Matched"
          BY <1>1, <5>2, <5>3, <5>4, CheckFailedForPinIs, WolfSslDetail DEF WolfSslRefused
        <5>5. CASE pin = "DigestUnavailable"
          BY <1>1, <5>2, <5>3, <5>5, CheckFailedForPinIs, WolfSslDetail DEF WolfSslRefused
        <5>6. CASE pin \notin {"Matched", "DigestUnavailable"}
          BY <1>1, <5>2, <5>3, <5>6, CheckFailedForPinIs, WolfSslDetail DEF WolfSslRefused
        <5> QED
          BY <5>4, <5>5, <5>6
      <4> QED
        BY <4>1, <4>2
    <3>5. v = c
      BY <1>6, <3>4 DEF WolfSslCall, WolfSslRefused
    <3> QED
      BY <3>4, <3>5
  <2>4. CASE ~Misnamed(peer, name)
    <3>1. c = b
      BY <1>5, <2>4 DEF WolfSslCall
    <3>2. CASE Trusted(peer) /\ library = "WolfSslInCallback"
      <4>1. WolfSslFault(peer, 0) = "none"
        BY <2>1, <3>2 DEF WolfSslFault
      <4>2. v = WolfSslVerifyPeer(b, peer, 0, "none")
        BY <1>6, <2>1, <2>4, <3>1, <3>2, <4>1 DEF WolfSslCall
      <4>3. WolfSslFound(b, peer, 0, "none", pin, v)
        BY <2>1, <4>2, WolfSslOneCall
      <4>4. CheckFailedFor("none") = {}
        BY DEF CheckFailedFor
      <4>5. CASE Pinned
        <5>1. IsPinCheckedHere("none")
          BY <3>2, <4>5 DEF IsPinCheckedHere
        <5>2. IsVerdict(v) /\ v.pin = pin /\ v.carried = CheckFailedForPin(pin) /\ (v.ok <=> pin = "Matched")
          BY <4>3, <4>4, <5>1 DEF WolfSslFound
        <5>3. CASE pin = "Matched"
          <6>1. v.carried = {}
            BY <1>1, <5>2, <5>3, CheckFailedForPinIs
          <6> QED
            BY <2>1, <2>2, <2>4, <3>2, <5>2, <5>3, <6>1 DEF WolfSslPassed
        <5>4. CASE pin # "Matched"
          <6>1. f = IF pin = "DigestUnavailable" THEN "DigestUnavailable" ELSE "fingerprint"
            BY <4>5, <5>4 DEF FaultIs
          <6> QED
            BY <1>1, <5>2, <5>4, <6>1, CheckFailedForPinIs, WolfSslDetail DEF WolfSslRefused
        <5> QED
          BY <5>3, <5>4
      <4>6. CASE ~Pinned
        <5>1. ~IsPinCheckedHere("none")
          BY <4>6 DEF IsPinCheckedHere
        <5>2. IsVerdict(v) /\ v.pin = b.pin /\ v.carried = {} /\ v.ok
          BY <4>3, <4>4, <5>1 DEF WolfSslFound
        <5> QED
          BY <2>1, <2>2, <2>4, <4>6, <5>2 DEF WolfSslPassed
      <4> QED
        BY <4>5, <4>6
    <3>3. CASE ~(Trusted(peer) /\ library = "WolfSslInCallback")
      <4>1. ~Trusted(peer) => WolfSslFault(peer, 0) = "chain"
        BY DEF WolfSslFault
      <4>2. v = b
        BY <1>6, <3>1, <3>3, <4>1 DEF WolfSslCall
      <4>3. Trusted(peer) /\ Pinned => library = "WolfSslAfterHandshake"
        BY <2>2, <3>3 DEF BuildCanEnforceBoth, IsWolfSsl, Usable
      <4> QED
        BY <2>1, <2>2, <2>4, <4>2, <4>3 DEF WolfSslPassed
    <3> QED
      BY <3>2, <3>3
  <2> QED
    BY <2>3, <2>4
<1> QED
  BY <1>8, <1>9, <1>10

\* wolfSSL: a pin the callback could not compare is compared before the session
\* counts as open.
LEMMA WolfSslJudges ==
  ASSUME Usable, IsWolfSsl, BuildCanEnforceBoth, NEW peer \in Peers \cup {NoCertificate},
         NEW s, Verdict(s) = FreshVerdict, NEW name, name = stream[s].name,
         NEW v, v = Verify(s, peer), NEW w, w = ChecksAfterHandshake(v, peer)
  PROVE  Judged(v, w, FirstFault(peer, name))
<1>1. PICK f : f = FirstFault(peer, name)
  OBVIOUS
<1>2. library # "OpenSsl" /\ ~IsMbedTls /\ f \in Details
  BY <1>1, FirstFaultTyped DEF IsMbedTls, IsWolfSsl
<1>3. \A x : RefusalDetail(x) = WolfSslRefusalDetail(x)
  BY <1>2 DEF RefusalDetail
<1>4. w = PinIsConfirmed(v, peer)
  BY <1>2 DEF ChecksAfterHandshake
<1>5. PICK pin : pin = Authorise(config.pins, peer.leaf)
  OBVIOUS
<1>6. pin \in PinVerdicts
  BY <1>5, AuthoriseIs
<1>7. PICK p : p = AuthoriseLeaf(v, peer)
  OBVIOUS
<1>8. IsVerdict(v) => IsVerdict(p) /\ p.ok = v.ok /\ p.pin = pin /\ p.carried = v.carried \cup CheckFailedForPin(pin)
  <2>1. p = [v EXCEPT !.carried = @ \cup CheckFailedForPin(pin), !.pin = pin]
    BY <1>5, <1>7 DEF AuthoriseLeaf
  <2>2. PICK c : c = CheckFailedForPin(pin)
    OBVIOUS
  <2> QED
    BY <2>1, <2>2 DEF IsVerdict
<1>9. PICK x : x = IF v.pin # "Matched" /\ library = "WolfSslAfterHandshake" THEN p ELSE v
  OBVIOUS
<1>10. w = IF ~Pinned THEN v ELSE IF x.pin = "Matched" THEN x
           ELSE [x EXCEPT !.ok = FALSE, !.carried = @ \cup {"fingerprint"}]
  BY <1>4, <1>7, <1>9 DEF PinIsConfirmed
<1>11. IsVerdict(v) => IsVerdict(x)
  BY <1>8, <1>9
<1>12. CheckFailedForPin(pin) \subseteq Details
  BY <1>6, CheckFailedForPinIs, DetailsAre
<1>13. ASSUME VerdictTyped(v) PROVE VerdictTyped(w)
  <2>1. IsVerdict(v) /\ v.carried \subseteq Details /\ v.pin \in PinVerdicts
    BY <1>13 DEF VerdictTyped
  <2>2. IsVerdict(x) /\ x.carried \subseteq Details /\ x.pin \in PinVerdicts
    BY <1>6, <1>8, <1>9, <1>12, <2>1
  <2>3. CASE w = v \/ w = x
    BY <2>1, <2>2, <2>3 DEF VerdictTyped
  <2>4. CASE w = [x EXCEPT !.ok = FALSE, !.carried = @ \cup {"fingerprint"}]
    <3>1. IsVerdict(w) /\ w.carried = x.carried \cup {"fingerprint"} /\ w.pin = x.pin
      BY <2>2, <2>4 DEF IsVerdict
    <3> QED
      BY <2>2, <3>1, DetailsAre DEF VerdictTyped
  <2> QED
    BY <1>10, <2>3, <2>4
<1>14. CASE peer = NoCertificate
  <2>1. v = [FreshVerdict EXCEPT !.ok = FALSE]
    BY <1>2, <1>14 DEF Verify
  <2>2. IsVerdict(v) /\ ~v.ok /\ v.carried = {} /\ v.pin = "NoMatch"
    BY <2>1 DEF FreshVerdict, IsVerdict
  <2>3. VerdictTyped(v)
    BY <2>2 DEF VerdictTyped, PinVerdicts
  <2>4. WolfSslRefusalDetail(v) = "rejected"
    BY <2>2, WolfSslDetail
  <2>5. f = "rejected"
    BY <1>1, <1>2, <1>14 DEF FirstFault
  <2> QED
    BY <1>1, <1>2, <1>3, <1>13, <2>2, <2>3, <2>4, <2>5 DEF Judged
<1>15. CASE peer \in Peers
  <2>1. peer # NoCertificate
    BY <1>15, PeerIs
  <2>2. v = WolfSslCalls(FreshVerdict, peer, name)
    BY <1>2, <2>1 DEF Verify
  <2>3. FaultIs(f, peer, name, pin)
    BY <1>1, <1>5, <1>15, FirstFaultIs
  <2>4. WolfSslPassed(v, peer, name, pin) \/ WolfSslRefused(v, f)
    BY <1>5, <1>15, <2>2, <2>3, WolfSslCallsJudge
  <2>5. CASE WolfSslRefused(v, f)
    <3>1. VerdictTyped(v)
      BY <2>5, DetailsAre DEF WolfSslRefused, VerdictTyped
    <3> QED
      BY <1>1, <1>2, <1>3, <1>13, <2>5, <3>1 DEF Judged, WolfSslRefused
  <2>6. CASE WolfSslPassed(v, peer, name, pin)
    <3>1. /\ IsVerdict(v) /\ v.ok /\ v.carried = {} /\ v.pin \in {"NoMatch", "Matched"}
          /\ v.pin = "Matched" => pin = "Matched"
          /\ Pinned /\ v.pin # "Matched" => library = "WolfSslAfterHandshake"
      BY <2>6 DEF WolfSslPassed
    <3>2. VerdictTyped(v)
      BY <3>1 DEF VerdictTyped, PinVerdicts
    <3>3. WolfSslRefusalDetail(v) = "rejected"
      BY <3>1, WolfSslDetail
    <3>4. (Pinned => pin = "Matched") => f = "none"
      BY <1>6, <2>3, <2>6 DEF WolfSslPassed, FaultIs
    <3>5. Pinned /\ pin # "Matched" => f = IF pin = "DigestUnavailable" THEN "DigestUnavailable" ELSE "fingerprint"
      BY <2>3 DEF FaultIs
    <3>6. w.ok => f = "none"
      <4>1. CASE ~Pinned
        BY <3>4, <4>1
      <4>2. CASE Pinned /\ x.pin = "Matched"
        BY <1>8, <1>9, <3>1, <3>4, <4>2
      <4>3. CASE Pinned /\ x.pin # "Matched"
        <5>1. IsVerdict(x) /\ w = [x EXCEPT !.ok = FALSE, !.carried = @ \cup {"fingerprint"}]
          BY <1>10, <1>11, <3>1, <4>3
        <5>2. ~w.ok
          BY <5>1 DEF IsVerdict
        <5> QED
          BY <5>2
      <4> QED
        BY <4>1, <4>2, <4>3
    <3>7. ~w.ok => WolfSslRefusalDetail(w) = f
      <4>1. CASE ~Pinned \/ x.pin = "Matched"
        BY <1>8, <1>9, <1>10, <3>1, <4>1
      <4>2. CASE Pinned /\ x.pin # "Matched"
        <5>1. IsVerdict(x) /\ w = [x EXCEPT !.ok = FALSE, !.carried = @ \cup {"fingerprint"}]
          BY <1>10, <1>11, <3>1, <4>2
        <5>2. w.carried = x.carried \cup {"fingerprint"}
          BY <5>1 DEF IsVerdict
        <5>3. x.pin = pin /\ pin # "Matched" /\ x.carried = CheckFailedForPin(pin)
          BY <1>8, <1>9, <3>1, <4>2
        <5> QED
          BY <1>6, <3>5, <4>2, <5>2, <5>3, CheckFailedForPinIs, WolfSslDetail
      <4> QED
        BY <4>1, <4>2
    <3> QED
      BY <1>1, <1>2, <1>3, <1>13, <3>1, <3>2, <3>3, <3>6, <3>7 DEF Judged
  <2> QED
    BY <2>4, <2>5, <2>6
<1> QED
  BY <1>14, <1>15

-----------------------------------------------------------------------------
(* The streams and the credentials they share. *)

Held == {"session", "name", "handshake", "open"}
Installed == {s \in Streams : stream[s].credentialsInstalled}

\* One stream: what it holds at each stage of Open, that the verdicts of the last
\* handshake are gone before the next, and that a handshake only starts with
\* credentials the stream accepted.
TlsStreamInv(r, faults, mbed) ==
  /\ r \in StreamType
  /\ r.opens = IF r.stage = "closed" THEN 0 ELSE 1
  /\ r.context <=> r.stage \notin {"closed", "context"}
  /\ r.session <=> r.stage \in {"name", "handshake", "open"}
  /\ r.credentialsInstalled <=> r.stage \in Held \cup {"failed"}
  /\ r.stage \notin {"closed", "open"} => r.carried = {} /\ r.pin = "NoMatch" /\ r.fault = "none"
  /\ r.stage \in {"session", "name", "handshake"} => faults = {}
  /\ r.stage = "open" => r.entitled /\ r.fault = "none"
  /\ r.fault # "none" => r.named = r.fault
  /\ r.identity.supplied /\ ~r.identity.told => r.identity.cert /\ r.identity.key
  /\ mbed => r.identity.cert = r.identity.key

\* The Mbed TLS PEM credentials' books.
TlsAccounts ==
  library = "MbedTls" =>
    /\ IsFiniteSet(Installed) /\ outstanding = Cardinality(Installed)
    /\ \A s \in Streams : stream[s].stage \in Held => material

\* The inductive invariant.
TlsInv ==
  /\ library \in Libraries /\ config \in [anchors : BOOLEAN, pins : PinLists]
  /\ stream = [s \in Streams |-> stream[s]]
  /\ \A s \in Streams : TlsStreamInv(stream[s], InstalledFaults, IsMbedTls)
  /\ TlsAccounts

IdentityType == [supplied : BOOLEAN, cert : BOOLEAN, key : BOOLEAN, told : BOOLEAN]

\* A stream without an install holds no identity.
LEMMA NoIdentityIs ==
  /\ NoIdentity \in IdentityType
  /\ ~NoIdentity.supplied /\ NoIdentity.cert = NoIdentity.key
BY DEF NoIdentity, Kept, Anonymous, Identity, IdentityType

\* Whatever the client supplied and however it failed to install.
KeptRight(k, mbed) ==
  /\ k \in IdentityType
  /\ k.supplied /\ ~k.told => k.cert /\ k.key
  /\ mbed => k.cert = k.key

\* An identity as Install leaves it, of a client that supplied one.
IdentityFits(i) ==
  i.cert \in BOOLEAN /\ i.key \in BOOLEAN /\ (i.told = "none" => i.cert /\ i.key)
IdentityIsWhole(i) == IdentityFits(i) /\ i.cert = i.key

LEMMA WholeFits == IdentityIsWhole(Whole)
BY DEF IdentityFits, IdentityIsWhole, Whole, Identity

LEMMA WithoutFits ==
  ASSUME NEW warning, warning # "none", NEW i \in Without(warning)
  PROVE  IdentityIsWhole(i)
<1>1. i = [cert |-> FALSE, key |-> FALSE, told |-> warning]
  BY DEF Without, Identity
<1>2. i.cert = FALSE /\ i.key = FALSE /\ i.told = warning
  BY <1>1
<1> QED
  BY <1>2 DEF IdentityFits, IdentityIsWhole

LEMMA AtMostCertificateFits ==
  ASSUME NEW warning, warning # "none", NEW i \in AtMostCertificate(warning)
  PROVE  IdentityFits(i)
<1>1. PICK cert \in BOOLEAN : i = [cert |-> cert, key |-> FALSE, told |-> warning]
  BY DEF AtMostCertificate, Identity
<1>2. i.cert = cert /\ i.key = FALSE /\ i.told = warning
  BY <1>1
<1> QED
  BY <1>2 DEF IdentityFits

LEMMA MispairedFits ==
  ASSUME NEW i, i = Identity(TRUE, FALSE, "NotInstalled") \/ i = Identity(TRUE, TRUE, "Mismatched")
  PROVE  IdentityFits(i)
<1>1. CASE i = Identity(TRUE, FALSE, "NotInstalled")
  <2>1. i.cert = TRUE /\ i.key = FALSE /\ i.told = "NotInstalled"
    BY <1>1 DEF Identity
  <2> QED
    BY <2>1 DEF IdentityFits
<1>2. CASE i = Identity(TRUE, TRUE, "Mismatched")
  <2>1. i.cert = TRUE /\ i.key = TRUE /\ i.told = "Mismatched"
    BY <1>2 DEF Identity
  <2> QED
    BY <2>1 DEF IdentityFits
<1> QED
  BY <1>1, <1>2, Zenon

LEMMA MbedTlsIdentitiesFit ==
  ASSUME NEW M, M = MbedTlsPemBufferIdentity \/ M = MbedTlsHandleIdentity,
         NEW client \in DOMAIN M, NEW i \in M[client]
  PROVE  IF client = "none" THEN i = Anonymous ELSE IdentityIsWhole(i)
<1>1. i \in Without("Incomplete") \cup Without("NotInstalled") \cup Without("Mismatched")
            \cup Without("PemNotTerminated") \cup Without("NotParsed") \cup {Whole}
      \/ (client = "none" /\ i = Anonymous)
  BY DEF MbedTlsPemBufferIdentity, MbedTlsHandleIdentity
<1>2. client = "none" => i = Anonymous
  BY DEF MbedTlsPemBufferIdentity, MbedTlsHandleIdentity
<1> QED
  BY <1>1, <1>2, WholeFits, WithoutFits

LEMMA OpenSslIdentitiesFit ==
  ASSUME NEW client \in DOMAIN OpenSslPemFileIdentity, NEW i \in OpenSslPemFileIdentity[client]
  PROVE  IF client = "none" THEN i = Anonymous ELSE IdentityFits(i)
<1>1. CASE client = "none"
  BY <1>1 DEF OpenSslPemFileIdentity
<1>2. CASE client # "none"
  <2>1. client \in {"half", "pair", "mispaired", "unterminated", "unreadable"}
    BY <1>2 DEF OpenSslPemFileIdentity
  <2>2. CASE client = "half"
    BY <2>2, WithoutFits DEF OpenSslPemFileIdentity, IdentityIsWhole
  <2>3. CASE client = "pair"
    BY <2>3, WholeFits, AtMostCertificateFits DEF OpenSslPemFileIdentity, IdentityIsWhole
  <2>4. CASE client = "mispaired"
    BY <2>4, MispairedFits DEF OpenSslPemFileIdentity
  <2>5. CASE client \in {"unterminated", "unreadable"}
    BY <2>5, AtMostCertificateFits DEF OpenSslPemFileIdentity
  <2> QED
    BY <1>2, <2>1, <2>2, <2>3, <2>4, <2>5
<1> QED
  BY <1>1, <1>2

LEMMA WolfSslIdentitiesFit ==
  ASSUME NEW client \in DOMAIN WolfSslPemBufferIdentity, NEW i \in WolfSslPemBufferIdentity[client]
  PROVE  IF client = "none" THEN i = Anonymous ELSE IdentityFits(i)
<1>1. CASE client = "none"
  BY <1>1 DEF WolfSslPemBufferIdentity
<1>2. CASE client # "none"
  <2>1. client \in {"half", "pair", "mispaired", "unterminated", "unreadable"}
    BY <1>2 DEF WolfSslPemBufferIdentity
  <2>2. CASE client \in {"half", "unterminated"}
    BY <2>2, WithoutFits DEF WolfSslPemBufferIdentity, IdentityIsWhole
  <2>3. CASE client = "pair"
    BY <2>3, WholeFits, AtMostCertificateFits DEF WolfSslPemBufferIdentity, IdentityIsWhole
  <2>4. CASE client = "mispaired"
    BY <2>4, WholeFits DEF WolfSslPemBufferIdentity, IdentityIsWhole
  <2>5. CASE client = "unreadable"
    BY <2>5, AtMostCertificateFits DEF WolfSslPemBufferIdentity
  <2> QED
    BY <1>2, <2>1, <2>2, <2>3, <2>4, <2>5
<1> QED
  BY <1>1, <1>2

\* What a stream keeps of an Install: whole, or its fault was told; never half
\* of one under Mbed TLS.
LEMMA KeptIs ==
  ASSUME NEW client \in DOMAIN ConfigureClientIdentity, NEW identity \in ConfigureClientIdentity[client],
         NEW k, k = Kept(client, identity)
  PROVE  KeptRight(k, IsMbedTls)
<1>1. PICK M : M = ConfigureClientIdentity
  OBVIOUS
<1>2. \/ M = MbedTlsPemBufferIdentity \/ M = MbedTlsHandleIdentity
      \/ ~IsMbedTls /\ (M = OpenSslPemFileIdentity \/ M = WolfSslPemBufferIdentity)
  BY <1>1 DEF ConfigureClientIdentity, By, IsMbedTls
<1>3. IF client = "none" THEN identity = Anonymous ELSE IdentityFits(identity) /\ (IsMbedTls => IdentityIsWhole(identity))
  <2>1. CASE M = MbedTlsPemBufferIdentity \/ M = MbedTlsHandleIdentity
    BY <1>1, <2>1, MbedTlsIdentitiesFit DEF IdentityIsWhole
  <2>2. CASE ~IsMbedTls /\ (M = OpenSslPemFileIdentity \/ M = WolfSslPemBufferIdentity)
    BY <1>1, <2>2, OpenSslIdentitiesFit, WolfSslIdentitiesFit
  <2> QED
    BY <1>2, <2>1, <2>2
<1>4. k = [supplied |-> client # "none", cert |-> identity.cert, key |-> identity.key, told |-> identity.told # "none"]
  BY DEF Kept
<1>5. CASE client = "none"
  <2>1. identity.cert = FALSE /\ identity.key = FALSE /\ identity.told = "none"
    BY <1>3, <1>5 DEF Anonymous, Identity
  <2>2. k = [supplied |-> FALSE, cert |-> FALSE, key |-> FALSE, told |-> FALSE]
    BY <1>4, <1>5, <2>1
  <2>3. k \in IdentityType /\ k.supplied = FALSE /\ k.cert = FALSE /\ k.key = FALSE
    BY <2>2 DEF IdentityType
  <2> QED
    BY <2>3 DEF KeptRight
<1>6. CASE client # "none"
  <2>1. /\ identity.cert \in BOOLEAN /\ identity.key \in BOOLEAN
        /\ identity.told = "none" => identity.cert /\ identity.key
        /\ IsMbedTls => identity.cert = identity.key
    BY <1>3, <1>6 DEF IdentityFits, IdentityIsWhole
  <2>2. k \in IdentityType /\ k.cert = identity.cert /\ k.key = identity.key /\ k.told = (identity.told # "none")
    BY <1>4, <2>1 DEF IdentityType
  <2> QED
    BY <2>1, <2>2 DEF KeptRight
<1> QED
  BY <1>5, <1>6

\* A stream field by field.
IsStream(r) ==
  r = [stage |-> r.stage, opens |-> r.opens, context |-> r.context, session |-> r.session,
       credentialsInstalled |-> r.credentialsInstalled, name |-> r.name, slept |-> r.slept,
       carried |-> r.carried, pin |-> r.pin, identity |-> r.identity,
       entitled |-> r.entitled, named |-> r.named, fault |-> r.fault]

StreamTyped(r) ==
  /\ r.stage \in Stages /\ r.opens \in 0..2 /\ r.context \in BOOLEAN /\ r.session \in BOOLEAN
  /\ r.credentialsInstalled \in BOOLEAN /\ r.name \in {"none", "dotted", "host"} /\ r.slept \in 0..Budget
  /\ r.carried \in SUBSET Details /\ r.pin \in PinVerdicts /\ r.identity \in IdentityType
  /\ r.entitled \in BOOLEAN /\ r.named \in Details /\ r.fault \in Details

LEMMA StreamIs ==
  ASSUME NEW r
  PROVE  r \in StreamType <=> IsStream(r) /\ StreamTyped(r)
<1>1. ASSUME r \in StreamType PROVE IsStream(r) /\ StreamTyped(r)
  BY <1>1 DEF StreamType, IsStream, StreamTyped, PinVerdicts, IdentityType
<1>2. ASSUME IsStream(r), StreamTyped(r) PROVE r \in StreamType
  BY <1>2 DEF StreamType, IsStream, StreamTyped, PinVerdicts, IdentityType
<1> QED
  BY <1>1, <1>2

\* What CloseWith leaves of a stream.
ClosedOf(r) ==
  [r EXCEPT !.stage = "closed", !.session = FALSE, !.context = FALSE, !.credentialsInstalled = FALSE,
            !.opens = 0, !.slept = 0, !.identity = NoIdentity]

ClosedInv(n, faults, mbed) ==
  TlsStreamInv(n, faults, mbed) /\ n.stage = "closed" /\ n.credentialsInstalled = FALSE

\* A closed stream satisfies the invariant, whatever it was before.
LEMMA ClosedIs ==
  ASSUME NEW r \in StreamType, r.fault # "none" => r.named = r.fault, NEW n,
         n = ClosedOf(r),
         NEW faults, NEW mbed
  PROVE  ClosedInv(n, faults, mbed)
<1>1. PICK none : none = NoIdentity
  OBVIOUS
<1>2. none \in IdentityType /\ ~none.supplied /\ none.cert = none.key
  BY <1>1, NoIdentityIs
<1>3. PICK zero : zero = 0
  OBVIOUS
<1>4. zero \in 0..Budget /\ zero \in 0..2
  BY <1>3, TlsAssumption
<1>5. n = [r EXCEPT !.stage = "closed", !.session = FALSE, !.context = FALSE,
                    !.credentialsInstalled = FALSE, !.opens = zero, !.slept = zero, !.identity = none]
  BY <1>1, <1>3 DEF ClosedOf
<1>6. /\ n \in StreamType /\ n.stage = "closed" /\ n.session = FALSE /\ n.context = FALSE
      /\ n.credentialsInstalled = FALSE /\ n.opens = zero /\ n.identity = none
      /\ n.fault = r.fault /\ n.named = r.named
  <2>1. IsStream(r) /\ StreamTyped(r)
    BY StreamIs
  <2>2. /\ IsStream(n) /\ n.stage = "closed" /\ n.session = FALSE /\ n.context = FALSE
        /\ n.credentialsInstalled = FALSE /\ n.opens = zero /\ n.slept = zero /\ n.identity = none
        /\ n.name = r.name /\ n.carried = r.carried /\ n.pin = r.pin /\ n.entitled = r.entitled
        /\ n.fault = r.fault /\ n.named = r.named
    BY <1>5, <2>1 DEF IsStream
  <2>3. StreamTyped(n)
    BY <1>2, <1>4, <2>1, <2>2 DEF StreamTyped, Stages
  <2> QED
    BY <2>2, <2>3, StreamIs
<1> QED
  BY <1>2, <1>3, <1>6 DEF ClosedInv, TlsStreamInv, Held

\* What no action of a stream changes.
LEMMA FaultsStay ==
  ASSUME UNCHANGED <<library, config>>
  PROVE  InstalledFaults' = InstalledFaults /\ IsMbedTls' = IsMbedTls
BY DEF InstalledFaults, PeerIsAuthorisable, Pinned, FingerprintsAreUsable, BuildCanEnforceBoth, IsMbedTls

\* A step of one stream leaves the others as they were.
LEMMA OthersStay ==
  ASSUME TlsInv, UNCHANGED <<library, config>>, NEW s \in Streams, NEW n,
         TlsStreamInv(n, InstalledFaults, IsMbedTls), stream' = [stream EXCEPT ![s] = n], TlsAccounts'
  PROVE  TlsInv'
<1>1. \A t \in Streams : stream'[t] = IF t = s THEN n ELSE stream[t]
  BY DEF TlsInv
<1>2. stream' = [t \in Streams |-> stream'[t]]
  BY DEF TlsInv
<1>3. ASSUME NEW t \in Streams PROVE TlsStreamInv(stream'[t], InstalledFaults', IsMbedTls')
  <2>1. CASE t = s
    BY <1>1, <2>1, FaultsStay
  <2>2. CASE t # s
    BY <1>1, <2>2, FaultsStay DEF TlsInv
  <2> QED
    BY <2>1, <2>2
<1> QED
  BY <1>2, <1>3 DEF TlsInv

\* The credentials' books as a stream gives its install back, keeps it, or
\* takes one.
LEMMA InstalledIs ==
  ASSUME TlsInv, NEW s \in Streams, NEW n, stream' = [stream EXCEPT ![s] = n], n.credentialsInstalled \in BOOLEAN
  PROVE  Installed' = IF n.credentialsInstalled THEN Installed \cup {s} ELSE Installed \ {s}
<1>1. \A t \in Streams : stream'[t] = IF t = s THEN n ELSE stream[t]
  BY DEF TlsInv
<1>2. Installed' = {t \in Streams : stream'[t].credentialsInstalled}
  BY DEF Installed
<1> QED
  BY <1>1, <1>2 DEF Installed

\* A stage that is passed.
LEMMA StepKeepsTlsInv ==
  ASSUME TlsInv, UNCHANGED <<library, config>>, NEW s \in Streams, NEW n,
         TlsStreamInv(n, InstalledFaults, IsMbedTls), Step(s, n),
         n.credentialsInstalled = stream[s].credentialsInstalled,
         n.stage \in Held => stream[s].stage \in Held
  PROVE  TlsInv'
<1>1. stream' = [stream EXCEPT ![s] = n] /\ UNCHANGED <<outstanding, material>>
  BY DEF Step
<1>2. \A t \in Streams : stream'[t] = IF t = s THEN n ELSE stream[t]
  BY <1>1 DEF TlsInv
<1>3. Installed' = Installed
  <2>1. n.credentialsInstalled \in BOOLEAN
    BY DEF TlsStreamInv, StreamType
  <2>2. Installed' = IF n.credentialsInstalled THEN Installed \cup {s} ELSE Installed \ {s}
    BY <1>1, <2>1, InstalledIs
  <2> QED
    BY <2>2 DEF Installed
<1>4. TlsAccounts'
  <2>1. \A t \in Streams : stream'[t].stage \in Held => stream[t].stage \in Held
    BY <1>2
  <2> QED
    BY <1>1, <1>3, <2>1 DEF TlsInv, TlsAccounts
<1> QED
  BY <1>1, <1>4, OthersStay

\* Close: the count goes down by the one install this stream had, and if another
\* stream has one the material stays.
LEMMA CloseKeepsTlsInv ==
  ASSUME TlsInv, UNCHANGED <<library, config>>, NEW s \in Streams,
         NEW r \in StreamType, r.fault # "none" => r.named = r.fault, CloseWith(s, r)
  PROVE  TlsInv'
<1>1. PICK n : n = ClosedOf(r)
  OBVIOUS
<1>2. TlsStreamInv(n, InstalledFaults, IsMbedTls) /\ n.stage = "closed" /\ n.credentialsInstalled = FALSE
  <2>1. PICK faults : faults = InstalledFaults
    OBVIOUS
  <2>2. PICK mbed : mbed = IsMbedTls
    OBVIOUS
  <2>3. ClosedInv(n, faults, mbed)
    BY <1>1, ClosedIs
  <2> QED
    BY <2>1, <2>2, <2>3 DEF ClosedInv
<1>3. stream' = [stream EXCEPT ![s] = n] /\ ReleaseCredentials(s)
  BY <1>1 DEF CloseWith, ClosedOf
<1>4. \A t \in Streams : stream'[t] = IF t = s THEN n ELSE stream[t]
  BY <1>3 DEF TlsInv
<1>5. Installed' = Installed \ {s}
  BY <1>2, <1>3, InstalledIs
<1>6. ASSUME library = "MbedTls"
      PROVE  /\ IsFiniteSet(Installed') /\ outstanding' = Cardinality(Installed')
             /\ \A t \in Streams : stream'[t].stage \in Held => material'
  <2>1. IsFiniteSet(Installed) /\ outstanding = Cardinality(Installed)
        /\ \A t \in Streams : stream[t].stage \in Held => material
    BY <1>6 DEF TlsInv, TlsAccounts
  <2>2. CASE ~stream[s].credentialsInstalled
    <3>1. Installed' = Installed /\ UNCHANGED <<outstanding, material>>
      BY <1>3, <1>5, <2>2 DEF ReleaseCredentials, Installed
    <3> QED
      BY <1>2, <1>4, <2>1, <3>1 DEF Held
  <2>3. CASE stream[s].credentialsInstalled
    <3>1. s \in Installed /\ Release
      BY <1>3, <2>3 DEF ReleaseCredentials, Installed
    <3>2. /\ IsFiniteSet(Installed \ {s}) /\ Cardinality(Installed \ {s}) = Cardinality(Installed) - 1
          /\ Cardinality(Installed) \in Nat /\ Cardinality(Installed) # 0
          /\ Cardinality(Installed \ {s}) \in Nat
      <4>1. /\ IsFiniteSet(Installed \ {s})
            /\ Cardinality(Installed \ {s}) = IF s \in Installed THEN Cardinality(Installed) - 1 ELSE Cardinality(Installed)
        BY <2>1, FS_RemoveElement
      <4>2. Cardinality(Installed) \in Nat /\ Cardinality(Installed \ {s}) \in Nat
        BY <2>1, <4>1, FS_CardinalityType
      <4>3. Cardinality(Installed) # 0
        BY <2>1, <3>1, FS_EmptySet
      <4> QED
        BY <3>1, <4>1, <4>2, <4>3
    <3>3. outstanding' = Cardinality(Installed \ {s})
      BY <1>6, <2>1, <3>1, <3>2 DEF Release
    <3>4. ASSUME NEW t \in Streams, stream'[t].stage \in Held PROVE material'
      <4>1. t # s /\ stream[t].stage \in Held
        BY <1>2, <1>4, <3>4 DEF Held
      <4>2. stream[t].credentialsInstalled
        BY <4>1 DEF TlsInv, TlsStreamInv
      <4>3. t \in Installed \ {s}
        BY <4>1, <4>2 DEF Installed
      <4>4. Cardinality(Installed \ {s}) # 0
        BY <3>2, <4>3, FS_EmptySet
      <4>5. outstanding' > 0
        BY <3>2, <3>3, <4>4
      <4> QED
        BY <2>1, <3>1, <4>1, <4>5 DEF Release
    <3> QED
      BY <1>5, <3>2, <3>3, <3>4
  <2> QED
    BY <2>2, <2>3
<1>7. TlsAccounts'
  BY <1>6 DEF TlsAccounts
<1> QED
  BY <1>2, <1>3, <1>7, OthersStay

\* The current stream as a constant.
LEMMA StreamOf ==
  ASSUME TlsInv, NEW s \in Streams, NEW r, r = stream[s]
  PROVE  /\ r \in StreamType /\ IsStream(r) /\ StreamTyped(r)
         /\ TlsStreamInv(r, InstalledFaults, IsMbedTls)
<1>1. TlsStreamInv(r, InstalledFaults, IsMbedTls)
  BY DEF TlsInv
<1>2. r \in StreamType
  BY <1>1 DEF TlsStreamInv
<1> QED
  BY <1>1, <1>2, StreamIs

LEMMA UnchangedKeepsTlsInv ==
  ASSUME TlsInv, UNCHANGED <<stream, outstanding, material>>, UNCHANGED <<library, config>>
  PROVE  TlsInv'
<1>1. InstalledFaults' = InstalledFaults /\ IsMbedTls' = IsMbedTls
  BY FaultsStay
<1>2. TlsAccounts'
  BY DEF TlsInv, TlsAccounts, Installed
<1> QED
  BY <1>1, <1>2 DEF TlsInv

\* A stage that fails.
LEMMA FailKeepsTlsInv ==
  ASSUME TlsInv, UNCHANGED <<library, config>>, NEW s \in Streams,
         NEW faults, faults \subseteq Details, stream[s].stage \notin {"closed", "open"}, Fail(s, faults)
  PROVE  TlsInv'
<1>1. PICK r : r = stream[s]
  OBVIOUS
<1>2. r \in StreamType /\ IsStream(r) /\ StreamTyped(r) /\ TlsStreamInv(r, InstalledFaults, IsMbedTls)
  BY <1>1, StreamOf
<1>3. r.fault = "none"
  BY <1>1, <1>2 DEF TlsStreamInv
<1>4. PICK fault \in faults : CloseWith(s, [r EXCEPT !.named = fault])
  BY <1>1 DEF Fail
<1>5. PICK k : k = [r EXCEPT !.named = fault]
  OBVIOUS
<1>6. k \in StreamType /\ k.fault = "none"
  <2>1. /\ IsStream(k) /\ k.stage = r.stage /\ k.opens = r.opens /\ k.context = r.context
        /\ k.session = r.session /\ k.credentialsInstalled = r.credentialsInstalled /\ k.name = r.name
        /\ k.slept = r.slept /\ k.carried = r.carried /\ k.pin = r.pin /\ k.identity = r.identity
        /\ k.entitled = r.entitled /\ k.named = fault /\ k.fault = r.fault
    BY <1>2, <1>5 DEF IsStream
  <2>2. StreamTyped(k)
    BY <1>2, <2>1 DEF StreamTyped
  <2> QED
    BY <1>3, <2>1, <2>2, StreamIs
<1> QED
  BY <1>4, <1>5, <1>6, CloseKeepsTlsInv

\* Open: refused on a stream that is open; on one that is closed, the verdicts of
\* the last handshake are forgotten.
LEMMA ReopenKeepsTlsInv ==
  ASSUME TlsInv, UNCHANGED <<library, config>>, NEW s \in Streams, TlsStream_Open(s)
  PROVE  TlsInv'
<1>1. PICK r : r = stream[s]
  OBVIOUS
<1>2. r \in StreamType /\ IsStream(r) /\ StreamTyped(r) /\ TlsStreamInv(r, InstalledFaults, IsMbedTls)
  BY <1>1, StreamOf
<1>3. CASE IsOpen(s)
  BY <1>3, UnchangedKeepsTlsInv DEF TlsStream_Open
<1>4. CASE ~IsOpen(s)
  <2>1. r.stage = "closed" /\ r.opens = 0 /\ r.context = FALSE /\ r.session = FALSE /\ r.credentialsInstalled = FALSE
    <3>1. r.stage \in {"closed", "open"} /\ (~r.context \/ ~r.credentialsInstalled)
      BY <1>1, <1>4
         DEF TlsStream_Open, Idle, IsOpen, By, OpenSslIsOpen, MbedTlsIsOpen, WolfSslIsOpen
    <3> QED
      BY <1>2, <3>1 DEF TlsStreamInv, StreamTyped, Held
  <2>2. PICK name \in {"none", "dotted", "host"} :
           \/ Step(s, [[Forget(r) EXCEPT !.name = name] EXCEPT !.stage = "context", !.opens = @ + 1])
           \/ CloseWith(s, [[Forget(r) EXCEPT !.name = name] EXCEPT !.named = "transport"])
    BY <1>1, <1>4 DEF TlsStream_Open
  <2>3. PICK q : q = [Forget(r) EXCEPT !.name = name]
    OBVIOUS
  <2>4. /\ IsStream(q) /\ q.stage = r.stage /\ q.opens = r.opens /\ q.context = r.context
        /\ q.session = r.session /\ q.credentialsInstalled = r.credentialsInstalled /\ q.name = name
        /\ q.slept = r.slept /\ q.carried = {} /\ q.pin = "NoMatch" /\ q.identity = r.identity
        /\ q.entitled = FALSE /\ q.named = "none" /\ q.fault = "none"
    BY <1>2, <2>3 DEF IsStream, Forget
  <2>5. CASE Step(s, [q EXCEPT !.stage = "context", !.opens = @ + 1])
    <3>1. PICK one : one = 0 + 1
      OBVIOUS
    <3>2. PICK n : n = [q EXCEPT !.stage = "context", !.opens = one]
      OBVIOUS
    <3>3. /\ IsStream(n) /\ n.stage = "context" /\ n.opens = one /\ n.context = q.context
          /\ n.session = q.session /\ n.credentialsInstalled = q.credentialsInstalled /\ n.name = q.name
          /\ n.slept = q.slept /\ n.carried = q.carried /\ n.pin = q.pin /\ n.identity = q.identity
          /\ n.entitled = q.entitled /\ n.named = q.named /\ n.fault = q.fault
      BY <2>4, <3>2 DEF IsStream
    <3>4. one = 1 /\ one \in 0..2
      BY <3>1
    <3>5. "none" \in Details
      BY DEF Details
    <3>6. StreamTyped(n)
      BY <1>2, <2>4, <3>3, <3>4, <3>5 DEF StreamTyped, Stages, PinVerdicts
    <3>7. n \in StreamType
      BY <3>3, <3>6, StreamIs
    <3>8. TlsStreamInv(n, InstalledFaults, IsMbedTls)
      BY <1>2, <2>1, <2>4, <3>3, <3>4, <3>7 DEF TlsStreamInv, Held
    <3>9. Step(s, n)
      BY <2>1, <2>4, <2>5, <3>1, <3>2
    <3> QED
      BY <1>1, <2>1, <2>4, <3>3, <3>8, <3>9, StepKeepsTlsInv DEF Held
  <2>6. CASE CloseWith(s, [q EXCEPT !.named = "transport"])
    <3>1. PICK n : n = [q EXCEPT !.named = "transport"]
      OBVIOUS
    <3>2. /\ IsStream(n) /\ n.stage = q.stage /\ n.opens = q.opens /\ n.context = q.context
          /\ n.session = q.session /\ n.credentialsInstalled = q.credentialsInstalled /\ n.name = q.name
          /\ n.slept = q.slept /\ n.carried = q.carried /\ n.pin = q.pin /\ n.identity = q.identity
          /\ n.entitled = q.entitled /\ n.named = "transport" /\ n.fault = q.fault
      BY <2>4, <3>1 DEF IsStream
    <3>3. "none" \in Details /\ "transport" \in Details
      BY DEF Details
    <3>4. StreamTyped(n)
      BY <1>2, <2>4, <3>2, <3>3 DEF StreamTyped, PinVerdicts
    <3>5. n \in StreamType /\ n.fault = "none"
      BY <2>4, <3>2, <3>4, StreamIs
    <3> QED
      BY <2>6, <3>1, <3>5, CloseKeepsTlsInv
  <2> QED
    BY <2>2, <2>3, <2>5, <2>6
<1> QED
  BY <1>3, <1>4

\* Close, Send and Read: nothing happens, or the stream is closed as it is.
LEMMA CloseAsItIsKeepsTlsInv ==
  ASSUME TlsInv, UNCHANGED <<library, config>>, NEW s \in Streams, CloseWith(s, stream[s])
  PROVE  TlsInv'
<1>1. PICK r : r = stream[s]
  OBVIOUS
<1>2. r \in StreamType /\ TlsStreamInv(r, InstalledFaults, IsMbedTls)
  BY <1>1, StreamOf
<1>3. CloseWith(s, r)
  BY <1>1 DEF CloseWith
<1> QED
  BY <1>2, <1>3, CloseKeepsTlsInv DEF TlsStreamInv

LEMMA UseKeepsTlsInv ==
  ASSUME TlsInv, UNCHANGED <<library, config>>, NEW s \in Streams,
         TlsStream_Send(s) \/ TlsStream_Read(s) \/ TlsStream_Close(s)
  PROVE  TlsInv'
<1>1. UNCHANGED <<stream, outstanding, material>> \/ CloseWith(s, stream[s])
  BY DEF TlsStream_Send, TlsStream_Read, TlsStream_Close
<1> QED
  BY <1>1, UnchangedKeepsTlsInv, CloseAsItIsKeepsTlsInv

\* The details an Open may report before there is a peer.
LEMMA OpenFaultsAre ==
  /\ By(OpenSslContextFaults, MbedTlsContextFaults, WolfSslContextFaults) \subseteq Details
  /\ By(OpenSslSessionFaults, MbedTlsSessionFaults, WolfSslSessionFaults) \subseteq Details
  /\ By(OpenSslNameFaults, MbedTlsNameFaults, WolfSslNameFaults) \subseteq Details
  /\ InstallFaults \subseteq Details
  /\ InstalledFaults \subseteq Details
<1>1. By(OpenSslContextFaults, MbedTlsContextFaults, WolfSslContextFaults) \subseteq Details
  BY DEF By, Details, OpenSslContextFaults, MbedTlsContextFaults, WolfSslContextFaults, WolfSslSessionFaults
<1>2. By(OpenSslSessionFaults, MbedTlsSessionFaults, WolfSslSessionFaults) \subseteq Details
  BY DEF By, Details, OpenSslSessionFaults, MbedTlsSessionFaults, WolfSslSessionFaults, MbedTlsContextFaults
<1>3. By(OpenSslNameFaults, MbedTlsNameFaults, WolfSslNameFaults) \subseteq Details
  BY DEF By, Details, OpenSslNameFaults, MbedTlsNameFaults, WolfSslNameFaults
<1>4. InstallFaults \subseteq Details
  BY DEF InstallFaults, By, Details, OpenSslPemFileFaults, MbedTlsPemBufferFaults, MbedTlsHandleFaults,
         WolfSslPemBufferFaults
<1>5. InstalledFaults \subseteq Details
  BY DEF InstalledFaults, Details
<1> QED
  BY <1>1, <1>2, <1>3, <1>4, <1>5

\* A stage that is passed: only the stage, the context and the session change.
Advances(n, r, stage, context, session) ==
  /\ context \in BOOLEAN /\ session \in BOOLEAN /\ stage \in {"credentials", "name", "handshake"}
  /\ n = [r EXCEPT !.stage = stage, !.context = context, !.session = session]
  /\ stage = "credentials" => r.stage = "context" /\ context /\ session = r.session
  /\ stage = "name" => r.stage = "session" /\ context = r.context /\ session
  /\ stage = "handshake" => r.stage = "name" /\ context = r.context /\ session = r.session

LEMMA AdvanceKeepsTlsInv ==
  ASSUME TlsInv, UNCHANGED <<library, config>>, NEW s \in Streams, NEW n, Step(s, n),
         NEW r, r = stream[s], NEW context, NEW session, NEW stage,
         Advances(n, r, stage, context, session)
  PROVE  TlsInv'
<1>1. r \in StreamType /\ IsStream(r) /\ StreamTyped(r) /\ TlsStreamInv(r, InstalledFaults, IsMbedTls)
  BY StreamOf
<1>2. /\ IsStream(n) /\ n.stage = stage /\ n.opens = r.opens /\ n.context = context
      /\ n.session = session /\ n.credentialsInstalled = r.credentialsInstalled /\ n.name = r.name
      /\ n.slept = r.slept /\ n.carried = r.carried /\ n.pin = r.pin /\ n.identity = r.identity
      /\ n.entitled = r.entitled /\ n.named = r.named /\ n.fault = r.fault
  BY <1>1 DEF IsStream, Advances
<1>3. StreamTyped(n)
  BY <1>1, <1>2 DEF StreamTyped, Stages, Advances
<1>4. n \in StreamType
  BY <1>2, <1>3, StreamIs
<1>5. TlsStreamInv(n, InstalledFaults, IsMbedTls)
  BY <1>1, <1>2, <1>4 DEF TlsStreamInv, Held, Advances
<1> QED
  BY <1>2, <1>5, StepKeepsTlsInv DEF Held, Advances

LEMMA BuildContextKeepsTlsInv ==
  ASSUME TlsInv, UNCHANGED <<library, config>>, NEW s \in Streams, BuildContext(s)
  PROVE  TlsInv'
<1>1. PICK r : r = stream[s]
  OBVIOUS
<1>2. IsStream(r) /\ r.stage = "context" /\ r.session \in BOOLEAN
  BY <1>1, StreamOf DEF BuildContext, StreamTyped
<1>3. CASE Step(s, [stream[s] EXCEPT !.stage = "credentials", !.context = TRUE])
  <2>1. PICK n : n = [r EXCEPT !.stage = "credentials", !.context = TRUE]
    OBVIOUS
  <2>2. PICK session \in BOOLEAN : session = r.session
    BY <1>2
  <2>3. n = [r EXCEPT !.stage = "credentials", !.context = TRUE, !.session = session]
    BY <1>2, <2>1, <2>2 DEF IsStream
  <2>4. Step(s, n)
    BY <1>1, <1>3, <2>1
  <2>5. PICK context \in BOOLEAN : context = TRUE
    OBVIOUS
  <2>6. Advances(n, r, "credentials", context, session)
    BY <1>2, <2>2, <2>3, <2>5 DEF Advances
  <2> QED
    BY <1>1, <2>4, <2>6, AdvanceKeepsTlsInv
<1>4. CASE Fail(s, By(OpenSslContextFaults, MbedTlsContextFaults, WolfSslContextFaults))
  <2>1. PICK faults : faults = By(OpenSslContextFaults, MbedTlsContextFaults, WolfSslContextFaults)
    OBVIOUS
  <2>2. Fail(s, faults) /\ faults \subseteq Details
    BY <1>4, <2>1, OpenFaultsAre
  <2> QED
    BY <1>1, <1>2, <2>2, FailKeepsTlsInv
<1> QED
  BY <1>3, <1>4 DEF BuildContext

LEMMA CreateSessionKeepsTlsInv ==
  ASSUME TlsInv, UNCHANGED <<library, config>>, NEW s \in Streams, CreateSession(s)
  PROVE  TlsInv'
<1>1. PICK r : r = stream[s]
  OBVIOUS
<1>2. IsStream(r) /\ r.stage = "session" /\ r.context \in BOOLEAN
  BY <1>1, StreamOf DEF CreateSession, StreamTyped
<1>3. CASE Step(s, [stream[s] EXCEPT !.stage = "name", !.session = TRUE])
  <2>1. PICK n : n = [r EXCEPT !.stage = "name", !.session = TRUE]
    OBVIOUS
  <2>2. PICK context \in BOOLEAN : context = r.context
    BY <1>2
  <2>3. n = [r EXCEPT !.stage = "name", !.context = context, !.session = TRUE]
    BY <1>2, <2>1, <2>2 DEF IsStream
  <2>4. Step(s, n)
    BY <1>1, <1>3, <2>1
  <2>5. PICK session \in BOOLEAN : session = TRUE
    OBVIOUS
  <2>6. Advances(n, r, "name", context, session)
    BY <1>2, <2>2, <2>3, <2>5 DEF Advances
  <2> QED
    BY <1>1, <2>4, <2>6, AdvanceKeepsTlsInv
<1>4. CASE Fail(s, By(OpenSslSessionFaults, MbedTlsSessionFaults, WolfSslSessionFaults))
  <2>1. PICK faults : faults = By(OpenSslSessionFaults, MbedTlsSessionFaults, WolfSslSessionFaults)
    OBVIOUS
  <2>2. Fail(s, faults) /\ faults \subseteq Details
    BY <1>4, <2>1, OpenFaultsAre
  <2> QED
    BY <1>1, <1>2, <2>2, FailKeepsTlsInv
<1> QED
  BY <1>3, <1>4 DEF CreateSession

LEMMA ExpectedHostnameKeepsTlsInv ==
  ASSUME TlsInv, UNCHANGED <<library, config>>, NEW s \in Streams, ConfigureExpectedHostname(s)
  PROVE  TlsInv'
<1>1. PICK r : r = stream[s]
  OBVIOUS
<1>2. IsStream(r) /\ r.stage = "name" /\ r.context \in BOOLEAN /\ r.session \in BOOLEAN
  BY <1>1, StreamOf DEF ConfigureExpectedHostname, StreamTyped
<1>3. CASE Step(s, [stream[s] EXCEPT !.stage = "handshake"])
  <2>1. PICK n : n = [r EXCEPT !.stage = "handshake"]
    OBVIOUS
  <2>2. PICK context \in BOOLEAN : context = r.context
    BY <1>2
  <2>3. PICK session \in BOOLEAN : session = r.session
    BY <1>2
  <2>4. n = [r EXCEPT !.stage = "handshake", !.context = context, !.session = session]
    BY <1>2, <2>1, <2>2, <2>3 DEF IsStream
  <2>5. Step(s, n)
    BY <1>1, <1>3, <2>1
  <2>6. Advances(n, r, "handshake", context, session)
    BY <1>2, <2>2, <2>3, <2>4 DEF Advances
  <2> QED
    BY <1>1, <2>5, <2>6, AdvanceKeepsTlsInv
<1>4. CASE Fail(s, By(OpenSslNameFaults, MbedTlsNameFaults, WolfSslNameFaults))
  <2>1. PICK faults : faults = By(OpenSslNameFaults, MbedTlsNameFaults, WolfSslNameFaults)
    OBVIOUS
  <2>2. Fail(s, faults) /\ faults \subseteq Details
    BY <1>4, <2>1, OpenFaultsAre
  <2> QED
    BY <1>1, <1>2, <2>2, FailKeepsTlsInv
<1> QED
  BY <1>3, <1>4 DEF ConfigureExpectedHostname

LEMMA FailedInstallKeepsTlsInv ==
  ASSUME TlsInv, UNCHANGED <<library, config>>, NEW s \in Streams, FailedInstall(s)
  PROVE  TlsInv'
BY CloseAsItIsKeepsTlsInv DEF FailedInstall

LEMMA HandshakeWaitsKeepsTlsInv ==
  ASSUME TlsInv, UNCHANGED <<library, config>>, NEW s \in Streams, HandshakeWaits(s)
  PROVE  TlsInv'
<1>1. PICK r : r = stream[s]
  OBVIOUS
<1>2. r \in StreamType /\ IsStream(r) /\ StreamTyped(r) /\ TlsStreamInv(r, InstalledFaults, IsMbedTls)
  BY <1>1, StreamOf
<1>3. r.stage = "handshake"
  BY <1>1 DEF HandshakeWaits
<1>4. CASE IsHandshakeBudgetExhausted(s)
  <2>1. CloseWith(s, [r EXCEPT !.named = "timeout", !.fault = "timeout"])
    BY <1>1, <1>4 DEF HandshakeWaits
  <2>2. PICK n : n = [r EXCEPT !.named = "timeout", !.fault = "timeout"]
    OBVIOUS
  <2>3. /\ IsStream(n) /\ n.stage = r.stage /\ n.opens = r.opens /\ n.context = r.context
        /\ n.session = r.session /\ n.credentialsInstalled = r.credentialsInstalled /\ n.name = r.name
        /\ n.slept = r.slept /\ n.carried = r.carried /\ n.pin = r.pin /\ n.identity = r.identity
        /\ n.entitled = r.entitled /\ n.named = "timeout" /\ n.fault = "timeout"
    BY <1>2, <2>2 DEF IsStream
  <2>4. "timeout" \in Details
    BY DEF Details
  <2>5. StreamTyped(n)
    BY <1>2, <2>3, <2>4 DEF StreamTyped
  <2>6. n \in StreamType /\ n.named = n.fault
    BY <2>3, <2>5, StreamIs
  <2> QED
    BY <2>1, <2>2, <2>6, CloseKeepsTlsInv
<1>5. CASE ~IsHandshakeBudgetExhausted(s)
  <2>1. PICK poll : poll = HandshakePollMs(s)
    OBVIOUS
  <2>2. PICK sum : sum = r.slept + poll
    OBVIOUS
  <2>3. sum \in 0..Budget
    <3>1. r.slept \in 0..Budget /\ r.slept < Budget
      BY <1>1, <1>2, <1>5, TlsAssumption DEF IsHandshakeBudgetExhausted, StreamTyped
    <3>2. poll = IF Budget - r.slept < PollInterval THEN Budget - r.slept ELSE PollInterval
      BY <1>1, <2>1 DEF HandshakePollMs
    <3> QED
      BY <2>2, <3>1, <3>2, TlsAssumption
  <2>4. PICK n : n = [r EXCEPT !.slept = sum]
    OBVIOUS
  <2>5. Step(s, n)
    BY <1>1, <1>5, <2>1, <2>2, <2>4 DEF HandshakeWaits
  <2>6. /\ IsStream(n) /\ n.stage = r.stage /\ n.opens = r.opens /\ n.context = r.context
        /\ n.session = r.session /\ n.credentialsInstalled = r.credentialsInstalled /\ n.name = r.name
        /\ n.slept = sum /\ n.carried = r.carried /\ n.pin = r.pin /\ n.identity = r.identity
        /\ n.entitled = r.entitled /\ n.named = r.named /\ n.fault = r.fault
    BY <1>2, <2>4 DEF IsStream
  <2>7. StreamTyped(n)
    BY <1>2, <2>3, <2>6 DEF StreamTyped
  <2>8. n \in StreamType
    BY <2>6, <2>7, StreamIs
  <2>9. TlsStreamInv(n, InstalledFaults, IsMbedTls)
    BY <1>2, <2>6, <2>8 DEF TlsStreamInv, Held
  <2> QED
    BY <1>1, <2>5, <2>6, <2>9, StepKeepsTlsInv
<1> QED
  BY <1>4, <1>5

\* The verdict of whichever library.
LEMMA LibraryJudges ==
  ASSUME TlsInv, NEW s \in Streams, stream[s].stage = "handshake", NEW peer \in Peers \cup {NoCertificate},
         NEW name, name = stream[s].name,
         NEW v, v = Verify(s, peer), NEW w, w = ChecksAfterHandshake(v, peer)
  PROVE  Judged(v, w, FirstFault(peer, name))
<1>1. PICK r : r = stream[s]
  OBVIOUS
<1>2. TlsStreamInv(r, InstalledFaults, IsMbedTls)
  BY <1>1, StreamOf
<1>3. InstalledFaults = {} /\ r.carried = {} /\ r.pin = "NoMatch"
  BY <1>1, <1>2 DEF TlsStreamInv
<1>4. Usable /\ BuildCanEnforceBoth
  <2>1. config.anchors \in BOOLEAN
    BY DEF TlsInv
  <2> QED
    BY <1>3, <2>1 DEF InstalledFaults, PeerIsAuthorisable, Usable
<1>5. Verdict(s) = FreshVerdict
  BY <1>1, <1>3 DEF Verdict, FreshVerdict
<1>6. library = "OpenSsl" \/ IsMbedTls \/ IsWolfSsl
  BY TlsAssumption DEF TlsInv, IsMbedTls, IsWolfSsl
<1>7. CASE library = "OpenSsl"
  BY <1>4, <1>5, <1>7, OpenSslJudges
<1>8. CASE IsMbedTls
  BY <1>4, <1>5, <1>8, MbedTlsJudges
<1>9. CASE IsWolfSsl
  BY <1>4, <1>5, <1>9, WolfSslJudges
<1> QED
  BY <1>6, <1>7, <1>8, <1>9

\* A refusal that names its fault.
LEMMA RefuseKeepsTlsInv ==
  ASSUME TlsInv, UNCHANGED <<library, config>>, NEW s \in Streams, NEW v, VerdictTyped(v),
         NEW fault \in Details, RefusalDetail(v) = fault, Refuse(s, v, fault)
  PROVE  TlsInv'
<1>1. PICK r : r = stream[s]
  OBVIOUS
<1>2. IsStream(r) /\ StreamTyped(r)
  BY <1>1, StreamOf
<1>3. PICK n : n = [[r EXCEPT !.carried = v.carried, !.pin = v.pin] EXCEPT !.named = fault, !.fault = fault]
  OBVIOUS
<1>4. CloseWith(s, n)
  BY <1>1, <1>3 DEF Refuse, AfterVerdict
<1>5. PICK carried, pin : carried = v.carried /\ pin = v.pin
  OBVIOUS
<1>6. carried \in SUBSET Details /\ pin \in PinVerdicts
  BY <1>5 DEF VerdictTyped
<1>7. /\ IsStream(n) /\ n.stage = r.stage /\ n.opens = r.opens /\ n.context = r.context
      /\ n.session = r.session /\ n.credentialsInstalled = r.credentialsInstalled /\ n.name = r.name
      /\ n.slept = r.slept /\ n.carried = carried /\ n.pin = pin /\ n.identity = r.identity
      /\ n.entitled = r.entitled /\ n.named = fault /\ n.fault = fault
  BY <1>2, <1>3, <1>5 DEF IsStream
<1>8. StreamTyped(n)
  BY <1>2, <1>6, <1>7 DEF StreamTyped
<1>9. n \in StreamType /\ n.named = n.fault
  BY <1>7, <1>8, StreamIs
<1> QED
  BY <1>4, <1>9, CloseKeepsTlsInv

\* The handshake ends: let in or refused, as the library judged.
LEMMA HandshakeEndsKeepsTlsInv ==
  ASSUME TlsInv, UNCHANGED <<library, config>>, NEW s \in Streams, HandshakeEnds(s)
  PROVE  TlsInv'
<1>1. PICK r : r = stream[s]
  OBVIOUS
<1>2. r \in StreamType /\ IsStream(r) /\ StreamTyped(r) /\ TlsStreamInv(r, InstalledFaults, IsMbedTls)
  BY <1>1, StreamOf
<1>3. r.stage = "handshake"
  BY <1>1 DEF HandshakeEnds
<1>4. PICK peer \in Peers \cup {NoCertificate} :
          LET v     == Verify(s, peer)
              w     == ChecksAfterHandshake(v, peer)
              fault == FirstFault(peer, stream[s].name)
          IN  \/ /\ ~v.ok
                 /\ Refuse(s, v, fault)
              \/ /\ v.ok
                 /\ Refuse(s, v, "rejected")
              \/ /\ v.ok /\ ~w.ok
                 /\ Refuse(s, w, fault)
              \/ /\ v.ok /\ w.ok
                 /\ Step(s, [AfterVerdict(s, w) EXCEPT !.stage = "open", !.slept = 0,
                                                !.entitled = fault = "none"])
  BY Zenon DEF HandshakeEnds
<1>5. PICK v : v = Verify(s, peer)
  OBVIOUS
<1>6. PICK w : w = ChecksAfterHandshake(v, peer)
  OBVIOUS
<1>7. PICK name : name = stream[s].name
  OBVIOUS
<1>8. PICK fault : fault = FirstFault(peer, name)
  OBVIOUS
<1>9. Judged(v, w, fault)
  BY <1>1, <1>3, <1>5, <1>6, <1>7, <1>8, LibraryJudges
<1>10. /\ VerdictTyped(v) /\ VerdictTyped(w) /\ fault \in Details
       /\ v.ok /\ w.ok => fault = "none"
       /\ ~v.ok => RefusalDetail(v) = fault
       /\ v.ok => RefusalDetail(v) = "rejected"
       /\ v.ok /\ ~w.ok => RefusalDetail(w) = fault
  BY <1>9 DEF Judged
<1>11. \/ ~v.ok /\ Refuse(s, v, fault)
       \/ v.ok /\ Refuse(s, v, "rejected")
       \/ v.ok /\ ~w.ok /\ Refuse(s, w, fault)
       \/ v.ok /\ w.ok /\ Step(s, [AfterVerdict(s, w) EXCEPT !.stage = "open", !.slept = 0,
                                                             !.entitled = fault = "none"])
  BY <1>4, <1>5, <1>6, <1>7, <1>8
<1>12. CASE ~v.ok /\ Refuse(s, v, fault)
  BY <1>10, <1>12, RefuseKeepsTlsInv
<1>13. CASE v.ok /\ Refuse(s, v, "rejected")
  <2>1. "rejected" \in Details
    BY DEF Details
  <2> QED
    BY <1>10, <1>13, <2>1, RefuseKeepsTlsInv
<1>14. CASE v.ok /\ ~w.ok /\ Refuse(s, w, fault)
  BY <1>10, <1>14, RefuseKeepsTlsInv
<1>15. CASE v.ok /\ w.ok /\ Step(s, [AfterVerdict(s, w) EXCEPT !.stage = "open", !.slept = 0,
                                                              !.entitled = fault = "none"])
  <2>1. fault = "none"
    BY <1>10, <1>15
  <2>2. PICK zero : zero = 0
    OBVIOUS
  <2>3. zero \in 0..Budget
    BY <2>2, TlsAssumption
  <2>4. PICK n : n = [[r EXCEPT !.carried = w.carried, !.pin = w.pin] EXCEPT !.stage = "open", !.slept = zero,
                                                                          !.entitled = TRUE]
    OBVIOUS
  <2>5. Step(s, n)
    BY <1>1, <1>15, <2>1, <2>2, <2>4 DEF AfterVerdict
  <2>6. PICK carried, pin : carried = w.carried /\ pin = w.pin
    OBVIOUS
  <2>7. carried \in SUBSET Details /\ pin \in PinVerdicts
    BY <1>10, <2>6 DEF VerdictTyped
  <2>8. /\ IsStream(n) /\ n.stage = "open" /\ n.opens = r.opens /\ n.context = r.context
        /\ n.session = r.session /\ n.credentialsInstalled = r.credentialsInstalled /\ n.name = r.name
        /\ n.slept = zero /\ n.carried = carried /\ n.pin = pin /\ n.identity = r.identity
        /\ n.entitled = TRUE /\ n.named = r.named /\ n.fault = r.fault
    BY <1>2, <2>4, <2>6 DEF IsStream
  <2>9. StreamTyped(n)
    BY <1>2, <2>3, <2>7, <2>8 DEF StreamTyped, Stages
  <2>10. n \in StreamType
    BY <2>8, <2>9, StreamIs
  <2>11. TlsStreamInv(n, InstalledFaults, IsMbedTls)
    BY <1>2, <1>3, <2>8, <2>10 DEF TlsStreamInv, Held
  <2> QED
    BY <1>1, <1>3, <2>5, <2>8, <2>11, StepKeepsTlsInv DEF Held
<1> QED
  BY <1>11, <1>12, <1>13, <1>14, <1>15

\* An install, refused or not: the stream owes a release from here on.
InstallInv(n, r, faults, mbed) ==
  /\ TlsStreamInv(n, faults, mbed) /\ n.credentialsInstalled = TRUE
  /\ n.stage = "failed" \/ (n.stage = "session" /\ faults = {})

FailedOf(r, fault) ==
  [[r EXCEPT !.credentialsInstalled = TRUE] EXCEPT !.stage = "failed", !.named = fault]
SessionOf(r, k) ==
  [[r EXCEPT !.credentialsInstalled = TRUE] EXCEPT !.stage = "session", !.identity = k]

LEMMA FailedIs ==
  ASSUME NEW r, NEW faults, NEW mbed, TlsStreamInv(r, faults, mbed), r.stage = "credentials",
         NEW fault \in Details, NEW n, n = FailedOf(r, fault)
  PROVE  InstallInv(n, r, faults, mbed)
<1>1. IsStream(r) /\ StreamTyped(r)
  BY StreamIs DEF TlsStreamInv
<1>2. /\ IsStream(n) /\ n.stage = "failed" /\ n.opens = r.opens /\ n.context = r.context
      /\ n.session = r.session /\ n.credentialsInstalled = TRUE /\ n.name = r.name
      /\ n.slept = r.slept /\ n.carried = r.carried /\ n.pin = r.pin /\ n.identity = r.identity
      /\ n.entitled = r.entitled /\ n.named = fault /\ n.fault = r.fault
  BY <1>1 DEF IsStream, FailedOf
<1>3. StreamTyped(n)
  BY <1>1, <1>2 DEF StreamTyped, Stages
<1>4. n \in StreamType
  BY <1>2, <1>3, StreamIs
<1> QED
  BY <1>2, <1>4 DEF InstallInv, TlsStreamInv, Held

LEMMA InstalledSessionIs ==
  ASSUME NEW r, NEW faults, faults = {}, NEW mbed, TlsStreamInv(r, faults, mbed), r.stage = "credentials",
         NEW k, KeptRight(k, mbed), NEW n, n = SessionOf(r, k)
  PROVE  InstallInv(n, r, faults, mbed)
<1>1. IsStream(r) /\ StreamTyped(r)
  BY StreamIs DEF TlsStreamInv
<1>2. /\ IsStream(n) /\ n.stage = "session" /\ n.opens = r.opens /\ n.context = r.context
      /\ n.session = r.session /\ n.credentialsInstalled = TRUE /\ n.name = r.name
      /\ n.slept = r.slept /\ n.carried = r.carried /\ n.pin = r.pin /\ n.identity = k
      /\ n.entitled = r.entitled /\ n.named = r.named /\ n.fault = r.fault
  BY <1>1 DEF IsStream, SessionOf
<1>3. StreamTyped(n)
  BY <1>1, <1>2 DEF StreamTyped, Stages, KeptRight
<1>4. n \in StreamType
  BY <1>2, <1>3, StreamIs
<1> QED
  BY <1>2, <1>4 DEF InstallInv, TlsStreamInv, Held, KeptRight

\* Every Install is counted, the refused ones too.
LEMMA InstallCountsKeepTlsInv ==
  ASSUME TlsInv, UNCHANGED <<library, config>>, NEW s \in Streams, stream[s].stage = "credentials",
         NEW n, NEW r, InstallInv(n, r, InstalledFaults, IsMbedTls), stream' = [stream EXCEPT ![s] = n],
         outstanding' = outstanding + (IF library = "MbedTls" THEN 1 ELSE 0),
         library = "MbedTls" =>
           \/ material' = TRUE
           \/ material' = material /\ n.stage = "failed"
  PROVE  TlsInv'
<1>1. TlsStreamInv(n, InstalledFaults, IsMbedTls) /\ n.credentialsInstalled = TRUE
  BY DEF InstallInv
<1>2. \A t \in Streams : stream'[t] = IF t = s THEN n ELSE stream[t]
  BY DEF TlsInv
<1>3. Installed' = Installed \cup {s}
  BY <1>1, InstalledIs
<1>4. ASSUME library = "MbedTls"
      PROVE  /\ IsFiniteSet(Installed') /\ outstanding' = Cardinality(Installed')
             /\ \A t \in Streams : stream'[t].stage \in Held => material'
  <2>1. IsFiniteSet(Installed) /\ outstanding = Cardinality(Installed)
        /\ \A t \in Streams : stream[t].stage \in Held => material
    BY <1>4 DEF TlsInv, TlsAccounts
  <2>2. s \notin Installed
    BY DEF TlsInv, TlsStreamInv, Installed, Held
  <2>3. /\ IsFiniteSet(Installed \cup {s})
        /\ Cardinality(Installed \cup {s}) = Cardinality(Installed) + 1
    BY <2>1, <2>2, FS_AddElement
  <2>4. outstanding' = outstanding + 1
    BY <1>4
  <2>5. \A t \in Streams : stream'[t].stage \in Held => material'
    BY <1>2, <1>4, <2>1 DEF Held
  <2> QED
    BY <1>3, <2>1, <2>3, <2>4, <2>5
<1>5. TlsAccounts'
  BY <1>4 DEF TlsAccounts
<1> QED
  BY <1>1, <1>5, OthersStay

LEMMA InstallCredentialsKeepsTlsInv ==
  ASSUME TlsInv, UNCHANGED <<library, config>>, NEW s \in Streams, InstallCredentials(s)
  PROVE  TlsInv'
<1>1. PICK r : r = stream[s]
  OBVIOUS
<1>2. PICK faults : faults = InstalledFaults
  OBVIOUS
<1>3. PICK mbed : mbed = IsMbedTls
  OBVIOUS
<1>4. stream[s].stage = "credentials" /\ outstanding' = outstanding + (IF library = "MbedTls" THEN 1 ELSE 0)
  BY Zenon DEF InstallCredentials
<1>5. TlsStreamInv(r, faults, mbed)
  BY <1>1, <1>2, <1>3, StreamOf
<1>6. \/ \E fault \in InstallFaults :
            stream' = [stream EXCEPT ![s] = FailedOf(stream[s], fault)] /\ UNCHANGED material
      \/ /\ material' = (library = "MbedTls")
         /\ InstalledFaults = {}
         /\ \E client \in DOMAIN ConfigureClientIdentity : \E identity \in ConfigureClientIdentity[client] :
               stream' = [stream EXCEPT ![s] = SessionOf(stream[s], Kept(client, identity))]
      \/ /\ material' = (library = "MbedTls")
         /\ \E fault \in InstalledFaults : stream' = [stream EXCEPT ![s] = FailedOf(stream[s], fault)]
  BY Zenon DEF InstallCredentials, FailedOf, SessionOf
<1>7. ASSUME NEW fault \in Details, stream' = [stream EXCEPT ![s] = FailedOf(stream[s], fault)],
             library = "MbedTls" => material' = TRUE \/ material' = material
      PROVE  TlsInv'
  <2>1. PICK n : n = FailedOf(r, fault)
    OBVIOUS
  <2>2. InstallInv(n, r, faults, mbed)
    BY <1>1, <1>4, <1>5, <2>1, FailedIs
  <2>3. n.stage = "failed"
    <3>1. IsStream(r)
      BY <1>5, StreamIs DEF TlsStreamInv
    <3> QED
      BY <2>1, <3>1 DEF IsStream, FailedOf
  <2>4. stream' = [stream EXCEPT ![s] = n] /\ InstallInv(n, r, InstalledFaults, IsMbedTls)
    BY <1>1, <1>2, <1>3, <1>7, <2>1, <2>2
  <2> QED
    BY <1>4, <1>7, <2>3, <2>4, InstallCountsKeepTlsInv
<1>8. CASE \E fault \in InstallFaults :
              stream' = [stream EXCEPT ![s] = FailedOf(stream[s], fault)] /\ UNCHANGED material
  <2>1. PICK fault \in InstallFaults :
              stream' = [stream EXCEPT ![s] = FailedOf(stream[s], fault)] /\ UNCHANGED material
    BY <1>8
  <2>2. fault \in Details
    BY OpenFaultsAre
  <2> QED
    BY <1>7, <2>1, <2>2
<1>9. CASE /\ material' = (library = "MbedTls")
           /\ \E fault \in InstalledFaults : stream' = [stream EXCEPT ![s] = FailedOf(stream[s], fault)]
  <2>1. PICK fault \in InstalledFaults : stream' = [stream EXCEPT ![s] = FailedOf(stream[s], fault)]
    BY <1>9
  <2>2. fault \in Details
    BY OpenFaultsAre
  <2>3. library = "MbedTls" => material' = TRUE
    BY <1>9
  <2> QED
    BY <1>7, <2>1, <2>2, <2>3
<1>10. CASE /\ material' = (library = "MbedTls")
            /\ InstalledFaults = {}
            /\ \E client \in DOMAIN ConfigureClientIdentity : \E identity \in ConfigureClientIdentity[client] :
                  stream' = [stream EXCEPT ![s] = SessionOf(stream[s], Kept(client, identity))]
  <2>1. PICK client \in DOMAIN ConfigureClientIdentity : \E identity \in ConfigureClientIdentity[client] :
                  stream' = [stream EXCEPT ![s] = SessionOf(stream[s], Kept(client, identity))]
    BY <1>10
  <2>2. PICK identity \in ConfigureClientIdentity[client] :
                  stream' = [stream EXCEPT ![s] = SessionOf(stream[s], Kept(client, identity))]
    BY <2>1
  <2>3. PICK k : k = Kept(client, identity)
    OBVIOUS
  <2>4. KeptRight(k, mbed)
    BY <1>3, <2>3, KeptIs
  <2>5. PICK n : n = SessionOf(r, k)
    OBVIOUS
  <2>6. InstallInv(n, r, faults, mbed)
    BY <1>1, <1>2, <1>4, <1>5, <1>10, <2>4, <2>5, InstalledSessionIs
  <2>7. stream' = [stream EXCEPT ![s] = n] /\ InstallInv(n, r, InstalledFaults, IsMbedTls)
    BY <1>1, <1>2, <1>3, <2>2, <2>3, <2>5, <2>6
  <2>8. library = "MbedTls" => material' = TRUE
    BY <1>10
  <2> QED
    BY <1>4, <2>7, <2>8, InstallCountsKeepTlsInv
<1> QED
  BY <1>6, <1>8, <1>9, <1>10

-----------------------------------------------------------------------------
(* The specification. *)

LEMMA InitTlsInv == InitTls => TlsInv
<1> SUFFICES ASSUME InitTls PROVE TlsInv
  OBVIOUS
<1>1. PICK n : n = NewStream
  OBVIOUS
<1>2. n = ClosedOf(n) /\ n.fault = "none"
  <2>1. PICK none, zero : none = NoIdentity /\ zero = 0
    OBVIOUS
  <2>2. /\ IsStream(n) /\ n.stage = "closed" /\ n.session = FALSE /\ n.context = FALSE /\ n.fault = "none"
        /\ n.credentialsInstalled = FALSE /\ n.opens = zero /\ n.slept = zero /\ n.identity = none
    BY <1>1, <2>1 DEF NewStream, IsStream
  <2>3. ClosedOf(n) = [n EXCEPT !.stage = "closed", !.session = FALSE, !.context = FALSE,
              !.credentialsInstalled = FALSE, !.opens = zero, !.slept = zero, !.identity = none]
    BY <2>1 DEF ClosedOf
  <2> QED
    BY <2>2, <2>3 DEF IsStream
<1>3. n \in StreamType
  <2>1. IsStream(n)
    BY <1>1 DEF NewStream, IsStream
  <2>2. 0 \in 0..Budget /\ "none" \in Details
    BY TlsAssumption DEF Details
  <2>3. PICK none : none = NoIdentity
    OBVIOUS
  <2>4. none \in IdentityType
    BY <2>3, NoIdentityIs
  <2>5. StreamTyped(n)
    BY <1>1, <2>2, <2>3, <2>4 DEF NewStream, StreamTyped, Stages, PinVerdicts
  <2> QED
    BY <2>1, <2>5, StreamIs
<1>4. PICK faults : faults = InstalledFaults
  OBVIOUS
<1>5. PICK mbed : mbed = IsMbedTls
  OBVIOUS
<1>6. ClosedInv(n, faults, mbed)
  BY <1>2, <1>3, ClosedIs
<1>7. \A s \in Streams : stream[s] = n
  BY <1>1 DEF InitTls
<1>8. TlsAccounts
  <2>1. Installed = {}
    BY <1>6, <1>7 DEF Installed, ClosedInv
  <2>2. IsFiniteSet(Installed) /\ Cardinality(Installed) = 0
    BY <2>1, FS_EmptySet
  <2> QED
    BY <1>6, <1>7, <2>2 DEF TlsAccounts, InitTls, ClosedInv, Held
<1> QED
  BY <1>4, <1>5, <1>6, <1>7, <1>8 DEF TlsInv, InitTls, ClosedInv

\* The streams that act are streams.
LEMMA SharingIs == Sharing \subseteq Streams
BY TlsAssumption DEF Sharing

LEMMA NextKeepsTlsInv == TlsInv /\ [TlsNext]_tlsVars => TlsInv'
<1> SUFFICES ASSUME TlsInv, [TlsNext]_tlsVars PROVE TlsInv'
  OBVIOUS
<1>1. CASE UNCHANGED tlsVars
  BY <1>1, UnchangedKeepsTlsInv DEF tlsVars
<1>2. CASE TlsNext
  <2>1. PICK s \in Streams :
          \/ Proceed(s) \/ Answered(s)
          \/ /\ TlsStream_Open(s) \/ TlsStream_Send(s) \/ TlsStream_Read(s) \/ TlsStream_Close(s)
             /\ UNCHANGED <<library, config>>
    BY <1>2, SharingIs DEF TlsNext
  <2>2. CASE Proceed(s)
    BY <2>2, BuildContextKeepsTlsInv, InstallCredentialsKeepsTlsInv, FailedInstallKeepsTlsInv,
       CreateSessionKeepsTlsInv, ExpectedHostnameKeepsTlsInv, HandshakeWaitsKeepsTlsInv DEF Proceed
  <2>3. CASE Answered(s)
    BY <2>3, HandshakeEndsKeepsTlsInv DEF Answered
  <2>4. CASE TlsStream_Open(s) /\ UNCHANGED <<library, config>>
    BY <2>4, ReopenKeepsTlsInv
  <2>5. CASE (TlsStream_Send(s) \/ TlsStream_Read(s) \/ TlsStream_Close(s)) /\ UNCHANGED <<library, config>>
    BY <2>5, UseKeepsTlsInv
  <2> QED
    BY <2>1, <2>2, <2>3, <2>4, <2>5
<1> QED
  BY <1>1, <1>2

LEMMA TlsInvAlways == TlsSpec => []TlsInv
BY InitTlsInv, NextKeepsTlsInv, PTL DEF TlsSpec

(* An open session is with a peer that met everything the credentials and  *)
(* the profile ask for, over OpenSSL, Mbed TLS and the three builds of     *)
(* wolfSSL, for every list of pins: VerifyPeer and the checks that follow  *)
(* the handshake let nobody else in, whatever an earlier handshake left.   *)
THEOREM PeerIsAuthorised == TlsSpec => []PeerAuthorised
<1>1. TlsInv => PeerAuthorised
  BY DEF TlsInv, TlsStreamInv, PeerAuthorised
<1> QED
  BY <1>1, TlsInvAlways, PTL

(* A refused handshake reports the first fault in the contract's order     *)
(* whichever library is linked and however many certificates were sent:    *)
(* what RefusalDetail makes of what VerifyPeer carried from call to call.  *)
THEOREM FirstFaultIsNamed == TlsSpec => []FirstFaultNamed
<1>1. TlsInv => FirstFaultNamed
  BY DEF TlsInv, TlsStreamInv, FirstFaultNamed
<1> QED
  BY <1>1, TlsInvAlways, PTL

(* For any number of streams on one credentials object: Install and        *)
(* Release keep count of the streams that owe a release, the material is   *)
(* in memory for as long as a session refers to it, and a stream that is   *)
(* not open holds nothing.                                                 *)
THEOREM MaterialIsHeld == TlsSpec => []MaterialHeld
<1>1. ASSUME TlsInv PROVE MaterialHeld
  <2>1. stream \in [Streams -> StreamType]
    BY <1>1 DEF TlsInv, TlsStreamInv
  <2>2. library = "MbedTls" =>
          /\ outstanding = Cardinality({s \in Streams : stream[s].credentialsInstalled})
          /\ \A s \in Streams : stream[s].stage \in {"session", "name", "handshake", "open"} => material
    BY <1>1 DEF TlsInv, TlsAccounts, Installed, Held
  <2>3. ASSUME NEW s \in Streams, NEW r, r = stream[s]
        PROVE  /\ r.stage = "closed" => ~r.session /\ ~r.context
                                        /\ ~r.credentialsInstalled /\ r.opens = 0
               /\ r.stage = "open" => r.session /\ r.context
                                      /\ r.credentialsInstalled /\ r.opens = 1
                                      /\ (\/ ~r.identity.supplied
                                          \/ r.identity.told
                                          \/ r.identity.cert /\ r.identity.key)
               /\ IsMbedTls => r.identity.cert = r.identity.key
    <3>1. TlsStreamInv(r, InstalledFaults, IsMbedTls)
      BY <1>1, <2>3, StreamOf
    <3> QED
      BY <3>1 DEF TlsStreamInv, Held
  <2> QED
    BY <2>1, <2>2, <2>3 DEF MaterialHeld
<1> QED
  BY <1>1, TlsInvAlways, PTL

=============================================================================
