------------------------------ MODULE Datagram ------------------------------
(***************************************************************************)
(* The UDP datagrams of the six network stacks (Platform/*/Source/         *)
(* *Datagram.c) and Core/Source/SolidSyslogUdpPayload.c, which says how    *)
(* much of a record goes into one.                                         *)
(*                                                                         *)
(* A record is the sequence of the kinds of its bytes: "1" an ASCII byte,  *)
(* "2", "3" and "4" the lead of a code point of that many bytes, "c" a     *)
(* continuation byte.  A payload limit is a number of bytes.               *)
(***************************************************************************)
EXTENDS Integers, Sequences, FiniteSetsExt

CONSTANTS
  Overhead,      \* the bytes of the IP and UDP headers, out of the path's MTU
  UnknownPath,   \* the payload that fits an IPv4 path nobody has measured
  OffSubnet,     \* the destinations that are not on the device's own subnet
  NoDestination  \* no destination noted

ASSUME PayloadAssumption == Overhead \in Nat /\ UnknownPath \in Nat

VARIABLES
  Socket,              \* whether the datagram holds a socket
  SocketConnected,     \* Posix, Winsock: the socket has been connected
  OffSubnetDestination,\* VxWorks: the destination known to be routed
  datagramSockets      \* external: how many sockets the stack has open for it

datagramVars == <<Socket, SocketConnected, OffSubnetDestination, datagramSockets>>

-----------------------------------------------------------------------------
(* SolidSyslogUdpPayload.c.                                                *)
FromMtu(mtu) == IF mtu > Overhead THEN mtu - Overhead ELSE 0

ExpectedSequenceLength(byte) ==
  CASE byte = "1" -> 1
    [] byte = "2" -> 2
    [] byte = "3" -> 3
    [] OTHER -> 4

FindLastCodepointStart(record, length) ==
  Max({1} \cup {i \in 1 .. length : record[i] # "c"})

\* Mutant: the cut is moved back over continuation bytes only.
TrimOverContinuations(record, length) ==
  IF length = 0 THEN 0 ELSE FindLastCodepointStart(record, length)

TrimToCodepointBoundary(record, length) ==
  IF length = 0 THEN 0
  ELSE LET start == FindLastCodepointStart(record, length)
       IN  IF (start - 1) + ExpectedSequenceLength(record[start]) > length
           THEN start - 1 ELSE length

-----------------------------------------------------------------------------
(* The stacks.  MaxPayload: Posix and Winsock ask the socket for the MTU   *)
(* of its path; the others answer what the integrator stated.  answered    *)
(* is whether the socket had an answer.                                    *)
MaxPayloadPosix(path, answered) ==
  IF SocketConnected /\ answered THEN FromMtu(path.mtu) ELSE UnknownPath
MaxPayloadWinsock(path, answered) ==
  IF SocketConnected /\ answered THEN FromMtu(path.mtu) ELSE UnknownPath
StatedPayload(path) == path.stated

MaxPayload(platform, path, answered) ==
  CASE platform = "Posix" -> MaxPayloadPosix(path, answered)
    [] platform = "Winsock" -> MaxPayloadWinsock(path, answered)
    [] OTHER -> StatedPayload(path)

(* What the stack's answer to a send comes to.                             *)
SendToPosix == [sent |-> "SENT", EMSGSIZE |-> "OVERSIZE", error |-> "FAILED"]
SendToWinsock == [sent |-> "SENT", WSAEMSGSIZE |-> "OVERSIZE", error |-> "FAILED"]
SendToLwipSocket == [sent |-> "SENT", EMSGSIZE |-> "OVERSIZE", error |-> "FAILED"]
SendToVxWorks64 == [sent |-> "SENT", EMSGSIZE |-> "OVERSIZE", error |-> "FAILED"]
SendToPlusTcp == [sent |-> "SENT", error |-> "FAILED"]
SendToLwipRaw == [sent |-> "SENT", noPbuf |-> "FAILED", error |-> "FAILED"]

SendToAnswers(platform) ==
  CASE platform = "Posix" -> SendToPosix
    [] platform = "Winsock" -> SendToWinsock
    [] platform = "LwipSocket" -> SendToLwipSocket
    [] platform = "VxWorks64" -> SendToVxWorks64
    [] platform = "PlusTcp" -> SendToPlusTcp
    [] OTHER -> SendToLwipRaw

(* The next hop, on the stacks that drop what they accept before they have *)
(* resolved it.  hop is what the stack has found by the end of the wait;   *)
(* a run of failures is waited for once, and reported once.                *)
ResolveNextHop(platform, addr, hop) ==
  CASE platform = "VxWorks64" -> addr = OffSubnetDestination \/ addr \in OffSubnet \/ hop = "resolved"
    [] platform = "PlusTcp" -> hop = "resolved"
    [] OTHER -> TRUE

\* A destination VxWorks says is not on the subnet is not asked for again.
NoteOffSubnet(platform, addr) ==
  OffSubnetDestination' =
    IF platform = "VxWorks64" /\ addr \in OffSubnet THEN addr ELSE OffSubnetDestination
-----------------------------------------------------------------------------
DatagramInit ==
  /\ Socket = FALSE
  /\ SocketConnected = FALSE
  /\ OffSubnetDestination = NoDestination
  /\ datagramSockets = 0

\* Open, of a datagram that is not open.
DatagramOpen(ok) ==
  /\ Socket' = ok
  /\ datagramSockets' = (IF ok THEN datagramSockets + 1 ELSE datagramSockets)
  /\ UNCHANGED <<SocketConnected, OffSubnetDestination>>

DatagramClose ==
  /\ Socket' = FALSE
  /\ SocketConnected' = (SocketConnected /\ ~Socket)
  /\ datagramSockets' = (IF Socket THEN datagramSockets - 1 ELSE datagramSockets)
  /\ UNCHANGED OffSubnetDestination

(* SendTo of the first length bytes: result is what it returns, given what *)
(* the stack says.  Posix and Winsock connect the socket first, VxWorks    *)
(* compares the size with the limit before anything else.                  *)
ConnectsFirst(platform) == platform \in {"Posix", "Winsock"}
TooLongByStatement(platform, length, path) ==
  platform = "VxWorks64" /\ length > StatedPayload(path)

SendTo(platform, length, addr, path, said, result) ==
  \/ /\ TooLongByStatement(platform, length, path)
     /\ result = "OVERSIZE"
     /\ UNCHANGED datagramVars
  \/ /\ ConnectsFirst(platform) /\ ~SocketConnected /\ ~said.connects
     /\ result = "FAILED"
     /\ UNCHANGED datagramVars
  \/ /\ ~TooLongByStatement(platform, length, path)
     /\ ConnectsFirst(platform) => SocketConnected \/ said.connects
     /\ SocketConnected' = ConnectsFirst(platform)
     /\ NoteOffSubnet(platform, addr)
     /\ IF ResolveNextHop(platform, addr, said.hop)
        THEN /\ said.answer = "sent" => length <= FromMtu(path.mtu)
             /\ result = SendToAnswers(platform)[said.answer]
        ELSE result = "FAILED"
     /\ UNCHANGED <<Socket, datagramSockets>>

=============================================================================
