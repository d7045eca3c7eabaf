----------------------------- MODULE TcpStream -----------------------------
(***************************************************************************)
(* The TCP streams over a socket API: Posix, Winsock, lwIP sockets,        *)
(* VxWorks and FreeRTOS-Plus-TCP (Platform/*/Source/*TcpStream.c), and the *)
(* report of a failed Open they share (Core/Source/...StreamOpenHealth.c). *)
(*                                                                         *)
(* The five adapters run the same Open, Send, Read and Close and differ in *)
(* the calls they make and in how they read the answers: each of those is  *)
(* a table or a predicate of its own.  One call of the stack is one step.  *)
(* What the bytes are is abstracted to where they stand in a frame.        *)
(***************************************************************************)
EXTENDS Integers, Sequences

CONSTANT Platforms    \* the adapters of this run

ASSUME PlatformsAssumption ==
  Platforms \subseteq {"Posix", "Winsock", "LwipSocket", "VxWorks64", "PlusTcp", "LwipRaw", "LwipRawDns"}

VARIABLES
  platform,     \* the adapter in use
  Fd,           \* whether the stream holds a socket
  Failing,      \* StreamOpenHealth: what the last Open failed of, or None
  call,         \* the step the stream's call is at, or how it ended
  sockets,      \* external: how many sockets the stack has open for us
  conn,         \* external: the connection made on the socket held
  told,         \* ghost: the cause last reported since a connection was up
  cause,        \* ghost: what the last Open failed of since then
  refused       \* ghost: an Open found the stream already open

streamVars == <<platform, Fd, Failing, call, sockets, conn, told, cause, refused>>

NoConn == [to |-> [endpoint |-> 0, profile |-> 0], peer |-> "none", frame |-> "whole"]
None == "none"

-----------------------------------------------------------------------------
(* The local calls an adapter makes before it connects, each of which may  *)
(* refuse.  An option refused is not among them: it fails nothing.         *)
TakePosix == <<"socket", "fcntl">>
TakeWinsock == <<"socket", "ioctlsocket">>
TakeLwipSocket == <<"lwip_socket", "lwip_fcntl">>
TakeVxWorks64 == <<"socket">>
TakePlusTcp == <<"FreeRTOS_socket">>

TakeCalls ==
  CASE platform = "Posix" -> TakePosix
    [] platform = "Winsock" -> TakeWinsock
    [] platform = "LwipSocket" -> TakeLwipSocket
    [] platform = "VxWorks64" -> TakeVxWorks64
    [] platform = "PlusTcp" -> TakePlusTcp

(* How each adapter reads what its connect answers: "opened", "Wait", or   *)
(* the detail the failure is reported with.                                *)
ConnectPosix ==
  [ok |-> "opened", EINPROGRESS |-> "Wait", ECONNREFUSED |-> "CONNECT_REFUSED",
   ETIMEDOUT |-> "CONNECT_REFUSED", other |-> "CONNECT_NOT_STARTED"]
ConnectWinsock ==
  [ok |-> "opened", WSAEWOULDBLOCK |-> "Wait", WSAECONNREFUSED |-> "CONNECT_REFUSED",
   WSAETIMEDOUT |-> "CONNECT_REFUSED", other |-> "CONNECT_NOT_STARTED"]
ConnectLwipSocket ==
  [ok |-> "opened", EINPROGRESS |-> "Wait", ECONNREFUSED |-> "CONNECT_REFUSED",
   ETIMEDOUT |-> "CONNECT_REFUSED", other |-> "CONNECT_NOT_STARTED"]
ConnectVxWorks64 ==
  [ok |-> "opened", EINPROGRESS |-> "CONNECT_TIMED_OUT", ECONNREFUSED |-> "CONNECT_REFUSED",
   ETIMEDOUT |-> "CONNECT_REFUSED", other |-> "CONNECT_NOT_STARTED"]
ConnectPlusTcp ==
  [ok |-> "opened", ETIMEDOUT |-> "CONNECT_TIMED_OUT", ENOTCONN |-> "CONNECT_REFUSED",
   other |-> "CONNECT_NOT_STARTED"]

ConnectAnswers ==
  CASE platform = "Posix" -> ConnectPosix
    [] platform = "Winsock" -> ConnectWinsock
    [] platform = "LwipSocket" -> ConnectLwipSocket
    [] platform = "VxWorks64" -> ConnectVxWorks64
    [] platform = "PlusTcp" -> ConnectPlusTcp

(* What the wait for a started connect comes to: select runs out, fails,   *)
(* finds the socket in its error set, or finds it writable, and then       *)
(* SO_ERROR cannot be read, holds an error, or is clear.                   *)
WaitPosix ==
  [timeout |-> "CONNECT_TIMED_OUT", failed |-> "CONNECT_REFUSED", errorSet |-> "CONNECT_REFUSED",
   notAsked |-> "CONNECT_REFUSED", soError |-> "CONNECT_REFUSED", clear |-> "opened"]
WaitWinsock ==
  [timeout |-> "CONNECT_TIMED_OUT", failed |-> "CONNECT_REFUSED", errorSet |-> "CONNECT_REFUSED",
   notAsked |-> "CONNECT_REFUSED", soError |-> "CONNECT_REFUSED", clear |-> "opened"]
WaitLwipSocket ==
  [timeout |-> "CONNECT_TIMED_OUT", failed |-> "CONNECT_REFUSED", errorSet |-> "CONNECT_REFUSED",
   notAsked |-> "CONNECT_REFUSED", soError |-> "CONNECT_REFUSED", clear |-> "opened"]

WaitAnswers ==
  CASE platform = "Posix" -> WaitPosix
    [] platform = "Winsock" -> WaitWinsock
    [] platform = "LwipSocket" -> WaitLwipSocket

(* Whether an adapter hands the bytes to the stack, by what a peek at the  *)
(* connection reads.  Plus-TCP does not peek: its stack refuses the bytes. *)
\* Mutant: the end of the stream is taken for a peer that has nothing to say.
SendPosixUnlessError(peeked) == peeked # "error"
SendPosix(peeked) == peeked \in {"bytes", "wouldBlock"}
SendWinsock(peeked) == peeked \in {"bytes", "wouldBlock"}
SendLwipSocket(peeked) == peeked \in {"bytes", "wouldBlock"}
SendVxWorks64(peeked) == peeked \in {"bytes", "wouldBlock"}
SendPlusTcp(peeked) == Fd

PeerIsStillThere(peeked) ==
  CASE platform = "Posix" -> SendPosix(peeked)
    [] platform = "Winsock" -> SendWinsock(peeked)
    [] platform = "LwipSocket" -> SendLwipSocket(peeked)
    [] platform = "VxWorks64" -> SendVxWorks64(peeked)
    [] platform = "PlusTcp" -> SendPlusTcp(peeked)

(* How each adapter's Read takes what recv answers: "data", "nothing" or   *)
(* "closed".  Plus-TCP's recv answers zero when nothing has arrived.       *)
ReadPosix == [bytes |-> "data", wouldBlock |-> "nothing", zero |-> "closed", error |-> "closed"]
ReadWinsock == [bytes |-> "data", wouldBlock |-> "nothing", zero |-> "closed", error |-> "closed"]
ReadLwipSocket == [bytes |-> "data", wouldBlock |-> "nothing", zero |-> "closed", error |-> "closed"]
ReadVxWorks64 == [bytes |-> "data", wouldBlock |-> "nothing", zero |-> "closed", error |-> "closed"]
ReadPlusTcp == [bytes |-> "data", zero |-> "nothing", error |-> "closed"]

ReadAnswers ==
  CASE platform = "Posix" -> ReadPosix
    [] platform = "Winsock" -> ReadWinsock
    [] platform = "LwipSocket" -> ReadLwipSocket
    [] platform = "VxWorks64" -> ReadVxWorks64
    [] platform = "PlusTcp" -> ReadPlusTcp

(* External: what the stack can answer.  A closed peer reads as the end of *)
(* the stream, behind what it sent before that nothing has read, and the   *)
(* socket APIs still take bytes for it.                                    *)
Hidden == {"goneBehindBytes", "goneBehindMore"}
RecvAnswers ==
  CASE conn.peer = "up" -> {"bytes", "error"} \cup {IF platform = "PlusTcp" THEN "zero" ELSE "wouldBlock"}
    [] conn.peer \in Hidden -> {"bytes", "error"}
    [] OTHER -> {"error"} \cup (IF platform = "PlusTcp" THEN {} ELSE {"zero"})
SendAnswers ==
  IF platform = "PlusTcp" /\ conn.peer # "up" THEN {"error"} ELSE {"all", "short", "error"}

-----------------------------------------------------------------------------
(* StreamOpenHealth.                                                       *)
\* Mutant: a repeated failure is silent whatever its detail.
ReportFailureOncePerRun(detail) ==
  /\ Failing' = (IF Failing = None THEN detail ELSE Failing)
  /\ told' = (IF Failing = None THEN detail ELSE told)
  /\ cause' = detail

ReportFailure(detail) ==
  LET isNews == Failing # detail
  IN  /\ Failing' = detail
      /\ told' = (IF isNews THEN detail ELSE told)
      /\ cause' = detail

Opened ==
  /\ Failing' = None
  /\ told' = None
  /\ cause' = None

-----------------------------------------------------------------------------
(* Open.                                                                   *)
StreamInit ==
  /\ platform \in Platforms
  /\ Fd = FALSE
  /\ Failing = None
  /\ call = "idle"
  /\ sockets = 0
  /\ conn = NoConn
  /\ told = None
  /\ cause = None
  /\ refused = FALSE

\* An Open of a stream that is open is refused and changes nothing.
Open ==
  /\ call' = (IF Fd THEN "failed" ELSE "TakeSocket")
  /\ refused' = (refused \/ Fd)
  /\ UNCHANGED <<platform, Fd, Failing, sockets, conn, told, cause>>

\* Mutant: the socket of a refused option is forgotten, not closed.
TakeSocketForgotten(failing) ==
  /\ call = "TakeSocket"
  /\ failing \in 0 .. Len(TakeCalls)
  /\ IF failing = 0
     THEN /\ Fd' = TRUE
          /\ call' = "Connect"
          /\ UNCHANGED <<Failing, told, cause>>
     ELSE /\ call' = "failed"
          /\ ReportFailure("ENDPOINT_UNAVAILABLE")
          /\ UNCHANGED Fd
  /\ sockets' = (IF failing = 1 THEN sockets ELSE sockets + 1)
  /\ UNCHANGED <<platform, conn, refused>>

\* OpenAndConfigureSocket: the call that refuses, if any, ends the attempt,
\* and a socket already taken is closed.
TakeSocket(failing) ==
  /\ call = "TakeSocket"
  /\ failing \in 0 .. Len(TakeCalls)
  /\ IF failing = 0
     THEN /\ Fd' = TRUE
          /\ sockets' = sockets + 1
          /\ call' = "Connect"
          /\ UNCHANGED <<Failing, told, cause>>
     ELSE /\ call' = "failed"
          /\ ReportFailure("ENDPOINT_UNAVAILABLE")
          /\ UNCHANGED <<Fd, sockets>>
  /\ UNCHANGED <<platform, conn, refused>>

\* ConnectOrCloseOnFailure: what connect, or the wait for it, came to.
Attempted(verdict, to) ==
  \/ /\ verdict = "Wait"
     /\ call' = "Wait"
     /\ UNCHANGED <<Fd, Failing, told, cause, sockets, conn>>
  \/ /\ verdict = "opened"
     /\ call' = "opened"
     /\ conn' = [to |-> to, peer |-> "up", frame |-> "whole"]
     /\ Opened
     /\ UNCHANGED <<Fd, sockets>>
  \/ /\ verdict \notin {"Wait", "opened"}
     /\ call' = "failed"
     /\ ReportFailure(verdict)
     /\ Fd' = FALSE
     /\ sockets' = sockets - 1
     /\ UNCHANGED conn

Connect(answer, to) ==
  /\ call = "Connect"
  /\ answer \in DOMAIN ConnectAnswers
  /\ Attempted(ConnectAnswers[answer], to)
  /\ UNCHANGED <<platform, refused>>

WaitForConnectCompletion(answer, to) ==
  /\ call = "Wait"
  /\ answer \in DOMAIN WaitAnswers
  /\ Attempted(WaitAnswers[answer], to)
  /\ UNCHANGED <<platform, refused>>

-----------------------------------------------------------------------------
(* Send, Read and Close.                                                   *)
CloseSocket ==
  /\ Fd' = FALSE
  /\ sockets' = (IF Fd THEN sockets - 1 ELSE sockets)
  /\ conn' = NoConn

\* The peek before the bytes.
Check(peeked) ==
  /\ call = "Check"
  /\ peeked \in RecvAnswers
  /\ IF PeerIsStillThere(peeked)
     THEN /\ call' = "Write"
          /\ UNCHANGED <<Fd, sockets, conn>>
     ELSE /\ call' = "failed"
          /\ CloseSocket
  /\ UNCHANGED <<platform, Failing, told, cause, refused>>

\* Where a connection stands once some of a piece of a frame is on it.
After(frame, piece, wrote) ==
  CASE wrote = "error" -> frame
    [] frame = "whole" /\ piece = "count" -> IF wrote = "all" THEN "counted" ELSE "partial"
    [] frame = "counted" /\ piece = "record" -> IF wrote = "all" THEN "whole" ELSE "partial"
    [] OTHER -> "garbled"

\* Mutant: a short write counts as sent.
WriteTakingShort(piece, wrote) ==
  /\ call = "Write"
  /\ wrote \in SendAnswers
  /\ IF wrote # "error"
     THEN /\ call' = "sent"
          /\ conn' = [conn EXCEPT !.frame = After(@, piece, wrote)]
          /\ UNCHANGED <<Fd, sockets>>
     ELSE /\ call' = "failed"
          /\ CloseSocket
  /\ UNCHANGED <<platform, Failing, told, cause, refused>>

\* All the bytes went, or the socket is closed.
Write(piece, wrote) ==
  /\ call = "Write"
  /\ wrote \in SendAnswers
  /\ IF wrote = "all"
     THEN /\ call' = "sent"
          /\ conn' = [conn EXCEPT !.frame = After(@, piece, wrote)]
          /\ UNCHANGED <<Fd, sockets>>
     ELSE /\ call' = "failed"
          /\ CloseSocket
  /\ UNCHANGED <<platform, Failing, told, cause, refused>>

\* How the session of a TLS stream goes on after a read that took bytes: it reads
\* again, up to MAX_READS_BEFORE_WRITE times.  The peer's close comes to the front
\* where those reads take all that stands before it.
ReadOn ==
  \/ conn.peer \in {"up", "goneBehindMore"} /\ call' \in {"Read", "Check"} /\ UNCHANGED conn
  \/ conn.peer \in Hidden /\ call' = "Read" /\ conn' = [conn EXCEPT !.peer = "gone"]

\* Read, as the session of a TLS stream makes it before it sends.
Read(answer) ==
  /\ call = "Read"
  /\ answer \in RecvAnswers
  /\ CASE ReadAnswers[answer] = "data" -> ReadOn /\ UNCHANGED <<Fd, sockets>>
       [] ReadAnswers[answer] = "nothing" -> call' = "Check" /\ UNCHANGED <<Fd, sockets, conn>>
       [] ReadAnswers[answer] = "closed" -> call' = "failed" /\ CloseSocket
  /\ UNCHANGED <<platform, Failing, told, cause, refused>>

\* External: the peer closes the connection, behind bytes it sent or without any.
PeerCloses ==
  /\ conn.peer = "up"
  /\ \E gone \in {"gone"} \cup Hidden : conn' = [conn EXCEPT !.peer = gone]
  /\ UNCHANGED <<platform, Fd, Failing, call, sockets, told, cause, refused>>

=============================================================================
