-------------------------- MODULE LwipRawTcpStream --------------------------
(***************************************************************************)
(* Platform/LwipRaw/Source/SolidSyslogLwipRawTcpStream.c: the TCP stream   *)
(* over lwIP's callback API.  Its calls run on the caller's thread and hop *)
(* onto lwIP's thread for every lwIP call they make; lwIP runs the         *)
(* callbacks on that thread, between any two steps of the caller.          *)
(*                                                                         *)
(* Fd is Pcb # NULL, and sockets counts the pcbs lwIP holds that can still *)
(* call back.  Under a call in TcpStream's steps: TakeSocket and Abort are *)
(* hops of Open, Wait is its bounded spin, Check and Read are the tests on *)
(* the caller's thread, and Write and DoRead the hops they lead to.        *)
(***************************************************************************)
EXTENDS TcpStream

CONSTANT RxQueueSize       \* SOLIDSYSLOG_LWIP_RAW_TCP_RX_QUEUE_SIZE

ASSUME RxQueueSizeAssumption == RxQueueSize \in Nat \ {0}

VARIABLES
  Connected,    \* set by the connected callback
  Errored,      \* set by the callback that ended the connection
  RxQueueCount  \* received pbufs nobody has read

rawVars == <<Connected, Errored, RxQueueCount>>
IsRaw == platform \in {"LwipRaw", "LwipRawDns"}

RawInit ==
  /\ Connected = FALSE
  /\ Errored = FALSE
  /\ RxQueueCount = 0

\* The pcb is given back: closed or aborted by us, with its callbacks
\* detached, or freed by lwIP.
ReleasePcb ==
  /\ Fd' = FALSE
  /\ sockets' = (IF Fd THEN sockets - 1 ELSE sockets)
  /\ conn' = NoConn

\* ClosePcb: the queue is drained whether or not the pcb is still there.
ClosePcb ==
  /\ ReleasePcb
  /\ RxQueueCount' = 0
  /\ UNCHANGED <<Connected, Errored>>

-----------------------------------------------------------------------------
(* Open.                                                                   *)
DoOpenAndConnect(created, started) ==
  /\ IsRaw /\ call = "TakeSocket"
  /\ IF created
     THEN /\ Fd' = TRUE
          /\ sockets' = sockets + 1
          /\ Connected' = FALSE
          /\ Errored' = FALSE
          /\ call' = (IF started THEN "Wait" ELSE "NotStarted")
          /\ UNCHANGED <<Failing, told, cause>>
     ELSE /\ call' = "failed"
          /\ ReportFailure("ENDPOINT_UNAVAILABLE")
          /\ UNCHANGED <<Fd, sockets, Connected, Errored>>
  /\ UNCHANGED <<platform, conn, refused, RxQueueCount>>

\* The spin ends: a callback has answered, or the deadline has passed.
WaitForConnectedCallback ==
  /\ IsRaw /\ call = "Wait"
  /\ IF Connected
     THEN call' = "opened" /\ Opened
     ELSE call' = "Abort" /\ UNCHANGED <<Failing, told, cause>>
  /\ UNCHANGED <<platform, Fd, sockets, conn, refused, rawVars>>

\* What is still held is aborted; the queue is not drained.
DoAbort ==
  /\ IsRaw /\ call \in {"Abort", "NotStarted"}
  /\ call' = "failed"
  /\ ReportFailure(CASE call = "NotStarted" -> "CONNECT_NOT_STARTED"
                     [] call = "Abort" /\ Errored -> "CONNECT_REFUSED"
                     [] OTHER -> "CONNECT_TIMED_OUT")
  /\ ReleasePcb
  /\ UNCHANGED <<platform, refused, rawVars>>

-----------------------------------------------------------------------------
(* Send, Read and Close.                                                   *)

\* IsWritable.  A send that is refused here closes nothing: StreamSender does.
RawCheck ==
  /\ IsRaw /\ call = "Check"
  /\ call' = (IF Fd /\ ~Errored THEN "Write" ELSE "failed")
  /\ UNCHANGED <<platform, Fd, Failing, sockets, conn, told, cause, refused, rawVars>>

\* DoSend.  tcp_write takes all of the bytes or none; once it has them a
\* failing tcp_output closes the pcb behind them ("late").  A pcb lwIP has
\* released since the check is passed to tcp_write as NULL.
DoSend(piece, wrote) ==
  /\ IsRaw /\ call = "Write"
  /\ wrote \in (IF Fd THEN {"all", "error", "late"} ELSE {"error"})
  /\ IF wrote = "all"
     THEN /\ call' = "sent"
          /\ conn' = [conn EXCEPT !.frame = After(@, piece, wrote)]
          /\ UNCHANGED <<Fd, sockets, Connected, Errored, RxQueueCount>>
     ELSE /\ call' = "failed"
          /\ ClosePcb
  /\ UNCHANGED <<platform, Failing, told, cause, refused>>

\* Read: closed if there is no pcb, nothing to do if nothing came.
RawRead ==
  /\ IsRaw /\ call = "Read"
  /\ call' = (IF ~Fd THEN "failed"
              ELSE IF RxQueueCount > 0 \/ Errored THEN "DoRead" ELSE "Check")
  /\ UNCHANGED <<platform, Fd, Failing, sockets, conn, told, cause, refused, rawVars>>

\* DoRead drains the head, or closes on the drained end of the stream.  A TLS
\* session that has read as often as it may goes on to its write.
DoRead ==
  /\ IsRaw /\ call = "DoRead"
  /\ IF RxQueueCount > 0
     THEN /\ RxQueueCount' = RxQueueCount - 1
          /\ call' \in {"Read", "Check"}
          /\ UNCHANGED <<Fd, sockets, conn, Connected, Errored>>
     ELSE /\ ClosePcb
          /\ call' = "failed"
  /\ UNCHANGED <<platform, Failing, told, cause, refused>>

-----------------------------------------------------------------------------
(* The callbacks, on lwIP's thread, as long as the pcb is attached.        *)
Connecting == Fd /\ conn = NoConn /\ call # "NotStarted" /\ ~Errored

ConnectedCallback(ok, to) ==
  /\ IsRaw /\ Connecting
  /\ IF ok
     THEN /\ Connected' = TRUE
          /\ conn' = [to |-> to, peer |-> "up", frame |-> "whole"]
          /\ UNCHANGED Errored
     ELSE /\ Errored' = TRUE
          /\ UNCHANGED <<Connected, conn>>
  /\ UNCHANGED <<platform, Fd, Failing, call, sockets, told, cause, refused,
                 RxQueueCount>>

\* A full queue makes lwIP keep the pbuf and offer it again.
RecvCallback(fin) ==
  /\ IsRaw /\ Fd /\ conn.peer = "up"
  /\ IF fin
     THEN /\ Errored' = TRUE
          /\ conn' = [conn EXCEPT !.peer = "gone"]
          /\ UNCHANGED RxQueueCount
     ELSE /\ RxQueueCount < RxQueueSize
          /\ RxQueueCount' = RxQueueCount + 1
          /\ UNCHANGED <<Errored, conn>>
  /\ UNCHANGED <<platform, Fd, Failing, call, sockets, told, cause, refused,
                 Connected>>

\* lwIP frees the pcb itself, and the pointer to it is dropped.
ErrCallback ==
  /\ IsRaw /\ Fd /\ call # "NotStarted"
  /\ Errored' = TRUE
  /\ ReleasePcb
  /\ UNCHANGED <<platform, Failing, call, told, cause, refused,
                 Connected, RxQueueCount>>

=============================================================================
