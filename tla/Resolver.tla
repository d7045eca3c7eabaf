------------------------------ MODULE Resolver ------------------------------
(***************************************************************************)
(* The resolvers of the network stacks (Platform/*/Source/*Resolver.c).    *)
(* Most ask and are answered in one call; lwIP's DNS answers by a callback *)
(* on its own thread, which may come after Resolve has given up.           *)
(*                                                                         *)
(* A host and the address it stands for are the same number.               *)
(***************************************************************************)
EXTENDS Integers

VARIABLES
  Address,      \* the destination the resolver fills in
  resolving,    \* the step Resolve is at, or how it ended
  Done,         \* LwipRawDns: the callback has answered
  ResolvedOk,   \*   ... with an address
  ResolvedIp,   \*   ... this one
  queries       \* external: the hosts lwIP has yet to answer for

dnsVars == <<Done, ResolvedOk, ResolvedIp, queries>>
resolverVars == <<Address, resolving, dnsVars>>

ResolverInit ==
  /\ Address = 0
  /\ resolving = "no"
  /\ Done = FALSE
  /\ ResolvedOk = FALSE
  /\ ResolvedIp = 0
  /\ queries = {}

(* Whether each answer of the stack resolves the host: an address in       *)
(* another family than IPv4 is refused.                                    *)
ResolvePosix == [found |-> TRUE, missing |-> FALSE]
ResolveWinsock == [found |-> TRUE, missing |-> FALSE]
ResolveLwipSocket == [found |-> TRUE, foundIpv6 |-> FALSE, wrongFamily |-> FALSE, missing |-> FALSE]
ResolveVxWorks64 == [numeric |-> TRUE, named |-> TRUE, missing |-> FALSE]
ResolvePlusTcp == [found |-> TRUE, missing |-> FALSE]
ResolveLwipRaw == [numeric |-> TRUE, numericIpv6 |-> FALSE, missing |-> FALSE]

ResolveAnswers(platform) ==
  CASE platform = "Posix" -> ResolvePosix
    [] platform = "Winsock" -> ResolveWinsock
    [] platform = "LwipSocket" -> ResolveLwipSocket
    [] platform = "VxWorks64" -> ResolveVxWorks64
    [] platform = "PlusTcp" -> ResolvePlusTcp
    [] platform = "LwipRaw" -> ResolveLwipRaw

\* The result is written only when the host resolves.
ResolveAtOnce(platform, host, answer) ==
  /\ platform # "LwipRawDns"
  /\ answer \in DOMAIN ResolveAnswers(platform)
  /\ resolving' = (IF ResolveAnswers(platform)[answer] THEN "found" ELSE "failed")
  /\ Address' = (IF ResolveAnswers(platform)[answer] THEN host ELSE Address)
  /\ UNCHANGED dnsVars

-----------------------------------------------------------------------------
(* Platform/LwipRaw/Source/SolidSyslogLwipRawDnsResolver.c.                *)
ResolveStart(platform) ==
  /\ platform = "LwipRawDns"
  /\ Done' = FALSE
  /\ ResolvedOk' = FALSE
  /\ resolving' = "ask"
  /\ UNCHANGED <<Address, ResolvedIp, queries>>

\* dns_gethostbyname knows the address, queues a query, or declines.
DoGetHostByName(host, answer) ==
  /\ resolving = "ask"
  /\ CASE answer = "known" ->
            /\ ResolvedIp' = host
            /\ Address' = host
            /\ resolving' = "found"
            /\ UNCHANGED queries
       [] answer = "knownIpv6" ->
            /\ ResolvedIp' = host
            /\ resolving' = "failed"
            /\ UNCHANGED <<Address, queries>>
       [] answer = "queued" ->
            /\ queries' = queries \cup {host}
            /\ resolving' = "wait"
            /\ UNCHANGED <<Address, ResolvedIp>>
       [] answer = "declined" ->
            /\ resolving' = "failed"
            /\ UNCHANGED <<Address, ResolvedIp, queries>>
  /\ UNCHANGED <<Done, ResolvedOk>>

\* The spin ends: the callback has answered, or the deadline has passed.
WaitForCallback ==
  /\ resolving = "wait"
  /\ resolving' = (IF Done THEN "publish" ELSE "failed")
  /\ UNCHANGED <<Address, dnsVars>>

\* An address in another family is not published.
DoPublishResult(ipv4) ==
  /\ resolving = "publish"
  /\ resolving' = (IF ResolvedOk /\ ipv4 THEN "found" ELSE "failed")
  /\ Address' = (IF ResolvedOk /\ ipv4 THEN ResolvedIp ELSE Address)
  /\ UNCHANGED dnsVars

\* lwIP answers a query, whoever waits for it by now.
FoundCallback(host, found) ==
  /\ host \in queries
  /\ queries' = queries \ {host}
  /\ Done' = TRUE
  /\ ResolvedOk' = (ResolvedOk \/ found)
  /\ ResolvedIp' = (IF found THEN host ELSE ResolvedIp)
  /\ UNCHANGED <<Address, resolving>>

=============================================================================
