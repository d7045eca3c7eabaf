-------------------------------- MODULE Tls --------------------------------
(* The TLS streams over OpenSSL, Mbed TLS and wolfSSL, and the credentials   *)
(* objects they take their trust from.  The three streams are the same state *)
(* machine: Open brings up the transport, a context, the credentials, a      *)
(* session and the name to expect, drives a handshake within a budget, and   *)
(* on any failure closes everything.  They differ in how the library reports *)
(* on the peer's certificates, and therefore in the verify callback, which   *)
(* is what this module spells out once per library.                          *)
(*                                                                           *)
(* Several streams share one credentials object, and their operations        *)
(* interleave at the stages of Open: a handshake sleeps between its polls.   *)
EXTENDS Integers, Sequences, FiniteSets

CONSTANTS
    Streams,       \* the streams that share the credentials object
    Libraries,     \* the TLS libraries and credentials objects to explore
    PinLists,      \* the fingerprint lists an integrator may configure
    Digests,       \* the hash algorithms this build of the library has
    Budget,        \* the handshake budget, in the units of PollInterval
    PollInterval   \* the longest sleep between two polls

ASSUME TlsAssumption ==
    /\ Libraries \subseteq {"OpenSsl", "MbedTls", "MbedTlsHandle",
                            "WolfSslInCallback", "WolfSslAfterHandshake",
                            "WolfSslRefused"}
    /\ Digests \subseteq {"sha-1", "sha-256"}
    /\ Streams # {} /\ Budget \in Nat /\ PollInterval \in Nat \ {0}

VARIABLES
    library,       \* which library the streams are built on
    config,        \* the credentials: are there trust anchors, and the pins
    stream,        \* per stream: its stage, what it holds, what it carried
    outstanding,   \* OutstandingInstalls of the Mbed TLS PEM credentials
    material       \* are that object's parsed chains and key in memory

tlsVars == <<library, config, stream, outstanding, material>>

IsWolfSsl == library \in {"WolfSslInCallback", "WolfSslAfterHandshake", "WolfSslRefused"}
IsMbedTls == library \in {"MbedTls", "MbedTlsHandle"}

\* What holds for the library the streams are built on.
By(openSsl, mbedTls, wolfSsl) ==
    IF library = "OpenSsl" THEN openSsl ELSE IF IsMbedTls THEN mbedTls ELSE wolfSsl

-----------------------------------------------------------------------------
(* Fingerprints. *)

\* An entry of a list: the label, and whether it is the digest of the peer
\* the integrator means, of another certificate, or does not parse.
Pin(algorithm, of) == [algorithm |-> algorithm, of |-> of]

InspectOne(pin) ==
    IF pin.of = "malformed" THEN 2 ELSE IF pin.algorithm = "sha-1" THEN 1 ELSE 0

\* The worst of the entries: 0 well formed, 1 uses SHA-1, 2 malformed.
InspectList(pins) ==
    LET states == {InspectOne(pins[i]) : i \in DOMAIN pins}
    IN  CHOOSE w \in states \cup {0} : \A v \in states : v <= w

AuthoriseOne(pin, leaf) ==
    IF pin.of = "malformed" THEN "Malformed"
    ELSE IF pin.algorithm \notin Digests THEN "DigestUnavailable"
    ELSE IF pin.of = leaf THEN "Matched" ELSE "NoMatch"

\* The list is read until an entry decides; an entry whose digest cannot be
\* computed is skipped, and is the verdict only when nothing else decides.
Authorise(pins, leaf) ==
    LET One(i)   == AuthoriseOne(pins[i], leaf)
        Decides  == {i \in DOMAIN pins : One(i) \in {"Matched", "Malformed"}}
    IN  IF Decides # {} THEN One(CHOOSE i \in Decides : \A j \in Decides : i <= j)
        ELSE IF \E i \in DOMAIN pins : One(i) = "DigestUnavailable"
             THEN "DigestUnavailable"
        ELSE "NoMatch"

-----------------------------------------------------------------------------
(* Peers, and what the library says of them. *)

\* What a peer can present: does its chain reach one of the anchors, is there
\* an issuer above the leaf and is it within its dates, is the leaf within
\* its own, does it carry the name, and is it the certificate the pins mean.
Peers == [anchored : BOOLEAN, issuer : {"none", "valid", "outOfDate"},
          valid : BOOLEAN, named : BOOLEAN, leaf : {"meant", "stranger"}]

\* An anonymous key exchange: no certificate, so no verification.
NoCertificate == [anonymous |-> TRUE]

Top(peer) == IF peer.issuer = "none" THEN 0 ELSE 1
Trusted(peer) == config.anchors /\ peer.anchored
InDate(peer, depth) == IF depth = 0 THEN peer.valid ELSE peer.issuer = "valid"
Pinned == config.pins # <<>>
WaivesChain == Pinned /\ ~config.anchors
Misnamed(peer, name) == name # "none" /\ ~peer.named

\* The first of a precedence that is among the faults found; with none of
\* them the handshake was rejected by the peer or the protocol.
FirstOf(precedence, faults) ==
    LET found == {i \in DOMAIN precedence : precedence[i] \in faults}
    IN  IF found = {} THEN "rejected"
        ELSE precedence[CHOOSE i \in found : \A j \in found : i <= j]

-----------------------------------------------------------------------------
(* OpenSSL.  Its calls: an unreachable chain at the top of it, the name at   *)
(* the leaf, then from the top down each certificate's dates and a last call *)
(* for the certificate.  A call that raises nothing leaves the error of the  *)
(* store context as it was.                                                  *)

\* Mutant: only the chain objection is carried past.
CarryChainToTheLeaf(v) ==
    IF Pinned /\ v.error = "chain"
    THEN [v EXCEPT !.carried = @ \cup {v.error}, !.ok = TRUE]
    ELSE v

\* Above the leaf, with pins: the objection is recorded and carried past.
CarryObjectionToTheLeaf(v) ==
    IF Pinned /\ v.error \in {"chain", "dates"}
    THEN [v EXCEPT !.carried = @ \cup {v.error}, !.ok = TRUE]
    ELSE v

\* The leaf, with pins: the pin first, then a carried chain objection unless
\* the pin is the whole of the authorisation, then a carried validity one.
VerifyPinnedLeaf(v, peer) ==
    LET pin == Authorise(config.pins, peer.leaf)
        w   == [v EXCEPT !.pin = pin]
        x   == IF pin # "Matched"
               THEN [w EXCEPT !.error = "fingerprint", !.ok = FALSE]
               ELSE IF config.anchors /\ "chain" \in v.carried
               THEN [w EXCEPT !.error = "chain", !.ok = FALSE]
               ELSE [w EXCEPT !.ok = @ \/ (WaivesChain /\ v.error = "chain")]
    IN  IF x.ok /\ "dates" \in x.carried
        THEN [x EXCEPT !.error = "dates", !.ok = FALSE]
        ELSE x

\* The name is carried where it is raised, and refuses the leaf on the last
\* call made for it.
ResolveNameObjection(v) ==
    CASE ~v.ok /\ v.error = "name" ->
           [v EXCEPT !.carried = @ \cup {"name"}, !.ok = TRUE]
      [] v.ok /\ "name" \in v.carried -> [v EXCEPT !.error = "name", !.ok = FALSE]
      [] OTHER -> v

OpenSslVerifyPeer(v, peer, depth, error) ==
    LET raised == [v EXCEPT !.error = IF error = "none" THEN @ ELSE error,
                            !.ok = error = "none"]
    IN  IF depth > 0 THEN CarryObjectionToTheLeaf(raised)
        ELSE ResolveNameObjection(
                 IF Pinned THEN VerifyPinnedLeaf(raised, peer) ELSE raised)

\* A call is made if there is cause for it and no call before it refused.
OpenSslCall(v, cause, peer, depth, error) ==
    IF v.ok /\ cause THEN OpenSslVerifyPeer(v, peer, depth, error) ELSE v

OpenSslCertificate(v, peer, d) ==
    LET dated == OpenSslCall(v, ~InDate(peer, d), peer, d, "dates")
    IN  IF d > Top(peer) THEN v ELSE OpenSslCall(dated, TRUE, peer, d, "none")

OpenSslCalls(v, peer, name) ==
    LET reached == OpenSslCall(v, ~Trusted(peer), peer, Top(peer), "chain")
        named   == OpenSslCall(reached, Misnamed(peer, name), peer, 0, "name")
    IN  OpenSslCertificate(OpenSslCertificate(named, peer, 1), peer, 0)

OpenSslRefusalDetail(v) ==
    IF v.pin = "DigestUnavailable" THEN "DigestUnavailable"
    ELSE IF v.error = "none" \/ (v.error = "chain" /\ WaivesChain) THEN "rejected"
    ELSE v.error

-----------------------------------------------------------------------------
(* Mbed TLS.  One call per certificate from the top down with the faults     *)
(* found on it; what the callback leaves of them is merged into the result.  *)
(* With anchors the library refuses what is left; without, verification is   *)
(* optional and the callback refuses at the leaf.                            *)

MbedTlsVerifyPeer(v, peer, depth, found) ==
    LET pin   == IF Pinned /\ depth = 0
                 THEN Authorise(config.pins, peer.leaf) ELSE v.pin
        flags == (IF WaivesChain THEN found \ {"chain"} ELSE found)
                 \cup IF Pinned /\ depth = 0 /\ pin # "Matched"
                      THEN {"fingerprint"} ELSE {}
        refused == IF config.anchors THEN v.carried ELSE v.carried \cup flags
    IN  [v EXCEPT !.pin = pin, !.carried = refused, !.result = @ \cup flags,
                  !.ok = config.anchors \/ depth # 0 \/ refused = {}]

\* The faults the library finds on one certificate.
MbedTlsFlags(peer, name, d) ==
    (IF d = Top(peer) /\ ~Trusted(peer) THEN {"chain"} ELSE {})
        \cup (IF ~InDate(peer, d) THEN {"dates"} ELSE {})
        \cup (IF d = 0 /\ Misnamed(peer, name) THEN {"name"} ELSE {})

MbedTlsCertificate(v, peer, name, d) ==
    IF d > Top(peer) \/ ~v.ok THEN v
    ELSE MbedTlsVerifyPeer(v, peer, d, MbedTlsFlags(peer, name, d))

MbedTlsCalls(v, peer, name) ==
    MbedTlsCertificate(MbedTlsCertificate(v, peer, name, 1), peer, name, 0)

\* The flags the callback recorded, or the library's own result.
MbedTlsRefusalDetail(v) ==
    LET verdict == IF v.carried = {} THEN v.result ELSE v.carried
    IN  IF v.pin = "DigestUnavailable" THEN "DigestUnavailable"
        ELSE FirstOf(<<"fingerprint", "chain", "dates", "name">>, verdict)

-----------------------------------------------------------------------------
(* wolfSSL.  A call for each check a certificate fails, from the top down; a *)
(* missing signer hides that certificate's dates.  A build with              *)
(* WOLFSSL_ALWAYS_VERIFY_CB also calls for a leaf that passed.               *)

CheckFailedForPin(pin) ==
    CASE pin = "Matched"           -> {}
      [] pin = "DigestUnavailable" -> {"DigestUnavailable"}
      [] OTHER                     -> {"fingerprint"}

\* Compares the leaf with the pins, whichever certificate the call is for.
AuthoriseLeaf(v, peer) ==
    LET pin == Authorise(config.pins, peer.leaf)
    IN  [v EXCEPT !.carried = @ \cup CheckFailedForPin(pin), !.pin = pin]

\* The check a verify error stands for.
CheckFailedFor(error) == IF error = "none" THEN {} ELSE {error}

\* A missing signer ends the checks on a certificate, so its dates are read
\* here before a pin waives the signer.
StandsWithoutASigner(peer, depth) == InDate(peer, depth)

IsPinCheckedHere(error) ==
    Pinned /\ (~config.anchors \/ error # "none" \/ library = "WolfSslInCallback")

WolfSslVerifyPeer(v, peer, depth, error) ==
    LET pinned == AuthoriseLeaf(v, peer)
    IN  IF WaivesChain /\ error = "chain"
        THEN LET stands == StandsWithoutASigner(peer, depth)
             IN  IF pinned.pin # "Matched" THEN [pinned EXCEPT !.ok = FALSE]
                 ELSE [pinned EXCEPT !.ok = stands,
                                     !.carried = @ \cup IF stands THEN {} ELSE {"dates"}]
        ELSE LET w == IF IsPinCheckedHere(error) THEN pinned ELSE v
             IN  [w EXCEPT !.carried = @ \cup CheckFailedFor(error),
                           !.ok = /\ error = "none"
                                  /\ IsPinCheckedHere(error) => w.pin = "Matched"]

\* The fault of a certificate itself, if it has one.
WolfSslFault(peer, d) ==
    IF ~Trusted(peer) THEN "chain" ELSE IF ~InDate(peer, d) THEN "dates" ELSE "none"

\* A call is made if there is cause for it and no call before it refused.
WolfSslCall(v, cause, peer, depth, error) ==
    IF v.ok /\ cause THEN WolfSslVerifyPeer(v, peer, depth, error) ELSE v

WolfSslCertificate(v, peer, d) ==
    IF d > Top(peer) THEN v
    ELSE WolfSslCall(v, WolfSslFault(peer, d) # "none", peer, d, WolfSslFault(peer, d))

WolfSslCalls(v, peer, name) ==
    LET checked == WolfSslCertificate(WolfSslCertificate(v, peer, 1), peer, 0)
        matched == WolfSslCall(checked, Misnamed(peer, name), peer, 0, "name")
        passed  == WolfSslFault(peer, 0) = "none" /\ ~Misnamed(peer, name)
    IN  WolfSslCall(matched, passed /\ library = "WolfSslInCallback", peer, 0, "none")

\* A pinned peer whose handshake completed without a pin matching is refused;
\* a build that could not compare in the callback compares the kept leaf here.
PinIsConfirmed(v, peer) ==
    LET w == IF v.pin # "Matched" /\ library = "WolfSslAfterHandshake"
             THEN AuthoriseLeaf(v, peer) ELSE v
    IN  IF ~Pinned THEN v
        ELSE IF w.pin = "Matched" THEN w
        ELSE [w EXCEPT !.ok = FALSE, !.carried = @ \cup {"fingerprint"}]

WolfSslRefusalDetail(v) ==
    FirstOf(<<"DigestUnavailable", "fingerprint", "chain", "dates", "name">>, v.carried)

-----------------------------------------------------------------------------
(* The handshake's verification, whichever the library. *)

\* A verdict in the making: what the stream carries from call to call, the
\* library's own error and result, which die with the session.
Verdict(s) == [carried |-> stream[s].carried, pin |-> stream[s].pin,
               error |-> "none", result |-> {}, ok |-> TRUE]

\* What the library and the callback make of the peer's certificates.  With
\* none the callback is not called: OpenSSL completes the handshake, where the
\* profile's cipher list admits an anonymous exchange; the others refuse it.
Verify(s, peer) ==
    CASE peer = NoCertificate -> [Verdict(s) EXCEPT !.ok = library = "OpenSsl"]
      [] library = "OpenSsl" /\ peer # NoCertificate ->
           OpenSslCalls(Verdict(s), peer, stream[s].name)
      [] IsMbedTls /\ peer # NoCertificate ->
           LET v == MbedTlsCalls(Verdict(s), peer, stream[s].name)
           IN  [v EXCEPT !.ok = @ /\ (config.anchors => v.result = {})]
      [] IsWolfSsl /\ peer # NoCertificate ->
           WolfSslCalls(Verdict(s), peer, stream[s].name)

PeerPresentedACertificate(v, peer) ==
    IF v.ok /\ peer = NoCertificate THEN [v EXCEPT !.ok = FALSE, !.error = "anonymous"] ELSE v

\* A carried name is refused here if the library never made the last call.
NoNameObjectionIsOutstanding(v) ==
    IF v.ok /\ "name" \in v.carried THEN [v EXCEPT !.ok = FALSE, !.error = "name"] ELSE v

\* The checks made once the library says the handshake is complete.
ChecksAfterHandshake(v, peer) ==
    CASE library = "OpenSsl" ->
           NoNameObjectionIsOutstanding(PeerPresentedACertificate(v, peer))
      [] IsMbedTls -> [v EXCEPT !.ok = v.result = {}]
      [] IsWolfSsl -> PinIsConfirmed(v, peer)

RefusalDetail(v) ==
    CASE library = "OpenSsl" -> OpenSslRefusalDetail(v)
      [] IsMbedTls           -> MbedTlsRefusalDetail(v)
      [] IsWolfSsl           -> WolfSslRefusalDetail(v)

-----------------------------------------------------------------------------
(* What the credentials promise, and the order in which faults are named:    *)
(* the reference the three verify callbacks are checked against.             *)

FirstFault(peer, name) ==
    LET pin == Authorise(config.pins, peer.leaf)
    IN  IF peer = NoCertificate
        THEN IF library = "OpenSsl" THEN "anonymous" ELSE "rejected"
        ELSE IF Pinned /\ pin = "DigestUnavailable" THEN "DigestUnavailable"
        ELSE IF Pinned /\ pin # "Matched" THEN "fingerprint"
        ELSE IF config.anchors /\ ~peer.anchored THEN "chain"
        ELSE IF \E d \in 0..Top(peer) : ~InDate(peer, d) THEN "dates"
        ELSE IF Misnamed(peer, name) THEN "name"
        ELSE "none"

-----------------------------------------------------------------------------
(* The streams. *)

Stages == {"closed", "context", "credentials", "session", "failed", "name",
           "handshake", "open"}

\* The details an Open may report before there is a peer to judge.
OpenSslContextFaults == {"ContextInitFailed", "CipherPolicyRejected"}
MbedTlsContextFaults == {"DefaultsNotApplied", "LibraryOutOfMemory"}
WolfSslContextFaults == {"ContextInitFailed"}

OpenSslSessionFaults == {"SessionInitFailed"}
MbedTlsSessionFaults == {"SessionInitFailed", "LibraryOutOfMemory"}
WolfSslSessionFaults == {"SessionInitFailed", "DefaultsNotApplied", "CipherPolicyRejected"}

OpenSslNameFaults == {"ServerNameNotApplied"}
MbedTlsNameFaults == {"ServerNameNotApplied", "LibraryOutOfMemory"}
WolfSslNameFaults == {"ServerNameNotApplied", "LibraryOutOfMemory"}

\* The details of an Install that fails, reported by the credentials.
OpenSslPemFileFaults   == IF config.anchors THEN {"TrustAnchorsNotLoaded"} ELSE {}
MbedTlsPemBufferFaults ==
    IF outstanding > 0 THEN {"AlreadyInUse"}
    ELSE IF config.anchors THEN {"PemNotTerminated", "TrustAnchorsNotParsed"} ELSE {}
MbedTlsHandleFaults    == {}
WolfSslPemBufferFaults == IF config.anchors THEN {"TrustAnchorsNotParsed"} ELSE {}

\* What the library's I/O callbacks make of the transport's answer: bytes, none
\* yet, or broken.
OpenSslTransportBio == [bytes |-> "BYTES", nothing |-> "WANT_READ", broken |-> "FAILED"]
MbedTlsBio          == [bytes |-> "BYTES", nothing |-> "WANT_READ", broken |-> "FAILED"]
WolfSslIo           == [bytes |-> "BYTES", nothing |-> "WANT_READ", broken |-> "FAILED"]

Surfaced(transport) == By(OpenSslTransportBio, MbedTlsBio, WolfSslIo)[transport]

\* The answers to a handshake call that mean "call again".
OpenSslRetryable == {"WANT_READ", "WANT_WRITE"}
MbedTlsRetryable == {"WANT_READ", "WANT_WRITE"}
WolfSslRetryable == {"WANT_READ", "WANT_WRITE"}

\* The library's answers to a read, its own among them, and those that leave the
\* session open.
TlsReadAnswers ==
    {Surfaced(t) : t \in {"bytes", "nothing", "broken"}} \cup {"WANT_WRITE", "CLOSED"}
OpenSslReadKeeps == {"BYTES", "WANT_READ"}
MbedTlsReadKeeps == {"BYTES", "WANT_READ"}
WolfSslReadKeeps == {"BYTES", "WANT_READ"}

\* The client's own credential, as supplied to an Install: nothing, one half,
\* the certificate and its key, two that are no pair, or bytes that cannot be
\* read, a PEM that is not terminated among them.
Clients == {"none", "half", "pair", "mispaired", "unterminated", "unreadable"}

\* What an Install makes of it: the halves the library's context holds after it,
\* and the warning.  No fault in it fails the Install.
Identity(cert, key, told) == [cert |-> cert, key |-> key, told |-> told]
Anonymous == Identity(FALSE, FALSE, "none")
Whole == Identity(TRUE, TRUE, "none")
Without(told) == {Identity(FALSE, FALSE, told)}

\* The certificate is loaded first, and stays when the key is refused.
AtMostCertificate(told) == {Identity(cert, FALSE, told) : cert \in BOOLEAN}

OpenSslPemFileIdentity ==
    [none |-> {Anonymous}, half |-> Without("Incomplete"),
     pair |-> {Whole} \cup AtMostCertificate("NotInstalled"),
     mispaired |-> {Identity(TRUE, FALSE, "NotInstalled"), Identity(TRUE, TRUE, "Mismatched")},
     unterminated |-> AtMostCertificate("NotInstalled"),
     unreadable |-> AtMostCertificate("NotInstalled")]

MbedTlsPemBufferIdentity ==
    [none |-> {Anonymous}, half |-> Without("Incomplete"),
     pair |-> {Whole} \cup Without("NotInstalled"), mispaired |-> Without("Mismatched"),
     unterminated |-> Without("PemNotTerminated"), unreadable |-> Without("NotParsed")]

MbedTlsHandleIdentity ==
    [none |-> {Anonymous}, half |-> Without("Incomplete"),
     pair |-> {Whole} \cup Without("NotInstalled"), mispaired |-> Without("Mismatched")]

\* wolfSSL leaves the pairing to the collector.
WolfSslPemBufferIdentity ==
    [none |-> {Anonymous}, half |-> Without("Incomplete"),
     pair |-> {Whole} \cup AtMostCertificate("NotInstalled"), mispaired |-> {Whole},
     unterminated |-> Without("NotParsed"), unreadable |-> AtMostCertificate("NotParsed")]

ConfigureClientIdentity ==
    By(OpenSslPemFileIdentity,
       IF library = "MbedTls" THEN MbedTlsPemBufferIdentity ELSE MbedTlsHandleIdentity,
       WolfSslPemBufferIdentity)

\* What a stream remembers of an Install: was any part supplied, the halves the
\* context holds, was a fault told.
Kept(client, identity) ==
    [supplied |-> client # "none", cert |-> identity.cert, key |-> identity.key,
     told |-> identity.told # "none"]
NoIdentity == Kept("none", Anonymous)

Details == {"none", "transport", "anonymous", "DigestUnavailable", "fingerprint", "chain",
            "dates", "name", "rejected", "timeout", "NoPeerAuthorisation",
            "FingerprintMalformed", "PinsWithAnchorsUnsupported", "AlreadyInUse",
            "TrustAnchorsNotLoaded", "TrustAnchorsNotParsed", "PemNotTerminated"}
           \cup OpenSslContextFaults \cup MbedTlsContextFaults \cup WolfSslSessionFaults
           \cup MbedTlsNameFaults

\* `opens` counts the Opens of the transport that no Close has answered;
\* `entitled`, `named` and `fault` record the last handshake for the
\* properties: did the peer meet all that was configured, what the refusal
\* reported, and what it should have.
StreamType ==
    [stage : Stages, opens : 0..2, context : BOOLEAN, session : BOOLEAN,
     credentialsInstalled : BOOLEAN, name : {"none", "dotted", "host"},
     slept : 0..Budget, carried : SUBSET Details,
     pin : {"NoMatch", "Matched", "DigestUnavailable", "Malformed"},
     identity : [supplied : BOOLEAN, cert : BOOLEAN, key : BOOLEAN, told : BOOLEAN],
     entitled : BOOLEAN, named : Details, fault : Details]

NewStream ==
    [stage |-> "closed", opens |-> 0, context |-> FALSE, session |-> FALSE,
     credentialsInstalled |-> FALSE, name |-> "none", slept |-> 0, carried |-> {},
     pin |-> "NoMatch", identity |-> NoIdentity,
     entitled |-> FALSE, named |-> "none", fault |-> "none"]

InitTls ==
    /\ library \in Libraries
    /\ config \in [anchors : BOOLEAN, pins : PinLists]
    /\ stream = [s \in Streams |-> NewStream]
    /\ outstanding = 0
    /\ material = FALSE

\* Mutant: the material goes with the first release.
ReleaseUncounted ==
    /\ outstanding' = IF library = "MbedTls" /\ outstanding > 0
                      THEN outstanding - 1 ELSE outstanding
    /\ material' = FALSE

\* Release: the Mbed TLS PEM credentials free their chains with the last
\* outstanding install; the other credentials hold nothing.
Release ==
    /\ outstanding' = IF library = "MbedTls" /\ outstanding > 0
                      THEN outstanding - 1 ELSE outstanding
    /\ material' = (material /\ outstanding' > 0)

\* Release, where this stream has an install of its own outstanding.
ReleaseCredentials(s) ==
    IF stream[s].credentialsInstalled THEN Release ELSE UNCHANGED <<outstanding, material>>

\* The session, the context, the credentials and the transport, in that
\* order.  What the last handshake carried stays behind.
CloseWith(s, kept) ==
    /\ stream' = [stream EXCEPT ![s] =
           [kept EXCEPT !.stage = "closed", !.session = FALSE, !.context = FALSE,
                        !.credentialsInstalled = FALSE, !.opens = 0, !.slept = 0,
                        !.identity = NoIdentity]]
    /\ ReleaseCredentials(s)

Step(s, next) ==
    /\ stream' = [stream EXCEPT ![s] = next]
    /\ UNCHANGED <<outstanding, material>>

\* Mutant: the pin that matched the last peer is not forgotten.
ForgetAllButThePin(r) ==
    [r EXCEPT !.carried = {}, !.entitled = FALSE, !.named = "none", !.fault = "none"]

\* An Open is refused on a stream that is open.  Otherwise the profile is
\* pulled, the last handshake's verdicts are forgotten, and the transport is
\* opened: every stage that fails closes what the ones before it hold.
Forget(r) ==
    [r EXCEPT !.carried = {}, !.pin = "NoMatch", !.entitled = FALSE,
              !.named = "none", !.fault = "none"]

OpenSslIsOpen(r) == r.context
MbedTlsIsOpen(r) == r.credentialsInstalled
WolfSslIsOpen(r) == r.credentialsInstalled
IsOpen(s) == By(OpenSslIsOpen(stream[s]), MbedTlsIsOpen(stream[s]), WolfSslIsOpen(stream[s]))

Idle(s) == stream[s].stage \in {"closed", "open"}

TlsStream_Open(s) ==
    /\ Idle(s)
    /\ IF IsOpen(s) THEN UNCHANGED <<stream, outstanding, material>>
       ELSE \E name \in {"none", "dotted", "host"} :
              LET r == [Forget(stream[s]) EXCEPT !.name = name]
              IN  \/ Step(s, [r EXCEPT !.stage = "context", !.opens = @ + 1])
                  \/ CloseWith(s, [r EXCEPT !.named = "transport"])

\* A stage of Open that failed: the detail is reported and all is closed.
Fail(s, faults) ==
    \E fault \in faults : CloseWith(s, [stream[s] EXCEPT !.named = fault])

\* InitSslContext, ApplySslConfigDefaults, BuildContext.
BuildContext(s) ==
    /\ stream[s].stage = "context"
    /\ \/ Step(s, [stream[s] EXCEPT !.stage = "credentials", !.context = TRUE])
       \/ Fail(s, By(OpenSslContextFaults, MbedTlsContextFaults, WolfSslContextFaults))

\* The credentials' own refusals.
InstallFaults ==
    By(OpenSslPemFileFaults,
       IF library = "MbedTls" THEN MbedTlsPemBufferFaults ELSE MbedTlsHandleFaults,
       WolfSslPemBufferFaults)

PeerIsAuthorisable == config.anchors \/ Pinned
FingerprintsAreUsable == InspectList(config.pins) # 2
BuildCanEnforceBoth == library = "WolfSslRefused" => ~(config.anchors /\ Pinned)

\* The stream's refusals of what was installed.
InstalledFaults ==
    IF ~PeerIsAuthorisable THEN {"NoPeerAuthorisation"}
    ELSE IF ~FingerprintsAreUsable THEN {"FingerprintMalformed"}
    ELSE IF ~BuildCanEnforceBoth THEN {"PinsWithAnchorsUnsupported"}
    ELSE {}

\* An Install that fails is outstanding too: CredentialsInstalled is set
\* before it is called, and Close releases it.
InstallCredentials(s) ==
    LET kept == [stream[s] EXCEPT !.credentialsInstalled = TRUE]
        alone == library = "MbedTls" => outstanding = 0
        Failed(fault) == [kept EXCEPT !.stage = "failed", !.named = fault]
    IN  /\ stream[s].stage = "credentials"
        /\ outstanding' = outstanding + IF library = "MbedTls" THEN 1 ELSE 0
        /\ \/ \E fault \in InstallFaults :
                 /\ stream' = [stream EXCEPT ![s] = Failed(fault)]
                 /\ UNCHANGED material
           \/ /\ alone
              /\ material' = (library = "MbedTls")
              /\ \/ /\ InstalledFaults = {}
                    /\ \E client \in DOMAIN ConfigureClientIdentity :
                       \E identity \in ConfigureClientIdentity[client] :
                          stream' = [stream EXCEPT ![s] =
                              [kept EXCEPT !.stage = "session",
                                           !.identity = Kept(client, identity)]]
                 \/ \E fault \in InstalledFaults :
                       stream' = [stream EXCEPT ![s] = Failed(fault)]

\* A failed install, closed by Establish.
FailedInstall(s) ==
    /\ stream[s].stage = "failed"
    /\ CloseWith(s, stream[s])

\* InitSslSession and AttachTransportBio, BindContextToConfig, CreateSession
\* with its TLS and cipher policies.
CreateSession(s) ==
    /\ stream[s].stage = "session"
    /\ \/ Step(s, [stream[s] EXCEPT !.stage = "name", !.session = TRUE])
       \/ Fail(s, By(OpenSslSessionFaults, MbedTlsSessionFaults, WolfSslSessionFaults))

\* A name that begins with a dot would match any name under it, and is
\* refused; wolfSSL is left to judge it.  The library may refuse any name.
ConfigureExpectedHostname(s) ==
    /\ stream[s].stage = "name"
    /\ \/ /\ stream[s].name = "dotted" => IsWolfSsl
          /\ Step(s, [stream[s] EXCEPT !.stage = "handshake"])
       \/ /\ stream[s].name # "none"
          /\ Fail(s, By(OpenSslNameFaults, MbedTlsNameFaults, WolfSslNameFaults))

\* Mutant: the budget has to be overdrawn.
IsHandshakeBudgetOverdrawn(s) == stream[s].slept > Budget

IsHandshakeBudgetExhausted(s) == stream[s].slept >= Budget

HandshakePollMs(s) ==
    IF Budget - stream[s].slept < PollInterval THEN Budget - stream[s].slept
    ELSE PollInterval

\* The handshake wants more from the peer: sleep, or give up.
HandshakeWaits(s) ==
    /\ stream[s].stage = "handshake"
    /\ Surfaced("nothing") \in By(OpenSslRetryable, MbedTlsRetryable, WolfSslRetryable)
    /\ IF IsHandshakeBudgetExhausted(s)
       THEN CloseWith(s, [stream[s] EXCEPT !.named = "timeout", !.fault = "timeout"])
       ELSE Step(s, [stream[s] EXCEPT !.slept = @ + HandshakePollMs(s)])

\* The stream as a verdict leaves it.
AfterVerdict(s, v) == [stream[s] EXCEPT !.carried = v.carried, !.pin = v.pin]

Refuse(s, v, fault) ==
    CloseWith(s, [AfterVerdict(s, v) EXCEPT !.named = RefusalDetail(v), !.fault = fault])

\* Refused while the certificates are verified, or by the peer for reasons of
\* its own, or by the checks that follow.
HandshakeEnds(s) ==
    /\ stream[s].stage = "handshake"
    /\ \E peer \in Peers \cup {NoCertificate} :
          LET v     == Verify(s, peer)
              w     == ChecksAfterHandshake(v, peer)
              fault == FirstFault(peer, stream[s].name)
          IN  \/ /\ ~v.ok
                 /\ Refuse(s, v, fault)
              \/ /\ v.ok
                 /\ Refuse(s, v, "rejected")
              \/ /\ v.ok /\ ~w.ok
                 /\ Refuse(s, w, fault)
              \/ /\ v.ok /\ w.ok
                 /\ Step(s, [AfterVerdict(s, w) EXCEPT !.stage = "open", !.slept = 0,
                                                !.entitled = fault = "none"])

\* A read that leaves the session open: bytes, or none yet.
Keeps(answer) == answer \in By(OpenSslReadKeeps, MbedTlsReadKeeps, WolfSslReadKeeps)

\* The session is read first, for a close the peer has sent; then all of the
\* bytes are written, or the session is closed.
TlsStream_Send(s) ==
    /\ Idle(s)
    /\ \E answer \in TlsReadAnswers, whole \in BOOLEAN :
          IF stream[s].stage = "open" /\ Keeps(answer) /\ whole
          THEN UNCHANGED <<stream, outstanding, material>>
          ELSE CloseWith(s, stream[s])

TlsStream_Read(s) ==
    /\ Idle(s)
    /\ \E answer \in TlsReadAnswers :
          IF stream[s].stage = "open" /\ Keeps(answer)
          THEN UNCHANGED <<stream, outstanding, material>>
          ELSE CloseWith(s, stream[s])

TlsStream_Close(s) ==
    /\ Idle(s)
    /\ CloseWith(s, stream[s])

\* The rest of an Open, stage by stage: what the task does by itself, and
\* what takes an answer of the peer.
Proceed(s) ==
    /\ \/ BuildContext(s) \/ InstallCredentials(s) \/ FailedInstall(s)
       \/ CreateSession(s) \/ ConfigureExpectedHostname(s) \/ HandshakeWaits(s)
    /\ UNCHANGED <<library, config>>

Answered(s) ==
    /\ HandshakeEnds(s)
    /\ UNCHANGED <<library, config>>

\* Only the Mbed TLS PEM credentials keep state: on any other credentials the
\* streams have nothing in common, and one of them stands for all.
Sharing == IF library = "MbedTls" THEN Streams ELSE {CHOOSE s \in Streams : TRUE}

TlsNext ==
    \E s \in Sharing :
        \/ Proceed(s) \/ Answered(s)
        \/ /\ TlsStream_Open(s) \/ TlsStream_Send(s) \/ TlsStream_Read(s) \/ TlsStream_Close(s)
           /\ UNCHANGED <<library, config>>

\* A task that has called Open goes on with it.  The peer need not answer.
TlsSpec == InitTls /\ [][TlsNext]_tlsVars /\ \A s \in Streams : WF_tlsVars(Proceed(s))

-----------------------------------------------------------------------------
(* Properties. *)

\* An open session is with a peer that met everything the credentials and the
\* profile ask for: one of the pins, a chain to an anchor, the dates of every
\* certificate and the name.  No verdict of an earlier handshake, no waiver
\* meant for a chain nothing anchors and no handshake that skipped
\* verification lets another peer in.
PeerAuthorised ==
    \A s \in Streams : stream[s].stage = "open" => stream[s].entitled

\* Whichever library is linked and however many certificates the peer sent, a
\* refusal reports the first fault in the contract's order: an uncomputable
\* digest, the fingerprint, the chain, the dates, the name.
FirstFaultNamed ==
    \A s \in Streams : stream[s].fault # "none" => stream[s].named = stream[s].fault

\* Whatever stage an Open failed in and in whatever order two streams share
\* credentials: the material a session refers to is in memory for as long as it
\* does, the installs counted are the streams that owe a release, and a stream
\* that is not open holds no session, context, install or connection, while one
\* that is holds one of each (Open, Close and the credentials' Release).  A
\* client credential supplied in whole or in part is held whole by an open
\* session, or its fault was told; Mbed TLS never holds half of one.
MaterialHeld ==
    /\ stream \in [Streams -> StreamType]
    /\ library = "MbedTls" =>
        /\ outstanding = Cardinality({s \in Streams : stream[s].credentialsInstalled})
        /\ \A s \in Streams : stream[s].stage \in {"session", "name", "handshake", "open"}
                               => material
    /\ \A s \in Streams :
          LET r == stream[s]
          IN  /\ r.stage = "closed" => ~r.session /\ ~r.context
                                       /\ ~r.credentialsInstalled /\ r.opens = 0
              /\ r.stage = "open" => r.session /\ r.context
                                     /\ r.credentialsInstalled /\ r.opens = 1
                                     /\ (\/ ~r.identity.supplied
                                         \/ r.identity.told
                                         \/ r.identity.cert /\ r.identity.key)
              /\ IsMbedTls => r.identity.cert = r.identity.key

\* An Open returns, with the session or without it, however long the peer
\* stays silent.
OpenReturns == \A s \in Streams : ~Idle(s) ~> Idle(s)
=============================================================================
