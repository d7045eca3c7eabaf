------------------------------ MODULE Objects ------------------------------
(* The objects the pools hand out, at work.  Set-up first: the tasks create   *)
(* and destroy objects of one class.  Then, once no call is under way, the    *)
(* tasks share a live counter, or the count of the ticks; the store's task    *)
(* seals and opens records with a live policy; a line is formatted with live  *)
(* structured data; or a live logger logs with the parts it was given.  An    *)
(* operation touches nothing but its own object, so set-up of others beside   *)
(* it would add nothing.                                                      *)
EXTENDS Pools, AtomicCounter, SecurityPolicy, MessageFormatter, SysUpTime, Assembly

CONSTANTS
  Contents,    \* what a record may hold
  Keys         \* what GetKey may hand out

VARIABLES
  working,         \* what is at work: "nothing" during the set-up, "object" or "clock"
  key,             \* what GetKey hands out now
  faultReported,   \* the policy's FaultReported
  record,          \* the record on the medium, with what was sealed, and how
  verdict,         \* what the last SealRecord or OpenRecord came to
  spell            \* whether the policy failed since it last ran, and what was told of it

policyVars == <<key, faultReported, record, verdict, spell>>
vars == <<poolVars, counterVars, working, policyVars, lineVars, upTimeVars, assemblyVars>>

\* What only the working logger and the working clock change.
others == <<upTimeVars, assemblyVars>>

StructuredData == {"MetaSd", "OriginSd", "TimeQualitySd"}
Counters == {"StdAtomicCounter", "WindowsAtomicCounter", "VxWorks64AtomicCounter"}
Live == \E s \in Slots : object[s].mode = "live" /\ inUse["own"][s]

\* What the store is given: the keyed policy, or the Null policy that a Create
\* which was refused hands back; the CRC policy needs no Create.
Policies ==
  (IF Live THEN {class} ELSE {"NullSecurityPolicy"}) \cup {"Crc16Policy"}

NoRecord == [by |-> "none", content |-> 0, trailer |-> <<>>, sealed |-> 0, key |-> 0]

NoSpell == [failed |-> FALSE, told |-> <<>>]

InitObjects ==
  /\ Init /\ InitCounter /\ InitLine /\ InitUpTime /\ InitAssembly
  /\ working = "nothing"
  /\ key = (CHOOSE k \in Keys : TRUE) /\ faultReported = FALSE /\ record = NoRecord
  /\ verdict = "none" /\ spell = NoSpell

SetUp == working = "nothing" /\ PoolNext /\ UNCHANGED <<counterVars, working, policyVars, lineVars, others>>

\* The one object left, or none, is put to work; the other slots are free.
StartWork ==
  /\ working = "nothing" /\ class \in Counters \cup KeyedPolicies \cup StructuredData \cup {"SolidSyslog"}
  /\ \A t \in Tasks : At(t, "idle")
  /\ \A s \in Slots \ {0} : ~inUse["own"][s]
  /\ class \in Counters \cup {"SolidSyslog"} => Live
  /\ working' \in (IF class = "MetaSd" /\ Live THEN {"object", "clock"} ELSE {"object"})
  /\ task' = [t \in Tasks |-> Idle]
  /\ UNCHANGED <<class, inUse, object, holder, owned, pending, counterVars, policyVars, lineVars, others>>

Increment(t) ==
  /\ working = "object"
  /\ \/ class \in {"StdAtomicCounter", "WindowsAtomicCounter"} /\ (LoadValue(t) \/ CompareExchange(t))
     \/ class = "VxWorks64AtomicCounter" /\ IncrementLocked(t)
  /\ UNCHANGED <<poolVars, working, policyVars, lineVars, others>>

AtWork == working = "object" /\ class \in KeyedPolicies
OthersUnchanged == UNCHANGED <<poolVars, counterVars, working, lineVars, others>>

\* The policy ran: the next fault is told again.
Ran == spell' = NoSpell /\ faultReported' = FALSE

\* ReportFault, of both operations
ReportFault(fault) ==
  /\ faultReported' = TRUE
  /\ spell' = [failed |-> TRUE, told |-> IF faultReported THEN spell.told ELSE Append(spell.told, fault)]

\* SealRecord with no call failing
SealRecord(policy, content) ==
  /\ AtWork /\ policy \in Policies
  /\ record' =
       LET r == CASE policy = "NullSecurityPolicy" -> NullSealRecord(content)
                  [] policy = "Crc16Policy" -> Crc16SealRecord(content)
                  [] OTHER -> SealWith(content, key)
       IN  [by |-> policy, content |-> r.content, trailer |-> r.trailer, sealed |-> content, key |-> key]
  /\ verdict' = "SEALED"
  /\ IF policy \in KeyedPolicies THEN Ran ELSE UNCHANGED <<faultReported, spell>>
  /\ UNCHANGED key /\ OthersUnchanged

\* SealRecord with a call failing: the store writes nothing.
SealFails(call) ==
  /\ AtWork /\ Live
  /\ verdict' = "NOT_SEALED" /\ ReportFault(SealFaults(class)[call])
  /\ UNCHANGED <<key, record>> /\ OthersUnchanged

\* OpenRecord with every call before the verdict made
OpenRecord(result) ==
  /\ AtWork /\ record.by \in Policies
  /\ result \in CASE record.by = "NullSecurityPolicy" -> NullOpenRecord
                  [] record.by = "Crc16Policy" -> Crc16OpenRecord(record)
                  [] record.by \in HmacPolicies -> HmacOpenRecord(record, key)
                  [] OTHER -> AesGcmOpenRecord(record.by, record, key)
  /\ verdict' = result
  /\ IF record.by \notin KeyedPolicies THEN UNCHANGED <<faultReported, spell>>
     ELSE IF result = "COULD_NOT_RUN" THEN ReportFault("DECRYPT_FAILED")
     ELSE Ran
  /\ UNCHANGED <<key, record>> /\ OthersUnchanged

OpenFails(call) ==
  /\ AtWork /\ Live /\ record.by = class
  /\ verdict' = "COULD_NOT_RUN" /\ ReportFault(OpenFaults(class)[call])
  /\ UNCHANGED <<key, record>> /\ OthersUnchanged

\* The medium loses a bit, or somebody writes to it; GetKey's key is replaced.
Altered(content) ==
  /\ AtWork /\ record.by # "none" /\ content # record.content
  /\ record' = [record EXCEPT !.content = content] /\ verdict' = "none"
  /\ UNCHANGED <<key, faultReported, spell>> /\ OthersUnchanged

KeyReplaced(k) ==
  /\ AtWork /\ k # key
  /\ key' = k /\ verdict' = "none"
  /\ UNCHANGED <<faultReported, record, spell>> /\ OthersUnchanged

\* SolidSyslog_DoLog with the object, or the Null one, as the logger's Sd
FormatLine ==
  /\ working = "object" /\ class \in StructuredData
  /\ \/ \E m \in Messages[class] : BeginMessage(m, IF Live THEN class ELSE "NullSd")
     \/ LineNext
  /\ UNCHANGED <<poolVars, counterVars, working, policyVars, others>>

\* GetSysUpTime of a live meta element's configuration
ClockRuns ==
  /\ working = "clock"
  /\ \/ Tick
     \/ \E c \in UpTimeCallers : ReadTicks(c) \/ Extend(c)
     \/ \E c \in UpTimeCallers, readable \in BOOLEAN : GetSysUpTime64(c, readable)
  /\ UNCHANGED <<poolVars, counterVars, working, policyVars, lineVars, assemblyVars>>

LoggerRuns ==
  /\ working = "object" /\ class = "SolidSyslog"
  /\ AssemblyNext
  /\ UNCHANGED <<poolVars, counterVars, working, policyVars, lineVars, upTimeVars>>

Next ==
  \/ SetUp \/ StartWork
  \/ \E t \in Tasks : Increment(t)
  \/ \E p \in KeyedPolicies \cup StaticPolicies, c \in Contents : SealRecord(p, c)
  \/ \E r \in {"OPENED", "REJECTED", "COULD_NOT_RUN"} : OpenRecord(r)
  \/ AtWork /\ \E call \in DOMAIN SealFaults(class) : SealFails(call)
  \/ AtWork /\ \E call \in DOMAIN OpenFaults(class) : OpenFails(call)
  \/ \E c \in Contents : Altered(c)
  \/ \E k \in Keys : KeyReplaced(k)
  \/ FormatLine
  \/ ClockRuns \/ LoggerRuns

Spec == InitObjects /\ [][Next]_vars

-----------------------------------------------------------------------------
\* What the meta element carries is right whichever tasks format at once: the
\* sequence ids are distinct, and the time is the time since the boot
\* (Increment and GetSysUpTime of the platforms).
MetaRight == IdsDistinct /\ UpTimeRight

Genuine == record.content = record.sealed /\ (record.by \in KeyedPolicies => record.key = key)

\* The store drops a record that is REJECTED and stops at one the policy
\* COULD_NOT_RUN for, so neither may be taken for the other: whatever fails in
\* the key callback or in the library, a genuine record is never REJECTED, and
\* one that was altered or sealed under another key is never OPENED by a policy
\* that checks anything.  And of the faults since the policy last ran exactly one
\* has been told, whichever operation met it (OpenRecord and ReportFault of the
\* policies).
VerdictsRight ==
  /\ verdict = "REJECTED" => ~Genuine
  /\ verdict = "OPENED" => Genuine \/ record.by = "NullSecurityPolicy"
  /\ Len(spell.told) = IF spell.failed THEN 1 ELSE 0
=============================================================================
