------------------------- MODULE ObservationChecks -------------------------
(* Checks of what is said about other messages and of what a contract pins:  *)
(* observability (OB), enterprise bindings (EB), disputes and alerts (DS)    *)
(* and pinned artifacts (AM).                                                *)
EXTENDS Transcript

(* Observability. A signal binds each of its parts to one target: a pair of  *)
(* a kind and a value, or None when it does not name exactly one. Targets    *)
(* are looked up in the whole transcript.                                    *)
Signals(T) == Rows(T, {"OBS_SIGNAL"})
Targets(T) ==
    {<<"message_hash", h>> : h \in Hashes(T)} \cup UNION {T[i].targets : i \in DOMAIN T}
CallsThat(T, need) == {T[i].call : i \in {j \in DOMAIN T : T[j].call # None /\ need \in T[j].needs}}
Correlated(T, need) ==
    \E i \in Signals(T), c \in CallsThat(T, need) : <<"tool_call_id", c>> \in T[i].parts
OB_SHAPES(T) == Unsound(T, {"OBS_SIGNAL"})
OB_CORRELATION(T) == {i \in Signals(T) : ~(T[i].parts \subseteq Targets(T))}
OB_NEEDS(T) ==
    {need \in {"approval", "iam"} : CallsThat(T, need) # {} /\ ~Correlated(T, need)}
OBPasses(T) == OB_SHAPES(T) \cup OB_CORRELATION(T) = {} /\ OB_NEEDS(T) = {}

(* A transcript with a call that needs an approval or a step-up has a signal *)
(* about a call of that kind, and no signal is about anything outside.       *)
OBLegal(T) ==
    /\ \A i \in DOMAIN T : T[i].call # None => \A need \in T[i].needs :
          \E j \in Signals(T), k \in DOMAIN T :
              T[k].call # None /\ need \in T[k].needs /\ <<"tool_call_id", T[k].call>> \in T[j].parts
    /\ \A i \in Signals(T) : None \notin T[i].parts

-----------------------------------------------------------------------------
(* Enterprise bindings. The contract lists OpenAPI bindings, OData bindings  *)
(* with their targets, in order, and the actions of its policies.            *)
EBConfig(T) == FirstConfig(T, [sound |-> FALSE, openapi |-> {}, odata |-> <<>>, actions |-> {}, correlated |-> FALSE])
BoundCalls(T) == Rows(T, {"TOOL_CALL_REQUEST"})
ODataIndexes(T, b) == {k \in DOMAIN EBConfig(T).odata : EBConfig(T).odata[k].id = b}
BoundTarget(T, b) == EBConfig(T).odata[Least(ODataIndexes(T, b))].target
(* What each kind of binding and reference needs to be well formed.          *)
EB_SHAPES(T) == {i \in {0} : ~EBConfig(T).sound \/ EBConfig(T).openapi = {} \/ EBConfig(T).odata = <<>>}
EB_REFERENCE_INTEGRITY(T) ==
    {i \in BoundCalls(T) : T[i].binding \notin EBConfig(T).openapi /\ ODataIndexes(T, T[i].binding) = {}}
EB_ODATA_BIND(T) ==
    {i \in BoundCalls(T) : /\ ODataIndexes(T, T[i].binding) # {}
                           /\ T[i].target # None /\ T[i].target # BoundTarget(T, T[i].binding)}
(* One linked call is enough for all.                                        *)
EB_IAM_LINK(T) ==
    {i \in {0} : /\ \E j \in BoundCalls(T) : T[j].iam
                 /\ ~\E j \in BoundCalls(T) : T[j].iam /\ T[j].action \in EBConfig(T).actions}
ApprovedCall(T, j) ==
    \E a \in Earlier(Rows(T, {"APPROVAL_GRANT"}), j) : T[a].call = T[j].call /\ T[j].call # None
EB_APPROVAL_LINK(T) ==
    {i \in {0} : /\ \E j \in BoundCalls(T) : T[j].guarded
                 /\ ~\E j \in BoundCalls(T) : T[j].guarded /\ ApprovedCall(T, j)}
EB_OBS_CORRELATION(T) ==
    {i \in {0} : LET calls == {T[j].call : j \in BoundCalls(T)} \ {None} IN
        /\ EBConfig(T).correlated /\ calls # {}
        /\ ~\E s \in Signals(T), c \in calls : <<"tool_call_id", c>> \in T[s].parts}
EBPasses(T) ==
    EB_SHAPES(T) \cup EB_REFERENCE_INTEGRITY(T) \cup EB_ODATA_BIND(T) \cup EB_IAM_LINK(T)
        \cup EB_APPROVAL_LINK(T) \cup EB_OBS_CORRELATION(T) = {}

(* Calls through one OData binding have one target; and when only one call   *)
(* needs an approval it was granted before.                                  *)
EBLegal(T) ==
    /\ \A i, j \in BoundCalls(T) :
          /\ T[i].binding = T[j].binding /\ T[i].binding \notin EBConfig(T).openapi
          /\ None \notin {T[i].target, T[j].target}
          => T[i].target = T[j].target
    /\ \A i \in BoundCalls(T) :
          T[i].guarded /\ (\A j \in BoundCalls(T) : T[j].guarded => i = j) =>
              \E a \in 1 .. i - 1 : T[a].type = "APPROVAL_GRANT" /\ T[a].call = T[i].call

-----------------------------------------------------------------------------
(* Disputes and alerts: what they name lies strictly before them.            *)
Challenges(T) == Rows(T, {"CHALLENGE_ASSERTION"})
Evidenced(T) == Challenges(T) \cup Rows(T, {"SECURITY_ALERT"})
IdsBefore(T, i) == {T[j].id : j \in 1 .. i - 1}
DS_TARGET(T) == {i \in Challenges(T) : T[i].challenged \notin {None} \cup IdsBefore(T, i)}
DS_EVIDENCE_RESOLVE(T) ==
    {i \in Evidenced(T) : T[i].evidence \cap (IdsBefore(T, i) \cup HashesBefore(T, i)) = {}}
DS_TYPES(T) == Unsound(T, {"CHALLENGE_ASSERTION", "CLAIM_BREACH", "SECURITY_ALERT"})
DSPasses(T) == DS_TARGET(T) \cup DS_EVIDENCE_RESOLVE(T) \cup DS_TYPES(T) = {}

(* Accusations rest on something else in the end: in no set of them does     *)
(* each have all its evidence in the set.                                    *)
DSLegal(T) ==
    \A S \in (SUBSET Evidenced(T)) \ {{}} : \E i \in S, j \in DOMAIN T \ S :
        j < i /\ {T[j].id, T[j].hash} \cap T[i].evidence # {}

-----------------------------------------------------------------------------
(* Pinned artifacts, as triples of manifest, issuer and version. A contract  *)
(* sets the pins; an amendment replaces them when both are not empty.        *)
Pinning(T) == {i \in Contracts(T) : T[i].pins # None}
PinningBefore(T, i) == Earlier(Pinning(T), i)
Amends(T, i) ==
    {j \in Earlier(Rows(T, {"CONTEXT_AMEND"}), i) :
        /\ T[j].pins \notin {None, {}}
        /\ PinningBefore(T, j) # {} /\ T[Greatest(PinningBefore(T, j))].pins # {}}
ActivePins(T, i) ==
    LET setting == PinningBefore(T, i) \cup Amends(T, i)
    IN IF setting = {} THEN {} ELSE T[Greatest(setting)].pins
PinnedCalls(T) == Rows(T, {"TOOL_CALL_REQUEST"})
Referring(T) == {i \in PinnedCalls(T) : T[i].manifest # None}
AM_MANIFEST_SCHEMA(T) == Unsound(T, {"CONTRACT_PROPOSE", "CONTEXT_AMEND"})
AM_PIN(T) == {i \in PinnedCalls(T) : T[i].manifest = None \/ T[i].manifest \notin ActivePins(T, i)}
AM_SHADOW(T) ==
    {i \in Referring(T) : \E p \in ActivePins(T, i) : p[1] = T[i].manifest[1] /\ p[2] # T[i].manifest[2]}
(* Compared with the last contract, and excused by any amendment.            *)
AM_RENEG(T) ==
    {i \in Referring(T) :
        /\ Pinning(T) # {} /\ ~\E j \in Rows(T, {"CONTEXT_AMEND"}) : T[j].pins # None
        /\ LET same == {p \in T[Greatest(Pinning(T))].pins : p[1] = T[i].manifest[1] /\ p[2] = T[i].manifest[2]}
           IN same # {} /\ \A p \in same : p[3] # T[i].manifest[3]}
AMPasses(T) == AM_MANIFEST_SCHEMA(T) \cup AM_PIN(T) \cup AM_SHADOW(T) \cup AM_RENEG(T) = {}

(* A call uses what was pinned before it and not unpinned since, and between *)
(* two pinnings no two calls use one manifest from two issuers.              *)
AMLegal(T) ==
    \A i \in PinnedCalls(T) :
        /\ \E j \in 1 .. i - 1 :
              /\ T[j].type \in {"CONTRACT_PROPOSE", "CONTEXT_AMEND"} /\ T[j].pins # None
              /\ \A k \in j .. i - 1 : T[k].type = "CONTEXT_AMEND" /\ T[k].pins \notin {None, {}}
                                          => T[i].manifest \in T[k].pins
              /\ T[i].manifest \in T[j].pins
        /\ \A j \in PinnedCalls(T) :
              /\ i < j /\ T[j].manifest[1] = T[i].manifest[1]
              /\ \A k \in i .. j : T[k].type \notin {"CONTRACT_PROPOSE", "CONTEXT_AMEND"}
              => T[j].manifest[2] = T[i].manifest[2]
=============================================================================
