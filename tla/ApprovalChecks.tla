--------------------------- MODULE ApprovalChecks ---------------------------
(* Checks of the transcripts in which somebody must agree before something   *)
(* is done: human approval (HA), external transactions (ET), the commerce    *)
(* profile (CM) and tool gating (TG).                                        *)
EXTENDS Transcript

(* Human approval. A decision answers the last challenge before it under the *)
(* hash that it names; a grant counts for the target of its challenge.       *)
Decisions(T) == Rows(T, {"APPROVAL_GRANT", "APPROVAL_DENY"})
Under(T, types, i, hash) == {j \in Earlier(Rows(T, types), i) : T[j].hash = hash /\ hash # None}
Challenged(T, i) == Under(T, {"APPROVAL_CHALLENGE"}, i, T[i].challenge)
ChallengeOf(T, i) == T[Greatest(Challenged(T, i))]
Answered(T) == {i \in Decisions(T) : Challenged(T, i) # {}}
GrantsFor(T, i) ==
    {g \in Earlier(Answered(T) \cap Rows(T, {"APPROVAL_GRANT"}), i) :
        ChallengeOf(T, g).target = T[i].target}
(* The calls that need an approval; a target is a set of names of the call.  *)
Guarded(T) == {i \in Rows(T, {"TOOL_CALL_REQUEST"}) : T[i].guarded}
Late(time, expires) == time = None \/ expires = None \/ time > expires

HA_CHALLENGE(T) == Unsound(T, {"APPROVAL_CHALLENGE"})
HA_DECISION_BIND(T) == Unsound(T, {"APPROVAL_GRANT", "APPROVAL_DENY"}) \cup (Decisions(T) \ Answered(T))
HA_SIGNER(T) ==
    {i \in Answered(T) : {T[i].sender, T[i].approver} # {ChallengeOf(T, i).approver}}
HA_TARGET_REUSE(T) ==
    {i \in Answered(T) : LET c == ChallengeOf(T, i) IN
        /\ None \notin {c.target, c.expires}
        /\ T[i].target # c.target \/ T[i].expires # c.expires}
HA_EXPIRY(T) ==
    {i \in Answered(T) : Late(T[i].time, ChallengeOf(T, i).expires)}
        \cup {i \in Guarded(T) : /\ GrantsFor(T, i) # {} /\ T[i].time # None
                                 /\ \A g \in GrantsFor(T, i) : Late(T[i].time, T[g].expires)}
HA_ENFORCER_BIND(T) == {i \in Guarded(T) : T[i].target = {} \/ GrantsFor(T, i) = {}}
HA_INTERVENTION_REQUIRED(T) == Unsound(T, {"INTERVENTION_REQUIRED"})
HA_INTERVENTION_LINK(T) ==
    {i \in Rows(T, {"INTERVENTION_COMPLETE"}) :
        LET required == Under(T, {"INTERVENTION_REQUIRED"}, i, T[i].required)
        IN \/ required = {} \/ ~T[i].sound
           \/ T[Greatest(required)].handle \notin {None, T[i].handle}}
HAPasses(T) ==
    HA_CHALLENGE(T) \cup HA_DECISION_BIND(T) \cup HA_SIGNER(T) \cup HA_TARGET_REUSE(T) \cup HA_EXPIRY(T)
        \cup HA_ENFORCER_BIND(T) \cup HA_INTERVENTION_REQUIRED(T) \cup HA_INTERVENTION_LINK(T) = {}

(* A guarded call was granted before it, for that very call, by the person   *)
(* who was asked, and all three of them while the challenge lasted.          *)
HALegal(T) ==
    \A i \in Guarded(T) : \E g \in 1 .. i - 1, c \in 1 .. i - 1 :
        /\ c < g /\ T[c].type = "APPROVAL_CHALLENGE" /\ T[g].type = "APPROVAL_GRANT"
        /\ T[g].challenge = T[c].hash /\ T[c].target = T[i].target
        /\ T[g].sender = T[c].approver /\ T[g].time <= T[c].expires
        /\ T[i].time # None => T[i].time <= T[c].expires

-----------------------------------------------------------------------------
(* External transactions: declared, approved, evaluated, then reported.      *)
Results(T) == Rows(T, {"EXTERNAL_TX_RESULT"})
Declared(T, i) == Under(T, {"EXTERNAL_TX_DECLARE"}, i, T[i].declared)
Declaration(T, i) == T[Greatest(Declared(T, i))]
Approvals(T, i) == Under(T, {"APPROVAL_GRANT"}, i, T[i].approvalRef)
Evaluations(T, i) == Under(T, {"POLICY_EVAL_RESULT"}, i, T[i].policyRef)
Evaluation(T, i) == T[Greatest(Evaluations(T, i))].decision
Mismatched(T, i) == Declared(T, i) # {} /\ Declaration(T, i).tx # T[i].tx
DeclaresThat(T, i, field) == Declared(T, i) # {} /\ Declaration(T, i)[field] = TRUE

(* An irreversible transaction needs an approval when it does not say.       *)
NeedsApproval(T, i) ==
    \/ T[i].needsApproval = TRUE \/ DeclaresThat(T, i, "needsApproval")
    \/ T[i].irreversible /\ T[i].needsApproval = None
ET_DECLARE_LINK(T) == Unsound(T, {"EXTERNAL_TX_DECLARE"}) \cup {i \in Results(T) : Declared(T, i) = {}}
(* With the digest, the privacy and the references of the receipt.           *)
ET_RESULT_LINK(T) == Unsound(T, {"EXTERNAL_TX_RESULT"}) \cup {i \in Results(T) : Mismatched(T, i)}
ET_IRREVERSIBLE_APPROVAL(T) == {i \in Results(T) : NeedsApproval(T, i) /\ Approvals(T, i) = {}}
ET_POLICY_LINK(T) ==
    {i \in Results(T) :
        /\ T[i].policyRef # None \/ T[i].needsPolicy = TRUE \/ DeclaresThat(T, i, "needsPolicy")
        /\ Evaluations(T, i) = {} \/ Evaluation(T, i) = "DENY"}
ET_CROSS_BIND(T) ==
    {i \in Results(T) : \/ T[i].approvalRef # None /\ Approvals(T, i) = {}
                        \/ T[i].policyRef # None /\ Evaluations(T, i) = {}}
ETPasses(T) ==
    ET_DECLARE_LINK(T) \cup ET_RESULT_LINK(T) \cup ET_IRREVERSIBLE_APPROVAL(T)
        \cup ET_POLICY_LINK(T) \cup ET_CROSS_BIND(T) = {}

-----------------------------------------------------------------------------
(* The commerce profile asks more: every result was evaluated as allowed.    *)
CM_CAPNEG_PROFILE(T) ==
    {type \in {"CAPABILITIES_DECLARE", "CAPABILITIES_PROPOSE"} :
        ~\E i \in Rows(T, {type}) : T[i].commerce}
CM_EXT_TX_ANCHOR(T) == {i \in Results(T) : Declared(T, i) = {} \/ Mismatched(T, i)}
CM_APPROVAL_REQUIRED(T) ==
    {i \in Results(T) :
        /\ T[i].irreversible
        /\ \/ T[i].needsApproval = TRUE \/ Declared(T, i) = {}
           \/ DeclaresThat(T, i, "needsApproval")
        /\ Approvals(T, i) = {}}
CM_POLICY_GATE(T) == {i \in Results(T) : Evaluations(T, i) = {} \/ Evaluation(T, i) # "ALLOW"}
(* Only a verdict that names the result before it is read is compared.       *)
CM_ENFORCEMENT_COHERENCE(T) ==
    {i \in Results(T) :
        LET verdicts == {j \in Earlier(Rows(T, {"ENFORCEMENT_VERDICT"}), i) : T[j].target = T[i].hash}
            verdict == IF verdicts = {} THEN None ELSE T[Greatest(verdicts)].decision
        IN \/ Evaluations(T, i) # {} /\ Evaluation(T, i) = "DENY" /\ verdict = "ALLOW"
           \/ T[i].success /\ verdict = "DENY"}
CM_BOUNDARIES(T) == Unsound(T, {"EXTERNAL_TX_RESULT"})
CMPasses(T) ==
    /\ CM_CAPNEG_PROFILE(T) = {}
    /\ CM_EXT_TX_ANCHOR(T) \cup CM_APPROVAL_REQUIRED(T) \cup CM_POLICY_GATE(T)
         \cup CM_ENFORCEMENT_COHERENCE(T) \cup CM_BOUNDARIES(T) = {}

(* Nothing irreversible that was declared to need an approval is reported    *)
(* without one granted before, and nothing that a policy denied.             *)
Reported(T) ==
    \A i \in Results(T), d \in Rows(T, {"EXTERNAL_TX_DECLARE"}) :
        d < i /\ T[d].hash = T[i].declared =>
            /\ T[d].tx = T[i].tx
            /\ T[d].needsApproval = TRUE /\ T[i].irreversible =>
                  \E a \in 1 .. i - 1 : T[a].type = "APPROVAL_GRANT" /\ T[a].hash = T[i].approvalRef
            /\ \A e \in 1 .. i - 1 :
                  /\ T[e].type = "POLICY_EVAL_RESULT" /\ T[e].hash = T[i].policyRef
                  /\ T[i].policyRef # None
                  => T[e].decision # "DENY"

-----------------------------------------------------------------------------
(* Tool gating. A verdict is found by its id, wherever it stands.            *)
TGConfig(T) == FirstConfig(T, [mode |-> None, acceptors |-> {}])
ToolVerdicts(T, id) == {j \in Rows(T, {"TOOL_CALL_VERDICT"}) : T[j].id = id /\ id # None}
ToolResults(T) == Rows(T, {"TOOL_CALL_RESULT"})
TG_REQ(T) == Unsound(T, {"TOOL_CALL_REQUEST"})
TG_AUTH(T) ==
    {i \in Rows(T, {"TOOL_CALL_VERDICT", "TOOL_CALL_ATTEST"}) :
        TGConfig(T).acceptors # {} /\ T[i].sender \notin TGConfig(T).acceptors}
TG_BIND(T) ==
    {i \in Rows(T, {"TOOL_CALL_VERDICT", "TOOL_CALL_RESULT", "TOOL_CALL_ATTEST"}) :
        Under(T, {"TOOL_CALL_REQUEST"}, i, T[i].target) = {}}
Allows(v, result) == v.decision = "ALLOW" /\ v.target = result.target
TG_BLOCKING(T) ==
    {i \in ToolResults(T) : LET verdicts == ToolVerdicts(T, T[i].verdict) IN
        verdicts = {} \/ ~Allows(T[Greatest(verdicts)], T[i])}
Witnesses(attest, result) == attest.target = result.target /\ attest.result = result.hash
TG_AUDIT(T) ==
    {i \in ToolResults(T) :
        ~\E j \in Rows(T, {"TOOL_CALL_ATTEST"}) : i < j /\ Witnesses(T[j], T[i])}
TG_MODE(T) ==
    CASE TGConfig(T).mode = "blocking" -> TG_BLOCKING(T)
      [] TGConfig(T).mode = "audit" -> TG_AUDIT(T)
      [] OTHER -> {}
TGPasses(T) == TG_REQ(T) \cup TG_AUTH(T) \cup TG_BIND(T) \cup TG_MODE(T) = {}

(* The verdict a result stands on, or the attestation that witnesses it, is  *)
(* about the request that the result answers, and from an acceptor.          *)
TGLegal(T) ==
    \A i \in ToolResults(T) : TGConfig(T).mode \in {"blocking", "audit"} =>
        \E j \in Rows(T, {"TOOL_CALL_VERDICT", "TOOL_CALL_ATTEST"}), r \in Rows(T, {"TOOL_CALL_REQUEST"}) :
            /\ r < i /\ r < j /\ T[r].hash = T[i].target /\ T[j].target = T[r].hash
            /\ TGConfig(T).acceptors # {} => T[j].sender \in TGConfig(T).acceptors
            /\ TGConfig(T).mode = "audit" => i < j /\ T[j].type = "TOOL_CALL_ATTEST"
(* The reading of the RFC: under blocking the verdict comes before.          *)
VerdictsPrecede(T) ==
    TGConfig(T).mode = "blocking" => \A i \in ToolResults(T) :
        \E j \in 1 .. i - 1 : T[j].type = "TOOL_CALL_VERDICT" /\ Allows(T[j], T[i])
=============================================================================
