------------------------- MODULE NegotiationChecks -------------------------
(* Checks of what the parties agree on and of what follows from it: the      *)
(* negotiation of capabilities (CN), confidentiality (CF), redaction (RD)    *)
(* and policy evaluation (PE). A negotiation result is a record of its       *)
(* negotiation, its parties and what is selected; it stands for its hash.    *)
EXTENDS Transcript

CONSTANTS ProfileCrypto,  \* the registered profiles, each with the crypto profiles it requires
          Bindings,       \* the registered transport bindings
          Aliases         \* the deprecated bindings, each with its canonical name

Canonical(b) == IF b \in DOMAIN Aliases THEN Aliases[b] ELSE b

(* A party's declaration is its last one, wherever it stands.                *)
DeclaresOf(T, p) == {i \in Rows(T, {"CAPABILITIES_DECLARE"}) : T[i].party = p}
DeclarationOf(T, p) == T[Greatest(DeclaresOf(T, p))]
Proposals(T) == {i \in Rows(T, {"CAPABILITIES_PROPOSE"}) : T[i].result # None}
Accepts(T) == Rows(T, {"CAPABILITIES_ACCEPT"})
Rejects(T) == Rows(T, {"CAPABILITIES_REJECT"})
(* The parties of a result that have declared; the others are not asked.     *)
Asked(T, result) == {p \in result.parties : DeclaresOf(T, p) # {}}
Permits(set, value) == set = {} \/ value \in set
Unsupported(T, result) ==
    \E p \in Asked(T, result) : ~Permits(DeclarationOf(T, p).supports, result.selected.profile)
Unacceptable(T, result) ==
    \E p \in Asked(T, result) : /\ Permits(DeclarationOf(T, p).supports, result.selected.profile)
                                /\ ~Permits(DeclarationOf(T, p).requires, result.selected.profile)

Profiled(T) == {i \in Proposals(T) : T[i].result.selected.profile # None}
CN_AICP_PROFILE_NEGOTIATION(T) ==
    {i \in Profiled(T) : \/ T[i].result.selected.profile \notin DOMAIN ProfileCrypto
                         \/ Unsupported(T, T[i].result) \/ Unacceptable(T, T[i].result)}
(* Here a party that has not declared lacks everything.                      *)
CN_AUTHENTICATED_CRYPTO(T) ==
    {i \in Profiled(T) :
        LET selected == T[i].result.selected
            required == IF selected.profile \in DOMAIN ProfileCrypto THEN ProfileCrypto[selected.profile] ELSE {}
        IN \/ ~(required \subseteq selected.crypto)
           \/ \E p \in T[i].result.parties : ~(required \subseteq
                IF DeclaresOf(T, p) = {} THEN {} ELSE DeclarationOf(T, p).crypto)}
CN_CODES(T) == Unsound(T, {"CAPABILITIES_REJECT", "CAPABILITIES_DECLARE", "CAPABILITIES_PROPOSE", "CAPABILITIES_ACCEPT"})
Rejected(T, i) == {j \in Proposals(T) : T[j].result.neg = T[i].neg}
CN_PROFILE_REJECT_SEMANTICS(T) ==
    {i \in Rejects(T) : Rejected(T, i) # {} /\
        LET result == T[Greatest(Rejected(T, i))].result
        IN /\ result.selected.profile # None
           /\ IF Unsupported(T, result) THEN T[i].reason # "REQUIRED_PROFILE_UNSUPPORTED"
              ELSE /\ Unacceptable(T, result)
                   /\ T[i].reason \notin {"PROFILE_NOT_ACCEPTABLE", "DOWNGRADE_NOT_ALLOWED"}}
CN_BINDINGS(T) ==
    {i \in Proposals(T) : LET b == T[i].result.selected.binding IN
        /\ b # None
        /\ \/ b \notin Bindings \/ b \in DOMAIN Aliases
           \/ \E p \in Asked(T, T[i].result) : b \notin {Canonical(d) : d \in DeclarationOf(T, p).bindings}}
(* A property of the channel maps to the values that a party supports.       *)
CN_CHANNEL_PROPERTIES(T) ==
    {i \in Proposals(T) : LET channel == T[i].result.selected.channel IN
        \E p \in Asked(T, T[i].result) :
            \/ DeclarationOf(T, p).channel = None
            \/ \E k \in DOMAIN channel : \/ k \notin DOMAIN DeclarationOf(T, p).channel
                                         \/ channel[k] \notin DeclarationOf(T, p).channel[k]}
(* The first result proposed is the one to accept and to bind.               *)
ProposedBefore(T, i) == Earlier(Proposals(T), i)
Proposed(T) == T[Least(Proposals(T))].result
CN_NEGRESULT_HASH(T) ==
    {i \in Accepts(T) : \/ ProposedBefore(T, i) = {}
                        \/ T[i].result \notin {None, Proposed(T)}
                        \/ T[i].resultHash \notin {None, Proposed(T)}}
Later(T, S) == {i \in Contracts(T) : S # {} /\ Least(S) < i}
(* A mistake: the contract is compared with what was selected only.          *)
BindsSelected(T) ==
    {i \in {0} : Accepts(T) # {} /\ Proposals(T) = {}}
        \cup {i \in Later(T, Accepts(T)) :
                Proposals(T) # {} /\ T[i].config.selected \notin {None, Proposed(T).selected}}
CN_CONTRACT_BIND(T) ==
    {i \in {0} : Accepts(T) # {} /\ Proposals(T) = {}}
        \cup {i \in Later(T, Accepts(T)) :
                /\ Proposals(T) # {}
                /\ \/ T[i].config.result # Proposed(T)
                   \/ T[i].config.selected \notin {None, Proposed(T).selected}}
(* Extensions that were accepted are not dropped from a later proposal.      *)
Extending(T, types) ==
    {i \in Rows(T, types) : T[i].result # None /\ T[i].result.selected.extensions # None}
CN_DOWNGRADE(T) ==
    {i \in Extending(T, {"CAPABILITIES_PROPOSE"}) :
        LET accepted == {j \in Extending(T, {"CAPABILITIES_ACCEPT"}) : j < i /\ T[j].result.neg = T[i].result.neg}
        IN /\ accepted # {}
           /\ ~(T[Greatest(accepted)].result.selected.extensions \subseteq T[i].result.selected.extensions)}
CNPasses(T) ==
    CN_AICP_PROFILE_NEGOTIATION(T) \cup CN_AUTHENTICATED_CRYPTO(T) \cup CN_CODES(T)
        \cup CN_PROFILE_REJECT_SEMANTICS(T) \cup CN_BINDINGS(T) \cup CN_CHANNEL_PROPERTIES(T)
        \cup CN_NEGRESULT_HASH(T) \cup CN_CONTRACT_BIND(T) \cup CN_DOWNGRADE(T) = {}

(* A contract that follows an acceptance binds the result that was accepted  *)
(* before it, to which every party's last word, before or after, agrees.     *)
CNLegal(T) ==
    \A a \in Accepts(T), i \in Contracts(T) : a < i => \E q \in Proposals(T) :
        /\ q < a /\ T[i].config.result = T[q].result
        /\ T[a].result \in {None, T[q].result}
        /\ \A p \in Asked(T, T[q].result) : LET d == DeclarationOf(T, p) IN
              /\ T[q].result.selected.profile # None => Permits(d.supports, T[q].result.selected.profile)
              /\ T[q].result.selected.binding # None =>
                    \E b \in d.bindings : Canonical(b) = T[q].result.selected.binding

-----------------------------------------------------------------------------
(* Confidentiality. The mode is the last one proposed or accepted anywhere;  *)
(* the hash is that of the last result accepted, or else the last proposed.  *)
Agreed(T) == {i \in Accepts(T) : T[i].accepted}
Modes(T) ==
    {i \in Proposals(T) \cup Agreed(T) : T[i].result # None /\ T[i].result.selected.mode # None}
AcceptedMode(T) == IF Modes(T) = {} THEN None ELSE T[Greatest(Modes(T))].result.selected.mode
Hashed(T) == {i \in Agreed(T) : T[i].resultHash # None \/ T[i].result # None}
ResultAt(T, i) == IF T[i].resultHash # None THEN T[i].resultHash ELSE T[i].result
ExpectedHash(T) ==
    IF Hashed(T) # {} THEN ResultAt(T, Greatest(Hashed(T)))
    ELSE IF Proposals(T) # {} THEN T[Greatest(Proposals(T))].result ELSE None
Confidential(T) == {i \in Later(T, Agreed(T)) : T[i].config.confidential}
CF_CONTRACT_CONFIDENTIALITY(T) == Later(T, Agreed(T)) \ Confidential(T)
(* The registry of modes and what each mode requires of the contract.        *)
CF_SHAPES(T) == {i \in Confidential(T) : ~T[i].sound}
CF_CAPNEG_BIND(T) == {i \in Confidential(T) : AcceptedMode(T) \notin {None, T[i].config.mode}}
CF_NEGRESULT_HASH_BIND(T) == {i \in Confidential(T) : ExpectedHash(T) \notin {None, T[i].config.result}}
CFPasses(T) ==
    CF_CONTRACT_CONFIDENTIALITY(T) \cup CF_SHAPES(T) \cup CF_CAPNEG_BIND(T) \cup CF_NEGRESULT_HASH_BIND(T) = {}

(* All contracts after an acceptance bind the same mode and one result, that *)
(* was accepted last.                                                        *)
CFLegal(T) ==
    \A a \in Agreed(T), i, j \in Contracts(T) : a < i /\ a < j =>
        /\ Modes(T) # {} => T[i].config.mode = T[j].config.mode
        /\ T[a].resultHash # None /\ (\A b \in Agreed(T) : b <= a) =>
              T[i].config.result = T[a].resultHash
(* The reading of the RFC: the mode is one that an accepted result selects.  *)
ModesAreAccepted(T) ==
    \A i \in Confidential(T) : (\A a \in Agreed(T) : T[a].result # None /\ T[a].result.selected.mode # None) =>
        \E a \in Agreed(T) : T[i].config.mode = T[a].result.selected.mode

-----------------------------------------------------------------------------
(* Redaction. A redacted message names the message it stands for.            *)
Redactions(T) == Rows(T, {"CONTENT_REDACTED"})
RD_ORIGINAL_BIND(T) == {i \in Redactions(T) : T[i].original \notin HashesBefore(T, i)}
RD_CHAIN_INTEGRITY(T) == {i \in Redactions(T) : T[i].hash = T[i].original /\ T[i].hash # None}
RD_SHAPES(T) == Unsound(T, {"CONTENT_REDACTED", "CONTRACT_PROPOSE"})
RDPasses(T) == RD_ORIGINAL_BIND(T) \cup RD_CHAIN_INTEGRITY(T) \cup RD_SHAPES(T) = {}

(* Redactions of redactions, in a chain of any length, end at a message that *)
(* is not one; no set of redactions stands only for itself.                  *)
RDLegal(T) ==
    \A S \in (SUBSET Redactions(T)) \ {{}} : \E i \in S :
        \E j \in DOMAIN T \ S : j < i /\ T[j].hash = T[i].original

-----------------------------------------------------------------------------
(* Policy evaluation. A result belongs to the last request under its id.     *)
EvalRequests(T, i) ==
    {j \in Earlier(Rows(T, {"POLICY_EVAL_REQUEST"}), i) : T[j].eval = T[i].eval /\ T[i].eval # None}
Evaluated(T) == {i \in Rows(T, {"POLICY_EVAL_RESULT"}) : EvalRequests(T, i) # {}}
RequestFor(T, i) == T[Greatest(EvalRequests(T, i))]
PE_CODES(T) == Unsound(T, {"POLICY_EVAL_REQUEST", "POLICY_EVAL_RESULT"})
(* Compared with the first result of the same policy in the same context.    *)
SameInput(T, i) == {j \in Evaluated(T) : RequestFor(T, j).input = RequestFor(T, i).input}
PE_DETERMINISM(T) == {i \in Evaluated(T) : T[Least(SameInput(T, i))].decision # T[i].decision}
PE_LLM_EVIDENCE(T) ==
    {i \in Evaluated(T) :
        /\ RequestFor(T, i).llm
        /\ \/ T[i].decision # "INCONCLUSIVE"
           \/ T[i].evidence \cap ({T[j].id : j \in 1 .. i} \cup {T[j].hash : j \in 1 .. i}) = {}}
PEPasses(T) == PE_CODES(T) \cup PE_DETERMINISM(T) \cup PE_LLM_EVIDENCE(T) = {}

(* A policy decides alike whenever it is asked the same.                     *)
PELegal(T) ==
    \A i, j \in Evaluated(T) :
        RequestFor(T, i).input = RequestFor(T, j).input => T[i].decision = T[j].decision
=============================================================================
