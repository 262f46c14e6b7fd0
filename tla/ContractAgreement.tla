------------------------- MODULE ContractAgreement -------------------------
(***************************************************************************)
(* The Core v0.2 exact contract agreement reducer                          *)
(* (reference/python/aicp_ref_v02/contract_agreement.py,                   *)
(* ExactAgreementMachine).  It reads one transcript, message by message,   *)
(* and keeps the proposals it has seen, the exact tuples that were accepted*)
(* and rejected, and the one active contract head.                         *)
(*                                                                         *)
(* A contract is abstracted to its exact version, the pair                 *)
(* (contract_version, contract_hash) every reference is made of; a         *)
(* transition reference is a branch, a base version (None when absent) and *)
(* a head version; a current-head reference is one without base.  Positions*)
(* in the transcript only choose the wording of an issue (future, unknown  *)
(* and non-proposal targets are the same code), so they are left out, and  *)
(* raised holds the codes of the issues of the last message only: the      *)
(* reducer's list is the history of this variable.                         *)
(***************************************************************************)
EXTENDS Naturals, Sequences

CONSTANTS
  Ids,          \* message_id values
  Hashes,       \* message_hash values
  Versions,     \* exact contract versions
  Branches,     \* branch_id values
  ContractIds,  \* contract_id values
  Sessions,     \* session_id values
  None,         \* Python's None, or a field that is absent
  Messages      \* the messages a transcript may contain

Ref == [branch : Branches, base : Versions \cup {None}, head : Versions]

Binding == [proposal_message_id : Ids, proposal_message_hash : Hashes,
            contract_hash : Versions, contract_ref : Ref]

ProposalRecord ==
  [message_id : Ids, message_hash : Hashes, contract_id : ContractIds,
   contract_hash : Versions, contract_ref : Ref]

AcceptedValues == {"true", "false", "other"}

Tuple == [accepted : AcceptedValues, binding : Binding]

\* The handled message types.  The payload fields are the ones a handler reads:
\* structured is whether the payload is the object the handler expects, hash_ok
\* whether the stored contract hash is the one recomputed from the contract.
\* A reference that is absent or malformed is None.
Proposals ==
  [type : {"CONTRACT_PROPOSE"}, id : Ids, hash : Hashes, session : Sessions,
   cid : ContractIds, ref : Ref \cup {None}, structured : BOOLEAN,
   contract_cid : ContractIds, contract : Versions, hash_ok : BOOLEAN]

Acceptances ==
  [type : {"CONTRACT_ACCEPT"}, id : Ids, hash : Hashes,
   session : Sessions, cid : ContractIds,
   ref : Ref \cup {None}, proposal_message_id : Ids,
   proposal_message_hash : Hashes, contract_hash : Versions,
   accepted : AcceptedValues, replay : BOOLEAN]

Contexts ==
  [type : {"CONTEXT_AMEND"}, id : Ids, hash : Hashes,
   session : Sessions, cid : ContractIds,
   ref : Ref \cup {None}, effect_none : BOOLEAN]

Plain ==
  [type : {"ATTEST_ACTION", "ERROR", "OTHER"}, id : Ids, hash : Hashes,
   session : Sessions,
   cid : ContractIds, ref : Ref \cup {None}]

Conflicts ==
  [type : {"RESOLVE_CONFLICT"}, id : Ids, hash : Hashes,
   session : Sessions, cid : ContractIds,
   ref : Ref \cup {None}, candidates : Seq(Binding), choose : BOOLEAN,
   selected : Binding]

ASSUME MessagesAssumption ==
  /\ Messages \subseteq
       Proposals \cup Acceptances \cup Contexts \cup Plain \cup Conflicts
  /\ None \notin Ref \cup Versions \cup ProposalRecord \cup Binding
                   \cup Sessions \cup ContractIds

Codes == {"CONTRACT_SCHEMA", "CONTRACT_ID", "CONTRACT_HASH", "CONTRACT_REF",
          "PROPOSAL_BINDING", "ACCEPT_BINDING", "ACTIVE_HEAD",
          "CONTEXT_BINDING", "CONFLICT_BINDING", "AGREEMENT_STATE"}

VARIABLES
  state,             \* the observable agreement state
  session_id,        \* None until the first message that counts
  contract_id,
  active_head,       \* current-head reference, or None
  proposals,         \* by message id
  proposals_by_hash, \* by message hash
  acceptance_tuples,
  rejected_tuples,
  selected_conflict_result,
  raised,            \* codes of the issues the last message raised
  adopted            \* history: every head that has been active

identity == <<session_id, contract_id>>
agreement == <<state, active_head, proposals, proposals_by_hash,
               acceptance_tuples, rejected_tuples, selected_conflict_result,
               adopted>>
vars == <<identity, agreement, raised>>

-----------------------------------------------------------------------------
(* References and bindings. *)

ValidRef(ref) == ref \in Ref /\ ref.base # ref.head

CurrentHead(ref) == [branch |-> ref.branch, base |-> None, head |-> ref.head]

\* Faulty variants of DerivesFromActive: a missing base matches any head; the
\* branch is not compared; the base is not compared.
BaseOptional(ref) ==
  ref.base = None \/ (active_head # None /\ ref.branch = active_head.branch
                                         /\ ref.base = active_head.head)

BranchIgnored(ref) ==
  IF active_head = None THEN ref.base = None ELSE ref.base = active_head.head

BaseIgnored(ref) ==
  IF active_head = None THEN TRUE ELSE ref.branch = active_head.branch

\* The reference continues exactly the active head, or starts the contract.
DerivesFromActive(ref) ==
  IF active_head = None
  THEN ref.base = None
  ELSE ref.branch = active_head.branch /\ ref.base = active_head.head

BindingOf(p) ==
  [proposal_message_id |-> p.message_id,
   proposal_message_hash |-> p.message_hash,
   contract_hash |-> p.contract_hash, contract_ref |-> p.contract_ref]

Stored == {i \in Ids : proposals[i] # None}

\* The stored proposals that compete with one of reference ref.
Siblings(index, ref) ==
  {i \in Ids : /\ index[i] # None
               /\ index[i].contract_ref.branch = ref.branch
               /\ index[i].contract_ref.base = ref.base}

When(condition, code) == IF condition THEN {code} ELSE {}

-----------------------------------------------------------------------------
(* Transcript identity: the first message that counts fixes it. *)

\* Faulty variant: only the session is fixed by the first message.
OnlySessionIssues(m) ==
  IF session_id = None THEN {} ELSE When(m.session # session_id, "AGREEMENT_STATE")

IdentityIssues(m) ==
  IF session_id = None THEN {}
  ELSE When(m.session # session_id, "AGREEMENT_STATE")
         \cup When(m.cid # contract_id, "CONTRACT_ID")

\* Faulty variant: the identity is taken from the wrong envelope field.
TurnWrongField(m, type) ==
  /\ m.type = type
  /\ IdentityIssues(m) = {}
  /\ session_id' = m.session
  /\ contract_id' = m.session

Turn(m, type) ==
  /\ m.type = type
  /\ IdentityIssues(m) = {}
  /\ session_id' = m.session
  /\ contract_id' = m.cid

\* A message of another session or contract: noted, never handled.
Foreign(m) ==
  /\ IdentityIssues(m) # {}
  /\ raised' = IdentityIssues(m)
  /\ UNCHANGED <<identity, agreement>>

\* A message that failed message-local validation.  Before the identity is
\* fixed it is skipped; afterwards its identity is still compared.
Barred(m) ==
  /\ raised' = IdentityIssues(m)
  /\ UNCHANGED <<identity, agreement>>

-----------------------------------------------------------------------------
(* CONTRACT_PROPOSE *)

ProposalIssues(m) ==
  IF ~m.structured THEN {"CONTRACT_SCHEMA"}
  ELSE When(m.contract_cid # m.cid, "CONTRACT_ID")
         \cup When(~m.hash_ok, "CONTRACT_HASH")
         \cup (IF ~ValidRef(m.ref) THEN {"CONTRACT_REF"}
               ELSE When(m.ref.head # m.contract \/ ~DerivesFromActive(m.ref),
                         "PROPOSAL_BINDING"))

RecordOf(m) ==
  [message_id |-> m.id, message_hash |-> m.hash, contract_id |-> m.cid,
   contract_hash |-> m.contract, contract_ref |-> m.ref]

\* Faulty variant: the rivals are counted before the proposal is stored.
StoreCountsFirst(m) ==
  /\ proposals' = [proposals EXCEPT ![m.id] = RecordOf(m)]
  /\ proposals_by_hash' = [proposals_by_hash EXCEPT ![m.hash] = RecordOf(m)]
  /\ state' = IF Siblings(proposals, m.ref) = {}
              THEN "CANDIDATE_PROPOSED" ELSE "COMPETING_CANDIDATES"

\* A later proposal with a stored id or hash replaces the stored one.
StoreProposal(m) ==
  /\ proposals' = [proposals EXCEPT ![m.id] = RecordOf(m)]
  /\ proposals_by_hash' = [proposals_by_hash EXCEPT ![m.hash] = RecordOf(m)]
  /\ state' = IF Siblings(proposals', m.ref) = {m.id}
              THEN "CANDIDATE_PROPOSED" ELSE "COMPETING_CANDIDATES"

Propose(m) ==
  /\ Turn(m, "CONTRACT_PROPOSE")
  /\ raised' = ProposalIssues(m)
  /\ \/ ProposalIssues(m) = {} /\ StoreProposal(m)
     \/ ProposalIssues(m) # {} /\ UNCHANGED <<state, proposals, proposals_by_hash>>
  /\ UNCHANGED <<active_head, acceptance_tuples, rejected_tuples,
                 selected_conflict_result, adopted>>

-----------------------------------------------------------------------------
(* CONTRACT_ACCEPT *)

\* Faulty variant: the envelope reference may be substituted.
NamesProposalLoosely(m) ==
  LET p == proposals[m.proposal_message_id] IN
  /\ ValidRef(m.ref)
  /\ p # None
  /\ m.proposal_message_hash = p.message_hash
  /\ m.contract_hash = p.contract_hash
  /\ m.cid = p.contract_id

NamesExactProposal(m) ==
  LET p == proposals[m.proposal_message_id] IN
  /\ ValidRef(m.ref)
  /\ p # None
  /\ m.proposal_message_hash = p.message_hash
  /\ m.contract_hash = p.contract_hash
  /\ m.ref = p.contract_ref
  /\ m.cid = p.contract_id

TupleOf(m) ==
  [accepted |-> m.accepted, binding |-> BindingOf(proposals[m.proposal_message_id])]

Known(tuple) == tuple \in acceptance_tuples \cup rejected_tuples

Activate(ref) ==
  /\ active_head' = CurrentHead(ref)
  /\ adopted' = adopted \cup {CurrentHead(ref)}

\* Faulty variant: the accepted tuple is not recorded.
AcceptUnrecorded(m) ==
  /\ Activate(m.ref)
  /\ state' = "ACTIVE_HEAD"
  /\ UNCHANGED <<acceptance_tuples, rejected_tuples>>

AcceptProposal(m) ==
  /\ Activate(m.ref)
  /\ acceptance_tuples' = acceptance_tuples \cup {TupleOf(m)}
  /\ state' = "ACTIVE_HEAD"
  /\ UNCHANGED rejected_tuples

\* A rejection is not tested for staleness.
RejectProposal(m) ==
  /\ rejected_tuples' = rejected_tuples \cup {TupleOf(m)}
  /\ state' = IF active_head = None THEN "NO_ACTIVE_CONTRACT" ELSE "ACTIVE_HEAD"
  /\ UNCHANGED <<active_head, adopted, acceptance_tuples>>

KeepDecisions ==
  UNCHANGED <<state, active_head, adopted, acceptance_tuples, rejected_tuples>>

\* An inexact target, a replay of nothing, a stale base, or no decision at all.
AcceptanceRefused(m) ==
  NamesExactProposal(m) =>
    IF m.replay THEN ~Known(TupleOf(m))
    ELSE \/ m.accepted = "true" /\ ~DerivesFromActive(m.ref)
         \/ m.accepted = "other"

Accept(m) ==
  /\ Turn(m, "CONTRACT_ACCEPT")
  /\ \/ /\ NamesExactProposal(m) /\ ~m.replay
        /\ m.accepted = "true" /\ DerivesFromActive(m.ref)
        /\ AcceptProposal(m) /\ raised' = {}
     \/ /\ NamesExactProposal(m) /\ ~m.replay
        /\ m.accepted = "false"
        /\ RejectProposal(m) /\ raised' = {}
     \/ /\ NamesExactProposal(m) /\ m.replay /\ Known(TupleOf(m))
        /\ KeepDecisions /\ raised' = {}
     \/ /\ AcceptanceRefused(m)
        /\ KeepDecisions /\ raised' = {"ACCEPT_BINDING"}
  /\ UNCHANGED <<proposals, proposals_by_hash, selected_conflict_result>>

-----------------------------------------------------------------------------
(* CONTEXT_AMEND, ATTEST_ACTION, ERROR and types without a handler *)

BindsActiveHead(m) == ValidRef(m.ref) /\ active_head # None /\ m.ref = active_head

Context(m) ==
  /\ Turn(m, "CONTEXT_AMEND")
  /\ raised' = When(~m.effect_none \/ ~BindsActiveHead(m), "CONTEXT_BINDING")
  /\ UNCHANGED agreement

Action(m) ==
  /\ Turn(m, "ATTEST_ACTION")
  /\ raised' = When(~BindsActiveHead(m), "ACTIVE_HEAD")
  /\ UNCHANGED agreement

ErrorIssues(m) ==
  IF m.ref = None THEN {}
  ELSE IF ~ValidRef(m.ref) THEN {"CONTRACT_REF"}
  ELSE When(/\ m.ref # active_head
            /\ \A i \in Stored : m.ref # proposals[i].contract_ref,
            "ACTIVE_HEAD")

Error(m) ==
  /\ Turn(m, "ERROR")
  /\ raised' = ErrorIssues(m)
  /\ UNCHANGED agreement

Other(m) ==
  /\ Turn(m, "OTHER")
  /\ raised' = {}
  /\ UNCHANGED agreement

-----------------------------------------------------------------------------
(* RESOLVE_CONFLICT *)

ExactCandidate(m, i) ==
  LET c == m.candidates[i]
      p == proposals[c.proposal_message_id] IN
  /\ \A j \in 1 .. (i - 1) :
       m.candidates[j].proposal_message_id # c.proposal_message_id
  /\ p # None
  /\ c = BindingOf(p)
  /\ p.contract_id = contract_id
  /\ DerivesFromActive(p.contract_ref)

Resolvable(m) ==
  /\ active_head # None
  /\ \A i \in 1 .. Len(m.candidates) : ExactCandidate(m, i)
  /\ m.choose
  /\ \E i \in 1 .. Len(m.candidates) : m.selected = m.candidates[i]
  /\ m.ref = m.selected.contract_ref

\* The chosen candidate becomes active; no acceptance tuple is recorded.
ResolveConflict(m) ==
  /\ Turn(m, "RESOLVE_CONFLICT")
  /\ \/ /\ Resolvable(m) /\ raised' = {}
        /\ Activate(m.ref)
        /\ selected_conflict_result' = m.selected
        /\ state' = "CONFLICT_RESOLVED"
     \/ /\ ~Resolvable(m) /\ raised' = {"CONFLICT_BINDING"}
        /\ UNCHANGED <<active_head, adopted, selected_conflict_result, state>>
  /\ UNCHANGED <<proposals, proposals_by_hash, acceptance_tuples, rejected_tuples>>

-----------------------------------------------------------------------------
Init ==
  /\ state = "NO_ACTIVE_CONTRACT"
  /\ session_id = None /\ contract_id = None
  /\ active_head = None
  /\ proposals = [i \in Ids |-> None]
  /\ proposals_by_hash = [h \in Hashes |-> None]
  /\ acceptance_tuples = {} /\ rejected_tuples = {}
  /\ selected_conflict_result = None
  /\ raised = {}
  /\ adopted = {}

\* One iteration of process() over a message that is not barred.
Handle(m) ==
  \/ Foreign(m) \/ Propose(m) \/ Accept(m) \/ Context(m) \/ Action(m)
  \/ ResolveConflict(m) \/ Error(m) \/ Other(m)

Next == \E m \in Messages : Handle(m) \/ Barred(m)

Spec == Init /\ [][Next]_vars

-----------------------------------------------------------------------------
(* Properties *)

States == {"NO_ACTIVE_CONTRACT", "CANDIDATE_PROPOSED", "COMPETING_CANDIDATES",
           "ACTIVE_HEAD", "CONFLICT_RESOLVED"}

\* AgreementState holds values of its declared types.
TypeOK ==
  /\ state \in States
  /\ session_id \in Sessions \cup {None}
  /\ contract_id \in ContractIds \cup {None}
  /\ active_head \in Ref \cup {None}
  /\ proposals \in [Ids -> ProposalRecord \cup {None}]
  /\ proposals_by_hash \in [Hashes -> ProposalRecord \cup {None}]
  /\ acceptance_tuples \subseteq Tuple
  /\ rejected_tuples \subseteq Tuple
  /\ selected_conflict_result \in Binding \cup {None}
  /\ raised \subseteq Codes
  /\ adopted \subseteq Ref

Accepted == {t.binding.contract_ref : t \in acceptance_tuples}

\* Among all the initial proposals two parties may race with, at most one
\* version is ever agreed by acceptance: every later acceptance has a base.
OneInitialAgreement ==
  \A r1, r2 \in Accepted : r1.base = None /\ r2.base = None => r1.head = r2.head

\* The contract never changes branch: what was accepted, resolved or adopted
\* is on the branch of the active head.
OneBranch ==
  \A r \in Accepted \cup adopted :
    active_head # None /\ r.branch = active_head.branch

\* The head a transition continues, as a current-head reference.
BaseHead(ref) == [branch |-> ref.branch, base |-> None, head |-> ref.base]

\* No transition is accepted whose base was not itself agreed before: the
\* accepted references hang together in one history that starts at the root.
AcceptedFollowAgreement ==
  \A r \in Accepted :
    /\ CurrentHead(r) \in adopted
    /\ r.base # None => BaseHead(r) \in adopted

\* A candidate is only ever stored for the contract of the transcript, on top of
\* a head that was adopted at some time.
CandidatesFollowAgreement ==
  \A i \in Stored :
    LET p == proposals[i] IN
    /\ p.contract_id = contract_id
    /\ p.contract_ref.base # None => BaseHead(p.contract_ref) \in adopted

\* The active head rests on evidence still on record: an exact positive
\* acceptance, or the conflict result that was selected last.
HeadHasEvidence ==
  active_head # None =>
    \/ \E r \in Accepted : CurrentHead(r) = active_head
    \/ /\ selected_conflict_result # None
       /\ CurrentHead(selected_conflict_result.contract_ref) = active_head

\* The stored candidates of branch b that continue the active head, or that
\* would start the contract while there is none.
Live(b) == {i \in Stored : /\ proposals[i].contract_ref.branch = b
                           /\ DerivesFromActive(proposals[i].contract_ref)}

\* The observable state agrees with the data it summarises: a single candidate is
\* alone on its branch, competing candidates are two on one branch, no contract
\* means no head, and an active head or a resolved conflict means there is one.
\* Rivals on different branches, which only first proposals can be, do not compete.
StateIsObservable ==
  /\ state = "NO_ACTIVE_CONTRACT" => active_head = None
  /\ state \in {"ACTIVE_HEAD", "CONFLICT_RESOLVED"} => active_head # None
  /\ state = "CANDIDATE_PROPOSED" => \E b \in Branches, i \in Stored : Live(b) = {i}
  /\ state = "COMPETING_CANDIDATES" =>
       \E b \in Branches : \E i, j \in Live(b) : i # j
  /\ state = "CONFLICT_RESOLVED" =>
       CurrentHead(selected_conflict_result.contract_ref) = active_head

\* The reducer keeps the promise of ExactHead: its active head moves only along
\* a stored proposal that continues it exactly, and what is stored was proposed
\* on the head of its time.
Promise == INSTANCE ExactHead WITH
  Transitions <- Ref, head <- active_head,
  candidates <- {proposals[i].contract_ref : i \in Stored}

KeepsPromise == Promise!Spec
=============================================================================
