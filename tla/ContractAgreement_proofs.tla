---------------------- MODULE ContractAgreement_proofs ----------------------
(***************************************************************************)
(* Proofs about the agreement reducer for every alphabet of messages.      *)
(*                                                                         *)
(* StepShape reduces a step to one of five effects, so that the invariance *)
(* proofs look at effects and not at message formats.  IInv strengthens the*)
(* invariants with what they silently rest on: before the first activation *)
(* nothing is accepted or adopted, before the identity is fixed nothing is *)
(* stored, and the active head is a current-head reference of the history. *)
(***************************************************************************)
EXTENDS ContractAgreement, TLAPS

-----------------------------------------------------------------------------
(* The effects of a step on the agreement. *)

Stores(m) ==
  /\ m \in Proposals
  /\ m.ref \in Ref /\ DerivesFromActive(m.ref)
  /\ StoreProposal(m)
  /\ UNCHANGED <<active_head, acceptance_tuples, rejected_tuples,
                 selected_conflict_result, adopted>>

Accepts(m) ==
  /\ m \in Acceptances /\ m.accepted = "true"
  /\ NamesExactProposal(m) /\ DerivesFromActive(m.ref)
  /\ AcceptProposal(m)
  /\ UNCHANGED <<proposals, proposals_by_hash, selected_conflict_result>>

Rejects(m) ==
  /\ m \in Acceptances
  /\ NamesExactProposal(m)
  /\ RejectProposal(m)
  /\ UNCHANGED <<proposals, proposals_by_hash, selected_conflict_result>>

Resolves(m) ==
  /\ m \in Conflicts /\ Resolvable(m)
  /\ Activate(m.ref)
  /\ selected_conflict_result' = m.selected
  /\ state' = "CONFLICT_RESOLVED"
  /\ UNCHANGED <<proposals, proposals_by_hash, acceptance_tuples, rejected_tuples>>

\* The identity after a message that was handled.
Adopts(m) ==
  /\ session_id' = m.session /\ contract_id' = m.cid
  /\ session_id # None => contract_id = m.cid

EffectOf(m) ==
  /\ Adopts(m)
  /\ UNCHANGED agreement \/ Stores(m) \/ Accepts(m) \/ Rejects(m) \/ Resolves(m)

Effect ==
  \/ UNCHANGED <<identity, agreement>>
  \/ \E m \in Messages : EffectOf(m)

-----------------------------------------------------------------------------
(* A message of each type has the fields of its type. *)
LEMMA MessageFields ==
  ASSUME NEW m \in Messages
  PROVE  /\ m.session \in Sessions /\ m.cid \in ContractIds
         /\ m.type = "CONTRACT_PROPOSE" => m \in Proposals
         /\ m.type = "CONTRACT_ACCEPT" => m \in Acceptances
         /\ m.type = "RESOLVE_CONFLICT" => m \in Conflicts
BY MessagesAssumption DEF Proposals, Acceptances, Contexts, Plain, Conflicts

(* Turn passes only messages of the identity already fixed. *)
LEMMA TurnAdopts ==
  ASSUME NEW m \in Messages, NEW type, Turn(m, type)
  PROVE  Adopts(m)
BY DEF Turn, Adopts, IdentityIssues, When

(* A handled message has one of the effects. *)
LEMMA HandleShape ==
  ASSUME NEW m \in Messages, Handle(m) \/ Barred(m)
  PROVE  UNCHANGED <<identity, agreement>> \/ EffectOf(m)
<1>1. CASE Foreign(m) \/ Barred(m)
  BY <1>1 DEF Foreign, Barred, EffectOf
<1>2. CASE Propose(m)
  <2>1. Adopts(m) /\ m \in Proposals
    BY <1>2, TurnAdopts, MessageFields DEF Propose, Turn
  <2>2. CASE ProposalIssues(m) = {}
    <3>1. m.ref \in Ref /\ DerivesFromActive(m.ref)
      BY <2>2 DEF ProposalIssues, ValidRef, When
    <3>2. StoreProposal(m)
      BY <1>2, <2>2 DEF Propose
    <3>3. Stores(m)
      BY <1>2, <2>1, <3>1, <3>2 DEF Propose, Stores
    <3> QED BY <2>1, <3>3 DEF EffectOf
  <2>3. CASE ProposalIssues(m) # {}
    <3>1. UNCHANGED agreement
      BY <1>2, <2>3 DEF Propose, agreement
    <3> QED BY <2>1, <3>1 DEF EffectOf
  <2> QED BY <2>2, <2>3
<1>3. CASE Accept(m)
  <2>1. Adopts(m) /\ m \in Acceptances
    BY <1>3, TurnAdopts, MessageFields DEF Accept, Turn
  <2>2. Accepts(m) \/ Rejects(m) \/ UNCHANGED agreement
    BY <1>3, <2>1 DEF Accept, Accepts, Rejects, KeepDecisions, agreement
  <2> QED BY <2>1, <2>2 DEF EffectOf
<1>4. CASE ResolveConflict(m)
  <2>1. Adopts(m) /\ m \in Conflicts
    BY <1>4, TurnAdopts, MessageFields DEF ResolveConflict, Turn
  <2>2. Resolves(m) \/ UNCHANGED agreement
    BY <1>4, <2>1 DEF ResolveConflict, Resolves, agreement
  <2> QED BY <2>1, <2>2 DEF EffectOf
<1>5. CASE Context(m) \/ Action(m) \/ Error(m) \/ Other(m)
  <2>1. Adopts(m)
    BY <1>5, TurnAdopts DEF Context, Action, Error, Other
  <2>2. UNCHANGED agreement
    BY <1>5 DEF Context, Action, Error, Other
  <2> QED BY <2>1, <2>2 DEF EffectOf
<1> QED BY <1>1, <1>2, <1>3, <1>4, <1>5 DEF Handle

(* And so has every step. *)
LEMMA StepShape ==
  ASSUME [Next]_vars
  PROVE  Effect
<1>1. CASE UNCHANGED vars
  BY <1>1 DEF vars, Effect, identity, agreement
<1>2. ASSUME NEW m \in Messages, Handle(m) \/ Barred(m)
      PROVE  Effect
  BY <1>2, HandleShape DEF Effect
<1> QED BY <1>1, <1>2 DEF Next

-----------------------------------------------------------------------------
(* The issue codes of a step. *)
LEMMA RaisedCodes ==
  ASSUME Next
  PROVE  raised' \subseteq Codes
<1>1. \A c, code : code \in Codes => When(c, code) \subseteq Codes
  BY DEF When
<1>2. PICK m \in Messages : Handle(m) \/ Barred(m)
  BY DEF Next
<1>3. IdentityIssues(m) \subseteq Codes /\ ErrorIssues(m) \subseteq Codes
  BY <1>1 DEF IdentityIssues, ErrorIssues, Codes
<1>4. ProposalIssues(m) \subseteq Codes
  BY <1>1 DEF ProposalIssues, Codes
<1>5. CASE Foreign(m) \/ Barred(m) \/ Error(m) \/ Other(m)
  BY <1>3, <1>5 DEF Foreign, Barred, Error, Other
<1>6. CASE Propose(m)
  BY <1>4, <1>6 DEF Propose
<1>7. CASE Accept(m) \/ ResolveConflict(m)
  BY <1>7 DEF Accept, ResolveConflict, Codes
<1>8. CASE Context(m) \/ Action(m)
  BY <1>1, <1>8 DEF Context, Action, Codes
<1> QED BY <1>2, <1>5, <1>6, <1>7, <1>8 DEF Handle

(* References built from references. *)
LEMMA HeadIsRef ==
  ASSUME NEW r \in Ref
  PROVE  CurrentHead(r) \in Ref
BY DEF Ref, CurrentHead

(* What a proposal record says of itself is a binding. *)
LEMMA BindingIsBinding ==
  ASSUME NEW p \in ProposalRecord
  PROVE  BindingOf(p) \in Binding
BY DEF ProposalRecord, BindingOf, Binding

(* An acceptance that names a proposal exactly carries a well-formed tuple.  *)
LEMMA ExactTuple ==
  ASSUME TypeOK, NEW m \in Acceptances, NamesExactProposal(m)
  PROVE  /\ m.ref \in Ref
         /\ TupleOf(m) \in Tuple
         /\ TupleOf(m).accepted = m.accepted
         /\ TupleOf(m).binding.contract_ref = m.ref
         /\ m.proposal_message_id \in Stored
         /\ proposals[m.proposal_message_id].contract_ref = m.ref
<1> DEFINE p == proposals[m.proposal_message_id]
<1>1. m.proposal_message_id \in Ids /\ m.accepted \in AcceptedValues
  BY DEF Acceptances
<1>2. p \in ProposalRecord /\ p # None /\ m.ref = p.contract_ref
  BY <1>1 DEF TypeOK, NamesExactProposal
<1>3. BindingOf(p) \in Binding
  BY <1>2, BindingIsBinding
<1>4. BindingOf(p).contract_ref = m.ref
  BY <1>2 DEF BindingOf
<1>5. m.ref \in Ref
  BY <1>2 DEF ProposalRecord
<1> QED BY <1>1, <1>2, <1>3, <1>4, <1>5 DEF TupleOf, Tuple, Stored

(* A resolvable conflict selects a stored candidate that continues the head. *)
LEMMA ResolvedCandidate ==
  ASSUME TypeOK, NEW m \in Conflicts, Resolvable(m)
  PROVE  /\ m.ref \in Ref /\ DerivesFromActive(m.ref) /\ active_head # None
         /\ m.selected \in Binding /\ m.selected.contract_ref = m.ref
         /\ \E i \in Stored : proposals[i].contract_ref = m.ref
<1>1. PICK k \in 1 .. Len(m.candidates) : m.selected = m.candidates[k]
  BY DEF Resolvable
<1>2. m.candidates \in Seq(Binding) /\ m.selected \in Binding
  BY DEF Conflicts
<1>3. ExactCandidate(m, k)
  BY <1>1 DEF Resolvable
<1>4. m.candidates[k] \in Binding
  BY <1>1, <1>2
<1> DEFINE i == m.candidates[k].proposal_message_id
<1>5. i \in Stored /\ m.selected = BindingOf(proposals[i])
         /\ DerivesFromActive(proposals[i].contract_ref)
  BY <1>1, <1>3, <1>4 DEF ExactCandidate, Stored, Binding
<1>6. m.ref = proposals[i].contract_ref /\ m.selected.contract_ref = m.ref
  BY <1>5 DEF Resolvable, BindingOf
<1>7. m.ref \in Ref
  BY <1>2, <1>6 DEF Binding
<1> QED BY <1>2, <1>5, <1>6, <1>7 DEF Resolvable

-----------------------------------------------------------------------------
(* A step keeps the types of the agreement. *)
LEMMA TypeStep ==
  ASSUME TypeOK, [Next]_vars
  PROVE  TypeOK'
<1>1. raised' \subseteq Codes
  BY RaisedCodes DEF TypeOK, vars
<1>2. CASE UNCHANGED <<identity, agreement>>
  BY <1>1, <1>2 DEF TypeOK, identity, agreement
<1>3. ASSUME NEW m \in Messages, Adopts(m),
             UNCHANGED agreement \/ Stores(m) \/ Accepts(m) \/ Rejects(m) \/ Resolves(m)
      PROVE  TypeOK'
  <2>1. session_id' \in Sessions /\ contract_id' \in ContractIds
    BY <1>3, MessageFields DEF Adopts
  <2>2. CASE UNCHANGED agreement
    BY <1>1, <2>1, <2>2 DEF TypeOK, agreement
  <2>3. CASE Stores(m)
    <3>1. RecordOf(m) \in ProposalRecord /\ m.id \in Ids /\ m.hash \in Hashes
      BY <2>3 DEF Stores, Proposals, RecordOf, ProposalRecord
    <3>2. /\ proposals' \in [Ids -> ProposalRecord \cup {None}]
          /\ proposals_by_hash' \in [Hashes -> ProposalRecord \cup {None}]
      BY <2>3, <3>1 DEF TypeOK, Stores, StoreProposal
    <3>3. state' \in States
      BY <2>3 DEF Stores, StoreProposal, States
    <3> QED BY <1>1, <2>1, <2>3, <3>2, <3>3 DEF TypeOK, Stores
  <2>4. CASE Accepts(m)
    <3>1. m.ref \in Ref /\ TupleOf(m) \in Tuple
      BY <2>4, ExactTuple DEF Accepts
    <3>2. CurrentHead(m.ref) \in Ref
      BY <3>1, HeadIsRef
    <3> QED BY <1>1, <2>1, <2>4, <3>1, <3>2
            DEF TypeOK, Accepts, AcceptProposal, Activate, States
  <2>5. CASE Rejects(m)
    <3>1. TupleOf(m) \in Tuple
      BY <2>5, ExactTuple DEF Rejects
    <3> QED BY <1>1, <2>1, <2>5, <3>1 DEF TypeOK, Rejects, RejectProposal, States
  <2>6. CASE Resolves(m)
    <3>1. m.ref \in Ref /\ m.selected \in Binding
      BY <2>6, ResolvedCandidate DEF Resolves
    <3>2. CurrentHead(m.ref) \in Ref
      BY <3>1, HeadIsRef
    <3> QED BY <1>1, <2>1, <2>6, <3>1, <3>2 DEF TypeOK, Resolves, Activate, States
  <2> QED BY <1>3, <2>2, <2>3, <2>4, <2>5, <2>6
<1> QED BY <1>2, <1>3, StepShape DEF Effect, EffectOf

(* The reducer's state always has its declared types, whatever messages the  *)
(* transcript holds and in whatever order they come.                        *)
THEOREM Typing == Spec => []TypeOK
<1>1. Init => TypeOK
  BY DEF Init, TypeOK, States
<1>2. TypeOK /\ [Next]_vars => TypeOK'
  BY TypeStep
<1> QED BY <1>1, <1>2, PTL DEF Spec

-----------------------------------------------------------------------------
(* The inductive invariant. *)

\* Nothing is stored before the identity is fixed, and nothing is agreed before
\* there is a head.
Unstarted ==
  /\ session_id = None => Stored = {}
  /\ active_head = None => acceptance_tuples = {} /\ adopted = {}

HeadInHistory ==
  active_head # None => active_head.base = None /\ active_head \in adopted

IInv ==
  /\ TypeOK /\ Unstarted /\ HeadInHistory
  /\ OneInitialAgreement /\ OneBranch /\ AcceptedFollowAgreement
  /\ CandidatesFollowAgreement /\ HeadHasEvidence /\ StateIsObservable

Safe == OneInitialAgreement /\ OneBranch /\ AcceptedFollowAgreement
          /\ CandidatesFollowAgreement /\ HeadHasEvidence /\ StateIsObservable

(* The base of a reference that continues the active head is that head.      *)
LEMMA BaseIsActive ==
  ASSUME TypeOK, HeadInHistory, NEW r \in Ref, DerivesFromActive(r), r.base # None
  PROVE  active_head # None /\ BaseHead(r) = active_head /\ BaseHead(r) \in adopted
<1>1. active_head # None /\ r.branch = active_head.branch /\ r.base = active_head.head
  BY DEF DerivesFromActive
<1>2. active_head \in Ref /\ active_head.base = None /\ active_head \in adopted
  BY <1>1 DEF TypeOK, HeadInHistory
<1>3. active_head = [branch |-> active_head.branch, base |-> active_head.base,
                     head |-> active_head.head]
  BY <1>2 DEF Ref
<1> QED BY <1>1, <1>2, <1>3 DEF BaseHead

(* A step that touches neither agreement nor stored contracts.               *)
LEMMA QuietStep ==
  ASSUME IInv, TypeOK', UNCHANGED agreement,
         Stored # {} => contract_id' = contract_id,
         session_id' = None => session_id = None
  PROVE  IInv'
<1>1. Unstarted' /\ HeadInHistory'
  BY DEF IInv, agreement, Unstarted, HeadInHistory, Stored
<1>2. OneInitialAgreement' /\ OneBranch' /\ AcceptedFollowAgreement' /\ HeadHasEvidence'
  BY DEF IInv, agreement, OneInitialAgreement, OneBranch, AcceptedFollowAgreement,
         HeadHasEvidence, Accepted
<1>3. CandidatesFollowAgreement'
  BY DEF IInv, agreement, CandidatesFollowAgreement, Stored
<1>4. StateIsObservable'
  BY DEF IInv, agreement, StateIsObservable, Live, Stored, DerivesFromActive
<1> QED BY <1>1, <1>2, <1>3, <1>4 DEF IInv

(* Storing a candidate. *)
LEMMA StoreStep ==
  ASSUME IInv, TypeOK', NEW m \in Messages, Adopts(m), Stores(m)
  PROVE  IInv'
<1>1. /\ m.id \in Ids /\ m.ref \in Ref /\ DerivesFromActive(m.ref)
      /\ proposals' = [proposals EXCEPT ![m.id] = RecordOf(m)]
      /\ UNCHANGED <<active_head, acceptance_tuples, adopted, selected_conflict_result>>
      /\ session_id' \in Sessions
  BY MessageFields DEF Stores, StoreProposal, Proposals, Adopts
<1>2. /\ RecordOf(m) \in ProposalRecord /\ RecordOf(m) # None
      /\ RecordOf(m).contract_ref = m.ref /\ RecordOf(m).contract_id = m.cid
  BY MessagesAssumption DEF Stores, Proposals, RecordOf, ProposalRecord
<1>3. proposals \in [Ids -> ProposalRecord \cup {None}]
  BY DEF IInv, TypeOK
<1>4. /\ proposals'[m.id] = RecordOf(m)
      /\ \A i \in Ids \ {m.id} : proposals'[i] = proposals[i]
  BY <1>1, <1>3
<1>5. Stored' = Stored \cup {m.id}
  BY <1>1, <1>2, <1>4 DEF Stored
<1>6. Unstarted' /\ HeadInHistory'
  BY <1>1, MessagesAssumption DEF IInv, Unstarted, HeadInHistory
<1>7. OneInitialAgreement' /\ OneBranch' /\ AcceptedFollowAgreement' /\ HeadHasEvidence'
  BY <1>1 DEF IInv, OneInitialAgreement, OneBranch, AcceptedFollowAgreement,
         HeadHasEvidence, Accepted
<1>8. CandidatesFollowAgreement'
  <2>1. SUFFICES ASSUME NEW i \in Stored'
                 PROVE  /\ proposals'[i].contract_id = contract_id'
                        /\ proposals'[i].contract_ref.base # None
                             => BaseHead(proposals'[i].contract_ref) \in adopted'
    BY DEF CandidatesFollowAgreement
  <2>2. CASE i = m.id
    <3>1. m.ref.base # None => BaseHead(m.ref) \in adopted
      BY <1>1, BaseIsActive DEF IInv
    <3> QED BY <1>1, <1>2, <1>4, <2>2, <3>1 DEF Adopts
  <2>3. CASE i # m.id
    <3>1. i \in Stored /\ proposals'[i] = proposals[i]
      BY <1>4, <1>5, <2>3 DEF Stored
    <3>2. contract_id' = contract_id
      BY <3>1 DEF IInv, Unstarted, Adopts
    <3> QED BY <1>1, <3>1, <3>2 DEF IInv, CandidatesFollowAgreement
  <2> QED BY <2>2, <2>3
<1>9. StateIsObservable'
  <2> DEFINE b == m.ref.branch
             siblings == Siblings(proposals', m.ref)
  <2>1. /\ b \in Branches /\ m.id \in Stored'
        /\ IF active_head = None THEN m.ref.base = None
           ELSE b = active_head.branch /\ m.ref.base = active_head.head
    BY <1>1, <1>5 DEF Ref, DerivesFromActive
  <2>2. siblings = Live(b)'
    <3>1. \A i \in Ids : i \in siblings <=>
            /\ i \in Stored' /\ proposals'[i].contract_ref.branch = b
            /\ proposals'[i].contract_ref.base = m.ref.base
      BY DEF Siblings, Stored
    <3>2. \A i \in Ids : i \in Live(b)' <=>
            /\ i \in Stored' /\ proposals'[i].contract_ref.branch = b
            /\ IF active_head = None THEN proposals'[i].contract_ref.base = None
               ELSE /\ proposals'[i].contract_ref.branch = active_head.branch
                    /\ proposals'[i].contract_ref.base = active_head.head
      BY <1>1 DEF Live, Stored, DerivesFromActive
    <3>3. siblings \subseteq Ids /\ Live(b)' \subseteq Ids
      BY DEF Siblings, Live, Stored
    <3> QED BY <2>1, <3>1, <3>2, <3>3
  <2>3. m.id \in siblings
    BY <1>1, <1>2, <1>4 DEF Siblings
  <2>4. state' = IF siblings = {m.id} THEN "CANDIDATE_PROPOSED" ELSE "COMPETING_CANDIDATES"
    BY DEF Stores, StoreProposal
  <2> HIDE DEF b, siblings
  <2>5. state' = "COMPETING_CANDIDATES" => \E i, j \in Live(b)' : i # j
    BY <2>2, <2>3, <2>4
  <2>6. state' = "CANDIDATE_PROPOSED" => Live(b)' = {m.id}
    BY <2>2, <2>4
  <2> QED BY <2>1, <2>4, <2>5, <2>6 DEF StateIsObservable
<1> QED BY <1>6, <1>7, <1>8, <1>9 DEF IInv

(* Moving the head to a candidate that continues it, with its evidence.      *)
LEMMA ActivateStep ==
  ASSUME IInv, TypeOK', NEW r \in Ref, DerivesFromActive(r), Activate(r),
         UNCHANGED <<proposals, contract_id>>, session_id' # None,
         \/ /\ Accepted' = Accepted \cup {r} /\ state' = "ACTIVE_HEAD"
            /\ UNCHANGED selected_conflict_result
         \/ /\ Accepted' = Accepted /\ state' = "CONFLICT_RESOLVED"
            /\ selected_conflict_result' # None
            /\ selected_conflict_result'.contract_ref = r /\ active_head # None
  PROVE  IInv'
<1>1. /\ active_head' = CurrentHead(r) /\ adopted' = adopted \cup {CurrentHead(r)}
      /\ CurrentHead(r) \in Ref /\ CurrentHead(r).base = None
      /\ CurrentHead(r).branch = r.branch /\ CurrentHead(r) # None
  BY MessagesAssumption, HeadIsRef DEF Activate, CurrentHead
<1>2. r.base # None => BaseHead(r) \in adopted
  BY BaseIsActive DEF IInv
<1>3. active_head # None => r.branch = active_head.branch /\ r.base # None
  BY MessagesAssumption DEF DerivesFromActive, IInv, TypeOK, Ref
<1>4. active_head = None => r.base = None /\ Accepted = {} /\ adopted = {}
  BY DEF DerivesFromActive, IInv, Unstarted, Accepted
<1>5. Unstarted' /\ HeadInHistory'
  BY <1>1 DEF Unstarted, HeadInHistory
<1>6. OneInitialAgreement'
  BY <1>3, <1>4 DEF IInv, OneInitialAgreement
<1>7. OneBranch'
  BY <1>1, <1>3, <1>4 DEF IInv, OneBranch
<1>8. AcceptedFollowAgreement'
  BY <1>1, <1>2 DEF IInv, AcceptedFollowAgreement
<1>9. CandidatesFollowAgreement'
  BY <1>1 DEF IInv, CandidatesFollowAgreement, Stored
<1>10. HeadHasEvidence' /\ StateIsObservable'
  BY <1>1 DEF HeadHasEvidence, StateIsObservable
<1> QED BY <1>5, <1>6, <1>7, <1>8, <1>9, <1>10 DEF IInv

(* A rejection moves nothing but the rejected tuples and the state.          *)
LEMMA RejectStep ==
  ASSUME IInv, TypeOK', NEW m \in Messages, Adopts(m), Rejects(m)
  PROVE  IInv'
<1>1. /\ UNCHANGED <<active_head, adopted, acceptance_tuples, proposals,
                     selected_conflict_result>>
      /\ state' = IF active_head = None THEN "NO_ACTIVE_CONTRACT" ELSE "ACTIVE_HEAD"
      /\ session_id' \in Sessions
  BY MessageFields DEF Rejects, RejectProposal, Adopts
<1>2. contract_id' = contract_id
  <2>1. m.proposal_message_id \in Stored
    BY ExactTuple DEF Rejects, IInv
  <2> QED BY <2>1 DEF IInv, Unstarted, Adopts
<1>3. Unstarted' /\ HeadInHistory'
  BY <1>1, MessagesAssumption DEF IInv, Unstarted, HeadInHistory
<1>4. OneInitialAgreement' /\ OneBranch' /\ AcceptedFollowAgreement' /\ HeadHasEvidence'
  BY <1>1 DEF IInv, OneInitialAgreement, OneBranch, AcceptedFollowAgreement,
         HeadHasEvidence, Accepted
<1>5. CandidatesFollowAgreement' /\ StateIsObservable'
  BY <1>1, <1>2 DEF IInv, CandidatesFollowAgreement, StateIsObservable, Stored
<1> QED BY <1>3, <1>4, <1>5 DEF IInv

LEMMA InvariantStep ==
  ASSUME IInv, [Next]_vars
  PROVE  IInv'
<1>1. TypeOK /\ TypeOK'
  BY TypeStep DEF IInv
<1>2. CASE UNCHANGED <<identity, agreement>>
  BY <1>1, <1>2, QuietStep DEF identity
<1>3. ASSUME NEW m \in Messages, Adopts(m),
             UNCHANGED agreement \/ Stores(m) \/ Accepts(m) \/ Rejects(m) \/ Resolves(m)
      PROVE  IInv'
  <2>1. /\ Stored # {} => contract_id' = contract_id
        /\ session_id' # None
    BY <1>3, MessageFields, MessagesAssumption DEF IInv, Unstarted, Adopts
  <2>2. CASE UNCHANGED agreement
    BY <1>1, <2>1, <2>2, QuietStep
  <2>3. CASE Stores(m)
    BY <1>1, <1>3, <2>3, StoreStep
  <2>4. CASE Accepts(m)
    <3>1. m.ref \in Ref /\ TupleOf(m).binding.contract_ref = m.ref
            /\ m.proposal_message_id \in Stored
      BY <1>1, <2>4, ExactTuple DEF Accepts
    <3>2. Accepted' = Accepted \cup {m.ref}
      BY <2>4, <3>1 DEF Accepts, AcceptProposal, Accepted
    <3> QED BY <1>1, <2>1, <2>4, <3>1, <3>2, ActivateStep
            DEF Accepts, AcceptProposal
  <2>5. CASE Rejects(m)
    BY <1>1, <1>3, <2>5, RejectStep
  <2>6. CASE Resolves(m)
    <3>1. /\ m.ref \in Ref /\ DerivesFromActive(m.ref) /\ active_head # None
          /\ m.selected \in Binding /\ m.selected.contract_ref = m.ref
          /\ Stored # {}
      BY <1>1, <2>6, ResolvedCandidate DEF Resolves
    <3>2. Accepted' = Accepted
      BY <2>6 DEF Resolves, Accepted
    <3>3. m.selected # None
      BY <3>1, MessagesAssumption
    <3> QED BY <1>1, <2>1, <2>6, <3>1, <3>2, <3>3, ActivateStep DEF Resolves
  <2> QED BY <1>3, <2>2, <2>3, <2>4, <2>5, <2>6
<1> QED BY <1>2, <1>3, StepShape DEF Effect, EffectOf

(* Agreement is one history: at most one initial version is ever accepted,   *)
(* everything stays on one branch, every candidate and every acceptance      *)
(* continues a head that was agreed before, the active head has its evidence *)
(* on record, and the observable state agrees with head and candidates.      *)
THEOREM Agreement == Spec => []Safe
<1>1. Init => IInv
  BY DEF Init, IInv, TypeOK, States, Unstarted, HeadInHistory, OneInitialAgreement,
         OneBranch, AcceptedFollowAgreement, CandidatesFollowAgreement,
         HeadHasEvidence, StateIsObservable, Accepted, Stored
<1>2. IInv /\ [Next]_vars => IInv'
  BY InvariantStep
<1>3. IInv => Safe
  BY DEF IInv, Safe
<1> QED BY <1>1, <1>2, <1>3, PTL DEF Spec

(* At most one initial version is ever agreed by acceptance.                 *)
THEOREM InitialAgreement == Spec => []OneInitialAgreement
<1>1. Safe => OneInitialAgreement
  BY DEF Safe
<1> QED BY <1>1, Agreement, PTL

(* No transition is accepted whose base was not agreed before.               *)
THEOREM History == Spec => []AcceptedFollowAgreement
<1>1. Safe => AcceptedFollowAgreement
  BY DEF Safe
<1> QED BY <1>1, Agreement, PTL

(* The active head always has an exact acceptance or a selected conflict     *)
(* result on record.                                                         *)
THEOREM Evidence == Spec => []HeadHasEvidence
<1>1. Safe => HeadHasEvidence
  BY DEF Safe
<1> QED BY <1>1, Agreement, PTL

(* The contract never leaves its branch.                                     *)
THEOREM Branch == Spec => []OneBranch
<1>1. Safe => OneBranch
  BY DEF Safe
<1> QED BY <1>1, Agreement, PTL

(* Every stored candidate is one of the transcript's contract, and its base, *)
(* if it has one, is among the heads that were adopted.                      *)
THEOREM Candidacy == Spec => []CandidatesFollowAgreement
<1>1. Safe => CandidatesFollowAgreement
  BY DEF Safe
<1> QED BY <1>1, Agreement, PTL

(* The label the machine reports agrees with the data it keeps: with the     *)
(* candidates that are live on one branch, alone or competing there, and with*)
(* the head.                                                                 *)
THEOREM Observation == Spec => []StateIsObservable
<1>1. Safe => StateIsObservable
  BY DEF Safe
<1> QED BY <1>1, Agreement, PTL

-----------------------------------------------------------------------------
(* The reducer implements ExactHead. *)

Candidates == {proposals[i].contract_ref : i \in Stored}

(* A step that stores a candidate offers it.                                 *)
LEMMA StoreOffers ==
  ASSUME TypeOK, NEW m, Stores(m)
  PROVE  Promise!Offer(m.ref)
<1>1. /\ m.id \in Ids /\ proposals' = [proposals EXCEPT ![m.id] = RecordOf(m)]
      /\ RecordOf(m) \in ProposalRecord /\ RecordOf(m).contract_ref = m.ref
  BY DEF Stores, StoreProposal, Proposals, RecordOf, ProposalRecord
<1>2. RecordOf(m) # None
  BY <1>1, MessagesAssumption
<1>3. /\ proposals'[m.id] = RecordOf(m)
      /\ \A i \in Ids \ {m.id} : proposals'[i] = proposals[i]
  BY <1>1 DEF TypeOK
<1>4. Stored' = Stored \cup {m.id}
  BY <1>1, <1>2, <1>3 DEF Stored
<1>5. Candidates' \subseteq Candidates \cup {m.ref} /\ m.ref \in Candidates'
  BY <1>1, <1>3, <1>4 DEF Candidates, Stored
<1>6. Promise!Continues(m.ref)
  BY DEF Stores, DerivesFromActive, Promise!Continues
<1> QED BY <1>5, <1>6 DEF Promise!Offer, Candidates, Stores

(* A step that moves the head along a stored candidate decides for it.       *)
LEMMA ActivateDecides ==
  ASSUME NEW r \in Ref, DerivesFromActive(r), Activate(r), UNCHANGED proposals,
         NEW i \in Stored, proposals[i].contract_ref = r
  PROVE  Promise!Decide(r)
<1>1. Candidates' = Candidates /\ r \in Candidates
  BY DEF Candidates, Stored
<1>2. Promise!Continues(r)
  BY DEF DerivesFromActive, Promise!Continues
<1> QED BY <1>1, <1>2 DEF Promise!Decide, Candidates, Activate, CurrentHead

LEMMA PromiseStep ==
  ASSUME TypeOK, [Next]_vars
  PROVE  [Promise!Next]_(Promise!vars)
<1>1. CASE UNCHANGED <<active_head, proposals>>
  BY <1>1 DEF Promise!vars, Stored
<1>2. ASSUME NEW m \in Messages, Stores(m) \/ Accepts(m) \/ Rejects(m) \/ Resolves(m)
      PROVE  Promise!Next \/ UNCHANGED <<active_head, proposals>>
  <2>1. CASE Stores(m)
    <3>1. m.ref \in Ref
      BY <2>1 DEF Stores
    <3> QED BY <2>1, <3>1, StoreOffers DEF Promise!Next
  <2>2. CASE Accepts(m)
    <3>1. m.ref \in Ref /\ m.proposal_message_id \in Stored
            /\ proposals[m.proposal_message_id].contract_ref = m.ref
      BY <2>2, ExactTuple DEF Accepts
    <3>2. Promise!Decide(m.ref)
      BY <2>2, <3>1, ActivateDecides DEF Accepts, AcceptProposal
    <3> QED BY <3>1, <3>2 DEF Promise!Next
  <2>3. CASE Resolves(m)
    <3>1. PICK i \in Stored : proposals[i].contract_ref = m.ref
      BY <2>3, ResolvedCandidate DEF Resolves
    <3>2. m.ref \in Ref /\ DerivesFromActive(m.ref)
      BY <2>3, ResolvedCandidate DEF Resolves
    <3>3. Promise!Decide(m.ref)
      BY <2>3, <3>1, <3>2, ActivateDecides DEF Resolves
    <3> QED BY <3>2, <3>3 DEF Promise!Next
  <2>4. CASE Rejects(m)
    BY <2>4 DEF Rejects, RejectProposal
  <2> QED BY <1>2, <2>1, <2>2, <2>3, <2>4
<1> QED BY <1>1, <1>2, StepShape DEF Effect, EffectOf, agreement

(* The reducer implements the promise of ExactHead: the head moves only      *)
(* along a stored candidate that continues it exactly, and a transition      *)
(* becomes a candidate only while its base is exactly the head.              *)
THEOREM Refinement == Spec => KeepsPromise
<1>1. Init => Promise!Init
  BY DEF Init, Promise!Init, Stored
<1>2. TypeOK /\ [Next]_vars => [Promise!Next]_(Promise!vars)
  BY PromiseStep
<1> QED BY <1>1, <1>2, Typing, PTL DEF Spec, KeepsPromise, Promise!Spec
=============================================================================
