------------------------------- MODULE Capneg -------------------------------
(***************************************************************************)
(* The CAPNEG v0.2 reducer (reference/python/aicp_ref_capneg_v02/          *)
(* state_machine.py, CapnegV02Reducer): parties declare capabilities, one  *)
(* of them proposes a negotiation result, every participant accepts it or  *)
(* somebody rejects it, a proposal is revised, an accepted negotiation is  *)
(* superseded by another one, and a contract is bound to what was accepted.*)
(*                                                                         *)
(* A negotiation result stands for its canonical hash and for the message  *)
(* that proposed it: the revision is part of the result and at most one    *)
(* proposal of a revision is ever stored.  The session and the contract of *)
(* a result are one value, its context.  A profile composition is a value; *)
(* what a declaration says of profiles, crypto, extensions, policies and   *)
(* limits is the set of compositions it can take part in.  The checks that *)
(* look at one message alone (canonical order, recomputed hashes, a        *)
(* resolvable composition, a registered reason) are its field sound.       *)
(***************************************************************************)
EXTENDS Naturals, FiniteSets

CONSTANTS
  Negotiations,     \* negotiation_id values
  Parties,
  CapabilitiesIds,
  DeclarationIds,   \* the messages that declare
  Compositions,
  Authenticated,    \* compositions that require signed acceptances
  Contexts,         \* (session_id, contract_id) pairs
  None,
  CryptoAvailable,  \* whether signatures can be verified at all
  MaxRevision,      \* bound: revisions of a negotiation
  Declarations,     \* the declarations that may be sent
  Results           \* the negotiation results that may be proposed

Declaration ==
  [id : DeclarationIds, sender : Parties, party_id : Parties,
   capabilities_id : CapabilitiesIds, supersedes : CapabilitiesIds \cup {None},
   supports : SUBSET Compositions, sound : BOOLEAN]

\* bindings maps each participant to the declaration the result was built on.
Result ==
  [negotiation_id : Negotiations, revision : Nat, context : Contexts,
   participants : SUBSET Parties, bindings : [Parties -> DeclarationIds \cup {None}],
   composition : Compositions, supersedes : Negotiations \cup {None}]

NegotiationStates == {"PROPOSED", "REVISION_PROPOSED", "PARTIALLY_ACCEPTED",
                      "ACCEPTED", "REJECTED", "SUPERSEDED"}

Negotiation ==
  [state : NegotiationStates, result : Result, acceptances : SUBSET Parties,
   rejections : SUBSET Parties, accepted : Result \cup {None},
   superseded_by : Negotiations \cup {None}]

ASSUME CapnegAssumption ==
  /\ Authenticated \subseteq Compositions
  /\ CryptoAvailable \in BOOLEAN
  /\ MaxRevision \in Nat
  /\ Declarations \subseteq Declaration
  /\ Results \subseteq Result
  /\ None \notin Declaration \cup Negotiation \cup Results \cup Negotiations \cup Parties

VARIABLES
  latest_declarations,   \* by party, or None
  capabilities_ids,      \* the party that declared an id, for good
  negotiations,          \* by negotiation id, or None
  active_negotiation_id, \* the last one proposed
  bound_contracts,       \* contexts whose contract was bound to a negotiation
  outcome                \* of the last message: applied, replayed or refused

vars == <<latest_declarations, capabilities_ids, negotiations,
          active_negotiation_id, bound_contracts, outcome>>
reduced == <<latest_declarations, capabilities_ids, negotiations,
             active_negotiation_id, bound_contracts>>

\* A message that raises an issue changes nothing.
Refuse == outcome' = "refused" /\ UNCHANGED reduced

-----------------------------------------------------------------------------
(* CAPABILITIES_DECLARE *)

DeclarationValid(d) ==
  LET latest == latest_declarations[d.party_id] IN
  /\ d.sound /\ d.party_id = d.sender
  /\ capabilities_ids[d.capabilities_id] = None
  /\ d.supersedes = IF latest = None THEN None ELSE latest.capabilities_id

Declare(d) ==
  /\ DeclarationValid(d)
  /\ latest_declarations' = [latest_declarations EXCEPT ![d.party_id] = d]
  /\ capabilities_ids' = [capabilities_ids EXCEPT ![d.capabilities_id] = d.party_id]
  /\ outcome' = "applied"
  /\ UNCHANGED <<negotiations, active_negotiation_id, bound_contracts>>

DeclareRefused(d) == ~DeclarationValid(d) /\ Refuse

-----------------------------------------------------------------------------
(* Contexts and their accepted roots. *)

SameContext(r1, r2) == r1.context = r2.context /\ r1.participants = r2.participants

Known == {n \in Negotiations : negotiations[n] # None}

IsRoot(n) ==
  /\ n \in Known
  /\ negotiations[n].state = "ACCEPTED" /\ negotiations[n].superseded_by = None

CurrentRoots(result) ==
  {n \in Negotiations : IsRoot(n) /\ SameContext(negotiations[n].result, result)}

\* _accepted_root_issues: no ambiguity, and a rival of the root names a
\* predecessor (which one is checked by the caller).
RootAllows(result) ==
  LET roots == CurrentRoots(result) IN
  /\ \A n, k \in roots : n = k
  /\ roots \subseteq {result.negotiation_id} \/ result.supersedes # None

\* Every participant's bound declaration is its latest one.
BindingsCurrent(result) ==
  \A p \in result.participants :
    /\ latest_declarations[p] # None
    /\ latest_declarations[p].id = result.bindings[p]

-----------------------------------------------------------------------------
(* CAPABILITIES_PROPOSE *)

SelectionSupported(result) ==
  \A p \in result.participants : result.composition \in latest_declarations[p].supports

\* The first revision of a negotiation may name an accepted one to supersede.
StartAllowed(result, prior) ==
  /\ result.revision = 1 /\ prior = None
  /\ RootAllows(result)
  /\ result.supersedes # None =>
       /\ IsRoot(result.supersedes)
       /\ SameContext(negotiations[result.supersedes].result, result)

\* Mutant: what was accepted may be revised.
RevisedAnytime(result, prior) ==
  LET existing == negotiations[result.negotiation_id] IN
  result.revision = existing.result.revision + 1 /\ prior = existing.result

\* A revision is not compared with the root, and its supersession is free.
RevisionAllowed(result, prior) ==
  LET existing == negotiations[result.negotiation_id] IN
  /\ existing.state # "ACCEPTED"
  /\ result.revision = existing.result.revision + 1 /\ prior = existing.result

\* prior is the proposal that the message says it replaces.
ProposalValid(sender, result, prior, sound) ==
  /\ sound
  /\ Cardinality(result.participants) >= 2 /\ sender \in result.participants
  /\ BindingsCurrent(result) /\ SelectionSupported(result)
  /\ IF result.negotiation_id \in Known
     THEN RevisionAllowed(result, prior) ELSE StartAllowed(result, prior)

\* What a revision keeps of the negotiation it replaces.
Kept(n, field) ==
  IF n \notin Known THEN None
  ELSE IF field = "accepted" THEN negotiations[n].accepted
  ELSE negotiations[n].superseded_by

Propose(sender, result, prior, sound) ==
  LET n == result.negotiation_id IN
  /\ result.revision <= MaxRevision
  /\ ProposalValid(sender, result, prior, sound)
  /\ negotiations' = [negotiations EXCEPT ![n] =
       [state |-> IF result.revision = 1 THEN "PROPOSED" ELSE "REVISION_PROPOSED",
        result |-> result, acceptances |-> {}, rejections |-> {},
        accepted |-> Kept(n, "accepted"), superseded_by |-> Kept(n, "superseded_by")]]
  /\ active_negotiation_id' = n
  /\ outcome' = "applied"
  /\ UNCHANGED <<latest_declarations, capabilities_ids, bound_contracts>>

ProposeRefused(sender, result, prior, sound) ==
  ~ProposalValid(sender, result, prior, sound) /\ Refuse

-----------------------------------------------------------------------------
(* Decisions: CAPABILITIES_ACCEPT and CAPABILITIES_REJECT *)

\* Mutant: the predecessor is only checked when the proposal is made.
PredecessorOnce(result) == result.supersedes # None => result.supersedes \in Known

\* Mutant: a predecessor already replaced by this successor is not recognised.
PredecessorUnreplaced(result) ==
  result.supersedes # None =>
    IsRoot(result.supersedes) /\ SameContext(negotiations[result.supersedes].result, result)

\* The named predecessor is the current root, or this very successor already
\* replaced it.
PredecessorAllows(result) ==
  LET prior == negotiations[result.supersedes] IN
  result.supersedes # None =>
    /\ result.supersedes \in Known
    /\ \/ IsRoot(result.supersedes)
       \/ prior.state = "SUPERSEDED" /\ prior.superseded_by = result.negotiation_id
    /\ SameContext(prior.result, result)

\* Mutant: only the sender's declaration has to be the latest one.
DecisionOnSender(sender, result, context) ==
  /\ result.negotiation_id \in Known
  /\ result = negotiations[result.negotiation_id].result
  /\ sender \in result.participants
  /\ context = result.context
  /\ latest_declarations[sender].id = result.bindings[sender]
  /\ RootAllows(result)
  /\ PredecessorAllows(result)

\* _current_negotiation: the decision names exactly the current proposal, which
\* still stands on the latest declarations and on the accepted root.
DecisionCurrent(sender, result, context) ==
  /\ result.negotiation_id \in Known
  /\ result = negotiations[result.negotiation_id].result
  /\ sender \in result.participants
  /\ context = result.context
  /\ BindingsCurrent(result)
  /\ RootAllows(result)
  /\ PredecessorAllows(result)

\* signature is "none", "valid" or "invalid".
SignatureAllows(result, signature) ==
  /\ result.composition \in Authenticated => signature # "none"
  /\ signature # "invalid"
  /\ signature = "valid" => CryptoAvailable

\* Mutant: a rejected revision still takes acceptances from the others.
AcceptanceAnytime(sender, result, context, signature) ==
  /\ DecisionCurrent(sender, result, context)
  /\ SignatureAllows(result, signature)
  /\ sender \notin negotiations[result.negotiation_id].rejections

AcceptanceValid(sender, result, context, signature) ==
  /\ DecisionCurrent(sender, result, context)
  /\ SignatureAllows(result, signature)
  /\ negotiations[result.negotiation_id].state # "REJECTED"
  /\ sender \notin negotiations[result.negotiation_id].rejections

Accepted(n, given) ==
  [negotiations[n] EXCEPT !.state = "ACCEPTED", !.accepted = negotiations[n].result,
                          !.acceptances = given]

\* Mutant: the whole successor is stored instead of its identifier.
SupersededByRecord(n, successor) ==
  [negotiations[n] EXCEPT !.state = "SUPERSEDED",
                          !.superseded_by = negotiations[successor]]

\* Mutant: the identifier of the predecessor is stored.
SupersededBySelf(n, successor) ==
  [negotiations[n] EXCEPT !.state = "SUPERSEDED",
     !.superseded_by = negotiations[successor].result.supersedes]

Superseded(n, successor) ==
  [negotiations[n] EXCEPT !.state = "SUPERSEDED", !.superseded_by = successor]

\* The last missing acceptance: the result is accepted and, in the same step,
\* the negotiation it names is superseded.
Complete(result, given) ==
  LET n == result.negotiation_id
      s == result.supersedes IN
  negotiations' =
    [k \in Negotiations |->
       IF k = s /\ k \in Known THEN Superseded(k, n)
       ELSE IF k = n THEN Accepted(n, given) ELSE negotiations[k]]

Accept(sender, result, context, signature) ==
  LET n == result.negotiation_id
      given == negotiations[n].acceptances \cup {sender} IN
  /\ AcceptanceValid(sender, result, context, signature)
  /\ sender \notin negotiations[n].acceptances
  /\ \/ given = result.participants /\ Complete(result, given)
     \/ /\ given # result.participants
        /\ negotiations' = [negotiations EXCEPT ![n].acceptances = given,
                                                ![n].state = "PARTIALLY_ACCEPTED"]
  /\ outcome' = "applied"
  /\ UNCHANGED <<latest_declarations, capabilities_ids, active_negotiation_id,
                 bound_contracts>>

\* A repeated acceptance changes nothing; it is an issue only if it differs.
AcceptReplayed(sender, result, context, signature) ==
  /\ AcceptanceValid(sender, result, context, signature)
  /\ sender \in negotiations[result.negotiation_id].acceptances
  /\ outcome' \in {"replayed", "refused"} /\ UNCHANGED reduced

AcceptRefused(sender, result, context, signature) ==
  ~AcceptanceValid(sender, result, context, signature) /\ Refuse

\* Mutant: a participant may reject what it accepted.
RejectionAnytime(sender, result, context, sound) ==
  DecisionCurrent(sender, result, context) /\ sound

RejectionValid(sender, result, context, sound) ==
  /\ DecisionCurrent(sender, result, context)
  /\ sound
  /\ sender \notin negotiations[result.negotiation_id].acceptances

Reject(sender, result, context, sound) ==
  LET n == result.negotiation_id IN
  /\ RejectionValid(sender, result, context, sound)
  /\ sender \notin negotiations[n].rejections
  /\ negotiations' = [negotiations EXCEPT ![n].rejections = @ \cup {sender},
                                          ![n].state = "REJECTED"]
  /\ outcome' = "applied"
  /\ UNCHANGED <<latest_declarations, capabilities_ids, active_negotiation_id,
                 bound_contracts>>

\* A repeated rejection changes nothing; it is an issue only if it differs.
RejectRepeated(sender, result, context, sound) ==
  /\ RejectionValid(sender, result, context, sound)
  /\ sender \in negotiations[result.negotiation_id].rejections
  /\ outcome' \in {"replayed", "refused"} /\ UNCHANGED reduced

RejectRefused(sender, result, context, sound) ==
  ~RejectionValid(sender, result, context, sound) /\ Refuse

-----------------------------------------------------------------------------
(* CONTRACT_PROPOSE with contract.ext.capneg_v2, validate_contract_binding *)

\* Mutant: a contract only has to quote an accepted result.
BindingQuotes(n, result, composition, context) ==
  /\ n \in Known
  /\ context = negotiations[n].result.context
  /\ result = negotiations[n].accepted
  /\ composition = negotiations[n].accepted.composition

BindingValid(n, result, composition, context) ==
  /\ n \in Known
  /\ negotiations[n].state = "ACCEPTED"
  /\ \A k \in CurrentRoots(negotiations[n].result) : k = n
  /\ context = negotiations[n].result.context
  /\ result = negotiations[n].accepted
  /\ composition = negotiations[n].accepted.composition
  /\ composition = negotiations[n].result.composition

BindContract(n, result, composition, context) ==
  /\ BindingValid(n, result, composition, context)
  /\ bound_contracts' = bound_contracts \cup {context}
  /\ outcome' = "applied"
  /\ UNCHANGED <<latest_declarations, capabilities_ids, negotiations,
                 active_negotiation_id>>

BindRefused(n, result, composition, context) ==
  ~BindingValid(n, result, composition, context) /\ Refuse

\* A message that fails the validity barrier, of another CAPNEG version, or a
\* contract without a binding.
Barred == Refuse

-----------------------------------------------------------------------------
Init ==
  /\ latest_declarations = [p \in Parties |-> None]
  /\ capabilities_ids = [c \in CapabilitiesIds |-> None]
  /\ negotiations = [n \in Negotiations |-> None]
  /\ active_negotiation_id = None
  /\ bound_contracts = {}
  /\ outcome = "applied"

Next ==
  \/ \E d \in Declarations : Declare(d) \/ DeclareRefused(d)
  \/ \E s \in Parties, r \in Results, sound \in BOOLEAN,
        prior \in {None} \cup {negotiations[k].result : k \in Known} :
       Propose(s, r, prior, sound) \/ ProposeRefused(s, r, prior, sound)
  \/ \E s \in Parties, r \in Results, c \in Contexts,
        signature \in {"none", "valid", "invalid"} :
       \/ Accept(s, r, c, signature)
       \/ AcceptReplayed(s, r, c, signature)
       \/ AcceptRefused(s, r, c, signature)
  \/ \E s \in Parties, r \in Results, c \in Contexts, sound \in BOOLEAN :
       \/ Reject(s, r, c, sound)
       \/ RejectRepeated(s, r, c, sound)
       \/ RejectRefused(s, r, c, sound)
  \/ \E n \in Negotiations, r \in Results, p \in Compositions, c \in Contexts :
       BindContract(n, r, p, c) \/ BindRefused(n, r, p, c)
  \/ Barred

Spec == Init /\ [][Next]_vars

-----------------------------------------------------------------------------
(* Properties *)

\* The reducer's fields hold values of their types.
TypeOK ==
  /\ latest_declarations \in [Parties -> Declaration \cup {None}]
  /\ capabilities_ids \in [CapabilitiesIds -> Parties \cup {None}]
  /\ negotiations \in [Negotiations -> Negotiation \cup {None}]
  /\ \A n \in Known : negotiations[n].result \in Results
                     /\ negotiations[n].result.negotiation_id = n
  /\ active_negotiation_id \in Known \cup {None}
  /\ bound_contracts \subseteq Contexts
  /\ outcome \in {"applied", "replayed", "refused"}

\* Every context has at most one current accepted root, however proposals,
\* revisions, acceptances and supersessions of rival negotiations interleave.
AtMostOneRoot ==
  \A n, k \in Known :
    IsRoot(n) /\ IsRoot(k) /\ SameContext(negotiations[n].result, negotiations[k].result)
      => n = k

\* The state of a negotiation is what its decisions say: accepted with the
\* consent of all participants to the stored result, rejected or pending.
StateIsDecided ==
  \A n \in Known :
    LET g == negotiations[n] IN
    /\ g.acceptances \cap g.rejections = {}
    /\ g.acceptances \cup g.rejections \subseteq g.result.participants
    /\ g.state \in {"PROPOSED", "REVISION_PROPOSED"} => g.acceptances \cup g.rejections = {}
    /\ g.state = "PARTIALLY_ACCEPTED" =>
         /\ g.rejections = {} /\ g.acceptances # {}
         /\ g.acceptances # g.result.participants
    /\ g.state = "REJECTED" => g.rejections # {}
    /\ g.state \in {"ACCEPTED", "SUPERSEDED"} =>
         g.acceptances = g.result.participants /\ g.accepted = g.result

\* A negotiation is superseded only by one that all participants of the same
\* context accepted and that names it.
SupersededByConsent ==
  \A n \in Known :
    negotiations[n].state = "SUPERSEDED" =>
      LET k == negotiations[n].superseded_by IN
      /\ k \in Known /\ negotiations[k].accepted # None
      /\ negotiations[k].accepted.supersedes = n
      /\ SameContext(negotiations[k].accepted, negotiations[n].result)

\* The line of accepted negotiations never breaks: as long as something was
\* accepted in a context, that context has a current root.
RootSurvives ==
  \A n \in Known :
    negotiations[n].state \in {"ACCEPTED", "SUPERSEDED"} =>
      CurrentRoots(negotiations[n].result) # {}

\* Repeating the exact acceptance of the current root is never refused, whether
\* or not the root itself replaced a predecessor, until a party declares anew.
ReplayIsSafe ==
  \A n \in Known : \A p \in negotiations[n].result.participants :
    IsRoot(n) /\ BindingsCurrent(negotiations[n].result) =>
      DecisionCurrent(p, negotiations[n].result, negotiations[n].result.context)

\* A rejected revision stays rejected until it is replaced by a later one.
RejectionIsFinal ==
  [][\A n \in Known :
       negotiations[n].state = "REJECTED"
         /\ negotiations'[n].result = negotiations[n].result
       => negotiations'[n].state = "REJECTED"]_vars

\* When a negotiation becomes accepted, all its participants have consented to
\* declarations that are still everybody's latest.
AcceptedOnLatestDeclarations ==
  [][\A n \in Known :
       negotiations[n].state # "ACCEPTED" /\ negotiations'[n].state = "ACCEPTED"
       => BindingsCurrent(negotiations[n].result)]_vars

\* The first contract of a context is bound to the current root, never to a
\* negotiation that was superseded, and to what every participant accepted.
ContractsBindTheRoot ==
  [][bound_contracts' # bound_contracts =>
       \A n \in Negotiations, r \in Results, p \in Compositions, c \in Contexts :
         BindContract(n, r, p, c) =>
         /\ IsRoot(n)
         /\ r = negotiations[n].result /\ c = r.context /\ p = r.composition
         /\ negotiations[n].acceptances = r.participants]_vars

\* A fully accepted negotiation is immutable: what its participants accepted
\* under its id is never replaced.
AcceptedIsImmutable ==
  [][\A n \in Known : negotiations[n].accepted # None =>
       negotiations'[n].accepted = negotiations[n].accepted]_vars
=============================================================================
