--------------------------- MODULE Capneg_proofs ---------------------------
(***************************************************************************)
(* Theorems about the CAPNEG v0.2 reducer, for any parties, negotiations,  *)
(* results, declarations and any number of revisions.                      *)
(***************************************************************************)
EXTENDS Capneg, CapnegProjection, TLAPS

\* The kinds of step: one that changes nothing, or one that applies a message.
LEMMA StepKinds ==
  ASSUME [Next]_vars
  PROVE  \/ UNCHANGED vars
         \/ Refuse
         \/ \E d \in Declarations : Declare(d)
         \/ \E s \in Parties, r \in Results, sound \in BOOLEAN,
               prior \in {None} \cup {negotiations[k].result : k \in Known} :
               Propose(s, r, prior, sound)
         \/ \E s \in Parties, r \in Results, c \in Contexts,
               signature \in {"none", "valid", "invalid"} :
               Accept(s, r, c, signature) \/ AcceptReplayed(s, r, c, signature)
         \/ \E s \in Parties, r \in Results, c \in Contexts, sound \in BOOLEAN :
               Reject(s, r, c, sound) \/ RejectRepeated(s, r, c, sound)
         \/ \E n \in Negotiations, r \in Results, p \in Compositions, c \in Contexts :
               BindContract(n, r, p, c)
  BY DEF Next, DeclareRefused, ProposeRefused, AcceptRefused, RejectRefused,
         BindRefused, Barred

\* Only proposals, acceptances and rejections touch the negotiations.
LEMMA WhoWrites ==
  ASSUME [Next]_vars
  PROVE  \/ UNCHANGED negotiations
         \/ \E s \in Parties, r \in Results, sound \in BOOLEAN,
               prior \in {None} \cup {negotiations[k].result : k \in Known} :
               Propose(s, r, prior, sound)
         \/ \E s \in Parties, r \in Results, c \in Contexts,
               signature \in {"none", "valid", "invalid"} : Accept(s, r, c, signature)
         \/ \E s \in Parties, r \in Results, c \in Contexts, sound \in BOOLEAN :
               Reject(s, r, c, sound)
  BY StepKinds DEF vars, reduced, Refuse, Declare, AcceptReplayed, RejectRepeated,
                   BindContract

\* What a negotiation result is made of.
LEMMA ResultFields ==
  ASSUME NEW r \in Results
  PROVE  /\ r.negotiation_id \in Negotiations /\ r.revision \in Nat
         /\ r.participants \subseteq Parties /\ r.composition \in Compositions
         /\ r.supersedes \in Negotiations \cup {None}
         /\ r.context \in Contexts
  BY CapnegAssumption DEF CapnegAssumption, Result

\* None is no value of any kind.
LEMMA NoneIsNothing ==
  /\ None \notin Negotiation /\ None \notin Negotiations
  /\ None \notin Parties /\ None \notin Declaration
  BY CapnegAssumption DEF CapnegAssumption

LEMMA StoredNegotiation ==
  ASSUME TypeOK, NEW n \in Known
  PROVE  /\ n \in Negotiations /\ negotiations[n] \in Negotiation
         /\ negotiations[n].state \in NegotiationStates
         /\ negotiations[n].result \in Results
         /\ negotiations[n].result.negotiation_id = n
         /\ negotiations[n].acceptances \subseteq Parties
         /\ negotiations[n].rejections \subseteq Parties
         /\ negotiations[n].accepted \in Result \cup {None}
         /\ negotiations[n].superseded_by \in Negotiations \cup {None}
  BY DEF TypeOK, Known, Negotiation

\* What a proposal stores.
LEMMA ProposeShape ==
  ASSUME TypeOK, NEW s \in Parties, NEW r \in Results, NEW prior, NEW sound,
         Propose(s, r, prior, sound)
  PROVE  LET n == r.negotiation_id IN
         /\ n \in Negotiations
         /\ n \in Known => /\ negotiations[n].state # "ACCEPTED"
                           /\ r # negotiations[n].result
         /\ negotiations'[n] \in Negotiation
         /\ negotiations'[n].state \in {"PROPOSED", "REVISION_PROPOSED"}
         /\ negotiations'[n].result = r
         /\ negotiations'[n].acceptances = {} /\ negotiations'[n].rejections = {}
         /\ n \in Known => negotiations'[n].superseded_by = negotiations[n].superseded_by
         /\ n \notin Known => negotiations'[n].superseded_by = None
         /\ DOMAIN negotiations' = Negotiations
         /\ \A k \in Negotiations \ {n} : negotiations'[k] = negotiations[k]
         /\ Known' = Known \cup {n}
  <1> DEFINE n == r.negotiation_id
             g == [state |-> IF r.revision = 1 THEN "PROPOSED" ELSE "REVISION_PROPOSED",
                   result |-> r, acceptances |-> {}, rejections |-> {},
                   accepted |-> Kept(n, "accepted"),
                   superseded_by |-> Kept(n, "superseded_by")]
  <1>1. n \in Negotiations /\ r.revision \in Nat /\ r \in Result
    BY ResultFields, CapnegAssumption DEF CapnegAssumption
  <1>2. n \in Known => /\ negotiations[n].state # "ACCEPTED"
                       /\ r # negotiations[n].result
    <2>1. SUFFICES ASSUME n \in Known
                   PROVE  negotiations[n].state # "ACCEPTED" /\ r # negotiations[n].result
      OBVIOUS
    <2>2. RevisionAllowed(r, prior)
      BY <2>1 DEF Propose, ProposalValid
    <2>3. negotiations[n].result \in Results
      BY <2>1, StoredNegotiation
    <2>4. negotiations[n].result.revision \in Nat
      BY <2>3, ResultFields
    <2> QED BY <1>1, <2>2, <2>4 DEF RevisionAllowed
  <1>3. /\ n \in Known => Kept(n, "accepted") = negotiations[n].accepted
                          /\ Kept(n, "superseded_by") = negotiations[n].superseded_by
        /\ n \notin Known => Kept(n, "accepted") = None /\ Kept(n, "superseded_by") = None
    BY DEF Kept
  <1>4. /\ Kept(n, "accepted") \in Result \cup {None}
        /\ Kept(n, "superseded_by") \in Negotiations \cup {None}
    BY <1>3, StoredNegotiation
  <1>5. g \in Negotiation
    BY <1>1, <1>4 DEF Negotiation, NegotiationStates
  <1>6. negotiations' = [negotiations EXCEPT ![n] = g]
    BY DEF Propose
  <1>7. /\ negotiations'[n] = g /\ DOMAIN negotiations' = Negotiations
        /\ \A k \in Negotiations \ {n} : negotiations'[k] = negotiations[k]
    BY <1>1, <1>6 DEF TypeOK
  <1>8. Known' = Known \cup {n}
    BY <1>1, <1>5, <1>7, NoneIsNothing DEF Known
  <1> HIDE DEF g
  <1>9. /\ g.state \in {"PROPOSED", "REVISION_PROPOSED"} /\ g.result = r
        /\ g.acceptances = {} /\ g.rejections = {}
        /\ g.superseded_by = Kept(n, "superseded_by")
    BY DEF g
  <1> QED BY <1>1, <1>2, <1>3, <1>5, <1>7, <1>8, <1>9

-----------------------------------------------------------------------------
(* Acceptances.  n is the accepted negotiation, s its named predecessor. *)

\* What an acceptance finds.
LEMMA AcceptFinds ==
  ASSUME TypeOK, NEW p \in Parties, NEW r \in Results, NEW c, NEW signature,
         Accept(p, r, c, signature)
  PROVE  LET n == r.negotiation_id IN
         /\ n \in Known /\ r = negotiations[n].result
         /\ p \in r.participants
         /\ BindingsCurrent(r) /\ RootAllows(r) /\ PredecessorAllows(r)
         /\ negotiations[n].state # "REJECTED"
         /\ p \notin negotiations[n].rejections
         /\ p \notin negotiations[n].acceptances
  BY DEF Accept, AcceptanceValid, DecisionCurrent

\* The last acceptance accepts n and supersedes s; any other one only counts.
LEMMA AcceptShape ==
  ASSUME TypeOK, NEW p \in Parties, NEW r \in Results, NEW c, NEW signature,
         Accept(p, r, c, signature)
  PROVE  LET n == r.negotiation_id
             given == negotiations[n].acceptances \cup {p} IN
         /\ Known' = Known /\ DOMAIN negotiations' = Negotiations
         /\ \A k \in Known : /\ negotiations'[k] \in Negotiation
                             /\ negotiations'[k].result = negotiations[k].result
         /\ \A k \in Negotiations \ {n, r.supersedes} : negotiations'[k] = negotiations[k]
         /\ \/ /\ given = r.participants
               /\ (r.supersedes \in Known) =>
                    negotiations'[r.supersedes] = Superseded(r.supersedes, n)
               /\ r.supersedes # n => negotiations'[n] = Accepted(n, given)
            \/ /\ given # r.participants
               /\ r.supersedes # n /\ r.supersedes \in Negotiations =>
                    negotiations'[r.supersedes] = negotiations[r.supersedes]
               /\ negotiations'[n] = [negotiations[n] EXCEPT !.acceptances = given,
                                                             !.state = "PARTIALLY_ACCEPTED"]
  <1> DEFINE n == r.negotiation_id
             s == r.supersedes
             given == negotiations[n].acceptances \cup {p}
             partial == [negotiations[n] EXCEPT !.acceptances = given,
                                                !.state = "PARTIALLY_ACCEPTED"]
  <1>1. n \in Known /\ n \in Negotiations /\ r = negotiations[n].result /\ r \in Result
    BY AcceptFinds, ResultFields, CapnegAssumption DEF CapnegAssumption
  <1>2. negotiations[n] \in Negotiation /\ negotiations[n].acceptances \subseteq Parties
    BY <1>1, StoredNegotiation
  <1>3. /\ Accepted(n, given) \in Negotiation /\ partial \in Negotiation
        /\ Accepted(n, given).result = r /\ partial.result = r
    BY <1>1, <1>2 DEF Accepted, Negotiation, NegotiationStates
  <1>4. ASSUME NEW k \in Known
        PROVE  /\ Superseded(k, n) \in Negotiation
               /\ Superseded(k, n).result = negotiations[k].result
    <2>1. negotiations[k] \in Negotiation
      BY StoredNegotiation
    <2> QED BY <1>1, <2>1 DEF Superseded, Negotiation, NegotiationStates
  <1>5. \A k \in Negotiations \ Known : negotiations[k] = None
    BY DEF Known
  <1>6. CASE given = r.participants /\ Complete(r, given)
    <2>1. negotiations' =
            [k \in Negotiations |->
               IF k = s /\ k \in Known THEN Superseded(k, n)
               ELSE IF k = n THEN Accepted(n, given) ELSE negotiations[k]]
      BY <1>6 DEF Complete
    <2> HIDE DEF n, s, given, partial
    <2>2. \A k \in Negotiations :
            /\ (k = s /\ k \in Known) => negotiations'[k] = Superseded(k, n)
            /\ (k # s /\ k = n) => negotiations'[k] = Accepted(n, given)
            /\ (k # s /\ k # n) => negotiations'[k] = negotiations[k]
            /\ (k = s /\ k \notin Known) => negotiations'[k] = negotiations[k]
      BY <1>1, <2>1
    <2>3. \A k \in Known : /\ k \in Negotiations
                           /\ negotiations'[k] \in Negotiation
                           /\ negotiations'[k].result = negotiations[k].result
      BY <1>1, <1>3, <1>4, <2>2, StoredNegotiation DEF n
    <2>4. Known' = Known
      BY <1>1, <1>5, <2>2, <2>3, NoneIsNothing DEF Known
    <2>5. DOMAIN negotiations' = Negotiations
      BY <2>1
    <2> QED BY <1>1, <1>6, <2>2, <2>3, <2>4, <2>5 DEF n, s, given
  <1>7. CASE given # r.participants /\ negotiations' = [negotiations EXCEPT ![n] = partial]
    <2>1. negotiations'[n] = partial /\ \A k \in Negotiations \ {n} : negotiations'[k] = negotiations[k]
      BY <1>1, <1>7 DEF TypeOK
    <2>2. DOMAIN negotiations' = Negotiations
      BY <1>7 DEF TypeOK
    <2> HIDE DEF partial
    <2>3. \A k \in Known : /\ k \in Negotiations
                           /\ negotiations'[k] \in Negotiation
                           /\ negotiations'[k].result = negotiations[k].result
      BY <1>1, <1>3, <2>1, StoredNegotiation
    <2>4. Known' = Known
      BY <1>1, <1>5, <2>1, <2>3, NoneIsNothing DEF Known
    <2> QED BY <1>1, <1>7, <2>1, <2>2, <2>3, <2>4 DEF partial
  <1>8. \/ given = r.participants /\ Complete(r, given)
        \/ given # r.participants /\ negotiations' = [negotiations EXCEPT ![n] = partial]
    BY <1>1, <1>2 DEF Accept, TypeOK, Negotiation
  <1> QED BY <1>6, <1>7, <1>8

\* A rejection marks the current proposal of its negotiation.
LEMMA RejectShape ==
  ASSUME TypeOK, NEW p \in Parties, NEW r \in Results, NEW c, NEW sound,
         Reject(p, r, c, sound)
  PROVE  LET n == r.negotiation_id IN
         /\ n \in Known /\ r = negotiations[n].result /\ p \in r.participants
         /\ p \notin negotiations[n].acceptances
         /\ Known' = Known /\ DOMAIN negotiations' = Negotiations
         /\ \A k \in Negotiations \ {n} : negotiations'[k] = negotiations[k]
         /\ negotiations'[n] \in Negotiation
         /\ negotiations'[n] =
              [negotiations[n] EXCEPT !.rejections = negotiations[n].rejections \cup {p},
                                      !.state = "REJECTED"]
         /\ negotiations'[n].state = "REJECTED"
  <1> DEFINE n == r.negotiation_id
             g == [negotiations[n] EXCEPT !.rejections = negotiations[n].rejections \cup {p},
                                          !.state = "REJECTED"]
  <1>1. /\ n \in Known /\ n \in Negotiations /\ r = negotiations[n].result
        /\ p \in r.participants /\ p \notin negotiations[n].acceptances
    BY StoredNegotiation DEF Reject, RejectionValid, DecisionCurrent
  <1>2. negotiations[n] \in Negotiation
    BY <1>1, StoredNegotiation
  <1>3. g \in Negotiation
    BY <1>2 DEF Negotiation, NegotiationStates
  <1>4. negotiations' = [negotiations EXCEPT ![n] = g]
    BY <1>1, <1>2 DEF Reject, TypeOK, Negotiation
  <1>5. /\ negotiations'[n] = g /\ DOMAIN negotiations' = Negotiations
        /\ \A k \in Negotiations \ {n} : negotiations'[k] = negotiations[k]
    BY <1>1, <1>4 DEF TypeOK
  <1> HIDE DEF g
  <1>6. Known' = Known
    BY <1>1, <1>3, <1>5, NoneIsNothing DEF Known
  <1>7. g.state = "REJECTED"
    BY <1>2 DEF g, Negotiation
  <1> QED BY <1>1, <1>3, <1>5, <1>6, <1>7 DEF g

-----------------------------------------------------------------------------
(* Type correctness *)

LEMMA TypeInit == Init => TypeOK
  BY DEF Init, TypeOK, Known

LEMMA TypeStep == TypeOK /\ [Next]_vars => TypeOK'
  <1> SUFFICES ASSUME TypeOK, [Next]_vars PROVE TypeOK'
    OBVIOUS
  <1>1. /\ latest_declarations' \in [Parties -> Declaration \cup {None}]
        /\ capabilities_ids' \in [CapabilitiesIds -> Parties \cup {None}]
        /\ bound_contracts' \subseteq Contexts
        /\ outcome' \in {"applied", "replayed", "refused"}
    <2>1. ASSUME NEW d \in Declarations, Declare(d)
          PROVE  <1>1!1 /\ <1>1!2
      BY <2>1, CapnegAssumption DEF Declare, CapnegAssumption, Declaration, TypeOK
    <2>2. \/ UNCHANGED <<latest_declarations, capabilities_ids>>
          \/ \E d \in Declarations : Declare(d)
      <3>1. CASE UNCHANGED vars
        BY <3>1 DEF vars
      <3>2. CASE Refuse
        BY <3>2 DEF Refuse, reduced
      <3> QED BY <3>1, <3>2, StepKinds, ZenonT(30)
            DEF Propose, Accept, AcceptReplayed, reduced, Reject, RejectRepeated, BindContract
    <2>3. bound_contracts' \subseteq Contexts
      BY StepKinds, ZenonT(30) DEF vars, reduced, Refuse, Declare, Propose, Accept, AcceptReplayed,
                       Reject, RejectRepeated, BindContract, TypeOK
    <2>4. outcome' \in {"applied", "replayed", "refused"}
      <3>1. CASE UNCHANGED vars
        BY <3>1 DEF vars, TypeOK
      <3> QED BY <3>1, StepKinds, ZenonT(30) DEF Refuse, Declare, Propose, Accept, AcceptReplayed,
                                     Reject, RejectRepeated, BindContract
    <2> QED BY <2>1, <2>2, <2>3, <2>4 DEF TypeOK
  <1>2. /\ negotiations' \in [Negotiations -> Negotiation \cup {None}]
        /\ \A n \in Known' : negotiations'[n].result \in Results
                             /\ negotiations'[n].result.negotiation_id = n
        /\ Known \subseteq Known'
    <2>1. CASE UNCHANGED negotiations
      BY <2>1 DEF TypeOK, Known
    <2>2. ASSUME NEW s \in Parties, NEW r \in Results, NEW prior, NEW sound,
                 Propose(s, r, prior, sound)
          PROVE  <1>2
      <3> DEFINE n == r.negotiation_id
      <3>1. /\ n \in Negotiations /\ Known' = Known \cup {n}
            /\ negotiations'[n] \in Negotiation /\ negotiations'[n].result = r
            /\ DOMAIN negotiations' = Negotiations
            /\ \A k \in Negotiations \ {n} : negotiations'[k] = negotiations[k]
        BY <2>2, ProposeShape
      <3>2. \E f : negotiations' = [negotiations EXCEPT ![n] = f]
        BY <2>2 DEF Propose
      <3>3. negotiations' \in [Negotiations -> Negotiation \cup {None}]
        BY <3>1, <3>2 DEF TypeOK
      <3>4. \A k \in Known' : negotiations'[k].result \in Results
                              /\ negotiations'[k].result.negotiation_id = k
        BY <3>1, StoredNegotiation DEF TypeOK, Known
      <3> QED BY <3>1, <3>3, <3>4
    <2>3. ASSUME NEW s \in Parties, NEW r \in Results, NEW c, NEW signature,
                 Accept(s, r, c, signature)
          PROVE  <1>2
      <3>1. /\ Known' = Known
            /\ \A k \in Known : /\ negotiations'[k] \in Negotiation
                                /\ negotiations'[k].result = negotiations[k].result
            /\ \A k \in Negotiations \ {r.negotiation_id, r.supersedes} :
                 negotiations'[k] = negotiations[k]
        BY <2>3, AcceptShape
      <3>2. \E g : negotiations' = [k \in Negotiations |-> g[k]]
        <4>1. CASE \E given : Complete(r, given)
          <5>1. PICK given : Complete(r, given)
            BY <4>1
          <5>2. WITNESS [k \in Negotiations |->
                           IF k = r.supersedes /\ k \in Known
                           THEN Superseded(k, r.negotiation_id)
                           ELSE IF k = r.negotiation_id
                                THEN Accepted(r.negotiation_id, given)
                                ELSE negotiations[k]]
          <5> QED BY <5>1 DEF Complete
        <4>2. CASE \E f : negotiations' = [negotiations EXCEPT ![r.negotiation_id] = f]
          BY <4>2 DEF TypeOK
        <4> QED BY <2>3, <4>1, <4>2 DEF Accept
      <3>3. \A k \in Negotiations : negotiations'[k] \in Negotiation \cup {None}
        BY <3>1 DEF Known
      <3>4. negotiations' \in [Negotiations -> Negotiation \cup {None}]
        BY <3>2, <3>3
      <3> QED BY <3>1, <3>4, StoredNegotiation
    <2>4. ASSUME NEW s \in Parties, NEW r \in Results, NEW c, NEW sound,
                 Reject(s, r, c, sound)
          PROVE  <1>2
      <3> DEFINE n == r.negotiation_id
      <3>1. /\ n \in Known /\ Known' = Known /\ r = negotiations[n].result
            /\ \A k \in Negotiations \ {n} : negotiations'[k] = negotiations[k]
            /\ negotiations'[n] \in Negotiation
            /\ negotiations'[n] =
                 [negotiations[n] EXCEPT !.rejections = negotiations[n].rejections \cup {s},
                                         !.state = "REJECTED"]
        BY <2>4, RejectShape
      <3>2. negotiations[n] \in Negotiation
        BY <3>1, StoredNegotiation
      <3>3. negotiations'[n].result = negotiations[n].result
        BY <3>1, <3>2 DEF Negotiation
      <3>4. \E f : negotiations' = [negotiations EXCEPT ![n] = f]
        BY <2>4 DEF Reject
      <3>5. negotiations' \in [Negotiations -> Negotiation \cup {None}]
        BY <3>1, <3>4 DEF TypeOK
      <3>6. \A k \in Known : negotiations'[k].result = negotiations[k].result
        BY <3>1, <3>3 DEF Known
      <3> QED BY <3>1, <3>5, <3>6, StoredNegotiation
    <2> QED BY <2>1, <2>2, <2>3, <2>4, WhoWrites
  <1>3. active_negotiation_id' \in Known' \cup {None}
    <2>1. ASSUME NEW s \in Parties, NEW r \in Results, NEW prior, NEW sound,
                 Propose(s, r, prior, sound)
          PROVE  active_negotiation_id' \in Known'
      <3>1. Known' = Known \cup {r.negotiation_id}
        BY <2>1, ProposeShape
      <3> QED BY <2>1, <3>1 DEF Propose
    <2>2. \/ active_negotiation_id' = active_negotiation_id
          \/ \E s \in Parties, r \in Results, sound \in BOOLEAN,
               prior \in {None} \cup {negotiations[k].result : k \in Known} :
               Propose(s, r, prior, sound)
      BY StepKinds DEF vars, reduced, Refuse, Declare, Accept, AcceptReplayed,
                       Reject, RejectRepeated, BindContract
    <2> QED BY <1>2, <2>1, <2>2 DEF TypeOK
  <1> QED BY <1>1, <1>2, <1>3 DEF TypeOK

\* The reducer's fields always hold values of their types: every message the
\* reducer processes, applied or refused, leaves well-formed records.
THEOREM Typing == Spec => []TypeOK
  BY TypeInit, TypeStep, PTL DEF Spec

-----------------------------------------------------------------------------
(* The decisions of a negotiation *)

\* What StateIsDecided says of one negotiation.
Decided(g) ==
  /\ g.acceptances \cap g.rejections = {}
  /\ g.acceptances \cup g.rejections \subseteq g.result.participants
  /\ g.state \in {"PROPOSED", "REVISION_PROPOSED"} => g.acceptances \cup g.rejections = {}
  /\ g.state = "PARTIALLY_ACCEPTED" =>
       /\ g.rejections = {} /\ g.acceptances # {}
       /\ g.acceptances # g.result.participants
  /\ g.state = "REJECTED" => g.rejections # {}
  /\ g.state \in {"ACCEPTED", "SUPERSEDED"} =>
       g.acceptances = g.result.participants /\ g.accepted = g.result

LEMMA DecidedEverywhere == StateIsDecided <=> \A n \in Known : Decided(negotiations[n])
  BY DEF StateIsDecided, Decided

\* Whoever still has to accept finds no rejection and an undecided negotiation.
LEMMA StillOpen ==
  ASSUME TypeOK, StateIsDecided, NEW p \in Parties, NEW r \in Results, NEW c,
         NEW signature, Accept(p, r, c, signature)
  PROVE  LET g == negotiations[r.negotiation_id] IN
         /\ g.state \notin {"ACCEPTED", "SUPERSEDED", "REJECTED"}
         /\ g.rejections = {}
         /\ r.supersedes # r.negotiation_id
         /\ r.supersedes # None =>
              /\ r.supersedes \in Known
              /\ negotiations[r.supersedes].state \in {"ACCEPTED", "SUPERSEDED"}
  <1> DEFINE n == r.negotiation_id
             g == negotiations[n]
  <1>1. /\ n \in Known /\ r = g.result /\ p \in r.participants
        /\ g.state # "REJECTED" /\ p \notin g.rejections /\ p \notin g.acceptances
        /\ PredecessorAllows(r)
    BY AcceptFinds
  <1>2. Decided(g) /\ g.state \in NegotiationStates
    BY <1>1, DecidedEverywhere, StoredNegotiation
  <1>3. g.state \notin {"ACCEPTED", "SUPERSEDED"}
    BY <1>1, <1>2 DEF Decided
  <1>4. g.rejections = {}
    BY <1>1, <1>2, <1>3 DEF Decided, NegotiationStates
  <1>5. r.supersedes # None =>
          /\ r.supersedes \in Known
          /\ negotiations[r.supersedes].state \in {"ACCEPTED", "SUPERSEDED"}
    BY <1>1 DEF PredecessorAllows, IsRoot
  <1>6. r.supersedes # n
    BY <1>1, <1>3, <1>5, NoneIsNothing DEF Known
  <1> QED BY <1>1, <1>3, <1>4, <1>5, <1>6

LEMMA DecidedStep == TypeOK /\ StateIsDecided /\ [Next]_vars => StateIsDecided'
  <1> SUFFICES ASSUME TypeOK, StateIsDecided, [Next]_vars,
                      NEW k \in Known'
               PROVE  Decided(negotiations'[k])
    BY DEF StateIsDecided, Decided
  <1>1. CASE UNCHANGED negotiations
    BY <1>1, DecidedEverywhere DEF Known
  <1>2. ASSUME NEW s \in Parties, NEW r \in Results, NEW prior, NEW sound,
               Propose(s, r, prior, sound)
        PROVE  Decided(negotiations'[k])
    <2>1. CASE k = r.negotiation_id
      BY <1>2, <2>1, ProposeShape DEF Decided
    <2>2. CASE k # r.negotiation_id
      <3>1. k \in Known /\ negotiations'[k] = negotiations[k]
        BY <1>2, <2>2, ProposeShape DEF Known
      <3> QED BY <3>1, DecidedEverywhere
    <2> QED BY <2>1, <2>2
  <1>3. ASSUME NEW s \in Parties, NEW r \in Results, NEW c, NEW signature,
               Accept(s, r, c, signature)
        PROVE  Decided(negotiations'[k])
    <2> DEFINE n == r.negotiation_id
               given == negotiations[n].acceptances \cup {s}
    <2>1. k \in Known /\ k \in Negotiations /\ n \in Known /\ r = negotiations[n].result
      BY <1>3, AcceptShape, AcceptFinds DEF Known
    <2>2. Decided(negotiations[k]) /\ negotiations[k] \in Negotiation
      BY <2>1, DecidedEverywhere, StoredNegotiation
    <2>3. CASE k \notin {n, r.supersedes}
      BY <1>3, <2>1, <2>2, <2>3, AcceptShape
    <2>4. CASE k = n
      <3>1. /\ negotiations[n].rejections = {} /\ r.supersedes # n
            /\ s \in r.participants
        BY <1>3, StillOpen, AcceptFinds
      <3>2. given \subseteq r.participants
        BY <2>1, <2>2, <2>4, <3>1 DEF Decided
      <3>3. CASE negotiations'[n] = Accepted(n, given) /\ given = r.participants
        <4>1. /\ negotiations'[n].state = "ACCEPTED"
              /\ negotiations'[n].acceptances = given
              /\ negotiations'[n].rejections = {}
              /\ negotiations'[n].result = r /\ negotiations'[n].accepted = r
          BY <2>1, <2>2, <2>4, <3>1, <3>3 DEF Accepted, Negotiation
        <4> QED BY <2>4, <3>3, <4>1 DEF Decided
      <3>4. CASE /\ given # r.participants
                 /\ negotiations'[n] = [negotiations[n] EXCEPT !.acceptances = given,
                                                   !.state = "PARTIALLY_ACCEPTED"]
        <4>1. /\ negotiations'[n].state = "PARTIALLY_ACCEPTED"
              /\ negotiations'[n].acceptances = given
              /\ negotiations'[n].rejections = {}
              /\ negotiations'[n].result = r
          BY <2>1, <2>2, <2>4, <3>1, <3>4 DEF Negotiation
        <4> QED BY <2>4, <3>2, <3>4, <4>1 DEF Decided
      <3> QED BY <1>3, <3>1, <3>3, <3>4, AcceptShape
    <2>5. CASE k = r.supersedes /\ k # n
      <3>1. negotiations[k].state \in {"ACCEPTED", "SUPERSEDED"}
        BY <1>3, <2>1, <2>5, StillOpen, NoneIsNothing DEF Known
      <3>2. CASE negotiations'[k] = Superseded(k, n)
        <4>1. /\ negotiations'[k].state = "SUPERSEDED"
              /\ negotiations'[k].acceptances = negotiations[k].acceptances
              /\ negotiations'[k].rejections = negotiations[k].rejections
              /\ negotiations'[k].result = negotiations[k].result
              /\ negotiations'[k].accepted = negotiations[k].accepted
          BY <2>2, <3>2 DEF Superseded, Negotiation
        <4> QED BY <2>2, <3>1, <4>1 DEF Decided
      <3>3. CASE negotiations'[k] = negotiations[k]
        BY <2>2, <3>3
      <3> QED BY <1>3, <2>1, <2>5, <3>2, <3>3, AcceptShape
    <2> QED BY <2>3, <2>4, <2>5
  <1>4. ASSUME NEW s \in Parties, NEW r \in Results, NEW c, NEW sound,
               Reject(s, r, c, sound)
        PROVE  Decided(negotiations'[k])
    <2> DEFINE n == r.negotiation_id
    <2>1. /\ n \in Known /\ k \in Known /\ k \in Negotiations
          /\ r = negotiations[n].result /\ s \in r.participants
          /\ s \notin negotiations[n].acceptances
          /\ k # n => negotiations'[k] = negotiations[k]
          /\ negotiations'[n] =
               [negotiations[n] EXCEPT !.rejections = negotiations[n].rejections \cup {s},
                                       !.state = "REJECTED"]
      BY <1>4, RejectShape DEF Known
    <2>2. /\ Decided(negotiations[k]) /\ Decided(negotiations[n])
          /\ negotiations[n] \in Negotiation
      BY <2>1, DecidedEverywhere, StoredNegotiation
    <2>3. /\ negotiations'[n].state = "REJECTED"
          /\ negotiations'[n].rejections = negotiations[n].rejections \cup {s}
          /\ negotiations'[n].acceptances = negotiations[n].acceptances
          /\ negotiations'[n].result = r
      BY <2>1, <2>2 DEF Negotiation
    <2>4. Decided(negotiations'[n])
      BY <2>1, <2>2, <2>3 DEF Decided
    <2> QED BY <2>1, <2>2, <2>4
  <1> QED BY <1>1, <1>2, <1>3, <1>4, WhoWrites

\* The state a negotiation is in is what its participants decided about exactly
\* its current result, whatever messages the reducer processed.
THEOREM Decisions == Spec => []StateIsDecided
  <1>1. Init => StateIsDecided
    BY DEF Init, StateIsDecided, Known
  <1> QED BY <1>1, TypeInit, TypeStep, DecidedStep, PTL DEF Spec

-----------------------------------------------------------------------------
(* One accepted root per context *)

\* What replaces a negotiation is itself a root or was replaced in turn: no
\* acceptance replayed on the strength of a past supersession can add a root.
SuccessorsStand ==
  \A n \in Known : negotiations[n].superseded_by # None =>
    LET k == negotiations[n].superseded_by IN
    k \in Known /\ (IsRoot(k) \/ negotiations[k].superseded_by # None)

RootInv == TypeOK /\ StateIsDecided /\ SuccessorsStand /\ AtMostOneRoot

LEMMA RootInit == Init => RootInv
  <1>1. Init => StateIsDecided /\ SuccessorsStand /\ AtMostOneRoot
    BY DEF Init, StateIsDecided, SuccessorsStand, AtMostOneRoot, Known
  <1> QED BY <1>1, TypeInit DEF RootInv

\* A step that keeps the root status, result and successor of every negotiation,
\* or only takes away roots that have a successor, keeps the invariant.
LEMMA NoNewRoot ==
  ASSUME RootInv, Known \subseteq Known',
         \A k \in Known : negotiations'[k].superseded_by = negotiations[k].superseded_by,
         \A k \in Known' : IsRoot(k)' => IsRoot(k),
         \A k \in Known : IsRoot(k) => IsRoot(k)',
         \A k \in Known : IsRoot(k) => negotiations'[k].result = negotiations[k].result,
         \A k \in Known' \ Known : negotiations'[k].superseded_by = None
  PROVE  SuccessorsStand' /\ AtMostOneRoot'
  <1>1. SuccessorsStand'
    BY DEF RootInv, SuccessorsStand
  <1>2. AtMostOneRoot'
    <2> SUFFICES ASSUME NEW m \in Known', NEW k \in Known', IsRoot(m)', IsRoot(k)',
                        SameContext(negotiations'[m].result, negotiations'[k].result)
                 PROVE  m = k
      BY DEF AtMostOneRoot
    <2>1. IsRoot(m) /\ IsRoot(k) /\ m \in Known /\ k \in Known
      BY DEF IsRoot
    <2> QED BY <2>1 DEF RootInv, AtMostOneRoot
  <1> QED BY <1>1, <1>2

LEMMA RootPropose ==
  ASSUME RootInv, NEW s \in Parties, NEW r \in Results, NEW prior, NEW sound,
         Propose(s, r, prior, sound)
  PROVE  SuccessorsStand' /\ AtMostOneRoot'
  <1> DEFINE n == r.negotiation_id
  <1>1. /\ n \in Negotiations /\ Known' = Known \cup {n}
        /\ n \in Known => negotiations[n].state # "ACCEPTED"
        /\ negotiations'[n].state \in {"PROPOSED", "REVISION_PROPOSED"}
        /\ n \in Known => negotiations'[n].superseded_by = negotiations[n].superseded_by
        /\ n \notin Known => negotiations'[n].superseded_by = None
        /\ \A k \in Negotiations \ {n} : negotiations'[k] = negotiations[k]
    BY ProposeShape DEF RootInv
  <1>2. ~IsRoot(n) /\ ~IsRoot(n)'
    BY <1>1 DEF IsRoot
  <1>3. \A k \in Known' \ {n} : k \in Known /\ negotiations'[k] = negotiations[k]
    BY <1>1 DEF Known
  <1>4. \A k \in Known' \ {n} : IsRoot(k)' <=> IsRoot(k)
    BY <1>1, <1>3 DEF IsRoot
  <1> HIDE DEF n
  <1> QED BY <1>1, <1>2, <1>3, <1>4, NoNewRoot

LEMMA RootReject ==
  ASSUME RootInv, NEW s \in Parties, NEW r \in Results, NEW c, NEW sound,
         Reject(s, r, c, sound)
  PROVE  SuccessorsStand' /\ AtMostOneRoot'
  <1> DEFINE n == r.negotiation_id
  <1>1. /\ n \in Known /\ Known' = Known /\ r = negotiations[n].result
        /\ s \in r.participants /\ s \notin negotiations[n].acceptances
        /\ \A k \in Negotiations \ {n} : negotiations'[k] = negotiations[k]
        /\ negotiations'[n] =
             [negotiations[n] EXCEPT !.rejections = negotiations[n].rejections \cup {s},
                                     !.state = "REJECTED"]
    BY RejectShape DEF RootInv
  <1>2. negotiations[n] \in Negotiation /\ Decided(negotiations[n])
    BY <1>1, StoredNegotiation, DecidedEverywhere DEF RootInv
  <1>3. ~IsRoot(n)
    BY <1>1, <1>2 DEF IsRoot, Decided
  <1>4. /\ negotiations'[n].state = "REJECTED"
        /\ negotiations'[n].superseded_by = negotiations[n].superseded_by
    BY <1>1, <1>2 DEF Negotiation
  <1>5. ~IsRoot(n)'
    BY <1>4 DEF IsRoot
  <1>6. \A k \in Known' \ {n} : k \in Known /\ negotiations'[k] = negotiations[k]
    BY <1>1 DEF Known
  <1>7. \A k \in Known' \ {n} : IsRoot(k)' <=> IsRoot(k)
    BY <1>1, <1>6 DEF IsRoot
  <1> HIDE DEF n
  <1> QED BY <1>1, <1>3, <1>4, <1>5, <1>6, <1>7, NoNewRoot

\* An acceptance that is not the last one.
LEMMA RootPartial ==
  ASSUME RootInv, NEW s \in Parties, NEW r \in Results, NEW c, NEW signature,
         Accept(s, r, c, signature),
         negotiations[r.negotiation_id].acceptances \cup {s} # r.participants
  PROVE  SuccessorsStand' /\ AtMostOneRoot'
  <1> DEFINE n == r.negotiation_id
             given == negotiations[n].acceptances \cup {s}
  <1>1a. r.supersedes # n
    BY StillOpen DEF RootInv
  <1>1b. \A k \in Negotiations \ {n} : negotiations'[k] = negotiations[k]
    <2>1. /\ \A k \in Negotiations \ {n, r.supersedes} : negotiations'[k] = negotiations[k]
          /\ r.supersedes \in Negotiations =>
               negotiations'[r.supersedes] = negotiations[r.supersedes]
      BY <1>1a, AcceptShape DEF RootInv
    <2> HIDE DEF n
    <2> QED BY <2>1
  <1>1. /\ n \in Known /\ Known' = Known
        /\ negotiations'[n] = [negotiations[n] EXCEPT !.acceptances = given,
                                                      !.state = "PARTIALLY_ACCEPTED"]
        /\ negotiations[n].state # "ACCEPTED"
    BY AcceptShape, AcceptFinds, StillOpen DEF RootInv
  <1>2. negotiations[n] \in Negotiation
    BY <1>1, StoredNegotiation DEF RootInv
  <1>3. /\ negotiations'[n].state = "PARTIALLY_ACCEPTED"
        /\ negotiations'[n].superseded_by = negotiations[n].superseded_by
    BY <1>1, <1>2 DEF Negotiation
  <1>4. ~IsRoot(n) /\ ~IsRoot(n)'
    BY <1>1, <1>3 DEF IsRoot
  <1>5. \A k \in Known' \ {n} : k \in Known /\ negotiations'[k] = negotiations[k]
    BY <1>1, <1>1b DEF Known
  <1>6. \A k \in Known' \ {n} : IsRoot(k)' <=> IsRoot(k)
    BY <1>1, <1>5 DEF IsRoot
  <1> HIDE DEF n, given
  <1> QED BY <1>1, <1>3, <1>4, <1>5, <1>6, NoNewRoot

\* The last acceptance: n becomes accepted and its predecessor is superseded.
LEMMA RootComplete ==
  ASSUME RootInv, NEW p \in Parties, NEW r \in Results, NEW c, NEW signature,
         Accept(p, r, c, signature),
         negotiations[r.negotiation_id].acceptances \cup {p} = r.participants
  PROVE  SuccessorsStand' /\ AtMostOneRoot'
  <1> DEFINE n == r.negotiation_id
             s == r.supersedes
  <1>0. /\ n \in Known /\ n \in Negotiations /\ r = negotiations[n].result
        /\ s # n /\ RootAllows(r) /\ PredecessorAllows(r)
    BY AcceptFinds, StillOpen, StoredNegotiation DEF RootInv
  <1>1. /\ n \in Known /\ n \in Negotiations /\ r = negotiations[n].result
        /\ Known' = Known /\ s # n /\ RootAllows(r) /\ PredecessorAllows(r)
        /\ \A k \in Negotiations \ {n, s} : negotiations'[k] = negotiations[k]
        /\ s \in Known => negotiations'[s] = Superseded(s, n)
        /\ negotiations'[n] = Accepted(n, r.participants)
        /\ \A k \in Known : negotiations'[k].result = negotiations[k].result
    <2>1. TypeOK
      BY DEF RootInv
    <2>2. /\ Known' = Known
          /\ \A k \in Known : negotiations'[k].result = negotiations[k].result
          /\ \A k \in Negotiations \ {n, s} : negotiations'[k] = negotiations[k]
      BY <2>1, AcceptShape
    <2> DEFINE given == negotiations[n].acceptances \cup {p}
    <2>3. \/ /\ s \in Known => negotiations'[s] = Superseded(s, n)
             /\ s # n => negotiations'[n] = Accepted(n, given)
          \/ given # r.participants
      BY <2>1, AcceptShape
    <2>4. given = r.participants
      OBVIOUS
    <2> HIDE DEF n, s, given
    <2> QED BY <1>0, <2>2, <2>3, <2>4
  <1>2. negotiations[n] \in Negotiation /\ (s \in Known => negotiations[s] \in Negotiation)
    BY <1>1, StoredNegotiation DEF RootInv
  <1>3. /\ negotiations'[n].state = "ACCEPTED"
        /\ negotiations'[n].superseded_by = negotiations[n].superseded_by
    BY <1>1, StoredNegotiation DEF Accepted, Negotiation, RootInv
  <1>4. s \in Known => /\ negotiations'[s].state = "SUPERSEDED"
                       /\ negotiations'[s].superseded_by = n
    BY <1>1, <1>2 DEF Superseded, Negotiation
  <1>5. n # None
    BY <1>1, NoneIsNothing
  <1> HIDE DEF n, s
  <1>6. \A k \in Known \ {n, s} : /\ k \in Negotiations
                                  /\ negotiations'[k] = negotiations[k]
                                  /\ IsRoot(k)' <=> IsRoot(k)
    BY <1>1 DEF Known, IsRoot
  <1>7. s \in Known => ~IsRoot(s)'
    BY <1>4 DEF IsRoot
  <1>8. IsRoot(n)' <=> negotiations[n].superseded_by = None
    BY <1>1, <1>3 DEF IsRoot
  <1>9. SuccessorsStand'
    <2> SUFFICES ASSUME NEW m \in Known, NEW k, k = negotiations'[m].superseded_by, k # None
                 PROVE  k \in Known /\ (IsRoot(k)' \/ negotiations'[k].superseded_by # None)
      BY <1>1 DEF SuccessorsStand, IsRoot
    <2>1. CASE m = s
      BY <1>1, <1>3, <1>4, <1>8, <2>1
    <2>2. CASE m # s
      <3>1. k = negotiations[m].superseded_by
        BY <1>3, <1>6, <2>2
      <3>2. k \in Known /\ (IsRoot(k) \/ negotiations[k].superseded_by # None)
        BY <3>1 DEF RootInv, SuccessorsStand
      <3>3. CASE k = n
        BY <1>3, <1>8, <3>2, <3>3
      <3>4. CASE k = s
        BY <1>4, <1>5, <3>2, <3>4
      <3>5. CASE k \notin {n, s}
        BY <1>6, <3>2, <3>5
      <3> QED BY <3>3, <3>4, <3>5
    <2> QED BY <2>1, <2>2
  <1>10. ASSUME NEW m \in Known \ {n, s}, IsRoot(m), IsRoot(n)',
                SameContext(negotiations[m].result, r)
         PROVE  FALSE
    <2>1. m \in CurrentRoots(r)
      BY <1>6, <1>10 DEF CurrentRoots
    <2>2. n = r.negotiation_id /\ s = r.supersedes
      BY DEF n, s
    <2>3. /\ \A j, k \in CurrentRoots(r) : j = k
          /\ CurrentRoots(r) \subseteq {n} \/ s # None
      BY <1>1, <2>2 DEF RootAllows
    <2>4. s # None
      BY <1>10, <2>1, <2>3
    <2>5. /\ s \in Known
          /\ \/ IsRoot(s)
             \/ negotiations[s].state = "SUPERSEDED" /\ negotiations[s].superseded_by = n
          /\ SameContext(negotiations[s].result, r)
      BY <1>1, <2>2, <2>4 DEF PredecessorAllows
    <2>6. CASE IsRoot(s)
      <3>1. s \in CurrentRoots(r)
        BY <2>5, <2>6 DEF CurrentRoots, Known
      <3> QED BY <1>10, <2>1, <2>3, <3>1
    <2>7. CASE negotiations[s].superseded_by = n
      <3>1. IsRoot(n) \/ negotiations[n].superseded_by # None
        BY <1>5, <2>5, <2>7 DEF RootInv, SuccessorsStand
      <3>2. IsRoot(n)
        BY <1>8, <1>10, <3>1
      <3>3. n \in CurrentRoots(r)
        BY <1>1, <3>2 DEF CurrentRoots, SameContext
      <3> QED BY <1>10, <2>1, <2>3, <3>3
    <2> QED BY <2>5, <2>6, <2>7
  <1>11. AtMostOneRoot'
    <2> SUFFICES ASSUME NEW m \in Known, NEW k \in Known, IsRoot(m)', IsRoot(k)',
                        SameContext(negotiations[m].result, negotiations[k].result)
                 PROVE  m = k
      BY <1>1 DEF AtMostOneRoot
    <2>1. m # s /\ k # s
      BY <1>7
    <2>2. CASE m # n /\ k # n
      BY <1>6, <2>1, <2>2 DEF RootInv, AtMostOneRoot
    <2>3. CASE m = n /\ k # n
      <3>1. SameContext(negotiations[k].result, r)
        BY <1>1, <2>3 DEF SameContext
      <3> QED BY <1>6, <1>10, <2>1, <2>3, <3>1
    <2>4. CASE m # n /\ k = n
      BY <1>1, <1>6, <1>10, <2>1, <2>4
    <2> QED BY <2>2, <2>3, <2>4
  <1> QED BY <1>9, <1>11

LEMMA RootStep == RootInv /\ [Next]_vars => RootInv'
  <1> SUFFICES ASSUME RootInv, [Next]_vars PROVE RootInv'
    OBVIOUS
  <1>1. TypeOK' /\ StateIsDecided'
    BY TypeStep, DecidedStep DEF RootInv
  <1>2. SuccessorsStand' /\ AtMostOneRoot'
    <2>1. CASE UNCHANGED negotiations
      BY <2>1 DEF RootInv, SuccessorsStand, AtMostOneRoot, Known, IsRoot
    <2> QED BY <2>1, WhoWrites, RootPropose, RootPartial, RootComplete, RootReject
  <1> QED BY <1>1, <1>2 DEF RootInv

\* Each context has at most one current accepted root, for any number of
\* negotiations, participants and revisions, rival proposals included.
THEOREM OneRoot == Spec => []AtMostOneRoot
  <1>1. RootInv => AtMostOneRoot
    BY DEF RootInv
  <1> QED BY <1>1, RootInit, RootStep, PTL DEF Spec

-----------------------------------------------------------------------------
(* What a step never does *)

\* A negotiation becomes accepted only while every participant's declaration is
\* still the one the result was built on.
THEOREM OnLatestDeclarations == Spec => AcceptedOnLatestDeclarations
  <1> DEFINE A == \A n \in Known :
                    negotiations[n].state # "ACCEPTED" /\ negotiations'[n].state = "ACCEPTED"
                    => BindingsCurrent(negotiations[n].result)
  <1>1. TypeOK /\ [Next]_vars => [A]_vars
    <2> SUFFICES ASSUME TypeOK, [Next]_vars, NEW n \in Known,
                        negotiations[n].state # "ACCEPTED", negotiations'[n].state = "ACCEPTED"
                 PROVE  BindingsCurrent(negotiations[n].result)
      OBVIOUS
    <2>1. n \in Negotiations /\ negotiations[n] \in Negotiation
      BY StoredNegotiation
    <2>2. ASSUME NEW s \in Parties, NEW r \in Results, NEW prior, NEW sound,
                 Propose(s, r, prior, sound)
          PROVE  FALSE
      BY <2>1, <2>2, ProposeShape
    <2>3. ASSUME NEW s \in Parties, NEW r \in Results, NEW c, NEW sound,
                 Reject(s, r, c, sound)
          PROVE  FALSE
      <3>1. /\ \A k \in Negotiations \ {r.negotiation_id} : negotiations'[k] = negotiations[k]
            /\ negotiations'[r.negotiation_id].state = "REJECTED"
        BY <2>3, RejectShape
      <3> QED BY <2>1, <3>1
    <2>4. ASSUME NEW s \in Parties, NEW r \in Results, NEW c, NEW signature,
                 Accept(s, r, c, signature)
          PROVE  BindingsCurrent(negotiations[n].result)
      <3>1. CASE n = r.negotiation_id
        BY <2>4, <3>1, AcceptFinds
      <3>2. CASE n # r.negotiation_id
        <4>1. \/ negotiations'[n] = negotiations[n]
              \/ negotiations'[n] = Superseded(n, r.negotiation_id)
          BY <2>1, <2>4, <3>2, AcceptShape
        <4> QED BY <2>1, <4>1 DEF Superseded, Negotiation
      <3> QED BY <3>1, <3>2
    <2> QED BY <2>2, <2>3, <2>4, WhoWrites
  <1> QED BY <1>1, TypeInit, TypeStep, PTL DEF Spec, AcceptedOnLatestDeclarations

\* A rejected revision stays rejected: only a new revision reopens it.
THEOREM RejectedStays == Spec => RejectionIsFinal
  <1> DEFINE A == \A n \in Known :
                    negotiations[n].state = "REJECTED"
                      /\ negotiations'[n].result = negotiations[n].result
                    => negotiations'[n].state = "REJECTED"
  <1>1. TypeOK /\ StateIsDecided /\ [Next]_vars => [A]_vars
    <2> SUFFICES ASSUME TypeOK, StateIsDecided, [Next]_vars, NEW n \in Known,
                        negotiations[n].state = "REJECTED",
                        negotiations'[n].result = negotiations[n].result
                 PROVE  negotiations'[n].state = "REJECTED"
      OBVIOUS
    <2>1. n \in Negotiations /\ negotiations[n] \in Negotiation
      BY StoredNegotiation
    <2>2. ASSUME NEW s \in Parties, NEW r \in Results, NEW prior, NEW sound,
                 Propose(s, r, prior, sound)
          PROVE  negotiations'[n].state = "REJECTED"
      BY <2>1, <2>2, ProposeShape
    <2>3. ASSUME NEW s \in Parties, NEW r \in Results, NEW c, NEW sound,
                 Reject(s, r, c, sound)
          PROVE  negotiations'[n].state = "REJECTED"
      <3>1. /\ \A k \in Negotiations \ {r.negotiation_id} : negotiations'[k] = negotiations[k]
            /\ negotiations'[r.negotiation_id].state = "REJECTED"
        BY <2>3, RejectShape
      <3> QED BY <2>1, <3>1
    <2>4. ASSUME NEW s \in Parties, NEW r \in Results, NEW c, NEW signature,
                 Accept(s, r, c, signature)
          PROVE  negotiations'[n].state = "REJECTED"
      <3>1. n # r.negotiation_id
        BY <2>4, AcceptFinds
      <3>2. n # r.supersedes
        BY <2>1, <2>4, StillOpen, NoneIsNothing
      <3> QED BY <2>1, <2>4, <3>1, <3>2, AcceptShape
    <2> QED BY <2>2, <2>3, <2>4, WhoWrites
  <1>2. Spec => [](TypeOK /\ StateIsDecided)
    BY Typing, Decisions, PTL
  <1> QED BY <1>1, <1>2, PTL DEF Spec, RejectionIsFinal

-----------------------------------------------------------------------------
(***************************************************************************)
(* The line of accepted negotiations.  The reducer lets a negotiation that *)
(* was superseded be revised under its own id and accepted once more       *)
(* (RevisionAllowed only excludes the state ACCEPTED), and then none of    *)
(* the promises below holds.  The theorems say that this is the only way   *)
(* to break them: whatever the parties, negotiations, contexts, results    *)
(* and revisions, the promises hold as long as what was superseded stays   *)
(* so.                                                                     *)
(***************************************************************************)

\* No superseded negotiation is accepted again.
NotRevived ==
  \A n \in Known :
    negotiations[n].superseded_by # None => negotiations'[n].state # "ACCEPTED"

\* No superseded negotiation is even revised.
NotRevised ==
  \A n \in Known :
    negotiations[n].superseded_by # None =>
      negotiations'[n].result = negotiations[n].result

-----------------------------------------------------------------------------
(* What a step does to the negotiations *)

\* A proposal, a rejection or an acceptance that is not the last one touches n
\* and settles nothing.
Undecided(n) ==
  /\ Known' = Known \cup {n}
  /\ \A k \in Known' \ {n} : k \in Known /\ negotiations'[k] = negotiations[k]
  /\ negotiations'[n].state \notin {"ACCEPTED", "SUPERSEDED"}
  /\ n \in Known =>
       /\ negotiations[n].state # "ACCEPTED"
       /\ negotiations'[n].superseded_by = negotiations[n].superseded_by
       /\ negotiations'[n].accepted = negotiations[n].accepted
       /\ negotiations[n].state = "SUPERSEDED" =>
            negotiations'[n].result # negotiations[n].result
  /\ n \notin Known =>
       negotiations'[n].superseded_by = None /\ negotiations'[n].accepted = None

\* The last acceptance of n, which supersedes the predecessor s that n names.
Completed(n) ==
  LET s == negotiations[n].result.supersedes IN
  /\ n \in Known /\ Known' = Known /\ s # n
  /\ negotiations[n].state \notin {"ACCEPTED", "SUPERSEDED"}
  /\ \A k \in Known \ {n, s} : negotiations'[k] = negotiations[k]
  /\ negotiations'[n].state = "ACCEPTED"
  /\ negotiations'[n].result = negotiations[n].result
  /\ negotiations'[n].accepted = negotiations[n].result
  /\ negotiations'[n].superseded_by = negotiations[n].superseded_by
  /\ s # None =>
       /\ s \in Known
       /\ IsRoot(s) \/ negotiations[s].superseded_by = n
       /\ SameContext(negotiations[s].result, negotiations[n].result)
       /\ negotiations'[s].state = "SUPERSEDED"
       /\ negotiations'[s].superseded_by = n
       /\ negotiations'[s].accepted = negotiations[s].accepted
       /\ negotiations'[s].result = negotiations[s].result

LEMMA ProposeUndecided ==
  ASSUME TypeOK, NEW p \in Parties, NEW r \in Results, NEW prior, NEW sound,
         Propose(p, r, prior, sound)
  PROVE  r.negotiation_id \in Negotiations /\ Undecided(r.negotiation_id)
  <1> DEFINE n == r.negotiation_id
  <1>1. /\ n \in Negotiations /\ Known' = Known \cup {n}
        /\ n \in Known => negotiations[n].state # "ACCEPTED" /\ r # negotiations[n].result
        /\ negotiations'[n].state \in {"PROPOSED", "REVISION_PROPOSED"}
        /\ negotiations'[n].result = r
        /\ n \in Known => negotiations'[n].superseded_by = negotiations[n].superseded_by
        /\ n \notin Known => negotiations'[n].superseded_by = None
        /\ \A k \in Negotiations \ {n} : negotiations'[k] = negotiations[k]
    BY ProposeShape
  <1>2. negotiations'[n].accepted = Kept(n, "accepted")
    BY <1>1 DEF Propose, TypeOK
  <1>3. negotiations'[n].accepted = IF n \in Known THEN negotiations[n].accepted ELSE None
    BY <1>2 DEF Kept
  <1>4. \A k \in Known' \ {n} : k \in Known /\ k \in Negotiations
    BY <1>1 DEF Known
  <1> HIDE DEF n
  <1>5. Undecided(n)
    BY <1>1, <1>3, <1>4 DEF Undecided
  <1> QED BY <1>1, <1>5 DEF n

LEMMA RejectUndecided ==
  ASSUME TypeOK, StateIsDecided, NEW p \in Parties, NEW r \in Results, NEW c, NEW sound,
         Reject(p, r, c, sound)
  PROVE  r.negotiation_id \in Negotiations /\ Undecided(r.negotiation_id)
  <1> DEFINE n == r.negotiation_id
  <1>1. /\ n \in Known /\ Known' = Known /\ r = negotiations[n].result
        /\ p \in r.participants /\ p \notin negotiations[n].acceptances
        /\ \A k \in Negotiations \ {n} : negotiations'[k] = negotiations[k]
        /\ negotiations'[n] =
             [negotiations[n] EXCEPT !.rejections = negotiations[n].rejections \cup {p},
                                     !.state = "REJECTED"]
    BY RejectShape
  <1>2. n \in Negotiations /\ negotiations[n] \in Negotiation /\ Decided(negotiations[n])
    BY <1>1, StoredNegotiation, DecidedEverywhere
  <1>3. negotiations[n].state \notin {"ACCEPTED", "SUPERSEDED"}
    BY <1>1, <1>2 DEF Decided
  <1>4. /\ negotiations'[n].state = "REJECTED"
        /\ negotiations'[n].superseded_by = negotiations[n].superseded_by
        /\ negotiations'[n].accepted = negotiations[n].accepted
    BY <1>1, <1>2 DEF Negotiation
  <1>5. \A k \in Known : k \in Negotiations
    BY DEF Known
  <1> HIDE DEF n
  <1>6. Undecided(n)
    BY <1>1, <1>3, <1>4, <1>5 DEF Undecided
  <1> QED BY <1>2, <1>6 DEF n

\* An acceptance that is not the last one.
LEMMA PartialUndecided ==
  ASSUME TypeOK, StateIsDecided, NEW p \in Parties, NEW r \in Results, NEW c,
         NEW signature, Accept(p, r, c, signature),
         negotiations[r.negotiation_id].acceptances \cup {p} # r.participants
  PROVE  r.negotiation_id \in Negotiations /\ Undecided(r.negotiation_id)
  <1> DEFINE n == r.negotiation_id
             given == negotiations[n].acceptances \cup {p}
  <1>1. r.supersedes # n /\ negotiations[n].state \notin {"ACCEPTED", "SUPERSEDED"}
    BY StillOpen
  <1>2. n \in Known /\ Known' = Known
    BY AcceptShape, AcceptFinds
  <1>3. \A k \in Negotiations \ {n} : negotiations'[k] = negotiations[k]
    <2>1. /\ \A k \in Negotiations \ {n, r.supersedes} : negotiations'[k] = negotiations[k]
          /\ r.supersedes \in Negotiations =>
               negotiations'[r.supersedes] = negotiations[r.supersedes]
      BY <1>1, AcceptShape
    <2> HIDE DEF n
    <2> QED BY <2>1
  <1>4. negotiations'[n] = [negotiations[n] EXCEPT !.acceptances = given,
                                                   !.state = "PARTIALLY_ACCEPTED"]
    BY AcceptShape
  <1>5. n \in Negotiations /\ negotiations[n] \in Negotiation
    BY <1>2, StoredNegotiation
  <1>6. /\ negotiations'[n].state = "PARTIALLY_ACCEPTED"
        /\ negotiations'[n].superseded_by = negotiations[n].superseded_by
        /\ negotiations'[n].accepted = negotiations[n].accepted
    BY <1>4, <1>5 DEF Negotiation
  <1>7. \A k \in Known : k \in Negotiations
    BY DEF Known
  <1> HIDE DEF n, given
  <1>8. Undecided(n)
    BY <1>1, <1>2, <1>3, <1>6, <1>7 DEF Undecided
  <1> QED BY <1>5, <1>8 DEF n

LEMMA LastCompleted ==
  ASSUME TypeOK, StateIsDecided, NEW p \in Parties, NEW r \in Results, NEW c,
         NEW signature, Accept(p, r, c, signature),
         negotiations[r.negotiation_id].acceptances \cup {p} = r.participants
  PROVE  r.negotiation_id \in Negotiations /\ Completed(r.negotiation_id)
  <1> DEFINE n == r.negotiation_id
             s == r.supersedes
             given == negotiations[n].acceptances \cup {p}
  <1>1. /\ n \in Known /\ n \in Negotiations /\ r = negotiations[n].result
        /\ s # n /\ PredecessorAllows(r)
        /\ negotiations[n].state \notin {"ACCEPTED", "SUPERSEDED"}
    BY AcceptFinds, StillOpen, StoredNegotiation
  <1>2. /\ Known' = Known
        /\ \A k \in Known : negotiations'[k].result = negotiations[k].result
        /\ \A k \in Negotiations \ {n, s} : negotiations'[k] = negotiations[k]
    BY AcceptShape
  <1>3. /\ s \in Known => negotiations'[s] = Superseded(s, n)
        /\ negotiations'[n] = Accepted(n, given)
    <2>1. \/ /\ s \in Known => negotiations'[s] = Superseded(s, n)
             /\ s # n => negotiations'[n] = Accepted(n, given)
          \/ given # r.participants
      BY AcceptShape
    <2>2. given = r.participants
      OBVIOUS
    <2> HIDE DEF n, s, given
    <2> QED BY <1>1, <2>1, <2>2
  <1>4. negotiations[n] \in Negotiation /\ (s \in Known => negotiations[s] \in Negotiation)
    BY <1>1, StoredNegotiation
  <1>5. /\ negotiations'[n].state = "ACCEPTED"
        /\ negotiations'[n].accepted = negotiations[n].result
        /\ negotiations'[n].superseded_by = negotiations[n].superseded_by
    BY <1>3, <1>4 DEF Accepted, Negotiation
  <1>6. s # None =>
          /\ s \in Known
          /\ IsRoot(s) \/ negotiations[s].superseded_by = n
          /\ SameContext(negotiations[s].result, r)
    BY <1>1 DEF PredecessorAllows
  <1>7. s \in Known => /\ negotiations'[s].state = "SUPERSEDED"
                       /\ negotiations'[s].superseded_by = n
                       /\ negotiations'[s].accepted = negotiations[s].accepted
    BY <1>3, <1>4 DEF Superseded, Negotiation
  <1>8. \A k \in Known : k \in Negotiations
    BY DEF Known
  <1>9. s = negotiations[n].result.supersedes
    BY <1>1
  <1> HIDE DEF n, s
  <1>10. Completed(n)
    BY <1>1, <1>2, <1>5, <1>6, <1>7, <1>8, <1>9 DEF Completed
  <1> QED BY <1>1, <1>10 DEF n

LEMMA StepEffect ==
  ASSUME TypeOK, StateIsDecided, [Next]_vars
  PROVE  \/ UNCHANGED negotiations
         \/ \E n \in Negotiations : Undecided(n) \/ Completed(n)
  BY WhoWrites, ProposeUndecided, RejectUndecided, PartialUndecided, LastCompleted

-----------------------------------------------------------------------------
(* Nothing superseded is accepted again *)

\* What was superseded is not accepted, and what was accepted stays recorded.
Replaced ==
  \A n \in Known :
    /\ negotiations[n].superseded_by # None => negotiations[n].state # "ACCEPTED"
    /\ negotiations[n].accepted # None <=>
         negotiations[n].state = "ACCEPTED" \/ negotiations[n].superseded_by # None

LineInv ==
  TypeOK /\ StateIsDecided /\ AtMostOneRoot /\ Replaced /\ SupersededByConsent /\ RootSurvives

\* None is no negotiation result.
LEMMA ResultNotNone == None \notin Results
  BY CapnegAssumption DEF CapnegAssumption

LEMMA LineInit == Init => Replaced /\ SupersededByConsent /\ RootSurvives
  BY DEF Init, Replaced, SupersededByConsent, RootSurvives, Known

LEMMA LineUndecided ==
  ASSUME LineInv, NEW n \in Negotiations, Undecided(n)
  PROVE  Replaced' /\ SupersededByConsent' /\ RootSurvives'
  <1>1. /\ Known' = Known \cup {n} /\ n \in Known'
        /\ \A k \in Known' \ {n} : k \in Known /\ negotiations'[k] = negotiations[k]
        /\ negotiations'[n].state \notin {"ACCEPTED", "SUPERSEDED"}
    BY DEF Undecided
  <1>2. Replaced'
    <2> SUFFICES ASSUME NEW k \in Known'
                 PROVE  /\ negotiations'[k].superseded_by # None =>
                             negotiations'[k].state # "ACCEPTED"
                        /\ negotiations'[k].accepted # None <=>
                             \/ negotiations'[k].state = "ACCEPTED"
                             \/ negotiations'[k].superseded_by # None
      BY DEF Replaced
    <2>1. CASE k # n
      BY <1>1, <2>1 DEF LineInv, Replaced
    <2>2. CASE k = n /\ n \in Known
      <3>1. /\ negotiations[n].state # "ACCEPTED"
            /\ negotiations'[n].superseded_by = negotiations[n].superseded_by
            /\ negotiations'[n].accepted = negotiations[n].accepted
        BY <2>2 DEF Undecided
      <3> QED BY <1>1, <2>2, <3>1 DEF LineInv, Replaced
    <2>3. CASE k = n /\ n \notin Known
      BY <1>1, <2>3 DEF Undecided
    <2> QED BY <2>1, <2>2, <2>3
  <1>3. SupersededByConsent'
    <2> SUFFICES ASSUME NEW m \in Known', NEW k,
                        k = negotiations'[m].superseded_by, negotiations'[m].state = "SUPERSEDED"
                 PROVE  /\ k \in Known' /\ negotiations'[k].accepted # None
                        /\ negotiations'[k].accepted.supersedes = m
                        /\ SameContext(negotiations'[k].accepted, negotiations'[m].result)
      BY DEF SupersededByConsent, SameContext
    <2>1. m \in Known /\ negotiations'[m] = negotiations[m]
      BY <1>1
    <2>2. /\ k \in Known /\ negotiations[k].accepted # None
          /\ negotiations[k].accepted.supersedes = m
          /\ SameContext(negotiations[k].accepted, negotiations[m].result)
      BY <2>1 DEF LineInv, SupersededByConsent
    <2>3. negotiations'[k].accepted = negotiations[k].accepted
      BY <1>1, <2>2 DEF Undecided
    <2> QED BY <1>1, <2>1, <2>2, <2>3
  <1>4. RootSurvives'
    <2> SUFFICES ASSUME NEW m \in Known', negotiations'[m].state \in {"ACCEPTED", "SUPERSEDED"}
                 PROVE  \E k \in Negotiations : IsRoot(k)' /\ SameContext(negotiations'[k].result,
                                                               negotiations'[m].result)
      BY DEF RootSurvives, CurrentRoots, SameContext
    <2>1. m \in Known /\ negotiations'[m] = negotiations[m]
      BY <1>1
    <2>2. PICK k \in Negotiations :
             IsRoot(k) /\ SameContext(negotiations[k].result, negotiations[m].result)
      BY <2>1 DEF LineInv, RootSurvives, CurrentRoots
    <2>3. k \in Known' /\ negotiations'[k] = negotiations[k]
      BY <1>1, <2>2 DEF Undecided, IsRoot
    <2> QED BY <2>1, <2>2, <2>3 DEF IsRoot
  <1> QED BY <1>2, <1>3, <1>4

LEMMA LineCompleted ==
  ASSUME LineInv, NEW n \in Negotiations, Completed(n), NotRevived
  PROVE  Replaced' /\ SupersededByConsent' /\ RootSurvives'
  <1> DEFINE s == negotiations[n].result.supersedes
  <1>1. /\ n \in Known /\ Known' = Known /\ s # n
        /\ \A k \in Known \ {n, s} : negotiations'[k] = negotiations[k]
        /\ negotiations[n].state \notin {"ACCEPTED", "SUPERSEDED"}
        /\ negotiations'[n].state = "ACCEPTED"
        /\ negotiations'[n].result = negotiations[n].result
        /\ negotiations'[n].accepted = negotiations[n].result
        /\ negotiations'[n].superseded_by = negotiations[n].superseded_by
    BY DEF Completed
  <1>2. s \in Known =>
          /\ IsRoot(s) \/ negotiations[s].superseded_by = n
          /\ SameContext(negotiations[s].result, negotiations[n].result)
          /\ negotiations'[s].state = "SUPERSEDED" /\ negotiations'[s].superseded_by = n
          /\ negotiations'[s].accepted = negotiations[s].accepted
          /\ negotiations'[s].result = negotiations[s].result
    BY NoneIsNothing DEF Completed, Known
  <1>3. /\ negotiations[n].superseded_by = None /\ negotiations'[n].superseded_by = None
        /\ negotiations[n].accepted = None
    BY <1>1 DEF NotRevived, LineInv, Replaced
  <1>4. negotiations[n].result # None /\ n # None
    <2>1. negotiations[n].result \in Results /\ negotiations[n].accepted \in Result \cup {None}
      BY <1>1, StoredNegotiation DEF LineInv
    <2>2. IsRoot(n)'
      BY <1>1, <1>3 DEF IsRoot
    <2>3. negotiations[n].result # None
      BY <2>1, ResultNotNone
    <2> QED BY <2>3, NoneIsNothing
  <1>5. s \in Known => negotiations[s].accepted # None
    BY <1>2, <1>4 DEF LineInv, Replaced, IsRoot
  <1> HIDE DEF s
  <1>6. Replaced'
    <2> SUFFICES ASSUME NEW k \in Known
                 PROVE  /\ negotiations'[k].superseded_by # None =>
                             negotiations'[k].state # "ACCEPTED"
                        /\ negotiations'[k].accepted # None <=>
                             \/ negotiations'[k].state = "ACCEPTED"
                             \/ negotiations'[k].superseded_by # None
      BY <1>1 DEF Replaced
    <2>1. CASE k = n
      BY <1>1, <1>3, <1>4, <2>1
    <2>2. CASE k = s
      BY <1>2, <1>4, <1>5, <2>2
    <2>3. CASE k \notin {n, s}
      BY <1>1, <2>3 DEF LineInv, Replaced
    <2> QED BY <2>1, <2>2, <2>3
  <1>7. SupersededByConsent'
    <2> SUFFICES ASSUME NEW m \in Known, NEW k,
                        k = negotiations'[m].superseded_by, negotiations'[m].state = "SUPERSEDED"
                 PROVE  /\ k \in Known /\ negotiations'[k].accepted # None
                        /\ negotiations'[k].accepted.supersedes = m
                        /\ SameContext(negotiations'[k].accepted, negotiations'[m].result)
      BY <1>1 DEF SupersededByConsent, SameContext
    <2>1. CASE m = s
      BY <1>1, <1>2, <1>4, <2>1 DEF SameContext, s
    <2>2. CASE m # s
      <3>1. m # n /\ negotiations'[m] = negotiations[m]
        BY <1>1, <2>2
      <3>2. /\ k \in Known /\ negotiations[k].accepted # None
            /\ negotiations[k].accepted.supersedes = m
            /\ SameContext(negotiations[k].accepted, negotiations[m].result)
        BY <3>1 DEF LineInv, SupersededByConsent
      <3>3. negotiations'[k].accepted = negotiations[k].accepted
        BY <1>1, <1>2, <1>3, <3>2
      <3> QED BY <3>1, <3>2, <3>3
    <2> QED BY <2>1, <2>2
  <1>8. RootSurvives'
    <2> SUFFICES ASSUME NEW m \in Known, negotiations'[m].state \in {"ACCEPTED", "SUPERSEDED"}
                 PROVE  \E k \in Negotiations : IsRoot(k)' /\ SameContext(negotiations'[k].result,
                                                               negotiations'[m].result)
      BY <1>1 DEF RootSurvives, CurrentRoots, SameContext
    <2>1. IsRoot(n)' /\ SameContext(negotiations'[n].result, negotiations'[n].result)
      BY <1>1, <1>3 DEF IsRoot, SameContext
    <2>2. CASE m = n
      BY <2>1, <2>2
    <2>3. CASE m = s
      BY <1>1, <1>2, <2>1, <2>3 DEF SameContext
    <2>4. CASE m \notin {n, s}
      <3>1. negotiations'[m] = negotiations[m]
        BY <1>1, <2>4
      <3>2. PICK k \in Negotiations :
               IsRoot(k) /\ SameContext(negotiations[k].result, negotiations[m].result)
        BY <2>4, <3>1 DEF LineInv, RootSurvives, CurrentRoots
      <3>3. k \in Known /\ k # n
        BY <1>1, <3>2 DEF IsRoot
      <3>4. CASE k = s
        <4>1. SameContext(negotiations'[n].result, negotiations'[m].result)
          BY <1>1, <1>2, <3>1, <3>2, <3>3, <3>4 DEF SameContext
        <4> QED BY <2>1, <4>1
      <3>5. CASE k # s
        <4>1. negotiations'[k] = negotiations[k]
          BY <1>1, <3>3, <3>5
        <4> QED BY <1>1, <3>1, <3>2, <4>1 DEF IsRoot
      <3> QED BY <3>4, <3>5
    <2> QED BY <2>2, <2>3, <2>4
  <1> QED BY <1>6, <1>7, <1>8

LEMMA LineStep ==
  ASSUME LineInv, AtMostOneRoot', [Next]_vars, NotRevived
  PROVE  LineInv'
  <1>1. TypeOK' /\ StateIsDecided'
    BY TypeStep, DecidedStep DEF LineInv
  <1>2. Replaced' /\ SupersededByConsent' /\ RootSurvives'
    <2>1. CASE UNCHANGED negotiations
      BY <2>1 DEF LineInv, Replaced, SupersededByConsent, RootSurvives, CurrentRoots, IsRoot, Known
    <2> QED BY <2>1, StepEffect, LineUndecided, LineCompleted DEF LineInv
  <1> QED BY <1>1, <1>2 DEF LineInv

LEMMA ProjectionHolds ==
  ASSUME LineInv PROVE ProjectionsNameTheRoot
  <1> DEFINE Stated(n, q) == /\ IsRoot(n) /\ InProjectedContext(n, q)
                             /\ negotiations[n].result = q.result
                             /\ q.result.composition = q.composition
                             /\ negotiations[n].acceptances = q.result.participants
  <1>1. ASSUME NEW q \in Projection, ProjectionValid(q)
        PROVE  \E n \in Known : Stated(n, q)
    <2>1. PICK n \in Known : /\ AcceptedCandidates(q) = {n}
                             /\ negotiations[n].accepted.composition = q.composition
                             /\ negotiations[n].accepted = q.result
      BY <1>1 DEF ProjectionValid
    <2>2. negotiations[n].state = "ACCEPTED" /\ InProjectedContext(n, q)
      BY <2>1 DEF AcceptedCandidates
    <2>3. /\ negotiations[n].accepted = negotiations[n].result
          /\ negotiations[n].acceptances = negotiations[n].result.participants
      BY <2>2 DEF LineInv, StateIsDecided
    <2>4. IsRoot(n)
      BY <2>2 DEF IsRoot, LineInv, Replaced
    <2> QED BY <2>1, <2>2, <2>3, <2>4
  <1>2. ASSUME NEW q \in Projection, q.sound, q.participants # None,
               NEW n \in Known, Stated(n, q)
        PROVE  ProjectionValid(q)
    <2>1. negotiations[n].accepted = q.result /\ q.result.composition = q.composition
      BY <1>2 DEF IsRoot, LineInv, StateIsDecided
    <2>2. n \in AcceptedCandidates(q)
      BY <1>2 DEF AcceptedCandidates, IsRoot
    <2>3. ASSUME NEW m \in AcceptedCandidates(q)
          PROVE  m = n
      <3>1. m \in Known /\ negotiations[m].state = "ACCEPTED" /\ InProjectedContext(m, q)
        BY <2>3 DEF AcceptedCandidates
      <3>2. IsRoot(m) /\ SameContext(negotiations[m].result, negotiations[n].result)
        BY <1>2, <3>1 DEF IsRoot, LineInv, Replaced, InProjectedContext, SameContext
      <3> QED BY <1>2, <3>1, <3>2 DEF LineInv, AtMostOneRoot
    <2>4. AcceptedCandidates(q) = {n}
      BY <2>2, <2>3
    <2> QED BY <1>2, <2>1, <2>4 DEF ProjectionValid
  <1> QED BY <1>1, <1>2 DEF ProjectionsNameTheRoot

LEMMA LineHolds == Spec /\ [][NotRevived]_vars => []LineInv
  <1>1. Init /\ AtMostOneRoot => LineInv
    BY LineInit, RootInit DEF RootInv, LineInv
  <1>2. LineInv /\ AtMostOneRoot' /\ [Next]_vars /\ [NotRevived]_vars => LineInv'
    <2>1. CASE NotRevived
      BY <2>1, LineStep
    <2>2. CASE UNCHANGED vars
      <3>1. UNCHANGED negotiations
        BY <2>2 DEF vars
      <3>2. LineInv /\ [Next]_vars => TypeOK' /\ StateIsDecided'
        BY TypeStep, DecidedStep DEF LineInv
      <3> QED BY <3>1, <3>2 DEF LineInv, Replaced, SupersededByConsent, RootSurvives,
                                CurrentRoots, IsRoot, Known
    <2> QED BY <2>1, <2>2
  <1> QED BY <1>1, <1>2, OneRoot, PTL DEF Spec

\* A negotiation is superseded only by one that names it and that all
\* participants of the same context accepted.
THEOREM Consent == Spec /\ [][NotRevived]_vars => []SupersededByConsent
  <1>1. LineInv => SupersededByConsent
    BY DEF LineInv
  <1> QED BY <1>1, LineHolds, PTL

\* The line of accepted negotiations never breaks: once something was accepted
\* in a context, the context always has a current root.
THEOREM Survival == Spec /\ [][NotRevived]_vars => []RootSurvives
  <1>1. LineInv => RootSurvives
    BY DEF LineInv
  <1> QED BY <1>1, LineHolds, PTL

\* A session state projection passes exactly when it states the current root.
THEOREM Projecting == Spec /\ [][NotRevived]_vars => []ProjectionsNameTheRoot
  <1> QED BY ProjectionHolds, LineHolds, PTL

\* What the participants accepted under an id is never replaced.
THEOREM Immutability == Spec /\ [][NotRevived]_vars => AcceptedIsImmutable
  <1> DEFINE A == \A n \in Known : negotiations[n].accepted # None =>
                    negotiations'[n].accepted = negotiations[n].accepted
  <1>1. LineInv /\ [Next]_vars /\ [NotRevived]_vars => [A]_vars
    <2> SUFFICES ASSUME LineInv, [Next]_vars, NotRevived, NEW n \in Known,
                        negotiations[n].accepted # None
                 PROVE  negotiations'[n].accepted = negotiations[n].accepted
      OBVIOUS
    <2>1. ASSUME NEW m \in Negotiations, Undecided(m)
          PROVE  negotiations'[n].accepted = negotiations[n].accepted
      BY <2>1 DEF Undecided
    <2>2. ASSUME NEW m \in Negotiations, Completed(m)
          PROVE  negotiations'[n].accepted = negotiations[n].accepted
      <3>1. CASE n = m
        <4>1. /\ negotiations[n].state # "ACCEPTED" /\ negotiations'[n].state = "ACCEPTED"
          BY <2>2, <3>1 DEF Completed
        <4> QED BY <4>1 DEF NotRevived, LineInv, Replaced
      <3>2. CASE n = negotiations[m].result.supersedes
        BY <2>2, <3>2, NoneIsNothing DEF Completed, Known
      <3>3. CASE n \notin {m, negotiations[m].result.supersedes}
        BY <2>2, <3>3 DEF Completed
      <3> QED BY <3>1, <3>2, <3>3
    <2> QED BY <2>1, <2>2, StepEffect DEF LineInv
  <1> QED BY <1>1, LineHolds, PTL DEF Spec, AcceptedIsImmutable

\* A contract is bound to the current root of its context, and to what all of
\* its participants accepted.
THEOREM BoundToRoot == Spec /\ [][NotRevived]_vars => ContractsBindTheRoot
  <1>1. ASSUME LineInv, NEW n \in Negotiations, NEW r \in Results,
               NEW p \in Compositions, NEW c \in Contexts, BindContract(n, r, p, c)
        PROVE  /\ IsRoot(n)
               /\ r = negotiations[n].result /\ c = r.context /\ p = r.composition
               /\ negotiations[n].acceptances = r.participants
    <2>1. /\ n \in Known /\ negotiations[n].state = "ACCEPTED"
          /\ c = negotiations[n].result.context /\ r = negotiations[n].accepted
          /\ p = negotiations[n].result.composition
      BY <1>1 DEF BindContract, BindingValid
    <2>2. negotiations[n].superseded_by = None
      BY <1>1, <2>1 DEF LineInv, Replaced
    <2>3. /\ negotiations[n].acceptances = negotiations[n].result.participants
          /\ negotiations[n].accepted = negotiations[n].result
      BY <1>1, <2>1 DEF LineInv, StateIsDecided
    <2> QED BY <2>1, <2>2, <2>3 DEF IsRoot
  <1>2. LineInv =>
          [bound_contracts' # bound_contracts =>
             \A n \in Negotiations, r \in Results, p \in Compositions, c \in Contexts :
               BindContract(n, r, p, c) =>
               /\ IsRoot(n)
               /\ r = negotiations[n].result /\ c = r.context /\ p = r.composition
               /\ negotiations[n].acceptances = r.participants]_vars
    BY <1>1
  <1> QED BY <1>2, LineHolds, PTL DEF ContractsBindTheRoot

-----------------------------------------------------------------------------
(* Nothing superseded is revised *)

\* What was superseded stays in that state, and the predecessor of an accepted
\* negotiation was superseded by it.
Succession ==
  /\ \A n \in Known :
       negotiations[n].superseded_by # None <=> negotiations[n].state = "SUPERSEDED"
  /\ \A n \in Known :
       LET s == negotiations[n].result.supersedes IN
       negotiations[n].state = "ACCEPTED" /\ s # None =>
         /\ s \in Known
         /\ negotiations[s].state = "SUPERSEDED" /\ negotiations[s].superseded_by = n
         /\ SameContext(negotiations[s].result, negotiations[n].result)

\* What is not revised is not accepted again either.
LEMMA StaysSuperseded ==
  ASSUME TypeOK, StateIsDecided, Succession, [Next]_vars, NotRevised
  PROVE  NotRevived
  <1> SUFFICES ASSUME NEW n \in Known, negotiations[n].superseded_by # None
               PROVE  negotiations'[n].state # "ACCEPTED"
    BY DEF NotRevived
  <1>1. /\ negotiations[n].state = "SUPERSEDED"
        /\ negotiations'[n].result = negotiations[n].result
    BY DEF Succession, NotRevised
  <1>2. ASSUME NEW m \in Negotiations, Undecided(m)
        PROVE  negotiations'[n].state # "ACCEPTED"
    BY <1>1, <1>2 DEF Undecided
  <1>3. ASSUME NEW m \in Negotiations, Completed(m)
        PROVE  negotiations'[n].state # "ACCEPTED"
    <2>1. n # m
      BY <1>1, <1>3 DEF Completed
    <2>2. n = negotiations[m].result.supersedes => negotiations'[n].state = "SUPERSEDED"
      BY <1>3, NoneIsNothing DEF Completed, Known
    <2>3. n # negotiations[m].result.supersedes => negotiations'[n] = negotiations[n]
      BY <1>3, <2>1 DEF Completed
    <2> QED BY <1>1, <2>2, <2>3
  <1> QED BY <1>1, <1>2, <1>3, StepEffect

LEMMA SuccessionStep ==
  ASSUME TypeOK, StateIsDecided, Succession, [Next]_vars, NotRevised
  PROVE  Succession'
  <1>1. CASE UNCHANGED negotiations
    BY <1>1 DEF Succession, Known, SameContext
  <1>2. ASSUME NEW n \in Negotiations, Undecided(n)
        PROVE  Succession'
    <2>1. /\ Known' = Known \cup {n}
          /\ \A k \in Known' \ {n} : k \in Known /\ negotiations'[k] = negotiations[k]
          /\ negotiations'[n].state \notin {"ACCEPTED", "SUPERSEDED"}
      BY <1>2 DEF Undecided
    <2>2. n \in Known => negotiations[n].state # "SUPERSEDED" /\ negotiations[n].superseded_by = None
      BY <1>2 DEF Undecided, NotRevised, Succession
    <2>3. negotiations'[n].superseded_by = None
      BY <1>2, <2>2 DEF Undecided
    <2>4. ASSUME NEW m \in Known'
          PROVE  negotiations'[m].superseded_by # None <=> negotiations'[m].state = "SUPERSEDED"
      BY <2>1, <2>3 DEF Succession
    <2>5. ASSUME NEW m \in Known', NEW s, s = negotiations'[m].result.supersedes,
                 negotiations'[m].state = "ACCEPTED", s # None
          PROVE  /\ s \in Known'
                 /\ negotiations'[s].state = "SUPERSEDED" /\ negotiations'[s].superseded_by = m
                 /\ SameContext(negotiations'[s].result, negotiations'[m].result)
      <3>1. m \in Known /\ negotiations'[m] = negotiations[m]
        BY <2>1, <2>5
      <3>2. /\ s \in Known
            /\ negotiations[s].state = "SUPERSEDED" /\ negotiations[s].superseded_by = m
            /\ SameContext(negotiations[s].result, negotiations[m].result)
        BY <2>5, <3>1 DEF Succession
      <3>3. negotiations'[s] = negotiations[s]
        BY <2>1, <2>2, <3>2
      <3> QED BY <2>1, <3>1, <3>2, <3>3
    <2> QED BY <2>4, <2>5 DEF Succession, SameContext
  <1>3. ASSUME NEW n \in Negotiations, Completed(n)
        PROVE  Succession'
    <2> DEFINE p == negotiations[n].result.supersedes
    <2>1. /\ n \in Known /\ Known' = Known /\ p # n
          /\ \A k \in Known \ {n, p} : negotiations'[k] = negotiations[k]
          /\ negotiations[n].state \notin {"ACCEPTED", "SUPERSEDED"}
          /\ negotiations'[n].result = negotiations[n].result
          /\ negotiations'[n].superseded_by = negotiations[n].superseded_by
      BY <1>3 DEF Completed
    <2>2. p # None =>
            /\ p \in Known
            /\ IsRoot(p) \/ negotiations[p].superseded_by = n
            /\ SameContext(negotiations[p].result, negotiations[n].result)
            /\ negotiations'[p].state = "SUPERSEDED" /\ negotiations'[p].superseded_by = n
            /\ negotiations'[p].result = negotiations[p].result
      BY <1>3 DEF Completed
    <2>3. p \in Known => p # None
      BY NoneIsNothing DEF Known
    <2>4. negotiations'[n].superseded_by = None
      BY <2>1 DEF Succession
    <2>5. p = negotiations'[n].result.supersedes
      BY <2>1
    <2> HIDE DEF p
    <2>6. ASSUME NEW m \in Known
          PROVE  negotiations'[m].superseded_by # None <=> negotiations'[m].state = "SUPERSEDED"
      <3>1. n # None /\ negotiations'[n].state = "ACCEPTED"
        BY <1>3, NoneIsNothing DEF Completed
      <3> QED BY <2>1, <2>2, <2>3, <2>4, <3>1 DEF Succession
    <2>7. ASSUME NEW m \in Known, NEW s, s = negotiations'[m].result.supersedes,
                 negotiations'[m].state = "ACCEPTED", s # None
          PROVE  /\ s \in Known
                 /\ negotiations'[s].state = "SUPERSEDED" /\ negotiations'[s].superseded_by = m
                 /\ SameContext(negotiations'[s].result, negotiations'[m].result)
      <3>1. CASE m = n
        <4>1. s = p
          BY <2>5, <2>7, <3>1
        <4> QED BY <2>1, <2>2, <2>7, <3>1, <4>1
      <3>2. CASE m # n
        <4>1. m # p /\ negotiations'[m] = negotiations[m]
          BY <2>1, <2>2, <2>3, <2>7, <3>2
        <4>2. /\ s \in Known
              /\ negotiations[s].state = "SUPERSEDED" /\ negotiations[s].superseded_by = m
              /\ SameContext(negotiations[s].result, negotiations[m].result)
          BY <2>7, <4>1 DEF Succession
        <4>3. s # n /\ s # p
          BY <2>1, <2>2, <2>3, <3>2, <4>2 DEF IsRoot
        <4> QED BY <2>1, <4>1, <4>2, <4>3
      <3> QED BY <3>1, <3>2
    <2> QED BY <2>1, <2>6, <2>7 DEF Succession, SameContext
  <1> QED BY <1>1, <1>2, <1>3, StepEffect

\* The exact acceptance of the current root may be repeated as often as a
\* participant likes until somebody declares anew.
THEOREM Replay == Spec /\ [][NotRevised]_vars => []ReplayIsSafe
  <1>1. Init => Succession
    BY DEF Init, Succession, Known
  <1>2. TypeOK /\ StateIsDecided /\ Succession /\ [Next]_vars /\ [NotRevised]_vars => Succession'
    <2>1. UNCHANGED vars /\ Succession => Succession'
      BY DEF vars, Succession, Known, SameContext
    <2> QED BY <2>1, SuccessionStep
  <1>3. TypeOK /\ AtMostOneRoot /\ Succession => ReplayIsSafe
    <2> SUFFICES ASSUME TypeOK, AtMostOneRoot, Succession,
                        NEW n \in Known, NEW p \in negotiations[n].result.participants,
                        IsRoot(n), BindingsCurrent(negotiations[n].result)
                 PROVE  DecisionCurrent(p, negotiations[n].result, negotiations[n].result.context)
      BY DEF ReplayIsSafe
    <2> DEFINE r == negotiations[n].result
    <2>1. r.negotiation_id = n
      BY StoredNegotiation
    <2>2. \A k \in CurrentRoots(r) : k = n
      BY DEF AtMostOneRoot, CurrentRoots, IsRoot
    <2>3. RootAllows(r)
      BY <2>1, <2>2 DEF RootAllows
    <2>4. PredecessorAllows(r)
      BY <2>1 DEF PredecessorAllows, Succession, IsRoot
    <2> QED BY <2>1, <2>3, <2>4 DEF DecisionCurrent
  <1> QED BY <1>1, <1>2, <1>3, Typing, Decisions, OneRoot, PTL DEF Spec
=============================================================================
