----------------------- MODULE MCContractAgreement -----------------------
(* A transcript alphabet for ContractAgreement: two competing initial       *)
(* proposals, two competing revisions of one of them, a revision that goes  *)
(* back, a duplicate message id, and for each of them the decisions, exact, *)
(* replayed and substituted.                                                *)
EXTENDS ContractAgreement

CONSTANTS A, B, C, main, side, c1, c2, s1, s2

R(branch, base, head) == [branch |-> branch, base |-> base, head |-> head]

P(id, hash, ref) ==
  [type |-> "CONTRACT_PROPOSE", id |-> id, hash |-> hash, session |-> s1,
   cid |-> c1, ref |-> ref, structured |-> TRUE, contract_cid |-> c1,
   contract |-> ref.head, hash_ok |-> TRUE]

First   == P("p1", "h1", R(main, None, A))
Rival   == P("p2", "h2", R(side, None, B))
Revise  == P("p3", "h3", R(main, A, B))
Compete == P("p4", "h4", R(main, A, C))
GoBack  == P("p5", "h5", R(main, B, A))
\* The id of Revise, a different message.
Again   == P("p3", "h4", R(main, A, C))
\* A revision of the right head on another branch.
Stray   == P("p6", "h6", R(side, A, C))

Valid == {First, Rival, Revise, Compete, GoBack, Again, Stray}

Faulty ==
  {[First EXCEPT !.structured = FALSE], [First EXCEPT !.contract_cid = c2],
   [Revise EXCEPT !.hash_ok = FALSE], [Revise EXCEPT !.contract = C],
   [First EXCEPT !.ref = None], [Revise EXCEPT !.ref = R(main, B, B)],
   [First EXCEPT !.session = s2], [First EXCEPT !.cid = c2],
   [First EXCEPT !.cid = c2, !.contract_cid = c2]}

Decision(p, accepted, replay) ==
  [type |-> "CONTRACT_ACCEPT", id |-> "m", hash |-> "hm", session |-> s1,
   cid |-> c1, ref |-> p.ref,
   proposal_message_id |-> p.id, proposal_message_hash |-> p.hash,
   contract_hash |-> p.contract, accepted |-> accepted, replay |-> replay]

Decisions ==
  {Decision(p, "true", FALSE) : p \in Valid}
    \cup {Decision(p, "false", FALSE) : p \in {First, Compete}}
    \cup {Decision(p, "true", TRUE) : p \in {First, Revise}}
    \cup {Decision(Revise, "other", FALSE),
          [Decision(Revise, "true", FALSE) EXCEPT !.contract_hash = C],
          [Decision(Revise, "true", FALSE) EXCEPT !.ref = Compete.ref],
          [Decision(First, "true", FALSE) EXCEPT !.ref = None]}

BindingFor(p) ==
  [proposal_message_id |-> p.id, proposal_message_hash |-> p.hash,
   contract_hash |-> p.contract, contract_ref |-> p.ref]

Conflict(ps, p) ==
  [type |-> "RESOLVE_CONFLICT", id |-> "m", hash |-> "hm", session |-> s1,
   cid |-> c1, ref |-> p.ref,
   candidates |-> [i \in 1 .. Len(ps) |-> BindingFor(ps[i])], choose |-> TRUE,
   selected |-> BindingFor(p)]

Resolutions ==
  {Conflict(<<Revise, Compete>>, Revise), Conflict(<<Revise, Compete>>, Compete),
   Conflict(<<Revise, Revise>>, Revise), Conflict(<<Revise, Compete>>, GoBack),
   Conflict(<<First, Rival>>, First),
   [Conflict(<<Revise, Compete>>, Revise) EXCEPT !.choose = FALSE]}

Bound(type) ==
  {[type |-> type, id |-> "m", hash |-> "hm", session |-> s1, cid |-> c1,
    ref |-> ref] :
     ref \in {None, R(main, None, A), R(main, None, B), R(main, A, B), R(main, A, A)}}

ContextMessages ==
  {[type |-> "CONTEXT_AMEND", id |-> "m", hash |-> "hm", session |-> s1, cid |-> c1,
    ref |-> R(main, None, A), effect_none |-> e] : e \in BOOLEAN}

MCIds == {"m", "p1", "p2", "p3", "p4", "p5", "p6"}
MCHashes == {"hm", "h1", "h2", "h3", "h4", "h5", "h6"}
MCVersions == {A, B, C}
MCBranches == {main, side}
MCContractIds == {c1, c2}
MCSessions == {s1, s2}
MCMessages ==
  Valid \cup Faulty \cup Decisions \cup Resolutions \cup ContextMessages
    \cup Bound("ATTEST_ACTION") \cup Bound("ERROR") \cup Bound("OTHER")
=============================================================================
