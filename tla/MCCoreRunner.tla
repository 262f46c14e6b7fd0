---------------------------- MODULE MCCoreRunner ----------------------------
(* Short transcripts of one initial agreement, a revision, a second message *)
(* with the revision's id, and their acceptances.                           *)
EXTENDS CoreRunner

CONSTANTS A, B, C, main, c1, s1, s2

R(base, head) == [branch |-> main, base |-> base, head |-> head]

P(id, hash, session, ref) ==
  [type |-> "CONTRACT_PROPOSE", id |-> id, hash |-> hash, session |-> session,
   cid |-> c1, ref |-> ref, structured |-> TRUE, contract_cid |-> c1,
   contract |-> ref.head, hash_ok |-> TRUE]

D(id, hash, p) ==
  [type |-> "CONTRACT_ACCEPT", id |-> id, hash |-> hash, session |-> p.session,
   cid |-> c1, ref |-> p.ref, proposal_message_id |-> p.id,
   proposal_message_hash |-> p.hash, contract_hash |-> p.contract,
   accepted |-> "true", replay |-> FALSE]

First   == P("p1", "hp1", s1, R(None, A))
Rival   == P("p1", "hr", s1, R(None, B))
Revise  == P("p2", "hp2", s1, R(A, C))
Foreigner == P("p3", "hp3", s2, R(None, A))

MCMessages ==
  {First, Rival, Revise, Foreigner, D("a1", "ha1", First), D("a2", "ha2", Revise),
   [D("a3", "ha3", First) EXCEPT !.accepted = "false"]}

MCIds == {m.id : m \in MCMessages}
MCHashes == {m.hash : m \in MCMessages}
MCVersions == {A, B, C}
MCBranches == {main}
MCContractIds == {c1}
MCSessions == {s1, s2}
=============================================================================
