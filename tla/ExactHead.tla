----------------------------- MODULE ExactHead -----------------------------
(***************************************************************************)
(* What Core v0.2 promises of a transcript (docs/core/                     *)
(* AICP_Core_v0.2_Normative.md, sections 6, 7, 10 and 12), with no message,*)
(* hash or tuple in sight: there is one head; a transition becomes a       *)
(* candidate only while its base is exactly the head; and the head moves   *)
(* only along a candidate whose base is exactly the head at that moment.   *)
(* A candidate may be forgotten when a new one is offered.                 *)
(***************************************************************************)
CONSTANTS Transitions, None

VARIABLES head, candidates

vars == <<head, candidates>>

Continues(r) ==
  IF head = None THEN r.base = None
  ELSE r.branch = head.branch /\ r.base = head.head

Init == head = None /\ candidates = {}

Offer(r) ==
  /\ Continues(r)
  /\ candidates' \subseteq candidates \cup {r}
  /\ r \in candidates'
  /\ UNCHANGED head

Decide(r) ==
  /\ r \in candidates
  /\ Continues(r)
  /\ head' = [branch |-> r.branch, base |-> None, head |-> r.head]
  /\ UNCHANGED candidates

Next == \E r \in Transitions : Offer(r) \/ Decide(r)

Spec == Init /\ [][Next]_vars
=============================================================================
