------------------------------ MODULE MCCapneg ------------------------------
(* Two parties.  Each may declare twice; the second declaration of a must    *)
(* supersede its first.  Results are chosen by each configuration.           *)
EXTENDS CapnegProjection, TLC

CONSTANTS a, b, a1, a2, b1, da1, da2, da3, db1, db2, dfor, plain, signed, x, y

MCParties == {a, b}
MCCapabilitiesIds == {a1, a2, b1}
MCDeclarationIds == {da1, da2, da3, db1, db2, dfor}
MCCompositions == {plain, signed}
MCAuthenticated == {signed}

D(id, sender, party, cap, supersedes, supports) ==
  [id |-> id, sender |-> sender, party_id |-> party, capabilities_id |-> cap,
   supersedes |-> supersedes, supports |-> supports, sound |-> TRUE]

FirstDeclarations ==
  {D(da1, a, a, a1, None, {plain, signed}), D(db1, b, b, b1, None, {plain, signed})}

\* A later declaration of a, one that returns to its first capabilities, one
\* that takes a's identifier, and one in another party's name.
AllDeclarations ==
  FirstDeclarations \cup
    {D(da2, a, a, a2, a1, {plain}), D(da3, a, a, a1, a2, {plain}),
     D(db2, b, b, a1, b1, {plain}), D(dfor, b, a, a2, a1, {plain})}

R(n, revision, context, da, composition, supersedes) ==
  [negotiation_id |-> n, revision |-> revision, context |-> context,
   participants |-> {a, b}, bindings |-> (a :> da @@ b :> db1),
   composition |-> composition, supersedes |-> supersedes]

\* A line of negotiations: n2 and n3 may name an earlier one, n2 may belong to
\* another context, and a revision may be proposed under any id.
CONSTANTS n1, n2, n3
Lineage ==
  {R(n1, v, x, da1, plain, None) : v \in 1 .. MaxRevision} \cup
  {R(n2, v, c, da1, plain, s) : v \in 1 .. MaxRevision, c \in {x, y},
                                s \in {None, n1}} \cup
  {R(n3, v, x, da1, plain, s) : v \in 1 .. MaxRevision, s \in {None, n1, n2}}

\* Revisions and new declarations in one context.  n2 may supersede n1; a
\* revision names no later negotiation as its predecessor, as when a successor
\* is written after its predecessor was accepted.
Revisions ==
  {R(n, v, x, d, p, None) : n \in Negotiations, v \in 1 .. MaxRevision,
                            d \in {da1, da2}, p \in {plain, signed}} \cup
  {R(n2, v, x, da1, plain, n1) : v \in 1 .. MaxRevision}

\* Revisions that may also change the predecessor.
Free ==
  {R(n, v, x, da1, plain, s) : n \in Negotiations, v \in 1 .. MaxRevision,
                               s \in Negotiations \cup {None}}
=============================================================================
