--------------------------- MODULE LineageChecks ---------------------------
(* Checks of the transcripts in which something is derived from something    *)
(* earlier: provenance graphs (PR), workflows (WF) and delegations (DL).     *)
EXTENDS Transcript

GraphTypes == {"PROVENANCE_DECLARE", "PROVENANCE_APPEND"}
Declares(T, g) == {i \in Rows(T, {"PROVENANCE_DECLARE"}) : T[i].graph = g /\ g # None}
DeclaredBefore(T, i) == Earlier(Declares(T, T[i].graph), i)

(* Where a node stands: the message and the place in its list.               *)
Places(T) == UNION {{i} \X DOMAIN T[i].nodes : i \in Rows(T, GraphTypes)}
NodeAt(T, p) == T[p[1]].nodes[p[2]]
Before(p, q) == p[1] < q[1] \/ (p[1] = q[1] /\ p[2] < q[2])

(* The nodes of a graph that was never declared, or has no name, are kept    *)
(* for the one message only.                                                 *)
Kept(T, i) == T[i].graph # None /\ (T[i].type = "PROVENANCE_DECLARE" \/ DeclaredBefore(T, i) # {})
SameGraph(T, p, q) == p[1] = q[1] \/ (Kept(T, p[1]) /\ T[p[1]].graph = T[q[1]].graph)
KnownNodes(T, q) ==
    {NodeAt(T, p).node : p \in {p \in Places(T) : Before(p, q) /\ SameGraph(T, p, q)}} \ {None}

PR_NODE(T) == {q \in Places(T) : NodeAt(T, q).node = None \/ ~NodeAt(T, q).sound}
PR_LINK(T) == {q \in Places(T) : ~(NodeAt(T, q).parents \subseteq KnownNodes(T, q))}
PR_APPEND(T) ==
    {i \in Rows(T, {"PROVENANCE_DECLARE"}) : DeclaredBefore(T, i) # {}}
        \cup {i \in Rows(T, {"PROVENANCE_APPEND"}) : DeclaredBefore(T, i) = {}}
        \cup {q[1] : q \in {q \in Places(T) : NodeAt(T, q).node \in KnownNodes(T, q)}}
PRPasses(T) == PR_NODE(T) = {} /\ PR_LINK(T) = {} /\ PR_APPEND(T) = {}

(* In each graph a node stands once, all its parents are nodes of the graph, *)
(* and no node is its own ancestor: every set of nodes has one without a     *)
(* parent in it.                                                             *)
PlacesOf(T, g) == {p \in Places(T) : T[p[1]].graph = g}
PRLegal(T) ==
    \A g \in {T[i].graph : i \in Rows(T, GraphTypes)} \ {None} :
        /\ \A p, q \in PlacesOf(T, g) : NodeAt(T, p).node = NodeAt(T, q).node => p = q
        /\ \A p \in PlacesOf(T, g) :
              NodeAt(T, p).parents \subseteq {NodeAt(T, q).node : q \in PlacesOf(T, g)}
        /\ \A S \in (SUBSET PlacesOf(T, g)) \ {{}} : \E p \in S :
              \A q \in S : NodeAt(T, q).node \notin NodeAt(T, p).parents

-----------------------------------------------------------------------------
(* Workflows: the state of a workflow is what its last declaration or update *)
(* says; a version that cannot be read as a number is None.                  *)
Heads(T, w) ==
    {i \in Rows(T, {"WORKFLOW_DECLARE", "WORKFLOW_UPDATE"}) : T[i].workflow = w /\ w # None}
HeadsBefore(T, i) == Earlier(Heads(T, T[i].workflow), i)
Advances(previous, next) ==
    /\ next.base = previous.artifact
    /\ previous.version # None /\ next.version # None
    /\ previous.version < next.version

WORK_DECL(T) == Unsound(T, {"WORKFLOW_DECLARE"})
WORK_UPD(T) ==
    {i \in Rows(T, {"WORKFLOW_UPDATE"}) :
        \/ HeadsBefore(T, i) = {}
        \/ ~Advances(T[Greatest(HeadsBefore(T, i))], T[i])}
WORK_REF(T) == {i \in Rows(T, {"WORKFLOW_STEP_ATTEST"}) : HeadsBefore(T, i) = {}}
(* Steps are compared with the last step the workflow attested, across its   *)
(* updates.                                                                  *)
Steps(T, w) == {i \in Rows(T, {"WORKFLOW_STEP_ATTEST"}) : T[i].workflow = w /\ T[i].step # None}
WORK_MONO(T) ==
    {i \in {j \in Rows(T, {"WORKFLOW_STEP_ATTEST"}) : T[j].step # None} :
        LET before == Earlier(Steps(T, T[i].workflow), i)
        IN before # {} /\ T[i].step < T[Greatest(before)].step}
WORK_BIND(T) == Unsound(T, {"WORKFLOW_STEP_ATTEST"})
WFPasses(T) == WORK_DECL(T) \cup WORK_UPD(T) \cup WORK_REF(T) \cup WORK_MONO(T) \cup WORK_BIND(T) = {}

(* No workflow steps back, however many steps lie between, and between two   *)
(* declarations its versions only grow.                                      *)
WFLegal(T) ==
    /\ \A i, j \in Rows(T, {"WORKFLOW_STEP_ATTEST"}) :
          /\ i < j /\ T[i].workflow = T[j].workflow
          /\ T[i].step # None /\ T[j].step # None
          => T[i].step <= T[j].step
    /\ \A i \in Rows(T, {"WORKFLOW_UPDATE"}), j \in Rows(T, {"WORKFLOW_UPDATE", "WORKFLOW_DECLARE"}) :
          /\ j < i /\ T[i].workflow = T[j].workflow
          /\ ~\E d \in Rows(T, {"WORKFLOW_DECLARE"}) : j < d /\ d < i /\ T[d].workflow = T[i].workflow
          => T[j].version < T[i].version

-----------------------------------------------------------------------------
(* Delegations: the first grant under an id is the one that counts.          *)
GrantsOf(T, d) == {i \in Rows(T, {"DELEGATION_GRANT"}) : T[i].delegation = d /\ d # None}
FirstGrants(T) ==
    {i \in Rows(T, {"DELEGATION_GRANT"}) :
        T[i].delegation # None /\ Earlier(GrantsOf(T, T[i].delegation), i) = {}}
GrantOf(T, d) == Least(GrantsOf(T, d))
Derived(T) == {i \in FirstGrants(T) : T[i].parent # None}
Orphan(T, i) == GrantsOf(T, T[i].parent) = {} \/ GrantOf(T, T[i].parent) >= i

(* A mistake: a delegation that may not be passed on is passed on.           *)
DepthKept(T) ==
    {i \in Derived(T) : \/ Orphan(T, i)
                        \/ T[GrantOf(T, T[i].parent)].depth <= 0
                        \/ T[i].depth > T[GrantOf(T, T[i].parent)].depth}
DL_DEPTH(T) ==
    {i \in Derived(T) : \/ Orphan(T, i)
                        \/ T[GrantOf(T, T[i].parent)].depth <= 0
                        \/ T[i].depth > T[GrantOf(T, T[i].parent)].depth - 1}
DL_SCOPE(T) ==
    {i \in Derived(T) :
        ~Orphan(T, i) /\ ~(T[i].scope \subseteq T[GrantOf(T, T[i].parent)].scope)}
Attests(T) == Rows(T, {"DELEGATION_RESULT_ATTEST"})
Granted(T, i) == Earlier(GrantsOf(T, T[i].delegation), i) # {}
DL_BIND(T) == {i \in Attests(T) : ~Granted(T, i) \/ ~T[i].sound}
DL_EXPIRY(T) ==
    {i \in Attests(T) : /\ Granted(T, i)
                        /\ LET expiry == T[GrantOf(T, T[i].delegation)].expiry
                           IN expiry = None \/ T[i].time = None \/ T[i].time > expiry}
DLPasses(T) == DL_DEPTH(T) \cup DL_SCOPE(T) \cup DL_BIND(T) \cup DL_EXPIRY(T) = {}

(* Authority only shrinks along a chain of delegations: whatever stands any  *)
(* number of grants above a grant has at least its scope, and as much more   *)
(* depth as there are grants between.                                        *)
Above(T) ==
    LET above[i \in DOMAIN T] ==
        IF i \in Derived(T) /\ ~Orphan(T, i)
        THEN LET p == GrantOf(T, T[i].parent)
             IN {<<p, 1>>} \cup {<<a[1], a[2] + 1>> : a \in above[p]}
        ELSE {}
    IN above
DLLegal(T) ==
    \A i \in FirstGrants(T) : \A a \in Above(T)[i] :
        /\ T[i].scope \subseteq T[a[1]].scope
        /\ T[i].depth + a[2] <= T[a[1]].depth
=============================================================================
