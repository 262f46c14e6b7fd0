-------------------------- MODULE LifecycleChecks --------------------------
(* Checks of the transcripts that follow something with a life of its own:   *)
(* runs and threads (EX), escrowed actions (ES) and responsibility           *)
(* transfers (RP).                                                           *)
EXTENDS Transcript

RunSteps == {"RUN_UPDATE", "RUN_CANCEL", "RUN_COMPLETE"}
RunEnds == {"RUN_CANCEL", "RUN_COMPLETE"}
ThreadSteps == {"THREAD_APPEND", "THREAD_CLOSE"}

RunRows(T, r) == {i \in Rows(T, RunSteps \cup {"RUN_CREATE"}) : T[i].run = r /\ r # None}
Ended(T, i) == Earlier(RunRows(T, T[i].run) \cap Rows(T, RunEnds), i) # {}

(* Any message of a run makes the run known, also one that was refused.      *)
EX_RUN_REF(T) == {i \in Rows(T, RunSteps) : Earlier(RunRows(T, T[i].run), i) = {}}
EX_RUN_TERMINAL(T) == {i \in Rows(T, RunSteps) : Ended(T, i)}
EX_RUN_TRANSITION(T) ==
    {i \in Rows(T, {"RUN_CREATE"}) : Earlier(RunRows(T, T[i].run), i) # {}}
        \cup {i \in Rows(T, RunEnds) : Ended(T, i)}

ThreadRows(T, t, type) == {i \in Rows(T, {type}) : T[i].thread = t /\ t # None}
EX_THREAD_REF(T) ==
    {i \in Rows(T, ThreadSteps) : Earlier(ThreadRows(T, T[i].thread, "THREAD_CREATE"), i) = {}}
EX_THREAD_CLOSED(T) ==
    {i \in Rows(T, ThreadSteps) : Earlier(ThreadRows(T, T[i].thread, "THREAD_CLOSE"), i) # {}}

(* A row that names a run and a thread binds the one to the other, in both   *)
(* directions, over whatever was bound before.                               *)
Binds(T) ==
    {i \in Rows(T, RunSteps \cup ThreadSteps \cup {"RUN_CREATE", "THREAD_CREATE"}) :
        T[i].run # None /\ T[i].thread # None}
BoundBefore(T, i, key) == {j \in Earlier(Binds(T), i) : T[j][key] = T[i][key]}
Rebinds(T, i, key, value) ==
    LET before == BoundBefore(T, i, key)
    IN before # {} /\ T[Greatest(before)][value] # T[i][value]
(* A mistake: two runs can share a thread.                                   *)
BindOneWay(T) == {i \in Binds(T) : Rebinds(T, i, "run", "thread")}
EX_CROSS_BIND(T) ==
    {i \in Binds(T) : Rebinds(T, i, "run", "thread") \/ Rebinds(T, i, "thread", "run")}

(* A reference that must be resolved needs an object found anywhere.         *)
EX_STORE_REF(T) == {i \in DOMAIN T : ~T[i].sound}
Found(T) == {T[i].found : i \in Rows(T, {"OBJECT_RESPONSE"})}
EX_STORE_LINK(T) == {i \in DOMAIN T : T[i].needs # None /\ T[i].needs \notin Found(T)}

EXPasses(T) ==
    EX_RUN_REF(T) \cup EX_RUN_TERMINAL(T) \cup EX_RUN_TRANSITION(T) \cup EX_THREAD_REF(T)
        \cup EX_THREAD_CLOSED(T) \cup EX_CROSS_BIND(T) \cup EX_STORE_REF(T)
        \cup EX_STORE_LINK(T) = {}

(* A run begins with its only creation, ends at most once and then says no   *)
(* more; a thread grows only between its creation and its close; and runs    *)
(* and threads that are bound at all are bound one to one.                   *)
OneLife(T) ==
    \A i \in Rows(T, RunSteps) :
        /\ \E j \in RunRows(T, T[i].run) \cap Rows(T, {"RUN_CREATE"}) : j < i
        /\ \A j \in RunRows(T, T[i].run) : j < i => T[j].type \notin RunEnds
OneCreation(T) ==
    \A i, j \in Rows(T, {"RUN_CREATE"}) : T[i].run = T[j].run /\ T[i].run # None => i = j
OpenThread(T) ==
    \A i \in Rows(T, ThreadSteps) :
        /\ \E j \in ThreadRows(T, T[i].thread, "THREAD_CREATE") : j < i
        /\ \A j \in ThreadRows(T, T[i].thread, "THREAD_CLOSE") : i <= j
OneToOne(T) == \A i, j \in Binds(T) : T[i].run = T[j].run <=> T[i].thread = T[j].thread
EXLegal(T) == OneLife(T) /\ OneCreation(T) /\ OpenThread(T) /\ OneToOne(T)

-----------------------------------------------------------------------------
(* Escrow: prepare, approve, commit. The last preparation and the last       *)
(* approval under an id are the ones a commit must match.                    *)
Escrow(T, e, type) == {i \in Rows(T, {type}) : T[i].escrow = e /\ e # None}
EscrowBefore(T, i, type) == Earlier(Escrow(T, T[i].escrow, type), i)

ES_FLOW(T) ==
    {i \in Rows(T, {"ACTION_PREPARE"}) : EscrowBefore(T, i, "ACTION_PREPARE") # {}}
        \cup {i \in Rows(T, {"ACTION_APPROVE"}) :
                T[i].escrow # None /\ EscrowBefore(T, i, "ACTION_PREPARE") = {}}
        \cup {i \in Rows(T, {"ACTION_COMMIT"}) :
                /\ T[i].escrow # None
                /\ \E type \in {"ACTION_PREPARE", "ACTION_APPROVE"} : EscrowBefore(T, i, type) = {}}
Differs(T, i, type, field) ==
    LET before == EscrowBefore(T, i, type)
    IN before # {} /\ T[Greatest(before)][field] # T[i][field]
ES_BIND(T) ==
    {i \in Rows(T, {"ACTION_COMMIT"}) :
        \/ Differs(T, i, "ACTION_PREPARE", "call")
        \/ Differs(T, i, "ACTION_PREPARE", "policy")
        \/ Differs(T, i, "ACTION_APPROVE", "approval")}
ESPasses(T) == ES_FLOW(T) \cup ES_BIND(T) = {}

(* What is committed under an id is what the id was prepared with, whenever  *)
(* that was, and it was approved in between.                                 *)
ESLegal(T) ==
    \A i \in Rows(T, {"ACTION_COMMIT"}), p \in Rows(T, {"ACTION_PREPARE"}) :
        T[i].escrow # None /\ T[p].escrow = T[i].escrow =>
            /\ T[i].call = T[p].call /\ T[i].policy = T[p].policy
            /\ \E a \in Escrow(T, T[i].escrow, "ACTION_APPROVE") :
                  p < a /\ a < i /\ T[a].approval = T[i].approval

-----------------------------------------------------------------------------
(* Responsibility: a transfer is assigned, then accepted or revoked.         *)
Assigned(T, t) == {i \in Rows(T, {"RESPONSIBILITY_ASSIGN"}) : T[i].transfer = t /\ t # None}
AssignedBefore(T, i) == Earlier(Assigned(T, T[i].transfer), i)
Outcomes == {"RESPONSIBILITY_ACCEPT", "RESPONSIBILITY_REVOKE"}

RS_ASSIGN(T) ==
    {i \in Rows(T, {"RESPONSIBILITY_ASSIGN"}) : ~T[i].sound \/ T[i].transfer = None}
RS_ACCEPT(T) ==
    {i \in Rows(T, Outcomes) : AssignedBefore(T, i) = {}}
        \cup {i \in Rows(T, {"RESPONSIBILITY_ACCEPT"}) :
                /\ AssignedBefore(T, i) # {}
                /\ T[Greatest(AssignedBefore(T, i))].to # T[i].by}
        \cup Unsound(T, {"RESPONSIBILITY_REVOKE"})
RS_LIFECYCLE(T) ==
    {t \in {T[i].transfer : i \in Rows(T, {"RESPONSIBILITY_ASSIGN"})} \ {None} :
        ~\E i \in Rows(T, Outcomes) : T[i].transfer = t}
(* The graph an attestation of failure names can be declared after it.       *)
RS_CHAIN(T) ==
    {i \in Rows(T, {"CHAIN_FAILURE_ATTEST"}) :
        \/ ~T[i].sound
        \/ T[i].transfer # None /\ AssignedBefore(T, i) = {}
        \/ /\ T[i].graph # None
           /\ ~\E j \in Rows(T, {"PROVENANCE_DECLARE"}) : T[j].graph = T[i].graph}
RPPasses(T) == RS_ASSIGN(T) \cup RS_ACCEPT(T) \cup RS_CHAIN(T) = {} /\ RS_LIFECYCLE(T) = {}

(* Every transfer came to an outcome after its first assignment, and only    *)
(* the party that it was last assigned to has accepted it.                   *)
RPLegal(T) ==
    /\ \A a \in Rows(T, {"RESPONSIBILITY_ASSIGN"}) : \E i \in Rows(T, Outcomes) :
          /\ T[i].transfer = T[a].transfer
          /\ \E b \in Assigned(T, T[a].transfer) : b < i
    /\ \A i \in Rows(T, {"RESPONSIBILITY_ACCEPT"}) : \E a \in AssignedBefore(T, i) :
          T[a].to = T[i].by /\ \A b \in AssignedBefore(T, i) : b <= a
(* The reading of the RFC: each assignment has an outcome of its own.        *)
AssignmentsConclude(T) ==
    \A a \in Rows(T, {"RESPONSIBILITY_ASSIGN"}) : \E i \in Rows(T, Outcomes) :
        a < i /\ T[i].transfer = T[a].transfer
=============================================================================
