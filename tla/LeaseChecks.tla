---------------------------- MODULE LeaseChecks ----------------------------
(* Checks of the transcripts in which somebody grants a right that later     *)
(* messages use: queue leases (QL) and enforcement verdicts (ENF).           *)
EXTENDS Transcript

Use == {"CONTENT_MESSAGE", "TOOL_CALL_REQUEST"}

(* The leases granted so far are all that counts, even after a new grant.    *)
Grants(T, l) == {i \in Rows(T, {"QUEUE_LEASE_GRANT"}) : T[i].lease = l /\ l # None}
Releases(T, l) == {i \in Rows(T, {"QUEUE_RELEASE"}) : T[i].lease = l}
Known(T, i) == Earlier(Grants(T, T[i].lease), i) # {}
UsesOf(T, l, types) == {i \in Rows(T, types) : T[i].lease = l /\ Known(T, i)}
QLConfig(T) == FirstConfig(T, [required |-> FALSE, correlated |-> FALSE])

QL_LEASE(T) ==
    {i \in Rows(T, {"QUEUE_LEASE_GRANT"}) :
        \/ ~T[i].sound \/ T[i].lease = None
        \/ T[i].msgs \notin Nat \ {0} \/ T[i].calls \notin Nat}
QL_NACK(T) == Unsound(T, {"QUEUE_NACK"})
QL_RELEASE(T) == {i \in Rows(T, {"QUEUE_RELEASE"}) : ~Known(T, i)}
QL_BOUND(T) ==
    {i \in Rows(T, Use) : /\ QLConfig(T).required
                          /\ \/ ~Known(T, i)
                             \/ Earlier(Releases(T, T[i].lease), i) # {}}

(* Overruns are counted at the end, against the last grant of the lease.     *)
Exceeds(T, l, used, calls) ==
    LET grant == T[Greatest(Grants(T, l))]
    IN Cardinality(used) > grant.msgs \/ Cardinality(calls) > grant.calls
QL_OVERRUN(T) ==
    {l \in {T[i].lease : i \in Rows(T, {"QUEUE_LEASE_GRANT"})} \ {None} :
        Exceeds(T, l, UsesOf(T, l, Use), UsesOf(T, l, {"TOOL_CALL_REQUEST"}))}

(* The observation that a contract may require can name any grant.           *)
Uncorrelated(T) ==
    /\ QLConfig(T).correlated
    /\ ~\E i \in Rows(T, {"OBS_SIGNAL"}), j \in Rows(T, {"QUEUE_LEASE_GRANT"}) :
            T[j].lease # None /\ T[j].hash # None /\ T[i].target = T[j].hash
QL_OVERLOAD(T) == Unsound(T, {"OVERLOAD_SIGNAL"}) \cup {i \in {0} : Uncorrelated(T)}

QLPasses(T) ==
    /\ QL_LEASE(T) \cup QL_NACK(T) \cup QL_RELEASE(T) \cup QL_BOUND(T) \cup QL_OVERLOAD(T) = {}
    /\ QL_OVERRUN(T) = {}

-----------------------------------------------------------------------------
(* Enforcement: a contract in blocking mode lets a mediator deliver only     *)
(* what an enforcer allowed.                                                 *)
ENFConfig(T) == FirstConfig(T, [enforcers |-> {}, blocking |-> FALSE, gated |-> None])
Verdicts(T) == Rows(T, {"ENFORCEMENT_VERDICT"})

ENF_SANCTION_CODES(T) == Unsound(T, {"ENFORCEMENT_VERDICT"})
ENF_AUTH(T) ==
    {i \in Verdicts(T) : /\ ENFConfig(T).enforcers # {}
                         /\ T[i].sender \notin ENFConfig(T).enforcers}
ENF_VERDICT_STORM(T) ==
    {i \in Verdicts(T) : /\ T[i].target # None
                         /\ \E j \in Earlier(Verdicts(T), i) : T[j].target = T[i].target}

(* The verdict a delivery names, wherever it stands in the transcript.       *)
Named(T, i) == {j \in Verdicts(T) : T[j].id = T[i].verdict}
(* A mistake: the embedded message is not compared with what was allowed.    *)
VouchesUnseen(T, v, i) ==
    /\ T[v].decision = "ALLOW"
    /\ T[v].target = T[i].original
    /\ ENFConfig(T).gated # None => T[i].embedded.type \in ENFConfig(T).gated
Vouches(T, v, i) ==
    /\ T[v].decision = "ALLOW"
    /\ T[v].target = T[i].original
    /\ T[i].embedded.hash = T[i].original
    /\ ENFConfig(T).gated # None => T[i].embedded.type \in ENFConfig(T).gated
ENF_GATE(T) ==
    {i \in Rows(T, {"CONTENT_DELIVER"}) :
        /\ ENFConfig(T).blocking
        /\ Named(T, i) = {} \/ ~Vouches(T, Greatest(Named(T, i)), i)}

(* What a transcript that passes promises. A use of a lease comes after its  *)
(* grant and before its release, and a lease that was granted once never     *)
(* had more uses, at any moment, than its grant allows.                      *)
QLLegal(T) ==
    \A i \in Rows(T, Use) : LET l == T[i].lease IN
        /\ QLConfig(T).required =>
              \E g \in Grants(T, l) : g < i /\ \A r \in Releases(T, l) : i < r
        /\ \A g \in Grants(T, l) : Grants(T, l) = {g} =>
              /\ Cardinality({j \in UsesOf(T, l, Use) : j <= i}) <= T[g].msgs
              /\ Cardinality({j \in UsesOf(T, l, {"TOOL_CALL_REQUEST"}) : j <= i}) <= T[g].calls

ENFPasses(T) == ENF_SANCTION_CODES(T) \cup ENF_AUTH(T) \cup ENF_GATE(T) = {}

(* What was delivered under a blocking contract is the very message that an  *)
(* enforcer of the contract allowed; and when it has a hash and the storm    *)
(* check of the operations suite passes too, no verdict at all denies it.    *)
ENFLegal(T) ==
    ENFConfig(T).blocking => \A i \in Rows(T, {"CONTENT_DELIVER"}) : \E v \in Verdicts(T) :
        /\ T[v].decision = "ALLOW" /\ T[v].target = T[i].embedded.hash
        /\ ENFConfig(T).enforcers # {} => T[v].sender \in ENFConfig(T).enforcers
        /\ T[v].target # None /\ ENF_VERDICT_STORM(T) = {} => \A w \in Verdicts(T) :
              T[w].target = T[v].target => T[w].decision = "ALLOW"
=============================================================================
