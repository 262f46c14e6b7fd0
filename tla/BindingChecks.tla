--------------------------- MODULE BindingChecks ---------------------------
(* Checks of the cases of a transport binding (TB), of trust anchors (TR)    *)
(* and of status assertions (SR). Such a suite is a sequence of cases rather *)
(* than of messages: a case is an operation of the binding with the messages *)
(* embedded in it, and may refer to another case by its id.                  *)
EXTENDS Transcript

(* The last case read before under an id.                                    *)
CasesBefore(K, i, id) == {j \in 1 .. i - 1 : K[j].id = id /\ id # None}
CaseNamed(K, i, id) == K[Greatest(CasesBefore(K, i, id))]

(* What the channel promises of the embedded messages: an order, which binds *)
(* each message to the one before it, and how often a message comes.         *)
TB_CP_ORDERING(K) ==
    {i \in DOMAIN K : K[i].ordered /\ \E n \in 2 .. Len(K[i].msgs) :
        None \in {K[i].msgs[n - 1].hash, K[i].msgs[n].prev} \/ K[i].msgs[n].prev # K[i].msgs[n - 1].hash}
Twice(msgs) == {p \in (DOMAIN msgs) \X (DOMAIN msgs) : p[1] < p[2] /\ msgs[p[1]].id = msgs[p[2]].id}
FirstOf(msgs, id) == Least({n \in DOMAIN msgs : msgs[n].id = id})
TB_CP_RELIABILITY(K) ==
    {i \in DOMAIN K :
        \/ K[i].delivery = "at_most_once" /\ Twice(K[i].msgs) # {}
        \/ /\ K[i].delivery = "at_least_once"
           /\ \E n \in DOMAIN K[i].msgs :
                 K[i].msgs[FirstOf(K[i].msgs, K[i].msgs[n].id)].hash # K[i].msgs[n].hash}

(* A pull, over WebSocket or as server-sent events, is answered in frames.   *)
Pulls(K) == {i \in DOMAIN K : K[i].op \in {"wsPullMessages", "ssePullMessages"}}
Delivered(frames) ==
    LET upto[n \in 0 .. Len(frames)] == IF n = 0 THEN 0 ELSE upto[n - 1] + Len(frames[n].pairs)
    IN upto[Len(frames)]
TB_PULL(K) ==
    {i \in Pulls(K) : LET frames == K[i].frames IN
        \/ frames = <<>> /\ ~K[i].overload
        \/ \E n \in DOMAIN frames : frames[n].more # (n < Len(frames))
        \/ Delivered(frames) > K[i].limit}
Embedding(K, i) == {<<K[i].msgs[n].id, K[i].msgs[n].hash>> : n \in DOMAIN K[i].msgs}
TB_MIRROR(K) ==
    {i \in DOMAIN K : \E n \in DOMAIN K[i].frames :
        ~({K[i].frames[n].pairs[k] : k \in DOMAIN K[i].frames[n].pairs} \subseteq Embedding(K, i))}

(* A key names a message when it is the message's id, or ends with it.       *)
TB_HTTP_IDEMPOTENCY(K) ==
    {i \in DOMAIN K : K[i].op = "sendMessage" /\ (K[i].msgs = <<>> \/ K[i].key # K[i].msgs[1].id)}
TB_HTTP_REPLAY(K) ==
    {i \in DOMAIN K : K[i].replayOf # None /\
        \/ CasesBefore(K, i, K[i].replayOf) = {}
        \/ LET base == CaseNamed(K, i, K[i].replayOf) IN
             \/ <<>> \in {base.msgs, K[i].msgs}
             \/ base.msgs[1].id # K[i].msgs[1].id \/ base.msgs[1].hash # K[i].msgs[1].hash
             \/ None \notin {base.scope, K[i].scope} /\ base.scope # K[i].scope
             \/ ~K[i].replayed}
(* A reconnection continues after the last event of the pull it names.       *)
TB_SSE_RECONNECT(K) ==
    {i \in DOMAIN K : K[i].reconnectOf # None /\
        \/ CasesBefore(K, i, K[i].reconnectOf) = {}
        \/ LET pull == CaseNamed(K, i, K[i].reconnectOf) IN
             \/ pull.op # "ssePullMessages" \/ pull.frames = <<>>
             \/ pull.frames[Len(pull.frames)].cursor \notin {K[i].after} \ {None}}
(* Sessions are created anywhere in the suite.                               *)
Created(K) == UNION {K[i].sessions : i \in {j \in DOMAIN K : K[j].op = "createSession"}}
TB_HTTP_SESSION(K) ==
    {i \in DOMAIN K : K[i].op # "createSession" /\
        \/ Cardinality(K[i].sessions) > 1
        \/ K[i].sessions # {} /\ Created(K) # {} /\ ~(K[i].sessions \subseteq Created(K))}
(* Case schema, rate limit and authorization headers.                        *)
TB_SHAPES(K) == {i \in DOMAIN K : ~K[i].sound}
(* Signatures are verified, with the published keys, when that is possible.  *)
TB_EMBEDDED(K, crypto) ==
    {i \in DOMAIN K : \E n \in DOMAIN K[i].msgs :
        ~K[i].msgs[n].sound \/ (crypto /\ ~K[i].msgs[n].signed)}

-----------------------------------------------------------------------------
(* Trust. An anchor list names keys of issuers; the first anchor that fits   *)
(* what an issuer signed is the one whose key must verify it. With no        *)
(* verifier nothing is trusted.                                              *)
Fitting(list, statement) ==
    {n \in DOMAIN list.anchors : LET a == list.anchors[n] IN
        <<a.issuer, a.signer, a.kid>> = <<statement.issuer, statement.signer, statement.kid>>}
SignedUnder(list, statement, crypto) ==
    /\ crypto /\ Fitting(list, statement) # {}
    /\ list.anchors[Least(Fitting(list, statement))].key = statement.by
Covers(list, statement) ==
    /\ None \notin {statement.from, statement.to, list.from, list.to}
    /\ statement.from < statement.to /\ list.from <= statement.from /\ statement.to <= list.to
Trusted(case, crypto) ==
    /\ SignedUnder(case.anchors, case.attestation, crypto)
    /\ Covers(case.anchors, case.attestation)
    /\ case.attestation.list = case.anchors.id
TR_CHAIN(K, crypto) ==
    {i \in DOMAIN K : /\ None \notin {K[i].attestation, K[i].anchors}
                      /\ K[i].trusted # Trusted(K[i], crypto)}

(* Status: what was asked, as of when, answered by an issuer of the list and *)
(* not older when it is observed than it says it may be.                     *)
Answering(query, status) == status.query = query.id /\ status.target = query.target /\ status.asOf = query.asOf
Revocation(status) ==
    CASE status.status = "REVOKED" -> status.revokedAt # None /\ status.revokedAt <= status.asOf
      [] status.status = "GOOD" -> status.revokedAt = None
      [] OTHER -> TRUE
Resolves(case, crypto) == LET status == case.status IN
    /\ SignedUnder(case.anchors, status, crypto) /\ status.list = case.anchors.id
    /\ Answering(case.query, status)
    /\ None \notin {status.asOf, status.maxAge, case.observed}
    /\ Covers(case.anchors, status) /\ status.asOf <= status.from
    /\ case.observed <= status.from + status.maxAge
    /\ Revocation(status)
SR_CHAIN(K, crypto) ==
    {i \in DOMAIN K : /\ None \notin {K[i].status, K[i].anchors, K[i].query}
                      /\ K[i].valid # Resolves(K[i], crypto)}

TBFailing(K, crypto) ==
    TB_CP_ORDERING(K) \cup TB_CP_RELIABILITY(K) \cup TB_PULL(K) \cup TB_MIRROR(K) \cup TB_HTTP_IDEMPOTENCY(K)
        \cup TB_HTTP_REPLAY(K) \cup TB_SSE_RECONNECT(K) \cup TB_HTTP_SESSION(K) \cup TB_SHAPES(K)
        \cup TB_EMBEDDED(K, crypto)
TRFailing(K, crypto) == TB_SHAPES(K) \cup TB_EMBEDDED(K, crypto) \cup TR_CHAIN(K, crypto)
SRFailing(K, crypto) == TB_SHAPES(K) \cup TB_EMBEDDED(K, crypto) \cup SR_CHAIN(K, crypto)

(* Every replay, also of a replay, carries the message of a case that is not *)
(* one and came before it; what a reconnection names is earlier and ends     *)
(* where it continues; and where a message may be repeated, all its copies   *)
(* have one hash.                                                            *)
TBLegal(K) ==
    /\ \A i \in DOMAIN K : K[i].replayOf # None => \E j \in 1 .. i - 1 :
          K[j].replayOf = None /\ <<K[j].msgs[1].id, K[j].msgs[1].hash>> = <<K[i].msgs[1].id, K[i].msgs[1].hash>>
    /\ \A i \in DOMAIN K : K[i].reconnectOf # None => \E j \in 1 .. i - 1 :
          K[j].op = "ssePullMessages" /\ K[j].frames[Len(K[j].frames)].cursor = K[i].after
    /\ \A i \in DOMAIN K : K[i].delivery = "at_least_once" =>
          \A m, n \in DOMAIN K[i].msgs : K[i].msgs[m].id = K[i].msgs[n].id => K[i].msgs[m].hash = K[i].msgs[n].hash
(* What a case proves of a revocation lies before the status was issued, and *)
(* before the list of its anchors ends.                                      *)
SRLegal(K) ==
    \A i \in DOMAIN K :
        /\ K[i].valid /\ None \notin {K[i].status, K[i].anchors, K[i].query}
        /\ K[i].status.status = "REVOKED"
        => K[i].status.revokedAt <= K[i].status.from /\ K[i].status.revokedAt < K[i].anchors.to
(* The reading of the RFC: it is as of a moment within its own validity.     *)
AsOfInWindow(K) ==
    \A i \in DOMAIN K : K[i].valid /\ K[i].status # None =>
        K[i].status.from <= K[i].status.asOf /\ K[i].status.asOf <= K[i].status.to
=============================================================================
