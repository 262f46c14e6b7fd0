--------------------------- MODULE WitnessChecks ---------------------------
(* Checks of what is said about the transcript itself: checkpoints that a    *)
(* witness signs (TW), sessions that are resumed (RS) and projections   *)
(* of the state of a session (SP).                                           *)
EXTENDS Transcript

Submits(T) == Rows(T, {"WITNESS_SUBMIT"})
TWConfig(T) == FirstConfig(T, [strict |-> FALSE, nonrep |-> FALSE])
CheckpointsBefore(T, i) == {T[j].checkpoint : j \in Earlier(Submits(T), i)} \ {None}

(* A head may name any message of the transcript, also a later one.          *)
TW_CHECKPOINT(T) ==
    {i \in Submits(T) : \/ T[i].checkpoint = None
                        \/ T[i].of # T[i].session
                        \/ T[i].head \notin Hashes(T)}
TW_NONREP(T) == {i \in Submits(T) : TWConfig(T).nonrep /\ T[i].origin = None}
(* A head conflicts with the last one under its session and number.          *)
Comparable(T) == {i \in Submits(T) : T[i].of # None /\ T[i].number # None /\ T[i].head # None}
SamePlace(T, i) ==
    {j \in Earlier(Comparable(T), i) : T[j].of = T[i].of /\ T[j].number = T[i].number}
TW_EQUIVOCATION(T) ==
    {i \in Comparable(T) : /\ TWConfig(T).strict /\ SamePlace(T, i) # {}
                           /\ T[Greatest(SamePlace(T, i))].head # T[i].head}
(* A receipt names the message that submitted its checkpoint.                *)
Submitting(T, i) ==
    {j \in Earlier(Submits(T), i) : T[j].hash = T[i].submit /\ T[i].submit # None}
TW_RECEIPT(T) ==
    {i \in Rows(T, {"WITNESS_RECEIPT"}) :
        \/ Submitting(T, i) = {}
        \/ T[i].checkpoint \notin CheckpointsBefore(T, i)
        \/ T[Greatest(Submitting(T, i))].checkpoint \notin {None, T[i].checkpoint}}
TW_HEAD(T) ==
    {i \in Rows(T, {"HEAD_EXCHANGE"}) : T[i].of # T[i].session \/ T[i].head \notin Hashes(T)}
TW_INCLUSION(T) ==
    {i \in Rows(T, {"INCLUSION_PROOF_DECLARE"}) :
        T[i].checkpoint \notin CheckpointsBefore(T, i) \/ T[i].target \notin Hashes(T)}
TWPasses(T) ==
    TW_CHECKPOINT(T) \cup TW_NONREP(T) \cup TW_EQUIVOCATION(T) \cup TW_RECEIPT(T)
        \cup TW_HEAD(T) \cup TW_INCLUSION(T) = {}

(* Under strict consensus no two checkpoints of a session give two heads to  *)
(* one number; a receipt is for a checkpoint of this session, and a head of  *)
(* this transcript.                                                          *)
TWLegal(T) ==
    /\ TWConfig(T).strict => \A i, j \in Comparable(T) :
          T[i].number = T[j].number /\ T[i].session = T[j].session => T[i].head = T[j].head
    /\ \A i \in Rows(T, {"WITNESS_RECEIPT"}) : \E j \in Earlier(Submits(T), i) :
          /\ T[j].hash = T[i].submit /\ T[j].checkpoint = T[i].checkpoint
          /\ T[j].of = T[j].session /\ \E k \in DOMAIN T : T[k].hash = T[j].head

-----------------------------------------------------------------------------
(* Resume: a request is answered by the first later response under its id    *)
(* and session, or else by the first response of all.                        *)
Requests(T) == Rows(T, {"RESUME_REQUEST"})
Answers(T, i) ==
    {j \in Rows(T, {"RESUME_RESPONSE"}) : T[j].resume = T[i].resume /\ T[j].of = T[i].of}
Answer(T, i) ==
    LET later == {j \in Answers(T, i) : i < j}
    IN Least(IF later # {} THEN later ELSE Answers(T, i))

RS_ACTIONS(T) == Unsound(T, {"RESUME_RESPONSE"})
Contradicts(T, i, answer) ==
    \/ answer.head = None
    \/ answer.status = "OK" /\ answer.head # T[i].seen
    \/ answer.status = "NEEDS_RESYNC" /\ answer.head = T[i].seen
RS_RESUME_MATCH(T) ==
    {i \in Requests(T) : Answers(T, i) = {} \/ Contradicts(T, i, T[Answer(T, i)])}

(* The loop check walks the rows with a streak of equal cycles.              *)
Cycle(T, i) == <<T[i].of, T[i].seen, T[i + 1].head>>
Paired(T, i) == i < Len(T) /\ T[i].type = "RESUME_REQUEST" /\ T[i + 1].type = "RESUME_RESPONSE"
Stuck(T, i) == T[i + 1].of = T[i].of /\ T[i + 1].status = "NEEDS_RESYNC"
NoStreak == [anchor |-> <<>>, streak |-> 0]
Streak(T, before, i) ==
    IF Stuck(T, i)
    THEN [anchor |-> Cycle(T, i),
          streak |-> IF before.anchor = Cycle(T, i) THEN before.streak + 1 ELSE 1]
    ELSE NoStreak
(* The streak after the rows up to i; a pair counts at its response.         *)
Streaks(T) ==
    LET after[i \in 0 .. Len(T)] ==
        CASE i >= 2 /\ Paired(T, i - 1) -> Streak(T, after[i - 2], i - 1)
          [] OTHER -> NoStreak
    IN after
RS_LOOP(T) == {i \in DOMAIN T : Streaks(T)[i].streak >= 3}

RSPasses(T) == RS_ACTIONS(T) \cup RS_RESUME_MATCH(T) \cup RS_LOOP(T) = {}

(* Nowhere do three exchanges in a row ask for the same resynchronisation,   *)
(* and each request has an answer that agrees with it about the head.        *)
NoLoop(T) ==
    ~\E i \in 1 .. Len(T) - 5 : \A k \in {0, 2, 4} :
        Paired(T, i + k) /\ Stuck(T, i + k) /\ Cycle(T, i + k) = Cycle(T, i)
RSLegal(T) ==
    /\ NoLoop(T)
    /\ \A i \in Requests(T) : \E j \in Answers(T, i) :
          T[j].status = "OK" => T[j].head = T[i].seen

-----------------------------------------------------------------------------
(* Projections of the state of the session, checked against the transcript   *)
(* around them.                                                              *)
Projections(T) == Rows(T, {"STATE_PROJECTION"})
HeadOf(b) == <<b.branch, b.version>>
SP_SESSION(T) == {i \in Projections(T) : T[i].state.session # T[i].session}
SP_CONTRACT(T) == {i \in Projections(T) : T[i].state.contract # T[i].contract}
(* The hash, and the shapes of references, profile and extensions.           *)
SP_SHAPES(T) == Unsound(T, {"STATE_PROJECTION"})
SP_AS_OF(T) ==
    {i \in Projections(T) :
        T[i].state.asOf \notin {T[j].hash : j \in 1 .. i} \cup {b.hash : b \in T[i].heads}}
SP_ACTIVE_HEAD(T) ==
    {i \in Projections(T) :
        \/ \E b, c \in T[i].heads : b # c /\ HeadOf(b) = HeadOf(c)
        \/ /\ T[i].active # None /\ T[i].state.ref # None
           /\ \/ T[i].state.ref.version # T[i].active
              \/ ~\E b \in T[i].heads : HeadOf(b) = <<T[i].state.ref.branch, T[i].active>>}
(* Evidence must lie before the projection.                                  *)
SP_REFERENCE(T) ==
    {i \in Projections(T) : \E e \in T[i].state.evidence :
        e \notin {T[j].hash : j \in 1 .. i - 1} \cup {T[j].id : j \in 1 .. i - 1}}
SP_STATE(T) ==
    {i \in Projections(T) :
        \/ (T[i].state.status = "CONFLICTED") # (T[i].state.conflicts # {})
        \/ /\ T[i].state.status = "CLOSED"
           /\ T[i].final = None \/ T[i].active \notin {None, T[i].final}}
SPPasses(T) ==
    SP_SESSION(T) \cup SP_CONTRACT(T) \cup SP_SHAPES(T) \cup SP_AS_OF(T)
        \cup SP_ACTIVE_HEAD(T) \cup SP_REFERENCE(T) \cup SP_STATE(T) = {}

(* A projection that names a head names one that it declares, only once, and *)
(* a closed session has no other head than its final one.                    *)
SPLegal(T) ==
    \A i \in Projections(T) : LET state == T[i].state IN
        /\ T[i].active # None /\ state.ref # None =>
              Cardinality({b \in T[i].heads : HeadOf(b) = HeadOf(state.ref)}) = 1
        /\ state.status = "CLOSED" /\ T[i].active # None /\ state.ref # None =>
              state.ref.version = T[i].final /\ state.conflicts = {}
        /\ \A e \in state.evidence : \E j \in 1 .. i - 1 : e \in {T[j].hash, T[j].id}
=============================================================================
