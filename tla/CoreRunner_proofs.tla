-------------------------- MODULE CoreRunner_proofs --------------------------
(***************************************************************************)
(* Theorems about the Core v0.2 runner, for files of any length, with any  *)
(* number of defects and blank lines, over any messages.                   *)
(*                                                                         *)
(* What the reducer keeps comes from the rows it was given: TraceInv traces*)
(* every record and every decision to the row that brought it, and the     *)
(* checks across rows say that no later row can bring another of the kind. *)
(***************************************************************************)
EXTENDS CoreRunner, ContractAgreement_proofs

\* A message hash covers the message_id: rows whose stored hash was recomputed
\* have one hash only if they have one id.
HashesCoverIds ==
  \A j, k \in Positions :
    rows[j].sound /\ rows[k].sound /\ rows[j].message.hash = rows[k].message.hash
    => rows[j].message.id = rows[k].message.id

\* The file has no blank line.
NoBlankLine == \A i \in Positions : rows[i].line = i

-----------------------------------------------------------------------------
(* The runner runs the reducer. *)

LEMMA RunnerSimulates ==
  ASSUME RunnerTypeOK, [RunnerNext]_allVars
  PROVE  [Next]_vars
<1>1. CASE UNCHANGED vars
  BY <1>1
<1>2. CASE Reduce
  <2>1. rows[position].message \in Messages
    <3>1. rows \in Seq(Row) /\ position \in 1 .. Len(rows)
      BY <1>2 DEF RunnerTypeOK, Reduce
    <3>2. rows[position] \in Row
      BY <3>1
    <3> QED BY <3>2 DEF Row
  <2>2. Handle(rows[position].message) \/ Barred(rows[position].message)
    BY <1>2 DEF Reduce
  <2> QED BY <2>1, <2>2 DEF Next
<1> QED BY <1>1, <1>2 DEF RunnerNext, ReadRow, Validate, Finish, allVars

\* Once validated, the rows and the barred ones are fixed.
Validated ==
  /\ phase = "read" => position = 1 /\ barred = {}
  /\ phase # "read" => barred = InvalidRows

LEMMA InvalidAreRows == InvalidRows \subseteq Positions
BY DEF InvalidRows, RowOfChainError

LEMMA RunnerTypeStep ==
  ASSUME RunnerTypeOK, Validated, [RunnerNext]_allVars
  PROVE  RunnerTypeOK' /\ Validated'
<1>1. TypeOK'
  BY RunnerSimulates, TypeStep DEF RunnerTypeOK
<1>2. CASE UNCHANGED runner
  BY <1>1, <1>2 DEF runner, RunnerTypeOK, Validated, InvalidRows, Positions, SessionChanged,
     DuplicateId, RowOfChainError, LinkBroken
<1>3. ASSUME NEW m \in Messages, NEW linked \in BOOLEAN, NEW sound \in BOOLEAN,
             NEW blank \in 0 .. MaxBlankLines, ReadRow(m, linked, sound, blank)
      PROVE  RunnerTypeOK' /\ Validated'
  <2> DEFINE row == [message |-> m, linked |-> linked, sound |-> sound,
                     line |-> LastLine + blank + 1]
  <2>1. rows \in Seq(Row) /\ Len(rows) < MaxRows
    BY <1>3 DEF RunnerTypeOK, ReadRow
  <2>2. LastLine \in Nat
    <3>1. CASE rows = <<>>
      BY <3>1 DEF LastLine
    <3>2. CASE rows # <<>>
      <4>1. rows[Len(rows)] \in Row
        BY <2>1, <3>2
      <4> QED BY <3>2, <4>1 DEF LastLine, Row
    <3> QED BY <3>1, <3>2
  <2>3. row \in Row
    BY <2>2, RunnerAssumption DEF Row
  <2>4. rows' = Append(rows, row) /\ UNCHANGED <<phase, barred, position>>
    BY <1>3 DEF ReadRow
  <2>5. rows' \in Seq(Row) /\ Len(rows') = Len(rows) + 1
    BY <2>1, <2>3, <2>4
  <2>6. phase = "read" /\ position = 1 /\ barred = {}
    BY <1>3 DEF ReadRow, Validated
  <2> QED BY <1>1, <2>1, <2>4, <2>5, <2>6, RunnerAssumption DEF RunnerTypeOK, Validated
<1>4. CASE Validate
  <2>1. /\ phase' = "reduce" /\ barred' = InvalidRows /\ position' = 1 /\ rows' = rows
        /\ UNCHANGED vars
    BY <1>4 DEF Validate
  <2>2. InvalidRows' = InvalidRows /\ Positions' = Positions
    BY <2>1 DEF InvalidRows, Positions, SessionChanged, DuplicateId, RowOfChainError, LinkBroken
  <2> QED BY <1>1, <2>1, <2>2, InvalidAreRows DEF RunnerTypeOK, Validated
<1>5. CASE Reduce \/ Finish
  <2>1. rows' = rows /\ barred' = barred /\ phase # "read" /\ phase' \in {"reduce", "done"}
    BY <1>5 DEF Reduce, Finish
  <2>2. position' \in 1 .. (Len(rows) + 1)
    BY <1>5 DEF Reduce, Finish, RunnerTypeOK
  <2>3. InvalidRows' = InvalidRows /\ Positions' = Positions
    BY <2>1 DEF InvalidRows, Positions, SessionChanged, DuplicateId, RowOfChainError, LinkBroken
  <2> QED BY <1>1, <2>1, <2>2, <2>3 DEF RunnerTypeOK, Validated
<1> QED BY <1>2, <1>3, <1>4, <1>5 DEF RunnerNext, allVars

LEMMA RunnerTypeInit == RunnerInit => RunnerTypeOK /\ Validated
<1>1. Init => TypeOK
  BY DEF Init, TypeOK, States
<1> QED BY <1>1, RunnerAssumption DEF RunnerInit, RunnerTypeOK, Validated, Positions

(* The runner's own data keep their types, and so does the reducer's state   *)
(* in it, for files of any length.                                           *)
THEOREM RunnerTyping == RunnerSpec => []RunnerTypeOK
BY RunnerTypeInit, RunnerTypeStep, PTL DEF RunnerSpec

(* Whatever the file, what the runner does to the agreement is a behaviour   *)
(* of the reducer: the theorems about every Spec of the reducer hold of it.  *)
THEOREM RunnerRunsReducer == RunnerSpec => Spec
<1>1. RunnerInit => Init
  BY DEF RunnerInit
<1>2. RunnerTypeOK /\ [RunnerNext]_allVars => [Next]_vars
  BY RunnerSimulates
<1> QED BY <1>1, <1>2, RunnerTyping, PTL DEF RunnerSpec, Spec

-----------------------------------------------------------------------------
(* Where the records come from. *)

\* Every stored proposal was brought by a row that was let through, before the
\* position of the reducer.
RecordsTraced ==
  \A i \in Stored :
    /\ proposals[i].message_id = i
    /\ \E k \in 1 .. (position - 1) :
         /\ k \notin barred
         /\ rows[k].message.id = i
         /\ rows[k].message.hash = proposals[i].message_hash

Unread == phase = "read" => session_id = None

TraceInv == RunnerTypeOK /\ Validated /\ Unread /\ RecordsTraced /\ EvidenceSurvives /\ SessionsAgree

\* The row that the reducer handles, when it is not barred.
LetThrough(m) ==
  /\ position \in Positions /\ position \notin barred
  /\ m = rows[position].message /\ m \in Messages
  /\ position' = position + 1 /\ UNCHANGED <<phase, rows, barred>>
  /\ UNCHANGED <<identity, agreement>> \/ EffectOf(m)

LEMMA RunnerStepShape ==
  ASSUME RunnerTypeOK, [RunnerNext]_allVars
  PROVE  \/ /\ UNCHANGED <<identity, agreement>>
            /\ \/ UNCHANGED <<phase, rows, barred, position>>
               \/ /\ phase = "read" /\ phase' = "read" /\ UNCHANGED <<barred, position>>
                  /\ \E row \in Row : rows' = Append(rows, row)
               \/ phase = "read" /\ Validate
               \/ /\ phase = "reduce" /\ position \in barred
                  /\ position' = position + 1 /\ UNCHANGED <<phase, rows, barred>>
               \/ Finish
         \/ phase = "reduce" /\ \E m \in Messages : LetThrough(m)
<1>1. CASE UNCHANGED allVars
  BY <1>1 DEF allVars, vars, runner
<1>2. ASSUME NEW m \in Messages, NEW linked \in BOOLEAN, NEW sound \in BOOLEAN,
             NEW blank \in 0 .. MaxBlankLines, ReadRow(m, linked, sound, blank)
      PROVE  /\ phase = "read" /\ phase' = "read" /\ UNCHANGED <<barred, position>>
             /\ UNCHANGED <<identity, agreement>>
             /\ \E row \in Row : rows' = Append(rows, row)
  <2>1. LastLine \in Nat
    <3>1. CASE rows = <<>>
      BY <3>1 DEF LastLine
    <3>2. CASE rows # <<>>
      <4>1. rows[Len(rows)] \in Row
        BY <3>2 DEF RunnerTypeOK
      <4> QED BY <3>2, <4>1 DEF LastLine, Row
    <3> QED BY <3>1, <3>2
  <2>2. [message |-> m, linked |-> linked, sound |-> sound, line |-> LastLine + blank + 1] \in Row
    BY <2>1, RunnerAssumption DEF Row
  <2> QED BY <1>2, <2>2 DEF ReadRow, vars
<1>3. CASE Validate \/ Finish
  BY <1>3 DEF Validate, Finish, vars
<1>4. CASE Reduce
  <2> DEFINE m == rows[position].message
  <2>1. position \in Positions /\ m \in Messages
    <3>1. rows \in Seq(Row) /\ position \in 1 .. Len(rows)
      BY <1>4 DEF RunnerTypeOK, Reduce
    <3>2. rows[position] \in Row
      BY <3>1
    <3> QED BY <3>1, <3>2 DEF Row, Positions
  <2>2. phase = "reduce" /\ position' = position + 1 /\ UNCHANGED <<phase, rows, barred>>
    BY <1>4 DEF Reduce
  <2>3. CASE position \in barred
    <3>1. UNCHANGED <<identity, agreement>>
      BY <1>4, <2>3 DEF Reduce, Barred
    <3> QED BY <2>2, <2>3, <3>1
  <2>4. CASE position \notin barred
    <3>1. Handle(m)
      BY <1>4, <2>4 DEF Reduce
    <3>2. UNCHANGED <<identity, agreement>> \/ EffectOf(m)
      BY <2>1, <3>1, HandleShape
    <3> QED BY <2>1, <2>2, <2>4, <3>2 DEF LetThrough
  <2> QED BY <2>3, <2>4
<1> QED BY <1>1, <1>2, <1>3, <1>4 DEF RunnerNext

LEMMA FirstRowKept ==
  ASSUME NEW S, NEW s \in Seq(S), NEW e \in S, s # <<>>
  PROVE  Append(s, e)[1] = s[1]
OBVIOUS

LEMMA StoredKept ==
  ASSUME TypeOK, NEW m, Stores(m), m.id \notin Stored
  PROVE  /\ m.id \in Ids /\ m.hash \in Hashes
         /\ Stored' = Stored \cup {m.id}
         /\ \A i \in Stored : proposals'[i] = proposals[i]
         /\ proposals'[m.id] = RecordOf(m)
         /\ \A h \in Hashes \ {m.hash} : proposals_by_hash'[h] = proposals_by_hash[h]
         /\ proposals_by_hash'[m.hash] = RecordOf(m)
<1>1. /\ m.id \in Ids /\ m.hash \in Hashes
      /\ proposals' = [proposals EXCEPT ![m.id] = RecordOf(m)]
      /\ proposals_by_hash' = [proposals_by_hash EXCEPT ![m.hash] = RecordOf(m)]
      /\ RecordOf(m) \in ProposalRecord
  BY DEF Stores, Proposals, StoreProposal, RecordOf, ProposalRecord
<1>2. RecordOf(m) # None
  BY <1>1, MessagesAssumption
<1>3. /\ proposals \in [Ids -> ProposalRecord \cup {None}]
      /\ proposals_by_hash \in [Hashes -> ProposalRecord \cup {None}]
  BY DEF TypeOK
<1>4. \A i \in Ids : proposals'[i] = IF i = m.id THEN RecordOf(m) ELSE proposals[i]
  BY <1>1, <1>3
<1>5. Stored' = Stored \cup {m.id}
  BY <1>1, <1>2, <1>4 DEF Stored
<1> QED BY <1>1, <1>3, <1>4, <1>5 DEF Stored

\* The row at hand brings an id that no stored proposal has.
LEMMA NewId ==
  ASSUME RunnerTypeOK, Validated, RecordsTraced, phase = "reduce", NEW m, LetThrough(m)
  PROVE  /\ m.id \notin Stored
         /\ m.session = rows[1].message.session
         /\ rows[position].sound
         /\ \A k \in 1 .. (position - 1) : rows[k].message.id # m.id
<1>1. position \notin InvalidRows /\ position \in Positions /\ m = rows[position].message
  BY DEF LetThrough, Validated
<1>2. ~SessionChanged(position) /\ ~DuplicateId(position) /\ rows[position].sound
  BY <1>1 DEF InvalidRows
<1>3. \A k \in 1 .. (position - 1) : rows[k].message.id # m.id
  BY <1>1, <1>2 DEF DuplicateId
<1> QED BY <1>1, <1>2, <1>3 DEF RecordsTraced, SessionChanged

LEMMA TraceThrough ==
  ASSUME TraceInv, phase = "reduce", NEW m, LetThrough(m)
  PROVE  RecordsTraced' /\ EvidenceSurvives' /\ SessionsAgree'
<1> USE DEF TraceInv
<1>1. position \in Nat /\ position' = position + 1 /\ rows' = rows /\ barred' = barred
  BY DEF LetThrough, RunnerTypeOK
<1>2. \A k \in 1 .. (position - 1) : k \in 1 .. (position' - 1)
  BY <1>1
<1>3. CASE UNCHANGED <<identity, agreement>>
  BY <1>1, <1>2, <1>3 DEF identity, agreement, RecordsTraced, EvidenceSurvives, SessionsAgree, Stored
<1>4. CASE EffectOf(m)
  <2>1. session_id' = m.session /\ m.session = rows'[1].message.session
    BY <1>1, <1>4, NewId DEF EffectOf, Adopts
  <2>2. SessionsAgree'
    BY <2>1 DEF SessionsAgree
  <2>3. CASE UNCHANGED agreement
    BY <1>1, <1>2, <2>2, <2>3 DEF agreement, RecordsTraced, EvidenceSurvives, Stored
  <2>4. CASE Stores(m)
    <3>1. TypeOK /\ m.id \notin Stored
      BY NewId DEF RunnerTypeOK
    <3>2. RecordsTraced'
      <4>1. SUFFICES ASSUME NEW i \in Stored'
                     PROVE  /\ proposals'[i].message_id = i
                            /\ \E k \in 1 .. (position' - 1) :
                                 /\ k \notin barred
                                 /\ rows[k].message.id = i
                                 /\ rows[k].message.hash = proposals'[i].message_hash
        BY <1>1 DEF RecordsTraced
      <4>2. CASE i \in Stored
        BY <1>2, <2>4, <3>1, <4>2, StoredKept DEF RecordsTraced
      <4>3. CASE i = m.id
        <5>1. proposals'[i].message_id = i /\ proposals'[i].message_hash = m.hash
          <6>1. proposals'[m.id] = RecordOf(m)
            BY <2>4, <3>1, StoredKept
          <6> QED BY <4>3, <6>1 DEF RecordOf
        <5>2. position \in 1 .. (position' - 1) /\ position \notin barred /\ rows[position].message = m
          BY <1>1 DEF LetThrough, Positions
        <5> QED BY <4>3, <5>1, <5>2
      <4> QED BY <2>4, <3>1, <4>2, <4>3, StoredKept
    <3>3. EvidenceSurvives'
      <4>1. UNCHANGED <<acceptance_tuples, rejected_tuples>>
        BY <2>4 DEF Stores
      <4>2. \A t \in acceptance_tuples \cup rejected_tuples :
              t.binding.proposal_message_id \in Stored
        BY DEF EvidenceSurvives, Stored, RunnerTypeOK, TypeOK, Tuple, Binding
      <4> QED BY <2>4, <3>1, <4>1, <4>2, StoredKept DEF EvidenceSurvives
    <3> QED BY <2>2, <3>2, <3>3
  <2>5. CASE Accepts(m) \/ Rejects(m)
    <3>1. UNCHANGED <<proposals, proposals_by_hash>>
      BY <2>5 DEF Accepts, Rejects
    <3>2. RecordsTraced'
      BY <1>1, <1>2, <3>1 DEF RecordsTraced, Stored
    <3>3. \A t \in acceptance_tuples' \cup rejected_tuples' :
            t \in acceptance_tuples \cup rejected_tuples \/ t = TupleOf(m)
      BY <2>5 DEF Accepts, Rejects, AcceptProposal, RejectProposal
    <3>4. m.proposal_message_id \in Stored
      BY <2>5, ExactTuple DEF Accepts, Rejects, RunnerTypeOK
    <3>5. TupleOf(m).binding = BindingOf(proposals[m.proposal_message_id])
      BY DEF TupleOf
    <3>6. TupleOf(m).binding.proposal_message_id = m.proposal_message_id
      BY <3>4, <3>5 DEF BindingOf, RecordsTraced
    <3>7. proposals[m.proposal_message_id] # None
      BY <3>4 DEF Stored
    <3>8. EvidenceSurvives'
      BY <3>1, <3>3, <3>5, <3>6, <3>7 DEF EvidenceSurvives
    <3> QED BY <2>2, <3>2, <3>8
  <2>6. CASE Resolves(m)
    BY <1>1, <1>2, <2>2, <2>6 DEF Resolves, RecordsTraced, EvidenceSurvives, Stored
  <2> QED BY <1>4, <2>3, <2>4, <2>5, <2>6 DEF EffectOf
<1> QED BY <1>3, <1>4 DEF LetThrough

LEMMA TraceStep ==
  ASSUME TraceInv, [RunnerNext]_allVars
  PROVE  TraceInv'
<1> USE DEF TraceInv
<1>1. RunnerTypeOK' /\ Validated'
  BY RunnerTypeStep
<1>2. CASE UNCHANGED <<identity, agreement, phase, rows, barred, position>>
  BY <1>1, <1>2 DEF identity, agreement, Unread, RecordsTraced, EvidenceSurvives, SessionsAgree, Stored
<1>3. ASSUME UNCHANGED <<identity, agreement, barred, position>>, phase = "read", phase' = "read",
             NEW row \in Row, rows' = Append(rows, row)
      PROVE  TraceInv'
  <2>1. position = 1 /\ session_id = None
    BY <1>3 DEF Validated, Unread
  <2>2. Stored = {} /\ Stored' = {}
    BY <1>3, <2>1 DEF RecordsTraced, Stored, agreement
  <2>3. RecordsTraced' /\ SessionsAgree' /\ Unread'
    BY <1>3, <2>1, <2>2 DEF RecordsTraced, SessionsAgree, Unread, identity
  <2>4. EvidenceSurvives'
    BY <1>3 DEF EvidenceSurvives, agreement
  <2> QED BY <1>1, <2>3, <2>4
<1>4. ASSUME UNCHANGED <<identity, agreement>>, phase = "read", Validate
      PROVE  TraceInv'
  <2>1. position = 1 /\ session_id = None /\ position' = 1 /\ rows' = rows /\ phase' = "reduce"
    BY <1>4 DEF Validated, Unread, Validate
  <2>2. Stored = {} /\ Stored' = {}
    BY <1>4, <2>1 DEF RecordsTraced, Stored, agreement
  <2>3. RecordsTraced' /\ SessionsAgree' /\ Unread'
    BY <1>4, <2>1, <2>2 DEF RecordsTraced, SessionsAgree, Unread, identity
  <2>4. EvidenceSurvives'
    BY <1>4 DEF EvidenceSurvives, agreement
  <2> QED BY <1>1, <2>3, <2>4
<1>5. ASSUME UNCHANGED <<identity, agreement>>, phase = "reduce", position \in barred,
             position' = position + 1, UNCHANGED <<phase, rows, barred>>
      PROVE  TraceInv'
  <2>1. \A k \in 1 .. (position - 1) : k \in 1 .. (position' - 1)
    BY <1>5 DEF RunnerTypeOK
  <2>2. RecordsTraced' /\ SessionsAgree' /\ Unread' /\ EvidenceSurvives'
    BY <1>5, <2>1 DEF RecordsTraced, SessionsAgree, Unread, EvidenceSurvives, identity, agreement, Stored
  <2> QED BY <1>1, <2>2
<1>6. ASSUME UNCHANGED <<identity, agreement>>, Finish
      PROVE  TraceInv'
  <2>1. RecordsTraced' /\ SessionsAgree' /\ Unread' /\ EvidenceSurvives'
    BY <1>6 DEF Finish, RecordsTraced, SessionsAgree, Unread, EvidenceSurvives, identity, agreement, Stored
  <2> QED BY <1>1, <2>1
<1>7. ASSUME phase = "reduce", NEW m \in Messages, LetThrough(m)
      PROVE  TraceInv'
  BY <1>1, <1>7, TraceThrough DEF LetThrough, Unread
<1> QED
  <2>1. \/ /\ UNCHANGED <<identity, agreement>>
           /\ \/ UNCHANGED <<phase, rows, barred, position>>
              \/ /\ phase = "read" /\ phase' = "read" /\ UNCHANGED <<barred, position>>
                 /\ \E row \in Row : rows' = Append(rows, row)
              \/ phase = "read" /\ Validate
              \/ /\ phase = "reduce" /\ position \in barred
                 /\ position' = position + 1 /\ UNCHANGED <<phase, rows, barred>>
              \/ Finish
        \/ phase = "reduce" /\ \E m \in Messages : LetThrough(m)
    BY RunnerStepShape
  <2> HIDE DEF TraceInv
  <2> QED BY <1>2, <1>3, <1>4, <1>5, <1>6, <1>7, <2>1

LEMMA TraceInit == RunnerInit => TraceInv
<1> SUFFICES ASSUME RunnerInit PROVE TraceInv
  OBVIOUS
<1>1. Stored = {} /\ session_id = None /\ acceptance_tuples = {} /\ rejected_tuples = {}
  BY DEF RunnerInit, Init, Stored
<1> QED BY <1>1, RunnerTypeInit
        DEF TraceInv, Unread, RecordsTraced, EvidenceSurvives, SessionsAgree

LEMMA TraceHolds == RunnerSpec => []TraceInv
BY TraceInit, TraceStep, PTL DEF RunnerSpec

(* No row that the runner lets through replaces a proposal under a decision: *)
(* every decision on record goes on naming a stored proposal exactly         *)
(* (contract_agreement.py:364, aicp_core_v02_runner.py).                     *)
THEOREM Survival == RunnerSpec => []EvidenceSurvives
BY TraceHolds, PTL DEF TraceInv

(* The reducer's session is the one the runner compares every row with.      *)
THEOREM OneSession == RunnerSpec => []SessionsAgree
BY TraceHolds, PTL DEF TraceInv

-----------------------------------------------------------------------------
(* The index by hash. *)

LEMMA HashThrough ==
  ASSUME TraceInv, IndexesAgree, HashesCoverIds, phase = "reduce", NEW m, LetThrough(m)
  PROVE  IndexesAgree'
<1> USE DEF TraceInv
<1>1. CASE UNCHANGED <<proposals, proposals_by_hash>>
  BY <1>1 DEF IndexesAgree, Stored
<1>2. CASE Stores(m)
  <2>1. TypeOK /\ m.id \notin Stored /\ rows[position].sound /\ m = rows[position].message
    BY NewId DEF RunnerTypeOK, LetThrough
  <2>2. /\ m.id \in Ids /\ m.hash \in Hashes /\ Stored' = Stored \cup {m.id}
        /\ \A i \in Stored : proposals'[i] = proposals[i]
        /\ proposals'[m.id] = RecordOf(m)
        /\ \A h \in Hashes \ {m.hash} : proposals_by_hash'[h] = proposals_by_hash[h]
        /\ proposals_by_hash'[m.hash] = RecordOf(m)
    BY <1>2, <2>1, StoredKept
  <2>3. RecordOf(m).message_id = m.id /\ RecordOf(m).message_hash = m.hash
    BY DEF RecordOf
  \* A stored proposal came from a sound row, whose hash is another.
  <2>4. ASSUME NEW i \in Stored
        PROVE  proposals[i].message_hash \in Hashes \ {m.hash}
    <3>1. PICK k \in 1 .. (position - 1) :
            k \notin barred /\ rows[k].message.id = i /\ rows[k].message.hash = proposals[i].message_hash
      BY DEF RecordsTraced
    <3>2. k \in Positions /\ position \in Positions
      BY DEF Positions, LetThrough, RunnerTypeOK
    <3>3. rows[k].sound
      BY <3>1, <3>2 DEF Validated, InvalidRows, LetThrough
    <3>4. rows[k].message.hash # m.hash
      BY <2>1, <3>1, <3>2, <3>3 DEF HashesCoverIds
    <3>5. proposals[i] \in ProposalRecord
      BY <2>1 DEF TypeOK, Stored
    <3> QED BY <3>1, <3>4, <3>5 DEF ProposalRecord
  <2>5. \A i \in Stored' : proposals_by_hash'[proposals'[i].message_hash] = proposals'[i]
    <3>1. ASSUME NEW i \in Stored
          PROVE  proposals_by_hash'[proposals'[i].message_hash] = proposals'[i]
      BY <2>2, <2>4, <3>1 DEF IndexesAgree
    <3> QED BY <2>2, <2>3, <3>1
  <2>6. ASSUME NEW h \in Hashes, proposals_by_hash'[h] # None
        PROVE  proposals'[proposals_by_hash'[h].message_id] = proposals_by_hash'[h]
    <3>1. CASE h = m.hash
      BY <2>2, <2>3, <3>1
    <3>2. CASE h # m.hash
      <4>1. proposals_by_hash'[h] = proposals_by_hash[h] /\ proposals_by_hash[h] # None
        BY <2>2, <2>6, <3>2
      <4>2. proposals_by_hash[h] \in ProposalRecord
        BY <2>1, <4>1 DEF TypeOK
      <4>3. proposals[proposals_by_hash[h].message_id] = proposals_by_hash[h]
        BY <4>1 DEF IndexesAgree
      <4>4. proposals_by_hash[h].message_id \in Stored
        BY <4>1, <4>2, <4>3 DEF Stored, ProposalRecord
      <4> QED BY <2>2, <4>1, <4>3, <4>4
    <3> QED BY <3>1, <3>2
  <2> QED BY <2>5, <2>6 DEF IndexesAgree
<1>3. UNCHANGED <<proposals, proposals_by_hash>> \/ Stores(m)
  BY DEF LetThrough, EffectOf, agreement, Accepts, Rejects, Resolves
<1> QED BY <1>1, <1>2, <1>3

LEMMA HashStep ==
  ASSUME TraceInv, IndexesAgree, HashesCoverIds, [RunnerNext]_allVars
  PROVE  IndexesAgree'
<1>1. UNCHANGED <<identity, agreement>> \/ (phase = "reduce" /\ \E m \in Messages : LetThrough(m))
  BY RunnerStepShape DEF TraceInv
<1>2. UNCHANGED <<proposals, proposals_by_hash>> => IndexesAgree'
  BY DEF IndexesAgree, Stored
<1> QED BY <1>1, <1>2, HashThrough DEF agreement

(* When hashes cover ids, the reducer's two indexes never part: no proposal  *)
(* the runner lets through replaces a record in one of them only             *)
(* (contract_agreement.py:364).                                              *)
THEOREM OneRecord == RunnerSpec /\ []HashesCoverIds => []IndexesAgree
<1>1. RunnerInit => IndexesAgree
  BY DEF RunnerInit, Init, IndexesAgree, Stored
<1> QED BY <1>1, TraceHolds, HashStep, PTL DEF RunnerSpec

-----------------------------------------------------------------------------
(* Barring. *)

LEMMA BrokenIsInvalid ==
  ASSUME NoBlankLine, NEW i \in Positions, Invalid(i)
  PROVE  i \in InvalidRows
<1>1. CASE LinkBroken(i)
  BY <1>1 DEF RowOfChainError, NoBlankLine, InvalidRows
<1>2. CASE ~LinkBroken(i)
  BY <1>2 DEF Invalid, InvalidRows
<1> QED BY <1>1, <1>2

(* Blank lines are the only way in which an invalid row can touch the        *)
(* agreement (the run core_runner_blank shows it does): in a file without    *)
(* them no row that fails a check changes proposals, head, decisions,        *)
(* selection or state (aicp_core_v02_runner.py:232).                         *)
THEOREM InvalidBarred == RunnerSpec /\ []NoBlankLine => InvalidNeverAdvances
<1>1. ASSUME RunnerTypeOK, Validated, NoBlankLine, [RunnerNext]_allVars,
             phase = "reduce", position \in Positions, Invalid(position)
      PROVE  UNCHANGED agreement
  <2>1. position \in barred
    BY <1>1, BrokenIsInvalid DEF Validated
  <2>2. ~ \E m \in Messages : LetThrough(m)
    BY <2>1 DEF LetThrough
  <2> QED BY <1>1, <2>2, RunnerStepShape
<1>2. TraceInv => RunnerTypeOK /\ Validated
  BY DEF TraceInv
<1> QED BY <1>1, <1>2, TraceHolds, PTL DEF RunnerSpec, InvalidNeverAdvances

LEMMA LinesFollow ==
  ASSUME MaxBlankLines = 0, RunnerTypeOK, NoBlankLine, [RunnerNext]_allVars
  PROVE  NoBlankLine'
<1>1. CASE UNCHANGED rows
  BY <1>1 DEF NoBlankLine, Positions
<1>2. ASSUME NEW m \in Messages, NEW linked \in BOOLEAN, NEW sound \in BOOLEAN,
             NEW blank \in 0 .. MaxBlankLines, ReadRow(m, linked, sound, blank)
      PROVE  NoBlankLine'
  <2> DEFINE row == [message |-> m, linked |-> linked, sound |-> sound, line |-> LastLine + blank + 1]
  <2>1. rows \in Seq(Row) /\ rows' = Append(rows, row) /\ blank = 0
    BY <1>2 DEF ReadRow, RunnerTypeOK
  <2>2. LastLine = Len(rows)
    BY <2>1 DEF LastLine, NoBlankLine, Positions
  <2>3. row.line = Len(rows) + 1
    BY <2>1, <2>2
  <2> HIDE DEF row
  <2>4. /\ Len(rows') = Len(rows) + 1 /\ rows'[Len(rows) + 1] = row
        /\ \A i \in 1 .. Len(rows) : rows'[i] = rows[i]
    BY <2>1
  <2>5. \A i \in 1 .. Len(rows') : i \in 1 .. Len(rows) \/ i = Len(rows) + 1
    BY <2>1, <2>4
  <2> QED BY <2>3, <2>4, <2>5 DEF NoBlankLine, Positions
<1> QED BY <1>1, <1>2 DEF RunnerNext, Validate, Reduce, Finish, allVars, runner

(* So it is of every file when the bound of the model admits no blank line,  *)
(* as in the run tools.                                                      *)
THEOREM WithoutBlankLines ==
  ASSUME MaxBlankLines = 0
  PROVE  RunnerSpec => InvalidNeverAdvances
<1>1. RunnerInit => NoBlankLine
  BY DEF RunnerInit, NoBlankLine, Positions
<1>2. RunnerTypeOK /\ NoBlankLine /\ [RunnerNext]_allVars => NoBlankLine'
  BY LinesFollow
<1>3. RunnerSpec => []NoBlankLine
  BY <1>1, <1>2, RunnerTyping, PTL DEF RunnerSpec
<1> QED BY <1>3, InvalidBarred, PTL
=============================================================================
