----------------------------- MODULE CoreRunner -----------------------------
(***************************************************************************)
(* The Core v0.2 conformance runner over one transcript file               *)
(* (conformance/core_v02_runner): the file is read into rows, every row is *)
(* validated by itself and against its neighbours, and the agreement       *)
(* reducer then runs over all rows with the invalid ones barred.           *)
(*                                                                         *)
(* A row is a message, whether its prev_msg_hash is the message_hash of the*)
(* row before (linked), the number of its line in the file (blank lines are*)
(* skipped but counted) and whether the checks that look at the message    *)
(* alone (schemas, registered type, recomputed hash, signatures) find it   *)
(* sound.                                                                  *)
(***************************************************************************)
EXTENDS ContractAgreement, FiniteSets

CONSTANTS
  MaxRows,       \* bound: rows of a transcript
  MaxDefects,    \* bound: unsound rows and broken links of a transcript
  MaxBlankLines  \* bound: blank lines of the file

ASSUME RunnerAssumption == MaxRows \in Nat /\ MaxDefects \in Nat /\ MaxBlankLines \in Nat

VARIABLES
  phase,    \* "read", "reduce" or "done"
  rows,     \* the rows read
  barred,   \* invalid_indices: positions kept from the reducer's handlers
  position  \* the row the reducer takes next

runner == <<phase, rows, barred, position>>
allVars == <<vars, runner>>

-----------------------------------------------------------------------------
(* The file. *)

Row == [message : Messages, linked : BOOLEAN, line : Nat \ {0}, sound : BOOLEAN]

Positions == 1 .. Len(rows)

\* The first row has no predecessor to be linked to.
LinkBroken(i) == i > 1 /\ ~rows[i].linked

Defects == {i \in Positions : ~rows[i].sound \/ ~rows[i].linked}

BlankLines == IF rows = <<>> THEN 0 ELSE rows[Len(rows)].line - Len(rows)

LastLine == IF rows = <<>> THEN 0 ELSE rows[Len(rows)].line

\* Reading the next row of the file, after `blank` empty lines.
ReadRow(m, linked, sound, blank) ==
  /\ phase = "read"
  /\ Len(rows) < MaxRows
  /\ (linked /\ sound) \/ Cardinality(Defects) < MaxDefects
  /\ BlankLines + blank <= MaxBlankLines
  /\ rows' = Append(rows, [message |-> m, linked |-> linked, sound |-> sound,
                           line |-> LastLine + blank + 1])
  /\ UNCHANGED <<vars, phase, barred, position>>

-----------------------------------------------------------------------------
(* Message-local validation, _check_common. *)

\* Faulty variant: the session is compared with the previous row.
SessionChangedLocally(i) ==
  i > 1 /\ rows[i].message.session # rows[i - 1].message.session

SessionChanged(i) == rows[i].message.session # rows[1].message.session

\* Faulty variants: ids are never compared; only neighbours are.
IdsUnchecked(i) == FALSE

AdjacentDuplicateId(i) == i > 1 /\ rows[i - 1].message.id = rows[i].message.id

DuplicateId(i) == \E j \in 1 .. (i - 1) : rows[j].message.id = rows[i].message.id

\* Faulty variants: the number is taken one too high; it is looked up one line
\* too low.
NextPosition(i) == {i + 1}

LineBelow(i) == {k \in Positions : rows[k].line = i + 1}

\* The chain check numbers rows by position, the runner looks that number up
\* among the lines of the file.
RowOfChainError(i) == {k \in Positions : rows[k].line = i}

InvalidRows ==
  {i \in Positions : ~rows[i].sound \/ SessionChanged(i) \/ DuplicateId(i)}
    \cup UNION {RowOfChainError(i) : i \in {k \in Positions : LinkBroken(k)}}

Validate ==
  /\ phase = "read" /\ rows # <<>>
  /\ phase' = "reduce"
  /\ barred' = InvalidRows
  /\ position' = 1
  /\ UNCHANGED <<vars, rows>>

-----------------------------------------------------------------------------
(* The reducer's loop, process(). *)

Reduce ==
  /\ phase = "reduce" /\ position <= Len(rows)
  /\ IF position \in barred
     THEN Barred(rows[position].message)
     ELSE Handle(rows[position].message)
  /\ position' = position + 1
  /\ UNCHANGED <<phase, rows, barred>>

Finish ==
  /\ phase = "reduce" /\ position > Len(rows)
  /\ phase' = "done"
  /\ UNCHANGED <<vars, rows, barred, position>>

RunnerInit ==
  /\ Init
  /\ phase = "read" /\ rows = <<>> /\ barred = {} /\ position = 1

RunnerNext ==
  \/ \E m \in Messages, linked, sound \in BOOLEAN, blank \in 0 .. MaxBlankLines :
       ReadRow(m, linked, sound, blank)
  \/ Validate \/ Reduce \/ Finish

RunnerSpec == RunnerInit /\ [][RunnerNext]_allVars

-----------------------------------------------------------------------------
(* Properties *)

RunnerTypeOK ==
  /\ TypeOK
  /\ phase \in {"read", "reduce", "done"}
  /\ rows \in Seq(Row) /\ Len(rows) <= MaxRows
  /\ barred \subseteq Positions
  /\ position \in 1 .. (Len(rows) + 1)

\* A row that fails any mandatory message-local check: what section 12 of the
\* normative text says may raise issues but must not touch the agreement.
Invalid(i) ==
  ~rows[i].sound \/ SessionChanged(i) \/ DuplicateId(i) \/ LinkBroken(i)

\* No invalid message changes proposals, head, tuples, selection or state.
InvalidNeverAdvances ==
  [][phase = "reduce" /\ position \in Positions /\ Invalid(position)
       => UNCHANGED agreement]_allVars

\* The two proposal indexes hold the same records: no proposal was overwritten.
IndexesAgree ==
  /\ \A i \in Stored : proposals_by_hash[proposals[i].message_hash] = proposals[i]
  /\ \A h \in Hashes : proposals_by_hash[h] # None =>
       proposals[proposals_by_hash[h].message_id] = proposals_by_hash[h]

\* Every decision on record still names a stored proposal exactly, so repeating
\* it as a replay is always recognised.
EvidenceSurvives ==
  \A t \in acceptance_tuples \cup rejected_tuples :
    LET p == proposals[t.binding.proposal_message_id] IN
    p # None /\ t.binding = BindingOf(p)

\* The reducer takes its session from the first row that is not barred, the
\* runner compares with the first row of the file: they never disagree.
SessionsAgree == session_id # None => session_id = rows[1].message.session
=============================================================================
