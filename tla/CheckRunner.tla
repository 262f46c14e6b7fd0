---------------------------- MODULE CheckRunner ----------------------------
(* The conformance runner of Core v0.1, its extensions and its bindings. It  *)
(* reads the transcripts of a suite row by row, runs the suite's checks on   *)
(* each whole transcript, compares what they report with what the suite      *)
(* expects of the transcript, and at the end grants the suite's mark or not. *)
EXTENDS LeaseChecks, LifecycleChecks, LineageChecks, IdentityChecks, WitnessChecks,
        ApprovalChecks, MembershipChecks, NegotiationChecks, MediaChecks,
        ObservationChecks, BindingChecks

CONSTANTS Suites,           \* the suites that are run
          Alphabet(_),      \* the messages a transcript of a suite is made of
          MaxRows(_),       \* the longest transcript of a suite
          Expectations(_),  \* what a suite may expect of a transcript: sets of failures
          MaxTranscripts(_),\* how many transcripts a suite has at most
          Depth(_)          \* the longest chain of hashes that a hash was made over

ASSUME NoneAssumption == None \notin {"granted", "withheld"} \cup Int

(* What the code's parsing gives of a message: times, versions, cursors and  *)
(* depths are numbers or nothing, a list has its places, the names of a call *)
(* are there or not, and what a call may need is one of two extensions.      *)
Number == Int \cup {None}
Parsed(s, m) ==
    CASE s = "HA" ->
            /\ m.type \in {"APPROVAL_CHALLENGE", "APPROVAL_GRANT", "APPROVAL_DENY"} => m.expires \in Number
            /\ m.type \in {"APPROVAL_GRANT", "APPROVAL_DENY", "TOOL_CALL_REQUEST"} => m.time \in Number
            /\ m.type = "TOOL_CALL_REQUEST" => m.target # None
      [] s = "OB" ->
            /\ m.needs \subseteq {"approval", "iam"}
            /\ None \notin m.targets \cup {<<"message_hash", m.hash>>}
      [] s = "PR" -> m.type \in GraphTypes => DOMAIN m.nodes \subseteq Nat
      [] s = "WF" ->
            /\ m.type \in {"WORKFLOW_DECLARE", "WORKFLOW_UPDATE"} => m.version \in Number
            /\ m.type = "WORKFLOW_STEP_ATTEST" => m.step \in Number
      [] s \in {"SIG", "ID"} -> m.type = "IDENTITY_ANNOUNCE" => \A k \in m.keys : k = <<k[1], k[2]>>
      [] s = "DI" ->
            /\ m.acts # None => m.time \in Number
            /\ /\ m.type = "SUBJECT_BINDING_ISSUE" /\ m.ref # None /\ m.ref.object # None
               => m.ref.object.expires \in Number
      [] s = "AM" -> m.type \in {"CONTRACT_PROPOSE", "CONTEXT_AMEND"} => m.pins = None \/ None \notin m.pins
      [] s = "DL" -> m.type = "DELEGATION_GRANT" => m.depth \in Int
      [] s = "SB" -> m.type = "SUBSCRIPTION_STATE" => m.cursor \in Number
      [] s = "SR" ->
            /\ m.anchors # None => {m.anchors.from, m.anchors.to} \subseteq Number
            /\ m.status # None =>
                  {m.status.from, m.status.to, m.status.asOf, m.status.revokedAt} \subseteq Number
      [] OTHER -> TRUE

(* A hash stands for what was hashed: the hash of a message tells its id and *)
(* can be named only by what is hashed later, and the suites that look a     *)
(* declaration or an evaluation up by its hash find the one that was meant.  *)
HashStandsFor(s, m, n) ==
    /\ s = "CT" =>
          /\ m.computed # None /\ Depth(m.computed) \in Nat
          /\ m.prev # None => Depth(m.prev) \in Nat /\ Depth(m.prev) < Depth(m.computed)
          /\ m.computed = n.computed => m.id = n.id
    /\ /\ s \in {"ET", "CM"} /\ m.type \in {"EXTERNAL_TX_DECLARE", "POLICY_EVAL_RESULT"}
       /\ m.type = n.type /\ m.hash = n.hash /\ m.hash # None
       => m = n

ASSUME MessagesAssumption ==
    \A s \in Suites : \A m \in Alphabet(s) :
        Parsed(s, m) /\ \A n \in Alphabet(s) : HashStandsFor(s, m, n)

VARIABLES suite,       \* the suite being run
          crypto,      \* whether signatures can be verified here
          rows,        \* the messages read of the transcript
          failed,      \* whether a transcript did not do what was expected
          degraded,    \* whether a check was skipped
          mark,        \* the suite's mark in the report, None before the report
          closed       \* the transcripts checked so far, with what was expected

vars == <<suite, crypto, rows, failed, degraded, mark, closed>>

(* A suite's own checks. Every suite also runs the core checks.              *)
Passes(s, T) ==
    CASE s = "CT" -> CTPasses(T)
      [] s = "QL" -> QLPasses(T) [] s = "ENF" -> ENFPasses(T)
      [] s = "EX" -> EXPasses(T) [] s = "ES" -> ESPasses(T) [] s = "RP" -> RPPasses(T)
      [] s = "PR" -> PRPasses(T) [] s = "WF" -> WFPasses(T) [] s = "DL" -> DLPasses(T)
      [] s = "SIG" -> SIGIssues(T, TRUE) = {} [] s = "AUTH" -> AUTHIssues(T, TRUE) = {}
      [] s = "ID" -> IDPasses(T) [] s = "DI" -> DIPasses(T) [] s = "IB" -> IBPasses(T)
      [] s = "TW" -> TWPasses(T) [] s = "RS" -> RSPasses(T) [] s = "SP" -> SPPasses(T)
      [] s = "HA" -> HAPasses(T) [] s = "ET" -> ETPasses(T) [] s = "CM" -> CMPasses(T) [] s = "TG" -> TGPasses(T)
      [] s = "PA" -> PAPasses(T) [] s = "AD" -> ADPasses(T) [] s = "MP" -> MPPasses(T) [] s = "RC" -> RCPasses(T)
      [] s = "CN" -> CNPasses(T) [] s = "CF" -> CFPasses(T) [] s = "RD" -> RDPasses(T) [] s = "PE" -> PEPasses(T)
      [] s = "CH" -> CHPasses(T) [] s = "SB" -> SBPasses(T) [] s = "PB" -> PBPasses(T) [] s = "IN" -> INPasses(T)
      [] s = "OB" -> OBPasses(T) [] s = "EB" -> EBPasses(T) [] s = "DS" -> DSPasses(T) [] s = "AM" -> AMPasses(T)

(* The suites of a binding have cases instead of transcripts; they expect    *)
(* all of them to pass, and never say that a check was skipped.              *)
CaseSuites == {"TB", "TR", "SR"}
CaseFailures(s, K, verifier) ==
    CASE s = "TB" -> TBFailing(K, verifier)
      [] s = "TR" -> TRFailing(K, verifier)
      [] s = "SR" -> SRFailing(K, verifier)

(* What the checks report of a transcript, with or without a verifier.       *)
Reports(s, T, verifier) ==
    CASE s = "SIG" -> SIGIssues(T, verifier)
      [] s = "AUTH" -> AUTHIssues(T, verifier)
      [] OTHER -> IF Passes(s, T) THEN {} ELSE {s}
(* A mistake: the authentication checks are skipped in silence.              *)
SkipsInSilence(s, verifier) == ~verifier /\ s = "SIG"
Skips(s, verifier) == ~verifier /\ s \in {"SIG", "AUTH"}
(* Without a verifier the failures it would have to find are reported when   *)
(* the suite expects them.                                                   *)
Pretended(s, expected, observed) ==
    CASE s = "SIG" -> expected \cap {"not_verified"}
      [] s = "AUTH" -> (expected \cap AuthFailures) \ observed
      [] OTHER -> {}
Observed(s, T, expected, verifier) ==
    LET observed == Reports(s, T, verifier)
    IN observed \cup IF Skips(s, verifier) THEN Pretended(s, expected, observed) ELSE {}

-----------------------------------------------------------------------------
Init ==
    /\ suite \in Suites /\ crypto \in BOOLEAN
    /\ rows = <<>> /\ failed = FALSE /\ degraded = FALSE
    /\ mark = None /\ closed = {}

(* A row of the current transcript, or a case of the suite.                  *)
ReadRow ==
    /\ mark = None
    /\ Len(rows) < MaxRows(suite) /\ Cardinality(closed) < MaxTranscripts(suite)
    /\ \E m \in Alphabet(suite) : rows' = Append(rows, m)
    /\ UNCHANGED <<suite, crypto, failed, degraded, mark, closed>>

(* The end of a transcript: it fails unless exactly what is expected of it   *)
(* was reported.                                                             *)
CloseTranscript ==
    /\ mark = None /\ suite \notin CaseSuites /\ rows # <<>>
    /\ \E expected \in Expectations(suite) :
          /\ failed' = (failed \/ Observed(suite, rows, expected, crypto) # expected)
          /\ closed' = closed \cup {[rows |-> rows, expected |-> expected]}
    /\ degraded' = (degraded \/ Skips(suite, crypto))
    /\ rows' = <<>>
    /\ UNCHANGED <<suite, crypto, mark>>

(* The report, with the mark when nothing failed and nothing was skipped.    *)
MarkFor(passed, skipped) == IF passed /\ ~skipped THEN "granted" ELSE "withheld"
Report ==
    /\ mark = None /\ suite \notin CaseSuites /\ rows = <<>> /\ closed # {}
    /\ mark' = MarkFor(~failed, degraded)
    /\ UNCHANGED <<suite, crypto, rows, failed, degraded, closed>>
ReportCases ==
    /\ mark = None /\ suite \in CaseSuites /\ rows # <<>>
    /\ failed' = (CaseFailures(suite, rows, crypto) # {})
    /\ mark' = MarkFor(~failed', FALSE)
    /\ UNCHANGED <<suite, crypto, rows, degraded, closed>>

Next == ReadRow \/ CloseTranscript \/ Report \/ ReportCases
Spec == Init /\ [][Next]_vars

-----------------------------------------------------------------------------
Accepted(s) == suite = s /\ Passes(s, rows)
CasesAccepted(s) == suite = s /\ CaseFailures(s, rows, TRUE) = {}

(* A right is used only by whom, for what and while it was granted: leases,  *)
(* verdicts, approvals, transactions and tool calls.                         *)
RightsHold ==
    /\ Accepted("QL") => QLLegal(rows)
    /\ Accepted("ENF") => ENFLegal(rows)
    /\ Accepted("HA") => HALegal(rows)
    /\ Accepted("ET") \/ Accepted("CM") => Reported(rows)
    /\ Accepted("TG") => TGLegal(rows)

(* What has a life goes through it in order: runs and threads, escrows,      *)
(* transfers, participants, admissions and awards.                           *)
LivesHold ==
    /\ Accepted("EX") => EXLegal(rows)
    /\ Accepted("ES") => ESLegal(rows)
    /\ Accepted("RP") => RPLegal(rows)
    /\ Accepted("PA") => PALegal(rows)
    /\ Accepted("AD") => ADLegal(rows)
    /\ Accepted("MP") => MPLegal(rows)

(* What is derived has an origin, over any number of steps: the chain of     *)
(* hashes, provenance, workflows, delegations, checkpoints, redactions and   *)
(* accusations.                                                              *)
LineageHolds ==
    /\ Accepted("CT") => CTLegal(rows)
    /\ Accepted("PR") => PRLegal(rows)
    /\ Accepted("WF") => WFLegal(rows)
    /\ Accepted("DL") => DLLegal(rows)
    /\ Accepted("TW") => TWLegal(rows)
    /\ Accepted("RD") => RDLegal(rows)
    /\ Accepted("DS") => DSLegal(rows)

(* Who speaks is who it says it is, and may speak for whom it says: keys,    *)
(* subjects, claims and pinned tools.                                        *)
IdentitiesHold ==
    /\ Accepted("SIG") => SIGLegal(rows)
    /\ Accepted("AUTH") => AUTHLegal(rows)
    /\ Accepted("ID") => IDLegal(rows)
    /\ Accepted("DI") => DILegal(rows)
    /\ Accepted("IB") => IBLegal(rows)
    /\ Accepted("AM") => AMLegal(rows)

(* What the parties agreed on is what is used afterwards.                    *)
AgreementsHold ==
    /\ Accepted("CN") => CNLegal(rows)
    /\ Accepted("CF") => CFLegal(rows)
    /\ Accepted("RC") => RCLegal(rows)
    /\ Accepted("PE") => PELegal(rows)
    /\ Accepted("EB") => EBLegal(rows)
    /\ Accepted("OB") => OBLegal(rows)

(* What is delivered over time does not go back, and is not lost: channels,  *)
(* cursors, versions, inboxes, resumed sessions, projections and bindings.   *)
DeliveriesHold ==
    /\ Accepted("CH") => CHLegal(rows)
    /\ Accepted("SB") => SBLegal(rows)
    /\ Accepted("PB") => PBLegal(rows)
    /\ Accepted("IN") => INLegal(rows)
    /\ Accepted("RS") => RSLegal(rows)
    /\ Accepted("SP") => SPLegal(rows)
    /\ CasesAccepted("TB") => TBLegal(rows)
    /\ CasesAccepted("SR") => SRLegal(rows)

(* A suite of transcripts is granted its mark only when the checks, with a   *)
(* verifier, report of every transcript exactly what was expected.           *)
MarkIsEarned ==
    mark = "granted" => \A c \in closed : Reports(suite, c.rows, TRUE) = c.expected
(* The reading of the glossary for the suites of cases: no mark when the     *)
(* signatures could not be verified.                                         *)
CaseMarkIsEarned ==
    mark = "granted" /\ suite \in CaseSuites => CaseFailures(suite, rows, TRUE) = {}
=============================================================================
