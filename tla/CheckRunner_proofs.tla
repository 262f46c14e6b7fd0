------------------------- MODULE CheckRunner_proofs -------------------------
(* The runner, for every set of suites, every alphabet and every             *)
(* expectation. For its mark, what the checks of a suite look for plays no   *)
(* part: the argument is about skipping. A skip leaves `degraded' behind, so *)
(* as long as nothing failed and nothing was skipped, what was reported of   *)
(* each transcript is what a verifier would have made of it. For what the    *)
(* suites promise, it is enough that what was read is a sequence over the    *)
(* alphabet of the suite: the rest is Checks_proofs.                         *)
EXTENDS Checks_proofs

\* Until something fails or is skipped, every transcript that was closed had
\* exactly what was expected of it reported, as with a verifier.
Faithful ==
  ~failed /\ ~degraded => \A c \in closed : Reports(suite, c.rows, TRUE) = c.expected

\* The suites of cases close no transcript.
CasesApart == suite \in CaseSuites => closed = {}

IInv ==
  /\ crypto \in BOOLEAN
  /\ Faithful /\ CasesApart
  /\ MarkIsEarned

-----------------------------------------------------------------------------
(* A suite whose checks are not skipped reports the same with and without a  *)
(* verifier, and nothing is pretended for it.                                *)
LEMMA Unskipped ==
  ASSUME NEW s, NEW T, NEW expected, NEW verifier \in BOOLEAN, ~Skips(s, verifier)
  PROVE  Observed(s, T, expected, verifier) = Reports(s, T, TRUE)
<1>1. Observed(s, T, expected, verifier) = Reports(s, T, verifier)
  BY DEF Observed
<1>2. CASE verifier
  BY <1>1, <1>2
<1>3. CASE ~verifier
  <2>1. s # "SIG" /\ s # "AUTH"
    BY <1>3 DEF Skips
  <2>2. Reports(s, T, verifier) = Reports(s, T, TRUE)
    BY <2>1 DEF Reports
  <2> QED BY <1>1, <2>2
<1> QED BY <1>2, <1>3

(* Closing a transcript that does what is expected keeps the record faithful.*)
LEMMA CloseStep ==
  ASSUME IInv, CloseTranscript
  PROVE  IInv'
<1>1. /\ UNCHANGED <<suite, crypto, mark>> /\ mark = None
      /\ suite \notin CaseSuites
      /\ degraded' = (degraded \/ Skips(suite, crypto))
  BY DEF CloseTranscript
<1>2. PICK expected \in Expectations(suite) :
        /\ failed' = (failed \/ Observed(suite, rows, expected, crypto) # expected)
        /\ closed' = closed \cup {[rows |-> rows, expected |-> expected]}
  BY DEF CloseTranscript
<1>3. Faithful'
  <2> SUFFICES ASSUME ~failed', ~degraded', NEW c \in closed'
               PROVE  Reports(suite, c.rows, TRUE) = c.expected
    BY <1>1 DEF Faithful
  <2>1. ~failed /\ Observed(suite, rows, expected, crypto) = expected
    BY <1>2
  <2>2. ~degraded /\ ~Skips(suite, crypto)
    BY <1>1
  <2>3. CASE c \in closed
    BY <2>1, <2>2, <2>3 DEF IInv, Faithful
  <2>4. CASE c = [rows |-> rows, expected |-> expected]
    <3>1. Observed(suite, rows, expected, crypto) = Reports(suite, rows, TRUE)
      BY <2>2, Unskipped DEF IInv
    <3>2. c.rows = rows /\ c.expected = expected
      BY <2>4
    <3> QED BY <2>1, <3>1, <3>2
  <2> QED BY <1>2, <2>3, <2>4
<1>4. MarkIsEarned'
  BY <1>1, NoneAssumption DEF MarkIsEarned
<1>5. CasesApart' /\ crypto' \in BOOLEAN
  BY <1>1 DEF IInv, CasesApart
<1> QED BY <1>3, <1>4, <1>5 DEF IInv

(* The report grants the mark on the faithful record.                        *)
LEMMA ReportStep ==
  ASSUME IInv, Report \/ ReportCases
  PROVE  IInv'
<1>1. UNCHANGED <<suite, crypto, degraded, closed>>
  BY DEF Report, ReportCases
<1>2. CASE Report
  <2>1. failed' = failed /\ mark' = MarkFor(~failed, degraded)
    BY <1>2 DEF Report
  <2>2. mark' = "granted" => ~failed /\ ~degraded
    BY <2>1 DEF MarkFor
  <2> QED BY <1>1, <2>1, <2>2 DEF IInv, Faithful, CasesApart, MarkIsEarned
<1>3. CASE ReportCases
  <2>1. closed = {}
    BY <1>3 DEF ReportCases, IInv, CasesApart
  <2> QED BY <1>1, <2>1 DEF IInv, Faithful, CasesApart, MarkIsEarned
<1> QED BY <1>2, <1>3

LEMMA InvariantStep ==
  ASSUME IInv, [Next]_vars
  PROVE  IInv'
<1>1. CASE ReadRow \/ UNCHANGED vars
  <2>1. UNCHANGED <<suite, crypto, failed, degraded, mark, closed>>
    BY <1>1 DEF ReadRow, vars
  <2> QED BY <2>1 DEF IInv, Faithful, CasesApart, MarkIsEarned
<1> QED BY <1>1, CloseStep, ReportStep DEF Next

-----------------------------------------------------------------------------
(* A mark is granted only when the checks, with a verifier, report of every  *)
(* transcript exactly what the suite expects: a skipped check never earns it.*)
THEOREM Mark == Spec => []MarkIsEarned
<1>1. Init => IInv
  BY DEF Init, IInv, Faithful, CasesApart, MarkIsEarned
<1>2. IInv /\ [Next]_vars => IInv'
  BY InvariantStep
<1>3. IInv => MarkIsEarned
  BY DEF IInv
<1> QED BY <1>1, <1>2, <1>3, PTL DEF Spec

-----------------------------------------------------------------------------
(* What the suites promise, of everything that the runner can read.          *)
Read == suite \in Suites /\ rows \in Seq(Alphabet(suite))

(* A row that is read is of the alphabet, and a transcript that is closed    *)
(* leaves none.                                                              *)
LEMMA ReadStep ==
  ASSUME Read, [Next]_vars
  PROVE  Read'
<1>1. CASE ReadRow
  <2>1. suite' = suite /\ \E m \in Alphabet(suite) : rows' = Append(rows, m)
    BY <1>1 DEF ReadRow
  <2>2. \A m \in Alphabet(suite) : Append(rows, m) \in Seq(Alphabet(suite))
    BY DEF Read
  <2> QED BY <2>1, <2>2 DEF Read
<1>2. CASE CloseTranscript
  <2>1. suite' = suite /\ rows' = <<>>
    BY <1>2 DEF CloseTranscript
  <2> QED BY <2>1 DEF Read
<1>3. CASE Report \/ ReportCases \/ UNCHANGED vars
  <2>1. suite' = suite /\ rows' = rows
    BY <1>3 DEF Report, ReportCases, vars
  <2> QED BY <2>1 DEF Read
<1> QED BY <1>1, <1>2, <1>3 DEF Next

(* The runner reads nothing but rows of its suite.                           *)
LEMMA Reading == Spec => []Read
<1>1. Init => Read
  BY DEF Init, Read
<1>2. Read /\ [Next]_vars => Read'
  BY ReadStep
<1> QED BY <1>1, <1>2, PTL DEF Spec

(* What is assumed of the messages of a suite holds of what was read.        *)
LEMMA RowsOfSuite ==
  ASSUME NEW s \in Suites, NEW T \in Seq(Alphabet(s))
  PROVE  ParsedRows(s, T) /\ HashedRows(s, T)
<1>1. \A i \in DOMAIN T : T[i] \in Alphabet(s)
  OBVIOUS
<1>2. /\ \A m \in Alphabet(s) : Parsed(s, m)
      /\ \A m, n \in Alphabet(s) : HashStandsFor(s, m, n)
  BY MessagesAssumption
<1> QED BY <1>1, <1>2 DEF ParsedRows, HashedRows

(* None is no number.                                                        *)
LEMMA NoneIsNoNumber == None \notin Int
BY NoneAssumption

-----------------------------------------------------------------------------
(* A right is used only by whom, for what and while it was granted.          *)
LEMMA RightsKept ==
  ASSUME Read
  PROVE  RightsHold
<1>1. suite \in Suites /\ rows \in Seq(Alphabet(suite))
  BY DEF Read
<1>2. ParsedRows(suite, rows) /\ HashedRows(suite, rows)
  BY <1>1, RowsOfSuite
<1>3. Accepted("QL") => QLLegal(rows)
  <2> SUFFICES ASSUME Accepted("QL") PROVE QLLegal(rows)
    OBVIOUS
  <2>1. suite = "QL" /\ QLPasses(rows)
    BY DEF Accepted, Passes
  <2> QED BY <1>1, <2>1, QLPromise
<1>4. Accepted("ENF") => ENFLegal(rows)
  <2> SUFFICES ASSUME Accepted("ENF") PROVE ENFLegal(rows)
    OBVIOUS
  <2>1. suite = "ENF" /\ ENFPasses(rows)
    BY DEF Accepted, Passes
  <2> QED BY <1>1, <2>1, ENFPromise
<1>5. Accepted("HA") => HALegal(rows)
  <2> SUFFICES ASSUME Accepted("HA") PROVE HALegal(rows)
    OBVIOUS
  <2>1. suite = "HA" /\ HAPasses(rows)
    BY DEF Accepted, Passes
  <2> QED BY <1>1, <1>2, <2>1, NoneIsNoNumber, HAParsed, HAPromise
<1>6. Accepted("ET") \/ Accepted("CM") => Reported(rows)
  <2>1. CASE Accepted("ET")
    <3>1. suite = "ET" /\ ETPasses(rows)
      BY <2>1 DEF Accepted, Passes
    <3> QED BY <1>1, <1>2, <3>1, ETHashed, ETPromise
  <2>2. CASE Accepted("CM")
    <3>1. suite = "CM" /\ CMPasses(rows)
      BY <2>2 DEF Accepted, Passes
    <3> QED BY <1>1, <1>2, <3>1, ETHashed, ETPromise
  <2> QED BY <2>1, <2>2
<1>7. Accepted("TG") => TGLegal(rows)
  <2> SUFFICES ASSUME Accepted("TG") PROVE TGLegal(rows)
    OBVIOUS
  <2>1. suite = "TG" /\ TGPasses(rows)
    BY DEF Accepted, Passes
  <2> QED BY <1>1, <2>1, TGPromise
<1> QED BY <1>3, <1>4, <1>5, <1>6, <1>7 DEF RightsHold

(* Whatever the suites of leases, verdicts, approvals, transactions and      *)
(* tool calls let through, of any length and over any alphabet, keeps their  *)
(* promises.                                                                 *)
THEOREM Rights == Spec => []RightsHold
BY Reading, RightsKept, PTL

-----------------------------------------------------------------------------
(* What has a life goes through it in order.                                 *)
LEMMA LivesKept ==
  ASSUME Read
  PROVE  LivesHold
<1>1. suite \in Suites /\ rows \in Seq(Alphabet(suite))
  BY DEF Read
<1>2. ParsedRows(suite, rows) /\ HashedRows(suite, rows)
  BY <1>1, RowsOfSuite
<1>3. Accepted("EX") => EXLegal(rows)
  <2> SUFFICES ASSUME Accepted("EX") PROVE EXLegal(rows)
    OBVIOUS
  <2>1. suite = "EX" /\ EXPasses(rows)
    BY DEF Accepted, Passes
  <2> QED BY <1>1, <2>1, EXPromise
<1>4. Accepted("ES") => ESLegal(rows)
  <2> SUFFICES ASSUME Accepted("ES") PROVE ESLegal(rows)
    OBVIOUS
  <2>1. suite = "ES" /\ ESPasses(rows)
    BY DEF Accepted, Passes
  <2> QED BY <1>1, <2>1, ESPromise
<1>5. Accepted("RP") => RPLegal(rows)
  <2> SUFFICES ASSUME Accepted("RP") PROVE RPLegal(rows)
    OBVIOUS
  <2>1. suite = "RP" /\ RPPasses(rows)
    BY DEF Accepted, Passes
  <2> QED BY <1>1, <2>1, RPPromise
<1>6. Accepted("PA") => PALegal(rows)
  <2> SUFFICES ASSUME Accepted("PA") PROVE PALegal(rows)
    OBVIOUS
  <2>1. suite = "PA" /\ PAPasses(rows)
    BY DEF Accepted, Passes
  <2> QED BY <1>1, <2>1, PAPromise
<1>7. Accepted("AD") => ADLegal(rows)
  <2> SUFFICES ASSUME Accepted("AD") PROVE ADLegal(rows)
    OBVIOUS
  <2>1. suite = "AD" /\ ADPasses(rows)
    BY DEF Accepted, Passes
  <2> QED BY <1>1, <2>1, ADPromise
<1>8. Accepted("MP") => MPLegal(rows)
  <2> SUFFICES ASSUME Accepted("MP") PROVE MPLegal(rows)
    OBVIOUS
  <2>1. suite = "MP" /\ MPPasses(rows)
    BY DEF Accepted, Passes
  <2> QED BY <1>1, <2>1, MPPromise
<1> QED BY <1>3, <1>4, <1>5, <1>6, <1>7, <1>8 DEF LivesHold

(* Whatever the suites of runs, escrows, transfers, participants,            *)
(* admissions and awards let through keeps their promises.                   *)
THEOREM Lives == Spec => []LivesHold
BY Reading, LivesKept, PTL

-----------------------------------------------------------------------------
(* What is derived has an origin, over any number of steps.                  *)
LEMMA LineageKept ==
  ASSUME Read
  PROVE  LineageHolds
<1>1. suite \in Suites /\ rows \in Seq(Alphabet(suite))
  BY DEF Read
<1>2. ParsedRows(suite, rows) /\ HashedRows(suite, rows)
  BY <1>1, RowsOfSuite
<1>3. Accepted("CT") => CTLegal(rows)
  <2> SUFFICES ASSUME Accepted("CT") PROVE CTLegal(rows)
    OBVIOUS
  <2>1. suite = "CT" /\ CTPasses(rows)
    BY DEF Accepted, Passes
  <2> QED BY <1>1, <1>2, <2>1, CTHashed, CTPromise
<1>4. Accepted("PR") => PRLegal(rows)
  <2> SUFFICES ASSUME Accepted("PR") PROVE PRLegal(rows)
    OBVIOUS
  <2>1. suite = "PR" /\ PRPasses(rows)
    BY DEF Accepted, Passes
  <2> QED BY <1>1, <1>2, <2>1, PRPromise
<1>5. Accepted("WF") => WFLegal(rows)
  <2> SUFFICES ASSUME Accepted("WF") PROVE WFLegal(rows)
    OBVIOUS
  <2>1. suite = "WF" /\ WFPasses(rows)
    BY DEF Accepted, Passes
  <2> QED BY <1>1, <1>2, <2>1, WFPromise
<1>6. Accepted("DL") => DLLegal(rows)
  <2> SUFFICES ASSUME Accepted("DL") PROVE DLLegal(rows)
    OBVIOUS
  <2>1. suite = "DL" /\ DLPasses(rows)
    BY DEF Accepted, Passes
  <2> QED BY <1>1, <1>2, <2>1, DLPromise
<1>7. Accepted("TW") => TWLegal(rows)
  <2> SUFFICES ASSUME Accepted("TW") PROVE TWLegal(rows)
    OBVIOUS
  <2>1. suite = "TW" /\ TWPasses(rows)
    BY DEF Accepted, Passes
  <2> QED BY <1>1, <2>1, TWPromise
<1>8. Accepted("RD") => RDLegal(rows)
  <2> SUFFICES ASSUME Accepted("RD") PROVE RDLegal(rows)
    OBVIOUS
  <2>1. suite = "RD" /\ RDPasses(rows)
    BY DEF Accepted, Passes
  <2> QED BY <1>1, <2>1, RDPromise
<1>9. Accepted("DS") => DSLegal(rows)
  <2> SUFFICES ASSUME Accepted("DS") PROVE DSLegal(rows)
    OBVIOUS
  <2>1. suite = "DS" /\ DSPasses(rows)
    BY DEF Accepted, Passes
  <2> QED BY <1>1, <2>1, DSPromise
<1> QED BY <1>3, <1>4, <1>5, <1>6, <1>7, <1>8, <1>9 DEF LineageHolds

(* Whatever the suites of the core, provenance, workflows, delegations,      *)
(* witnesses, redactions and disputes let through keeps their promises.      *)
THEOREM Lineage == Spec => []LineageHolds
BY Reading, LineageKept, PTL

-----------------------------------------------------------------------------
(* Who speaks is who it says it is, and may speak for whom it says.          *)
LEMMA IdentitiesKept ==
  ASSUME Read
  PROVE  IdentitiesHold
<1>1. suite \in Suites /\ rows \in Seq(Alphabet(suite))
  BY DEF Read
<1>2. ParsedRows(suite, rows) /\ HashedRows(suite, rows)
  BY <1>1, RowsOfSuite
<1>3. Accepted("SIG") => SIGLegal(rows)
  <2> SUFFICES ASSUME Accepted("SIG") PROVE SIGLegal(rows)
    OBVIOUS
  <2>1. suite = "SIG" /\ SIGIssues(rows, TRUE) = {}
    BY DEF Accepted, Passes
  <2> QED BY <1>1, <1>2, <2>1, SIGPromise
<1>4. Accepted("AUTH") => AUTHLegal(rows)
  <2> SUFFICES ASSUME Accepted("AUTH") PROVE AUTHLegal(rows)
    OBVIOUS
  <2>1. suite = "AUTH" /\ AUTHIssues(rows, TRUE) = {}
    BY DEF Accepted, Passes
  <2> QED BY <1>1, <2>1, AUTHPromise
<1>5. Accepted("ID") => IDLegal(rows)
  <2> SUFFICES ASSUME Accepted("ID") PROVE IDLegal(rows)
    OBVIOUS
  <2>1. suite = "ID" /\ IDPasses(rows)
    BY DEF Accepted, Passes
  <2> QED BY <1>1, <1>2, <2>1, IDPromise
<1>6. Accepted("DI") => DILegal(rows)
  <2> SUFFICES ASSUME Accepted("DI") PROVE DILegal(rows)
    OBVIOUS
  <2>1. suite = "DI" /\ DIPasses(rows)
    BY DEF Accepted, Passes
  <2> QED BY <1>1, <1>2, <2>1, NoneIsNoNumber, DIPromise
<1>7. Accepted("IB") => IBLegal(rows)
  <2> SUFFICES ASSUME Accepted("IB") PROVE IBLegal(rows)
    OBVIOUS
  <2>1. suite = "IB" /\ IBPasses(rows)
    BY DEF Accepted, Passes
  <2> QED BY <1>1, <2>1, IBPromise
<1>8. Accepted("AM") => AMLegal(rows)
  <2> SUFFICES ASSUME Accepted("AM") PROVE AMLegal(rows)
    OBVIOUS
  <2>1. suite = "AM" /\ AMPasses(rows)
    BY DEF Accepted, Passes
  <2> QED BY <1>1, <1>2, <2>1, AMPromise
<1> QED BY <1>3, <1>4, <1>5, <1>6, <1>7, <1>8 DEF IdentitiesHold

(* Whatever the suites of signatures, authentication, keys, subjects,        *)
(* claims and pinned tools let through keeps their promises.                 *)
THEOREM Identities == Spec => []IdentitiesHold
BY Reading, IdentitiesKept, PTL

-----------------------------------------------------------------------------
(* What the parties agreed on is what is used afterwards.                    *)
LEMMA AgreementsKept ==
  ASSUME Read
  PROVE  AgreementsHold
<1>1. suite \in Suites /\ rows \in Seq(Alphabet(suite))
  BY DEF Read
<1>2. ParsedRows(suite, rows) /\ HashedRows(suite, rows)
  BY <1>1, RowsOfSuite
<1>3. Accepted("CN") => CNLegal(rows)
  <2> SUFFICES ASSUME Accepted("CN") PROVE CNLegal(rows)
    OBVIOUS
  <2>1. suite = "CN" /\ CNPasses(rows)
    BY DEF Accepted, Passes
  <2> QED BY <1>1, <2>1, CNPromise
<1>4. Accepted("CF") => CFLegal(rows)
  <2> SUFFICES ASSUME Accepted("CF") PROVE CFLegal(rows)
    OBVIOUS
  <2>1. suite = "CF" /\ CFPasses(rows)
    BY DEF Accepted, Passes
  <2> QED BY <1>1, <2>1, CFPromise
<1>5. Accepted("RC") => RCLegal(rows)
  <2> SUFFICES ASSUME Accepted("RC") PROVE RCLegal(rows)
    OBVIOUS
  <2>1. suite = "RC" /\ RCPasses(rows)
    BY DEF Accepted, Passes
  <2> QED BY <1>1, <2>1, RCPromise
<1>6. Accepted("PE") => PELegal(rows)
  <2> SUFFICES ASSUME Accepted("PE") PROVE PELegal(rows)
    OBVIOUS
  <2>1. suite = "PE" /\ PEPasses(rows)
    BY DEF Accepted, Passes
  <2> QED BY <1>1, <2>1, PEPromise
<1>7. Accepted("EB") => EBLegal(rows)
  <2> SUFFICES ASSUME Accepted("EB") PROVE EBLegal(rows)
    OBVIOUS
  <2>1. suite = "EB" /\ EBPasses(rows)
    BY DEF Accepted, Passes
  <2> QED BY <1>1, <2>1, EBPromise
<1>8. Accepted("OB") => OBLegal(rows)
  <2> SUFFICES ASSUME Accepted("OB") PROVE OBLegal(rows)
    OBVIOUS
  <2>1. suite = "OB" /\ OBPasses(rows)
    BY DEF Accepted, Passes
  <2> QED BY <1>1, <1>2, <2>1, OBParsed, OBPromise
<1> QED BY <1>3, <1>4, <1>5, <1>6, <1>7, <1>8 DEF AgreementsHold

(* Whatever the suites of negotiation, confidentiality, roles, policies,     *)
(* bindings and signals let through keeps their promises.                    *)
THEOREM Agreements == Spec => []AgreementsHold
BY Reading, AgreementsKept, PTL

-----------------------------------------------------------------------------
(* What is delivered over time does not go back, and is not lost.            *)
LEMMA DeliveriesKept ==
  ASSUME Read
  PROVE  DeliveriesHold
<1>1. suite \in Suites /\ rows \in Seq(Alphabet(suite))
  BY DEF Read
<1>2. ParsedRows(suite, rows) /\ HashedRows(suite, rows)
  BY <1>1, RowsOfSuite
<1>3. Accepted("CH") => CHLegal(rows)
  <2> SUFFICES ASSUME Accepted("CH") PROVE CHLegal(rows)
    OBVIOUS
  <2>1. suite = "CH" /\ CHPasses(rows)
    BY DEF Accepted, Passes
  <2> QED BY <1>1, <2>1, CHPromise
<1>4. Accepted("SB") => SBLegal(rows)
  <2> SUFFICES ASSUME Accepted("SB") PROVE SBLegal(rows)
    OBVIOUS
  <2>1. suite = "SB" /\ SBPasses(rows)
    BY DEF Accepted, Passes
  <2> QED BY <1>1, <1>2, <2>1, NoneIsNoNumber, SBPromise
<1>5. Accepted("PB") => PBLegal(rows)
  <2> SUFFICES ASSUME Accepted("PB") PROVE PBLegal(rows)
    OBVIOUS
  <2>1. suite = "PB" /\ PBPasses(rows)
    BY DEF Accepted, Passes
  <2> QED BY <1>1, <2>1, PBPromise
<1>6. Accepted("IN") => INLegal(rows)
  <2> SUFFICES ASSUME Accepted("IN") PROVE INLegal(rows)
    OBVIOUS
  <2>1. suite = "IN" /\ INPasses(rows)
    BY DEF Accepted, Passes
  <2> QED BY <1>1, <2>1, INPromise
<1>7. Accepted("RS") => RSLegal(rows)
  <2> SUFFICES ASSUME Accepted("RS") PROVE RSLegal(rows)
    OBVIOUS
  <2>1. suite = "RS" /\ RSPasses(rows)
    BY DEF Accepted, Passes
  <2> QED BY <1>1, <2>1, RSPromise
<1>8. Accepted("SP") => SPLegal(rows)
  <2> SUFFICES ASSUME Accepted("SP") PROVE SPLegal(rows)
    OBVIOUS
  <2>1. suite = "SP" /\ SPPasses(rows)
    BY DEF Accepted, Passes
  <2> QED BY <1>1, <2>1, SPPromise
<1>9. CasesAccepted("TB") => TBLegal(rows)
  <2> SUFFICES ASSUME CasesAccepted("TB") PROVE TBLegal(rows)
    OBVIOUS
  <2>1. suite = "TB" /\ TBFailing(rows, TRUE) = {}
    BY DEF CasesAccepted, CaseFailures
  <2> QED BY <1>1, <2>1, TBPromise
<1>10. CasesAccepted("SR") => SRLegal(rows)
  <2> SUFFICES ASSUME CasesAccepted("SR") PROVE SRLegal(rows)
    OBVIOUS
  <2>1. suite = "SR" /\ SRFailing(rows, TRUE) = {}
    BY DEF CasesAccepted, CaseFailures
  <2> QED BY <1>1, <1>2, <2>1, NoneIsNoNumber, SRPromise
<1> QED BY <1>3, <1>4, <1>5, <1>6, <1>7, <1>8, <1>9, <1>10 DEF DeliveriesHold

(* Whatever the suites of channels, subscriptions, publications, inboxes,    *)
(* resumption, projections and bindings let through keeps their promises.    *)
THEOREM Deliveries == Spec => []DeliveriesHold
BY Reading, DeliveriesKept, PTL
=============================================================================
