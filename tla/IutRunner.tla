----------------------------- MODULE IutRunner -----------------------------
(* The runner for an implementation under test                               *)
(* (conformance/iut/aicp_iut_runner.py, run_iut): it builds the plan of the  *)
(* mode, has an adapter answer it in one invocation, and judges the answers  *)
(* case by case. A request is a check: its kind and what is expected of it.  *)
(* An artifact is a value; whether it is a transcript of the neutral         *)
(* scenario that passes the required suites is Valid. `clean' stands for     *)
(* not degraded, no degraded reasons and no skipped checks.                  *)
EXTENDS AdapterProcess, FiniteSets

CONSTANTS
  Vectors,    \* number of canonicalization vectors
  Producers,  \* by mode, the sequence of producer scenarios
  Consumers,  \* by mode, the sequence of consumer cases
  Artifacts,  \* what a generation may return
  Valid,      \* the artifacts that satisfy scenario and suites
  Metadata    \* what an adapter may say of itself

Modes == {"smoke", "full-profile"}
NoArtifact == "none"
\* An answer about an artifact; listed: whether it lists errors.
Observations == [accepted : BOOLEAN, clean : BOOLEAN, listed : BOOLEAN]
Consumer == [scope : {"normal", "case_local_expected"}, accepted : BOOLEAN, clean : BOOLEAN]

ASSUME IutAssumption ==
  /\ Vectors \in Nat /\ Valid \subseteq Artifacts
  /\ Metadata \subseteq [complete : BOOLEAN, external : BOOLEAN, supports : BOOLEAN, digest : Nat]
  /\ Producers \in [Modes -> Seq(STRING)] /\ Consumers \in [Modes -> Seq(Consumer)]

VARIABLES
  mode,    \* the execution mode, "none" before
  report   \* the report, or NoReport

iutVars == <<mode, report>>
NoReport == [passed |-> FALSE, degraded |-> FALSE, mark |-> FALSE, written |-> FALSE]

\* What an adapter may answer to a request of each kind.
IutResults(check) ==
  CASE check.kind \in {"describe_start", "describe_end"} -> Metadata
    [] check.kind = "canonicalize" -> BOOLEAN
    [] check.kind \in {"generate", "generate_repeat"} -> Artifacts \cup {NoArtifact}
    [] check.kind = "validate" -> Observations

-----------------------------------------------------------------------------
(* The plan *)

\* In full-profile mode each scenario is generated twice.
Generations(m) ==
  LET scenarios == Producers[m]
      once(k) == [kind |-> "generate", scenario |-> scenarios[k]]
      again(k) == [kind |-> "generate_repeat", scenario |-> scenarios[k]] IN
  IF m = "full-profile"
  THEN [n \in 1 .. 2 * Len(scenarios) |->
          IF n % 2 = 1 THEN once((n + 1) \div 2) ELSE again(n \div 2)]
  ELSE [n \in DOMAIN scenarios |-> once(n)]

BuildPlan(m) ==
  <<[kind |-> "describe_start"]>>
  \o [n \in 1 .. Vectors |-> [kind |-> "canonicalize"]]
  \o Generations(m)
  \o [n \in DOMAIN Consumers[m] |-> [kind |-> "validate", case |-> Consumers[m][n]]]
  \o <<[kind |-> "describe_end"]>>

Start ==
  /\ \E m \in Modes : mode' = m /\ Launch(BuildPlan(m))
  /\ UNCHANGED report

-----------------------------------------------------------------------------
(* The judgement of the answers *)

Result(n) == Output[n].result
Asked(kind) == CHOOSE n \in DOMAIN requests : requests[n].kind = kind

Agrees(n) ==
  LET check == requests[n] IN
  Result(n) = [accepted |-> check.case.accepted, clean |-> check.case.clean,
               listed |-> ~check.case.accepted]

Repeats(n) == Result(n) \in Valid /\ Result(n) = Result(n - 1)

CaseHolds(n) ==
  LET kind == requests[n].kind IN
  CASE kind = "describe_start" -> Result(n).complete
    [] kind = "describe_end" -> Result(n) = Result(Asked("describe_start"))
    [] kind = "canonicalize" -> Result(n)
    [] kind = "generate" -> Result(n) \in Valid
    [] kind = "generate_repeat" -> Repeats(n)
    [] kind = "validate" -> Agrees(n)

\* What an unclean answer says counts when it answers a normal case.
Degrades(n) ==
  requests[n].kind = "validate" /\ requests[n].case.scope = "normal" /\ ~Result(n).clean

Eligible(passed, degraded, released) ==
  /\ mode = "full-profile" /\ passed /\ ~degraded /\ released
  /\ Result(Asked("describe_start")).external

\* `covered': the catalogue names the cases the plan runs, and each once;
\* `released': the runner's files are those of the registered release.
WriteReport ==
  /\ verdict = "answered" /\ ~report.written
  /\ \E covered, released \in BOOLEAN :
       LET passed == /\ covered /\ released
                     /\ \A n \in DOMAIN requests : CaseHolds(n)
                     /\ Result(Asked("describe_start")).supports
           degraded == \E n \in DOMAIN requests : Degrades(n) IN
       report' = [passed |-> passed, degraded |-> degraded,
                  mark |-> Eligible(passed, degraded, released), written |-> TRUE]
  /\ UNCHANGED <<adapterVars, mode>>

IutInit == AdapterInit /\ mode = "none" /\ report = NoReport
IutNext == Start \/ (AdapterNext /\ UNCHANGED iutVars) \/ WriteReport
IutSpec == IutInit /\ [][IutNext]_<<adapterVars, iutVars>> /\ AdapterFairness

-----------------------------------------------------------------------------
(* Properties *)

\* A mark is backed by what the implementation wrote, itself or by a process it
\* left behind, however they, the pipes and the clock behaved: it was not killed
\* and exited in good order, the output begins with one answer to each request in
\* order (a surplus may be lost with the stream that is closed under its reader),
\* it described itself alike and as external at both ends of the plan, and every
\* scenario was generated twice with the same valid artifact.
MarkIsBacked ==
  report.mark =>
    LET said == child.said["stdout"]
        describes == {n \in DOMAIN requests : requests[n].kind \in {"describe_start", "describe_end"}}
        generates == {n \in DOMAIN requests : requests[n].kind = "generate"} IN
    /\ ~caller.timed_out /\ child.code = 0
    /\ Len(said) >= Len(requests)
    /\ \A n \in DOMAIN requests : said[n].request = n
    /\ Cardinality({said[n].result : n \in describes}) = 1
    /\ \A n \in describes : said[n].result.external /\ said[n].result.supports
    /\ \A n \in generates :
         said[n].result \in Valid /\ said[n + 1].result = said[n].result
=============================================================================
