# A TLA+ model of the AICP reference implementation

AICP (Agent Interaction Content Protocol) is a content layer for agents that
negotiate, agree on and amend contracts. Most of the repository is conformance
material: schemas, fixtures, transcripts, runners that check transcripts, and
runners that check foreign implementations. The stateful logic sits in a few
reducers under `reference/python`, in the checks of the conformance runners, and
in the live servers and process plumbing under `conformance/evidence` and
`interop/pairwise`. This directory models that logic in TLA+, checks it with TLC
and proves its main properties with TLAPS.

## The system and what is modelled

| Part of the repository | Modules | How far |
|---|---|---|
| Core v0.2 agreement reducer | `ContractAgreement`, `ExactHead`, `ContractAgreement_proofs` | all of it |
| Core v0.2 conformance runner | `CoreRunner`, `CoreRunner_proofs` | reading, cross-row checks, barrier |
| CAPNEG v0.2 reducer | `Capneg`, `Capneg_proofs` | all of it |
| Session state projection v2 | `CapnegProjection`, `Capneg_proofs` | all of it |
| Live HTTP, SSE and WebSocket server | `HttpLive`, `HttpLive_proofs` | mode good |
| Adapter subprocess | `AdapterProcess` | one invocation |
| IUT runner | `IutRunner`, `IutRunner_proofs` | plan, invocation, judgement, mark |
| Pairwise interoperability | `Pairwise`, `Pairwise_proofs` | scenario of version 1.3 with its faults |
| Core v0.1 and extension conformance runner | `Transcript`, `CheckRunner`, eleven `*Checks` modules, `Checks_proofs`, `CheckRunner_proofs` | checks of forty suites, expectations, mark |

### Core v0.2 exact agreement reducer

`reference/python/aicp_ref_v02/contract_agreement.py`, class
`ExactAgreementMachine`. It reads one transcript, message by message, and keeps
two indexes of proposals (by message id and by message hash), the exact tuples
that were accepted and rejected, the one active contract head, the selected
conflict result and an observable state.

* A proposal must start the contract (no base) or continue exactly the active
  head (same branch, base version equal to the head's).
* An acceptance names a proposal by id, hash, contract hash and reference; it
  activates the head only when the base still is the active head.
* A conflict resolution lists exact candidates on the active head and chooses
  one.

What is hard: messages of several parties in an order nobody wrote a test for.
Rival first proposals, candidates whose base has moved, a head that returns to an
earlier version, decisions that are repeated or reversed, an id that is reused.

`ContractAgreement.tla` has one action per handler (`Propose`, `Accept`,
`Context`, `Action`, `ResolveConflict`, `Error`, `Other`), `Foreign` for a message
of another session or contract and `Barred` for one that failed validation. A
contract is its exact version; a position in the transcript only chooses the
words of an issue and is left out; `raised` holds the issue codes of the last
message. `adopted` is a history variable: all heads that have been active.

`ExactHead.tla` is what the reducer promises, without messages, hashes and
tuples: one head, candidates whose base was the head when they were offered, and
decisions along a candidate whose base is the head now. `ContractAgreement`
implements it with `candidates` mapped to the references of the stored proposals;
a candidate may be forgotten because a reused id replaces the stored record.

### Core v0.2 conformance runner

`conformance/core_v02_runner`. It reads a file of one message per line, checks
every row by itself and against the others (chain of hashes, one session, unique
ids), and runs the reducer over all rows with the invalid ones barred.

`CoreRunner.tla` composes this with `ContractAgreement` (by EXTENDS: the reducer's
variables are the runner's, `Handle` and `Barred` are the two ways a row is
reduced). A row is a message with its line number, whether it is linked to the
row before and whether the checks of one message alone accept it. Not modelled:
the schemas and hashes behind that Boolean, the comparison with expected results
(`_evaluate_expected`), the badge and the command line.

### CAPNEG v0.2 reducer

`reference/python/aicp_ref_capneg_v02/state_machine.py`. Parties declare
capabilities, one proposes a negotiation result built on everybody's latest
declarations, all participants accept it or one rejects it, proposals are
revised, an accepted negotiation is superseded by another of the same context
(session, contract, participants), and a contract proposal may bind the accepted
result. State: latest declarations, used capability ids, negotiations, the last
negotiation, the bound contracts.

What is hard: rival negotiations of one context that are completed in any order;
supersession, which takes effect on the last acceptance of the successor, long
after the link was checked; declarations that change between two acceptances;
repetition of an acceptance after its effect; a second revision of what already
was accepted and superseded.

`Capneg.tla` has, for each message, the action and its refusal; the guards are
named operators (`ProposalValid`, `DecisionCurrent`, `PredecessorAllows`, ...).
A result stands for its canonical hash, a composition of profiles is a value and
a declaration says which compositions it supports. What looks at one message
alone is a Boolean (`sound`), signatures are "none", "valid" or "invalid".

`CapnegProjection.tla` is the validator of `session_state_v2.py`: a projection
names a context, a result and a composition as of an earlier message; the
validator reduces the transcript up to that message and looks for the one
negotiation in state ACCEPTED of the context. It is an operator over the state of
`Capneg`, evaluated for every projection in every state reached, because the
message a projection is as of may be any.

### Live HTTP, SSE and WebSocket server

`conformance/evidence/live_bindings/live_http_transport.py`, `HttpLiveState` and
the request handler. One thread per connection; cursors and records are under a
lock; `messages`, `message_ids`, `closed` and `ack` of a session are not.

`HttpLive.tla` has a handler per connection that goes through the reads and
writes of shared state in the order of the code, one step each: the closed flag,
the lookup of the id, its recording, the append; the check and the store of an
acknowledgement; offset, slice and one cursor per chunk of a delivery; the two
reads of a head. These are a handler's own steps (`Step`). Where it waits for its
client, which may stay silent for ever, the steps are others: to receive a request
(`Receive`), a WebSocket's frame (`ReadFrame`), to get rid of the reply
(`SendReply`). A cursor is the offset it stands for. The server's mode is
"good"; two mutants (`PostAlways`, `ReplayAnywhere`) are others. Not modelled: those
modes, the TLS observation, the client half of the file, shutdown, malformed
limits, and the moment between sending a reply and recording it.

### Adapter subprocess and IUT runner

`conformance/evidence/adapter_process.py` (and its copy in
`conformance/iut/aicp_iut_runner.py`) starts an adapter, writes all requests to
its standard input from one thread, drains its two output streams from two more,
and watches the child, one deadline and the byte limits from the caller's thread;
then it kills what still lives, closes the streams, joins the threads and judges.

`AdapterProcess.tla` has an action for each step of each thread, for the child
(which may write anything, exit whenever it likes, with any code, and leave a
process behind that holds its pipes) and for the deadline, which may pass at any
moment. A process left behind may write to the pipes as well, until they are closed. The unit of a stream is a line. A reader blocks inside a read until a
full chunk or the end of the stream; `close()` waits for a read in progress.

`IutRunner.tla` composes one such invocation with the plan of a mode (describe,
canonicalization vectors, generations and their repetitions, consumer cases,
describe again) and with the judgement of the answers: which case holds, what
degrades, and when a mark is granted. What an adapter may answer is
`IutResults(check)`. Not modelled: the overlay of projected reports, the archive
of evidence, the reference adapter, and the registry behind `covered` and
`released`.

### Pairwise interoperability

`interop/pairwise/aicp_pairwise_runner_v1_3.py` runs, in both directions, a
scenario of three messages (propose, accept, attest) between two foreign peers
whose clients and servers talk only through it; the report is judged afterwards by
`pairwise_report_evaluator_v1_3.py`. The runner can be told to misbehave
(`--test-behavior`: rewrite, reroute, synthesize, tell a peer what it should find
out by itself) and so can the peers.

`Pairwise.tla` has one action for each step of an exchange: the client's begin
(`BeginSend`, `BeginPoll`), the relay and the server (`Relay`), the response back
to the client (`Respond`), and the misbehaviours at any of these. An exchange is
one record from its beginning on, with what the relay will fill in set to what an
undisturbed relay leaves there. A hash is the
content it covers. The evaluator's rules are the operators from `Reported` to
`DirectionHolds`. Processes, byte formats and signatures are left out.

### Conformance runner for Core v0.1 and the extensions

`conformance/runner`. A suite is a directory of transcripts, or of cases of a
binding; each has checks that relate rows to one another and a set of failures
that each transcript is expected to show. A mark is granted when every transcript
showed just these and nothing was skipped.

`Transcript.tla` has what all checks use and the core checks (hash chain, unique
ids, one session). The eleven check modules translate the checks suite by suite;
each check is the set of rows it reports, and next to the checks of a suite stands
what a transcript that passes promises (`QLLegal`, `EXLegal`, ...), written without
the tables that the code keeps. `CheckRunner.tla` is the runner around them: a
transcript is read row by row, closed under an expectation, and reported.

| Module | Suites |
|---|---|
| `LeaseChecks` | queue leases, enforcement verdicts |
| `LifecycleChecks` | runs and threads, escrowed actions, responsibility transfers |
| `LineageChecks` | provenance, workflows, delegations |
| `IdentityChecks` | signatures, authenticated messages, keys, delegated identity, claims |
| `WitnessChecks` | transcript witness, resumption, state projection v1 |
| `ApprovalChecks` | human approval, external transactions, commerce, tool gating |
| `MembershipChecks` | participants, admissions, marketplace, roles |
| `NegotiationChecks` | CAPNEG v0.1, confidentiality, redaction, policy evaluation |
| `MediaChecks` | channels, subscriptions, publications, inboxes |
| `ObservationChecks` | observability, enterprise bindings, disputes, pinned artifacts |
| `BindingChecks` | transport binding cases, trust anchors, status assertions |

What looks at one message alone (required fields, enumerations, registered codes)
is the field `sound` of a message. A field that a message need not have is `None`
when it is missing, and each lookup does with None what the code does with a
missing field; what the parsing gives (`Parsed`) and what a hash stands for
(`HashStandsFor`) are assumptions on the alphabets. Left out: the resume-probing and alert suites, which have no
state beyond one message, `min_count` of an expected failure (expectations are
sets here) and the wording of reports.

### Not modelled

| Component | Why |
|---|---|
| CAPNEG runner (`conformance/capneg_v02_runner`) | its barrier is the action `Barred` of `Capneg`; the rest is a loop over independent cases |
| Profile composition | a pure function of a set of profiles and a table of rules; whether a composition resolves is part of `sound` |
| Schema validation, JCS, hashing, Ed25519 | byte-level algorithms; hashes are identities of what they cover |
| MCP live binding | the operations of the HTTP binding, one request at a time over one stream: none of the interleavings arise |
| `live_binding_process.py`, live clients and capture | sequential drivers of fixed scenarios |
| Trace evaluators, evidence and live binding runners, target catalogue | checks of finished files, and orchestration of the parts above |
| Pairwise versions 1.0 to 1.2, frozen release copies | the same scenario; most are byte-for-byte copies |
| Enforcement demo, TypeScript SDK, drop-ins, scripts, registry, schemas | helpers, data, generated files and repository upkeep, without agreement state |

The frozen copies, generators and upkeep scripts are most of the repository's
Python lines; nothing in them runs concurrently or keeps state between calls.
`PROJECT.json` lists the components with their files, and under `hazards` the lines
where the code could really go wrong.

## How the components interact

The Core runner calls the agreement reducer with a list of messages and a set of
barred positions; the CAPNEG runner does the same with its reducer. The CAPNEG
reducer and the Core reducer meet in `CONTRACT_PROPOSE`: the first checks that a
contract quotes the accepted negotiation, the second whether the contract
continues the head. The state projection reads the CAPNEG state after a prefix.
The live servers and the subprocess drivers carry messages and record what was
exchanged; the evaluators read those records. The IUT runner judges what one
adapter process answered; the pairwise runner judges what two peers did to each
other. Only the live servers and the subprocess drivers are concurrent.

| Module | Built from |
|---|---|
| `CoreRunner` | `ContractAgreement` |
| `CapnegProjection` | `Capneg` |
| `IutRunner` | `AdapterProcess` |
| `CheckRunner` | the eleven check modules, each on `Transcript` |
| `MCTools` | `MCCoreRunner`, `IutRunner`, `Pairwise`, of which one runs |

## Runs

TLC checks, with the bounds of each configuration:

| Run | Configuration | What it shows |
|---|---|---|
| agreement | MCContractAgreement | the invariants of the reducer, and that it implements `ExactHead` |
| tools | MCTools | the Core runner: invalid rows never touch the agreement, indexes and evidence stay whole; the IUT runner: marks are backed, the invocation ends; the pairwise test: what is eligible was honest |
| checks | MCCheckRunner | what forty suites of checks let through keeps their promises; the mark is earned |
| core_runner_blank | MCCoreRunnerBlank | violated: with a blank line a broken link is charged to another row |
| capneg_supersession | MCCapnegSupersession | one root per context, supersession by consent, safe replays, contracts bind the root |
| capneg_revision | MCCapnegRevision | decisions, rejections, changing declarations; a context never loses its root, and projections name it |
| capneg_immutable | MCCapnegImmutable | violated: a superseded negotiation is revised |
| http_ingestion | MCHttpIngestion | deduplication, truth of acceptances, closing |
| http_delivery | MCHttpDelivery | deliveries and cursors while messages arrive |
| http_others | MCHttpOthers | a handler that does not wait for its client comes to its answer |
| http_retry | MCHttpRetry | violated: overlapping retries store a message twice |
| http_head | MCHttpHead | violated: the head mixes two messages |

### Bounds and why they are enough

* **agreement**: three versions, two branches, seven proposals, no bound on the
  length of the transcript. Two rivals at the root, two at the next version, one
  that goes back to the first version and one with a stored id are the ways in
  which candidates can relate to a head; the faulty messages break one check each.
* **tools, Core runner**: MaxRows 4, MaxDefects 1, MaxBlankLines 0 (1 in
  core_runner_blank). A duplicated id or a broken link needs a proposal to be
  overwritten and an acceptance before and after it.
* **tools, IUT runner**: a pipe and a full read of two lines, a limit of four lines
  and at most five written (MaxLines) on standard output, so that a child can
  block on a full pipe, a reader can take less than the child wrote, and the limit
  can be passed. The full-profile plan has four requests (a description, a generation, its
  repetition, a description), the smoke plan one consumer case instead of
  generations. Standard error is empty: its drain is the same code, and it still
  has to be ended and closed. One valid artifact and an external or an internal
  adapter are all that the judgement tells apart.
* **tools, pairwise**: both directions, at most two misbehaviours (MaxFaults) of
  the harness or the peers: one may hide what the other leaves behind. The theorem
  `Honesty` has no bound on them.
* **checks**: one transcript of at most MaxRows messages, an alphabet per suite.
  The number of rows differs by suite: what the promise of a suite takes to be
  broken (a grant, two draws and a release for leases; three generations of a key;
  two updates of one version; two declarations, a proposal, an acceptance and a
  contract that binds it), from one (AUTH and SR, whose rows are whole cases)
  to six. In each suite a transcript within the bound passes the checks and meets the
  premises of every conjunct of its promise. The theorems of `CheckRunner_proofs` have no bound on the rows. Two transcripts are read, and
  an expectation is closed, in the suites that have one (`AUTH`, `SIG`); in the others a
  transcript is compared with its promise in every state, so its end adds nothing.
  `Relevant` leaves out the runs without a verifier of the suites that never look at
  a signature.
* **capneg**: two parties (acceptance is then first or last), two or three
  negotiations, two revisions. A line of three negotiations has a superseded one
  that superseded another. The declarations include a second one of a party, one
  that returns to an old identifier, one with another party's identifier and one
  in another party's name. MaxRevision bounds revisions; nothing bounds the number
  of messages. In the alphabet of capneg_revision no revision names a later
  negotiation as its predecessor; where one does (capneg_immutable), a projection of the root
  can become ambiguous or refer to none, and `ProjectionsNameTheRoot` and `RootSurvives`
  fail with `AcceptedIsImmutable`.
* **http**: two connections, so that every pair of steps of two handlers is
  interleaved; five requests in the ingestion and delivery runs (a session, up to
  three messages and their readers), three in the run of every kind of request.
  MaxRequests bounds what is received. The connections are symmetric in the safety
  runs, and in the delivery run so are the messages, each with its hash. Two
  handlers are enough for each race of the hazards; chunks of two messages and a
  limit of three give an event stream two events.

Deadlock is not checked where a bound ends the behaviour: a file is reduced, an
invocation judged, a transcript reported (`tools`, `checks`, `core_runner_blank`),
or MaxRequests are answered (`http`).

### Fairness

* `HttpLive`: weak fairness of each handler's own steps. A handler is an
  operating-system thread, which runs when it can. The plain `ThreadingHTTPServer`
  (line 783) sets no timeout on its sockets, so that a handler waits without a limit for the
  body of its request (324), for a WebSocket's frame (693) and for its client to
  read: nothing is assumed of these. `HandlersAnswer` therefore does not say that
  every handler ends, which the code does not guarantee. It says that a handler which
  does not wait for its own client comes to an answer whatever other clients do; that
  it takes no lock that a waiting handler holds is what the property is about.
* `AdapterProcess`: weak fairness of the runner's own threads, of the deadline
  (a clock passes it) and of the kernel (a killed process goes, a pipe without a
  reader breaks). The child and a process that it leaves behind owe nothing: the
  child may write for ever, or not at all. `InvocationEnds` holds except while such a process
  keeps the pipes open.
* The reducers, the Core runner, the check runner and the pairwise test carry no
  liveness: nothing makes a party send the next message, and a loop over a file
  ends with the file.

`Waits` in `HttpLive` is an assumption about clients: with ConcurrentRetries =
FALSE a client does not repeat a post that is still being served, as the
repository's own client (`execute_http_client`) does, which sends one request at
a time. `http_retry` drops it.

## Findings

* **core_runner_blank** The chain check numbers rows by position, the runner looks
  that number up among line numbers (`aicp_core_v02_runner.py:232`). With a blank
  line before it, a row with a broken link is not barred and advances the
  agreement; the normative text, section 12, forbids it. In files without a blank line this
  cannot happen (theorem `InvalidBarred`).
* **capneg_immutable** A revision is refused in state ACCEPTED only
  (`state_machine.py:645`). After its supersession an accepted negotiation can be
  revised under its id, and its accepted result is replaced; RFC_EXT_CAPNEG_v0.2
  calls it immutable. The context still has at most one root (theorem `OneRoot`),
  but it may end up with none, because two negotiations supersede each other; a
  projection of the root then refers to none or to more than one, and with three
  negotiations the repetition of the root's own acceptance may be refused. The proofs
  of `Capneg_proofs` show that this step is the only cause of all of these.
* **http_retry** Lookup and recording of a message id are not atomic
  (`live_http_transport.py:454` and `:477`), so two overlapping posts are both
  stored, against the rule that receivers deduplicate by message id.
* **http_head** The head's id and hash are two reads (`:564` and `:565`).

### Where the checks are weaker than their documents

Some of what the documents demand the code does not check, or not always. These
are stated as operators beside the promises, or noted here, and no passing run claims them.

| Where | What the document says | What the code does |
|---|---|---|
| `CaseMarkIsEarned`, suite TB | a degraded run grants no mark (`GLOSSARY.md:77`) | `aicp_conformance_runner.py:973` reports degraded = False although embedded signatures were skipped at 915 |
| `VerdictsPrecede`, suite TG | a result names a prior verdict (`RFC_EXT_TOOL_GATING.md:35`) | lines 4064-4077 look for the verdict anywhere in the transcript |
| `AsOfInWindow`, suite SR | a status is as of a moment in its window (`RFC_Revocation_and_Status_Channel.md:63`) | the moment must not be after the window's beginning |
| `ModesAreAccepted`, suite CF | the mode is the accepted one (`RFC_EXT_CONFIDENTIALITY.md:48`) | it is the one last proposed or accepted anywhere in the transcript |
| `NoneEscalates`, suite CH | a child is not more visible than its parent (`RFC_EXT_CHANNELS.md:46`) | the visibility that an update states is not compared |
| `ActsUnrevoked`, suite DI | no revocation is effective when a message acts (`RFC_EXT_DELEGATED_IDENTITY.md:47`) | only revocations that come before the message are looked at |
| `AssignmentsConclude`, suite RP | each assignment has an outcome (`RFC_EXT_RESPONSIBILITY.md:40`) | a second assignment of a transfer passes with the outcome of the first |
| suite QL | use stays within the lease's bounds (`RFC_EXT_QUEUE_LEASES.md:87`) | the last grant under an id gives the limits, so use beyond an earlier grant passes |
| IUT runner | one deadline for the whole invocation (`conformance/iut/README.md:8-10`) | `close()` waits for a reader that a process left behind keeps inside `read()` |
| CAPNEG runner | | the parameter `case_ids` leaves cases out without degrading the mark (`aicp_capneg_v02_runner.py:408`); only callers in code use it |
| adapter process | | the stream is closed before its reader is joined, so a complete answer given in time can be refused; never the other way round (`MarkBacked`) |

## Proofs

Every theorem is about all values of the constants, under the named assumptions
of the modules (fields have their types, None is none of the data).

`ContractAgreement_proofs.tla`: the lemma `StepShape` reduces a step to one of five
effects: nothing, a proposal is stored, accepted or rejected, or a conflict is
resolved. `IInv` is the inductive invariant: besides the safety properties it says
that nothing is accepted or adopted before the first activation, that nothing is
stored before the identity is fixed, and that the active head is a current-head
reference of the history; without these an acceptance could not be placed in the
history of heads. Proved: type correctness, `OneInitialAgreement`, `OneBranch`,
`AcceptedFollowAgreement`, `CandidatesFollowAgreement`, `HeadHasEvidence`,
`StateIsObservable`, and that the reducer implements `ExactHead`. A single candidate is
alone on its branch only: the code compares siblings by branch, so first proposals on
two branches are each a single candidate (`StateIsObservable` says no more).

`CoreRunner_proofs.tla`: every behaviour of the runner is a behaviour of the
reducer (`RunnerRunsReducer`: a row is handled, barred, or leaves the agreement
alone), so that the theorems above hold of it. `TraceInv` ties the two together: every stored
record comes from a row that was let through and whose id no earlier row has;
hence no decision loses its proposal (`EvidenceSurvives`), and the session is that
of the first row. `IndexesAgree` needs the hash of a message to cover its id
(`HashesCoverIds`; true of the alphabet of the run, and of any hash without
collisions). `InvalidNeverAdvances` needs `NoBlankLine`, by which the position of a
row is its line; that is the assumption core_runner_blank drops.

`Capneg_proofs.tla` proves type correctness, `StateIsDecided`, `RejectionIsFinal`,
`AcceptedOnLatestDeclarations` and `AtMostOneRoot` without any assumption on
revisions. The last needs `RootInv`, which adds `SuccessorsStand`: the successor of
a replaced negotiation is a root itself or was replaced in turn. An acceptance may
lean on a predecessor that this very successor already replaced; `SuccessorsStand`
is what says that such an acceptance adds no second root.

The second part of `Capneg_proofs.tla` is about behaviours in which no superseded negotiation
is accepted again (`NotRevived`), or none is revised (`NotRevised`), the assumption
that capneg_immutable shows the code does not keep. There the accepted
negotiations of a context form one line, each replaced by the next, whose last is
the root: `SupersededByConsent`, `RootSurvives`, `ProjectionsNameTheRoot`, `ContractsBindTheRoot`,
`AcceptedIsImmutable` and `ReplayIsSafe` follow.

`HttpLive_proofs.tla` holds for any number of connections, sessions and requests.
`Placement` says at which step a handler holds which local value (types). `FactInv`
says what each handler has read and what its record relies on: logs only grow, a
closed session stays closed, a slice is a piece of the log as it was, so a fact
that held when it was read still holds when it is used. `DedupInv` follows one
pair of session and id: at most one handler is between its lookup and its append, when a
client waits for its answer (`~ConcurrentRetries`). Proved: `TypeOK`,
`LateIsRefused`, `DeliveriesAreContiguous`, `AcceptedIsDelivered`, and with waiting clients
`Deduplicated` and `AcceptanceIsTrue`.

`IutRunner_proofs.tla` holds for plans and pipes of any size. Its invariant
`IInv` says that what a child wrote is what was read plus what is in the pipe,
until a chunk is dropped for its size (`Conserved`); that the caller judges only when the
child is gone and both streams are closed, and that nothing is read from a closed
stream (`Settled`); so an answered invocation is over and what the mark looks at is
fixed (`AnswersStand`). `PlanShape` says that a plan asks for the first description
once, and follows each generation by its repetition. From these `MarkIsBacked`
follows.

`Checks_proofs.tla` proves what each suite promises, for transcripts of any
length: when the checks report nothing of a transcript, its promise holds. It also
proves that no message of a transcript that passes can be left out, swapped with
its neighbour or repeated without a check noticing, when hashes do not collide
(`Tampering`). The arguments are of three kinds:

* a check compares a row with the last row before it under a key, and the promise
  with any such row: the rows are finitely many, so the last one exists
  (`GreatestIn`), and a later row under the same key was itself checked;
* a check compares neighbours, and the promise rows any distance apart (versions
  that grow, cursors that do not go back, chains of hashes, a delegation's depth):
  a least counterexample has a neighbour that is a smaller one (`Minimum`). This
  takes the place of the library's induction theorems, which take an operator;
* a check walks a recursive function over the rows (the keyrings after each row, the
  streaks of equal calls): the function is first shown to exist, as one for fewer rows can be
  extended by a row (`RingsExist`, `StreaksExist`).

`CheckRunner_proofs.tla` brings this to the runner. What is read is a sequence over the
alphabet of its suite (`Reading`), hence `RightsHold`, `LivesHold`, `LineageHolds`,
`IdentitiesHold`, `AgreementsHold` and `DeliveriesHold`, each for every catalogue of suites
and every alphabet. `MarkIsEarned` does not depend on what the checks look for:
`Faithful` says that the failures entered for a transcript are those the checks found
or, without a verifier, those expected, and `CasesApart` that the binding suites keep
apart from this.

These theorems assume of the messages what the code before the checks makes sure
of, and no more:

| Assumption | What it says | Why the code justifies it |
|---|---|---|
| `NoneAssumption`, `Parsed` | times, versions, cursors and depths are numbers or None; lists have places | `_parse_iso_datetime`, `_parse_version_number` and the type tests of the checks return a number or nothing |
| `HashStandsFor` | a message hash tells its id and is made over hashes made before it (`Depth`); a declaration found by its hash is the one meant | the core check recomputes each hash (`CT-MESSAGE-HASH-01` otherwise), and SHA-256 has no known collisions or cycles |
| `KeysAssumption` | a published key is a triple of agent, kid and key | the key maps are read into dictionaries by agent and kid |

`Pairwise_proofs.tla` proves `EligibleIsHonest` for any number of misbehaviours
(`Honesty`). While nobody misbehaved, the run has one course: what each party sent,
keeps and holds is a function of how far the run is (`Clean`). The first
misbehaviour leaves a trace (`Doomed`): an exchange in the report or at hand that
is marked or wrong in itself, a phase that the report lacks, an answer that the client
refuses, a message that its server spoilt and nobody polled yet (`Spoilt`), a
message that its client misread and did not answer yet (`Misread`). The two traces
that are not in the report yet are why `EligibleIsHonest` is not inductive: the
next poll or answer turns them into one of the others, whoever misbehaves in between. No step
removes a trace, and the evaluator rejects a report with any of them (`DoomedIsRejected`).
That a report names each phase at most once, and only phases that are over (`Book`),
is what makes the evaluator's lookups find the exchange with the trace.

Only model-checked: liveness, `HandlersAnswer` and `InvocationEnds`, which is out of the prover's
reach, as are ENABLED and what a recursive definition computes for every input. Every
safety invariant and action property that a passing run checks is a theorem.

In a few definitions `(SUBSET S)` and `(UNION S)` carry parentheses that TLC does not
need: TLC and the prover read these operators with a different precedence.

## Hazards without a property

* acknowledgements of one session that overlap
  (`live_http_transport.py:491`): no document says that they are monotone;
* a reply is recorded after it was sent (`:376`): only tests and captures read the records;
* the expired cursor of an empty log (`:531`): a fixed token of the scenarios;
* the marks of binding suites without a verifier and the order of verdicts
  (`aicp_conformance_runner.py:973`, `:4075`): see the table above.

## What is left

The suites that look at one message at a time, the comparison of the Core and
CAPNEG runners with their expected results, and the byte-level evaluators of
traces and evidence are not modelled; their correctness is that of data
comparisons that tests reach well. The faulty modes of the live server exist to
test clients, and are mutants here rather than behaviours. What would add most
is the relay of the live binding process (`live_binding_process.py`), which
handles one request at a time over the pipes of `AdapterProcess`.
