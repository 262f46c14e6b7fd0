------------------------------ MODULE Pairwise ------------------------------
(* One run of the pairwise interoperability test                             *)
(* (interop/pairwise/aicp_pairwise_runner_v1_3.py): in each of two           *)
(* directions a producer proposes, a consumer accepts and the producer       *)
(* attests, each as a message its client sends to the other side's server    *)
(* and the other side's client polls from there. The harness relays every    *)
(* request and response and keeps a report, which                            *)
(* pairwise_report_evaluator_v1_3.py judges. Clients and servers are those   *)
(* of cleanroom/peer_a/peer_a_v1_3.py. The harness has the misbehaviours of  *)
(* its --test-behavior, the peers those of their --behavior, at any exchange *)
(* rather than at a fixed one. A hash is the content it was computed over.   *)
(* The session, contract and challenge of a direction are fresh: its number. *)
EXTENDS Naturals, Sequences, FiniteSets

CONSTANT MaxFaults  \* bound: misbehaviours in one run

ASSUME PairwiseAssumption == MaxFaults \in Nat

Sides == {"A", "B"}
Peer(side) == IF side = "A" THEN "B" ELSE "A"
Directions == 1 .. 2
Producer(d) == IF d = 1 THEN "A" ELSE "B"
Phases == <<"propose", "poll_proposal", "accept", "poll_acceptance", "attest", "poll_attestation">>
Sends == {"propose", "accept", "attest"}
\* The message a phase is about, named by the phase that sends it.
About == [propose |-> "propose", poll_proposal |-> "propose", accept |-> "accept",
          poll_acceptance |-> "accept", attest |-> "attest", poll_attestation |-> "attest"]
ClientOf(d, p) ==
  IF p \in {"propose", "poll_acceptance", "attest"} THEN Producer(d) ELSE Peer(Producer(d))
ServerOf(d, p) ==
  IF About[p] = "accept" THEN Producer(d) ELSE Peer(Producer(d))

Nothing == [stage |-> "none", hash |-> [type |-> "none"]]
Stale == [type |-> "stale"]          \* a hash of no message of the run
Challenge == [type |-> "challenge"]  \* what the harness tells of the challenge
Elsewhere == 0   \* another session, another run's challenge, another cursor
Sealed(content) == [content |-> content, hash |-> content]
Honest(message) == message.hash = message.content

VARIABLES
  direction,  \* of the exchange at hand
  turn,       \* the index of its phase in Phases
  exchange,   \* the exchange at hand, or Nothing
  know,       \* by client and direction: its cursor, and the messages it holds
  visible,    \* by client, the hashes it saw, in order
  store,      \* by server and direction, the messages it took
  ledger,     \* the exchanges of the report, in order
  faults,     \* the misbehaviours so far
  outcome     \* running, done, failed, eligible or rejected

pairVars == <<direction, turn, exchange, know, visible, store, ledger, faults, outcome>>

Name == Phases[turn]
Client == ClientOf(direction, Name)
Mine == know[Client][direction]

PairInit ==
  /\ direction = 1 /\ turn = 1 /\ exchange = Nothing
  /\ know = [s \in Sides |-> [d \in Directions |->
       [cursor |-> 0, propose |-> Nothing, accept |-> Nothing, attest |-> Nothing]]]
  /\ visible = [s \in Sides |-> <<>>]
  /\ store = [s \in Sides |-> [d \in {Elsewhere} \cup Directions |-> <<>>]]
  /\ ledger = <<>> /\ faults = 0 /\ outcome = "running"

\* A step misbehaves, or not.
Fault(bad) ==
  /\ bad => faults < MaxFaults
  /\ faults' = IF bad THEN faults + 1 ELSE faults

-----------------------------------------------------------------------------
(* The harness has a client begin a phase. *)

Reported(d, p) == {i \in DOMAIN ledger : ledger[i].direction = d /\ ledger[i].phase = p}
\* The message that the client of phase p reported as its own.
Authored(d, p) == ledger[CHOOSE i \in Reported(d, p) : TRUE].message

\* A consumer that is not made to poll is handed the proposal.
Preseeded == Name = "accept" /\ Reported(direction, "poll_proposal") = {}

\* The message a client answers: what it holds, or was handed.
Answered ==
  IF Name = "propose" THEN Nothing
  ELSE IF Preseeded THEN Authored(direction, "propose")
  ELSE IF Name = "accept" THEN Mine.propose ELSE Mine.accept

Composed(session, goal, prev) ==
  Sealed([type |-> Name, session |-> session, sender |-> Client, goal |-> goal, prev |-> prev])

Rightly ==
  Composed(direction, IF Name = "propose" THEN direction ELSE Elsewhere,
           Answered.hash)

\* The challenge of another run; a session or a hash that is not the peer's.
Wrongly ==
  IF Name = "propose" THEN {Composed(direction, Elsewhere, Nothing.hash)}
  ELSE {Composed(Elsewhere, Elsewhere, Answered.hash), Composed(direction, Elsewhere, Stale)}

Begun(asked, told) ==
  [direction |-> direction, phase |-> Name, client |-> Client, told |-> told, request |-> asked,
   message |-> IF Name \in Sends THEN asked ELSE Nothing, before |-> visible[Client], stage |-> "relay",
   server |-> "none", response |-> [ok |-> FALSE], origin |-> "participants", verbatim |-> TRUE, id |-> TRUE]

BeginSend ==
  /\ exchange = Nothing /\ outcome = "running" /\ Name \in Sends
  /\ \E m \in {Rightly} \cup Wrongly :
       /\ Fault(m # Rightly)
       /\ exchange' = Begun(m, IF Preseeded THEN {Answered.hash} ELSE {})
  /\ UNCHANGED <<direction, turn, know, visible, store, ledger, outcome>>

\* A poll with its cursor, or another; the consumer may be told the challenge.
BeginPoll ==
  /\ exchange = Nothing /\ outcome = "running" /\ Name \notin Sends
  /\ \E after \in {Mine.cursor, 0, Elsewhere + 9}, session \in {direction, Elsewhere},
        told \in {{}, {Challenge}} :
       /\ told # {} => Name = "poll_proposal" /\ after = Mine.cursor /\ session = direction
       /\ Fault(after # Mine.cursor \/ session # direction \/ told # {})
       /\ exchange' = Begun([after |-> after, session |-> session], told)
  /\ UNCHANGED <<direction, turn, know, visible, store, ledger, outcome>>

Advance ==
  IF turn < Len(Phases) THEN turn' = turn + 1 /\ UNCHANGED <<direction, outcome>>
  ELSE /\ turn' = 1
       /\ direction' = IF direction = 1 THEN 2 ELSE direction
       /\ outcome' = IF direction = 1 THEN outcome ELSE "done"

SkipPoll ==
  /\ exchange = Nothing /\ outcome = "running"
  /\ Name \in {"poll_proposal", "poll_attestation"}
  /\ Fault(TRUE) /\ Advance
  /\ UNCHANGED <<exchange, know, visible, store, ledger>>

-----------------------------------------------------------------------------
(* The relay and the server *)

\* An annotated request or response has a field that neither peer looks at; a
\* constructed one is said to come from the harness.
RelayFaults == {"wrong_server", "annotate", "change_id", "construct", "synthesize"}
ServerFaults == {IF Name \in Sends THEN "server_rewrites" ELSE "another_session"}

\* The server keeps the message, which was composed well-formed.
Taken(side, m, deed) ==
  LET kept == IF deed = "server_rewrites" THEN [m EXCEPT !.content.sender = "nobody"] ELSE m IN
  [store EXCEPT ![side][m.content.session] = Append(@, kept)]

\* At most one message of the session after the cursor, if that was issued.
Polled(side, r, deed) ==
  LET log == store[side][r.session]
      found == IF r.after < Len(log) THEN <<log[r.after + 1]>> ELSE <<>>
      returned == IF deed = "another_session" /\ found # <<>>
                  THEN [found EXCEPT ![1].content.session = Elsewhere] ELSE found IN
  IF r.after > Len(log) THEN [ok |-> FALSE]
  ELSE [ok |-> TRUE, messages |-> returned, next |-> r.after + Len(found)]

\* A poll is not answered by a synthesized acceptance.
Response(side, deed) ==
  IF Name \in Sends THEN [ok |-> TRUE, accepted |-> exchange.request.hash]
  ELSE IF deed = "synthesize" THEN [ok |-> FALSE] ELSE Polled(side, exchange.request, deed)

Relay ==
  /\ exchange # Nothing /\ exchange.stage = "relay"
  /\ \E deed \in {"none"} \cup RelayFaults \cup ServerFaults :
       LET due == ServerOf(direction, Name)
           server == IF deed = "wrong_server" THEN Peer(due) ELSE due IN
       /\ Fault(deed # "none")
       /\ exchange' = [exchange EXCEPT !.stage = "respond", !.server = server,
             !.response = Response(server, deed),
             !.origin = IF deed \in {"construct", "synthesize"} THEN "harness" ELSE "participants",
             !.verbatim = deed \notin {"annotate", "change_id"}, !.id = deed # "change_id"]
       /\ store' = IF Name \in Sends /\ deed # "synthesize"
                   THEN Taken(server, exchange.request, deed) ELSE store
  /\ UNCHANGED <<direction, turn, know, visible, ledger, outcome>>

-----------------------------------------------------------------------------
(* The client has its answer, and the exchange enters the report. *)

\* What a client refuses ends the run without a report.
Correlated == exchange.server = ServerOf(direction, Name) /\ exchange.id /\ exchange.response.ok

Consumable ==
  /\ Len(exchange.response.messages) = 1
  /\ LET m == exchange.response.messages[1] IN
       m.content.type = About[Name] /\ m.content.session = direction /\ Honest(m)

Satisfied ==
  Correlated /\ (IF Name \in Sends THEN exchange.response.accepted = exchange.message.hash
                 ELSE Consumable)

\* A client may keep the peer's message with another sender.
Consume ==
  LET m == exchange.response.messages[1]
      rewritten == Sealed([m.content EXCEPT !.sender = "nobody"]) IN
  /\ \E kept \in {m, rewritten} :
       /\ kept # m => Name # "poll_attestation"
       /\ Fault(kept # m)
       /\ know' = [know EXCEPT ![Client][direction] =
            [@ EXCEPT !.cursor = exchange.response.next, ![About[Name]] = kept]]
  /\ visible' = [visible EXCEPT ![Client] = Append(@, m.hash)]

Respond ==
  /\ exchange # Nothing /\ exchange.stage = "respond" /\ Satisfied
  /\ IF Name \in Sends THEN UNCHANGED <<know, visible, faults>> ELSE Consume
  /\ ledger' = Append(ledger, exchange)
  /\ exchange' = Nothing
  /\ Advance
  /\ UNCHANGED store

Fail ==
  /\ exchange # Nothing /\ exchange.stage = "respond" /\ ~Satisfied
  /\ outcome' = "failed" /\ exchange' = Nothing
  /\ UNCHANGED <<direction, turn, know, visible, store, ledger, faults>>

-----------------------------------------------------------------------------
(* The evaluator *)

ThePhase(d, p) == ledger[CHOOSE i \in Reported(d, p) : TRUE]
Polls == {"poll_proposal", "poll_acceptance", "poll_attestation"}

\* Mutant: the acceptance may follow any message.
CausalLoosely(d) == Authored(d, "attest").content.prev = Authored(d, "accept").hash
Causal(d) ==
  /\ Authored(d, "accept").content.prev = Authored(d, "propose").hash
  /\ Authored(d, "attest").content.prev = Authored(d, "accept").hash

InScope(d) ==
  /\ \A p \in Sends : Honest(Authored(d, p)) /\ Authored(d, p).content.session = d
  /\ Authored(d, "propose").content.goal = d

\* The cursor of a client's second poll is the one that its first one got.
ExpectedCursor(d, p) ==
  IF p = "poll_attestation" THEN ThePhase(d, "poll_proposal").response.next ELSE 0

PollHolds(d, p) ==
  LET x == ThePhase(d, p) IN
  /\ x.request = [after |-> ExpectedCursor(d, p), session |-> d]
  /\ x.response.messages = <<Authored(d, About[p])>>
  /\ x.response.next # x.request.after

SendHolds(d, p) ==
  LET x == ThePhase(d, p) IN x.request = x.message /\ x.response.accepted = x.message.hash

Transparent(x) ==
  /\ x.server = ServerOf(x.direction, x.phase) /\ x.client = ClientOf(x.direction, x.phase)
  /\ x.origin = "participants" /\ x.verbatim /\ x.id

\* What a client was told, wrote or read in an exchange.
Heard(x) ==
  x.told \cup {x.before[k] : k \in DOMAIN x.before} \cup
  (IF x.phase \in Sends THEN {x.message.hash, x.message.content.prev}
   ELSE {x.response.messages[k].hash : k \in DOMAIN x.response.messages})

\* A client first meets a message, or a challenge, in the poll that brings it.
FirstSeen(d, p) ==
  LET i == CHOOSE i \in Reported(d, p) : TRUE
      x == ledger[i]
      earlier == {j \in 1 .. i - 1 : ledger[j].client = x.client}
      polled == SelectSeq(SubSeq(ledger, 1, i - 1),
                          LAMBDA y : y.client = x.client /\ y.phase \in Polls) IN
  /\ x.told = {}
  /\ \A j \in earlier : Authored(d, About[p]).hash \notin Heard(ledger[j])
  /\ x.before = [k \in DOMAIN polled |-> polled[k].response.messages[1].hash]

NothingTold(x) == x.told = {}

DirectionHolds(d) ==
  /\ \A k \in DOMAIN Phases : Cardinality(Reported(d, Phases[k])) = 1
  /\ InScope(d) /\ Causal(d)
  /\ \A p \in Polls : PollHolds(d, p) /\ FirstSeen(d, p)
  /\ \A p \in Sends : SendHolds(d, p)
  /\ \A i \in DOMAIN ledger : Transparent(ledger[i]) /\ NothingTold(ledger[i])

Evaluate ==
  /\ outcome = "done"
  /\ outcome' = IF \A d \in Directions : DirectionHolds(d) THEN "eligible" ELSE "rejected"
  /\ UNCHANGED <<direction, turn, exchange, know, visible, store, ledger, faults>>

PairNext == BeginSend \/ BeginPoll \/ SkipPoll \/ Relay \/ Respond \/ Fail \/ Evaluate

PairSpec == PairInit /\ [][PairNext]_pairVars

-----------------------------------------------------------------------------
(* Properties *)

\* An eligible report is of an honest run. In each direction every server holds
\* the messages their authors composed, every client holds them as it polled
\* them, and each answer is to the message that its author held: however the
\* harness and the peers misbehaved, no agreement is reported that the two
\* implementations did not reach by themselves.
EligibleIsHonest ==
  outcome = "eligible" => faults = 0 /\ \A d \in Directions :
    LET producer == Producer(d)
        consumer == Peer(producer) IN
    /\ store[consumer][d] = <<Authored(d, "propose"), Authored(d, "attest")>>
    /\ store[producer][d] = <<Authored(d, "accept")>>
    /\ know[consumer][d].propose = Authored(d, "propose")
    /\ know[producer][d].accept = Authored(d, "accept")
    /\ know[consumer][d].attest = Authored(d, "attest")
    /\ Authored(d, "accept").content.prev = know[consumer][d].propose.hash
    /\ Authored(d, "attest").content.prev = know[producer][d].accept.hash
=============================================================================
