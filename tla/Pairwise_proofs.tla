--------------------------- MODULE Pairwise_proofs ---------------------------
(* An eligible report is of an honest run, for any number of misbehaviours.  *)
(*                                                                           *)
(* As long as nobody misbehaved, a run has one course: what each party sends,*)
(* holds and keeps at each step is known (Clean). The first misbehaviour     *)
(* leaves a trace in the report, or in what the report is going to be made   *)
(* of (Doomed): a mark on an exchange, a phase that is missing, an answer    *)
(* that its client refuses, a message that its server spoilt or its client   *)
(* misread. No later step removes a trace, whatever it does: the traces of   *)
(* the third to the last kind turn into one of the first or the second, or   *)
(* end the run. And the evaluator rejects every report with such a trace.    *)
EXTENDS Pairwise, FiniteSetTheorems, TLAPS

Steps == 1 .. 6
Consumer(d) == Peer(Producer(d))
Over == outcome \in {"done", "eligible", "rejected"}

\* Phase k of direction d is over; or at least its request was relayed.
Past(d, k) == Over \/ direction > d \/ (direction = d /\ turn > k)
Relayed == exchange # Nothing /\ exchange.stage = "respond"
Sent(d, k) == Past(d, k) \/ (direction = d /\ turn = k /\ Relayed)

\* A message of phase p, composed by c.
IsMessage(m, p, c) ==
  /\ m = [content |-> m.content, hash |-> m.content]
  /\ m.content = [type |-> p, session |-> m.content.session, sender |-> c,
                  goal |-> m.content.goal, prev |-> m.content.prev]

IsExchange(x) ==
  /\ DOMAIN x = {"direction", "phase", "client", "told", "request", "message", "before", "stage",
                 "server", "response", "origin", "verbatim", "id"}
  /\ x.direction \in Directions /\ x.client = ClientOf(x.direction, x.phase)
  /\ x.phase \in Sends => x.message = x.request /\ IsMessage(x.message, x.phase, x.client)

\* The exchange at hand, whatever was done to it.
Shape ==
  /\ direction \in Directions /\ turn \in Steps /\ faults \in Nat
  /\ outcome \in {"running", "failed", "done", "eligible", "rejected"}
  /\ DOMAIN know = Sides /\ DOMAIN store = Sides
  /\ \A s \in Sides : DOMAIN know[s] = Directions /\ DOMAIN store[s] = {Elsewhere} \cup Directions
  /\ \A s \in Sides, d \in Directions :
        DOMAIN know[s][d] = {"cursor", "propose", "accept", "attest"}
  /\ exchange = Nothing \/ exchange.stage \in {"relay", "respond"}
  /\ exchange # Nothing =>
       /\ outcome = "running" /\ exchange.direction = direction /\ exchange.phase = Name
       /\ IsExchange(exchange)
       /\ exchange.stage = "relay" =>
            exchange.origin = "participants" /\ exchange.verbatim /\ exchange.id
       /\ Relayed /\ Name \notin Sends /\ exchange.response.ok =>
            exchange.response.next = exchange.request.after + Len(exchange.response.messages)

\* The report: each phase at most once, no phase that is not over, and every
\* message that was sent.
Book ==
  /\ \E S : ledger \in Seq(S)
  /\ \A i \in DOMAIN ledger :
       /\ IsExchange(ledger[i])
       /\ \E k \in Steps : ledger[i].phase = Phases[k] /\ Past(ledger[i].direction, k)
       /\ ledger[i].phase \notin Sends => ledger[i].response.next = ledger[i].request.after + 1
  /\ \A i, j \in DOMAIN ledger :
       ledger[i].direction = ledger[j].direction /\ ledger[i].phase = ledger[j].phase => i = j
  /\ \A d \in Directions, k \in {1, 3, 5} : Past(d, k) => Reported(d, Phases[k]) # {}

-----------------------------------------------------------------------------
(* The course of a run in which nobody misbehaves *)

Proposal(d) ==
  Sealed([type |-> "propose", session |-> d, sender |-> Producer(d), goal |-> d,
          prev |-> Nothing.hash])
Acceptance(d) ==
  Sealed([type |-> "accept", session |-> d, sender |-> Consumer(d), goal |-> Elsewhere,
          prev |-> Proposal(d).hash])
Attestation(d) ==
  Sealed([type |-> "attest", session |-> d, sender |-> Producer(d), goal |-> Elsewhere,
          prev |-> Acceptance(d).hash])
Meant(d, p) ==
  CASE p = "propose" -> Proposal(d)
    [] p = "accept" -> Acceptance(d)
    [] p = "attest" -> Attestation(d)

\* What a server keeps and a client holds.
Log(s, d) ==
  IF s = Producer(d) THEN (IF Sent(d, 3) THEN <<Acceptance(d)>> ELSE <<>>)
  ELSE IF Sent(d, 5) THEN <<Proposal(d), Attestation(d)>>
  ELSE IF Sent(d, 1) THEN <<Proposal(d)>> ELSE <<>>
Knows(s, d) ==
  IF s = Producer(d)
  THEN [cursor |-> IF Past(d, 4) THEN 1 ELSE 0, propose |-> Nothing,
        accept |-> IF Past(d, 4) THEN Acceptance(d) ELSE Nothing, attest |-> Nothing]
  ELSE [cursor |-> IF Past(d, 6) THEN 2 ELSE IF Past(d, 2) THEN 1 ELSE 0,
        propose |-> IF Past(d, 2) THEN Proposal(d) ELSE Nothing, accept |-> Nothing,
        attest |-> IF Past(d, 6) THEN Attestation(d) ELSE Nothing]
\* The cursor a poll begins with.
After(p) == IF p = "poll_attestation" THEN 1 ELSE 0

Clean ==
  /\ \A d \in Directions, k \in Steps : Past(d, k) => Reported(d, Phases[k]) # {}
  /\ \A i \in DOMAIN ledger : ledger[i].phase \in Sends =>
       ledger[i].message = Meant(ledger[i].direction, ledger[i].phase)
  /\ \A s \in Sides, d \in Directions : store[s][d] = Log(s, d)
  /\ \A s \in Sides, d \in Directions : know[s][d] = Knows(s, d)
  /\ exchange # Nothing =>
       IF Name \in Sends THEN exchange.request = Meant(direction, Name)
       ELSE /\ exchange.request = [after |-> After(Name), session |-> direction]
            /\ Relayed => exchange.response.messages = <<Meant(direction, About[Name])>>

-----------------------------------------------------------------------------
(* The traces of a misbehaviour *)

\* The hash of no message that anybody composed in this run.
Foreign(hash) == hash = Stale \/ (hash.type # "stale" /\ hash.sender = "nobody")
Wrong(x) ==
  \/ x.told # {} \/ x.origin # "participants" \/ ~x.verbatim
  \/ x.phase \in Sends /\ x.message.content.session # x.direction
  \/ x.phase = "propose" /\ x.message.content.goal # x.direction
  \/ x.phase \in {"accept", "attest"} /\ Foreign(x.message.content.prev)
  \/ x.phase \notin Sends /\ (x.request.session # x.direction \/ x.request.after # After(x.phase))

\* A record with a session that is no message of phase p as it was composed.
Spoils(m, p) ==
  /\ "content" \in DOMAIN m /\ "session" \in DOMAIN m.content
  /\ m.content.type = p => ~Honest(m)
\* The server of phase k keeps no message of it as it was composed, and was not
\* polled since.
Spoilt(d, k) ==
  /\ Sent(d, k) /\ ~Sent(d, k + 1)
  /\ LET log == store[ServerOf(d, Phases[k])][d] IN
       /\ \E S : log \in Seq(S)
       /\ \A i \in DOMAIN log : Spoils(log[i], Phases[k])
\* The client of phase k holds another message than it was given, and has not
\* used it yet.
Misread(d, k) ==
  /\ Past(d, k) /\ ~Past(d, k + 1) /\ exchange = Nothing
  /\ Reported(d, Phases[k]) # {}
  /\ LET hash == know[ClientOf(d, Phases[k])][d][About[Phases[k]]].hash
     IN hash.type # "stale" /\ hash.sender = "nobody"

Doomed ==
  \/ outcome \in {"failed", "rejected"}
  \/ \E i \in DOMAIN ledger : Wrong(ledger[i])
  \/ \E d \in Directions, k \in Steps : Past(d, k) /\ Reported(d, Phases[k]) = {}
  \/ exchange # Nothing /\ (Wrong(exchange) \/ (Relayed /\ ~Satisfied))
  \/ \E d \in Directions, k \in {1, 3, 5} : Spoilt(d, k)
  \/ \E d \in Directions, k \in {2, 4} : Misread(d, k)

IInv ==
  /\ Shape
  /\ outcome # "failed" => Book
  /\ outcome # "failed" /\ faults = 0 => Clean
  /\ faults > 0 => Doomed
  /\ outcome = "eligible" => faults = 0

-----------------------------------------------------------------------------
(* Phases, and how a run moves through them *)

\* Each phase has a name, a client and a server.
LEMMA PhaseNames ==
  /\ DOMAIN Phases = Steps /\ Len(Phases) = 6
  /\ Phases[1] = "propose" /\ Phases[2] = "poll_proposal" /\ Phases[3] = "accept"
  /\ Phases[4] = "poll_acceptance" /\ Phases[5] = "attest" /\ Phases[6] = "poll_attestation"
BY DEF Phases, Steps

\* No two phases have the same name; the odd ones send.
LEMMA PhasesDiffer ==
  /\ \A j, k \in Steps : Phases[j] = Phases[k] => j = k
  /\ \A k \in Steps : Phases[k] \in Sends <=> k \in {1, 3, 5}
<1>1. \A k \in Steps : k \in {1, 2, 3, 4, 5, 6}
  BY DEF Steps
<1> QED BY <1>1, PhaseNames DEF Sends

\* A phase is about the message of the phase that sends it.
LEMMA Abouts ==
  /\ About["propose"] = "propose" /\ About["poll_proposal"] = "propose"
  /\ About["accept"] = "accept" /\ About["poll_acceptance"] = "accept"
  /\ About["attest"] = "attest" /\ About["poll_attestation"] = "attest"
BY DEF About

\* Who talks to whom.
LEMMA Ends ==
  ASSUME NEW d \in Directions
  PROVE  /\ Producer(d) \in Sides /\ Consumer(d) \in Sides /\ Producer(d) # Consumer(d)
         /\ Sides = {Producer(d), Consumer(d)}
         /\ \A p \in {"propose", "poll_acceptance", "attest"} : ClientOf(d, p) = Producer(d)
         /\ \A p \in {"accept", "poll_proposal", "poll_attestation"} : ClientOf(d, p) = Consumer(d)
         /\ \A p \in {"propose", "poll_proposal", "attest", "poll_attestation"} :
               ServerOf(d, p) = Consumer(d)
         /\ \A p \in {"accept", "poll_acceptance"} : ServerOf(d, p) = Producer(d)
         /\ \A s \in Sides : Peer(s) \in Sides /\ Peer(s) # s
<1>1. /\ Producer(d) \in Sides /\ Consumer(d) \in Sides /\ Producer(d) # Consumer(d)
      /\ Sides = {Producer(d), Consumer(d)}
      /\ \A s \in Sides : Peer(s) \in Sides /\ Peer(s) # s
  BY DEF Producer, Consumer, Peer, Sides
<1>2. /\ \A p \in {"propose", "poll_acceptance", "attest"} : ClientOf(d, p) = Producer(d)
      /\ \A p \in {"accept", "poll_proposal", "poll_attestation"} : ClientOf(d, p) = Consumer(d)
  BY DEF ClientOf, Consumer
<1>3. /\ \A p \in {"propose", "poll_proposal", "attest", "poll_attestation"} :
            ServerOf(d, p) = Consumer(d)
      /\ \A p \in {"accept", "poll_acceptance"} : ServerOf(d, p) = Producer(d)
  BY Abouts DEF ServerOf, Consumer
<1> QED BY <1>1, <1>2, <1>3

\* While a run goes on, the phase at hand is not over, those before it are and
\* those after it are not.
LEMMA AtHand ==
  ASSUME Shape, outcome = "running"
  PROVE  /\ ~Past(direction, turn)
         /\ \A k \in Steps : Past(direction, k) <=> k < turn
         /\ \A d \in Directions, k \in Steps : d # direction => (Past(d, k) <=> d < direction)
BY DEF Shape, Past, Over, Steps, Directions

\* Moving on puts just the phase at hand behind.
LEMMA Moving ==
  ASSUME Shape, outcome = "running", Advance
  PROVE  /\ direction' \in Directions /\ turn' \in Steps /\ outcome' \in {"running", "done"}
         /\ \A d \in Directions, k \in Steps :
               Past(d, k)' <=> Past(d, k) \/ (d = direction /\ k = turn)
<1>1. direction \in {1, 2} /\ turn \in 1 .. 6 /\ Len(Phases) = 6
  BY PhaseNames DEF Shape, Directions, Steps
<1>2. CASE turn < 6
  BY <1>1, <1>2 DEF Advance, Past, Over, Directions, Steps
<1>3. CASE turn = 6
  BY <1>1, <1>3 DEF Advance, Past, Over, Directions, Steps
<1> QED BY <1>1, <1>2, <1>3

\* What was over stays so where direction, turn and outcome stay.
LEMMA Staying ==
  ASSUME UNCHANGED <<direction, turn, outcome>>
  PROVE  /\ Name' = Name
         /\ \A d, k : Past(d, k)' = Past(d, k)
BY DEF Name, Past, Over

-----------------------------------------------------------------------------
(* Messages *)

\* What a client composes.
LEMMA Composing ==
  ASSUME NEW session, NEW goal, NEW prev, NEW m, m = Composed(session, goal, prev)
  PROVE  /\ IsMessage(m, Name, Client)
         /\ m.content.session = session /\ m.content.goal = goal /\ m.content.prev = prev
BY DEF Composed, Sealed, IsMessage

\* What is meant is composed, in its direction and by its author.
LEMMA Meaning ==
  ASSUME NEW d \in Directions, NEW p \in Sends
  PROVE  /\ IsMessage(Meant(d, p), p, ClientOf(d, p)) /\ Honest(Meant(d, p))
         /\ Meant(d, p).content.session = d /\ Meant(d, p).content.type = p
         /\ Meant(d, p).content.sender = ClientOf(d, p)
<1>1. CASE p = "propose"
  <2>1. Meant(d, p) = Proposal(d)
    BY <1>1 DEF Meant
  <2> QED BY <1>1, <2>1, Ends DEF Proposal, Sealed, IsMessage, Honest
<1>2. CASE p = "accept"
  <2>1. Meant(d, p) = Acceptance(d)
    BY <1>2 DEF Meant
  <2> QED BY <1>2, <2>1, Ends DEF Acceptance, Sealed, IsMessage, Honest
<1>3. CASE p = "attest"
  <2>1. Meant(d, p) = Attestation(d)
    BY <1>3 DEF Meant
  <2> QED BY <1>3, <2>1, Ends DEF Attestation, Sealed, IsMessage, Honest
<1> QED BY <1>1, <1>2, <1>3 DEF Sends

\* In a clean run a client composes what is meant.
LEMMA ComposingRightly ==
  ASSUME Shape, outcome = "running", Clean, Name \in Sends
  PROVE  Rightly = Meant(direction, Name)
<1> DEFINE d == direction
<1>1. d \in Directions /\ turn \in Steps /\ Name = Phases[turn]
  BY DEF Shape, Name
<1>2. turn \in {1, 3, 5}
  BY <1>1, PhasesDiffer
<1>3. CASE turn = 1
  <2>1. Name = "propose" /\ Client = Producer(d)
    BY <1>1, <1>3, PhaseNames, Ends DEF Client
  <2> QED BY <2>1 DEF Rightly, Composed, Answered, Meant, Proposal
<1>4. CASE turn = 3
  <2>1. Name = "accept" /\ Client = Consumer(d)
    BY <1>1, <1>4, PhaseNames, Ends DEF Client
  <2>2. Past(d, 2) /\ 2 \in Steps
    BY <1>1, <1>4, AtHand DEF Steps
  <2>3. ~Preseeded
    BY <1>1, <2>2, PhaseNames DEF Preseeded, Clean
  <2>4. Mine.propose = Proposal(d)
    <3>1. know[Client][d] = Knows(Client, d) /\ Client # Producer(d)
      BY <1>1, <2>1, Ends DEF Clean
    <3> QED BY <2>2, <3>1 DEF Mine, Knows
  <2>5. Answered = Proposal(d)
    BY <2>1, <2>3, <2>4 DEF Answered
  <2> QED BY <2>1, <2>5 DEF Rightly, Composed, Meant, Acceptance
<1>5. CASE turn = 5
  <2>1. Name = "attest" /\ Client = Producer(d)
    BY <1>1, <1>5, PhaseNames, Ends DEF Client
  <2>2. Past(d, 4) /\ 4 \in Steps
    BY <1>1, <1>5, AtHand DEF Steps
  <2>4. Mine.accept = Acceptance(d)
    <3>1. know[Client][d] = Knows(Client, d) /\ Client = Producer(d)
      BY <1>1, <2>1, Ends DEF Clean
    <3> QED BY <2>2, <3>1 DEF Mine, Knows
  <2>5. Answered = Acceptance(d)
    BY <2>1, <2>4 DEF Answered, Preseeded
  <2> QED BY <2>1, <2>5 DEF Rightly, Composed, Meant, Attestation
<1> QED BY <1>2, <1>3, <1>4, <1>5

\* In a clean run a client polls with the cursor that is meant.
LEMMA PollingRightly ==
  ASSUME Shape, outcome = "running", Clean, Name \notin Sends
  PROVE  Mine.cursor = After(Name)
<1> DEFINE d == direction
<1>1. d \in Directions /\ turn \in Steps /\ Name = Phases[turn]
  BY DEF Shape, Name
<1>2. turn \in {2, 4, 6}
  BY <1>1, PhasesDiffer DEF Steps
<1>3. /\ Client \in Sides /\ Mine = Knows(Client, d)
      /\ Client = ClientOf(d, Name)
  <2>1. Client \in Sides
    BY <1>1, <1>2, PhaseNames, Ends DEF Client
  <2> QED BY <1>1, <2>1 DEF Client, Mine, Clean
<1>4. /\ Past(d, 2) <=> 2 < turn
      /\ Past(d, 4) <=> 4 < turn
      /\ Past(d, 6) <=> 6 < turn
  BY AtHand DEF Steps
<1>5. CASE turn = 4
  <2>1. Name = "poll_acceptance" /\ Client = Producer(d)
    BY <1>1, <1>3, <1>5, PhaseNames, Ends
  <2> QED BY <1>3, <1>4, <1>5, <2>1 DEF Knows, After
<1>6. CASE turn = 2
  <2>1. Name = "poll_proposal" /\ Client # Producer(d)
    BY <1>1, <1>3, <1>6, PhaseNames, Ends
  <2> QED BY <1>3, <1>4, <1>6, <2>1 DEF Knows, After
<1>7. CASE turn = 6
  <2>1. Name = "poll_attestation" /\ Client # Producer(d)
    BY <1>1, <1>3, <1>7, PhaseNames, Ends
  <2> QED BY <1>3, <1>4, <1>7, <2>1 DEF Knows, After
<1> QED BY <1>2, <1>5, <1>6, <1>7

-----------------------------------------------------------------------------
(* The harness has a client begin a phase. *)

\* The exchange that begins is one of its phase.
LEMMA Beginning ==
  ASSUME Shape, exchange = Nothing, outcome = "running",
         NEW asked, NEW told, exchange' = Begun(asked, told),
         Name \in Sends => IsMessage(asked, Name, Client),
         UNCHANGED <<direction, turn, know, store, ledger, outcome>>, faults' \in Nat
  PROVE  /\ Shape'
         /\ exchange' # Nothing /\ ~Relayed' /\ exchange'.stage = "relay"
         /\ exchange'.direction = direction /\ exchange'.phase = Name
         /\ exchange'.request = asked /\ exchange'.told = told
         /\ Name \in Sends => exchange'.message = asked
<1>1. /\ exchange'.stage = "relay" /\ exchange'.direction = direction /\ exchange'.phase = Name
      /\ exchange'.client = Client /\ exchange'.request = asked /\ exchange'.told = told
      /\ exchange'.message = IF Name \in Sends THEN asked ELSE Nothing
      /\ exchange'.origin = "participants" /\ exchange'.verbatim /\ exchange'.id
  BY DEF Begun
<1>2. exchange' # Nothing /\ ~Relayed'
  BY <1>1 DEF Nothing, Relayed
<1>3. Name' = Name
  BY DEF Name
<1>4. direction \in Directions /\ Client = ClientOf(direction, Name)
  BY DEF Shape, Client
<1>5. IsExchange(exchange')
  <2>1. DOMAIN exchange' = {"direction", "phase", "client", "told", "request", "message", "before",
                            "stage", "server", "response", "origin", "verbatim", "id"}
    BY DEF Begun
  <2> QED BY <1>1, <1>4, <2>1 DEF IsExchange
<1>6. Shape'
  BY <1>1, <1>2, <1>3, <1>5 DEF Shape
<1> QED BY <1>1, <1>2, <1>6

\* As long as no phase ends, the report stays as it is.
LEMMA BookKept ==
  ASSUME Book, UNCHANGED <<direction, turn, outcome, ledger>>
  PROVE  Book'
<1>1. \A d, k : Past(d, k)' = Past(d, k)
  BY Staying
<1>2. \A d, p : Reported(d, p)' = Reported(d, p)
  BY DEF Reported
<1> QED BY <1>1, <1>2 DEF Book

\* In a clean run with no exchange, beginning the one that is meant is clean.
LEMMA BeginningClean ==
  ASSUME Shape, exchange = Nothing, outcome = "running", Clean,
         UNCHANGED <<direction, turn, know, store, ledger, outcome>>,
         exchange' # Nothing, ~Relayed',
         IF Name \in Sends THEN exchange'.request = Meant(direction, Name)
         ELSE exchange'.request = [after |-> After(Name), session |-> direction]
  PROVE  Clean'
<1>1. Name' = Name /\ \A e, k : Past(e, k)' = Past(e, k)
  BY Staying
<1>2. \A e, k : Sent(e, k)' = Sent(e, k)
  BY <1>1 DEF Sent, Relayed
<1>3. \A e, p : Reported(e, p)' = Reported(e, p)
  BY DEF Reported
<1>4. \A s, e : Log(s, e)' = Log(s, e) /\ Knows(s, e)' = Knows(s, e)
  BY <1>1, <1>2 DEF Log, Knows
<1> QED BY <1>1, <1>3, <1>4 DEF Clean

\* A trace outside the exchange at hand stays while an exchange begins, if no
\* message was misread.
LEMMA BeginningDoomed ==
  ASSUME Shape, exchange = Nothing, outcome = "running", Doomed,
         UNCHANGED <<direction, turn, know, store, ledger, outcome>>,
         exchange' # Nothing, ~Relayed',
         ~\E d \in Directions, k \in {2, 4} : Misread(d, k)
  PROVE  Doomed'
<1>1. \A e, k : Past(e, k)' = Past(e, k)
  BY Staying
<1>2. \A e, k : Sent(e, k)' = Sent(e, k)
  BY <1>1 DEF Sent, Relayed
<1>3. \A e, p : Reported(e, p)' = Reported(e, p)
  BY DEF Reported
<1>4. \A e, k : Spoilt(e, k)' = Spoilt(e, k)
  BY <1>2 DEF Spoilt
<1>5. CASE \E i \in DOMAIN ledger : Wrong(ledger[i])
  BY <1>5 DEF Doomed
<1>6. CASE \E d \in Directions, k \in Steps : Past(d, k) /\ Reported(d, Phases[k]) = {}
  BY <1>1, <1>3, <1>6 DEF Doomed
<1>7. CASE \E d \in Directions, k \in {1, 3, 5} : Spoilt(d, k)
  BY <1>4, <1>7 DEF Doomed
<1> QED BY <1>5, <1>6, <1>7 DEF Doomed

\* Who misread the message that it is to answer answers a message that nobody
\* composed.
LEMMA MisreadAnswers ==
  ASSUME Shape, outcome = "running",
         NEW d \in Directions, NEW k \in {2, 4}, Misread(d, k),
         NEW m, m = Rightly
  PROVE  Name \in {"accept", "attest"} /\ Foreign(m.content.prev)
<1>1. d = direction /\ turn = k + 1 /\ Name = Phases[k + 1]
  <2>1. Past(d, k) /\ ~Past(d, k + 1) /\ k \in Steps /\ k + 1 \in Steps
    BY DEF Misread, Steps
  <2>2. d = direction
    BY <2>1, AtHand
  <2>3. k < turn /\ ~(k + 1 < turn)
    BY <2>1, <2>2, AtHand
  <2> QED BY <2>2, <2>3 DEF Shape, Name, Steps
<1>2. m.content.prev = Answered.hash
  BY Composing DEF Rightly
<1>3. CASE k = 2
  <2>1. Name = "accept" /\ Client = ClientOf(d, "poll_proposal")
    BY <1>1, <1>3, PhaseNames, Ends DEF Client
  <2>2. Answered = Mine.propose
    BY <1>1, <1>3, <2>1, PhaseNames DEF Answered, Preseeded, Misread
  <2>3. Mine.propose.hash.type # "stale" /\ Mine.propose.hash.sender = "nobody"
    BY <1>1, <1>3, <2>1, PhaseNames, Abouts DEF Misread, Mine
  <2> QED BY <1>2, <2>1, <2>2, <2>3 DEF Foreign
<1>4. CASE k = 4
  <2>1. Name = "attest" /\ Client = ClientOf(d, "poll_acceptance")
    BY <1>1, <1>4, PhaseNames, Ends DEF Client
  <2>2. Answered = Mine.accept
    BY <2>1 DEF Answered, Preseeded
  <2>3. Mine.accept.hash.type # "stale" /\ Mine.accept.hash.sender = "nobody"
    BY <1>1, <1>4, <2>1, PhaseNames, Abouts DEF Misread, Mine
  <2> QED BY <1>2, <2>1, <2>2, <2>3 DEF Foreign
<1> QED BY <1>3, <1>4

\* A wrong message can be told from the exchange it is in; and so can every
\* message of a client that misread what it answers.
LEMMA WronglySent ==
  ASSUME Shape, outcome = "running", Name \in Sends,
         NEW m, NEW x, x.message = m, x.phase = Name, x.direction = direction,
         m \in Wrongly \/ (m = Rightly /\ \E d \in Directions, k \in {2, 4} : Misread(d, k))
  PROVE  Wrong(x)
<1>1. direction # Elsewhere
  BY DEF Shape, Directions, Elsewhere
<1>2. CASE m \in Wrongly /\ Name = "propose"
  <2>1. m = Composed(direction, Elsewhere, Nothing.hash)
    BY <1>2 DEF Wrongly
  <2> QED BY <1>1, <1>2, <2>1, Composing DEF Wrong
<1>3. CASE m \in Wrongly /\ Name # "propose"
  <2>1. CASE m = Composed(Elsewhere, Elsewhere, Answered.hash)
    <3>1. m.content.session = Elsewhere
      BY <2>1, Composing
    <3> QED BY <1>1, <3>1 DEF Wrong
  <2>2. CASE m = Composed(direction, Elsewhere, Stale)
    <3>1. m.content.prev = Stale
      BY <2>2, Composing
    <3>2. Name \in {"accept", "attest"}
      BY <1>3 DEF Sends
    <3> QED BY <3>1, <3>2 DEF Wrong, Foreign
  <2> QED BY <1>3, <2>1, <2>2 DEF Wrongly
<1>4. CASE m = Rightly /\ \E d \in Directions, k \in {2, 4} : Misread(d, k)
  <2>1. Name \in {"accept", "attest"} /\ Foreign(m.content.prev)
    BY <1>4, MisreadAnswers
  <2> QED BY <2>1 DEF Wrong
<1> QED BY <1>2, <1>3, <1>4

\* Beginning to send preserves the invariant.
LEMMA BeginSendStep ==
  ASSUME IInv, BeginSend
  PROVE  IInv'
<1>1. /\ Shape /\ Book /\ exchange = Nothing /\ outcome = "running" /\ Name \in Sends
      /\ UNCHANGED <<direction, turn, know, visible, store, ledger, outcome>>
  BY DEF IInv, BeginSend
<1>2. PICK m \in {Rightly} \cup Wrongly :
        /\ Fault(m # Rightly)
        /\ exchange' = Begun(m, IF Preseeded THEN {Answered.hash} ELSE {})
  BY DEF BeginSend
<1>3. IsMessage(m, Name, Client)
  BY <1>2, Composing DEF Rightly, Wrongly
<1>4. faults' \in Nat /\ (faults' = 0 => faults = 0 /\ m = Rightly)
      /\ (faults' > 0 => faults > 0 \/ m \in Wrongly)
  BY <1>1, <1>2 DEF Fault, Shape
<1>5. /\ Shape' /\ exchange' # Nothing /\ ~Relayed'
      /\ exchange'.direction = direction /\ exchange'.phase = Name
      /\ exchange'.request = m /\ exchange'.message = m
  BY <1>1, <1>2, <1>3, <1>4, Beginning
<1>6. Book'
  BY <1>1, BookKept
<1>7. ASSUME faults' = 0 PROVE Clean'
  <2>1. Clean
    BY <1>1, <1>4, <1>7 DEF IInv
  <2>2. exchange'.request = Meant(direction, Name)
    BY <1>1, <1>4, <1>5, <1>7, <2>1, ComposingRightly
  <2> QED BY <1>1, <1>5, <2>1, <2>2, BeginningClean
<1>8. ASSUME faults' > 0 PROVE Doomed'
  <2>1. CASE m \in Wrongly \/ \E d \in Directions, k \in {2, 4} : Misread(d, k)
    <3>1. Wrong(exchange')
      BY <1>1, <1>2, <1>5, <2>1, WronglySent
    <3> QED BY <1>5, <3>1 DEF Doomed
  <2>2. CASE ~(m \in Wrongly \/ \E d \in Directions, k \in {2, 4} : Misread(d, k))
    <3>1. Doomed
      BY <1>4, <1>8, <2>2 DEF IInv
    <3> QED BY <1>1, <1>5, <2>2, <3>1, BeginningDoomed
  <2> QED BY <2>1, <2>2
<1> QED BY <1>1, <1>5, <1>6, <1>7, <1>8 DEF IInv

\* So does beginning to poll.
LEMMA BeginPollStep ==
  ASSUME IInv, BeginPoll
  PROVE  IInv'
<1>1. /\ Shape /\ Book /\ exchange = Nothing /\ outcome = "running" /\ Name \notin Sends
      /\ UNCHANGED <<direction, turn, know, visible, store, ledger, outcome>>
  BY DEF IInv, BeginPoll
<1>2. PICK after \in {Mine.cursor, 0, Elsewhere + 9}, session \in {direction, Elsewhere},
           told \in {{}, {Challenge}} :
        /\ Fault(after # Mine.cursor \/ session # direction \/ told # {})
        /\ exchange' = Begun([after |-> after, session |-> session], told)
  BY DEF BeginPoll
<1>3. /\ faults' \in Nat
      /\ faults' = 0 => faults = 0 /\ after = Mine.cursor /\ session = direction /\ told = {}
      /\ faults' > 0 => faults > 0 \/ after # Mine.cursor \/ session # direction \/ told # {}
  BY <1>1, <1>2 DEF Fault, Shape
<1>4. /\ Shape' /\ exchange' # Nothing /\ ~Relayed'
      /\ exchange'.direction = direction /\ exchange'.phase = Name
      /\ exchange'.request = [after |-> after, session |-> session] /\ exchange'.told = told
  BY <1>1, <1>2, <1>3, Beginning
<1>5. Book'
  BY <1>1, BookKept
<1>6. ASSUME faults' = 0 PROVE Clean'
  <2>1. Clean
    BY <1>1, <1>3, <1>6 DEF IInv
  <2>2. Mine.cursor = After(Name)
    BY <1>1, <2>1, PollingRightly
  <2>3. exchange'.request = [after |-> After(Name), session |-> direction]
    BY <1>3, <1>4, <1>6, <2>2
  <2> QED BY <1>1, <1>4, <2>1, <2>3, BeginningClean
<1>7. ASSUME faults' > 0 PROVE Doomed'
  <2>1. CASE faults = 0
    <3>1. Mine.cursor = After(Name)
      BY <1>1, <2>1, PollingRightly DEF IInv
    <3>2. Wrong(exchange')
      BY <1>1, <1>3, <1>4, <1>7, <2>1, <3>1 DEF Wrong, Shape
    <3> QED BY <1>4, <3>2 DEF Doomed
  <2>2. CASE faults > 0
    <3>1. Doomed
      BY <2>2 DEF IInv
    <3>2. ~\E d \in Directions, k \in {2, 4} : Misread(d, k)
      BY <1>1, MisreadAnswers DEF Sends
    <3> QED BY <1>1, <1>4, <3>1, <3>2, BeginningDoomed
  <2> QED BY <1>1, <2>1, <2>2 DEF Shape
<1> QED BY <1>1, <1>4, <1>5, <1>6, <1>7 DEF IInv

-----------------------------------------------------------------------------
(* A poll is left out. *)

\* The phase at hand is not in the report.
LEMMA Unreported ==
  ASSUME Shape, Book, outcome = "running"
  PROVE  Reported(direction, Name) = {}
<1> SUFFICES ASSUME NEW i \in DOMAIN ledger,
                    ledger[i].direction = direction, ledger[i].phase = Name
             PROVE  FALSE
  BY DEF Reported
<1>1. turn \in Steps /\ Name = Phases[turn]
  BY DEF Shape, Name
<1>2. PICK k \in Steps : ledger[i].phase = Phases[k] /\ Past(ledger[i].direction, k)
  BY DEF Book
<1>3. k = turn
  BY <1>1, <1>2, PhasesDiffer
<1> QED BY <1>2, <1>3, AtHand

\* So does leaving a poll out: its phase is missing from the report for good.
LEMMA SkipPollStep ==
  ASSUME IInv, SkipPoll
  PROVE  IInv'
<1>1. /\ Shape /\ Book /\ exchange = Nothing /\ outcome = "running" /\ Advance
      /\ Name \in {"poll_proposal", "poll_attestation"}
      /\ UNCHANGED <<exchange, know, visible, store, ledger>>
  BY DEF IInv, SkipPoll
<1>2. faults' \in Nat /\ faults' > 0
  BY <1>1 DEF SkipPoll, Fault, Shape
<1>3. /\ direction' \in Directions /\ turn' \in Steps /\ outcome' \in {"running", "done"}
      /\ \A d \in Directions, k \in Steps : Past(d, k)' <=> Past(d, k) \/ (d = direction /\ k = turn)
  BY <1>1, Moving
<1>4. Shape'
  BY <1>1, <1>2, <1>3 DEF Shape
<1>5. /\ direction \in Directions /\ turn \in Steps /\ Name = Phases[turn]
      /\ turn \notin {1, 3, 5}
  BY <1>1, PhasesDiffer, PhaseNames DEF Shape, Name, Sends
<1>6. \A d, p : Reported(d, p)' = Reported(d, p)
  BY <1>1 DEF Reported
<1>7. Book'
  <2>1. \A i \in DOMAIN ledger : \A d : ledger[i].direction = d =>
          \E k \in Steps : ledger[i].phase = Phases[k] /\ Past(d, k)'
    <3>1. \A i \in DOMAIN ledger : ledger[i].direction \in Directions
      BY <1>1 DEF Book, IsExchange
    <3>2. \A i \in DOMAIN ledger : \E k \in Steps :
            ledger[i].phase = Phases[k] /\ Past(ledger[i].direction, k)
      BY <1>1 DEF Book
    <3> QED BY <1>3, <3>1, <3>2
  <2>2. \A d \in Directions, k \in {1, 3, 5} : Past(d, k)' => Reported(d, Phases[k]) # {}
    BY <1>1, <1>3, <1>5 DEF Book, Steps
  <2> QED BY <1>1, <1>6, <2>1, <2>2 DEF Book
<1>8. Doomed'
  <2>1. Reported(direction, Phases[turn]) = {}
    BY <1>1, <1>5, Unreported
  <2>2. \A d \in Directions, k \in Steps :
          d = direction /\ k = turn => Past(d, k)' /\ Reported(d, Phases[k])' = {}
    BY <1>3, <1>6, <2>1
  <2>3. \E d \in Directions, k \in Steps : Past(d, k)' /\ Reported(d, Phases[k])' = {}
    BY <1>5, <2>2
  <2> QED BY <2>3 DEF Doomed
<1> QED BY <1>2, <1>3, <1>4, <1>7, <1>8 DEF IInv

-----------------------------------------------------------------------------
(* The relay and the server *)

\* What a poll is answered: nothing, or the message after its cursor, which a
\* misbehaving server puts into another session.
Answers(a, side, r, deed) ==
  /\ a.next = r.after + Len(a.messages)
  /\ \/ a.messages = <<>>
     \/ /\ r.after < Len(store[side][r.session])
        /\ deed # "another_session"
        /\ a.messages = <<store[side][r.session][r.after + 1]>>
     \/ /\ r.after < Len(store[side][r.session])
        /\ deed = "another_session"
        /\ a.messages = <<[store[side][r.session][r.after + 1]
                             EXCEPT !.content.session = Elsewhere]>>
  /\ r.after < Len(store[side][r.session]) => a.messages # <<>>

\* That is what a server answers, if it answers at all.
LEMMA PollAnswered ==
  ASSUME NEW side, NEW r, NEW deed
  PROVE  Polled(side, r, deed).ok => Answers(Polled(side, r, deed), side, r, deed)
<1> DEFINE a == Polled(side, r, deed)
           log == store[side][r.session]
           m == log[r.after + 1]
           found == IF r.after < Len(log) THEN <<m>> ELSE <<>>
           returned == IF deed = "another_session" /\ found # <<>>
                       THEN [found EXCEPT ![1].content.session = Elsewhere] ELSE found
<1>1. a = IF r.after > Len(log) THEN [ok |-> FALSE]
          ELSE [ok |-> TRUE, messages |-> returned, next |-> r.after + Len(found)]
  BY DEF Polled
<1> SUFFICES ASSUME a.ok PROVE Answers(a, side, r, deed)
  OBVIOUS
<1> HIDE DEF a, m
<1>2. a.messages = returned /\ a.next = r.after + Len(found)
  <2>1. CASE r.after > Len(log)
    <3>1. a = [ok |-> FALSE]
      BY <1>1, <2>1
    <3>2. a.ok = FALSE
      BY <3>1
    <3> QED BY <3>2
  <2>2. CASE ~(r.after > Len(log))
    <3> HIDE DEF returned, found
    <3> QED BY <1>1, <2>2
  <2> QED BY <2>1, <2>2
<1>3. CASE r.after < Len(log) /\ deed = "another_session"
  <2>1. found = <<m>> /\ <<m>> # <<>>
    BY <1>3
  <2>2. [<<m>> EXCEPT ![1].content.session = Elsewhere] = <<[m EXCEPT !.content.session = Elsewhere]>>
    OBVIOUS
  <2>3. returned = <<[m EXCEPT !.content.session = Elsewhere]>>
    BY <1>3, <2>1, <2>2
  <2>4. Len(<<[m EXCEPT !.content.session = Elsewhere]>>) = 1 /\ Len(<<m>>) = 1
    OBVIOUS
  <2>5. <<[m EXCEPT !.content.session = Elsewhere]>> # <<>>
    OBVIOUS
  <2> QED BY <1>2, <1>3, <2>1, <2>3, <2>4, <2>5 DEF m, Answers
<1>4. CASE r.after < Len(log) /\ deed # "another_session"
  <2>1. returned = <<m>> /\ found = <<m>> /\ <<m>> # <<>>
    BY <1>4
  <2> QED BY <1>2, <1>4, <2>1 DEF m, Answers
<1>5. CASE ~(r.after < Len(log))
  <2>1. returned = <<>> /\ found = <<>>
    BY <1>5
  <2> QED BY <1>2, <1>5, <2>1 DEF Answers
<1> QED BY <1>3, <1>4, <1>5 DEF Answers

\* What the relay of an exchange does to it, and to the servers.
LEMMA Relaying ==
  ASSUME Shape, exchange # Nothing, exchange.stage = "relay",
         NEW deed, NEW server,
         exchange' = [exchange EXCEPT !.stage = "respond", !.server = server,
             !.response = Response(server, deed),
             !.origin = IF deed \in {"construct", "synthesize"} THEN "harness" ELSE "participants",
             !.verbatim = deed \notin {"annotate", "change_id"}, !.id = deed # "change_id"],
         store' = IF Name \in Sends /\ deed # "synthesize"
                   THEN Taken(server, exchange.request, deed) ELSE store,
         UNCHANGED <<direction, turn, know, outcome>>, faults' \in Nat
  PROVE  /\ Shape' /\ Relayed' /\ exchange' # Nothing
         /\ exchange'.server = server /\ exchange'.response = Response(server, deed)
         /\ exchange'.id = (deed # "change_id")
         /\ exchange'.phase = Name /\ exchange'.direction = direction
         /\ exchange'.request = exchange.request /\ exchange'.message = exchange.message
         /\ Wrong(exchange) \/ deed \in {"annotate", "construct", "synthesize"} => Wrong(exchange')
<1>1. /\ exchange'.stage = "respond" /\ exchange'.server = server
      /\ exchange'.response = Response(server, deed)
      /\ exchange'.origin = IF deed \in {"construct", "synthesize"} THEN "harness" ELSE "participants"
      /\ exchange'.verbatim = (deed \notin {"annotate", "change_id"})
      /\ exchange'.id = (deed # "change_id")
      /\ exchange'.direction = exchange.direction /\ exchange'.phase = exchange.phase
      /\ exchange'.client = exchange.client /\ exchange'.told = exchange.told
      /\ exchange'.request = exchange.request /\ exchange'.message = exchange.message
      /\ DOMAIN exchange' = DOMAIN exchange
  BY DEF Shape, IsExchange
<1>2. exchange' # Nothing /\ Relayed'
  BY <1>1 DEF Nothing, Relayed
<1>3. Name' = Name /\ exchange.phase = Name /\ exchange.direction = direction
  BY DEF Name, Shape
<1>4. IsExchange(exchange')
  BY <1>1 DEF IsExchange, Shape
<1>5. ASSUME Name \notin Sends, exchange'.response.ok
      PROVE  exchange'.response.next = exchange'.request.after + Len(exchange'.response.messages)
  <2>1. exchange'.response = Polled(server, exchange.request, deed)
    BY <1>1, <1>5 DEF Response
  <2>2. exchange'.response.next = exchange.request.after + Len(exchange'.response.messages)
    <3> DEFINE a == Polled(server, exchange.request, deed)
    <3>1. a.ok => Answers(a, server, exchange.request, deed)
      BY PollAnswered
    <3> HIDE DEF a
    <3>2. exchange'.response = a
      BY <2>1 DEF a
    <3> QED BY <1>5, <3>1, <3>2 DEF Answers
  <2> QED BY <1>1, <2>2
<1>6. /\ DOMAIN store' = Sides
      /\ \A s \in Sides : DOMAIN store'[s] = {Elsewhere} \cup Directions
  BY DEF Shape, Taken
<1>7. outcome = "running"
  BY DEF Shape
<1>8. Shape'
  BY <1>1, <1>2, <1>3, <1>4, <1>5, <1>6, <1>7 DEF Shape
<1>9. Wrong(exchange) \/ deed \in {"annotate", "construct", "synthesize"} => Wrong(exchange')
  <2>1. exchange.origin = "participants" /\ exchange.verbatim
    BY DEF Shape
  <2> DEFINE x == exchange
             y == exchange'
  <2>2. /\ y.direction = x.direction /\ y.phase = x.phase /\ y.told = x.told
        /\ y.request = x.request /\ y.message = x.message
    BY <1>1
  <2>3. x.origin = "participants" /\ x.verbatim
    BY <2>1
  <2>4. deed \in {"annotate", "construct", "synthesize"} => y.origin # "participants" \/ ~y.verbatim
    <3>1. CASE deed = "annotate"
      <4>1. (deed \notin {"annotate", "change_id"}) = FALSE
        BY <3>1
      <4>2. y.verbatim = FALSE
        BY <1>1, <4>1
      <4> QED BY <4>2
    <3>2. CASE deed \in {"construct", "synthesize"}
      BY <1>1, <3>2
    <3> QED BY <3>1, <3>2
  <2> HIDE DEF x, y
  <2>5. Wrong(x) \/ deed \in {"annotate", "construct", "synthesize"} => Wrong(y)
    BY <2>2, <2>3, <2>4 DEF Wrong
  <2> QED BY <2>5 DEF x, y
<1> QED BY <1>1, <1>2, <1>3, <1>8, <1>9

\* In a clean run a poll finds the message that its phase is about.
LEMMA PollFinds ==
  ASSUME Shape, Clean, exchange # Nothing, exchange.stage = "relay", Name \notin Sends,
         NEW side, side = ServerOf(direction, Name)
  PROVE  /\ exchange.request = [after |-> After(Name), session |-> direction]
         /\ About[Name] \in Sends
         /\ After(Name) < Len(store[side][direction])
         /\ ~(After(Name) > Len(store[side][direction]))
         /\ store[side][direction][After(Name) + 1] = Meant(direction, About[Name])
<1> DEFINE d == direction
<1>1. d \in Directions /\ turn \in Steps /\ Name = Phases[turn] /\ outcome = "running"
  BY DEF Shape, Name
<1>2. exchange.request = [after |-> After(Name), session |-> d]
  BY DEF Clean
<1>3. turn \in {2, 4, 6}
  BY <1>1, PhasesDiffer DEF Steps
<1>4. \A k \in Steps : Sent(d, k) <=> k < turn
  BY <1>1, AtHand DEF Sent, Relayed
<1>5. /\ Sent(d, 1) <=> 1 < turn
      /\ Sent(d, 3) <=> 3 < turn
      /\ Sent(d, 5) <=> 5 < turn
  BY <1>4 DEF Steps
<1>6. \A s \in Sides : store[s][d] = Log(s, d)
  BY <1>1 DEF Clean
<1>7. CASE turn = 2
  <2>1. Name = "poll_proposal" /\ side = Consumer(d) /\ side \in Sides /\ side # Producer(d)
    BY <1>1, <1>7, PhaseNames, Ends
  <2>2. store[side][d] = <<Proposal(d)>>
    BY <1>5, <1>6, <1>7, <2>1 DEF Log
  <2>3. About[Name] = "propose" /\ Meant(d, "propose") = Proposal(d) /\ After(Name) = 0
    BY <2>1, Abouts DEF Meant, After
  <2> QED BY <1>2, <2>2, <2>3 DEF Sends
<1>8. CASE turn = 4
  <2>1. Name = "poll_acceptance" /\ side = Producer(d) /\ side \in Sides
    BY <1>1, <1>8, PhaseNames, Ends
  <2>2. store[side][d] = <<Acceptance(d)>>
    BY <1>5, <1>6, <1>8, <2>1 DEF Log
  <2>3. About[Name] = "accept" /\ Meant(d, "accept") = Acceptance(d) /\ After(Name) = 0
    BY <2>1, Abouts DEF Meant, After
  <2> QED BY <1>2, <2>2, <2>3 DEF Sends
<1>9. CASE turn = 6
  <2>1. Name = "poll_attestation" /\ side = Consumer(d) /\ side \in Sides /\ side # Producer(d)
    BY <1>1, <1>9, PhaseNames, Ends
  <2>2. store[side][d] = <<Proposal(d), Attestation(d)>>
    BY <1>5, <1>6, <1>9, <2>1 DEF Log
  <2>3. About[Name] = "attest" /\ Meant(d, "attest") = Attestation(d) /\ After(Name) = 1
    BY <2>1, Abouts DEF Meant, After
  <2> QED BY <1>2, <2>2, <2>3 DEF Sends
<1> QED BY <1>3, <1>7, <1>8, <1>9

\* What a log of at most one message grows to.
LEMMA OneMore ==
  ASSUME NEW a, NEW b
  PROVE  Append(<<>>, a) = <<a>> /\ Append(<<b>>, a) = <<b, a>>
<1> DEFINE long == Append(<<b>>, a)
           pair == <<b, a>>
<1>1. <<b>> \in Seq({a, b}) /\ a \in {a, b} /\ pair \in Seq({a, b}) /\ Len(pair) = 2
  OBVIOUS
<1>2. Len(<<b>>) = 1
  OBVIOUS
<1>3. long \in Seq({a, b}) /\ Len(long) = 2
  BY <1>1, <1>2
<1>4. long[1] = b /\ long[2] = a
  BY <1>1, <1>2
<1>5. \A i \in 1 .. 2 : long[i] = pair[i]
  BY <1>4
<1>6. long = pair
  <2> HIDE DEF long, pair
  <2> QED BY <1>1, <1>3, <1>5
<1>7. Append(<<>>, a) = <<a>>
  OBVIOUS
<1> QED BY <1>6, <1>7

\* In a clean run the server keeps what is meant after what it has.
LEMMA TakingClean ==
  ASSUME Shape, Clean, exchange # Nothing, exchange.stage = "relay", Name \in Sends,
         store' = Taken(ServerOf(direction, Name), exchange.request, "none"),
         UNCHANGED <<direction, turn, outcome>>, Relayed',
         NEW s \in Sides, NEW d \in Directions
  PROVE  store'[s][d] = Log(s, d)'
<1> DEFINE due == ServerOf(direction, Name)
           m == Meant(direction, Name)
<1>1. direction \in Directions /\ turn \in Steps /\ Name = Phases[turn] /\ outcome = "running"
  BY DEF Shape, Name
<1>2. exchange.request = m /\ m.content.session = direction
  BY <1>1, Meaning DEF Clean
<1>3. due \in Sides /\ DOMAIN store = Sides /\ direction \in DOMAIN store[due]
  <2>1. due \in Sides
    BY <1>1, Ends DEF Sends
  <2> QED BY <1>1, <2>1 DEF Shape
<1>4. store' = [store EXCEPT ![due][direction] = Append(@, m)]
  BY <1>2 DEF Taken
<1>5. store'[s][d] = IF s = due /\ d = direction THEN Append(store[s][d], m) ELSE store[s][d]
  <2> DEFINE longer == Append(store[due][direction], m)
  <2>1. store' = [store EXCEPT ![due] = [store[due] EXCEPT ![direction] = longer]]
    BY <1>4
  <2>2. d \in DOMAIN store[s]
    BY DEF Shape
  <2> HIDE DEF longer
  <2>3. store'[s][d] = IF s = due /\ d = direction THEN longer ELSE store[s][d]
    BY <1>3, <2>1, <2>2
  <2> QED BY <2>3 DEF longer
<1>6. store[s][d] = Log(s, d)
  BY DEF Clean
<1>7. \A e, k : Past(e, k)' = Past(e, k)
  BY Staying
<1>8. \A e, k : Sent(e, k)' <=> Sent(e, k) \/ (e = direction /\ k = turn)
  BY <1>7 DEF Sent, Relayed
<1>9. CASE d # direction
  BY <1>5, <1>6, <1>8, <1>9 DEF Log
<1>10. CASE d = direction
  <2>1. turn \in {1, 3, 5}
    BY <1>1, PhasesDiffer
  <2>2. \A k \in Steps : Sent(d, k) <=> k < turn
    BY <1>1, <1>10, AtHand DEF Sent, Relayed
  <2>3. /\ Sent(d, 1) <=> 1 < turn
        /\ Sent(d, 3) <=> 3 < turn
        /\ Sent(d, 5) <=> 5 < turn
    BY <2>2 DEF Steps
  <2>4. /\ Sent(d, 1)' <=> 1 <= turn
        /\ Sent(d, 3)' <=> 3 <= turn
        /\ Sent(d, 5)' <=> 5 <= turn
    BY <1>8, <1>10, <2>1, <2>3
  <2>5. CASE turn = 1
    <3>1. due = Consumer(d) /\ Producer(d) # Consumer(d) /\ m = Proposal(d)
      BY <1>1, <1>10, <2>5, PhaseNames, Ends DEF Meant
    <3>2. Append(<<>>, m) = <<m>>
      BY OneMore
    <3> QED BY <1>5, <1>6, <1>10, <2>3, <2>4, <2>5, <3>1, <3>2, Ends DEF Log
  <2>6. CASE turn = 3
    <3>1. due = Producer(d) /\ m = Acceptance(d)
      BY <1>1, <1>10, <2>6, PhaseNames, Ends DEF Meant
    <3>2. Append(<<>>, m) = <<m>>
      BY OneMore
    <3> QED BY <1>5, <1>6, <1>10, <2>3, <2>4, <2>6, <3>1, <3>2 DEF Log
  <2>7. CASE turn = 5
    <3>1. due = Consumer(d) /\ Producer(d) # Consumer(d) /\ m = Attestation(d)
      BY <1>1, <1>10, <2>7, PhaseNames, Ends DEF Meant
    <3>2. Append(<<Proposal(d)>>, m) = <<Proposal(d), m>>
      BY OneMore
    <3>3. CASE s = due
      <4>1. Log(s, d) = <<Proposal(d)>> /\ Log(s, d)' = <<Proposal(d), m>>
        BY <2>3, <2>4, <2>7, <3>1, <3>3 DEF Log
      <4> QED BY <1>5, <1>6, <1>10, <3>2, <3>3, <4>1
    <3>4. CASE s # due
      <4>1. s = Producer(d)
        BY <1>1, <1>10, <3>1, <3>4, Ends
      <4>2. Log(s, d)' = Log(s, d)
        BY <2>3, <2>4, <2>7, <4>1 DEF Log
      <4> QED BY <1>5, <1>6, <3>4, <4>2
    <3> QED BY <3>3, <3>4
  <2> QED BY <2>1, <2>5, <2>6, <2>7
<1> QED BY <1>9, <1>10

\* A message whose sender was exchanged is not as it was composed.
LEMMA Rewriting ==
  ASSUME NEW d \in Directions, NEW p \in Sends, NEW m, IsMessage(m, p, ClientOf(d, p)),
         NEW kept, kept = [m EXCEPT !.content.sender = "nobody"]
  PROVE  Spoils(kept, p)
<1>1. /\ DOMAIN m = {"content", "hash"} /\ m.hash = m.content
      /\ DOMAIN m.content = {"type", "session", "sender", "goal", "prev"}
      /\ m.content.type = p /\ m.content.sender = ClientOf(d, p)
  BY DEF IsMessage
<1>2. kept.hash = m.hash /\ kept.content = [m.content EXCEPT !.sender = "nobody"]
  BY <1>1
<1>3. /\ kept.content.sender = "nobody"
      /\ "content" \in DOMAIN kept /\ "session" \in DOMAIN kept.content
  BY <1>1, <1>2
<1>4. m.content.sender # "nobody"
  BY <1>1, Ends DEF Sends, Sides
<1> QED BY <1>1, <1>2, <1>3, <1>4 DEF Honest, Spoils

\* The first message that a server spoils is the only one of its phase.
LEMMA Spoiling ==
  ASSUME Shape, Clean, exchange # Nothing, exchange.stage = "relay", Name \in Sends,
         store' = Taken(ServerOf(direction, Name), exchange.request, "server_rewrites"),
         UNCHANGED <<direction, turn, outcome>>, Relayed'
  PROVE  \E d \in Directions, k \in {1, 3, 5} : Spoilt(d, k)'
<1> DEFINE d == direction
           due == ServerOf(direction, Name)
           m == Meant(direction, Name)
           kept == [m EXCEPT !.content.sender = "nobody"]
<1>1. d \in Directions /\ turn \in Steps /\ Name = Phases[turn] /\ outcome = "running"
  BY DEF Shape, Name
<1>2. turn \in {1, 3, 5} /\ turn + 1 \in Steps
  BY <1>1, PhasesDiffer DEF Steps
<1>3. exchange.request = m /\ m.content.session = d
  BY <1>1, Meaning DEF Clean
<1>4. Spoils(kept, Name)
  BY <1>1, Meaning, Rewriting
<1>5. due \in Sides /\ due \in DOMAIN store /\ d \in DOMAIN store[due]
  <2>1. due \in Sides
    BY <1>1, Ends DEF Sends
  <2> QED BY <1>1, <2>1 DEF Shape
<1>6. store' = [store EXCEPT ![due][d] = Append(@, kept)]
  BY <1>3 DEF Taken
<1>7. store'[due][d] = Append(Log(due, d), kept)
  <2>1. store[due][d] = Log(due, d)
    BY <1>1, <1>5 DEF Clean, Shape
  <2> QED BY <1>5, <1>6, <2>1
<1>8. /\ Log(due, d) \in Seq({Proposal(d)})
      /\ \A i \in DOMAIN Log(due, d) : Spoils(Log(due, d)[i], Name)
  <2>1. \A k \in Steps : Sent(d, k) <=> k < turn
    BY <1>1, AtHand DEF Sent, Relayed
  <2>2. /\ Sent(d, 1) <=> 1 < turn
        /\ Sent(d, 3) <=> 3 < turn
        /\ Sent(d, 5) <=> 5 < turn
    BY <2>1 DEF Steps
  <2>3. CASE turn = 5
    <3>1. Name = "attest" /\ due # Producer(d)
      BY <1>1, <2>3, PhaseNames, Ends
    <3>2. Log(due, d) = <<Proposal(d)>>
      BY <2>2, <2>3, <3>1 DEF Log
    <3>3. Spoils(Proposal(d), "attest")
      BY DEF Proposal, Sealed, Spoils
    <3>4. <<Proposal(d)>> \in Seq({Proposal(d)})
          /\ \A i \in DOMAIN <<Proposal(d)>> : <<Proposal(d)>>[i] = Proposal(d)
      OBVIOUS
    <3> QED BY <3>1, <3>2, <3>3, <3>4
  <2>4. CASE turn # 5
    <3>1. CASE turn = 1
      <4>1. due # Producer(d)
        BY <1>1, <3>1, PhaseNames, Ends
      <4> QED BY <2>2, <3>1, <4>1 DEF Log
    <3>2. CASE turn = 3
      <4>1. due = Producer(d)
        BY <1>1, <3>2, PhaseNames, Ends
      <4> QED BY <2>2, <3>2, <4>1 DEF Log
    <3> QED BY <1>2, <2>4, <3>1, <3>2
  <2> QED BY <2>3, <2>4
<1>9. Name' = Name /\ ServerOf(d, Phases[turn])' = due
  BY <1>1 DEF Name
<1>10. Sent(d, turn)' /\ ~Sent(d, turn + 1)'
  <2>1. ~Past(d, turn + 1)
    BY <1>1, <1>2, AtHand
  <2>2. turn # turn + 1 /\ ~Past(d, turn + 1)'
    BY <1>1, <2>1, Staying DEF Steps
  <2> QED BY <2>2 DEF Sent
<1>11. LET log == store'[due][d] IN
         /\ \E S : log \in Seq(S)
         /\ \A i \in DOMAIN log : Spoils(log[i], Name)
  <2> DEFINE old == Log(due, d)
             S == {Proposal(d), kept}
  <2>1. old \in Seq(S) /\ kept \in S
    <3>1. \A i \in DOMAIN old : old[i] \in S
      BY <1>8
    <3> QED BY <1>8, <3>1
  <2>2. \A i \in DOMAIN old : Spoils(old[i], Name)
    BY <1>8
  <2> HIDE DEF old, S, kept
  <2>3. Append(old, kept) \in Seq(S)
    BY <2>1
  <2>4. \A i \in DOMAIN Append(old, kept) :
          \/ i \in DOMAIN old /\ Append(old, kept)[i] = old[i]
          \/ Append(old, kept)[i] = kept
    BY <2>1
  <2>5. \A i \in DOMAIN Append(old, kept) :
          Spoils(Append(old, kept)[i], Name)
    BY <1>4, <2>2, <2>4
  <2>6. store'[due][d] = Append(old, kept)
    BY <1>7 DEF old, kept
  <2> QED BY <2>3, <2>5, <2>6
<1>12. Spoilt(d, turn)'
  BY <1>1, <1>9, <1>10, <1>11 DEF Spoilt
<1> QED BY <1>1, <1>2, <1>12

\* An answer that the client refuses.
LEMMA Refused ==
  ASSUME Relayed', exchange'.phase = Name, Name' = Name, direction' = direction,
         \/ exchange'.server # ServerOf(direction, Name)
         \/ ~exchange'.id
         \/ /\ Name \notin Sends
            /\ exchange'.response.ok /\ Len(exchange'.response.messages) = 1 =>
                 LET m == exchange'.response.messages[1] IN
                    m.content.session # direction \/ (m.content.type = About[Name] => ~Honest(m))
  PROVE  ~Satisfied'
BY DEF Satisfied, Correlated, Consumable

\* What the first misbehaviour of the relay or of a server leaves behind.
LEMMA RelayingWrongly ==
  ASSUME Shape, Clean, exchange # Nothing, exchange.stage = "relay",
         NEW deed \in RelayFaults \cup ServerFaults,
         NEW due, due = ServerOf(direction, Name),
         Relayed', exchange' # Nothing, exchange'.phase = Name,
         UNCHANGED <<direction, turn, outcome>>,
         exchange'.server = IF deed = "wrong_server" THEN Peer(due) ELSE due,
         exchange'.response = Response(exchange'.server, deed),
         exchange'.id = (deed # "change_id"),
         deed \in {"annotate", "construct", "synthesize"} => Wrong(exchange'),
         Name \in Sends /\ deed # "synthesize" => store' = Taken(exchange'.server, exchange.request, deed)
  PROVE  Doomed'
<1>1. direction \in Directions /\ turn \in Steps /\ Name = Phases[turn] /\ Name' = Name
  BY DEF Shape, Name
<1>2. due \in Sides
  <2>1. turn \in {1, 2, 3, 4, 5, 6}
    BY <1>1 DEF Steps
  <2> QED BY <1>1, <2>1, PhaseNames, Ends
<1>3. CASE deed \in {"annotate", "construct", "synthesize"}
  BY <1>3 DEF Doomed
<1>4. CASE deed \in {"wrong_server", "change_id"}
  <2>1. exchange'.server # due \/ ~exchange'.id
    BY <1>1, <1>2, <1>4, Ends
  <2>2. ~Satisfied'
    BY <1>1, <2>1, Refused
  <2> QED BY <2>2 DEF Doomed
<1>5. CASE deed = "server_rewrites"
  <2>1. Name \in Sends
    BY <1>5 DEF RelayFaults, ServerFaults
  <2>2. store' = Taken(due, exchange.request, "server_rewrites")
    BY <1>5, <2>1
  <2>3. \E d \in Directions, k \in {1, 3, 5} : Spoilt(d, k)'
    BY <2>1, <2>2, Spoiling
  <2> QED BY <2>3 DEF Doomed
<1>6. CASE deed = "another_session"
  <2>1. Name \notin Sends /\ exchange'.server = due
    BY <1>6 DEF RelayFaults, ServerFaults
  <2>2. exchange'.response = Polled(due, exchange.request, deed)
    BY <1>6, <2>1 DEF Response
  <2> DEFINE m == Meant(direction, About[Name])
             r == exchange.request
  <2>3. /\ r = [after |-> After(Name), session |-> direction] /\ About[Name] \in Sends
        /\ After(Name) < Len(store[due][direction])
        /\ store[due][direction][After(Name) + 1] = m
    BY <2>1, PollFinds
  <2>4. r.after = After(Name) /\ r.session = direction
    BY <2>3
  <2>5. exchange'.response.ok => exchange'.response.messages = <<[m EXCEPT !.content.session = Elsewhere]>>
    <3> DEFINE a == exchange'.response
    <3>1. Polled(due, r, deed).ok => Answers(Polled(due, r, deed), due, r, deed)
      BY PollAnswered
    <3>2. r.after < Len(store[due][r.session]) /\ store[due][r.session][r.after + 1] = m
      BY <2>3, <2>4
    <3>3. a = Polled(due, r, deed)
      BY <2>2
    <3> HIDE DEF a, r, m
    <3>4. a.ok => a.messages = <<[m EXCEPT !.content.session = Elsewhere]>>
      BY <1>6, <3>1, <3>2, <3>3 DEF Answers
    <3> QED BY <3>4 DEF a
  <2>6. [m EXCEPT !.content.session = Elsewhere].content.session = Elsewhere
    <3>1. IsMessage(m, About[Name], ClientOf(direction, About[Name]))
      BY <1>1, <2>3, Meaning
    <3>2. "content" \in DOMAIN m /\ "session" \in DOMAIN m.content
      BY <3>1 DEF IsMessage
    <3> HIDE DEF m
    <3> QED BY <3>2
  <2>7. Elsewhere # direction
    BY <1>1 DEF Directions, Elsewhere
  <2>8. ~Satisfied'
    <3> DEFINE moved == [m EXCEPT !.content.session = Elsewhere]
    <3> HIDE DEF m, moved
    <3>1. exchange'.response.ok => exchange'.response.messages[1].content.session # direction
      <4>1. <<moved>>[1] = moved
        OBVIOUS
      <4> QED BY <2>5, <2>6, <2>7, <4>1 DEF moved
    <3> QED BY <1>1, <2>1, <3>1, Refused
  <2> QED BY <2>8 DEF Doomed
<1> QED BY <1>3, <1>4, <1>5, <1>6 DEF RelayFaults, ServerFaults

\* Relaying what is meant, as it is, is clean.
LEMMA RelayingClean ==
  ASSUME Shape, Clean, exchange # Nothing, exchange.stage = "relay",
         NEW due, due = ServerOf(direction, Name),
         Relayed', exchange' # Nothing,
         exchange'.response = Response(due, "none"), exchange'.request = exchange.request,
         UNCHANGED <<direction, turn, know, ledger, outcome>>,
         store' = IF Name \in Sends THEN Taken(due, exchange.request, "none") ELSE store
  PROVE  Clean'
<1>1. /\ Name' = Name
      /\ \A e, k : Past(e, k)' = Past(e, k)
      /\ \A e, p : Reported(e, p)' = Reported(e, p)
  BY Staying DEF Reported
<1>2. \A s, e : Knows(s, e)' = Knows(s, e)
  BY <1>1 DEF Knows
<1>3. direction \in Directions /\ turn \in Steps /\ Name = Phases[turn]
  BY DEF Shape, Name
<1>4. CASE Name \in Sends
  <2>1. \A s \in Sides, e \in Directions : store'[s][e] = Log(s, e)'
    BY <1>4, TakingClean
  <2>2. exchange'.request = Meant(direction, Name)
    BY <1>4 DEF Clean
  <2> QED BY <1>1, <1>2, <1>4, <2>1, <2>2 DEF Clean
<1>5. CASE Name \notin Sends
  <2>1. \A e, k : Sent(e, k)' <=> Sent(e, k) \/ (e = direction /\ k = turn)
    BY <1>1 DEF Sent, Relayed
  <2>2. turn \notin {1, 3, 5}
    BY <1>3, <1>5, PhasesDiffer
  <2>3. \A s, e : Log(s, e)' = Log(s, e)
    BY <2>1, <2>2 DEF Log
  <2>4. /\ exchange.request = [after |-> After(Name), session |-> direction]
        /\ After(Name) < Len(store[due][direction]) /\ ~(After(Name) > Len(store[due][direction]))
        /\ store[due][direction][After(Name) + 1] = Meant(direction, About[Name])
    BY <1>5, PollFinds
  <2>5. exchange'.response.messages = <<Meant(direction, About[Name])>>
    <3> DEFINE r == exchange.request
               a == exchange'.response
               m == Meant(direction, About[Name])
    <3>1. a = Polled(due, r, "none") /\ r.after = After(Name) /\ r.session = direction
      BY <1>5, <2>4 DEF Response
    <3>2. a.ok
      BY <2>4, <3>1 DEF Polled
    <3>3. r.after < Len(store[due][r.session]) /\ store[due][r.session][r.after + 1] = m
      BY <2>4, <3>1
    <3>4. Polled(due, r, "none").ok => Answers(Polled(due, r, "none"), due, r, "none")
      BY PollAnswered
    <3> HIDE DEF r, a, m
    <3>5. a.messages = <<m>>
      BY <3>1, <3>2, <3>3, <3>4 DEF Answers
    <3> QED BY <3>5 DEF a, m
  <2> QED BY <1>1, <1>2, <1>5, <2>3, <2>4, <2>5 DEF Clean
<1> QED BY <1>4, <1>5

\* Relaying removes no trace.
LEMMA RelayingDoomed ==
  ASSUME Shape, Doomed, exchange # Nothing, exchange.stage = "relay",
         NEW deed \in {"none"} \cup RelayFaults \cup ServerFaults,
         NEW due, due = ServerOf(direction, Name),
         Relayed', exchange' # Nothing, exchange'.phase = Name,
         UNCHANGED <<direction, turn, ledger, outcome>>,
         exchange'.server = IF deed = "wrong_server" THEN Peer(due) ELSE due,
         exchange'.response = Response(exchange'.server, deed),
         exchange'.id = (deed # "change_id"),
         Wrong(exchange) \/ deed \in {"annotate", "construct", "synthesize"} => Wrong(exchange')
  PROVE  Doomed'
<1>1. /\ Name' = Name /\ outcome = "running"
      /\ \A e, k : Past(e, k)' = Past(e, k)
      /\ \A e, p : Reported(e, p)' = Reported(e, p)
  BY Staying DEF Reported, Shape
<1>2. direction \in Directions /\ turn \in Steps /\ Name = Phases[turn]
  BY DEF Shape, Name
<1>3. CASE \E i \in DOMAIN ledger : Wrong(ledger[i])
  BY <1>3 DEF Doomed
<1>4. CASE \E e \in Directions, k \in Steps : Past(e, k) /\ Reported(e, Phases[k]) = {}
  BY <1>1, <1>4 DEF Doomed
<1>5. CASE Wrong(exchange) \/ Wrong(exchange')
  BY <1>5 DEF Doomed
<1>6. CASE \E e \in Directions, k \in {1, 3, 5} : Spoilt(e, k)
  <2>1. PICK e \in Directions, k \in {1, 3, 5} : Spoilt(e, k)
    BY <1>6
  <2>2. e = direction /\ turn = k + 1
    <3>1. k \in Steps /\ k + 1 \in Steps /\ ~Relayed
      BY DEF Steps, Relayed
    <3>2. Past(e, k) /\ ~Past(e, k + 1)
      BY <2>1, <3>1 DEF Spoilt, Sent
    <3>3. e = direction
      BY <1>1, <3>1, <3>2, AtHand
    <3>4. k < turn /\ ~(k + 1 < turn)
      BY <1>1, <3>1, <3>2, <3>3, AtHand
    <3> QED BY <1>2, <3>3, <3>4 DEF Steps
  <2>3. Name \notin Sends /\ About[Name] = Phases[k] /\ ServerOf(direction, Phases[k]) = due
    <3>1. turn \notin {1, 3, 5}
      BY <2>2
    <3>2. Name \notin Sends
      BY <1>2, <3>1, PhasesDiffer
    <3>3. About[Name] = Phases[k] /\ About[Phases[k]] = Phases[k]
      BY <1>2, <2>2, PhaseNames, Abouts
    <3> QED BY <3>2, <3>3 DEF ServerOf
  <2> DEFINE log == store[due][direction]
             r == exchange.request
             a == exchange'.response
  <2>4. /\ \E S : log \in Seq(S)
        /\ \A i \in DOMAIN log : Spoils(log[i], Phases[k])
    BY <2>1, <2>2, <2>3 DEF Spoilt
  <2>5. CASE Wrong(exchange')
    BY <1>5, <2>5
  <2>6. CASE deed \in {"wrong_server", "change_id"}
    <3>1. due \in Sides
      BY <1>2, <2>3, PhaseNames, Ends
    <3>2. exchange'.server # due \/ ~exchange'.id
      BY <1>2, <2>6, <3>1, Ends
    <3>3. ~Satisfied'
      BY <1>1, <3>2, Refused
    <3> QED BY <3>3 DEF Doomed
  <2>7. CASE deed \in {"none", "another_session"} /\ ~Wrong(exchange')
    <3>1. r.session = direction /\ r.after \in {0, 1}
      <4>1. ~Wrong(exchange) /\ exchange.phase = Name /\ exchange.direction = direction
        BY <2>7 DEF Shape
      <4> QED BY <2>3, <4>1 DEF Wrong, After
    <3>2. a = Polled(due, r, deed)
      BY <2>3, <2>7 DEF Response
    <3>3. a.ok => \/ a.messages = <<>>
                  \/ /\ r.after < Len(log) /\ deed # "another_session"
                     /\ a.messages = <<log[r.after + 1]>>
                  \/ /\ r.after < Len(log) /\ deed = "another_session"
                     /\ a.messages = <<[log[r.after + 1] EXCEPT !.content.session = Elsewhere]>>
      <4>1. Polled(due, r, deed).ok => Answers(Polled(due, r, deed), due, r, deed)
        BY PollAnswered
      <4> HIDE DEF a, r
      <4> QED BY <3>1, <3>2, <4>1 DEF Answers
    <3>4. r.after < Len(log) => Spoils(log[r.after + 1], Phases[k])
      BY <2>4, <3>1
    <3> DEFINE m == log[r.after + 1]
               moved == [m EXCEPT !.content.session = Elsewhere]
    <3>5. r.after < Len(log) => moved.content.session # direction
      <4>1. Elsewhere # direction
        BY <1>2 DEF Directions, Elsewhere
      <4>2. r.after < Len(log) => "content" \in DOMAIN m /\ "session" \in DOMAIN m.content
        BY <3>4 DEF Spoils
      <4> HIDE DEF m, log, r
      <4> QED BY <4>1, <4>2
    <3>6. r.after < Len(log) /\ m.content.type = About[Name] => ~Honest(m)
      BY <2>3, <3>4 DEF Spoils
    <3>7. a.ok /\ Len(a.messages) = 1 =>
            a.messages[1].content.session # direction
            \/ (a.messages[1].content.type = About[Name] => ~Honest(a.messages[1]))
      <4>1. <<m>>[1] = m /\ <<moved>>[1] = moved /\ Len(<<>>) # 1
        OBVIOUS
      <4> HIDE DEF a, m, moved, log, r
      <4>2. CASE a.messages = <<>>
        BY <4>1, <4>2
      <4>3. CASE r.after < Len(log) /\ a.messages = <<m>>
        BY <3>6, <4>1, <4>3
      <4>4. CASE r.after < Len(log) /\ a.messages = <<moved>>
        BY <3>5, <4>1, <4>4
      <4> QED BY <3>3, <4>2, <4>3, <4>4 DEF m, moved
    <3>8. ~Satisfied'
      BY <1>1, <2>3, <3>7, Refused
    <3> QED BY <3>8 DEF Doomed
  <2> QED BY <2>3, <2>5, <2>6, <2>7 DEF RelayFaults, ServerFaults
<1>7. ~\E e \in Directions, k \in {2, 4} : Misread(e, k)
  BY DEF Misread
<1> QED BY <1>1, <1>3, <1>4, <1>5, <1>6, <1>7 DEF Doomed, Relayed

\* So does relaying an exchange.
LEMMA RelayStep ==
  ASSUME IInv, Relay
  PROVE  IInv'
<1>1. /\ Shape /\ Book /\ exchange # Nothing /\ exchange.stage = "relay" /\ outcome = "running"
      /\ UNCHANGED <<direction, turn, know, visible, ledger, outcome>>
  BY DEF IInv, Relay, Shape
<1> DEFINE due == ServerOf(direction, Name)
           to(deed) == IF deed = "wrong_server" THEN Peer(due) ELSE due
<1>2. PICK deed \in {"none"} \cup RelayFaults \cup ServerFaults :
        /\ Fault(deed # "none")
        /\ exchange' = [exchange EXCEPT !.stage = "respond", !.server = to(deed),
             !.response = Response(to(deed), deed),
             !.origin = IF deed \in {"construct", "synthesize"} THEN "harness" ELSE "participants",
             !.verbatim = deed \notin {"annotate", "change_id"}, !.id = deed # "change_id"]
        /\ store' = IF Name \in Sends /\ deed # "synthesize"
                    THEN Taken(to(deed), exchange.request, deed) ELSE store
  BY DEF Relay
<1>3. /\ faults' \in Nat
      /\ faults' = 0 => faults = 0 /\ deed = "none"
      /\ faults' > 0 => faults > 0 \/ deed # "none"
  BY <1>1, <1>2 DEF Fault, Shape
<1> DEFINE server == to(deed)
<1>4. server = IF deed = "wrong_server" THEN Peer(due) ELSE due
  OBVIOUS
<1> HIDE DEF server
<1>5. /\ exchange' = [exchange EXCEPT !.stage = "respond", !.server = server,
             !.response = Response(server, deed),
             !.origin = IF deed \in {"construct", "synthesize"} THEN "harness" ELSE "participants",
             !.verbatim = deed \notin {"annotate", "change_id"}, !.id = deed # "change_id"]
      /\ store' = IF Name \in Sends /\ deed # "synthesize"
                  THEN Taken(server, exchange.request, deed) ELSE store
  BY <1>2 DEF server
<1>6. /\ Shape' /\ Relayed' /\ exchange' # Nothing
      /\ exchange'.server = server /\ exchange'.response = Response(server, deed)
      /\ exchange'.id = (deed # "change_id")
      /\ exchange'.phase = Name /\ exchange'.direction = direction
      /\ exchange'.request = exchange.request /\ exchange'.message = exchange.message
      /\ Wrong(exchange) \/ deed \in {"annotate", "construct", "synthesize"} => Wrong(exchange')
  BY <1>1, <1>3, <1>5, Relaying
<1>7. Book'
  BY <1>1, BookKept
<1>8. ASSUME faults' = 0 PROVE Clean'
  <2>1. Clean /\ deed = "none" /\ server = due
    BY <1>1, <1>3, <1>4, <1>8 DEF IInv
  <2>2. store' = IF Name \in Sends THEN Taken(due, exchange.request, "none") ELSE store
    BY <1>5, <2>1
  <2> QED BY <1>1, <1>6, <2>1, <2>2, RelayingClean
<1>9. ASSUME faults' > 0 PROVE Doomed'
  <2>1. CASE faults > 0
    <3>1. Doomed
      BY <2>1 DEF IInv
    <3> QED BY <1>1, <1>4, <1>6, <3>1, RelayingDoomed
  <2>2. CASE faults = 0
    <3>1. Clean /\ deed \in RelayFaults \cup ServerFaults
      BY <1>1, <1>3, <1>9, <2>2 DEF IInv
    <3>2. Name \in Sends /\ deed # "synthesize" => store' = Taken(exchange'.server, exchange.request, deed)
      BY <1>5, <1>6
    <3> QED BY <1>1, <1>4, <1>6, <3>1, <3>2, RelayingWrongly
  <2> QED BY <1>1, <2>1, <2>2 DEF Shape
<1> QED BY <1>1, <1>6, <1>7, <1>8, <1>9 DEF IInv

-----------------------------------------------------------------------------
(* The client has its answer. *)

\* The exchange at hand becomes the report's last.
LEMMA LedgerGrows ==
  ASSUME Shape, Book, exchange # Nothing, ledger' = Append(ledger, exchange)
  PROVE  LET last == Len(ledger) + 1 IN
         /\ \E S : ledger' \in Seq(S)
         /\ DOMAIN ledger' = DOMAIN ledger \cup {last} /\ last \notin DOMAIN ledger
         /\ \A i \in DOMAIN ledger : ledger'[i] = ledger[i]
         /\ ledger'[last] = exchange
         /\ \A d, p : Reported(d, p)' =
               Reported(d, p) \cup (IF d = direction /\ p = Name THEN {last} ELSE {})
<1> DEFINE last == Len(ledger) + 1
<1>1. PICK S : ledger \in Seq(S)
  BY DEF Book
<1>2. ledger \in Seq(S \cup {exchange}) /\ exchange \in S \cup {exchange}
  BY <1>1
<1>3. ledger' \in Seq(S \cup {exchange})
  BY <1>2
<1>4. /\ DOMAIN ledger = 1 .. Len(ledger) /\ Len(ledger) \in Nat
      /\ DOMAIN ledger' = 1 .. last
      /\ \A i \in DOMAIN ledger : ledger'[i] = ledger[i]
      /\ ledger'[last] = exchange
  BY <1>2
<1>5. DOMAIN ledger' = DOMAIN ledger \cup {last} /\ last \notin DOMAIN ledger
  BY <1>4
<1>6. exchange.direction = direction /\ exchange.phase = Name
  BY DEF Shape
<1>7. ASSUME NEW d, NEW p
      PROVE  Reported(d, p)' =
               Reported(d, p) \cup (IF d = direction /\ p = Name THEN {last} ELSE {})
  <2> HIDE DEF last
  <2> QED BY <1>4, <1>5, <1>6 DEF Reported
<1> QED BY <1>3, <1>4, <1>5, <1>7

\* The report stays one.
LEMMA RespondBook ==
  ASSUME Shape, Book, outcome = "running", exchange # Nothing, Relayed, Satisfied,
         ledger' = Append(ledger, exchange), Advance
  PROVE  Book'
<1> DEFINE last == Len(ledger) + 1
<1>1. /\ \E S : ledger' \in Seq(S)
      /\ DOMAIN ledger' = DOMAIN ledger \cup {last} /\ last \notin DOMAIN ledger
      /\ \A i \in DOMAIN ledger : ledger'[i] = ledger[i]
      /\ ledger'[last] = exchange
      /\ \A d, p : Reported(d, p)' =
            Reported(d, p) \cup (IF d = direction /\ p = Name THEN {last} ELSE {})
  BY LedgerGrows
<1> HIDE DEF last
<1>2. \A d \in Directions, k \in Steps : Past(d, k)' <=> Past(d, k) \/ (d = direction /\ k = turn)
  BY Moving
<1>3. /\ direction \in Directions /\ turn \in Steps /\ Name = Phases[turn]
      /\ exchange.direction = direction /\ exchange.phase = Name /\ IsExchange(exchange)
  BY DEF Shape, Name
<1>4. Name \notin Sends => exchange.response.next = exchange.request.after + 1
  BY DEF Shape, Satisfied, Correlated, Consumable
<1>5. \A i \in DOMAIN ledger : ~(ledger[i].direction = direction /\ ledger[i].phase = Name)
  BY Unreported DEF Reported
<1>6. \A i \in DOMAIN ledger' :
        /\ IsExchange(ledger'[i])
        /\ ledger'[i].phase \notin Sends => ledger'[i].response.next = ledger'[i].request.after + 1
  BY <1>1, <1>3, <1>4 DEF Book
<1>7. \A i \in DOMAIN ledger' : \A d : d = ledger'[i].direction =>
        \E k \in Steps : ledger'[i].phase = Phases[k] /\ Past(d, k)'
  <2>1. ASSUME NEW i \in DOMAIN ledger, NEW d, d = ledger[i].direction
        PROVE  \E k \in Steps : ledger[i].phase = Phases[k] /\ Past(d, k)'
    <3>1. d \in Directions /\ \E k \in Steps : ledger[i].phase = Phases[k] /\ Past(d, k)
      BY <2>1 DEF Book, IsExchange
    <3> QED BY <1>2, <3>1
  <2>2. ASSUME NEW d, d = exchange.direction
        PROVE  \E k \in Steps : exchange.phase = Phases[k] /\ Past(d, k)'
    BY <1>2, <1>3, <2>2
  <2> QED BY <1>1, <2>1, <2>2
<1>8. \A i, j \in DOMAIN ledger' :
        ledger'[i].direction = ledger'[j].direction /\ ledger'[i].phase = ledger'[j].phase => i = j
  BY <1>1, <1>3, <1>5 DEF Book
<1>9. \A d \in Directions, k \in {1, 3, 5} : Past(d, k)' => Reported(d, Phases[k])' # {}
  <2>1. ASSUME NEW d \in Directions, NEW k \in {1, 3, 5}, Past(d, k)'
        PROVE  Reported(d, Phases[k])' # {}
    <3>1. Past(d, k) \/ (d = direction /\ k = turn)
      BY <1>2, <2>1 DEF Steps
    <3>2. CASE Past(d, k)
      BY <1>1, <3>2 DEF Book
    <3>3. CASE d = direction /\ k = turn
      BY <1>1, <1>3, <3>3
    <3> QED BY <3>1, <3>2, <3>3
  <2> QED BY <2>1
<1> QED BY <1>1, <1>6, <1>7, <1>8, <1>9 DEF Book

\* A client keeps what it polled, or the same with another sender.
Keeps(kept) ==
  know' = [know EXCEPT ![Client][direction] =
             [@ EXCEPT !.cursor = exchange.response.next, ![About[Name]] = kept]]

\* In a clean run the client holds what is meant after its poll.
LEMMA KeepingClean ==
  ASSUME Shape, Clean, outcome = "running", exchange # Nothing, Relayed, Name \notin Sends, Satisfied,
         Keeps(exchange.response.messages[1]),
         \A d \in Directions, k \in Steps : Past(d, k)' <=> Past(d, k) \/ (d = direction /\ k = turn),
         NEW s \in Sides, NEW e \in Directions
  PROVE  know'[s][e] = Knows(s, e)'
<1> DEFINE d == direction
           m == Meant(direction, About[Name])
           c == Client
<1>1. d \in Directions /\ turn \in Steps /\ Name = Phases[turn]
  BY DEF Shape, Name
<1>2. turn \in {2, 4, 6}
  BY <1>1, PhasesDiffer DEF Steps
<1>3. exchange.response.messages = <<m>> /\ exchange.request.after = After(Name)
  BY DEF Clean
<1>4. exchange.response.next = After(Name) + 1
  <2>1. exchange.response.next = exchange.request.after + Len(exchange.response.messages)
    BY DEF Shape, Satisfied, Correlated
  <2>2. Len(<<m>>) = 1
    OBVIOUS
  <2> QED BY <1>3, <2>1, <2>2
<1>5. exchange.response.messages[1] = m
  BY <1>3
<1>6. c \in Sides /\ c = ClientOf(d, Name)
  BY <1>1, <1>2, PhaseNames, Ends DEF Client
<1>7. know' = [know EXCEPT ![c][d] = [@ EXCEPT !.cursor = After(Name) + 1, ![About[Name]] = m]]
  <2> HIDE DEF m
  <2> QED BY <1>4, <1>5 DEF Keeps
<1>8. know'[s][e] = IF s = c /\ e = d
                   THEN [know[s][e] EXCEPT !.cursor = After(Name) + 1, ![About[Name]] = m]
                   ELSE know[s][e]
  <2> DEFINE held == [know[c][d] EXCEPT !.cursor = After(Name) + 1, ![About[Name]] = m]
  <2>1. know' = [know EXCEPT ![c] = [know[c] EXCEPT ![d] = held]]
    BY <1>7
  <2>2. s \in DOMAIN know /\ e \in DOMAIN know[s] /\ c \in DOMAIN know /\ d \in DOMAIN know[c]
    BY <1>1, <1>6 DEF Shape
  <2> HIDE DEF held, c, d
  <2>3. know'[s][e] = IF s = c /\ e = d THEN held ELSE know[s][e]
    BY <2>1, <2>2
  <2> QED BY <2>3 DEF held, d
<1>9. know[s][e] = Knows(s, e)
  BY DEF Clean
<1>10. /\ Past(e, 2)' <=> Past(e, 2) \/ (e = d /\ turn = 2)
       /\ Past(e, 4)' <=> Past(e, 4) \/ (e = d /\ turn = 4)
       /\ Past(e, 6)' <=> Past(e, 6) \/ (e = d /\ turn = 6)
  BY DEF Steps
<1>11. CASE e # d
  <2>1. Knows(s, e)' = Knows(s, e)
    BY <1>10, <1>11 DEF Knows
  <2> QED BY <1>8, <1>9, <1>11, <2>1
<1>12. CASE e = d
  <2>1. /\ Past(e, 2) <=> 2 < turn
        /\ Past(e, 4) <=> 4 < turn
        /\ Past(e, 6) <=> 6 < turn
    BY <1>12, AtHand DEF Steps
  <2>2. CASE turn = 2
    <3>1. /\ Name = "poll_proposal" /\ c = Consumer(e) /\ Consumer(e) # Producer(e)
          /\ About[Name] = "propose" /\ m = Proposal(e) /\ After(Name) = 0
      BY <1>1, <1>6, <1>12, <2>2, PhaseNames, Ends, Abouts DEF Meant, After
    <3>2. CASE s = c
      <4>1. know[s][e] = [cursor |-> 0, propose |-> Nothing, accept |-> Nothing, attest |-> Nothing]
        BY <1>9, <2>1, <2>2, <3>1, <3>2 DEF Knows
      <4>2. Knows(s, e)' = [cursor |-> 1, propose |-> Proposal(e), accept |-> Nothing, attest |-> Nothing]
        BY <1>10, <1>12, <2>1, <2>2, <3>1, <3>2 DEF Knows
      <4>3. know'[s][e] = [know[s][e] EXCEPT !["cursor"] = 1, !["propose"] = Proposal(e)]
        <5> DEFINE n == After(Name) + 1
                   p == About[Name]
        <5>1. n = 1 /\ p = "propose" /\ m = Proposal(e)
          BY <3>1
        <5> HIDE DEF m, n, p, c, d
        <5>2. know'[s][e] = [know[s][e] EXCEPT !.cursor = n, ![p] = m]
          BY <1>8, <1>12, <3>2 DEF n, p
        <5> QED BY <5>1, <5>2
      <4> QED BY <4>1, <4>2, <4>3
    <3>3. CASE s # c
      <4>1. s = Producer(e)
        BY <3>1, <3>3, Ends
      <4>2. Knows(s, e)' = Knows(s, e)
        BY <1>10, <2>2, <4>1 DEF Knows
      <4> QED BY <1>8, <1>9, <3>3, <4>2
    <3> QED BY <3>2, <3>3
  <2>3. CASE turn = 4
    <3>1. /\ Name = "poll_acceptance" /\ c = Producer(e) /\ Consumer(e) # Producer(e)
          /\ About[Name] = "accept" /\ m = Acceptance(e) /\ After(Name) = 0
      BY <1>1, <1>6, <1>12, <2>3, PhaseNames, Ends, Abouts DEF Meant, After
    <3>2. CASE s = c
      <4>1. know[s][e] = [cursor |-> 0, propose |-> Nothing, accept |-> Nothing, attest |-> Nothing]
        BY <1>9, <2>1, <2>3, <3>1, <3>2 DEF Knows
      <4>2. Knows(s, e)' = [cursor |-> 1, propose |-> Nothing, accept |-> Acceptance(e), attest |-> Nothing]
        BY <1>10, <1>12, <2>1, <2>3, <3>1, <3>2 DEF Knows
      <4>3. know'[s][e] = [know[s][e] EXCEPT !["cursor"] = 1, !["accept"] = Acceptance(e)]
        <5> DEFINE n == After(Name) + 1
                   p == About[Name]
        <5>1. n = 1 /\ p = "accept" /\ m = Acceptance(e)
          BY <3>1
        <5> HIDE DEF m, n, p, c, d
        <5>2. know'[s][e] = [know[s][e] EXCEPT !.cursor = n, ![p] = m]
          BY <1>8, <1>12, <3>2 DEF n, p
        <5> QED BY <5>1, <5>2
      <4> QED BY <4>1, <4>2, <4>3
    <3>3. CASE s # c
      <4>1. Knows(s, e)' = Knows(s, e)
        BY <1>10, <2>3, <3>1, <3>3 DEF Knows
      <4> QED BY <1>8, <1>9, <3>3, <4>1
    <3> QED BY <3>2, <3>3
  <2>4. CASE turn = 6
    <3>1. /\ Name = "poll_attestation" /\ c = Consumer(e) /\ Consumer(e) # Producer(e)
          /\ About[Name] = "attest" /\ m = Attestation(e) /\ After(Name) = 1
      BY <1>1, <1>6, <1>12, <2>4, PhaseNames, Ends, Abouts DEF Meant, After
    <3>2. CASE s = c
      <4>1. know[s][e] = [cursor |-> 1, propose |-> Proposal(e), accept |-> Nothing, attest |-> Nothing]
        BY <1>9, <2>1, <2>4, <3>1, <3>2 DEF Knows
      <4>2. Knows(s, e)' = [cursor |-> 2, propose |-> Proposal(e), accept |-> Nothing,
                            attest |-> Attestation(e)]
        BY <1>10, <1>12, <2>1, <2>4, <3>1, <3>2 DEF Knows
      <4>3. know'[s][e] = [know[s][e] EXCEPT !["cursor"] = 2, !["attest"] = Attestation(e)]
        <5> DEFINE n == After(Name) + 1
                   p == About[Name]
        <5>1. n = 2 /\ p = "attest" /\ m = Attestation(e)
          BY <3>1
        <5> HIDE DEF m, n, p, c, d
        <5>2. know'[s][e] = [know[s][e] EXCEPT !.cursor = n, ![p] = m]
          BY <1>8, <1>12, <3>2 DEF n, p
        <5> QED BY <5>1, <5>2
      <4> QED BY <4>1, <4>2, <4>3
    <3>3. CASE s # c
      <4>1. s = Producer(e)
        BY <3>1, <3>3, Ends
      <4>2. Knows(s, e)' = Knows(s, e)
        BY <1>10, <2>4, <4>1 DEF Knows
      <4> QED BY <1>8, <1>9, <3>3, <4>2
    <3> QED BY <3>2, <3>3
  <2> QED BY <1>2, <2>2, <2>3, <2>4
<1> QED BY <1>11, <1>12

\* In a clean run an exchange whose answer is kept as it is stays clean.
LEMMA RespondClean ==
  ASSUME Shape, Book, Clean, outcome = "running", exchange # Nothing, Relayed, Satisfied, Advance,
         ledger' = Append(ledger, exchange), exchange' = Nothing, UNCHANGED store,
         IF Name \in Sends THEN UNCHANGED know ELSE Keeps(exchange.response.messages[1])
  PROVE  Clean'
<1> DEFINE last == Len(ledger) + 1
<1>1. /\ DOMAIN ledger' = DOMAIN ledger \cup {last} /\ last \notin DOMAIN ledger
      /\ \A i \in DOMAIN ledger : ledger'[i] = ledger[i]
      /\ ledger'[last] = exchange
      /\ \A d, p : Reported(d, p)' =
            Reported(d, p) \cup (IF d = direction /\ p = Name THEN {last} ELSE {})
  BY LedgerGrows
<1> HIDE DEF last
<1>2. \A d \in Directions, k \in Steps : Past(d, k)' <=> Past(d, k) \/ (d = direction /\ k = turn)
  BY Moving
<1>3. /\ direction \in Directions /\ turn \in Steps /\ Name = Phases[turn]
      /\ exchange.direction = direction /\ exchange.phase = Name /\ IsExchange(exchange)
  BY DEF Shape, Name
<1>4. \A d \in Directions, k \in Steps : Past(d, k)' => Reported(d, Phases[k])' # {}
  BY <1>1, <1>2, <1>3 DEF Clean
<1>5. \A i \in DOMAIN ledger' : ledger'[i].phase \in Sends =>
        ledger'[i].message = Meant(ledger'[i].direction, ledger'[i].phase)
  <2>1. Name \in Sends => exchange.message = Meant(direction, Name)
    BY <1>3 DEF Clean, IsExchange
  <2>2. \A i \in DOMAIN ledger : ledger[i].phase \in Sends =>
          ledger[i].message = Meant(ledger[i].direction, ledger[i].phase)
    BY DEF Clean
  <2> QED BY <1>1, <1>3, <2>1, <2>2
<1>6. \A s \in Sides, d \in Directions : store'[s][d] = Log(s, d)'
  <2>1. ~Relayed'
    BY DEF Relayed
  <2>2. \A d \in Directions, k \in Steps : Sent(d, k)' <=> Sent(d, k)
    BY <1>2, <2>1 DEF Sent
  <2>3. \A d \in Directions :
          (Sent(d, 1)' <=> Sent(d, 1)) /\ (Sent(d, 3)' <=> Sent(d, 3)) /\ (Sent(d, 5)' <=> Sent(d, 5))
    BY <2>2 DEF Steps
  <2>4. \A s \in Sides, d \in Directions : Log(s, d)' = Log(s, d)
    BY <2>3 DEF Log
  <2> QED BY <2>4 DEF Clean
<1>7. \A s \in Sides, d \in Directions : know'[s][d] = Knows(s, d)'
  <2>1. CASE Name \notin Sends
    BY <1>2, <2>1, KeepingClean
  <2>2. CASE Name \in Sends
    <3>1. turn \in {1, 3, 5}
      BY <1>3, <2>2, PhasesDiffer
    <3>2. \A d \in Directions :
            (Past(d, 2)' <=> Past(d, 2)) /\ (Past(d, 4)' <=> Past(d, 4)) /\ (Past(d, 6)' <=> Past(d, 6))
      BY <1>2, <3>1 DEF Steps
    <3>3. \A s \in Sides, d \in Directions : Knows(s, d)' = Knows(s, d)
      BY <3>2 DEF Knows
    <3> QED BY <2>2, <3>3 DEF Clean
  <2> QED BY <2>1, <2>2
<1> QED BY <1>4, <1>5, <1>6, <1>7 DEF Clean

\* In a clean run a client that keeps another message than it polled misread it.
LEMMA Misreading ==
  ASSUME Shape, Clean, outcome = "running", exchange # Nothing, Relayed, Satisfied,
         Name \notin Sends, Name # "poll_attestation",
         NEW m, m = exchange.response.messages[1],
         Keeps(Sealed([m.content EXCEPT !.sender = "nobody"])),
         exchange' = Nothing,
         \A d \in Directions, k \in Steps : Past(d, k)' <=> Past(d, k) \/ (d = direction /\ k = turn),
         \A d, p : d = direction /\ p = Name => Reported(d, p)' # {}
  PROVE  \E d \in Directions, k \in {2, 4} : Misread(d, k)'
<1> DEFINE kept == Sealed([m.content EXCEPT !.sender = "nobody"])
<1>1. direction \in Directions /\ turn \in Steps /\ Name = Phases[turn]
  BY DEF Shape, Name
<1>2. turn \in {2, 4}
  <2>1. turn \in {2, 4, 6}
    BY <1>1, PhasesDiffer DEF Steps
  <2> QED BY <1>1, <2>1, PhaseNames
<1>3. About[Name] \in Sends /\ Client \in Sides /\ Client = ClientOf(direction, Phases[turn])
      /\ About[Name] = About[Phases[turn]]
  BY <1>1, <1>2, PhaseNames, Abouts, Ends DEF Sends, Client
<1>4. m = Meant(direction, About[Name])
  BY DEF Clean
<1>5. kept.hash.type # "stale" /\ kept.hash.sender = "nobody"
  <2>1. IsMessage(m, About[Name], ClientOf(direction, About[Name]))
    BY <1>1, <1>3, <1>4, Meaning
  <2>2. m.content.type # "stale" /\ {"type", "sender"} \subseteq DOMAIN m.content
    BY <1>3, <2>1 DEF IsMessage, Sends
  <2> QED BY <2>2 DEF Sealed
<1>6. know'[Client][direction][About[Name]] = kept
  <2> DEFINE held == [know[Client][direction] EXCEPT !.cursor = exchange.response.next, ![About[Name]] = kept]
             a == About[Name]
             c == Client
  <2>1. know' = [know EXCEPT ![c] = [know[c] EXCEPT ![direction] = held]]
    BY DEF Keeps
  <2>2. c \in DOMAIN know /\ direction \in DOMAIN know[c]
        /\ a \in DOMAIN know[c][direction]
    BY <1>1, <1>3 DEF Shape, Sends
  <2>3. held[a] = kept
    <3> HIDE DEF kept, a, c
    <3> QED BY <2>2 DEF a, c
  <2> HIDE DEF held, kept, a, c
  <2>4. know'[c][direction] = held
    BY <2>1, <2>2
  <2> QED BY <2>3, <2>4 DEF a, c
<1>7. \A d \in Directions, k \in {2, 4} : d = direction /\ k = turn => Misread(d, k)'
  <2> SUFFICES ASSUME NEW d \in Directions, NEW k \in {2, 4}, d = direction, k = turn
               PROVE  Misread(d, k)'
    OBVIOUS
  <2>1. k \in Steps /\ k + 1 \in Steps /\ k + 1 # k
    BY DEF Steps
  <2>2. Past(d, k)' /\ ~Past(d, k + 1)'
    <3>1. ~Past(d, k + 1)
      BY <2>1, AtHand DEF Steps
    <3> QED BY <2>1, <3>1
  <2>3. Reported(d, Phases[k])' # {}
    BY <1>1
  <2>4. know'[ClientOf(d, Phases[k])][d][About[Phases[k]]] = kept
    <3> HIDE DEF kept
    <3> QED BY <1>3, <1>6
  <2> HIDE DEF kept
  <2> QED BY <1>5, <2>2, <2>3, <2>4 DEF Misread
<1> QED BY <1>1, <1>2, <1>7

\* An answer removes no trace.
LEMMA RespondDoomed ==
  ASSUME Shape, Book, Doomed, outcome = "running", exchange # Nothing, Relayed, Satisfied, Advance,
         ledger' = Append(ledger, exchange), exchange' = Nothing, UNCHANGED store
  PROVE  Doomed'
<1> DEFINE last == Len(ledger) + 1
<1>1. /\ DOMAIN ledger' = DOMAIN ledger \cup {last} /\ last \notin DOMAIN ledger
      /\ \A i \in DOMAIN ledger : ledger'[i] = ledger[i]
      /\ ledger'[last] = exchange
      /\ \A d, p : Reported(d, p)' =
            Reported(d, p) \cup (IF d = direction /\ p = Name THEN {last} ELSE {})
  BY LedgerGrows
<1> HIDE DEF last
<1>2. \A d \in Directions, k \in Steps : Past(d, k)' <=> Past(d, k) \/ (d = direction /\ k = turn)
  BY Moving
<1>3. direction \in Directions /\ turn \in Steps /\ Name = Phases[turn] /\ ~Past(direction, turn)
  BY AtHand DEF Shape, Name
<1>4. CASE \E i \in DOMAIN ledger : Wrong(ledger[i])
  <2>1. \E i \in DOMAIN ledger' : Wrong(ledger'[i])
    BY <1>1, <1>4
  <2> QED BY <2>1 DEF Doomed
<1>5. CASE Wrong(exchange)
  <2>1. \E i \in DOMAIN ledger' : Wrong(ledger'[i])
    BY <1>1, <1>5
  <2> QED BY <2>1 DEF Doomed
<1>6. CASE \E d \in Directions, k \in Steps : Past(d, k) /\ Reported(d, Phases[k]) = {}
  <2>1. PICK d \in Directions, k \in Steps : Past(d, k) /\ Reported(d, Phases[k]) = {}
    BY <1>6
  <2>2. ~(d = direction /\ Phases[k] = Name)
    BY <1>3, <2>1, PhasesDiffer
  <2>3. Past(d, k)' /\ Reported(d, Phases[k])' = {}
    BY <1>1, <1>2, <2>1, <2>2
  <2> QED BY <2>3 DEF Doomed
<1>7. CASE \E d \in Directions, k \in {1, 3, 5} : Spoilt(d, k)
  <2>1. PICK d \in Directions, k \in {1, 3, 5} : Spoilt(d, k)
    BY <1>7
  <2>2. k \in Steps /\ k + 1 \in Steps
    BY DEF Steps
  <2>3. ~Relayed'
    BY DEF Relayed
  <2>4. (Sent(d, k)' <=> Sent(d, k)) /\ (Sent(d, k + 1)' <=> Sent(d, k + 1))
    BY <1>2, <2>2, <2>3 DEF Sent
  <2>5. Spoilt(d, k)'
    BY <2>1, <2>4 DEF Spoilt
  <2> QED BY <2>5 DEF Doomed
<1>8. ~\E d \in Directions, k \in {2, 4} : Misread(d, k)
  BY DEF Misread
<1> QED BY <1>4, <1>5, <1>6, <1>7, <1>8 DEF Doomed

\* A client's taking its answer preserves the invariant.
LEMMA RespondStep ==
  ASSUME IInv, Respond
  PROVE  IInv'
<1>1. /\ Shape /\ Book /\ outcome = "running" /\ exchange # Nothing /\ Relayed /\ Satisfied
      /\ Advance /\ ledger' = Append(ledger, exchange) /\ exchange' = Nothing /\ UNCHANGED store
      /\ IF Name \in Sends THEN UNCHANGED <<know, visible, faults>> ELSE Consume
  BY DEF IInv, Respond, Shape, Relayed
<1>2. /\ direction' \in Directions /\ turn' \in Steps /\ outcome' \in {"running", "done"}
      /\ \A d \in Directions, k \in Steps : Past(d, k)' <=> Past(d, k) \/ (d = direction /\ k = turn)
  BY <1>1, Moving
<1> DEFINE m == exchange.response.messages[1]
           rewritten == Sealed([m.content EXCEPT !.sender = "nobody"])
<1>3. /\ faults' \in Nat
      /\ \/ Name \in Sends /\ UNCHANGED <<know, faults>>
         \/ Name \notin Sends /\ faults' = faults /\ Keeps(m)
         \/ Name \notin Sends /\ faults' = faults + 1 /\ Name # "poll_attestation" /\ Keeps(rewritten)
  <2>1. CASE Name \in Sends
    BY <1>1, <2>1 DEF Shape
  <2>2. CASE Name \notin Sends
    <3>1. PICK kept \in {m, rewritten} :
            /\ kept # m => Name # "poll_attestation"
            /\ Fault(kept # m)
            /\ Keeps(kept)
      <4> HIDE DEF Keeps
      <4> QED BY <1>1, <2>2 DEF Consume, Keeps
    <3> HIDE DEF m, rewritten
    <3> QED BY <1>1, <2>2, <3>1 DEF Fault, Shape
  <2> QED BY <2>1, <2>2
<1>4. Shape'
  <2>1. /\ DOMAIN know' = DOMAIN know
        /\ \A s \in Sides : DOMAIN know'[s] = Directions
        /\ \A s \in Sides, d \in Directions : DOMAIN know'[s][d] = DOMAIN know[s][d]
    <3>1. CASE UNCHANGED know
      BY <1>1, <3>1 DEF Shape
    <3>2. ASSUME NEW kept, Keeps(kept)
          PROVE  /\ DOMAIN know' = DOMAIN know
                 /\ \A s \in Sides : DOMAIN know'[s] = DOMAIN know[s]
                 /\ \A s \in Sides, d \in Directions : DOMAIN know'[s][d] = DOMAIN know[s][d]
      <4> DEFINE held == [know[Client][direction] EXCEPT !.cursor = exchange.response.next,
                                                                 ![About[Name]] = kept]
                 c == Client
      <4>1. know' = [know EXCEPT ![c] = [know[c] EXCEPT ![direction] = held]]
        BY <3>2 DEF Keeps
      <4>2. DOMAIN held = DOMAIN know[c][direction]
        OBVIOUS
      <4>3. DOMAIN know = Sides /\ \A s \in Sides : DOMAIN know[s] = Directions
        BY <1>1 DEF Shape
      <4> HIDE DEF held, c
      <4>4. DOMAIN know' = DOMAIN know /\ \A s \in Sides : DOMAIN know'[s] = DOMAIN know[s]
        BY <4>1, <4>3
      <4>5. ASSUME NEW s \in Sides, NEW d \in Directions
            PROVE  know'[s][d] = IF s = c /\ d = direction THEN held ELSE know[s][d]
        BY <4>1, <4>3
      <4> QED BY <4>2, <4>4, <4>5
    <3> QED BY <1>1, <1>3, <3>1, <3>2 DEF Shape
  <2> QED BY <1>1, <1>2, <1>3, <2>1 DEF Shape
<1>5. Book'
  BY <1>1, RespondBook
<1>6. ASSUME faults' = 0 PROVE Clean'
  <2>1. faults = 0 /\ IF Name \in Sends THEN UNCHANGED know ELSE Keeps(m)
    BY <1>1, <1>3, <1>6 DEF Shape
  <2>2. Clean
    BY <1>1, <2>1 DEF IInv
  <2> QED BY <1>1, <2>1, <2>2, RespondClean
<1>7. ASSUME faults' > 0 PROVE Doomed'
  <2>1. CASE faults > 0
    <3>1. Doomed
      BY <2>1 DEF IInv
    <3> QED BY <1>1, <3>1, RespondDoomed
  <2>2. CASE faults = 0
    <3>1. Clean /\ Name \notin Sends /\ Name # "poll_attestation" /\ Keeps(rewritten)
      BY <1>1, <1>3, <1>7, <2>2 DEF IInv
    <3>2. \A d, p : d = direction /\ p = Name => Reported(d, p)' # {}
      BY <1>1, LedgerGrows
    <3>3. \E d \in Directions, k \in {2, 4} : Misread(d, k)'
      BY <1>1, <1>2, <3>1, <3>2, Misreading
    <3> QED BY <3>3 DEF Doomed
  <2> QED BY <1>1, <2>1, <2>2 DEF Shape
<1> QED BY <1>2, <1>4, <1>5, <1>6, <1>7 DEF IInv

\* So does an answer that the client refuses: the run has failed.
LEMMA FailStep ==
  ASSUME IInv, Fail
  PROVE  IInv'
<1>1. /\ Shape /\ outcome' = "failed" /\ exchange' = Nothing
      /\ UNCHANGED <<direction, turn, know, visible, store, ledger, faults>>
  BY DEF IInv, Fail
<1>2. Shape'
  BY <1>1 DEF Shape
<1>3. Doomed'
  BY <1>1 DEF Doomed
<1> QED BY <1>1, <1>2, <1>3 DEF IInv

-----------------------------------------------------------------------------
(* The evaluator *)

\* The report has one exchange of each of its phases, which is the one that the
\* evaluator looks up.
LEMMA Looked ==
  ASSUME Book, NEW i \in DOMAIN ledger, NEW d, NEW p, d = ledger[i].direction, p = ledger[i].phase
  PROVE  ThePhase(d, p) = ledger[i] /\ Authored(d, p) = ledger[i].message
<1>1. i \in Reported(d, p) /\ \A j \in Reported(d, p) : j = i
  BY DEF Book, Reported
<1>2. (CHOOSE j \in Reported(d, p) : TRUE) = i
  BY <1>1
<1> QED BY <1>2 DEF ThePhase, Authored

\* What a phase of the report looks up is in the report.
LEMMA Found ==
  ASSUME NEW d, NEW p, Reported(d, p) # {}
  PROVE  \E i \in DOMAIN ledger :
           /\ ledger[i].direction = d /\ ledger[i].phase = p
           /\ ThePhase(d, p) = ledger[i] /\ Authored(d, p) = ledger[i].message
<1> DEFINE i == CHOOSE i \in Reported(d, p) : TRUE
<1>1. i \in Reported(d, p)
  OBVIOUS
<1> QED BY <1>1 DEF Reported, ThePhase, Authored

\* What is reported as a message that its author did not change is not foreign.
LEMMA NotForeign ==
  ASSUME Book, NEW d \in Directions, NEW p \in Sends, Reported(d, p) # {}
  PROVE  ~Foreign(Authored(d, p).hash)
<1>1. PICK i \in DOMAIN ledger :
        /\ ledger[i].direction = d /\ ledger[i].phase = p
        /\ Authored(d, p) = ledger[i].message
  BY Found
<1>2. IsMessage(Authored(d, p), p, ClientOf(d, p))
  BY <1>1 DEF Book, IsExchange
<1>3. Authored(d, p).hash.type = p /\ Authored(d, p).hash.sender = ClientOf(d, p)
  BY <1>2 DEF IsMessage
<1>4. ClientOf(d, p) # "nobody" /\ p # "stale" /\ Stale.type = "stale"
  BY Ends DEF Sends, Sides, Stale
<1> QED BY <1>3, <1>4 DEF Foreign

\* In an accepted report no exchange is wrong.
LEMMA WrongIsRejected ==
  ASSUME Book, NEW i \in DOMAIN ledger, Wrong(ledger[i]), \A d \in Directions : DirectionHolds(d)
  PROVE  FALSE
<1> DEFINE x == ledger[i]
           d == x.direction
           p == x.phase
<1>1. d \in Directions /\ IsExchange(x)
  BY DEF Book, IsExchange
<1>2. ThePhase(d, p) = x /\ Authored(d, p) = x.message
  BY Looked
<1>3. /\ x.told = {} /\ x.origin = "participants" /\ x.verbatim
      /\ InScope(d) /\ Causal(d) /\ \A q \in Polls : PollHolds(d, q)
      /\ \A k \in DOMAIN Phases : Cardinality(Reported(d, Phases[k])) = 1
  BY <1>1 DEF DirectionHolds, Transparent, NothingTold
<1>4. \A k \in Steps : Reported(d, Phases[k]) # {}
  <2>1. Cardinality({}) = 0
    BY FS_EmptySet
  <2> QED BY <1>3, <2>1, PhaseNames
<1> HIDE DEF x, d, p
<1>5. p \in Sends => x.message.content.session = d
  BY <1>2, <1>3 DEF InScope
<1>6. p = "propose" => x.message.content.goal = d
  BY <1>2, <1>3 DEF InScope
<1>7. p \in {"accept", "attest"} => ~Foreign(x.message.content.prev)
  <2>1. Reported(d, "propose") # {} /\ Reported(d, "accept") # {}
    BY <1>4, PhaseNames DEF Steps
  <2>2. ~Foreign(Authored(d, "propose").hash) /\ ~Foreign(Authored(d, "accept").hash)
    BY <1>1, <2>1, NotForeign DEF Sends
  <2>3. /\ Authored(d, "accept").content.prev = Authored(d, "propose").hash
        /\ Authored(d, "attest").content.prev = Authored(d, "accept").hash
    BY <1>3 DEF Causal
  <2> QED BY <1>2, <2>2, <2>3
<1>8. p \notin Sends => x.request.session = d /\ x.request.after = After(p)
  <2>1. ASSUME p \notin Sends PROVE p \in Polls
    <3>1. \E k \in Steps : p = Phases[k]
      BY DEF Book, x, p
    <3>2. \A k \in Steps : k \in {1, 2, 3, 4, 5, 6}
      BY DEF Steps
    <3> QED BY <2>1, <3>1, <3>2, PhaseNames DEF Polls, Sends
  <2>2. ASSUME NEW q \in Polls
        PROVE  ThePhase(d, q).request = [after |-> ExpectedCursor(d, q), session |-> d]
    BY <1>3 DEF PollHolds
  <2>3. ThePhase(d, "poll_proposal").response.next = 1
    <3>1. PICK j \in DOMAIN ledger :
            ledger[j].phase = "poll_proposal" /\ ThePhase(d, "poll_proposal") = ledger[j]
      BY <1>4, PhaseNames, Found DEF Steps
    <3>2. ledger[j].response.next = ledger[j].request.after + 1
      BY <3>1 DEF Book, Sends
    <3>3. ledger[j].request.after = 0
      BY <2>2, <3>1 DEF Polls, ExpectedCursor
    <3> QED BY <3>1, <3>2, <3>3
  <2>4. \A q \in Polls : ExpectedCursor(d, q) = After(q)
    BY <2>3 DEF ExpectedCursor, After
  <2>5. ASSUME p \notin Sends PROVE x.request.session = d /\ x.request.after = After(p)
    <3>1. p \in Polls
      BY <2>1, <2>5
    <3>2. x.request = [after |-> After(p), session |-> d]
      BY <1>2, <2>2, <2>4, <3>1
    <3> QED BY <3>2
  <2> QED BY <2>5
<1>9. ~Wrong(x)
  BY <1>3, <1>5, <1>6, <1>7, <1>8 DEF Wrong, d, p
<1> QED BY <1>9 DEF x

\* The report of a run with a trace of a misbehaviour is rejected.
LEMMA DoomedIsRejected ==
  ASSUME Shape, Book, outcome = "done", Doomed, \A d \in Directions : DirectionHolds(d)
  PROVE  FALSE
<1>1. Over /\ exchange = Nothing
  BY DEF Over, Shape
<1>2. \A d, k : Past(d, k) /\ Sent(d, k)
  BY <1>1 DEF Past, Sent
<1>3. ~\E i \in DOMAIN ledger : Wrong(ledger[i])
  BY WrongIsRejected
<1>4. \A d \in Directions, k \in Steps : Reported(d, Phases[k]) # {}
  <2>1. Cardinality({}) = 0
    BY FS_EmptySet
  <2> QED BY <2>1, PhaseNames DEF DirectionHolds
<1>5. \A d, k : ~Spoilt(d, k) /\ ~Misread(d, k)
  BY <1>2 DEF Spoilt, Misread
<1> QED BY <1>1, <1>3, <1>4, <1>5 DEF Doomed

\* The evaluator's judgement preserves the invariant.
LEMMA EvaluateStep ==
  ASSUME IInv, Evaluate
  PROVE  IInv'
<1>1. /\ Shape /\ Book /\ outcome = "done" /\ exchange = Nothing
      /\ outcome' = IF \A d \in Directions : DirectionHolds(d) THEN "eligible" ELSE "rejected"
      /\ UNCHANGED <<direction, turn, exchange, know, visible, store, ledger, faults>>
  BY DEF IInv, Evaluate, Shape
<1>2. Shape'
  BY <1>1 DEF Shape
<1>3. \A d, k : Past(d, k) /\ Past(d, k)' /\ Sent(d, k) /\ Sent(d, k)'
  BY <1>1 DEF Past, Sent, Over
<1>4. \A d, p : Reported(d, p)' = Reported(d, p)
  BY <1>1 DEF Reported
<1>5. Book'
  BY <1>1, <1>3, <1>4 DEF Book
<1>6. ASSUME Clean PROVE Clean'
  <2>1. \A s, d : Log(s, d)' = Log(s, d) /\ Knows(s, d)' = Knows(s, d)
    BY <1>3 DEF Log, Knows
  <2> QED BY <1>1, <1>3, <1>4, <1>6, <2>1 DEF Clean
<1>7. ASSUME faults > 0 PROVE outcome' = "rejected"
  BY <1>1, <1>7, DoomedIsRejected DEF IInv
<1>8. faults > 0 => Doomed'
  BY <1>7 DEF Doomed
<1>9. faults \in Nat
  BY <1>1 DEF Shape
<1> QED BY <1>1, <1>2, <1>5, <1>6, <1>7, <1>8, <1>9 DEF IInv

-----------------------------------------------------------------------------
(* The invariant, and what it says of an eligible report *)

\* A run begins clean.
LEMMA InitStep ==
  ASSUME PairInit
  PROVE  IInv
<1>1. \A d \in Directions, k \in Steps : ~Past(d, k) /\ ~Sent(d, k)
  BY DEF PairInit, Past, Sent, Over, Relayed, Directions, Steps
<1>2. Shape
  BY DEF PairInit, Shape, Directions, Steps, Sides
<1>3. DOMAIN ledger = {} /\ ledger \in Seq({})
  BY DEF PairInit
<1>4. Book
  <2>1. \A d \in Directions, k \in {1, 3, 5} : ~Past(d, k)
    BY <1>1 DEF Steps
  <2> QED BY <1>3, <2>1 DEF Book
<1>5. Clean
  <2>1. \A s \in Sides, d \in Directions : store[s][d] = <<>> /\ Log(s, d) = <<>>
    BY <1>1 DEF PairInit, Log, Steps
  <2>2. \A s \in Sides, d \in Directions : know[s][d] = Knows(s, d)
    BY <1>1 DEF PairInit, Knows, Steps
  <2> QED BY <1>1, <1>3, <2>1, <2>2 DEF Clean, PairInit
<1> QED BY <1>2, <1>4, <1>5 DEF IInv, PairInit

\* A step that changes nothing preserves the invariant.
LEMMA IdleStep ==
  ASSUME IInv, UNCHANGED pairVars
  PROVE  IInv'
<1>1. UNCHANGED <<direction, turn, exchange, know, visible, store, ledger, faults, outcome>>
  BY DEF pairVars
<1>2. Name' = Name /\ \A d, k : Past(d, k)' = Past(d, k)
  BY <1>1, Staying
<1>3. \A d, k : Sent(d, k)' = Sent(d, k)
  BY <1>1, <1>2 DEF Sent, Relayed
<1>4. \A d, p : Reported(d, p)' = Reported(d, p)
  BY <1>1 DEF Reported
<1>5. Shape' = Shape
  BY <1>1, <1>2 DEF Shape, Relayed
<1>6. Book' = Book
  BY <1>1, <1>2, <1>4 DEF Book
<1>7. Clean' = Clean
  <2>1. \A s, d : Log(s, d)' = Log(s, d) /\ Knows(s, d)' = Knows(s, d)
    BY <1>2, <1>3 DEF Log, Knows
  <2> QED BY <1>1, <1>2, <1>4, <2>1 DEF Clean, Relayed
<1>8. Doomed' = Doomed
  <2>1. Satisfied' = Satisfied
    BY <1>1, <1>2 DEF Satisfied, Correlated, Consumable
  <2>2. \A d, k : Spoilt(d, k)' = Spoilt(d, k)
    BY <1>1, <1>3 DEF Spoilt
  <2>3. \A d, k : Misread(d, k)' = Misread(d, k)
    BY <1>1, <1>2, <1>4 DEF Misread
  <2> QED BY <1>1, <1>2, <1>4, <2>1, <2>2, <2>3 DEF Doomed, Relayed
<1> QED BY <1>1, <1>5, <1>6, <1>7, <1>8 DEF IInv

\* The run is clean, or carries the trace of its misbehaviours.
LEMMA Invariance == PairSpec => []IInv
<1>1. PairInit => IInv
  BY InitStep
<1>2. IInv /\ [PairNext]_pairVars => IInv'
  BY BeginSendStep, BeginPollStep, SkipPollStep, RelayStep, RespondStep, FailStep, EvaluateStep,
     IdleStep DEF PairNext
<1> QED BY <1>1, <1>2, PTL DEF PairSpec

\* The invariant is enough.
LEMMA CleanIsHonest ==
  ASSUME IInv
  PROVE  EligibleIsHonest
<1> SUFFICES ASSUME outcome = "eligible", NEW d \in Directions
             PROVE  /\ faults = 0
                    /\ store[Consumer(d)][d] = <<Authored(d, "propose"), Authored(d, "attest")>>
                    /\ store[Producer(d)][d] = <<Authored(d, "accept")>>
                    /\ know[Consumer(d)][d].propose = Authored(d, "propose")
                    /\ know[Producer(d)][d].accept = Authored(d, "accept")
                    /\ know[Consumer(d)][d].attest = Authored(d, "attest")
                    /\ Authored(d, "accept").content.prev = know[Consumer(d)][d].propose.hash
                    /\ Authored(d, "attest").content.prev = know[Producer(d)][d].accept.hash
  <2>1. 1 \in Directions
    BY DEF Directions
  <2> QED BY <2>1 DEF EligibleIsHonest, Consumer
<1>1. faults = 0 /\ Clean /\ Book
  BY DEF IInv
<1>2. \A k : Past(d, k) /\ Sent(d, k)
  BY DEF Past, Sent, Over
<1>3. ASSUME NEW p \in Sends PROVE Authored(d, p) = Meant(d, p)
  <2>1. \E k \in Steps : p = Phases[k]
    BY PhaseNames DEF Sends, Steps
  <2>2. Reported(d, p) # {}
    BY <1>1, <1>2, <2>1 DEF Clean
  <2>3. PICK i \in DOMAIN ledger :
          ledger[i].direction = d /\ ledger[i].phase = p /\ Authored(d, p) = ledger[i].message
    BY <2>2, Found
  <2> QED BY <1>1, <2>3 DEF Clean
<1>4. /\ Authored(d, "propose") = Proposal(d) /\ Authored(d, "accept") = Acceptance(d)
      /\ Authored(d, "attest") = Attestation(d)
  BY <1>3 DEF Sends, Meant
<1>5. /\ Producer(d) \in Sides /\ Consumer(d) \in Sides /\ Producer(d) # Consumer(d)
  BY Ends
<1>6. /\ store[Consumer(d)][d] = <<Proposal(d), Attestation(d)>>
      /\ store[Producer(d)][d] = <<Acceptance(d)>>
  BY <1>1, <1>2, <1>5 DEF Clean, Log
<1>7. /\ know[Consumer(d)][d].propose = Proposal(d)
      /\ know[Producer(d)][d].accept = Acceptance(d)
      /\ know[Consumer(d)][d].attest = Attestation(d)
  <2>1. /\ know[Consumer(d)][d] = Knows(Consumer(d), d)
        /\ know[Producer(d)][d] = Knows(Producer(d), d)
    BY <1>1, <1>5 DEF Clean
  <2>2. Knows(Consumer(d), d) = [cursor |-> 2, propose |-> Proposal(d), accept |-> Nothing,
                                 attest |-> Attestation(d)]
    BY <1>2, <1>5 DEF Knows
  <2>3. Knows(Producer(d), d) = [cursor |-> 1, propose |-> Nothing, accept |-> Acceptance(d),
                                 attest |-> Nothing]
    BY <1>2, <1>5 DEF Knows
  <2> QED BY <2>1, <2>2, <2>3
<1>8. /\ Acceptance(d).content.prev = Proposal(d).hash
      /\ Attestation(d).content.prev = Acceptance(d).hash
  BY DEF Acceptance, Attestation, Sealed
<1> QED BY <1>1, <1>4, <1>6, <1>7, <1>8

\* An eligible report is of an honest run: nobody misbehaved, and the messages
\* that the servers hold and the clients polled and answered are the ones that
\* their authors composed (pairwise_report_evaluator_v1_3.py, against the relay
\* and the peers of the harness).
THEOREM Honesty == PairSpec => []EligibleIsHonest
BY Invariance, CleanIsHonest, PTL
=============================================================================
