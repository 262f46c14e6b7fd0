--------------------------- MODULE IutRunner_proofs ---------------------------
(***************************************************************************)
(* Theorems about the runner for an implementation under test, for any     *)
(* adapter, any sizes of pipes and chunks and any limits, and for plans    *)
(* with any vectors, scenarios and cases.                                  *)
(***************************************************************************)
EXTENDS IutRunner, SequenceTheorems, FiniteSetTheorems, TLAPS

-----------------------------------------------------------------------------
(* The plan *)

Checks ==
  [kind : {"describe_start", "canonicalize", "describe_end"}]
    \cup [kind : {"generate", "generate_repeat"}, scenario : STRING]
    \cup [kind : {"validate"}, case : Consumer]

\* In full-profile mode the plan goes from a generation to its repetition.
Paired(P) ==
  \A n \in DOMAIN P : P[n].kind = "generate" =>
    n + 1 \in DOMAIN P /\ P[n + 1].kind = "generate_repeat"

LEMMA GenerationsShape ==
  ASSUME NEW m \in Modes
  PROVE  /\ Generations(m) \in Seq(Checks)
         /\ \A n \in DOMAIN Generations(m) : Generations(m)[n].kind \in {"generate", "generate_repeat"}
         /\ m = "full-profile" => Paired(Generations(m))
<1> DEFINE L == Len(Producers[m])
<1>1. Producers[m] \in Seq(STRING) /\ L \in Nat /\ DOMAIN Producers[m] = 1 .. L
  BY IutAssumption
<1>2. \A k \in 1 .. L : Producers[m][k] \in STRING
  BY <1>1
<1> DEFINE once(k) == [kind |-> "generate", scenario |-> Producers[m][k]]
           again(k) == [kind |-> "generate_repeat", scenario |-> Producers[m][k]]
<1>3. \A k \in 1 .. L : once(k) \in Checks /\ again(k) \in Checks
  BY <1>2 DEF Checks
<1>4. \A k : once(k).kind = "generate" /\ again(k).kind = "generate_repeat"
  OBVIOUS
<1>5. CASE m = "full-profile"
  <2> DEFINE g == [n \in 1 .. 2 * L |->
                     IF n % 2 = 1 THEN once((n + 1) \div 2) ELSE again(n \div 2)]
  <2>1. Generations(m) = g
    BY <1>5 DEF Generations
  <2>2. \A n \in 1 .. 2 * L : /\ n % 2 = 1 => (n + 1) \div 2 \in 1 .. L /\ n + 1 \in 1 .. 2 * L
                              /\ n % 2 # 1 => n \div 2 \in 1 .. L
                              /\ n % 2 = 1 => (n + 1) % 2 # 1
    BY <1>1
  <2>3. \A n \in 1 .. 2 * L : g[n] = IF n % 2 = 1 THEN once((n + 1) \div 2) ELSE again(n \div 2)
    OBVIOUS
  <2>4. DOMAIN g = 1 .. 2 * L /\ 2 * L \in Nat
    BY <1>1
  <2> HIDE DEF g, once, again
  <2>5. \A n \in 1 .. 2 * L : g[n] \in Checks
    BY <1>3, <2>2, <2>3
  <2>6. g \in Seq(Checks)
    <3>1. g = [n \in 1 .. 2 * L |-> g[n]]
      BY DEF g
    <3> QED BY <2>4, <2>5, <3>1
  <2>7. \A n \in DOMAIN g : g[n].kind \in {"generate", "generate_repeat"}
    BY <1>4, <2>3, <2>4
  <2>8. Paired(g)
    BY <1>4, <2>2, <2>3, <2>4 DEF Paired
  <2> QED BY <2>1, <2>6, <2>7, <2>8
<1>6. CASE m # "full-profile"
  <2> DEFINE g == [n \in 1 .. L |-> once(n)]
  <2>1. Generations(m) = g
    BY <1>1, <1>6 DEF Generations
  <2>2. DOMAIN g = 1 .. L /\ \A n \in 1 .. L : g[n] = once(n)
    OBVIOUS
  <2> HIDE DEF g, once, again
  <2>3. \A n \in 1 .. L : g[n] \in Checks
    BY <1>3, <2>2
  <2>4. g \in Seq(Checks)
    <3>1. g = [n \in 1 .. L |-> g[n]]
      BY DEF g
    <3> QED BY <1>1, <2>3, <3>1
  <2>5. \A n \in DOMAIN g : g[n].kind \in {"generate", "generate_repeat"}
    BY <1>4, <2>2
  <2> QED BY <1>6, <2>1, <2>4, <2>5
<1> QED BY <1>5, <1>6

\* Where an element of a concatenation comes from.
LEMMA ConcatParts ==
  ASSUME NEW x \in Seq(Checks), NEW y \in Seq(Checks)
  PROVE  /\ x \o y \in Seq(Checks)
         /\ DOMAIN (x \o y) = 1 .. Len(x \o y) /\ DOMAIN x = 1 .. Len(x) /\ DOMAIN y = 1 .. Len(y)
         /\ Len(x \o y) = Len(x) + Len(y) /\ Len(x) \in Nat /\ Len(y) \in Nat
         /\ \A n \in 1 .. Len(x) : (x \o y)[n] = x[n]
         /\ \A n \in Len(x) + 1 .. Len(x \o y) :
              n - Len(x) \in 1 .. Len(y) /\ (x \o y)[n] = y[n - Len(x)]
OBVIOUS

\* What a plan begins with, and that it has it once.
Opens(x) ==
  /\ 1 \in DOMAIN x /\ x[1].kind = "describe_start"
  /\ \A n \in DOMAIN x : x[n].kind = "describe_start" => n = 1

LEMMA Extended ==
  ASSUME NEW x \in Seq(Checks), Opens(x), NEW y \in Seq(Checks),
         \A n \in DOMAIN y : y[n].kind # "describe_start"
  PROVE  /\ Opens(x \o y)
         /\ (\A n \in DOMAIN x : x[n].kind # "generate") /\ Paired(y) => Paired(x \o y)
         /\ Paired(x) /\ (\A n \in DOMAIN y : y[n].kind # "generate") => Paired(x \o y)
<1> DEFINE z == x \o y
<1>1. /\ DOMAIN z = 1 .. Len(z) /\ DOMAIN x = 1 .. Len(x) /\ DOMAIN y = 1 .. Len(y)
      /\ Len(z) = Len(x) + Len(y) /\ Len(x) \in Nat /\ Len(y) \in Nat
      /\ \A n \in 1 .. Len(x) : z[n] = x[n]
      /\ \A n \in Len(x) + 1 .. Len(z) : n - Len(x) \in 1 .. Len(y) /\ z[n] = y[n - Len(x)]
  BY ConcatParts
<1> HIDE DEF z
<1>2. \A n \in DOMAIN z : n \in 1 .. Len(x) \/ n \in Len(x) + 1 .. Len(z)
  BY <1>1
<1>3. Opens(z)
  <2>1. 1 \in DOMAIN z /\ z[1].kind = "describe_start"
    BY <1>1 DEF Opens
  <2>2. ASSUME NEW n \in DOMAIN z, z[n].kind = "describe_start"
        PROVE  n = 1
    <3>1. CASE n \in 1 .. Len(x)
      BY <1>1, <2>2, <3>1 DEF Opens
    <3>2. CASE n \in Len(x) + 1 .. Len(z)
      BY <1>1, <2>2, <3>2
    <3> QED BY <1>2, <3>1, <3>2
  <2> QED BY <2>1, <2>2 DEF Opens
<1>4. ASSUME \A n \in DOMAIN x : x[n].kind # "generate", Paired(y)
      PROVE  Paired(z)
  <2> SUFFICES ASSUME NEW n \in DOMAIN z, z[n].kind = "generate"
               PROVE  n + 1 \in DOMAIN z /\ z[n + 1].kind = "generate_repeat"
    BY DEF Paired
  <2>1. n \in Len(x) + 1 .. Len(z)
    BY <1>1, <1>2, <1>4
  <2> DEFINE k == n - Len(x)
  <2>2. k \in DOMAIN y /\ y[k].kind = "generate"
    BY <1>1, <2>1
  <2>3. k + 1 \in DOMAIN y /\ y[k + 1].kind = "generate_repeat"
    BY <1>4, <2>2 DEF Paired
  <2>4. n + 1 \in Len(x) + 1 .. Len(z) /\ (n + 1) - Len(x) = k + 1
    BY <1>1, <2>1, <2>3
  <2> QED BY <1>1, <2>3, <2>4
<1>5. ASSUME Paired(x), \A n \in DOMAIN y : y[n].kind # "generate"
      PROVE  Paired(z)
  <2> SUFFICES ASSUME NEW n \in DOMAIN z, z[n].kind = "generate"
               PROVE  n + 1 \in DOMAIN z /\ z[n + 1].kind = "generate_repeat"
    BY DEF Paired
  <2>1. n \in DOMAIN x /\ x[n].kind = "generate"
    BY <1>1, <1>2, <1>5
  <2>2. n + 1 \in DOMAIN x /\ x[n + 1].kind = "generate_repeat"
    BY <1>5, <2>1 DEF Paired
  <2> QED BY <1>1, <2>2
<1> QED BY <1>3, <1>4, <1>5 DEF z

\* A plan opens with the only request for the first description, and in
\* full-profile mode keeps its generations in pairs.
LEMMA PlanShape ==
  ASSUME NEW m \in Modes
  PROVE  /\ BuildPlan(m) \in Seq(Checks) /\ Opens(BuildPlan(m))
         /\ m = "full-profile" => Paired(BuildPlan(m))
<1> DEFINE first == <<[kind |-> "describe_start"]>>
           vectors == [n \in 1 .. Vectors |-> [kind |-> "canonicalize"]]
           cases == [n \in DOMAIN Consumers[m] |-> [kind |-> "validate", case |-> Consumers[m][n]]]
           last == <<[kind |-> "describe_end"]>>
           gens == Generations(m)
<1>1. first \in Seq(Checks) /\ Opens(first) /\ \A n \in DOMAIN first : first[n].kind # "generate"
  <2>1. [kind |-> "describe_start"] \in Checks
    BY DEF Checks
  <2> QED BY <2>1 DEF Opens
<1>2. vectors \in Seq(Checks) /\ \A n \in DOMAIN vectors : vectors[n].kind = "canonicalize"
  <2>1. [kind |-> "canonicalize"] \in Checks
    BY DEF Checks
  <2>2. Vectors \in Nat
    BY IutAssumption
  <2> QED BY <2>1, <2>2
<1>3. /\ gens \in Seq(Checks)
      /\ \A n \in DOMAIN gens : gens[n].kind \in {"generate", "generate_repeat"}
      /\ m = "full-profile" => Paired(gens)
  BY GenerationsShape
<1>4. cases \in Seq(Checks) /\ \A n \in DOMAIN cases : cases[n].kind = "validate"
  <2> DEFINE L == Len(Consumers[m])
             case(n) == [kind |-> "validate", case |-> Consumers[m][n]]
  <2>1. DOMAIN Consumers[m] = 1 .. L /\ L \in Nat /\ \A n \in 1 .. L : Consumers[m][n] \in Consumer
    BY IutAssumption
  <2>2. \A n \in 1 .. L : case(n) \in Checks
    BY <2>1 DEF Checks
  <2>3. \A n : case(n).kind = "validate"
    OBVIOUS
  <2>4. cases = [n \in 1 .. L |-> case(n)]
    BY <2>1
  <2> HIDE DEF cases, case, L
  <2>5. [n \in 1 .. L |-> case(n)] \in Seq(Checks)
    BY <2>1, <2>2
  <2> QED BY <2>3, <2>4, <2>5
<1>5. last \in Seq(Checks) /\ \A n \in DOMAIN last : last[n].kind = "describe_end"
  <2>1. [kind |-> "describe_end"] \in Checks
    BY DEF Checks
  <2> QED BY <2>1
<1>6. BuildPlan(m) = (((first \o vectors) \o gens) \o cases) \o last
  BY DEF BuildPlan
<1> DEFINE a == first \o vectors
           b == a \o gens
           c == b \o cases
           d == c \o last
<1> HIDE DEF first, vectors, gens, cases, last
<1>7. a \in Seq(Checks) /\ Opens(a)
  BY <1>1, <1>2, ConcatParts, Extended
<1>8. \A n \in DOMAIN a : a[n].kind # "generate"
  <2>1. \A n \in DOMAIN vectors : vectors[n].kind # "generate"
    BY <1>2
  <2>2. /\ DOMAIN a = 1 .. Len(a) /\ DOMAIN first = 1 .. Len(first) /\ DOMAIN vectors = 1 .. Len(vectors)
        /\ Len(a) = Len(first) + Len(vectors) /\ Len(first) \in Nat /\ Len(vectors) \in Nat
        /\ \A n \in 1 .. Len(first) : a[n] = first[n]
        /\ \A n \in Len(first) + 1 .. Len(a) :
             n - Len(first) \in 1 .. Len(vectors) /\ a[n] = vectors[n - Len(first)]
    BY <1>1, <1>2, ConcatParts
  <2> HIDE DEF a
  <2> QED BY <1>1, <2>1, <2>2
<1> HIDE DEF a
<1>9. \A n \in DOMAIN gens : gens[n].kind # "describe_start"
  BY <1>3
<1>10. b \in Seq(Checks) /\ Opens(b) /\ (m = "full-profile" => Paired(b))
  BY <1>3, <1>7, <1>8, <1>9, ConcatParts, Extended
<1> HIDE DEF b
<1>11. \A n \in DOMAIN cases : cases[n].kind # "describe_start" /\ cases[n].kind # "generate"
  BY <1>4
<1>12. c \in Seq(Checks) /\ Opens(c) /\ (m = "full-profile" => Paired(c))
  BY <1>4, <1>10, <1>11, ConcatParts, Extended
<1> HIDE DEF c
<1>13. \A n \in DOMAIN last : last[n].kind # "describe_start" /\ last[n].kind # "generate"
  BY <1>5
<1>14. d \in Seq(Checks) /\ Opens(d) /\ (m = "full-profile" => Paired(d))
  BY <1>5, <1>12, <1>13, ConcatParts, Extended
<1>15. BuildPlan(m) = d
  BY <1>6 DEF a, b, c
<1> HIDE DEF BuildPlan, d
<1> QED BY <1>14, <1>15

-----------------------------------------------------------------------------
(* The invariant of an invocation *)

\* The lines a child may write in the run of a plan.
Lines ==
  {Noise} \cup
  UNION {Answers(n, BuildPlan(m)[n]) : n \in Nat, m \in Modes}

Ends == {"close_stdout", "close_stderr", "join", "judge"}

Typed ==
  /\ child.said \in [Streams -> Seq(Lines)] /\ pipe \in [Streams -> Seq(Lines)]
  /\ child.state \in {"unborn", "alive", "dying", "gone"}
  /\ child = [state |-> child.state, code |-> child.code, said |-> child.said, heir |-> child.heir]
  /\ drains \in [Streams -> [at : {"between", "reading", "done"}, sink : Seq(Lines)]]
  /\ caller = [at |-> caller.at, timed_out |-> caller.timed_out]
  /\ overflow \in BOOLEAN /\ closed \subseteq Streams

\* The child is started with the plan of the mode.
Planned ==
  IF caller.at = "idle" THEN child.state = "unborn"
                        ELSE mode \in Modes /\ requests = BuildPlan(mode)

\* What a child wrote is what was read of it and what is in the pipe, until a
\* chunk is dropped.
Conserved == ~overflow => \A s \in Streams : child.said[s] = drains[s].sink \o pipe[s]

\* Nothing is read from a closed stream, and the caller judges when the child
\* is gone and both streams are closed.
Settled ==
  /\ \A s \in closed : drains[s].at # "reading"
  /\ caller.at \in Ends => Gone
  /\ caller.at = "close_stderr" => "stdout" \in closed
  /\ caller.at \in {"join", "judge"} => closed = Streams

\* An answered invocation is over.
Answered ==
  /\ verdict # "none" => caller.at = "ended"
  /\ verdict = "answered" =>
       /\ Gone /\ closed = Streams /\ ~overflow
       /\ ~caller.timed_out /\ child.code = 0 /\ AnswersAll(Output)
  /\ report.mark => verdict = "answered"

IInv == Typed /\ Planned /\ Conserved /\ Settled /\ Answered

LEMMA InitHolds == IutInit => IInv
<1> SUFFICES ASSUME IutInit PROVE IInv
  OBVIOUS
<1>1. \A s \in Streams : <<>> \o <<>> = <<>>
  OBVIOUS
<1>2. Typed
  <2>1. <<>> \in Seq(Lines)
    OBVIOUS
  <2>2. [at |-> "between", sink |-> <<>>]
          \in [at : {"between", "reading", "done"}, sink : Seq(Lines)]
    BY <2>1
  <2> QED BY <2>1, <2>2 DEF IutInit, AdapterInit, Typed
<1>3. Planned /\ Settled /\ Answered
  BY DEF IutInit, AdapterInit, Planned, Settled, Answered, Ends, NoReport
<1>4. Conserved
  BY <1>1 DEF IutInit, AdapterInit, Conserved
<1> QED BY <1>2, <1>3, <1>4 DEF IInv

\* What a child may say is a line.
LEMMA SayableLines ==
  ASSUME IInv, caller.at # "idle", NEW s \in Streams
  PROVE  Sayable(s) \subseteq Lines
<1> DEFINE n == Len(child.said[s]) + 1
<1>1. child.said[s] \in Seq(Lines) /\ n \in Nat
  BY DEF IInv, Typed
<1>2. requests = BuildPlan(mode) /\ mode \in Modes
  BY DEF IInv, Planned
<1>3. Answers(n, requests[n]) \subseteq Lines
  BY <1>1, <1>2 DEF Lines
<1>4. Sayable(s) \subseteq {Noise} \cup Answers(n, requests[n])
  BY DEF Sayable
<1> QED BY <1>3, <1>4 DEF Lines

\* The actions, one by one.
LEMMA ActionCases ==
  ASSUME IutNext
  PROVE  \/ \E m \in Modes : mode' = m /\ Launch(BuildPlan(m)) /\ UNCHANGED report
         \/ WriteReport
         \/ /\ UNCHANGED iutVars
            /\ \/ \E s \in Streams : Say(s) \/ StartRead(s) \/ KeepChunk(s) \/ Overflow(s)
               \/ Exit \/ Die \/ Orphan
               \/ WriteAll \/ WriteBroken \/ SeeExit \/ Reap \/ Unreaped \/ Join \/ Judge \/ GiveUp
               \/ CloseStream("stdout", "close_stdout", "close_stderr")
               \/ CloseStream("stderr", "close_stderr", "join")
BY DEF IutNext, Start, AdapterNext, Invocation, Thread

LEMMA StartStep ==
  ASSUME IInv, NEW m \in Modes, mode' = m, Launch(BuildPlan(m)), UNCHANGED report
  PROVE  IInv'
<1> USE DEF Launch, CallerAt
<1>1. Typed'
  BY DEF IInv, Typed
<1>2. Planned' /\ Settled'
  BY DEF IInv, Typed, Planned, Settled, Ends
<1>3. Conserved'
  BY DEF IInv, Typed, Conserved
<1>4. Answered'
  BY DEF IInv, Typed, Answered
<1> QED BY <1>1, <1>2, <1>3, <1>4 DEF IInv

\* The steps that read and write no stream.
LEMMA QuietStep ==
  ASSUME IInv, UNCHANGED <<iutVars, requests, pipe, drains, overflow, child.said>>,
         \/ Exit \/ Die \/ Orphan
         \/ WriteAll \/ WriteBroken \/ SeeExit \/ Reap \/ Unreaped \/ Join \/ Judge \/ GiveUp
         \/ CloseStream("stdout", "close_stdout", "close_stderr")
         \/ CloseStream("stderr", "close_stderr", "join")
  PROVE  IInv'
<1> USE DEF Gone
<1>1. Typed'
  BY DEF IInv, Typed, Streams, Exit, Die, Orphan, WriteAll, WriteBroken, SeeExit, Reap, Unreaped,
         Join, Judge, GiveUp, CloseStream, Abandon, Killed, CallerAt
<1>2. Conserved'
  BY DEF IInv, Conserved
<1>3. CASE Exit \/ Die \/ Orphan \/ WriteAll \/ WriteBroken
  <2>1. /\ UNCHANGED <<requests, drains, overflow, caller, closed, verdict, mode, report>>
        /\ child.state # "unborn" /\ child'.state # "unborn"
        /\ child.state = "gone" => child'.state = "gone" /\ child'.code = child.code
    BY <1>3 DEF IInv, Typed, Exit, Die, Orphan, WriteAll, WriteBroken, iutVars
  <2>2. Planned' /\ Settled'
    BY <2>1 DEF IInv, Planned, Settled
  <2>3. Answered'
    BY <2>1 DEF IInv, Answered, AnswersAll, Output
  <2> QED BY <1>1, <1>2, <2>2, <2>3 DEF IInv
<1>4. CASE \/ SeeExit \/ Reap \/ Unreaped \/ Join \/ Judge \/ GiveUp
           \/ CloseStream("stdout", "close_stdout", "close_stderr")
           \/ CloseStream("stderr", "close_stderr", "join")
  <2>1. /\ UNCHANGED <<requests, drains, overflow, mode, report>>
        /\ caller.at # "idle" /\ caller'.at # "idle"
        /\ child.state = "gone" => child'.state = "gone"
    BY <1>4 DEF IInv, Typed, SeeExit, Reap, Unreaped, Join, Judge, GiveUp, CloseStream, Abandon, Killed,
                CallerAt, iutVars
  <2>2. Planned'
    BY <2>1 DEF IInv, Planned
  <2>3. Settled'
    <3>1. CASE SeeExit \/ Reap \/ Unreaped \/ Judge \/ GiveUp
      <4>1. /\ closed' = closed /\ caller'.at \notin {"close_stderr", "join", "judge"}
            /\ caller'.at = "close_stdout" => child'.state = "gone"
        BY <3>1 DEF IInv, Typed, SeeExit, Reap, Unreaped, Judge, GiveUp, Abandon, CallerAt
      <4> QED BY <2>1, <4>1 DEF IInv, Settled, Ends
    <3>2. CASE Join
      <4>1. closed' = closed /\ caller.at = "join" /\ caller'.at = "judge" /\ child' = child
        BY <3>2 DEF IInv, Typed, Join, CallerAt
      <4> QED BY <2>1, <4>1 DEF IInv, Settled, Ends
    <3>3. CASE CloseStream("stdout", "close_stdout", "close_stderr")
      <4>1. /\ closed' = closed \cup {"stdout"} /\ drains["stdout"].at # "reading" /\ child' = child
            /\ caller.at = "close_stdout" /\ caller'.at = "close_stderr"
        BY <3>3 DEF IInv, Typed, CloseStream, CallerAt
      <4> QED BY <2>1, <4>1 DEF IInv, Settled, Ends
    <3>4. CASE CloseStream("stderr", "close_stderr", "join")
      <4>1. /\ closed' = closed \cup {"stderr"} /\ drains["stderr"].at # "reading" /\ child' = child
            /\ caller.at = "close_stderr" /\ caller'.at = "join"
        BY <3>4 DEF IInv, Typed, CloseStream, CallerAt
      <4>2. closed' = Streams
        BY <4>1 DEF IInv, Typed, Settled, Streams
      <4> QED BY <2>1, <4>1, <4>2 DEF IInv, Settled, Ends
    <3> QED BY <1>4, <3>1, <3>2, <3>3, <3>4
  <2>4. Answered'
    <3>1. CASE Judge
      <4>1. /\ caller.at = "judge" /\ caller'.at = "ended" /\ UNCHANGED <<child, closed>>
            /\ caller'.timed_out = caller.timed_out /\ verdict' = Verdict
        BY <3>1 DEF IInv, Typed, Judge, CallerAt
      <4>2. child.state = "gone" /\ closed = Streams /\ verdict = "none" /\ ~report.mark
        BY <4>1 DEF IInv, Settled, Answered, Ends
      <4>3. Verdict = "answered" => ~overflow /\ ~caller.timed_out /\ child.code = 0 /\ AnswersAll(Output)
        BY DEF Verdict
      <4> QED BY <2>1, <4>1, <4>2, <4>3 DEF Answered, AnswersAll, Output
    <3>2. CASE ~Judge
      <4>1. /\ caller.at # "ended" /\ verdict' # "answered"
            /\ verdict' # "none" => verdict = verdict' \/ caller'.at = "ended"
        BY <1>4, <3>2 DEF IInv, Typed, Answered, SeeExit, Reap, Unreaped, Join, GiveUp, CloseStream,
                          Abandon, CallerAt
      <4> QED BY <2>1, <4>1 DEF IInv, Answered
    <3> QED BY <3>1, <3>2
  <2> QED BY <1>1, <1>2, <2>2, <2>3, <2>4 DEF IInv
<1> QED BY <1>3, <1>4

LEMMA WriteReportStep ==
  ASSUME IInv, WriteReport
  PROVE  IInv'
<1>1. UNCHANGED <<adapterVars, mode>> /\ verdict = "answered"
  BY DEF WriteReport
<1>2. Typed' /\ Planned' /\ Conserved' /\ Settled'
  BY <1>1 DEF IInv, Typed, Planned, Conserved, Settled, Gone, adapterVars
<1>3. Answered'
  BY <1>1 DEF IInv, Answered, Gone, AnswersAll, Output, adapterVars
<1> QED BY <1>2, <1>3 DEF IInv

\* Lines that are added at the end, one by one or many at a time.
LEMMA Appending == \A x \in Seq(Lines), line \in Lines : Append(x, line) = x \o <<line>>
<1> TAKE x \in Seq(Lines), line \in Lines
<1> QED BY AppendIsConcat

LEMMA Concatenating == \A x, y, z \in Seq(Lines) : (x \o y) \o z = x \o (y \o z)
<1> TAKE x, y, z \in Seq(Lines)
<1> QED BY ConcatAssociative, SMT

\* A line goes into the pipe as the child writes it.
LEMMA SayStep ==
  ASSUME IInv, UNCHANGED iutVars, NEW s \in Streams, Say(s)
  PROVE  IInv'
<1> USE DEF Say
<1>1. caller.at # "idle"
  BY DEF IInv, Planned, Gone
<1>2. PICK line \in Lines :
        /\ child' = [child EXCEPT !.said[s] = Append(@, line)]
        /\ pipe' = [pipe EXCEPT ![s] = Append(@, line)]
  BY <1>1, SayableLines
<1>3. /\ child.said \in [Streams -> Seq(Lines)] /\ pipe \in [Streams -> Seq(Lines)]
      /\ child = [state |-> child.state, code |-> child.code, said |-> child.said, heir |-> child.heir]
  BY DEF IInv, Typed
<1>4. child' = [state |-> child.state, code |-> child.code,
                said |-> [child.said EXCEPT ![s] = Append(@, line)], heir |-> child.heir]
  BY <1>2, <1>3
<1>5. \A x \in Seq(Lines) : Append(x, line) \in Seq(Lines)
  BY <1>2
<1>6. Typed'
  <2>1. child'.said \in [Streams -> Seq(Lines)] /\ pipe' \in [Streams -> Seq(Lines)]
    BY <1>2, <1>3, <1>4, <1>5
  <2> QED BY <1>4, <2>1 DEF IInv, Typed
<1>7. Planned' /\ Settled' /\ Answered' 
  BY <1>4 DEF IInv, Typed, Planned, Settled, Answered, Gone, AnswersAll, Output, iutVars
<1>8. Conserved'
  <2> SUFFICES ASSUME ~overflow, NEW t \in Streams
               PROVE  child'.said[t] = drains[t].sink \o pipe'[t]
    BY DEF Conserved
  <2>1. child.said[t] = drains[t].sink \o pipe[t]
    BY DEF IInv, Conserved
  <2>2. CASE t # s
    <3>1. child'.said[t] = child.said[t] /\ pipe'[t] = pipe[t]
      BY <1>2, <1>3, <1>4, <2>2
    <3> QED BY <2>1, <3>1
  <2>3. CASE t = s
    <3>1. child'.said[t] = Append(child.said[t], line) /\ pipe'[t] = Append(pipe[t], line)
      BY <1>2, <1>3, <1>4, <2>3
    <3>2. drains[t].sink \in Seq(Lines) /\ pipe[t] \in Seq(Lines)
      BY DEF IInv, Typed
    <3>3. Append(drains[t].sink \o pipe[t], line) = drains[t].sink \o Append(pipe[t], line)
      <4>1. \A x \in Seq(Lines) : Append(x, line) = x \o <<line>>
        BY <1>2, Appending
      <4>2. \A x, y, z \in Seq(Lines) : (x \o y) \o z = x \o (y \o z)
        BY Concatenating
      <4>3. \A x, y \in Seq(Lines) : x \o y \in Seq(Lines)
        BY ConcatProperties
      <4>4. <<line>> \in Seq(Lines) /\ line \in Lines
        BY <1>2
      <4>5. (drains[t].sink \o pipe[t]) \o <<line>> = drains[t].sink \o (pipe[t] \o <<line>>)
        BY <3>2, <4>2, <4>4
      <4> QED BY <3>2, <4>1, <4>3, <4>5
    <3> QED BY <2>1, <3>1, <3>3
  <2> QED BY <2>2, <2>3
<1> QED BY <1>6, <1>7, <1>8 DEF IInv

\* A drain that changes its place keeps its sink.
LEMMA DrainMoves ==
  ASSUME NEW D \in [Streams -> [at : {"between", "reading", "done"}, sink : Seq(Lines)]],
         NEW s \in Streams, NEW place
  PROVE  [D EXCEPT ![s].at = place] = [D EXCEPT ![s] = [at |-> place, sink |-> D[s].sink]]
<1>1. D[s] = [at |-> D[s].at, sink |-> D[s].sink]
  OBVIOUS
<1>2. [D[s] EXCEPT !.at = place] = [at |-> place, sink |-> D[s].sink]
  BY <1>1
<1> QED BY <1>2

LEMMA StartReadStep ==
  ASSUME IInv, UNCHANGED iutVars, NEW s \in Streams, StartRead(s)
  PROVE  IInv'
<1> USE DEF StartRead
<1> DEFINE place == IF s \in closed THEN "done" ELSE "reading"
<1>1. /\ drains \in [Streams -> [at : {"between", "reading", "done"}, sink : Seq(Lines)]]
      /\ drains' = [drains EXCEPT ![s] = [at |-> place, sink |-> drains[s].sink]]
  <2>1. drains \in [Streams -> [at : {"between", "reading", "done"}, sink : Seq(Lines)]]
    BY DEF IInv, Typed
  <2>2. drains' = [drains EXCEPT ![s].at = place]
    OBVIOUS
  <2> HIDE DEF StartRead, place
  <2>3. [drains EXCEPT ![s].at = place] = [drains EXCEPT ![s] = [at |-> place, sink |-> drains[s].sink]]
    <3>1. \A p : [drains EXCEPT ![s].at = p] = [drains EXCEPT ![s] = [at |-> p, sink |-> drains[s].sink]]
      BY <2>1, DrainMoves, Zenon
    <3> QED BY <3>1
  <2> QED BY <2>1, <2>2, <2>3
<1>2. \A t \in Streams : drains'[t].sink = drains[t].sink
  BY <1>1
<1>3. Typed'
  <2>1. drains[s].sink \in Seq(Lines) /\ place \in {"between", "reading", "done"}
    BY <1>1
  <2>2. [at |-> place, sink |-> drains[s].sink]
          \in [at : {"between", "reading", "done"}, sink : Seq(Lines)]
    BY <2>1
  <2>3. drains' \in [Streams -> [at : {"between", "reading", "done"}, sink : Seq(Lines)]]
    BY <1>1, <2>2
  <2> QED BY <2>3 DEF IInv, Typed
<1>4. Planned' /\ Conserved'
  BY <1>2 DEF IInv, Planned, Conserved, iutVars
<1>5. Settled'
  <2>1. \A t \in closed : drains'[t].at # "reading"
    BY <1>1 DEF IInv, Typed, Settled
  <2> QED BY <2>1 DEF IInv, Settled, Gone
<1>6. Answered'
  <2>1. drains'["stdout"].sink = drains["stdout"].sink
    BY <1>2 DEF Streams
  <2> QED BY <2>1 DEF IInv, Answered, Gone, AnswersAll, Output, iutVars
<1> QED BY <1>3, <1>4, <1>5, <1>6 DEF IInv

\* What a read takes and what it leaves make up the pipe.
LEMMA ChunkParts ==
  ASSUME IInv, NEW s \in Streams
  PROVE  LET rest == SubSeq(pipe[s], Len(Chunk(s)) + 1, Len(pipe[s])) IN
         /\ Chunk(s) \in Seq(Lines) /\ rest \in Seq(Lines)
         /\ Chunk(s) \o rest = pipe[s]
<1> DEFINE taken == IF Len(pipe[s]) < ChunkLines THEN Len(pipe[s]) ELSE ChunkLines
           rest == SubSeq(pipe[s], taken + 1, Len(pipe[s]))
<1>1. pipe[s] \in Seq(Lines) /\ Len(pipe[s]) \in Nat
  BY DEF IInv, Typed
<1>2. taken \in 0 .. Len(pipe[s])
  BY <1>1, AdapterAssumption
<1>3. Chunk(s) = SubSeq(pipe[s], 1, taken) /\ Len(Chunk(s)) = taken
  BY <1>1, <1>2 DEF Chunk
<1>4. Chunk(s) \in Seq(Lines) /\ rest \in Seq(Lines)
  BY <1>1, <1>2, <1>3
<1> HIDE DEF taken
<1>5. SubSeq(pipe[s], 1, taken) \o SubSeq(pipe[s], taken + 1, Len(pipe[s]))
        = SubSeq(pipe[s], 1, Len(pipe[s]))
  <2>1. taken \in 1 - 1 .. Len(pipe[s]) /\ 1 \in 1 .. Len(pipe[s]) + 1 /\ Len(pipe[s]) \in taken .. Len(pipe[s])
    BY <1>1, <1>2
  <2> QED BY <1>1, <2>1, ConcatAdjacentSubSeq
<1>6. SubSeq(pipe[s], 1, Len(pipe[s])) = pipe[s]
  BY <1>1, SubSeqFull
<1> QED BY <1>3, <1>4, <1>5, <1>6

\* A stream that is read is open, and so the invocation is not answered.
LEMMA ReadingIsOpen ==
  ASSUME IInv, NEW s \in Streams, drains[s].at = "reading"
  PROVE  s \notin closed /\ verdict # "answered" /\ ~report.mark
BY DEF IInv, Settled, Answered

LEMMA OverflowStep ==
  ASSUME IInv, UNCHANGED iutVars, NEW s \in Streams, Overflow(s)
  PROVE  IInv'
<1> USE DEF Overflow, FinishRead, Killed
<1> DEFINE rest == SubSeq(pipe[s], Len(Chunk(s)) + 1, Len(pipe[s]))
<1>1. /\ drains \in [Streams -> [at : {"between", "reading", "done"}, sink : Seq(Lines)]]
      /\ drains' = [drains EXCEPT ![s] = [at |-> "done", sink |-> drains[s].sink]]
  <2>1. drains \in [Streams -> [at : {"between", "reading", "done"}, sink : Seq(Lines)]]
    BY DEF IInv, Typed
  <2>2. drains' = [drains EXCEPT ![s].at = "done"]
    OBVIOUS
  <2> HIDE DEF Overflow, FinishRead, Killed
  <2>3. [drains EXCEPT ![s].at = "done"] = [drains EXCEPT ![s] = [at |-> "done", sink |-> drains[s].sink]]
    <3>1. \A p : [drains EXCEPT ![s].at = p] = [drains EXCEPT ![s] = [at |-> p, sink |-> drains[s].sink]]
      BY <2>1, DrainMoves, Zenon
    <3> QED BY <3>1
  <2> QED BY <2>1, <2>2, <2>3
<1>2. pipe' = [pipe EXCEPT ![s] = rest] /\ rest \in Seq(Lines)
  BY ChunkParts
<1>3. verdict # "answered" /\ ~report.mark
  BY ReadingIsOpen
<1>4. overflow' = TRUE /\ UNCHANGED <<requests, caller, closed, verdict, mode, report>>
  BY DEF iutVars
<1> HIDE DEF rest
<1>5. Typed'
  <2>1. [at |-> "done", sink |-> drains[s].sink]
          \in [at : {"between", "reading", "done"}, sink : Seq(Lines)]
    BY <1>1
  <2>2. drains' \in [Streams -> [at : {"between", "reading", "done"}, sink : Seq(Lines)]]
    BY <1>1, <2>1
  <2>3. /\ child' = [state |-> child'.state, code |-> child.code, said |-> child.said, heir |-> child.heir]
        /\ child'.state \in {"unborn", "alive", "dying", "gone"}
    BY DEF IInv, Typed
  <2>4. pipe' \in [Streams -> Seq(Lines)]
    BY <1>2 DEF IInv, Typed
  <2> QED BY <1>4, <2>2, <2>3, <2>4 DEF IInv, Typed
<1>6. Planned'
  BY <1>4 DEF IInv, Typed, Planned
<1>7. Conserved'
  BY <1>4 DEF Conserved
<1>8. Settled'
  <2>1. \A t \in closed : drains'[t].at # "reading"
    BY <1>1 DEF IInv, Typed, Settled
  <2>2. (caller.at \in Ends => Gone)'
    BY <1>4 DEF IInv, Typed, Settled, Gone
  <2> QED BY <1>4, <2>1, <2>2 DEF IInv, Settled
<1>9. Answered'
  BY <1>3, <1>4 DEF IInv, Answered
<1> QED BY <1>5, <1>6, <1>7, <1>8, <1>9 DEF IInv

LEMMA KeepChunkStep ==
  ASSUME IInv, UNCHANGED iutVars, NEW s \in Streams, KeepChunk(s)
  PROVE  IInv'
<1> USE DEF KeepChunk, FinishRead
<1> DEFINE rest == SubSeq(pipe[s], Len(Chunk(s)) + 1, Len(pipe[s]))
           place == IF Chunk(s) = <<>> THEN "done" ELSE "between"
           sink == drains[s].sink \o Chunk(s)
<1>1. drains \in [Streams -> [at : {"between", "reading", "done"}, sink : Seq(Lines)]]
  BY DEF IInv, Typed
<1>2. drains' = [drains EXCEPT ![s] = [at |-> place, sink |-> sink]]
  OBVIOUS
<1>3. /\ pipe' = [pipe EXCEPT ![s] = rest]
      /\ Chunk(s) \in Seq(Lines) /\ rest \in Seq(Lines) /\ Chunk(s) \o rest = pipe[s]
  BY ChunkParts
<1>4. sink \in Seq(Lines) /\ place \in {"between", "done"} /\ drains[s].sink \in Seq(Lines)
  BY <1>1, <1>3
<1>5. verdict # "answered" /\ ~report.mark
  BY ReadingIsOpen
<1>6. UNCHANGED <<requests, child, overflow, caller, closed, verdict, mode, report>>
  BY DEF iutVars
<1> HIDE DEF rest, place, sink, KeepChunk
<1>7. Typed'
  <2>1. [at |-> place, sink |-> sink] \in [at : {"between", "reading", "done"}, sink : Seq(Lines)]
    BY <1>4
  <2>2. drains' \in [Streams -> [at : {"between", "reading", "done"}, sink : Seq(Lines)]]
    BY <1>1, <1>2, <2>1
  <2> QED BY <1>3, <1>6, <2>2 DEF IInv, Typed
<1>8. Planned'
  BY <1>6 DEF IInv, Typed, Planned
<1>9. Conserved'
  <2> SUFFICES ASSUME ~overflow, NEW t \in Streams
               PROVE  child.said[t] = drains'[t].sink \o pipe'[t]
    BY <1>6 DEF Conserved
  <2>1. child.said[t] = drains[t].sink \o pipe[t] /\ pipe \in [Streams -> Seq(Lines)]
    BY DEF IInv, Typed, Conserved
  <2>2. CASE t # s
    <3>1. drains'[t] = drains[t] /\ pipe'[t] = pipe[t]
      BY <1>1, <1>2, <1>3, <2>1, <2>2
    <3> QED BY <2>1, <3>1
  <2>3. CASE t = s
    <3>1. drains'[t].sink = sink /\ pipe'[t] = rest
      BY <1>1, <1>2, <1>3, <2>1, <2>3
    <3>2. sink \o rest = drains[s].sink \o (Chunk(s) \o rest)
      <4>1. \A x, y, z \in Seq(Lines) : (x \o y) \o z = x \o (y \o z)
        BY Concatenating
      <4> QED BY <1>3, <1>4, <4>1 DEF sink
    <3> QED BY <1>3, <2>1, <2>3, <3>1, <3>2
  <2> QED BY <2>2, <2>3
<1>10. Settled'
  <2>1. \A t \in closed : drains'[t].at # "reading"
    BY <1>1, <1>2, <1>4 DEF IInv, Typed, Settled
  <2> QED BY <1>6, <2>1 DEF IInv, Settled, Gone
<1>11. Answered'
  BY <1>5, <1>6 DEF IInv, Answered
<1> QED BY <1>7, <1>8, <1>9, <1>10, <1>11 DEF IInv

LEMMA StepHolds == IInv /\ [IutNext]_<<adapterVars, iutVars>> => IInv'
<1> SUFFICES ASSUME IInv, [IutNext]_<<adapterVars, iutVars>> PROVE IInv'
  OBVIOUS
<1>1. CASE UNCHANGED <<adapterVars, iutVars>>
  <2>1. UNCHANGED <<requests, child, pipe, drains, overflow, caller, closed, verdict, mode, report>>
    BY <1>1 DEF adapterVars, iutVars
  <2>2. Typed' /\ Planned' /\ Conserved' /\ Settled'
    BY <2>1 DEF IInv, Typed, Planned, Conserved, Settled, Gone
  <2>3. Answered'
    BY <2>1 DEF IInv, Answered, Gone, AnswersAll, Output
  <2> QED BY <2>2, <2>3 DEF IInv
<1>2. CASE IutNext
  <2>1. CASE \E m \in Modes : mode' = m /\ Launch(BuildPlan(m)) /\ UNCHANGED report
    BY <2>1, StartStep
  <2>2. CASE WriteReport
    BY <2>2, WriteReportStep
  <2>3. CASE UNCHANGED iutVars /\ \E s \in Streams : Say(s) \/ StartRead(s) \/ KeepChunk(s) \/ Overflow(s)
    BY <2>3, SayStep, StartReadStep, KeepChunkStep, OverflowStep
  <2>4. CASE /\ UNCHANGED iutVars
             /\ \/ Exit \/ Die \/ Orphan
                \/ WriteAll \/ WriteBroken \/ SeeExit \/ Reap \/ Unreaped \/ Join \/ Judge \/ GiveUp
                \/ CloseStream("stdout", "close_stdout", "close_stderr")
                \/ CloseStream("stderr", "close_stderr", "join")
    <3>1. UNCHANGED <<requests, pipe, drains, overflow>>
      BY <2>4 DEF Exit, Die, Orphan, WriteAll, WriteBroken, SeeExit, Reap, Unreaped, Join, Judge,
                  GiveUp, CloseStream, Abandon
    <3>2. child'.said = child.said
      BY <2>4 DEF IInv, Typed, Exit, Die, Orphan, WriteAll, WriteBroken, SeeExit, Reap, Unreaped,
                  Join, Judge, GiveUp, CloseStream, Abandon, Killed
    <3> QED BY <2>4, <3>1, <3>2, QuietStep
  <2> QED BY <1>2, <2>1, <2>2, <2>3, <2>4, ActionCases
<1> QED BY <1>1, <1>2

-----------------------------------------------------------------------------
(* The mark *)

\* What the mark looks at is fixed once the invocation is answered.
LEMMA AnswersStand ==
  ASSUME IInv, verdict = "answered", [IutNext]_<<adapterVars, iutVars>>
  PROVE  UNCHANGED <<requests, child.said, child.code, caller.timed_out>>
<1>1. child.state = "gone" /\ closed = Streams /\ caller.at = "ended"
      /\ \A s \in Streams : drains[s].at # "reading"
  BY DEF IInv, Settled, Answered, Gone
<1>2. CASE UNCHANGED <<adapterVars, iutVars>>
  BY <1>2 DEF adapterVars
<1>3. CASE WriteReport
  BY <1>3 DEF WriteReport, adapterVars
<1>4. ASSUME NEW m \in Modes, Launch(BuildPlan(m)) PROVE FALSE
  BY <1>1, <1>4 DEF Launch
<1>5. ASSUME NEW s \in Streams, Say(s) \/ StartRead(s) \/ KeepChunk(s) \/ Overflow(s)
      PROVE  UNCHANGED <<requests, child, caller>>
  BY <1>1, <1>5 DEF Say, StartRead, KeepChunk, Overflow, FinishRead
<1>6. CASE \/ Exit \/ Die \/ Orphan
           \/ WriteAll \/ WriteBroken \/ SeeExit \/ Reap \/ Unreaped \/ Join \/ Judge \/ GiveUp
           \/ CloseStream("stdout", "close_stdout", "close_stderr")
           \/ CloseStream("stderr", "close_stderr", "join")
  BY <1>1, <1>6 DEF IInv, Typed, Exit, Die, Orphan, WriteAll, WriteBroken, SeeExit, Reap, Unreaped, Join,
                    Judge, GiveUp, CloseStream
<1> QED BY <1>2, <1>3, <1>4, <1>5, <1>6, ActionCases

LEMMA MarkStands ==
  ASSUME IInv, MarkIsBacked, report.mark, report'.mark, [IutNext]_<<adapterVars, iutVars>>
  PROVE  MarkIsBacked'
<1>1. UNCHANGED <<requests, child.said, child.code, caller.timed_out>>
  BY AnswersStand DEF IInv, Answered
<1> QED BY <1>1 DEF MarkIsBacked

LEMMA MarkBegins ==
  ASSUME IInv, WriteReport, report'.mark
  PROVE  MarkIsBacked'
<1> DEFINE said == child.said["stdout"]
           describes == {n \in DOMAIN requests : requests[n].kind \in {"describe_start", "describe_end"}}
           generates == {n \in DOMAIN requests : requests[n].kind = "generate"}
           start == Result(Asked("describe_start"))
<1>1. UNCHANGED adapterVars /\ verdict = "answered"
  BY DEF WriteReport
<1>2. /\ mode = "full-profile" /\ start.external /\ start.supports
      /\ \A n \in DOMAIN requests : CaseHolds(n)
  BY DEF WriteReport, Eligible
<1>3. ~caller.timed_out /\ child.code = 0 /\ ~overflow /\ AnswersAll(Output)
  BY <1>1 DEF IInv, Answered
<1>4. requests \in Seq(Checks) /\ Opens(requests) /\ Paired(requests)
  <2>1. requests = BuildPlan(mode) /\ mode \in Modes
    BY <1>1, <1>2 DEF IInv, Answered, Planned
  <2> HIDE DEF start
  <2> QED BY <1>2, <2>1, PlanShape
<1>5. /\ Len(said) >= Len(requests)
      /\ \A n \in DOMAIN requests : said[n] = Output[n] /\ said[n].request = n
  <2>1. /\ said = Output \o pipe["stdout"]
        /\ Output \in Seq(Lines) /\ pipe["stdout"] \in Seq(Lines)
    BY <1>3 DEF IInv, Typed, Conserved, Output, Streams
  <2>2. Len(Output) = Len(requests) /\ \A n \in DOMAIN requests : Output[n].request = n
    BY <1>3 DEF AnswersAll
  <2>3. DOMAIN requests = 1 .. Len(requests) /\ Len(requests) \in Nat
    BY <1>4
  <2> HIDE DEF said
  <2>4. /\ Len(said) = Len(Output) + Len(pipe["stdout"]) /\ Len(pipe["stdout"]) \in Nat
        /\ \A n \in 1 .. Len(Output) : said[n] = Output[n]
    BY <2>1
  <2> QED BY <2>2, <2>3, <2>4
<1>6. \A n \in DOMAIN requests : said[n].result = Result(n)
  BY <1>5 DEF Result
<1>7. Asked("describe_start") = 1 /\ 1 \in describes
  BY <1>4 DEF Asked, Opens
<1>8. \A n \in describes : Result(n) = start
  <2> SUFFICES ASSUME NEW n \in describes PROVE Result(n) = start
    OBVIOUS
  <2>1. CASE requests[n].kind = "describe_start"
    BY <1>4, <1>7, <2>1 DEF Opens
  <2>2. CASE requests[n].kind = "describe_end"
    BY <1>2, <2>2 DEF CaseHolds
  <2> QED BY <2>1, <2>2
<1>9. \A n \in describes : said[n].result = start
  BY <1>6, <1>8
<1>10. Cardinality({said[n].result : n \in describes}) = 1
  <2> HIDE DEF start, said, describes
  <2>1. {said[n].result : n \in describes} = {start}
    BY <1>7, <1>9
  <2> QED BY <2>1, FS_Singleton
<1>11. \A n \in generates : said[n].result \in Valid /\ said[n + 1].result = said[n].result
  <2> SUFFICES ASSUME NEW n \in generates
               PROVE  said[n].result \in Valid /\ said[n + 1].result = said[n].result
    OBVIOUS
  <2>1. n \in DOMAIN requests /\ n + 1 \in DOMAIN requests /\ requests[n + 1].kind = "generate_repeat"
    BY <1>4 DEF Paired
  <2>2. Result(n + 1) \in Valid /\ Result(n + 1) = Result((n + 1) - 1)
    <3>1. CaseHolds(n + 1)
      BY <1>2, <2>1
    <3> QED BY <2>1, <3>1 DEF CaseHolds, Repeats
  <2>3. (n + 1) - 1 = n
    <3>1. DOMAIN requests \subseteq Nat
      BY <1>4
    <3> QED BY <2>1, <3>1
  <2> HIDE DEF said
  <2> QED BY <1>6, <2>1, <2>2, <2>3
<1> HIDE DEF start
<1>12. /\ ~caller.timed_out /\ child.code = 0
       /\ Len(said) >= Len(requests)
       /\ \A n \in DOMAIN requests : said[n].request = n
       /\ Cardinality({said[n].result : n \in describes}) = 1
       /\ \A n \in describes : said[n].result.external /\ said[n].result.supports
       /\ \A n \in generates : said[n].result \in Valid /\ said[n + 1].result = said[n].result
  BY <1>2, <1>3, <1>5, <1>9, <1>10, <1>11
<1>13. UNCHANGED <<requests, child, caller>>
  BY <1>1 DEF adapterVars
<1> QED BY <1>12, <1>13 DEF MarkIsBacked

\* A mark is backed by what the implementation wrote, however its process, the
\* pipes, the clock and the threads behaved, for every plan.
THEOREM MarkBacked == IutSpec => []MarkIsBacked
<1>1. IutInit => MarkIsBacked
  BY DEF IutInit, NoReport, MarkIsBacked
<1>2. IInv /\ MarkIsBacked /\ [IutNext]_<<adapterVars, iutVars>> => MarkIsBacked'
  <2> SUFFICES ASSUME IInv, MarkIsBacked, [IutNext]_<<adapterVars, iutVars>>, report'.mark
               PROVE  MarkIsBacked'
    BY DEF MarkIsBacked
  <2>1. CASE report.mark
    BY <2>1, MarkStands
  <2>2. CASE ~report.mark
    <3>1. WriteReport
      BY <2>2, ActionCases DEF iutVars
    <3> QED BY <3>1, MarkBegins
  <2> QED BY <2>1, <2>2
<1> QED BY <1>1, <1>2, InitHolds, StepHolds, PTL DEF IutSpec
=============================================================================
