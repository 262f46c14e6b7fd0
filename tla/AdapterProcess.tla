--------------------------- MODULE AdapterProcess ---------------------------
(* One invocation of an adapter (conformance/evidence/adapter_process.py,    *)
(* and the same code in conformance/iut/aicp_iut_runner.py): a child process *)
(* gets all requests on its standard input and answers one line per request  *)
(* on its standard output. The invocation is four threads: one writes the    *)
(* input, one per output stream drains it, and the caller watches the child, *)
(* the deadline and the byte limits. The unit of a stream is a line; a line  *)
(* that was cut is refused like one that is missing, so lines are not cut.   *)
(* The lines that a reader has gathered for its chunk still count as in the  *)
(* pipe. The child may leave a process behind that keeps its pipes open.     *)
EXTENDS Naturals, Sequences

CONSTANTS
  Results(_),    \* what an adapter may answer to a request
  PipeLines,     \* the lines a pipe takes
  ChunkLines,    \* the lines of a full read
  Limit,         \* by stream, the lines that may be read of it
  MaxLines       \* bound, by stream: the lines a child writes

Streams == {"stdout", "stderr"}
\* A line that does not answer its request, or reports a failure.
Noise == [request |-> 0]
Answers(n, r) == {[request |-> n, result |-> result] : result \in Results(r)}

ASSUME AdapterAssumption ==
  /\ PipeLines \in Nat /\ ChunkLines \in 1 .. PipeLines
  /\ Limit \in [Streams -> Nat] /\ MaxLines \in [Streams -> Nat]

VARIABLES
  requests,  \* what the child is asked
  child,     \* alive, dying or gone, its code, what it wrote, the pipes' other owner
  pipe,      \* by stream, what was written and not read
  writer,    \* of the requests: writing, done or broken
  drains,    \* by stream, the thread that reads it
  overflow,  \* whether a stream was found over its limit
  caller,    \* where invoke_adapter is, and whether it gave up on the deadline
  closed,    \* the streams the caller has closed
  verdict    \* how the invocation ended, "none" before

adapterVars == <<requests, child, pipe, writer, drains, overflow, caller, closed, verdict>>

Gone == child.state = "gone"

AdapterInit ==
  /\ requests = <<>>
  /\ child = [state |-> "unborn", code |-> 0, said |-> [s \in Streams |-> <<>>], heir |-> FALSE]
  /\ pipe = [s \in Streams |-> <<>>]
  /\ writer = "writing"
  /\ drains = [s \in Streams |-> [at |-> "between", sink |-> <<>>]]
  /\ overflow = FALSE /\ closed = {}
  /\ caller = [at |-> "idle", timed_out |-> FALSE]
  /\ verdict = "none"

-----------------------------------------------------------------------------
(* The child and the process it may leave behind. *)

\* What may be written as the next line of a stream. After noise nothing that
\* follows matters any more.
Sayable(s) ==
  LET said == child.said[s]
      n == Len(said) + 1 IN
  {Noise} \cup
  (IF s = "stdout" /\ n <= Len(requests) /\ \A k \in DOMAIN said : said[k] # Noise
   THEN Answers(n, requests[n]) ELSE {})

\* A process left behind writes to the same pipes, until the caller closes them.
Say(s) ==
  /\ child.state = "alive" \/ (Gone /\ child.heir /\ s \notin closed)
  /\ Len(child.said[s]) < MaxLines[s] /\ Len(pipe[s]) < PipeLines
  /\ \E line \in Sayable(s) :
        /\ child' = [child EXCEPT !.said[s] = Append(@, line)]
        /\ pipe' = [pipe EXCEPT ![s] = Append(@, line)]
  /\ UNCHANGED <<requests, writer, drains, overflow, caller, closed, verdict>>

Exit ==
  /\ child.state = "alive"
  /\ \E code \in {0, 1}, heir \in BOOLEAN :
        child' = [child EXCEPT !.state = "gone", !.code = code, !.heir = heir]
  /\ UNCHANGED <<requests, pipe, writer, drains, overflow, caller, closed, verdict>>

\* A killed child goes, with a code that is not zero.
Die ==
  /\ child.state = "dying"
  /\ \E heir \in BOOLEAN : child' = [child EXCEPT !.state = "gone", !.code = 9, !.heir = heir]
  /\ UNCHANGED <<requests, pipe, writer, drains, overflow, caller, closed, verdict>>

Orphan ==
  /\ Gone /\ child.heir
  /\ child' = [child EXCEPT !.heir = FALSE]
  /\ UNCHANGED <<requests, pipe, writer, drains, overflow, caller, closed, verdict>>

Killed == IF child.state = "alive" THEN [child EXCEPT !.state = "dying"] ELSE child

-----------------------------------------------------------------------------
(* The writer. The child, or its heir, may take the rest of the input.       *)

WriteAll ==
  /\ writer = "writing" /\ child.state # "unborn" /\ (~Gone \/ child.heir)
  /\ writer' = "done"
  /\ UNCHANGED <<requests, child, pipe, drains, overflow, caller, closed, verdict>>

WriteBroken ==
  /\ writer = "writing" /\ Gone /\ ~child.heir
  /\ writer' = "broken"
  /\ UNCHANGED <<requests, child, pipe, drains, overflow, caller, closed, verdict>>

-----------------------------------------------------------------------------
(* A drain. A read ends with a full chunk or at the end of the stream; a     *)
(* read of a closed stream fails, and the drain ends. The chunk is kept, or  *)
(* found over the limit, in the step that reads it: only the drain looks at  *)
(* its sink until the caller joins it.                                       *)

StartRead(s) ==
  /\ drains[s].at = "between" /\ child.state # "unborn"
  /\ drains' = [drains EXCEPT ![s].at = IF s \in closed THEN "done" ELSE "reading"]
  /\ UNCHANGED <<requests, child, pipe, writer, overflow, caller, closed, verdict>>

Chunk(s) ==
  SubSeq(pipe[s], 1, IF Len(pipe[s]) < ChunkLines THEN Len(pipe[s]) ELSE ChunkLines)
Within(s) == Len(drains[s].sink) + Len(Chunk(s)) <= Limit[s]

FinishRead(s) ==
  /\ drains[s].at = "reading"
  /\ Len(pipe[s]) >= ChunkLines \/ (Gone /\ ~child.heir)
  /\ pipe' = [pipe EXCEPT ![s] = SubSeq(@, Len(Chunk(s)) + 1, Len(@))]
  /\ UNCHANGED <<requests, writer, caller, closed, verdict>>

KeepChunk(s) ==
  /\ FinishRead(s) /\ Within(s)
  /\ drains' = [drains EXCEPT ![s] =
       [at |-> IF Chunk(s) = <<>> THEN "done" ELSE "between", sink |-> @.sink \o Chunk(s)]]
  /\ UNCHANGED <<child, overflow>>

Overflow(s) ==
  /\ FinishRead(s) /\ ~Within(s)
  /\ drains' = [drains EXCEPT ![s].at = "done"]
  /\ overflow' = TRUE
  /\ child' = Killed

-----------------------------------------------------------------------------
(* The caller. *)

CallerAt(place) == caller' = [caller EXCEPT !.at = place]

Launch(plan) ==
  /\ caller.at = "idle"
  /\ requests' = plan
  /\ child' = [child EXCEPT !.state = "alive"]
  /\ CallerAt("poll")
  /\ UNCHANGED <<pipe, writer, drains, overflow, closed, verdict>>

SeeExit ==
  /\ caller.at = "poll" /\ Gone
  /\ CallerAt("close_stdout")
  /\ UNCHANGED <<requests, child, pipe, writer, drains, overflow, closed, verdict>>

Abandon(timed_out) ==
  /\ caller' = [at |-> "reap", timed_out |-> timed_out]
  /\ child' = Killed
  /\ UNCHANGED <<requests, pipe, writer, drains, overflow, closed, verdict>>

\* Mutant: only the limits are watched, not the deadline.
GiveUpOnOverflow == caller.at = "poll" /\ overflow /\ Abandon(FALSE)

\* The deadline may pass at any moment; the child may have gone since it was
\* found alive.
GiveUp == caller.at = "poll" /\ Abandon(~overflow)

Reap ==
  /\ caller.at = "reap" /\ Gone
  /\ CallerAt("close_stdout")
  /\ UNCHANGED <<requests, child, pipe, writer, drains, overflow, closed, verdict>>

\* A killed child is waited for, but for two seconds at most.
Unreaped ==
  /\ caller.at = "reap" /\ ~Gone
  /\ verdict' = "unreaped"
  /\ CallerAt("ended")
  /\ UNCHANGED <<requests, child, pipe, writer, drains, overflow, closed>>

\* close() waits for a read in progress.
CloseStream(s, here, after) ==
  /\ caller.at = here /\ drains[s].at # "reading"
  /\ closed' = closed \cup {s}
  /\ CallerAt(after)
  /\ UNCHANGED <<requests, child, pipe, writer, drains, overflow, verdict>>

\* Each of the three threads is waited for, but for a second at most.
Join ==
  /\ caller.at = "join"
  /\ CallerAt("judge")
  /\ UNCHANGED <<requests, child, pipe, writer, drains, overflow, closed, verdict>>

Output == drains["stdout"].sink

AnswersAll(lines) ==
  Len(lines) = Len(requests) /\ \A n \in DOMAIN requests : lines[n].request = n

\* Mutant: what a child with an error code has answered counts.
VerdictOfOutput ==
  IF overflow THEN "overflow"
  ELSE IF caller.timed_out THEN "timeout"
  ELSE IF AnswersAll(Output) THEN "answered" ELSE "refused"

Verdict ==
  IF overflow THEN "overflow"
  ELSE IF caller.timed_out THEN "timeout"
  ELSE IF writer = "broken" \/ child.code # 0 THEN "failed"
  ELSE IF AnswersAll(Output) THEN "answered" ELSE "refused"

Judge ==
  /\ caller.at = "judge"
  /\ verdict' = Verdict
  /\ CallerAt("ended")
  /\ UNCHANGED <<requests, child, pipe, writer, drains, overflow, closed>>

Thread(s) == StartRead(s) \/ KeepChunk(s) \/ Overflow(s)
Invocation ==
  \/ SeeExit \/ GiveUp \/ Reap \/ Unreaped
  \/ CloseStream("stdout", "close_stdout", "close_stderr")
  \/ CloseStream("stderr", "close_stderr", "join")
  \/ Join \/ Judge

AdapterNext ==
  \/ Exit \/ Die \/ Orphan \/ WriteAll \/ WriteBroken \/ Invocation
  \/ \E s \in Streams : Say(s) \/ Thread(s)

\* The clock, the threads of the runner and the kernel are fair; the child
\* and its heir owe nothing.
AdapterFairness ==
  /\ WF_adapterVars(Die) /\ WF_adapterVars(WriteBroken)
  /\ WF_adapterVars(Invocation)
  /\ \A s \in Streams : WF_adapterVars(Thread(s))

-----------------------------------------------------------------------------
(* Properties *)

\* Every invocation ends, whatever the child does, except while a process that
\* the child left behind keeps its pipes: close() then waits for the drain.
InvocationEnds == []<>(caller.at = "idle" \/ verdict # "none" \/ child.heir)
=============================================================================
