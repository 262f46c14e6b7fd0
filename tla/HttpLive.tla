------------------------------ MODULE HttpLive ------------------------------
(***************************************************************************)
(* The live HTTP, SSE and WebSocket binding server (conformance/evidence/  *)
(* live_bindings/live_http_transport.py).  ThreadingHTTPServer runs one    *)
(* handler thread per connection; the handlers share the sessions and the  *)
(* list of records.  Cursors and the list are under a lock, the sessions'  *)
(* messages, message_ids, closed and ack are not: each of their reads and  *)
(* writes is a step of its own here, and handlers interleave between them. *)
(* A reply is recorded right after it was sent; the server never reads its *)
(* records, so both are one step.  Requests are received whole: until its  *)
(* body is read (324) a handler touches nothing shared.                    *)
(*                                                                         *)
(* The server is in its mode "good".  An opaque cursor stands for the      *)
(* offset it was issued for, so a session keeps the set of its cursors.    *)
(***************************************************************************)
EXTENDS Naturals, Sequences, FiniteSets

CONSTANTS
  Sessions,           \* opaque session ids
  MessageIds, Hashes, \* of the messages posted
  Connections,        \* each has a handler thread
  None,
  Requests,           \* what clients may send
  ConcurrentRetries,  \* whether a client retries before its first try returned
  MaxRequests         \* bound: requests

Message == [id : MessageIds, hash : Hashes]

\* fault is the first check that the request fails, if any.
Faults == {"none", "body", "authorization", "headers", "session_mismatch",
           "last_event", "key", "frame"}

Targeted ==
  [op : {"ack", "close", "poll", "poll_expired", "stream", "stream_overload",
         "ws", "ws_overload", "head", "overload", "unknown"},
   session : Sessions, fault : Faults, after : Nat, limit : Nat \ {0}]

Create == [op : {"create"}, fault : Faults]

Post == [op : {"post"}, session : Sessions, fault : Faults, message : Message]

Session ==
  [messages : Seq(Message), message_ids : SUBSET MessageIds, closed : BOOLEAN,
   ack : Nat \cup {None}, cursors : SUBSET Nat]

\* What a handler holds.  A reply is the handler's record as it was sent.
Handler ==
  [request : Targeted \cup Create \cup Post,
   began : Nat,             \* replies sent before the request was served
   pc : {"post_closed", "post_existing", "post_record", "post_append",
         "ack_check", "ack_store", "close", "poll_expired", "frame", "offset",
         "slice", "cursor", "head_id", "head_hash", "reply"},
   status : Nat,
   start : Nat, delivered : Seq(Message), issued : Seq(Nat),
   head_id : MessageIds \cup {None}, head_hash : Hashes \cup {None}]

ASSUME HttpLiveAssumption ==
  /\ Requests \subseteq Targeted \cup Create \cup Post
  /\ MaxRequests \in Nat /\ ConcurrentRetries \in BOOLEAN
  /\ Sessions # {}
  /\ None \notin MessageIds \cup Hashes \cup Handler \cup Session

VARIABLES
  sessions,     \* by session id, or None
  connections,  \* the handler at work on a connection, or None
  records       \* HttpLiveState.records: the replies, in the order they were sent

vars == <<sessions, connections, records>>

-----------------------------------------------------------------------------
(* Handler steps.  At(c, pc): the handler of c is about to do pc. *)

At(c, pc) == connections[c] # None /\ connections[c].pc = pc

Request(c) == connections[c].request

SessionOf(c) == sessions[Request(c).session]

Goto(c, pc) == connections' = [connections EXCEPT ![c].pc = pc]

Reply(c, status) ==
  connections' = [connections EXCEPT ![c].pc = "reply", ![c].status = status]

SetSession(c, session) ==
  sessions' = [sessions EXCEPT ![Request(c).session] = session]

Active == {c \in Connections : connections[c] # None}

\* A client that waits for its answer before it posts the same message again.
Waits(r) ==
  r.op = "post" => \A c \in Active :
    ~(/\ Request(c).op = "post" /\ Request(c).session = r.session
      /\ Request(c).message.id = r.message.id)

\* The status of a request that is refused, or answered, without any step of
\* its own, or 0.
Immediate(r) ==
  CASE r.fault = "body" -> 400
    [] r.fault = "authorization" -> 401
    [] r.op # "create" /\ sessions[r.session] = None -> 404
    [] r.op = "unknown" -> 404
    [] r.op = "overload" -> 429
    [] r.op \in {"stream", "stream_overload"} /\ r.fault = "last_event" -> 400
    [] r.op = "stream_overload" -> 200
    [] r.op \in {"ws", "ws_overload"} /\ r.fault = "key" -> 400
    [] OTHER -> 0

\* Where the handler of an open session goes first.
FirstStep ==
  [post |-> "post_closed", ack |-> "ack_check", close |-> "close",
   poll |-> "offset", poll_expired |-> "poll_expired", stream |-> "offset",
   ws |-> "frame", ws_overload |-> "frame", head |-> "head_id"]

Begin(c, r, pc, status) ==
  connections' = [connections EXCEPT ![c] =
    [request |-> r, began |-> Len(records), pc |-> pc, status |-> status,
     start |-> 0, delivered |-> <<>>, issued |-> <<>>,
     head_id |-> None, head_hash |-> None]]

NewSession ==
  [messages |-> <<>>, message_ids |-> {}, closed |-> FALSE, ack |-> None,
   cursors |-> {0}]

\* Session ids are random: any of those left will do.
CreateSession(c, r) ==
  LET unused == {s \in Sessions : sessions[s] = None} IN
  /\ unused # {}
  /\ sessions' = [sessions EXCEPT ![CHOOSE s \in unused : TRUE] = NewSession]
  /\ Begin(c, r, "reply", 201)

Receive(c, r) ==
  /\ connections[c] = None
  /\ Len(records) + Cardinality(Active) < MaxRequests
  /\ ConcurrentRetries \/ Waits(r)
  /\ \/ /\ Immediate(r) # 0
        /\ Begin(c, r, "reply", Immediate(r)) /\ UNCHANGED sessions
     \/ /\ Immediate(r) = 0 /\ r.op = "create"
        /\ CreateSession(c, r)
     \/ /\ Immediate(r) = 0 /\ r.op # "create"
        /\ Begin(c, r, FirstStep[r.op], 0) /\ UNCHANGED sessions
  /\ UNCHANGED records

-----------------------------------------------------------------------------
(* POST .../messages *)

\* Mutant: a closed session still ingests.
PostAlways(c) ==
  /\ At(c, "post_closed")
  /\ CASE Request(c).fault = "headers" -> Reply(c, 400)
       [] Request(c).fault = "session_mismatch" -> Reply(c, 409)
       [] OTHER -> Goto(c, "post_existing")
  /\ UNCHANGED <<sessions, records>>

PostClosed(c) ==
  /\ At(c, "post_closed")
  /\ CASE SessionOf(c).closed -> Reply(c, 409)
       [] ~SessionOf(c).closed /\ Request(c).fault = "headers" -> Reply(c, 400)
       [] ~SessionOf(c).closed /\ Request(c).fault = "session_mismatch" -> Reply(c, 409)
       [] OTHER -> Goto(c, "post_existing")
  /\ UNCHANGED <<sessions, records>>

\* Mutant: an id is a replay in every session once one has it.
ReplayAnywhere(c) ==
  \E s \in Sessions : sessions[s] # None /\ Request(c).message.id \in sessions[s].message_ids

IsReplay(c) == Request(c).message.id \in SessionOf(c).message_ids

PostExisting(c) ==
  /\ At(c, "post_existing")
  /\ IF IsReplay(c) THEN Reply(c, 200) ELSE Goto(c, "post_record")
  /\ UNCHANGED <<sessions, records>>

\* Mutants: the message is recorded where its id belongs; nothing is recorded.
RecordWhole(c) ==
  /\ At(c, "post_record")
  /\ SetSession(c, [SessionOf(c) EXCEPT !.message_ids = @ \cup {Request(c).message}])
  /\ Goto(c, "post_append")
  /\ UNCHANGED records

RecordNothing(c) ==
  /\ At(c, "post_record")
  /\ Goto(c, "post_append")
  /\ UNCHANGED <<sessions, records>>

PostRecord(c) ==
  /\ At(c, "post_record")
  /\ SetSession(c, [SessionOf(c) EXCEPT !.message_ids = @ \cup {Request(c).message.id}])
  /\ Goto(c, "post_append")
  /\ UNCHANGED records

PostAppend(c) ==
  /\ At(c, "post_append")
  /\ SetSession(c, [SessionOf(c) EXCEPT !.messages = Append(@, Request(c).message)])
  /\ Reply(c, 202)
  /\ UNCHANGED records

-----------------------------------------------------------------------------
(* POST .../ack and .../close *)

AckCheck(c) ==
  /\ At(c, "ack_check")
  /\ IF Request(c).after \in SessionOf(c).cursors
     THEN Goto(c, "ack_store") ELSE Reply(c, 409)
  /\ UNCHANGED <<sessions, records>>

AckStore(c) ==
  /\ At(c, "ack_store")
  /\ SetSession(c, [SessionOf(c) EXCEPT !.ack = Request(c).after])
  /\ Reply(c, 204)
  /\ UNCHANGED records

Close(c) ==
  /\ At(c, "close")
  /\ SetSession(c, [SessionOf(c) EXCEPT !.closed = TRUE])
  /\ Reply(c, 204)
  /\ UNCHANGED records

-----------------------------------------------------------------------------
(* Delivery by polling, event stream or WebSocket *)

\* A poll with an expired cursor is told to continue at offset 1.
PollExpired(c) ==
  /\ At(c, "poll_expired")
  /\ SetSession(c, [SessionOf(c) EXCEPT !.cursors = @ \cup {1}])
  /\ connections' = [connections EXCEPT ![c].pc = "reply", ![c].status = 410,
                                       ![c].issued = <<1>>]
  /\ UNCHANGED records

\* After the 101 a frame is waited for, for as long as the client takes to send
\* it; when it is broken, or the connection ends, the handler just ends.
ReadFrame(c) ==
  /\ At(c, "frame")
  /\ CASE Request(c).fault = "frame" -> connections' = [connections EXCEPT ![c] = None]
       [] Request(c).fault # "frame" /\ Request(c).op = "ws_overload" -> Reply(c, 101)
       [] OTHER -> Goto(c, "offset")
  /\ UNCHANGED <<sessions, records>>

\* Mutant: a handler keeps the lock of the cursors while it waits for its frame.
ReadOffsetLocked(c) ==
  /\ At(c, "offset")
  /\ \A d \in Connections : ~At(d, "frame")
  /\ IF Request(c).after \in SessionOf(c).cursors
     THEN connections' = [connections EXCEPT ![c].pc = "slice", ![c].start = Request(c).after]
     ELSE IF Request(c).op = "ws" THEN Goto(c, "slice") ELSE Reply(c, 400)
  /\ UNCHANGED <<sessions, records>>

\* A cursor never issued is refused, but a WebSocket starts over.
ReadOffset(c) ==
  /\ At(c, "offset")
  /\ IF Request(c).after \in SessionOf(c).cursors
     THEN connections' = [connections EXCEPT ![c].pc = "slice", ![c].start = Request(c).after]
     ELSE IF Request(c).op = "ws" THEN Goto(c, "slice") ELSE Reply(c, 400)
  /\ UNCHANGED <<sessions, records>>

Least(m, n) == IF m < n THEN m ELSE n

\* Mutant: one message less than there is.
WindowShort(log, start, limit) ==
  SubSeq(log, start + 1, Least(start + limit, Len(log)) - 1)

Window(log, start, limit) == SubSeq(log, start + 1, Least(start + limit, Len(log)))

Slice(c) ==
  /\ At(c, "slice")
  /\ connections' = [connections EXCEPT
       ![c].pc = "cursor",
       ![c].delivered = Window(SessionOf(c).messages, connections[c].start,
                              Request(c).limit)]
  /\ UNCHANGED <<sessions, records>>

\* The end of the delivery, and the end of the chunk whose cursor is next.
End(c) == connections[c].start + Len(connections[c].delivered)

\* Mutant: the cursor of a chunk is the end of the log at that moment.
ChunkEndOfLog(c) == Len(SessionOf(c).messages)

ChunkEnd(c) ==
  LET issued == connections[c].issued
      before == IF issued = <<>> THEN connections[c].start ELSE issued[Len(issued)] IN
  IF Request(c).op = "stream" THEN Least(before + 2, End(c)) ELSE End(c)

IssueCursor(c) ==
  LET offset == ChunkEnd(c) IN
  /\ At(c, "cursor")
  /\ SetSession(c, [SessionOf(c) EXCEPT !.cursors = @ \cup {offset}])
  /\ connections' = [connections EXCEPT
       ![c].issued = Append(@, offset),
       ![c].status = IF Request(c).op = "ws" THEN 101 ELSE 200,
       ![c].pc = IF offset >= End(c) THEN "reply" ELSE "cursor"]
  /\ UNCHANGED records

-----------------------------------------------------------------------------
(* GET .../head *)

HeadId(c) ==
  LET log == SessionOf(c).messages IN
  /\ At(c, "head_id")
  /\ IF log = <<>> THEN Reply(c, 200)
     ELSE connections' = [connections EXCEPT ![c].pc = "head_hash",
                                            ![c].head_id = log[Len(log)].id]
  /\ UNCHANGED <<sessions, records>>

HeadHash(c) ==
  LET log == SessionOf(c).messages IN
  /\ At(c, "head_hash")
  /\ connections' = [connections EXCEPT ![c].pc = "reply", ![c].status = 200,
                                       ![c].head_hash = log[Len(log)].hash]
  /\ UNCHANGED <<sessions, records>>

-----------------------------------------------------------------------------
(* The end of a request. *)

SendReply(c) ==
  /\ At(c, "reply")
  /\ records' = Append(records, connections[c])
  /\ connections' = [connections EXCEPT ![c] = None]
  /\ UNCHANGED sessions

Init ==
  /\ sessions = [s \in Sessions |-> None]
  /\ connections = [c \in Connections |-> None]
  /\ records = <<>>

\* What a handler does by itself, and all it does: the rest waits for the client
\* to send its frame or to take its answer.
Step(c) ==
  \/ PostClosed(c) \/ PostExisting(c) \/ PostRecord(c) \/ PostAppend(c)
  \/ AckCheck(c) \/ AckStore(c) \/ Close(c)
  \/ PollExpired(c) \/ ReadOffset(c) \/ Slice(c) \/ IssueCursor(c)
  \/ HeadId(c) \/ HeadHash(c)

Move(c) == Step(c) \/ ReadFrame(c) \/ SendReply(c)

Next == \E c \in Connections : Move(c) \/ \E r \in Requests : Receive(c, r)

\* A handler thread that can run does run.  The server sets no timeout on its
\* sockets: a client may never send its request or its frame, nor read.
Fairness == \A c \in Connections : WF_vars(Step(c))

Spec == Init /\ [][Next]_vars /\ Fairness

-----------------------------------------------------------------------------
(* Properties *)

Open == {s \in Sessions : sessions[s] # None}

\* Sessions, handlers and records hold values of their types.
TypeOK ==
  /\ sessions \in [Sessions -> Session \cup {None}]
  /\ connections \in [Connections -> Handler \cup {None}]
  /\ records \in Seq(Handler)

\* The replies to the requests `op` of session s, and the log of s by id.
RepliesTo(op, s) == {i \in 1 .. Len(records) : records[i].request.op = op
                                              /\ records[i].request.session = s}

Logged(s) == {sessions[s].messages[k].id : k \in 1 .. Len(sessions[s].messages)}

\* Receivers deduplicate by message id: no id is twice in a session's log.
Deduplicated ==
  \A s \in Open : \A i, j \in 1 .. Len(sessions[s].messages) :
    sessions[s].messages[i].id = sessions[s].messages[j].id => i = j

\* A client told that its message was accepted, first or as a replay, finds it
\* in the log of that very session; and only one try is a first acceptance.
AcceptanceIsTrue ==
  \A s \in Open : \A i \in RepliesTo("post", s) :
    /\ records[i].status \in {200, 202} => records[i].request.message.id \in Logged(s)
    /\ \A j \in RepliesTo("post", s) :
         /\ records[i].request.message.id = records[j].request.message.id
         /\ records[i].status = 202 /\ records[j].status = 202
         => i = j

\* A delivery is a contiguous piece of the log that starts at its cursor, and
\* the cursors it hands out end at pieces of it, the last one at its end:
\* following cursors neither skips nor repeats a message.
DeliveriesAreContiguous ==
  \A s \in Open : \A op \in {"poll", "stream", "ws"} : \A i \in RepliesTo(op, s) :
    LET r == records[i]
        end == r.start + Len(r.delivered) IN
    r.status \in {101, 200} =>
      /\ r.delivered = SubSeq(sessions[s].messages, r.start + 1, end)
      /\ r.issued # <<>> /\ r.issued[Len(r.issued)] = end
      /\ \A k \in 1 .. Len(r.issued) : r.start <= r.issued[k] /\ r.issued[k] <= end

\* What was acknowledged to a sender before a receiver asked is delivered to
\* the receiver, unless its limit was reached.
AcceptedIsDelivered ==
  \A s \in Open : \A i \in RepliesTo("post", s) :
    \A op \in {"poll", "stream", "ws"} : \A j \in RepliesTo(op, s) :
      LET r == records[j]
          end == r.start + Len(r.delivered) IN
      /\ records[i].status = 202 /\ r.status \in {101, 200} /\ r.began >= i
      /\ Len(r.delivered) < r.request.limit
      => \E k \in 1 .. end :
           /\ k <= Len(sessions[s].messages)
           /\ sessions[s].messages[k].id = records[i].request.message.id

\* Nothing posted after the reply to a close is accepted.
LateIsRefused ==
  \A s \in Open : \A i \in RepliesTo("close", s), j \in RepliesTo("post", s) :
    records[i].status = 204 /\ records[j].began >= i => records[j].status \notin {200, 202}

\* The head endpoint answers with one message of the log, not parts of two.
HeadIsSnapshot ==
  \A s \in Open : \A i \in RepliesTo("head", s) :
    records[i].head_id # None =>
      \E k \in 1 .. Len(sessions[s].messages) :
        sessions[s].messages[k] = [id |-> records[i].head_id, hash |-> records[i].head_hash]

\* A handler that does not wait for its own client comes to an answer, however
\* long other clients stay silent and whether or not there is news to deliver:
\* no handler waits for another one, for a lock or for more messages.
HandlersAnswer ==
  \A c \in Connections :
    connections[c] # None /\ ~At(c, "frame") ~> connections[c] = None \/ At(c, "reply")
=============================================================================
