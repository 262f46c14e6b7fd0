--------------------------- MODULE HttpLive_proofs ---------------------------
(***************************************************************************)
(* Theorems about the live server, for any sessions, messages, requests    *)
(* and any number of connections and of requests.                          *)
(***************************************************************************)
EXTENDS HttpLive, SequenceTheorems, TLAPS

\* The operations that a step serves.
Served(h) ==
  /\ h.pc \in {"post_closed", "post_existing", "post_record", "post_append"}
     => h.request.op = "post"
  /\ h.pc \in {"ack_check", "ack_store"} => h.request.op = "ack"
  /\ h.pc = "close" => h.request.op = "close"
  /\ h.pc = "poll_expired" => h.request.op = "poll_expired"
  /\ h.pc = "frame" => h.request.op \in {"ws", "ws_overload"}
  /\ h.pc \in {"offset", "slice", "cursor"} => h.request.op \in {"poll", "stream", "ws"}
  /\ h.pc \in {"head_id", "head_hash"} => h.request.op = "head"

\* A handler that has steps to do does them for a session that exists, and
\* one that reads the last message has seen that there is one.
Placed(h) ==
  h.pc # "reply" =>
    /\ h.request.op # "create"
    /\ sessions[h.request.session] # None
    /\ Served(h)
    /\ h.pc = "head_hash" => sessions[h.request.session].messages # <<>>

Placement == \A c \in Connections : connections[c] # None => Placed(connections[c])

TypeInv == TypeOK /\ Placement

-----------------------------------------------------------------------------
(* Requests and handlers have the fields of their operation. *)

LEMMA RequestFields ==
  ASSUME NEW r \in Targeted \cup Create \cup Post
  PROVE  /\ r.op = "post" => r \in Post /\ r.session \in Sessions /\ r.message \in Message
         /\ r.op \notin {"post", "create"} =>
              r \in Targeted /\ r.session \in Sessions /\ r.after \in Nat /\ r.limit \in Nat \ {0}
         /\ r.op # "create" => r.session \in Sessions
         /\ r.op \in {"ack", "close", "poll", "poll_expired", "stream", "stream_overload", "ws",
                      "ws_overload", "head", "overload", "unknown", "create", "post"}
  BY DEF Targeted, Create, Post

\* What is known of the handler of a connection at a step of its own.
LEMMA AtStep ==
  ASSUME TypeInv, NEW c \in Connections, NEW pc, At(c, pc)
  PROVE  /\ connections[c] \in Handler /\ connections[c].pc = pc
         /\ Request(c) \in Targeted \cup Create \cup Post
         /\ pc # "reply" =>
              /\ Request(c).op # "create" /\ Request(c).session \in Sessions
              /\ SessionOf(c) \in Session /\ Request(c).session \in Open
              /\ Served(connections[c])
<1>1. connections[c] \in Handler /\ connections[c].pc = pc /\ Placed(connections[c])
  BY DEF TypeInv, TypeOK, Placement, At
<1>2. Request(c) \in Targeted \cup Create \cup Post
  BY <1>1 DEF Handler, Request
<1>3. ASSUME pc # "reply"
      PROVE  Request(c).op # "create" /\ sessions[Request(c).session] # None /\ Served(connections[c])
  BY <1>1, <1>3 DEF Placed, Request
<1>4. ASSUME pc # "reply" PROVE Request(c).session \in Sessions
  BY <1>2, <1>3, <1>4, RequestFields
<1> QED BY <1>1, <1>2, <1>3, <1>4 DEF TypeInv, TypeOK, SessionOf, Open

\* A write to one connection leaves the others alone.
LEMMA Write ==
  ASSUME TypeOK, NEW c \in Connections, NEW h \in Handler \cup {None},
         connections' = [connections EXCEPT ![c] = h]
  PROVE  /\ connections' \in [Connections -> Handler \cup {None}]
         /\ connections'[c] = h
         /\ \A d \in Connections \ {c} : connections'[d] = connections[d]
  BY DEF TypeOK

\* Goto and Reply as writes of a whole handler.
LEMMA Moves ==
  ASSUME TypeOK, NEW c \in Connections, connections[c] \in Handler, NEW pc, NEW status
  PROVE  /\ Goto(c, pc) => connections' = [connections EXCEPT ![c] = [connections[c] EXCEPT !.pc = pc]]
         /\ Reply(c, status) => connections' =
              [connections EXCEPT ![c] = [connections[c] EXCEPT !.pc = "reply", !.status = status]]
  BY DEF TypeOK, Goto, Reply

-----------------------------------------------------------------------------
(* Typing *)

\* One handler is written, to something placed, and the sessions are kept but
\* for the one of the handler, whose log does not get shorter.
LEMMA WriteKeepsType ==
  ASSUME TypeInv, NEW c \in Connections, NEW h \in Handler \cup {None},
         connections' = [connections EXCEPT ![c] = h],
         UNCHANGED sessions, UNCHANGED records,
         h # None => Placed(h)
  PROVE  TypeInv'
<1>1. TypeOK'
  BY Write DEF TypeInv, TypeOK
<1>2. ASSUME NEW d \in Connections, connections'[d] # None
      PROVE  Placed(connections[d])'
  BY <1>2, Write DEF TypeInv, TypeOK, Placement, Placed, Served
<1> QED BY <1>1, <1>2 DEF TypeInv, Placement

LEMMA SessionKeepsType ==
  ASSUME TypeInv, NEW c \in Connections, NEW h \in Handler, NEW session \in Session,
         connections[c] # None, connections[c].pc # "reply",
         connections' = [connections EXCEPT ![c] = h],
         SetSession(c, session), UNCHANGED records,
         h.request = Request(c),
         SessionOf(c).messages # <<>> => session.messages # <<>>,
         h.pc # "reply" => Served(h) /\ h.pc # "head_hash"
  PROVE  TypeInv'
<1>1. At(c, connections[c].pc)
  BY DEF At
<1>2. /\ Request(c) \in Targeted \cup Create \cup Post
      /\ Request(c).op # "create" /\ Request(c).session \in Sessions
  BY <1>1, AtStep
<1>3. sessions' = [sessions EXCEPT ![Request(c).session] = session]
  BY DEF SetSession
<1>4. session # None
  BY HttpLiveAssumption
<1>5. TypeOK'
  BY <1>2, <1>3, Write DEF TypeInv, TypeOK
<1>6. ASSUME NEW d \in Connections, connections'[d] # None
      PROVE  Placed(connections[d])'
  <2>1. CASE d = c
    <3>1. connections'[d] = h /\ sessions'[h.request.session] = session
      BY <2>1, <1>2, <1>3, Write DEF TypeInv, TypeOK
    <3> QED BY <3>1, <1>2, <1>4 DEF Placed, Served
  <2>2. CASE d # c
    <3>1. connections'[d] = connections[d] /\ Placed(connections[d])
      BY <2>2, <1>6, Write DEF TypeInv, Placement
    <3> QED BY <3>1, <1>2, <1>3, <1>4 DEF TypeInv, TypeOK, Placed, Served, SessionOf
  <2> QED BY <2>1, <2>2
<1> QED BY <1>5, <1>6 DEF TypeInv, Placement

LEMMA ReceiveKeepsType ==
  ASSUME TypeInv, NEW c \in Connections, NEW r \in Requests, Receive(c, r)
  PROVE  TypeInv'
<1> DEFINE Begun(pc, status) ==
      [request |-> r, began |-> Len(records), pc |-> pc, status |-> status,
       start |-> 0, delivered |-> <<>>, issued |-> <<>>,
       head_id |-> None, head_hash |-> None]
<1>1. r \in Targeted \cup Create \cup Post /\ Len(records) \in Nat
  BY HttpLiveAssumption DEF TypeInv, TypeOK
<1>2. UNCHANGED records /\ connections[c] = None
  BY DEF Receive
<1>3. CASE Immediate(r) # 0 /\ Begin(c, r, "reply", Immediate(r)) /\ UNCHANGED sessions
  <2>1. Immediate(r) \in Nat
    BY DEF Immediate
  <2>2. Begun("reply", Immediate(r)) \in Handler
    BY <1>1, <2>1 DEF Handler
  <2>3. connections' = [connections EXCEPT ![c] = Begun("reply", Immediate(r))]
    BY <1>3 DEF Begin
  <2> HIDE DEF Begun
  <2>4. Placed(Begun("reply", Immediate(r)))
    BY DEF Placed, Begun
  <2> QED BY <1>2, <1>3, <2>2, <2>3, <2>4, WriteKeepsType
<1>4. CASE r.op = "create" /\ CreateSession(c, r)
  <2>1. PICK s \in Sessions : sessions[s] = None /\ sessions' = [sessions EXCEPT ![s] = NewSession]
    BY <1>4 DEF CreateSession
  <2>2. NewSession \in Session
    BY DEF NewSession, Session
  <2>3. Begun("reply", 201) \in Handler
    BY <1>1 DEF Handler
  <2>4. connections' = [connections EXCEPT ![c] = Begun("reply", 201)]
    BY <1>4 DEF CreateSession, Begin
  <2>5. TypeOK'
    BY <1>2, <2>1, <2>2, <2>3, <2>4 DEF TypeInv, TypeOK
  <2>6. ASSUME NEW d \in Connections, connections'[d] # None
        PROVE  Placed(connections[d])'
    <3>1. CASE d = c
      BY <2>3, <2>4, <3>1 DEF TypeInv, TypeOK, Placed
    <3>2. CASE d # c
      <4>1. connections'[d] = connections[d] /\ Placed(connections[d])
        BY <2>3, <2>4, <2>6, <3>2 DEF TypeInv, TypeOK, Placement
      <4>2. connections[d].request.session # s \/ connections[d].pc = "reply"
        BY <2>1, <4>1 DEF Placed
      <4> QED BY <2>1, <4>1, <4>2 DEF TypeInv, TypeOK, Placed, Served
    <3> QED BY <3>1, <3>2
  <2> QED BY <2>5, <2>6 DEF TypeInv, Placement
<1>5. CASE Immediate(r) = 0 /\ r.op # "create" /\ Begin(c, r, FirstStep[r.op], 0) /\ UNCHANGED sessions
  <2>1. /\ sessions[r.session] # None
        /\ r.op \in {"post", "ack", "close", "poll", "poll_expired", "stream", "ws", "ws_overload", "head"}
    BY <1>1, <1>5, RequestFields DEF Immediate
  <2>2. /\ Begun(FirstStep[r.op], 0) \in Handler
        /\ Placed(Begun(FirstStep[r.op], 0))
    BY <1>1, <1>5, <2>1 DEF Handler, Placed, Served, FirstStep
  <2>3. connections' = [connections EXCEPT ![c] = Begun(FirstStep[r.op], 0)]
    BY <1>5 DEF Begin
  <2> HIDE DEF Begun
  <2> QED BY <1>2, <1>5, <2>2, <2>3, WriteKeepsType
<1> QED BY <1>3, <1>4, <1>5 DEF Receive

LEMMA PostKeepsType ==
  ASSUME TypeInv, NEW c \in Connections,
         PostClosed(c) \/ PostExisting(c) \/ PostRecord(c) \/ PostAppend(c)
  PROVE  TypeInv'
<1> DEFINE h == connections[c]
           To(pc) == [h EXCEPT !.pc = pc]
           Answered(status) == [h EXCEPT !.pc = "reply", !.status = status]
<1>1. PICK pc \in {"post_closed", "post_existing", "post_record", "post_append"} : At(c, pc)
  BY DEF PostClosed, PostExisting, PostRecord, PostAppend
<1>2. /\ h \in Handler /\ h # None /\ h.pc # "reply" /\ h.request = Request(c)
      /\ Request(c).op = "post" /\ Request(c).message \in Message
      /\ SessionOf(c) \in Session /\ Placed(h)
  BY <1>1, AtStep, RequestFields DEF At, Served, Request, TypeInv, Placement
<1>3. ASSUME NEW status \in Nat
      PROVE  Answered(status) \in Handler /\ Placed(Answered(status)) /\ Answered(status).request = Request(c)
  BY <1>2 DEF Handler, Placed
<1>4. ASSUME NEW next \in {"post_existing", "post_record", "post_append"}
      PROVE  /\ To(next) \in Handler /\ Placed(To(next)) /\ To(next).request = Request(c)
             /\ Served(To(next)) /\ To(next).pc # "head_hash"
  BY <1>2 DEF Handler, Placed, Served
<1>5. /\ \A next : Goto(c, next) => connections' = [connections EXCEPT ![c] = To(next)]
      /\ \A status : Reply(c, status) => connections' = [connections EXCEPT ![c] = Answered(status)]
  BY <1>2, Moves DEF TypeInv
<1> HIDE DEF To, Answered
<1>6. CASE PostClosed(c) \/ PostExisting(c)
  <2>1. /\ UNCHANGED <<sessions, records>>
        /\ \/ \E status \in Nat : Reply(c, status)
           \/ Goto(c, "post_existing") \/ Goto(c, "post_record")
    BY <1>6 DEF PostClosed, PostExisting
  <2> QED BY <2>1, <1>3, <1>4, <1>5, WriteKeepsType
<1>7. CASE PostRecord(c)
  <2>1. [SessionOf(c) EXCEPT !.message_ids = @ \cup {Request(c).message.id}] \in Session
    BY <1>2 DEF Session, Message
  <2> QED BY <2>1, <1>2, <1>4, <1>5, <1>7, SessionKeepsType DEF PostRecord, Session
<1>8. CASE PostAppend(c)
  <2> DEFINE log == Append(SessionOf(c).messages, Request(c).message)
  <2>1. log \in Seq(Message) /\ log # <<>>
    BY <1>2 DEF Session
  <2> DEFINE session == [SessionOf(c) EXCEPT !.messages = log]
  <2>2. session \in Session /\ session.messages # <<>>
    BY <1>2, <2>1 DEF Session
  <2>3. Answered(202).pc = "reply"
    BY <1>2 DEF Handler, Answered
  <2>4. UNCHANGED records /\ Reply(c, 202) /\ SetSession(c, session)
    BY <1>8 DEF PostAppend
  <2>5. connections' = [connections EXCEPT ![c] = Answered(202)] /\ Answered(202) \in Handler
        /\ Answered(202).request = Request(c)
    BY <2>4, <1>3, <1>5
  <2> HIDE DEF log, session
  <2> QED BY <2>2, <2>3, <2>4, <2>5, <1>2, SessionKeepsType
<1> QED BY <1>6, <1>7, <1>8

LEMMA AckKeepsType ==
  ASSUME TypeInv, NEW c \in Connections, AckCheck(c) \/ AckStore(c) \/ Close(c)
  PROVE  TypeInv'
<1> DEFINE h == connections[c]
           Answered(status) == [h EXCEPT !.pc = "reply", !.status = status]
           Stored == [h EXCEPT !.pc = "ack_store"]
<1>1. PICK pc \in {"ack_check", "ack_store", "close"} : At(c, pc)
  BY DEF AckCheck, AckStore, Close
<1>2. /\ h \in Handler /\ h # None /\ h.pc = pc /\ h.request = Request(c)
      /\ pc # "close" => Request(c).op = "ack" /\ Request(c).after \in Nat
      /\ SessionOf(c) \in Session /\ Placed(h)
  BY <1>1, AtStep, RequestFields DEF At, Served, Request, TypeInv, Placement
<1>3. \A status \in Nat : /\ Answered(status) \in Handler /\ Placed(Answered(status))
                           /\ Answered(status).request = Request(c) /\ Answered(status).pc = "reply"
  BY <1>2 DEF Handler, Placed
<1>4. \A status : Reply(c, status) => connections' = [connections EXCEPT ![c] = Answered(status)]
  BY <1>2, Moves DEF TypeInv
<1>5. CASE AckCheck(c)
  <2>1. CASE Goto(c, "ack_store")
    <3>1. Request(c).op = "ack" /\ h.pc = "ack_check"
      BY <1>2, <1>5 DEF AckCheck, At
    <3>2. Stored \in Handler
      BY <1>2 DEF Handler
    <3>3. Placed(Stored)
      BY <1>2, <3>1 DEF Handler, Placed, Served
    <3>4. connections' = [connections EXCEPT ![c] = Stored]
      BY <2>1, <1>2, Moves DEF TypeInv
    <3> QED BY <3>2, <3>3, <3>4, <1>5, WriteKeepsType DEF AckCheck
  <2>2. CASE Reply(c, 409)
    <3> HIDE DEF Answered
    <3> QED BY <2>2, <1>3, <1>4, <1>5, WriteKeepsType DEF AckCheck
  <2> QED BY <2>1, <2>2, <1>5 DEF AckCheck
<1>6. CASE AckStore(c) \/ Close(c)
  <2>1. PICK session \in Session :
          SetSession(c, session) /\ session.messages = SessionOf(c).messages
    <3>1. CASE AckStore(c)
      <4>1. [SessionOf(c) EXCEPT !.ack = Request(c).after] \in Session
        BY <1>2, <3>1 DEF Session, AckStore, At
      <4> QED BY <4>1, <1>2, <3>1 DEF AckStore, Session
    <3>2. CASE Close(c)
      <4>1. [SessionOf(c) EXCEPT !.closed = TRUE] \in Session
        BY <1>2 DEF Session
      <4> QED BY <4>1, <1>2, <3>2 DEF Close, Session
    <3> QED BY <1>6, <3>1, <3>2
  <2>2. UNCHANGED records /\ Reply(c, 204)
    BY <1>6 DEF AckStore, Close
  <2> HIDE DEF Answered
  <2> QED BY <2>1, <2>2, <1>2, <1>3, <1>4, SessionKeepsType
<1> QED BY <1>5, <1>6

\* The window of a log is a piece of it.
LEMMA WindowIsPiece ==
  ASSUME NEW S, NEW log \in Seq(S), NEW start \in Nat, NEW limit \in Nat
  PROVE  /\ Window(log, start, limit) \in Seq(S)
         /\ Len(Window(log, start, limit)) =
              IF start < Len(log) THEN Least(limit, Len(log) - start) ELSE 0
         /\ Window(log, start, limit) = SubSeq(log, start + 1, start + Len(Window(log, start, limit)))
<1> DEFINE n == Least(start + limit, Len(log))
<1>1. n \in Nat /\ n <= Len(log) /\ (n = start + limit \/ n = Len(log)) /\ n <= start + limit
  BY DEF Least
<1>2. Window(log, start, limit) \in Seq(S)
  BY <1>1, SubSeqProperties DEF Window
<1>3. Len(Window(log, start, limit)) = IF start + 1 <= n THEN n - start ELSE 0
  BY <1>1, SubSeqProperties DEF Window
<1>4. (IF start + 1 <= n THEN n - start ELSE 0)
        = IF start < Len(log) THEN Least(limit, Len(log) - start) ELSE 0
  BY <1>1 DEF Least
<1>5. ASSUME start + 1 <= n
      PROVE  Window(log, start, limit) = SubSeq(log, start + 1, start + Len(Window(log, start, limit)))
  <2>1. start + Len(Window(log, start, limit)) = n
    BY <1>1, <1>3, <1>5
  <2> QED BY <2>1 DEF Window
<1>6. ASSUME ~(start + 1 <= n)
      PROVE  Window(log, start, limit) = SubSeq(log, start + 1, start + Len(Window(log, start, limit)))
  <2>1. Window(log, start, limit) = << >>
    BY <1>1, <1>6, SubSeqEmpty DEF Window
  <2>2. SubSeq(log, start + 1, start + 0) = << >>
    BY SubSeqEmpty
  <2>3. Len(<< >>) = 0
    OBVIOUS
  <2> QED BY <2>1, <2>2, <2>3
<1> QED BY <1>2, <1>3, <1>4, <1>5, <1>6

\* What is known of a handler that delivers.
LEMMA Delivering ==
  ASSUME TypeInv, NEW c \in Connections, NEW pc \in {"offset", "slice", "cursor"}, At(c, pc)
  PROVE  /\ connections[c] \in Handler /\ Placed(connections[c]) /\ connections[c].pc = pc
         /\ Request(c).op \in {"poll", "stream", "ws"}
         /\ Request(c).after \in Nat /\ Request(c).limit \in Nat \ {0}
         /\ SessionOf(c) \in Session /\ SessionOf(c).messages \in Seq(Message)
         /\ ChunkEnd(c) \in Nat /\ End(c) \in Nat
<1>1. /\ connections[c] \in Handler /\ Placed(connections[c]) /\ connections[c].pc = pc
      /\ Request(c) \in Targeted \cup Create \cup Post
      /\ Request(c).op \in {"poll", "stream", "ws"}
      /\ SessionOf(c) \in Session
  BY AtStep DEF At, Served, TypeInv, Placement, Request
<1>2. Request(c).after \in Nat /\ Request(c).limit \in Nat \ {0}
  BY <1>1, RequestFields
<1>3. SessionOf(c).messages \in Seq(Message)
  BY <1>1 DEF Session
<1>4. End(c) \in Nat
  BY <1>1 DEF End, Handler
<1>5. ChunkEnd(c) \in Nat
  <2> DEFINE issued == connections[c].issued
             before == IF issued = <<>> THEN connections[c].start ELSE issued[Len(issued)]
  <2>1. before \in Nat
    BY <1>1 DEF Handler
  <2>2. ChunkEnd(c) = IF Request(c).op = "stream" THEN Least(before + 2, End(c)) ELSE End(c)
    BY DEF ChunkEnd
  <2> HIDE DEF before
  <2> QED BY <1>4, <2>1, <2>2 DEF Least
<1> QED BY <1>1, <1>2, <1>3, <1>4, <1>5

LEMMA DeliveryKeepsType ==
  ASSUME TypeInv, NEW c \in Connections,
         PollExpired(c) \/ ReadFrame(c) \/ ReadOffset(c) \/ Slice(c) \/ IssueCursor(c)
  PROVE  TypeInv'
<1> DEFINE h == connections[c]
           Answered(status) == [h EXCEPT !.pc = "reply", !.status = status]
<1>1. PICK pc \in {"poll_expired", "frame", "offset", "slice", "cursor"} : At(c, pc)
  BY DEF PollExpired, ReadFrame, ReadOffset, Slice, IssueCursor
<1>2. /\ h \in Handler /\ h # None /\ h.pc = pc /\ h.request = Request(c)
      /\ SessionOf(c) \in Session /\ Placed(h) /\ Served(h)
  BY <1>1, AtStep DEF At, Request, TypeInv, Placement
<1>3. \A status \in Nat : /\ Answered(status) \in Handler /\ Placed(Answered(status))
                           /\ Answered(status).request = Request(c) /\ Answered(status).pc = "reply"
  BY <1>2 DEF Handler, Placed
<1>4. \A status : Reply(c, status) => connections' = [connections EXCEPT ![c] = Answered(status)]
  BY <1>2, Moves DEF TypeInv
<1>5. \A offset \in Nat : [SessionOf(c) EXCEPT !.cursors = @ \cup {offset}] \in Session
  BY <1>2 DEF Session
<1>6. CASE PollExpired(c)
  <2> DEFINE status == 410
             issued == <<1>>
             new == [h EXCEPT !.pc = "reply", !.status = status, !.issued = issued]
  <2>1. status \in Nat /\ issued \in Seq(Nat)
    OBVIOUS
  <2>2. connections' = [connections EXCEPT ![c] = new]
    <3>1. connections' = [connections EXCEPT ![c].pc = "reply", ![c].status = status, ![c].issued = issued]
      BY <1>6 DEF PollExpired
    <3> HIDE DEF status, issued
    <3> QED BY <3>1, <1>2 DEF TypeInv, TypeOK, Handler
  <2>4. new \in Handler /\ new.pc = "reply" /\ new.request = Request(c)
    <3> HIDE DEF status, issued
    <3> QED BY <2>1, <1>2 DEF Handler
  <2>3. PICK session \in Session : SetSession(c, session) /\ session.messages = SessionOf(c).messages
    BY <1>2, <1>5, <1>6 DEF PollExpired, Session
  <2>5. h.pc # "reply" /\ UNCHANGED records
    BY <1>2, <1>6 DEF PollExpired
  <2> HIDE DEF new
  <2> QED BY <1>2, <2>2, <2>3, <2>4, <2>5, SessionKeepsType
<1>7. CASE ReadFrame(c)
  <2>1. UNCHANGED <<sessions, records>> /\ h.pc = "frame"
    BY <1>2, <1>7 DEF ReadFrame, At
  <2>2. CASE connections' = [connections EXCEPT ![c] = None]
    BY <2>1, <2>2, WriteKeepsType
  <2>3. CASE Reply(c, 101)
    <3> HIDE DEF Answered
    <3> QED BY <2>1, <2>3, <1>3, <1>4, WriteKeepsType
  <2>4. CASE Goto(c, "offset") /\ Request(c).op # "ws_overload"
    <3> DEFINE new == [h EXCEPT !.pc = "offset"]
    <3>1. new \in Handler /\ Placed(new)
      BY <2>1, <2>4, <1>2 DEF Handler, Placed, Served
    <3>2. connections' = [connections EXCEPT ![c] = new]
      BY <2>4, <1>2, Moves DEF TypeInv
    <3> HIDE DEF new
    <3> QED BY <2>1, <3>1, <3>2, WriteKeepsType
  <2> QED BY <1>7, <2>2, <2>3, <2>4 DEF ReadFrame
<1>8. CASE ReadOffset(c)
  <2>1. UNCHANGED <<sessions, records>> /\ h.pc = "offset" /\ Request(c).after \in Nat
    BY <1>2, <1>8, Delivering DEF ReadOffset, At
  <2>2. CASE Reply(c, 400)
    <3> HIDE DEF Answered
    <3> QED BY <2>1, <2>2, <1>3, <1>4, WriteKeepsType
  <2>3. ASSUME NEW start \in Nat,
               connections' = [connections EXCEPT ![c] = [h EXCEPT !.pc = "slice", !.start = start]]
        PROVE  TypeInv'
    <3> DEFINE new == [h EXCEPT !.pc = "slice", !.start = start]
    <3>1. new \in Handler /\ Placed(new)
      BY <2>1, <1>2 DEF Handler, Placed, Served
    <3> HIDE DEF new
    <3>2. connections' = [connections EXCEPT ![c] = new]
      BY <2>3 DEF new
    <3> QED BY <2>1, <3>1, <3>2, WriteKeepsType
  <2>4. CASE Goto(c, "slice")
    <3>1. connections' = [connections EXCEPT ![c] = [h EXCEPT !.pc = "slice", !.start = h.start]]
      BY <2>4, <1>2 DEF Goto, TypeInv, TypeOK, Handler
    <3>2. h.start \in Nat
      BY <1>2 DEF Handler
    <3> QED BY <2>3, <3>1, <3>2
  <2>5. CASE connections' = [connections EXCEPT ![c].pc = "slice", ![c].start = Request(c).after]
    <3>1. connections' = [connections EXCEPT ![c] = [h EXCEPT !.pc = "slice", !.start = Request(c).after]]
      BY <2>5, <1>2 DEF TypeInv, TypeOK
    <3> QED BY <2>1, <2>3, <3>1
  <2> QED BY <1>8, <2>2, <2>4, <2>5 DEF ReadOffset
<1>9. CASE Slice(c)
  <2> DEFINE piece == Window(SessionOf(c).messages, h.start, Request(c).limit)
             new == [h EXCEPT !.pc = "cursor", !.delivered = piece]
  <2>1. At(c, "slice") /\ h.start \in Nat
    BY <1>2, <1>9 DEF Slice, Handler
  <2>2. piece \in Seq(Message)
    BY <2>1, Delivering, WindowIsPiece
  <2>3. new \in Handler /\ Placed(new)
    BY <2>1, <2>2, <1>2 DEF At, Handler, Placed, Served
  <2>4. connections' = [connections EXCEPT ![c] = new]
    BY <1>2, <1>9 DEF Slice, TypeInv, TypeOK
  <2> HIDE DEF new
  <2> QED BY <2>3, <2>4, <1>9, WriteKeepsType DEF Slice
<1>10. CASE IssueCursor(c)
  <2> DEFINE pc2 == IF ChunkEnd(c) >= End(c) THEN "reply" ELSE "cursor"
             status == IF Request(c).op = "ws" THEN 101 ELSE 200
             issued == Append(h.issued, ChunkEnd(c))
             new == [h EXCEPT !.pc = pc2, !.status = status, !.issued = issued]
  <2>1. At(c, "cursor") /\ ChunkEnd(c) \in Nat
    BY <1>10, Delivering DEF IssueCursor
  <2>2. new \in Handler /\ new.request = Request(c) /\ Served(new) /\ new.pc # "head_hash"
    <3>1. pc2 \in {"reply", "cursor"} /\ status \in Nat /\ issued \in Seq(Nat)
      BY <2>1, <1>2 DEF Handler
    <3>2. Request(c).op \in {"poll", "stream", "ws"}
      BY <2>1, Delivering
    <3> HIDE DEF pc2, status, issued
    <3> QED BY <3>1, <3>2, <1>2 DEF Handler, Served
  <2>3. connections' = [connections EXCEPT ![c] = new]
    <3>1. connections' = [connections EXCEPT ![c].issued = issued, ![c].status = status, ![c].pc = pc2]
      BY <1>10 DEF IssueCursor
    <3> HIDE DEF pc2, status, issued
    <3> QED BY <3>1, <1>2 DEF TypeInv, TypeOK, Handler
  <2>4. PICK session \in Session : SetSession(c, session) /\ session.messages = SessionOf(c).messages
    BY <1>2, <1>5, <1>10, <2>1 DEF IssueCursor, Session
  <2>5. h.pc # "reply"
    BY <2>1 DEF At
  <2> HIDE DEF new
  <2> QED BY <1>2, <1>10, <2>2, <2>3, <2>4, <2>5, SessionKeepsType DEF IssueCursor
<1> QED BY <1>6, <1>7, <1>8, <1>9, <1>10

LEMMA LastMessage ==
  ASSUME NEW log \in Seq(Message), log # <<>>
  PROVE  log[Len(log)].id \in MessageIds /\ log[Len(log)].hash \in Hashes
<1>1. log[Len(log)] \in Message
  OBVIOUS
<1> QED BY <1>1 DEF Message

LEMMA HeadKeepsType ==
  ASSUME TypeInv, NEW c \in Connections, HeadId(c) \/ HeadHash(c) \/ SendReply(c)
  PROVE  TypeInv'
<1> DEFINE h == connections[c]
           log == SessionOf(c).messages
           Answered(status) == [h EXCEPT !.pc = "reply", !.status = status]
<1>1. PICK pc \in {"head_id", "head_hash", "reply"} : At(c, pc)
  BY DEF HeadId, HeadHash, SendReply
<1>2. h \in Handler /\ h # None /\ h.pc = pc /\ h.request = Request(c) /\ Placed(h)
  BY <1>1, AtStep DEF At, Request, TypeInv, Placement
<1>3. pc # "reply" => SessionOf(c) \in Session /\ log \in Seq(Message) /\ Served(h)
  BY <1>1, AtStep DEF Session
<1>4. \A status \in Nat : Answered(status) \in Handler /\ Placed(Answered(status))
  BY <1>2 DEF Handler, Placed
<1>5. CASE HeadId(c)
  <2>1. h.pc = "head_id" /\ pc # "reply" /\ UNCHANGED <<sessions, records>>
    BY <1>2, <1>5 DEF HeadId, At
  <2>2. CASE Reply(c, 200)
    <3>1. \A status : Reply(c, status) => connections' = [connections EXCEPT ![c] = Answered(status)]
      BY <1>2, Moves DEF TypeInv
    <3> HIDE DEF Answered
    <3> QED BY <3>1, <2>1, <2>2, <1>4, WriteKeepsType
  <2>3. CASE log # <<>> /\ connections' = [connections EXCEPT ![c].pc = "head_hash",
                                                            ![c].head_id = log[Len(log)].id]
    <3> DEFINE id == log[Len(log)].id
               new == [h EXCEPT !.pc = "head_hash", !.head_id = id]
    <3>1. id \in MessageIds
      BY <1>3, <2>1, <2>3, LastMessage
    <3>2. connections' = [connections EXCEPT ![c].pc = "head_hash", ![c].head_id = id]
      BY <2>3
    <3>3. sessions[h.request.session].messages # <<>>
      BY <2>3, <1>2 DEF SessionOf
    <3> HIDE DEF id
    <3>4. new \in Handler
      BY <3>1, <1>2 DEF Handler
    <3>5. Placed(new)
      BY <3>3, <2>1, <1>2 DEF Handler, Placed, Served
    <3>6. connections' = [connections EXCEPT ![c] = new]
      BY <3>2, <1>2 DEF TypeInv, TypeOK, Handler
    <3> HIDE DEF new
    <3> QED BY <3>4, <3>5, <3>6, <1>5, WriteKeepsType DEF HeadId
  <2> QED BY <1>5, <2>2, <2>3 DEF HeadId
<1>6. CASE HeadHash(c)
  <2> DEFINE hash == log[Len(log)].hash
             status == 200
             new == [h EXCEPT !.pc = "reply", !.status = status, !.head_hash = hash]
  <2>1. h.pc = "head_hash" /\ pc # "reply"
    BY <1>2, <1>6 DEF HeadHash, At
  <2>2. hash \in Hashes
    BY <2>1, <1>2, <1>3, LastMessage DEF Placed, SessionOf
  <2>3. connections' = [connections EXCEPT ![c].pc = "reply", ![c].status = 200, ![c].head_hash = hash]
    BY <1>6 DEF HeadHash
  <2> HIDE DEF hash
  <2>4. status \in Nat /\ connections' = [connections EXCEPT ![c].pc = "reply", ![c].status = status, ![c].head_hash = hash]
    BY <2>3
  <2> HIDE DEF status
  <2>5. new \in Handler
    BY <2>2, <2>4, <1>2 DEF Handler
  <2>6. Placed(new)
    BY <1>2 DEF Handler, Placed
  <2>7. connections' = [connections EXCEPT ![c] = new]
    BY <2>4, <1>2 DEF TypeInv, TypeOK, Handler
  <2> HIDE DEF new
  <2> QED BY <2>5, <2>6, <2>7, <1>6, WriteKeepsType DEF HeadHash
<1>7. CASE SendReply(c)
  <2>1. records' \in Seq(Handler) /\ connections' = [connections EXCEPT ![c] = None] /\ UNCHANGED sessions
    BY <1>2, <1>7 DEF SendReply, TypeInv, TypeOK
  <2>2. TypeOK'
    BY <2>1 DEF TypeInv, TypeOK
  <2>3. ASSUME NEW d \in Connections, connections'[d] # None
        PROVE  Placed(connections[d])'
    BY <2>1, <2>3 DEF TypeInv, TypeOK, Placement, Placed, Served
  <2> QED BY <2>2, <2>3 DEF TypeInv, Placement
<1> QED BY <1>5, <1>6, <1>7

LEMMA TypeStep ==
  ASSUME TypeInv, [Next]_vars
  PROVE  TypeInv'
<1>1. CASE UNCHANGED vars
  BY <1>1 DEF vars, TypeInv, TypeOK, Placement, Placed, Served
<1>2. CASE Next
  BY <1>2, ReceiveKeepsType, PostKeepsType, AckKeepsType, DeliveryKeepsType, HeadKeepsType
     DEF Next, Move, Step
<1> QED BY <1>1, <1>2

LEMMA TypeInit ==
  ASSUME Init
  PROVE  TypeInv
BY DEF Init, TypeInv, TypeOK, Placement

(* Sessions, handlers and records keep their types, and no handler works on  *)
(* a session that does not exist or reads the last message of an empty log.  *)
THEOREM Typing == Spec => []TypeOK
<1>1. Init => TypeInv
  BY TypeInit
<1>2. TypeInv /\ [Next]_vars => TypeInv'
  BY TypeStep
<1>3. TypeInv => TypeOK
  BY DEF TypeInv
<1> QED BY <1>1, <1>2, <1>3, PTL DEF Spec

-----------------------------------------------------------------------------
(* What a handler, and the record that it becomes, may rely on. Sessions and *)
(* records only grow, so whatever is true of a handler stays true of its     *)
(* record: each fact is established by one step and kept by all.             *)

Stores(h) == h.request.op = "post" /\ h.status = 202
Accepts(h) == h.request.op = "post" /\ h.status \in {200, 202}
Shuts(h) == h.request.op = "close" /\ h.status = 204
Delivers(h) == h.request.op \in {"poll", "stream", "ws"} /\ h.status \in {101, 200}

\* The messages to deliver have been read from the log.
Sliced(h) ==
  h.request.op \in {"poll", "stream", "ws"} /\ (h.pc = "cursor" \/ (h.pc = "reply" /\ Delivers(h)))

Log(h) == sessions[h.request.session].messages
HasLog(h) == sessions[h.request.session] # None

\* A stored message is in the log, and a session that was closed is closed.
Stored(h) == Stores(h) => HasLog(h) /\ \E k \in 1 .. Len(Log(h)) : Log(h)[k].id = h.request.message.id
Shut(h) == Shuts(h) => HasLog(h) /\ sessions[h.request.session].closed

\* No close of its session had been answered when the post began.
Timely(h) == \A i \in 1 .. h.began :
  ~(Shuts(records[i]) /\ records[i].request.session = h.request.session)

\* What is delivered is a piece of the log, with cursors inside it, and holds
\* all that had been stored when the delivery began, if its limit allows.
Last(h) == h.start + Len(h.delivered)
Piece(h) ==
  /\ HasLog(h)
  /\ h.delivered = SubSeq(Log(h), h.start + 1, Last(h))
  /\ Len(h.delivered) = 0 \/ Last(h) <= Len(Log(h))
Inside(h) == \A k \in 1 .. Len(h.issued) : h.start <= h.issued[k] /\ h.issued[k] <= Last(h)
Covers(h) ==
  Len(h.delivered) < h.request.limit =>
    \A i \in 1 .. h.began :
      Stores(records[i]) /\ records[i].request.session = h.request.session =>
        \E k \in 1 .. Last(h) : k <= Len(Log(h)) /\ Log(h)[k].id = records[i].request.message.id

Fact(h) ==
  /\ h.began <= Len(records)
  /\ h.pc = "reply" => Stored(h) /\ Shut(h)
  /\ h.pc \in {"post_existing", "post_record", "post_append"} \/ (h.pc = "reply" /\ Accepts(h))
     => Timely(h)
  /\ h.pc \in {"frame", "offset", "slice"} => h.issued = <<>>
  /\ Sliced(h) => Piece(h) /\ Inside(h) /\ Covers(h)
  /\ h.pc = "reply" /\ Delivers(h) => h.issued # <<>> /\ h.issued[Len(h.issued)] = Last(h)

HandlerFacts == \A c \in Connections : \A h \in Handler : connections[c] = h => Fact(h)
RecordFacts == \A j \in 1 .. Len(records) : \A h \in Handler :
  records[j] = h => h.pc = "reply" /\ h.began < j /\ Fact(h)

FactInv == TypeInv /\ HandlerFacts /\ RecordFacts

\* Logs and records get longer at their ends, and closed sessions stay closed.
SessionGrows(s) ==
  sessions[s] # None =>
    /\ sessions'[s] # None
    /\ \/ sessions'[s].messages = sessions[s].messages
       \/ \E m \in Message : sessions'[s].messages = Append(sessions[s].messages, m)
    /\ sessions[s].closed => sessions'[s].closed
RecordsGrow ==
  /\ Len(records) <= Len(records')
  /\ \A i \in 1 .. Len(records) : records'[i] = records[i]

LEMMA Growth ==
  ASSUME TypeInv, [Next]_vars
  PROVE  (\A s \in Sessions : SessionGrows(s)) /\ RecordsGrow
<1>1. CASE UNCHANGED vars
  BY <1>1 DEF vars, SessionGrows, RecordsGrow
<1>2. ASSUME NEW c \in Connections, NEW r \in Requests, Receive(c, r)
      PROVE  (\A s \in Sessions : SessionGrows(s)) /\ RecordsGrow
  <2>1. CASE UNCHANGED sessions
    BY <1>2, <2>1 DEF Receive, SessionGrows, RecordsGrow
  <2>2. CASE CreateSession(c, r)
    <3>1. PICK s \in Sessions : sessions[s] = None /\ sessions' = [sessions EXCEPT ![s] = NewSession]
      BY <2>2 DEF CreateSession
    <3> QED BY <3>1, <1>2 DEF Receive, SessionGrows, RecordsGrow, TypeInv, TypeOK
  <2> QED BY <1>2, <2>1, <2>2 DEF Receive
<1>3. ASSUME NEW c \in Connections, Move(c)
      PROVE  (\A s \in Sessions : SessionGrows(s)) /\ RecordsGrow
  <2>1. CASE UNCHANGED <<sessions, records>>
    BY <2>1 DEF SessionGrows, RecordsGrow
  <2>2. CASE SendReply(c)
    <3>1. UNCHANGED sessions /\ records' = Append(records, connections[c]) /\ connections[c] \in Handler
      BY <2>2, AtStep DEF SendReply
    <3>2. RecordsGrow
      BY <3>1 DEF RecordsGrow, TypeInv, TypeOK
    <3> QED BY <3>1, <3>2 DEF SessionGrows
  <2>3. ASSUME NEW pc, At(c, pc), pc # "reply", UNCHANGED records, NEW session \in Session,
               SetSession(c, session), SessionOf(c).closed => session.closed,
               \/ session.messages = SessionOf(c).messages
               \/ \E m \in Message : session.messages = Append(SessionOf(c).messages, m)
        PROVE  (\A s \in Sessions : SessionGrows(s)) /\ RecordsGrow
    <3>1. /\ Request(c).session \in Sessions /\ session # None
          /\ sessions' = [sessions EXCEPT ![Request(c).session] = session]
      BY <2>3, AtStep, HttpLiveAssumption DEF SetSession
    <3> QED BY <3>1, <2>3 DEF SessionGrows, RecordsGrow, TypeInv, TypeOK, SessionOf
  <2>4. \A pc : At(c, pc) /\ pc # "reply" => SessionOf(c) \in Session
    BY AtStep
  <2>5. CASE PostRecord(c)
    <3> DEFINE session == [SessionOf(c) EXCEPT !.message_ids = @ \cup {Request(c).message.id}]
    <3>1. Request(c).message \in Message
      BY <2>5, AtStep, RequestFields DEF PostRecord, Served, Request, At
    <3>2. session \in Session /\ session.messages = SessionOf(c).messages /\ session.closed = SessionOf(c).closed
      BY <3>1, <2>4, <2>5 DEF PostRecord, Session, Message
    <3> QED BY <3>2, <2>3, <2>5 DEF PostRecord
  <2>6. CASE PostAppend(c)
    <3> DEFINE log == Append(SessionOf(c).messages, Request(c).message)
               session == [SessionOf(c) EXCEPT !.messages = log]
    <3>1. Request(c).message \in Message
      BY <2>6, AtStep, RequestFields DEF PostAppend, Served, Request, At
    <3>2. SessionOf(c) \in Session /\ log \in Seq(Message)
      BY <3>1, <2>4, <2>6 DEF PostAppend, Session
    <3>3. session \in Session /\ session.messages = log /\ session.closed = SessionOf(c).closed
      BY <3>2 DEF Session
    <3>4. At(c, "post_append") /\ SetSession(c, session) /\ UNCHANGED records
      BY <2>6 DEF PostAppend
    <3>5. \E m \in Message : log = Append(SessionOf(c).messages, m)
      BY <3>1
    <3> HIDE DEF session, log
    <3> QED BY <3>3, <3>4, <3>5, <2>3
  <2>7. CASE AckStore(c) \/ Close(c)
    <3>1. CASE AckStore(c)
      <4>1. Request(c).after \in Nat
        BY <3>1, AtStep, RequestFields DEF AckStore, Served, Request, At
      <4>2. [SessionOf(c) EXCEPT !.ack = Request(c).after] \in Session
        BY <4>1, <3>1, <2>4 DEF AckStore, Session
      <4> QED BY <4>2, <3>1, <2>3, <2>4 DEF AckStore, Session
    <3>2. CASE Close(c)
      <4>1. [SessionOf(c) EXCEPT !.closed = TRUE] \in Session
        BY <3>2, <2>4 DEF Close, Session
      <4> QED BY <4>1, <3>2, <2>3, <2>4 DEF Close, Session
    <3> QED BY <2>7, <3>1, <3>2
  <2>8. CASE PollExpired(c) \/ IssueCursor(c)
    <3>1. PICK offset \in Nat, pc \in {"poll_expired", "cursor"} :
            At(c, pc) /\ SetSession(c, [SessionOf(c) EXCEPT !.cursors = @ \cup {offset}])
            /\ UNCHANGED records
      BY <2>8, Delivering DEF PollExpired, IssueCursor
    <3>2. [SessionOf(c) EXCEPT !.cursors = @ \cup {offset}] \in Session
      BY <3>1, <2>4 DEF Session
    <3> QED BY <3>1, <3>2, <2>3, <2>4 DEF Session
  <2> QED BY <1>3, <2>1, <2>2, <2>5, <2>6, <2>7, <2>8
          DEF Move, Step, PostClosed, PostExisting, AckCheck, ReadFrame, ReadOffset, Slice, HeadId, HeadHash
<1> QED BY <1>1, <1>2, <1>3 DEF Next

\* A piece of a log is the same piece of a longer one.
LEMMA PieceKept ==
  ASSUME NEW log \in Seq(Message), NEW longer \in Seq(Message), Len(log) <= Len(longer),
         \A k \in 1 .. Len(log) : longer[k] = log[k],
         NEW start \in Nat, NEW n \in Nat, n = 0 \/ start + n <= Len(log)
  PROVE  SubSeq(longer, start + 1, start + n) = SubSeq(log, start + 1, start + n)
<1>1. CASE n = 0
  BY <1>1, SubSeqEmpty
<1>2. CASE start + n <= Len(log)
  <2> DEFINE p == SubSeq(log, start + 1, start + n)
             q == SubSeq(longer, start + 1, start + n)
  <2>1. p \in Seq(Message) /\ q \in Seq(Message) /\ Len(p) = Len(q)
        /\ \A i \in 1 .. n : p[i] = log[start + i] /\ q[i] = longer[start + i]
    <3>1. \A i \in start + 1 .. start + n : log[i] \in Message /\ longer[i] \in Message
      BY <1>2
    <3> QED BY <3>1, SubSeqProperties
  <2>2. Len(p) = n
    BY SubSeqProperties, <1>2
  <2>3. \A i \in 1 .. n : p[i] = q[i]
    <3> TAKE i \in 1 .. n
    <3>1. p[i] = log[start + i] /\ q[i] = longer[start + i]
      BY <2>1
    <3>2. start + i \in 1 .. Len(log)
      BY <1>2
    <3> HIDE DEF p, q
    <3> QED BY <3>1, <3>2
  <2> HIDE DEF p, q
  <2>4. p = q
    BY <2>1, <2>2, <2>3, SeqEqual
  <2> QED BY <2>4 DEF p, q
<1> QED BY <1>1, <1>2

\* What is in a log stays where it is.
LEMMA LogGrows ==
  ASSUME TypeInv, [Next]_vars, NEW h \in Handler, h.request.session \in Sessions, HasLog(h)
  PROVE  /\ HasLog(h)' /\ Log(h) \in Seq(Message) /\ Log(h)' \in Seq(Message)
         /\ Len(Log(h)) <= Len(Log(h)')
         /\ \A k \in 1 .. Len(Log(h)) : Log(h)'[k] = Log(h)[k]
         /\ sessions[h.request.session].closed => sessions'[h.request.session].closed
<1>1. SessionGrows(h.request.session)
  BY Growth
<1>2. sessions[h.request.session] \in Session
  BY DEF HasLog, TypeInv, TypeOK
<1> DEFINE session == sessions[h.request.session]
           next == sessions'[h.request.session]
<1>3. session.messages \in Seq(Message)
  BY <1>2 DEF Session
<1>4. next # None /\ (session.closed => next.closed)
      /\ \/ next.messages = session.messages
         \/ \E m \in Message : next.messages = Append(session.messages, m)
  BY <1>1 DEF SessionGrows, HasLog
<1> HIDE DEF session, next
<1>5. /\ next.messages \in Seq(Message) /\ Len(session.messages) <= Len(next.messages)
      /\ \A k \in 1 .. Len(session.messages) : next.messages[k] = session.messages[k]
  BY <1>3, <1>4
<1> QED BY <1>3, <1>4, <1>5 DEF session, next, HasLog, Log

\* A fact, once established, stays.
LEMMA FactStable ==
  ASSUME TypeInv, [Next]_vars, NEW h \in Handler, Fact(h)
  PROVE  Fact(h)'
<1>1. RecordsGrow /\ Len(records) \in Nat /\ Len(records') \in Nat
  BY Growth, TypeStep DEF TypeInv, TypeOK
<1>2. h.request \in Targeted \cup Create \cup Post /\ h.began \in Nat /\ h.start \in Nat
      /\ h.delivered \in Seq(Message)
  BY DEF Handler
<1>3. h.request.op # "create" => h.request.session \in Sessions
  BY <1>2, RequestFields
<1>4. Stored(h) => Stored(h)'
  BY <1>3, LogGrows DEF Stored, Stores
<1>5. Shut(h) => Shut(h)'
  BY <1>3, LogGrows DEF Shut, Shuts
<1>6. h.began <= Len(records) /\ Timely(h) => Timely(h)'
  BY <1>1, <1>2 DEF RecordsGrow, Timely
<1>7. ASSUME Piece(h), h.request.op # "create" PROVE Piece(h)'
  <2>1. HasLog(h)' /\ Log(h) \in Seq(Message) /\ Log(h)' \in Seq(Message)
        /\ Len(Log(h)) <= Len(Log(h)')
        /\ \A k \in 1 .. Len(Log(h)) : Log(h)'[k] = Log(h)[k]
    BY <1>3, <1>7, LogGrows DEF Piece
  <2>2. Last(h) \in Nat /\ Len(h.delivered) \in Nat
    BY <1>2 DEF Last
  <2>3. SubSeq(Log(h)', h.start + 1, h.start + Len(h.delivered))
          = SubSeq(Log(h), h.start + 1, h.start + Len(h.delivered))
    <3>1. Len(h.delivered) = 0 \/ h.start + Len(h.delivered) <= Len(Log(h))
      BY <1>7 DEF Piece, Last
    <3> QED BY <3>1, <2>1, <2>2, <1>2, PieceKept, ZenonT(30)
  <2>4. Len(h.delivered) = 0 \/ h.start + Len(h.delivered) <= Len(Log(h)')
    BY <1>2, <1>7, <2>1, <2>2 DEF Piece, Last
  <2> QED BY <1>7, <2>1, <2>3, <2>4 DEF Piece, Last
<1>8. ASSUME h.began <= Len(records), HasLog(h), h.request.op # "create", Covers(h)
      PROVE  Covers(h)'
  <2>1. Len(Log(h)) <= Len(Log(h)') /\ Log(h) \in Seq(Message) /\ Log(h)' \in Seq(Message)
        /\ \A k \in 1 .. Len(Log(h)) : Log(h)'[k] = Log(h)[k]
    BY <1>3, <1>8, LogGrows
  <2>2. \A i \in 1 .. h.began : records'[i] = records[i]
    BY <1>1, <1>2, <1>8 DEF RecordsGrow
  <2>3. Last(h) \in Nat
    BY <1>2 DEF Last
  <2> SUFFICES ASSUME Len(h.delivered) < h.request.limit,
                      NEW i \in 1 .. h.began, Stores(records'[i]),
                      records'[i].request.session = h.request.session
               PROVE  \E k \in 1 .. Last(h) :
                        k <= Len(Log(h)') /\ Log(h)'[k].id = records'[i].request.message.id
    BY DEF Covers, Last, Stores
  <2>4. records'[i] = records[i]
    BY <2>2
  <2>5. PICK k \in 1 .. Last(h) :
               k <= Len(Log(h)) /\ Log(h)[k].id = records[i].request.message.id
    BY <1>8, <2>4 DEF Covers
  <2>6. k \in 1 .. Len(Log(h)) /\ k <= Len(Log(h)')
    BY <2>1, <2>3, <2>5
  <2> QED BY <2>1, <2>4, <2>5, <2>6
<1>9. h.began <= Len(records) => h.began <= Len(records')
  BY <1>1, <1>2 DEF RecordsGrow
<1>10. Sliced(h) => (Piece(h) /\ Inside(h) /\ Covers(h))'
  <2> HAVE Sliced(h)
  <2>1. Piece(h) /\ Inside(h) /\ Covers(h) /\ h.began <= Len(records) /\ HasLog(h)
    BY DEF Fact, Piece
  <2>2. h.request.op # "create"
    BY DEF Sliced
  <2>3. Inside(h)'
    BY <2>1 DEF Inside, Last
  <2> QED BY <2>1, <2>2, <2>3, <1>7, <1>8
<1> QED BY <1>4, <1>5, <1>6, <1>9, <1>10 DEF Fact, Accepts, Delivers, Sliced, Last

\* One handler is written, and what it then relies on is so.
Establishes(c) ==
  \E h \in Handler \cup {None} :
    /\ connections' = [connections EXCEPT ![c] = h]
    /\ UNCHANGED records
    /\ h # None => Fact(h)'

\* Most handlers rely on nothing.
LEMMA Quiet ==
  ASSUME NEW h \in Handler, h.began <= Len(records), UNCHANGED records, ~Sliced(h),
         h.pc \notin {"post_existing", "post_record", "post_append"},
         h.pc = "reply" => ~Accepts(h) /\ ~Shuts(h),
         h.pc \in {"frame", "offset", "slice"} => h.issued = <<>>
  PROVE  Fact(h)'
<1>1. h.pc = "reply" => ~Stores(h) /\ ~Delivers(h)
  BY DEF Stores, Accepts, Delivers, Sliced
<1> QED BY <1>1 DEF Fact, Stored, Stores, Shut, Shuts, Accepts, Delivers, Sliced

LEMMA FactReceive ==
  ASSUME FactInv, NEW c \in Connections, NEW r \in Requests, Receive(c, r)
  PROVE  Establishes(c)
<1>1. PICK n \in Nat : n = Len(records)
  BY DEF FactInv, TypeInv, TypeOK
<1> DEFINE Begun(pc, status) ==
      [request |-> r, began |-> n, pc |-> pc, status |-> status,
       start |-> 0, delivered |-> <<>>, issued |-> <<>>,
       head_id |-> None, head_hash |-> None]
<1>2. r \in Targeted \cup Create \cup Post /\ UNCHANGED records
  BY HttpLiveAssumption DEF Receive
<1>3. ASSUME NEW pc, NEW status \in Nat,
             pc \in {"reply", "post_closed", "ack_check", "close", "offset", "poll_expired",
                    "frame", "head_id"},
             Begin(c, r, pc, status),
             pc = "reply" => \/ status \notin {101, 200, 202, 204}
                             \/ r.op = "stream_overload" /\ status = 200
      PROVE  Establishes(c)
  <2> DEFINE new == Begun(pc, status)
  <2>1. new \in Handler /\ new # None
    <3>1. new \in Handler
      BY <1>2, <1>3 DEF Handler
    <3> QED BY <3>1, HttpLiveAssumption
  <2>2. connections' = [connections EXCEPT ![c] = new]
    BY <1>1, <1>3 DEF Begin
  <2>3. /\ new.began <= Len(records) /\ ~Sliced(new)
        /\ new.pc \notin {"post_existing", "post_record", "post_append"}
        /\ new.pc = "reply" => ~Accepts(new) /\ ~Shuts(new)
        /\ new.issued = <<>>
    BY <1>1, <1>3 DEF Sliced, Accepts, Shuts, Delivers
  <2> HIDE DEF new
  <2>4. Fact(new)'
    BY <1>2, <2>1, <2>3, Quiet
  <2> QED BY <1>2, <2>1, <2>2, <2>4 DEF Establishes
<1>4. CASE Immediate(r) # 0 /\ Begin(c, r, "reply", Immediate(r))
  <2>1. PICK status \in Nat : status = Immediate(r)
    BY DEF Immediate
  <2>2. status \notin {101, 200, 202, 204} \/ (r.op = "stream_overload" /\ status = 200)
    BY <2>1 DEF Immediate
  <2> QED BY <2>1, <2>2, <1>3, <1>4
<1>5. CASE r.op = "create" /\ CreateSession(c, r)
  BY <1>3, <1>5 DEF CreateSession
<1>6. CASE Immediate(r) = 0 /\ r.op # "create" /\ Begin(c, r, FirstStep[r.op], 0)
  <2>1. r.op \in {"post", "ack", "close", "poll", "poll_expired", "stream", "ws", "ws_overload", "head"}
    BY <1>2, <1>6, RequestFields DEF Immediate
  <2>2. FirstStep[r.op] \in {"post_closed", "ack_check", "close", "offset", "poll_expired",
                             "frame", "head_id"}
    BY <2>1 DEF FirstStep
  <2> QED BY <2>2, <1>3, <1>6
<1> QED BY <1>4, <1>5, <1>6 DEF Receive

LEMMA FactQuietStep ==
  ASSUME FactInv, NEW c \in Connections,
         \/ AckCheck(c) \/ AckStore(c) \/ PollExpired(c) \/ ReadFrame(c) \/ ReadOffset(c)
         \/ HeadId(c) \/ HeadHash(c)
  PROVE  Establishes(c)
<1>1. PICK pc \in {"ack_check", "ack_store", "poll_expired", "frame", "offset", "head_id", "head_hash"} :
        At(c, pc)
  BY DEF AckCheck, AckStore, PollExpired, ReadFrame, ReadOffset, HeadId, HeadHash
<1>2. PICK h \in Handler : h = connections[c]
  BY <1>1, AtStep DEF FactInv
<1>3. /\ Fact(h) /\ h.request = Request(c) /\ h.pc = pc /\ Served(h) /\ UNCHANGED records
      /\ TypeInv'
  <2>1. UNCHANGED records
    BY DEF AckCheck, AckStore, PollExpired, ReadFrame, ReadOffset, HeadId, HeadHash
  <2>2. TypeInv'
    BY AckKeepsType, DeliveryKeepsType, HeadKeepsType DEF FactInv
  <2> QED BY <2>1, <2>2, <1>1, <1>2, AtStep DEF FactInv, HandlerFacts, At, Request
<1>4. PICK new \in Handler \cup {None} : new = connections'[c]
  BY <1>3 DEF TypeInv, TypeOK
<1>5. connections' = [connections EXCEPT ![c] = new]
  BY <1>4 DEF FactInv, TypeInv, TypeOK, AckCheck, AckStore, PollExpired, ReadFrame, ReadOffset, HeadId,
              HeadHash, Goto, Reply
<1>6. ASSUME new # None
      PROVE  /\ new.request = h.request /\ new.began = h.began
             /\ new.pc \in {"ack_store", "offset", "slice", "head_hash", "reply"}
             /\ new.pc \in {"offset", "slice"} => new.issued = h.issued
                                                /\ h.pc \in {"frame", "offset"}
             /\ new.pc = "reply" /\ h.request.op \in {"poll", "stream", "ws"} => new.status \in {400, 410}
  <2>1. CASE AckCheck(c) \/ AckStore(c)
    BY <1>2, <1>3, <1>4, <1>6, <2>1, SMTT(30)
       DEF FactInv, TypeInv, TypeOK, Handler, AckCheck, AckStore, Goto, Reply, At, Served
  <2>2. CASE PollExpired(c)
    BY <1>2, <1>3, <1>4, <1>6, <2>2, SMTT(30)
       DEF FactInv, TypeInv, TypeOK, Handler, PollExpired, Goto, Reply, At, Served
  <2>3. CASE ReadFrame(c)
    BY <1>2, <1>3, <1>4, <1>6, <2>3, SMTT(30)
       DEF FactInv, TypeInv, TypeOK, Handler, ReadFrame, Goto, Reply, At, Served
  <2>4. CASE ReadOffset(c)
    BY <1>2, <1>3, <1>4, <1>6, <2>4, SMTT(30)
       DEF FactInv, TypeInv, TypeOK, Handler, ReadOffset, Goto, Reply, At, Served
  <2>5. CASE HeadId(c) \/ HeadHash(c)
    BY <1>2, <1>3, <1>4, <1>6, <2>5, SMTT(30)
       DEF FactInv, TypeInv, TypeOK, Handler, HeadId, HeadHash, Goto, Reply, At, Served
  <2> QED BY <2>1, <2>2, <2>3, <2>4, <2>5
<1>7. ASSUME new # None PROVE Fact(new)'
  <2>1. new \in Handler /\ new.began <= Len(records) /\ new.request = Request(c)
    BY <1>3, <1>6, <1>7 DEF Fact
  <2>2. h.request.op \notin {"post", "close"}
    BY <1>3 DEF Served
  <2>3. /\ ~Sliced(new) /\ ~Accepts(new) /\ ~Shuts(new)
        /\ new.pc \in {"frame", "offset", "slice"} => new.issued = <<>>
    BY <1>3, <1>6, <1>7, <2>2 DEF Fact, Sliced, Accepts, Shuts, Delivers
  <2> QED BY <1>3, <1>6, <1>7, <2>1, <2>3, Quiet
<1> QED BY <1>3, <1>5, <1>7 DEF Establishes

\* A post that is let in began after no close; one that is stored is logged.
LEMMA FactPost ==
  ASSUME FactInv, NEW c \in Connections,
         PostClosed(c) \/ PostExisting(c) \/ PostRecord(c) \/ PostAppend(c)
  PROVE  Establishes(c)
<1>1. PICK pc \in {"post_closed", "post_existing", "post_record", "post_append"} : At(c, pc)
  BY DEF PostClosed, PostExisting, PostRecord, PostAppend
<1>2. PICK h \in Handler : h = connections[c]
  BY <1>1, AtStep DEF FactInv
<1>3. /\ h.request = Request(c) /\ h.pc = pc /\ h.request.op = "post" /\ SessionOf(c) \in Session
      /\ h.request.session \in Open /\ h.request.session \in Sessions /\ h.request.message \in Message
  BY <1>1, <1>2, AtStep, RequestFields DEF FactInv, At, Served, Request
<1>4. UNCHANGED records /\ Fact(h)
  BY <1>2 DEF PostClosed, PostExisting, PostRecord, PostAppend, FactInv, HandlerFacts
<1> DEFINE To(next) == [h EXCEPT !.pc = next]
           Answered(status) == [h EXCEPT !.pc = "reply", !.status = status]
<1>5. \A next : Goto(c, next) => connections' = [connections EXCEPT ![c] = To(next)]
  BY <1>2, Moves DEF FactInv, TypeInv
<1>6. \A status : Reply(c, status) => connections' = [connections EXCEPT ![c] = Answered(status)]
  BY <1>2, Moves DEF FactInv, TypeInv
<1>13. \A status \in Nat :
         /\ Answered(status) \in Handler /\ Answered(status).request = h.request
         /\ Answered(status).began = h.began /\ Answered(status).pc = "reply"
         /\ Answered(status).status = status
  BY <1>2 DEF Handler
<1> HIDE DEF Answered
<1>7. ASSUME NEW status \in Nat, Reply(c, status), status \notin {200, 202}
      PROVE  Establishes(c)
  <2> DEFINE new == Answered(status)
  <2>1. new \in Handler /\ new # None
    BY <1>13, HttpLiveAssumption
  <2>2. new.began <= Len(records) /\ ~Sliced(new) /\ ~Accepts(new) /\ ~Shuts(new) /\ new.pc = "reply"
    BY <1>3, <1>4, <1>7, <1>13 DEF Fact, Sliced, Accepts, Delivers, Shuts
  <2>3. connections' = [connections EXCEPT ![c] = new]
    BY <1>6, <1>7
  <2> HIDE DEF new
  <2>4. Fact(new)'
    BY <1>4, <2>1, <2>2, Quiet
  <2> QED BY <1>4, <2>1, <2>3, <2>4 DEF Establishes
<1>8. ASSUME NEW new \in Handler, new.request = h.request, new.began = h.began, Timely(h),
             connections' = [connections EXCEPT ![c] = new],
             new.pc \in {"post_existing", "post_record", "post_append", "reply"},
             new.pc = "reply" => Stored(new)'
      PROVE  Establishes(c)
  <2>1. Timely(new)'
    BY <1>4, <1>8 DEF Timely, Fact, Shuts
  <2>2. Fact(new)'
    BY <1>3, <1>4, <1>8, <2>1 DEF Fact, Sliced, Shut, Shuts, Delivers
  <2>3. new # None
    BY HttpLiveAssumption
  <2> QED BY <1>4, <1>8, <2>2 DEF Establishes
<1>9. CASE PostClosed(c)
  <2>1. CASE Reply(c, 409) \/ Reply(c, 400)
    BY <1>7, <2>1
  <2>2. CASE ~SessionOf(c).closed /\ Goto(c, "post_existing")
    <3> DEFINE new == To("post_existing")
    <3>1. Timely(h)
      <4>1. ASSUME NEW i \in 1 .. h.began, Shuts(records[i]), records[i].request.session = h.request.session
            PROVE  FALSE
        <5>1. i \in 1 .. Len(records) /\ records[i] \in Handler
          <6>1. h.began \in Nat /\ Len(records) \in Nat /\ h.began <= Len(records)
            BY <1>2, <1>4 DEF Fact, FactInv, TypeInv, TypeOK, Handler
          <6>2. i \in 1 .. Len(records)
            BY <6>1, <4>1
          <6> QED BY <6>2 DEF FactInv, TypeInv, TypeOK
        <5>2. Shut(records[i])
          BY <5>1 DEF FactInv, RecordFacts, Fact
        <5> QED BY <5>2, <4>1, <2>2, <1>3 DEF Shut, SessionOf
      <4> QED BY <4>1 DEF Timely
    <3>2. new \in Handler /\ new.request = h.request /\ new.began = h.began /\ new.pc = "post_existing"
      BY <1>2 DEF Handler
    <3>3. connections' = [connections EXCEPT ![c] = new]
      BY <1>5, <2>2
    <3> HIDE DEF new
    <3> QED BY <3>1, <3>2, <3>3, <1>8
  <2> QED BY <1>9, <2>1, <2>2 DEF PostClosed
<1>10. ASSUME pc # "post_closed" PROVE Timely(h)
  BY <1>3, <1>4, <1>10 DEF Fact
<1>11. CASE PostExisting(c) \/ PostRecord(c)
  <2>1. pc # "post_closed"
    BY <1>2, <1>3, <1>11 DEF PostExisting, PostRecord, At
  <2>2. ASSUME NEW next \in {"post_record", "post_append"}, Goto(c, next)
        PROVE  Establishes(c)
    <3> DEFINE new == To(next)
    <3>1. new \in Handler /\ new.request = h.request /\ new.began = h.began /\ new.pc = next
      BY <1>2 DEF Handler
    <3>2. connections' = [connections EXCEPT ![c] = new]
      BY <1>5, <2>2
    <3> HIDE DEF new
    <3> QED BY <2>1, <3>1, <3>2, <1>8, <1>10
  <2>3. ASSUME Reply(c, 200) PROVE Establishes(c)
    <3> DEFINE new == Answered(200)
    <3>1. new \in Handler /\ new.request = h.request /\ new.began = h.began /\ new.pc = "reply"
          /\ new.status = 200
      BY <1>13
    <3>2. connections' = [connections EXCEPT ![c] = new]
      BY <1>6, <2>3
    <3> HIDE DEF new
    <3>3. Stored(new)'
      BY <3>1 DEF Stored, Stores
    <3> QED BY <2>1, <3>1, <3>2, <3>3, <1>8, <1>10
  <2> QED BY <1>11, <2>2, <2>3 DEF PostExisting, PostRecord
<1>12. CASE PostAppend(c)
  <2> DEFINE log == Append(SessionOf(c).messages, Request(c).message)
             new == Answered(202)
  <2>1. pc = "post_append"
    BY <1>2, <1>3, <1>12 DEF PostAppend, At
  <2>2. sessions' = [sessions EXCEPT ![h.request.session] = [SessionOf(c) EXCEPT !.messages = log]]
    BY <1>3, <1>12 DEF PostAppend, SetSession
  <2>3. log \in Seq(Message) /\ Len(log) \in Nat \ {0} /\ log[Len(log)] = h.request.message
    <3>1. SessionOf(c).messages \in Seq(Message)
      BY <1>3 DEF Session
    <3> QED BY <3>1, <1>3
  <2>4. [SessionOf(c) EXCEPT !.messages = log] \in Session
    BY <1>3, <2>3 DEF Session
  <2>5. HasLog(h)' /\ Log(h)' = log
    <3>1. sessions'[h.request.session] = [SessionOf(c) EXCEPT !.messages = log]
      BY <1>3, <2>2 DEF FactInv, TypeInv, TypeOK
    <3>2. [SessionOf(c) EXCEPT !.messages = log].messages = log
      BY <1>3 DEF Session
    <3> QED BY <3>1, <3>2, <2>4, HttpLiveAssumption DEF HasLog, Log
  <2>6. \E k \in 1 .. Len(Log(h)') : Log(h)'[k].id = h.request.message.id
    BY <2>3, <2>5
  <2>7. new \in Handler /\ new.request = h.request /\ new.began = h.began /\ new.pc = "reply"
    BY <1>13
  <2>8. connections' = [connections EXCEPT ![c] = new]
    BY <1>6, <1>12 DEF PostAppend
  <2> HIDE DEF new
  <2>9. Stored(new)'
    BY <2>5, <2>6, <2>7 DEF Stored, HasLog, Log
  <2> QED BY <2>1, <2>7, <2>8, <2>9, <1>8, <1>10
<1> QED BY <1>9, <1>11, <1>12

\* A session whose close is answered is closed.
LEMMA FactClose ==
  ASSUME FactInv, NEW c \in Connections, Close(c)
  PROVE  Establishes(c)
<1>1. PICK h \in Handler : h = connections[c]
  BY AtStep DEF FactInv, Close
<1>2. /\ h.request = Request(c) /\ h.request.op = "close" /\ SessionOf(c) \in Session
      /\ h.request.session \in Sessions /\ h.pc = "close"
  BY <1>1, AtStep, RequestFields DEF Close, FactInv, At, Served, Request
<1>3. UNCHANGED records /\ Fact(h)
  BY <1>1 DEF Close, FactInv, HandlerFacts
<1> DEFINE Answered(status) == [h EXCEPT !.pc = "reply", !.status = status]
           session == [SessionOf(c) EXCEPT !.closed = TRUE]
<1>4. \A status \in Nat :
        /\ Answered(status) \in Handler /\ Answered(status).request = h.request
        /\ Answered(status).began = h.began /\ Answered(status).pc = "reply"
        /\ Answered(status).status = status
        /\ Reply(c, status) => connections' = [connections EXCEPT ![c] = Answered(status)]
  BY <1>1, Moves, ZenonT(30) DEF FactInv, TypeInv, Handler
<1> HIDE DEF Answered
<1> DEFINE new == Answered(204)
<1>5. new \in Handler /\ new.request = h.request /\ new.began = h.began /\ new.pc = "reply"
      /\ new.status = 204 /\ connections' = [connections EXCEPT ![c] = new]
  BY <1>4 DEF Close
<1>6. session \in Session /\ session.closed
  BY <1>2 DEF Session
<1>7. sessions'[h.request.session] = session
  BY <1>2 DEF Close, SetSession, FactInv, TypeInv, TypeOK
<1> HIDE DEF new, session
<1>8. Shut(new)'
  BY <1>5, <1>6, <1>7, HttpLiveAssumption DEF Shut, HasLog
<1>9. Fact(new)'
  BY <1>2, <1>3, <1>5, <1>8 DEF Fact, Stored, Stores, Accepts, Delivers, Sliced
<1> QED BY <1>3, <1>5, <1>9 DEF Establishes

\* A window that is shorter than its limit ends with the log.
LEMMA FactSlice ==
  ASSUME FactInv, NEW c \in Connections, Slice(c)
  PROVE  Establishes(c)
<1>1. PICK h \in Handler : h = connections[c]
  BY AtStep DEF FactInv, Slice
<1>2. /\ h.request = Request(c) /\ h.request.op \in {"poll", "stream", "ws"} /\ h.pc = "slice"
      /\ h.request.limit \in Nat \ {0} /\ SessionOf(c).messages \in Seq(Message)
      /\ h.start \in Nat /\ h.began \in Nat
  BY <1>1, Delivering DEF Slice, FactInv, At, Request, Handler
<1>3. UNCHANGED <<sessions, records>> /\ Fact(h)
  BY <1>1 DEF Slice, FactInv, HandlerFacts
<1>4. HasLog(h) /\ Log(h) = SessionOf(c).messages
  BY <1>1, <1>2, Delivering DEF Slice, FactInv, HasLog, Log, SessionOf, Placed
<1>5. PICK piece \in Seq(Message) : piece = Window(Log(h), h.start, h.request.limit)
  BY <1>2, <1>4, WindowIsPiece
<1>6. /\ Len(piece) \in Nat /\ Len(Log(h)) \in Nat
      /\ piece = SubSeq(Log(h), h.start + 1, h.start + Len(piece))
      /\ Len(piece) = IF h.start < Len(Log(h)) THEN Least(h.request.limit, Len(Log(h)) - h.start) ELSE 0
  <2>1. Log(h) \in Seq(Message) /\ h.request.limit \in Nat
    BY <1>2, <1>4
  <2> DEFINE log == Log(h)
             limit == h.request.limit
  <2> HIDE DEF log, limit
  <2>2. log \in Seq(Message) /\ limit \in Nat /\ h.start \in Nat /\ piece = Window(log, h.start, limit)
    BY <2>1, <1>2, <1>5 DEF log, limit
  <2>3. /\ Len(piece) = IF h.start < Len(log) THEN Least(limit, Len(log) - h.start) ELSE 0
        /\ piece = SubSeq(log, h.start + 1, h.start + Len(piece))
    BY <2>2, WindowIsPiece
  <2> QED BY <2>2, <2>3, <1>5 DEF log, limit
<1> DEFINE new == [h EXCEPT !.pc = "cursor", !.delivered = piece]
<1>7. /\ new \in Handler /\ new.request = h.request /\ new.began = h.began /\ new.pc = "cursor"
      /\ new.delivered = piece /\ new.start = h.start /\ new.issued = h.issued
  BY <1>1, <1>5 DEF Handler
<1>8. connections' = [connections EXCEPT ![c] = new]
  BY <1>1, <1>2, <1>4, <1>5 DEF Slice, FactInv, TypeInv, TypeOK
<1> HIDE DEF new
<1>9. Last(new) = h.start + Len(piece)
  BY <1>7 DEF Last
<1>10. Piece(new)'
  <2>1. Len(piece) = 0 \/ h.start + Len(piece) <= Len(Log(h))
    BY <1>2, <1>6 DEF Least
  <2> QED BY <2>1, <1>3, <1>4, <1>6, <1>7 DEF Piece, HasLog, Log, Last
<1>11. Covers(new)'
  <2> SUFFICES ASSUME Len(piece) < h.request.limit,
                      NEW i \in 1 .. h.began, Stores(records[i]),
                      records[i].request.session = h.request.session
               PROVE  \E k \in 1 .. h.start + Len(piece) :
                        k <= Len(Log(h)) /\ Log(h)[k].id = records[i].request.message.id
    BY <1>3, <1>7 DEF Covers, Stores, Last, Log
  <2>1. i \in 1 .. Len(records) /\ records[i] \in Handler
    <3>1. Len(records) \in Nat /\ h.began <= Len(records)
      BY <1>3 DEF Fact, FactInv, TypeInv, TypeOK
    <3>2. i \in 1 .. Len(records)
      BY <3>1, <1>2
    <3> QED BY <3>2 DEF FactInv, TypeInv, TypeOK
  <2>2. PICK k \in 1 .. Len(Log(h)) : Log(h)[k].id = records[i].request.message.id
    <3>1. Stored(records[i])
      BY <2>1 DEF FactInv, RecordFacts, Fact
    <3> QED BY <3>1 DEF Stored, Log
  <2>3. Len(Log(h)) <= h.start + Len(piece)
    BY <1>2, <1>6 DEF Least
  <2>4. k \in 1 .. h.start + Len(piece) /\ k <= Len(Log(h))
    BY <1>2, <1>6, <2>3
  <2> QED BY <2>2, <2>4
<1>12. Inside(new)'
  <2>1. h.issued = <<>>
    BY <1>2, <1>3 DEF Fact
  <2> QED BY <2>1, <1>7 DEF Inside
<1>13. Fact(new)'
  BY <1>2, <1>3, <1>7, <1>10, <1>11, <1>12 DEF Fact
<1>14. new # None
  BY <1>7, HttpLiveAssumption
<1> QED BY <1>3, <1>7, <1>8, <1>13 DEF Establishes

\* Cursors stay inside the delivery, and the last one is its end.
LEMMA FactIssue ==
  ASSUME FactInv, NEW c \in Connections, IssueCursor(c)
  PROVE  Establishes(c)
<1>1. PICK h \in Handler : h = connections[c]
  BY AtStep DEF FactInv, IssueCursor
<1>2. /\ h.request = Request(c) /\ h.request.op \in {"poll", "stream", "ws"} /\ h.pc = "cursor"
      /\ End(c) = Last(h) /\ ChunkEnd(c) \in Nat /\ Last(h) \in Nat /\ h.start \in Nat
      /\ h.issued \in Seq(Nat) /\ h.start <= Last(h) /\ h.request.session \in Sessions
      /\ SessionOf(c) \in Session
  <2>1. /\ h.request = Request(c) /\ h.request.op \in {"poll", "stream", "ws"} /\ h.pc = "cursor"
        /\ ChunkEnd(c) \in Nat /\ SessionOf(c) \in Session
    BY <1>1, Delivering DEF IssueCursor, FactInv, Request, At
  <2>2. End(c) = Last(h) /\ Last(h) \in Nat /\ h.start \in Nat /\ h.issued \in Seq(Nat)
        /\ h.start <= Last(h)
    BY <1>1 DEF End, Last, Handler
  <2>3. h.request.session \in Sessions
    BY <1>1, <2>1, RequestFields DEF Handler
  <2> QED BY <2>1, <2>2, <2>3
<1>3. UNCHANGED records /\ Fact(h) /\ Sliced(h)
  BY <1>1, <1>2 DEF IssueCursor, FactInv, HandlerFacts, Sliced
<1>4. Piece(h) /\ Inside(h) /\ Covers(h) /\ h.began <= Len(records) /\ HasLog(h)
  BY <1>3 DEF Fact, Piece
<1>5. PICK offset \in Nat : offset = ChunkEnd(c)
  BY <1>2
<1>6. h.start <= offset /\ offset <= Last(h)
  <2> DEFINE before == IF h.issued = <<>> THEN h.start ELSE h.issued[Len(h.issued)]
  <2>1. before \in Nat /\ h.start <= before
    BY <1>2, <1>4 DEF Inside
  <2>2. offset = IF h.request.op = "stream" THEN Least(before + 2, Last(h)) ELSE Last(h)
    BY <1>1, <1>2, <1>5 DEF ChunkEnd, Request
  <2> HIDE DEF before
  <2> QED BY <2>1, <2>2, <1>2 DEF Least
<1>7. PICK issued \in Seq(Nat) : issued = Append(h.issued, offset)
  BY <1>2, <1>5, AppendProperties
<1>8. PICK pc \in {"reply", "cursor"} : pc = IF offset >= Last(h) THEN "reply" ELSE "cursor"
  OBVIOUS
<1>9. PICK status \in Nat : status = IF h.request.op = "ws" THEN 101 ELSE 200
  OBVIOUS
<1> DEFINE new == [h EXCEPT !.issued = issued, !.status = status, !.pc = pc]
<1>10. /\ new \in Handler /\ new.request = h.request /\ new.began = h.began /\ new.pc = pc
       /\ new.delivered = h.delivered /\ new.start = h.start /\ new.issued = issued
  <2>1. issued \in Seq(Nat) /\ status \in Nat /\ (pc = "reply" \/ pc = "cursor")
    BY <1>7, <1>8, <1>9
  <2> QED BY <2>1, <1>1 DEF Handler
<1>11. connections' = [connections EXCEPT ![c] = new]
  <2>1. connections' = [connections EXCEPT ![c].issued = issued, ![c].status = status, ![c].pc = pc]
    BY <1>1, <1>2, <1>5, <1>7, <1>8, <1>9 DEF IssueCursor
  <2> QED BY <2>1, <1>1 DEF FactInv, TypeInv, TypeOK, Handler
<1> HIDE DEF new
<1>12. Piece(new)'
  <2>1. HasLog(h)' /\ Log(h)' = Log(h)
    <3>1. sessions' = [sessions EXCEPT ![h.request.session] =
                         [SessionOf(c) EXCEPT !.cursors = @ \cup {offset}]]
      BY <1>2, <1>5 DEF IssueCursor, SetSession
    <3>2. [SessionOf(c) EXCEPT !.cursors = @ \cup {offset}] \in Session
      BY <1>2 DEF Session
    <3> QED BY <3>1, <3>2, <1>2, HttpLiveAssumption
            DEF HasLog, Log, SessionOf, FactInv, TypeInv, TypeOK, Session
  <2> QED BY <2>1, <1>4, <1>10 DEF Piece, HasLog, Log, Last
<1>13. Inside(new)'
  <2>1. \A k \in 1 .. Len(issued) : h.start <= issued[k] /\ issued[k] <= Last(h)
    BY <1>2, <1>4, <1>6, <1>7 DEF Inside
  <2> QED BY <2>1, <1>10 DEF Inside, Last
<1>14. Covers(new)'
  <2>1. Log(h)' = Log(h)
    <3>1. [SessionOf(c) EXCEPT !.cursors = @ \cup {offset}].messages = SessionOf(c).messages
      BY <1>2 DEF Session
    <3> QED BY <3>1, <1>2, <1>5 DEF IssueCursor, SetSession, Log, SessionOf, FactInv, TypeInv, TypeOK
  <2>2. Log(new)' = Log(h) /\ Last(new) = Last(h)
    BY <2>1, <1>10 DEF Log, Last
  <2> SUFFICES ASSUME Len(h.delivered) < h.request.limit,
                      NEW i \in 1 .. h.began, Stores(records[i]),
                      records[i].request.session = h.request.session
               PROVE  \E k \in 1 .. Last(h) :
                        k <= Len(Log(h)) /\ Log(h)[k].id = records[i].request.message.id
    BY <1>3, <1>10, <2>2 DEF Covers, Stores, Last
  <2> QED BY <1>4 DEF Covers
<1>15. pc = "reply" => new.issued # <<>> /\ new.issued[Len(new.issued)] = Last(new)
  <2>1. pc = "reply" => offset = Last(h)
    BY <1>2, <1>6, <1>8
  <2>2. issued # <<>> /\ issued[Len(issued)] = offset
    BY <1>2, <1>7, SMTT(30)
  <2>3. new.issued = issued /\ Last(new) = Last(h)
    BY <1>10 DEF Last
  <2> QED BY <2>1, <2>2, <2>3
<1>16. Fact(new)'
  BY <1>2, <1>3, <1>8, <1>10, <1>12, <1>13, <1>14, <1>15
     DEF Fact, Stored, Stores, Shut, Shuts, Accepts, Last
<1>17. new # None
  BY <1>10, HttpLiveAssumption
<1> QED BY <1>3, <1>10, <1>11, <1>16 DEF Establishes

LEMMA FactStep ==
  ASSUME FactInv, [Next]_vars
  PROVE  FactInv'
<1>1. TypeInv' /\ \A h \in Handler : Fact(h) => Fact(h)'
  BY TypeStep, FactStable DEF FactInv
<1>2. CASE UNCHANGED vars
  BY <1>1, <1>2 DEF FactInv, HandlerFacts, RecordFacts, vars
<1>3. ASSUME NEW c \in Connections, Establishes(c) PROVE FactInv'
  <2>1. PICK new \in Handler \cup {None} :
          connections' = [connections EXCEPT ![c] = new] /\ UNCHANGED records
          /\ (new # None => Fact(new)')
    BY <1>3 DEF Establishes
  <2>2. HandlerFacts'
    <3> SUFFICES ASSUME NEW d \in Connections, NEW h \in Handler, connections'[d] = h
                 PROVE  Fact(h)'
      BY DEF HandlerFacts
    <3>1. CASE d = c
      BY <2>1, <3>1, HttpLiveAssumption DEF FactInv, TypeInv, TypeOK
    <3>2. CASE d # c
      <4>1. connections[d] = h
        BY <2>1, <3>2 DEF FactInv, TypeInv, TypeOK
      <4> QED BY <4>1, <1>1 DEF FactInv, HandlerFacts
    <3> QED BY <3>1, <3>2
  <2>3. RecordFacts'
    BY <2>1, <1>1 DEF FactInv, RecordFacts
  <2> QED BY <1>1, <2>2, <2>3 DEF FactInv
<1>4. ASSUME NEW c \in Connections, SendReply(c) PROVE FactInv'
  <2>1. PICK h \in Handler : h = connections[c]
    BY <1>4, AtStep DEF FactInv, SendReply
  <2>2. h.pc = "reply" /\ Fact(h) /\ Fact(h)'
    BY <1>1, <1>4, <2>1 DEF FactInv, HandlerFacts, SendReply, At
  <2>3. HandlerFacts'
    BY <1>1, <1>4, HttpLiveAssumption DEF FactInv, HandlerFacts, SendReply, TypeInv, TypeOK
  <2>4. RecordFacts'
    <3> SUFFICES ASSUME NEW j \in 1 .. Len(records'), NEW r \in Handler, records'[j] = r
                 PROVE  r.pc = "reply" /\ r.began < j /\ Fact(r)'
      BY DEF RecordFacts
    <3>1. records \in Seq(Handler) /\ records' = Append(records, h)
      BY <1>4, <2>1 DEF SendReply, FactInv, TypeInv, TypeOK
    <3>2. CASE j = Len(records) + 1
      <4>1. r = h /\ r.began \in Nat /\ r.began <= Len(records)
        BY <2>2, <3>1, <3>2 DEF Fact, Handler
      <4> QED BY <4>1, <2>2, <3>1, <3>2
    <3>3. CASE j # Len(records) + 1
      <4>1. j \in 1 .. Len(records) /\ records[j] = r
        BY <3>1, <3>3
      <4> QED BY <4>1, <1>1 DEF FactInv, RecordFacts
    <3> QED BY <3>2, <3>3
  <2> QED BY <1>1, <2>3, <2>4 DEF FactInv
<1>5. CASE Next
  BY <1>3, <1>4, <1>5, FactReceive, FactQuietStep, FactPost, FactClose, FactSlice, FactIssue
     DEF Next, Move, Step
<1> QED BY <1>2, <1>5

LEMMA FactHolds == Spec => []FactInv
<1>1. Init => FactInv
  BY TypeInit, HttpLiveAssumption DEF Init, FactInv, HandlerFacts, RecordFacts
<1>2. FactInv /\ [Next]_vars => FactInv'
  BY FactStep
<1> QED BY <1>1, <1>2, PTL DEF Spec

\* What the records of a session rely on.
LEMMA RecordFact ==
  ASSUME FactInv, NEW op, NEW s, NEW i \in RepliesTo(op, s)
  PROVE  /\ i \in 1 .. Len(records) /\ records[i] \in Handler /\ records[i].pc = "reply"
         /\ records[i].request.op = op /\ records[i].request.session = s
         /\ records[i].began < i /\ Fact(records[i])
<1>1. i \in 1 .. Len(records) /\ records[i].request.op = op /\ records[i].request.session = s
  BY DEF RepliesTo
<1>2. records[i] \in Handler
  BY <1>1 DEF FactInv, TypeInv, TypeOK
<1> QED BY <1>1, <1>2 DEF FactInv, RecordFacts

(* Once a close was answered, no post that arrives later is accepted.        *)
THEOREM Lateness == Spec => []LateIsRefused
<1>1. FactInv => LateIsRefused
  <2> SUFFICES ASSUME FactInv, NEW s \in Open,
                      NEW i \in RepliesTo("close", s), NEW j \in RepliesTo("post", s),
                      records[i].status = 204, records[j].began >= i,
                      records[j].status \in {200, 202}
               PROVE  FALSE
    BY DEF LateIsRefused
  <2>1. Timely(records[j]) /\ i \in 1 .. records[j].began
    BY RecordFact DEF Fact, Accepts, Handler
  <2>2. Shuts(records[i]) /\ records[i].request.session = records[j].request.session
    BY RecordFact DEF Shuts
  <2> QED BY <2>1, <2>2 DEF Timely
<1> QED BY <1>1, FactHolds, PTL

(* A delivery is a piece of the log that starts at its cursor, whatever was  *)
(* appended in the meantime, and its cursors lead from piece to piece.       *)
THEOREM Contiguity == Spec => []DeliveriesAreContiguous
<1>1. FactInv => DeliveriesAreContiguous
  <2> SUFFICES ASSUME FactInv, NEW s \in Open, NEW op \in {"poll", "stream", "ws"},
                      NEW i \in RepliesTo(op, s), records[i].status \in {101, 200}
               PROVE  LET r == records[i]
                          end == r.start + Len(r.delivered) IN
                      /\ r.delivered = SubSeq(sessions[s].messages, r.start + 1, end)
                      /\ r.issued # <<>> /\ r.issued[Len(r.issued)] = end
                      /\ \A k \in 1 .. Len(r.issued) : r.start <= r.issued[k] /\ r.issued[k] <= end
    BY DEF DeliveriesAreContiguous
  <2>1. Fact(records[i]) /\ Sliced(records[i]) /\ Delivers(records[i]) /\ records[i].pc = "reply"
        /\ records[i].request.session = s
    BY RecordFact DEF Sliced, Delivers
  <2> QED BY <2>1 DEF Fact, Piece, Inside, Last, Log
<1> QED BY <1>1, FactHolds, PTL

(* A message whose acceptance was answered before a receiver asked is in     *)
(* what the receiver gets or before it, unless its limit cuts it off.        *)
THEOREM Delivery == Spec => []AcceptedIsDelivered
<1>1. FactInv => AcceptedIsDelivered
  <2> SUFFICES ASSUME FactInv, NEW s \in Open, NEW i \in RepliesTo("post", s),
                      NEW op \in {"poll", "stream", "ws"}, NEW j \in RepliesTo(op, s),
                      records[i].status = 202, records[j].status \in {101, 200},
                      records[j].began >= i, Len(records[j].delivered) < records[j].request.limit
               PROVE  \E k \in 1 .. records[j].start + Len(records[j].delivered) :
                        /\ k <= Len(sessions[s].messages)
                        /\ sessions[s].messages[k].id = records[i].request.message.id
    BY DEF AcceptedIsDelivered
  <2>1a. /\ Fact(records[j]) /\ records[j].request.session = s
         /\ records[j].pc = "reply" /\ records[j].request.op = op
         /\ records[j].began \in Nat /\ i \in 1 .. Len(records)
    <3>1. i \in 1 .. Len(records)
      BY RecordFact
    <3>2. /\ Fact(records[j]) /\ records[j].request.session = s /\ records[j] \in Handler
          /\ records[j].pc = "reply" /\ records[j].request.op = op
      BY RecordFact
    <3> QED BY <3>1, <3>2 DEF Handler
  <2>1. /\ Fact(records[j]) /\ Sliced(records[j]) /\ records[j].request.session = s
        /\ i \in 1 .. records[j].began
    BY <2>1a DEF Sliced, Delivers
  <2>2. Stores(records[i]) /\ records[i].request.session = s
    BY RecordFact DEF Stores
  <2> QED BY <2>1, <2>2 DEF Fact, Covers, Last, Log
<1> QED BY <1>1, FactHolds, PTL

-----------------------------------------------------------------------------
(* Deduplication, for clients that wait for an answer before they retry.     *)
(* All of it is about one message id in one session at a time: who posts it, *)
(* whether it was taken, where it is in the log, and how it was answered.    *)

Posts(c, s, id) ==
  /\ connections[c] # None /\ Request(c).op = "post"
  /\ Request(c).session = s /\ Request(c).message.id = id

Taken(s, id) == sessions[s] # None /\ id \in sessions[s].message_ids

Positions(s, id) ==
  IF sessions[s] = None THEN {}
  ELSE {k \in 1 .. Len(sessions[s].messages) : sessions[s].messages[k].id = id}

Answers(s, id, status) ==
  {i \in 1 .. Len(records) :
     /\ records[i].request.op = "post" /\ records[i].request.session = s
     /\ records[i].request.message.id = id /\ records[i].status = status}

\* What a handler that posts it may rely on.
Novel(c, s, id) ==
  /\ connections[c].pc = "post_record" => ~Taken(s, id)
  /\ connections[c].pc = "post_append" => Taken(s, id) /\ Positions(s, id) = {}
  /\ connections[c].pc = "reply" /\ connections[c].status \in {200, 202} => Positions(s, id) # {}
  /\ connections[c].pc = "reply" /\ connections[c].status = 202 => Answers(s, id, 202) = {}

KeyInv(s, id) ==
  /\ \A c, d \in Connections : Posts(c, s, id) /\ Posts(d, s, id) => c = d
  /\ \A c \in Connections : Posts(c, s, id) => Novel(c, s, id)
  /\ Positions(s, id) # {} => Taken(s, id)
  /\ Taken(s, id) => \/ Positions(s, id) # {}
                     \/ \E c \in Connections : Posts(c, s, id) /\ connections[c].pc = "post_append"
  /\ \A k, l \in Positions(s, id) : k = l
  /\ Answers(s, id, 200) \cup Answers(s, id, 202) # {} => Positions(s, id) # {}
  /\ \A i, j \in Answers(s, id, 202) : i = j

DedupInv == TypeInv /\ \A s \in Sessions, id \in MessageIds : KeyInv(s, id)

SameLog(s, id) == Positions(s, id)' = Positions(s, id) /\ (Taken(s, id)' <=> Taken(s, id))
SameAnswers(s, id) == \A status : Answers(s, id, status)' = Answers(s, id, status)

\* A step that does not write what it is about keeps the invariant of a key,
\* if the handler that moves may rely on what it needs.
LEMMA KeyFrame ==
  ASSUME NEW s, NEW id, NEW c \in Connections, KeyInv(s, id),
         \A d \in Connections \ {c} : connections'[d] = connections[d],
         SameLog(s, id), SameAnswers(s, id),
         ~(Posts(c, s, id) /\ connections[c].pc = "post_append"),
         Posts(c, s, id)' => /\ Novel(c, s, id)'
                             /\ \A d \in Connections \ {c} : ~Posts(d, s, id)
  PROVE  KeyInv(s, id)'
<1>1. \A d \in Connections \ {c} :
        /\ Posts(d, s, id)' <=> Posts(d, s, id)
        /\ Novel(d, s, id)' <=> Novel(d, s, id)
  BY DEF Posts, Novel, Request, SameLog, SameAnswers
<1>2. /\ \A d, e \in Connections : Posts(d, s, id)' /\ Posts(e, s, id)' => d = e
      /\ \A d \in Connections : Posts(d, s, id)' => Novel(d, s, id)'
  BY <1>1 DEF KeyInv
<1>3. Taken(s, id)' => \/ Positions(s, id)' # {}
                       \/ \E d \in Connections : Posts(d, s, id)' /\ connections'[d].pc = "post_append"
  BY <1>1 DEF KeyInv, SameLog
<1>4. /\ Positions(s, id)' # {} => Taken(s, id)'
      /\ \A k, l \in Positions(s, id)' : k = l
      /\ Answers(s, id, 200)' \cup Answers(s, id, 202)' # {} => Positions(s, id)' # {}
      /\ \A i, j \in Answers(s, id, 202)' : i = j
  BY DEF KeyInv, SameLog, SameAnswers
<1> QED BY <1>2, <1>3, <1>4 DEF KeyInv

\* A new handler is alone with its message, and relies on nothing yet.
LEMMA KeyReceive ==
  ASSUME TypeInv, ~ConcurrentRetries, NEW s \in Sessions, NEW id \in MessageIds, KeyInv(s, id),
         NEW c \in Connections, NEW r \in Requests, Receive(c, r)
  PROVE  KeyInv(s, id)'
<1>1. connections[c] = None /\ UNCHANGED records /\ Waits(r)
  BY DEF Receive
<1>2. r \in Targeted \cup Create \cup Post
  BY HttpLiveAssumption
<1>3. PICK pc, status : /\ Begin(c, r, pc, status)
                        /\ r.op = "post" => pc = "post_closed" \/ status \notin {200, 202}
                        /\ pc \notin {"post_record", "post_append"}
  <2>1. CASE Immediate(r) # 0 /\ Begin(c, r, "reply", Immediate(r))
    <3>1. r.op = "post" => Immediate(r) \notin {200, 202}
      BY DEF Immediate
    <3> QED BY <2>1, <3>1
  <2>2. CASE r.op = "create" /\ CreateSession(c, r)
    BY <2>2 DEF CreateSession
  <2>3. CASE Immediate(r) = 0 /\ r.op # "create" /\ Begin(c, r, FirstStep[r.op], 0)
    <3>1. r.op \in {"post", "ack", "close", "poll", "poll_expired", "stream", "ws", "ws_overload", "head"}
      BY <1>2, <2>3, RequestFields DEF Immediate
    <3>2. FirstStep[r.op] \notin {"post_record", "post_append"}
          /\ (r.op = "post" => FirstStep[r.op] = "post_closed")
      BY <3>1 DEF FirstStep
    <3> QED BY <2>3, <3>2
  <2> QED BY <2>1, <2>2, <2>3 DEF Receive
<1>4. /\ \A d \in Connections \ {c} : connections'[d] = connections[d]
      /\ connections'[c] # None => connections'[c].request = r /\ connections'[c].pc = pc
                                   /\ connections'[c].status = status
  BY <1>3 DEF Begin, TypeInv, TypeOK
<1>5. SameLog(s, id)
  <2>1. CASE UNCHANGED sessions
    BY <2>1 DEF SameLog, Positions, Taken
  <2>2. CASE CreateSession(c, r)
    <3>1. PICK new \in Sessions : sessions[new] = None /\ sessions' = [sessions EXCEPT ![new] = NewSession]
      BY <2>2 DEF CreateSession
    <3>2. NewSession # None /\ NewSession.messages = <<>> /\ NewSession.message_ids = {}
      <4>1. NewSession \in Session
        BY DEF NewSession, Session
      <4>2. NewSession.messages = <<>> /\ NewSession.message_ids = {}
        BY DEF NewSession
      <4> QED BY <4>1, <4>2, HttpLiveAssumption
    <3>3. CASE s = new
      <4>1. sessions[s] = None /\ sessions'[s] = NewSession
        BY <3>1, <3>3 DEF TypeInv, TypeOK
      <4>2. Positions(s, id)' = {} /\ ~Taken(s, id)'
        BY <4>1, <3>2 DEF Positions, Taken
      <4> QED BY <4>1, <4>2 DEF SameLog, Positions, Taken
    <3>4. CASE s # new
      <4>1. sessions'[s] = sessions[s]
        BY <3>1, <3>4 DEF TypeInv, TypeOK
      <4> QED BY <4>1 DEF SameLog, Positions, Taken
    <3> QED BY <3>3, <3>4
  <2> QED BY <2>1, <2>2 DEF Receive
<1>6. SameAnswers(s, id)
  BY <1>1 DEF SameAnswers, Answers
<1>7. ASSUME Posts(c, s, id)'
      PROVE  /\ Novel(c, s, id)'
             /\ \A d \in Connections \ {c} : ~Posts(d, s, id)
  <2>1. r.op = "post" /\ r.session = s /\ r.message.id = id /\ connections'[c] # None
    BY <1>4, <1>7 DEF Posts, Request
  <2>2. \A d \in Connections \ {c} : ~Posts(d, s, id)
    BY <1>1, <2>1 DEF Waits, Posts, Active
  <2>3. Novel(c, s, id)'
    BY <1>3, <1>4, <2>1 DEF Novel
  <2> QED BY <2>2, <2>3
<1> QED BY <1>1, <1>4, <1>5, <1>6, <1>7, KeyFrame DEF Posts

\* What a step does to the log and to the ids taken.
LEMMA StepLog ==
  ASSUME TypeInv, NEW s \in Sessions, NEW id \in MessageIds, NEW c \in Connections, Move(c)
  PROVE  LET pc == connections[c].pc IN
         /\ pc \notin {"post_record", "post_append"} \/ ~Posts(c, s, id) => SameLog(s, id)
         /\ pc = "post_record" /\ Posts(c, s, id) =>
              Positions(s, id)' = Positions(s, id) /\ Taken(s, id)'
         /\ pc = "post_append" /\ Posts(c, s, id) =>
              /\ Taken(s, id)' <=> Taken(s, id)
              /\ \E k \in Nat : Positions(s, id)' = Positions(s, id) \cup {k}
<1> DEFINE own == Request(c).session
<1>1. ASSUME NEW pc, At(c, pc), pc # "reply", NEW session \in Session, SetSession(c, session)
      PROVE  /\ own \in Sessions /\ SessionOf(c) \in Session /\ session # None /\ sessions[own] # None
             /\ sessions'[own] = session
             /\ s # own => SameLog(s, id)
             /\ s = own => /\ (Taken(s, id)' <=> id \in session.message_ids)
                           /\ Positions(s, id)' = {k \in 1 .. Len(session.messages) : session.messages[k].id = id}
  <2>1. own \in Sessions /\ SessionOf(c) \in Session /\ session # None /\ sessions[own] # None
    BY <1>1, AtStep, HttpLiveAssumption DEF Open
  <2>2. sessions' = [sessions EXCEPT ![own] = session] /\ sessions \in [Sessions -> Session \cup {None}]
    BY <1>1 DEF SetSession, TypeInv, TypeOK
  <2>3. sessions'[own] = session /\ (s # own => sessions'[s] = sessions[s])
    BY <2>1, <2>2
  <2>4. s # own => SameLog(s, id)
    BY <2>3 DEF SameLog, Positions, Taken
  <2>5. s = own => /\ (Taken(s, id)' <=> id \in session.message_ids)
                   /\ Positions(s, id)' = {k \in 1 .. Len(session.messages) : session.messages[k].id = id}
    BY <2>1, <2>3 DEF Positions, Taken
  <2> QED BY <2>1, <2>3, <2>4, <2>5
<1>2. /\ sessions[own] # None /\ s = own => (Taken(s, id) <=> id \in SessionOf(c).message_ids)
      /\ sessions[own] # None /\ s = own => Positions(s, id) =
           {k \in 1 .. Len(SessionOf(c).messages) : SessionOf(c).messages[k].id = id}
  BY DEF Positions, Taken, SessionOf
<1>3. CASE UNCHANGED sessions /\ connections[c].pc \notin {"post_record", "post_append"}
  BY <1>3 DEF SameLog, Positions, Taken
<1>4. CASE AckStore(c) \/ Close(c) \/ PollExpired(c) \/ IssueCursor(c)
  <2>4. At(c, connections[c].pc) /\ connections[c].pc # "reply"
    BY <1>4 DEF AckStore, Close, PollExpired, IssueCursor, At
  <2>1. PICK session \in Session :
          /\ SetSession(c, session)
          /\ session.messages = SessionOf(c).messages /\ session.message_ids = SessionOf(c).message_ids
    <3>1. SessionOf(c) \in Session
      BY <2>4, AtStep
    <3>2. CASE AckStore(c)
      <4>1. Request(c).after \in Nat
        BY <3>2, AtStep, RequestFields DEF AckStore, Served, Request, At
      <4>2. [SessionOf(c) EXCEPT !.ack = Request(c).after] \in Session
        BY <4>1, <3>1, <3>2 DEF AckStore, Session
      <4> QED BY <4>2, <3>1, <3>2 DEF AckStore, Session
    <3>3. CASE Close(c)
      <4>1. [SessionOf(c) EXCEPT !.closed = TRUE] \in Session
        BY <3>1, <3>3 DEF Close, Session
      <4> QED BY <4>1, <3>1, <3>3 DEF Close, Session
    <3>4. CASE PollExpired(c) \/ IssueCursor(c)
      <4>1. PICK offset \in Nat, pc \in {"poll_expired", "cursor"} :
              At(c, pc) /\ SetSession(c, [SessionOf(c) EXCEPT !.cursors = @ \cup {offset}])
        BY <3>4, Delivering DEF PollExpired, IssueCursor
      <4>2. [SessionOf(c) EXCEPT !.cursors = @ \cup {offset}] \in Session
        BY <4>1, <3>1 DEF Session
      <4> QED BY <4>1, <4>2, <3>1 DEF Session
    <3> QED BY <1>4, <3>2, <3>3, <3>4
  <2>2. connections[c].pc \notin {"post_record", "post_append"}
    BY <1>4 DEF AckStore, Close, PollExpired, IssueCursor, At
  <2>3. SameLog(s, id)
    <3>1. CASE s # own
      BY <2>1, <2>4, <1>1, <3>1
    <3>2. CASE s = own
      <4>1. sessions[own] # None
        BY <2>1, <2>4, <1>1
      <4> QED BY <2>1, <2>4, <1>1, <1>2, <3>2, <4>1 DEF SameLog
    <3> QED BY <3>1, <3>2
  <2> QED BY <2>2, <2>3
<1>5. CASE PostRecord(c)
  <2> DEFINE session == [SessionOf(c) EXCEPT !.message_ids = @ \cup {Request(c).message.id}]
  <2>1. At(c, "post_record") /\ SetSession(c, session)
    BY <1>5 DEF PostRecord
  <2>2. SessionOf(c) \in Session /\ Request(c).op = "post" /\ Request(c).message \in Message
    BY <2>1, AtStep, RequestFields DEF Served, Request
  <2>3. /\ session \in Session /\ session.messages = SessionOf(c).messages
        /\ session.message_ids = SessionOf(c).message_ids \cup {Request(c).message.id}
    BY <2>2 DEF Session, Message
  <2>4. connections[c] # None /\ connections[c].pc = "post_record"
    BY <2>1 DEF At
  <2> HIDE DEF session
  <2>5. CASE s # own
    BY <2>1, <2>3, <2>4, <2>5, <1>1 DEF Posts
  <2>6. CASE s = own
    <3>1. sessions[own] # None
      BY <2>1, <2>3, <1>1
    <3>2. /\ Positions(s, id)' = Positions(s, id)
          /\ Taken(s, id)' <=> Taken(s, id) \/ id = Request(c).message.id
      BY <2>1, <2>3, <2>6, <3>1, <1>1, <1>2
    <3> QED BY <2>2, <2>4, <2>6, <3>2 DEF SameLog, Posts
  <2> QED BY <2>5, <2>6
<1>6. CASE PostAppend(c)
  <2> DEFINE log == Append(SessionOf(c).messages, Request(c).message)
             session == [SessionOf(c) EXCEPT !.messages = log]
  <2>1. At(c, "post_append") /\ SetSession(c, session)
    BY <1>6 DEF PostAppend
  <2>2. SessionOf(c) \in Session /\ Request(c).op = "post" /\ Request(c).message \in Message
    BY <2>1, AtStep, RequestFields DEF Served, Request
  <2>3. SessionOf(c).messages \in Seq(Message)
    BY <2>2 DEF Session
  <2>4. /\ log \in Seq(Message) /\ Len(log) = Len(SessionOf(c).messages) + 1
        /\ log[Len(log)] = Request(c).message
        /\ \A k \in 1 .. Len(SessionOf(c).messages) : log[k] = SessionOf(c).messages[k]
    BY <2>2, <2>3
  <2> HIDE DEF log
  <2>5. session \in Session /\ session.messages = log /\ session.message_ids = SessionOf(c).message_ids
    BY <2>2, <2>4 DEF Session
  <2>6. {k \in 1 .. Len(log) : log[k].id = id} =
          {k \in 1 .. Len(SessionOf(c).messages) : SessionOf(c).messages[k].id = id}
          \cup (IF Request(c).message.id = id THEN {Len(log)} ELSE {})
    BY <2>3, <2>4
  <2>7. connections[c] # None /\ Len(log) \in Nat /\ connections[c].pc = "post_append"
    BY <2>1, <2>4 DEF At
  <2> HIDE DEF session
  <2>8. CASE s # own
    BY <2>1, <2>5, <2>7, <2>8, <1>1 DEF Posts
  <2>9. CASE s = own
    <3>1. sessions[own] # None
      BY <2>1, <2>5, <1>1
    <3>2. /\ Positions(s, id)' = Positions(s, id)
                \cup (IF Request(c).message.id = id THEN {Len(log)} ELSE {})
          /\ Taken(s, id)' <=> Taken(s, id)
      BY <2>1, <2>5, <2>6, <2>9, <3>1, <1>1, <1>2
    <3> QED BY <2>2, <2>7, <2>9, <3>2 DEF SameLog, Posts
  <2> QED BY <2>8, <2>9
<1> QED BY <1>3, <1>4, <1>5, <1>6 DEF Move, Step, PostClosed, PostExisting, AckCheck, ReadFrame, ReadOffset, Slice,
           HeadId, HeadHash, SendReply, At

\* Only an answer to a post of it changes how a message was answered.
LEMMA StepAnswers ==
  ASSUME TypeInv, NEW s, NEW id, NEW c \in Connections, Move(c)
  PROVE  /\ connections[c].pc # "reply" \/ ~Posts(c, s, id) => SameAnswers(s, id)
         /\ connections[c].pc = "reply" /\ Posts(c, s, id) =>
              /\ connections'[c] = None
              /\ \A status : Answers(s, id, status)' = Answers(s, id, status)
                   \cup (IF connections[c].status = status THEN {Len(records) + 1} ELSE {})
<1>1. CASE SendReply(c)
  <2>1. PICK h \in Handler : h = connections[c]
    BY <1>1, AtStep DEF SendReply
  <2>2. records \in Seq(Handler) /\ records' = Append(records, h)
    BY <1>1, <2>1 DEF SendReply, TypeInv, TypeOK
  <2>3. /\ Len(records) \in Nat /\ Len(records') = Len(records) + 1 /\ records'[Len(records) + 1] = h
        /\ \A i \in 1 .. Len(records) : records'[i] = records[i]
    BY <2>2
  <2>4. Posts(c, s, id) <=> /\ h.request.op = "post" /\ h.request.session = s
                            /\ h.request.message.id = id
    BY <1>1, <2>1 DEF Posts, Request, SendReply, At
  <2>5. \A status : Answers(s, id, status)' = Answers(s, id, status)
          \cup (IF Posts(c, s, id) /\ h.status = status THEN {Len(records) + 1} ELSE {})
    <3> TAKE status
    <3>1. 1 .. Len(records') = 1 .. Len(records) \cup {Len(records) + 1}
      BY <2>3
    <3>2. Answers(s, id, status)' =
            {i \in 1 .. Len(records) \cup {Len(records) + 1} :
               /\ records'[i].request.op = "post" /\ records'[i].request.session = s
               /\ records'[i].request.message.id = id /\ records'[i].status = status}
      BY <3>1 DEF Answers
    <3> QED BY <2>3, <2>4, <3>2 DEF Answers
  <2>6. connections[c].pc = "reply" /\ connections'[c] = None
    BY <1>1 DEF SendReply, At, TypeInv, TypeOK
  <2> QED BY <2>1, <2>5, <2>6 DEF SameAnswers
<1>2. CASE ~SendReply(c)
  <2>1. UNCHANGED records /\ connections[c].pc # "reply"
    BY <1>2 DEF Move, Step, PostClosed, PostExisting, PostRecord, PostAppend, AckCheck, AckStore, Close,
       PollExpired, ReadFrame, ReadOffset, Slice, IssueCursor, HeadId, HeadHash, At
  <2> QED BY <2>1 DEF SameAnswers, Answers
<1> QED BY <1>1, <1>2

\* A step moves one handler, and does not give it another request.
LEMMA StepMoves ==
  ASSUME TypeInv, NEW c \in Connections, Move(c)
  PROVE  /\ \A d \in Connections \ {c} : connections'[d] = connections[d]
         /\ connections'[c] # None => connections'[c].request = Request(c)
         /\ connections[c] # None
<1>1. connections[c] # None /\ connections[c] \in Handler /\ connections \in [Connections -> Handler \cup {None}]
  BY DEF TypeInv, TypeOK, Move, Step, PostClosed, PostExisting, PostRecord, PostAppend, AckCheck, AckStore, Close,
     PollExpired, ReadFrame, ReadOffset, Slice, IssueCursor, HeadId, HeadHash, SendReply, At
<1>2. CASE PostClosed(c) \/ PostExisting(c) \/ PostRecord(c) \/ PostAppend(c)
  BY <1>1, <1>2 DEF PostClosed, PostExisting, PostRecord, PostAppend, Goto, Reply, Request, Handler
<1>3. CASE AckCheck(c) \/ AckStore(c) \/ Close(c) \/ PollExpired(c)
  BY <1>1, <1>3 DEF AckCheck, AckStore, Close, PollExpired, Goto, Reply, Request, Handler
<1>4. CASE ReadFrame(c) \/ ReadOffset(c) \/ Slice(c)
  BY <1>1, <1>4 DEF ReadFrame, ReadOffset, Slice, Goto, Reply, Request, Handler
<1>5. CASE IssueCursor(c)
  BY <1>1, <1>5 DEF IssueCursor, Request, Handler
<1>6. CASE HeadId(c) \/ HeadHash(c) \/ SendReply(c)
  BY <1>1, <1>6 DEF HeadId, HeadHash, SendReply, Goto, Reply, Request, Handler
<1> QED BY <1>2, <1>3, <1>4, <1>5, <1>6 DEF Move, Step

\* A handler that posts goes from step to step of a post.
LEMMA PostMoves ==
  ASSUME TypeInv, NEW s \in Sessions, NEW id \in MessageIds, NEW c \in Connections, Move(c), Posts(c, s, id)
  PROVE  LET pc == connections[c].pc
             new == connections'[c] IN
         \/ pc = "post_closed" /\ (new.pc = "post_existing" \/ (new.pc = "reply" /\ new.status \notin {200, 202}))
         \/ pc = "post_existing" /\ Taken(s, id) /\ new.pc = "reply" /\ new.status = 200
         \/ pc = "post_existing" /\ ~Taken(s, id) /\ new.pc = "post_record"
         \/ pc = "post_record" /\ new.pc = "post_append"
         \/ pc = "post_append" /\ new.pc = "reply" /\ new.status = 202
         \/ pc = "reply"
<1>1. connections[c] \in Handler /\ connections \in [Connections -> Handler \cup {None}]
  BY StepMoves DEF TypeInv, TypeOK
<1>2. CASE PostClosed(c)
  BY <1>1, <1>2 DEF PostClosed, At, Goto, Reply, Handler
<1>3. CASE PostExisting(c)
  <2>1. sessions[s] # None
    BY <1>3, AtStep DEF PostExisting, Posts, Open
  <2>2. IsReplay(c) <=> Taken(s, id)
    BY <2>1 DEF IsReplay, Taken, Posts, SessionOf
  <2> QED BY <1>1, <1>3, <2>2 DEF PostExisting, At, Goto, Reply, Handler
<1>4. CASE PostRecord(c)
  BY <1>1, <1>4 DEF PostRecord, At, Goto, Handler
<1>5. CASE PostAppend(c)
  BY <1>1, <1>5 DEF PostAppend, At, Reply, Handler
<1>6. CASE SendReply(c)
  BY <1>6 DEF SendReply, At
<1>7. CASE \/ AckCheck(c) \/ AckStore(c) \/ Close(c) \/ PollExpired(c) \/ ReadFrame(c) \/ ReadOffset(c)
           \/ Slice(c) \/ IssueCursor(c) \/ HeadId(c) \/ HeadHash(c)
  <2>1. PICK pc \in {"ack_check", "ack_store", "close", "poll_expired", "frame", "offset", "slice",
                     "cursor", "head_id", "head_hash"} : At(c, pc)
    BY <1>7 DEF AckCheck, AckStore, Close, PollExpired, ReadFrame, ReadOffset, Slice, IssueCursor, HeadId, HeadHash
  <2> QED BY <2>1, AtStep DEF Served, Posts, Request
<1> QED BY <1>2, <1>3, <1>4, <1>5, <1>6, <1>7 DEF Move, Step

LEMMA KeyStep ==
  ASSUME TypeInv, NEW s \in Sessions, NEW id \in MessageIds, KeyInv(s, id),
         NEW c \in Connections, Move(c)
  PROVE  KeyInv(s, id)'
<1> DEFINE pc == connections[c].pc
           new == connections'[c]
<1>1. /\ \A d \in Connections \ {c} : connections'[d] = connections[d]
      /\ new # None => new.request = Request(c)
      /\ connections[c] # None
  BY StepMoves
<1>2. Posts(c, s, id)' => Posts(c, s, id)
  BY <1>1 DEF Posts, Request
<1>3. CASE ~Posts(c, s, id)
  <2>1. SameLog(s, id) /\ SameAnswers(s, id)
    BY <1>3, StepLog, StepAnswers
  <2> QED BY <2>1, <1>1, <1>2, <1>3, KeyFrame
<1>4. ASSUME Posts(c, s, id)
      PROVE  \A d \in Connections \ {c} : ~Posts(d, s, id) /\ ~Posts(d, s, id)'
  BY <1>1, <1>4 DEF KeyInv, Posts, Request
<1>5. ASSUME Posts(c, s, id), pc \in {"post_closed", "post_existing"} PROVE KeyInv(s, id)'
  <2>1. SameLog(s, id) /\ SameAnswers(s, id)
    BY <1>5, StepLog, StepAnswers
  <2>2. Novel(c, s, id)'
    <3>1. CASE pc = "post_closed"
      BY <3>1, <1>5, PostMoves DEF Novel
    <3>2. CASE pc = "post_existing" /\ Taken(s, id) /\ new.pc = "reply" /\ new.status = 200
      <4>1. Positions(s, id) # {}
        BY <3>2, <1>4, <1>5 DEF KeyInv
      <4> QED BY <4>1, <3>2, <2>1 DEF Novel, SameLog
    <3>3. CASE pc = "post_existing" /\ ~Taken(s, id) /\ new.pc = "post_record"
      BY <3>3, <2>1 DEF Novel, SameLog
    <3> QED BY <3>1, <3>2, <3>3, <1>5, PostMoves
  <2> QED BY <2>1, <2>2, <1>1, <1>4, <1>5, KeyFrame
<1>6. ASSUME Posts(c, s, id), pc = "post_record" PROVE KeyInv(s, id)'
  <2>1. /\ Positions(s, id)' = Positions(s, id) /\ Taken(s, id)' /\ SameAnswers(s, id)
        /\ new.pc = "post_append" /\ Posts(c, s, id)'
    <3>1. new.pc = "post_append"
      BY <1>6, PostMoves
    <3>2. new # None
      <4>1. PostRecord(c)
        BY <1>6 DEF Move, Step, PostClosed, PostExisting, PostRecord, PostAppend, AckCheck, AckStore, Close,
           PollExpired, ReadFrame, ReadOffset, Slice, IssueCursor, HeadId, HeadHash, SendReply, At
      <4>2. connections[c] \in Handler /\ connections \in [Connections -> Handler \cup {None}]
        BY <1>1 DEF TypeInv, TypeOK
      <4>3. new \in Handler
        BY <4>1, <4>2 DEF PostRecord, Goto, Handler
      <4> QED BY <4>3, HttpLiveAssumption
    <3> QED BY <3>1, <3>2, <1>1, <1>6, StepLog, StepAnswers DEF Posts, Request
  <2>2. Positions(s, id) = {}
    BY <1>6 DEF KeyInv, Novel
  <2>3. Answers(s, id, 200) \cup Answers(s, id, 202) = {}
    BY <2>2 DEF KeyInv
  <2>4. Novel(c, s, id)'
    BY <2>1, <2>2 DEF Novel
  <2>5. Answers(s, id, 200)' \cup Answers(s, id, 202)' = {} /\ Answers(s, id, 202)' = {}
    BY <2>1, <2>3 DEF SameAnswers
  <2> QED BY <2>1, <2>2, <2>4, <2>5, <1>4, <1>6 DEF KeyInv
<1>7. ASSUME Posts(c, s, id), pc = "post_append" PROVE KeyInv(s, id)'
  <2>1. Taken(s, id) /\ Positions(s, id) = {}
    BY <1>7 DEF KeyInv, Novel
  <2>2. Answers(s, id, 200) \cup Answers(s, id, 202) = {}
    BY <2>1 DEF KeyInv
  <2>3. PICK k : Positions(s, id)' = {k}
    BY <2>1, <1>7, StepLog
  <2>4. Taken(s, id)' /\ SameAnswers(s, id) /\ new.pc = "reply" /\ new.status = 202
    BY <2>1, <1>7, StepLog, StepAnswers, PostMoves
  <2>5. Answers(s, id, 200)' \cup Answers(s, id, 202)' = {} /\ Answers(s, id, 202)' = {}
    BY <2>2, <2>4 DEF SameAnswers
  <2>6. Novel(c, s, id)'
    BY <2>3, <2>4, <2>5 DEF Novel
  <2> QED BY <2>3, <2>4, <2>5, <2>6, <1>4, <1>7 DEF KeyInv
<1>8. ASSUME Posts(c, s, id), pc = "reply" PROVE KeyInv(s, id)'
  <2>1. new = None /\ \A status : Answers(s, id, status)' = Answers(s, id, status)
          \cup (IF connections[c].status = status THEN {Len(records) + 1} ELSE {})
    BY <1>8, StepAnswers
  <2>2. SameLog(s, id)
    BY <1>8, StepLog
  <2>3. Novel(c, s, id)
    BY <1>8 DEF KeyInv
  <2>4. \A d \in Connections : ~Posts(d, s, id)'
    BY <2>1, <1>4, <1>8 DEF Posts
  <2>5. Answers(s, id, 200)' \cup Answers(s, id, 202)' # {} => Positions(s, id)' # {}
    <3>1. CASE connections[c].status \in {200, 202}
      BY <3>1, <2>2, <2>3, <1>8 DEF Novel, SameLog
    <3>2. CASE connections[c].status \notin {200, 202}
      <4>1. Answers(s, id, 200)' = Answers(s, id, 200) /\ Answers(s, id, 202)' = Answers(s, id, 202)
        <5>1. connections[c].status # 200 /\ connections[c].status # 202
          BY <3>2
        <5>2. \A status : connections[c].status # status => Answers(s, id, status)' = Answers(s, id, status)
          BY <2>1
        <5>3. Answers(s, id, 200)' = Answers(s, id, 200)
          BY <5>1, <5>2, Zenon
        <5>4. Answers(s, id, 202)' = Answers(s, id, 202)
          BY <5>1, <5>2, Zenon
        <5> QED BY <5>3, <5>4
      <4> QED BY <4>1, <2>2 DEF KeyInv, SameLog
    <3> QED BY <3>1, <3>2
  <2>6. \A i, j \in Answers(s, id, 202)' : i = j
    <3>1. CASE connections[c].status = 202
      <4>1. Answers(s, id, 202)' = {Len(records) + 1}
        BY <3>1, <2>1, <2>3, <1>8 DEF Novel
      <4> QED BY <4>1
    <3>2. CASE connections[c].status # 202
      <4>1. Answers(s, id, 202)' = Answers(s, id, 202)
        BY <3>2, <2>1, ZenonT(30)
      <4> QED BY <4>1 DEF KeyInv
    <3> QED BY <3>1, <3>2
  <2>7. Taken(s, id)' => Positions(s, id)' # {}
    BY <2>2, <1>4, <1>8 DEF KeyInv, SameLog
  <2>8. (Positions(s, id)' # {} => Taken(s, id)') /\ \A k, l \in Positions(s, id)' : k = l
    BY <2>2 DEF KeyInv, SameLog
  <2> QED BY <2>4, <2>5, <2>6, <2>7, <2>8 DEF KeyInv
<1> QED BY <1>3, <1>5, <1>6, <1>7, <1>8, PostMoves

LEMMA DedupHolds ==
  ASSUME ~ConcurrentRetries
  PROVE  Spec => []DedupInv
<1>1. Init => DedupInv
  BY TypeInit DEF Init, DedupInv, KeyInv, Posts, Positions, Taken, Answers
<1>2. DedupInv /\ [Next]_vars => DedupInv'
  <2> SUFFICES ASSUME DedupInv, [Next]_vars, NEW s \in Sessions, NEW id \in MessageIds
               PROVE  KeyInv(s, id)'
    BY TypeStep DEF DedupInv
  <2>1. CASE UNCHANGED vars
    BY <2>1 DEF DedupInv, KeyInv, Posts, Positions, Taken, Answers, Novel, Request, vars
  <2>2. CASE Next
    BY <2>2, KeyStep, KeyReceive DEF DedupInv, Next
  <2> QED BY <2>1, <2>2
<1> QED BY <1>1, <1>2, PTL DEF Spec

(* With clients that wait for their answers before they retry, no message is *)
(* twice in the log of a session.                                            *)
THEOREM Deduplication ==
  ASSUME ~ConcurrentRetries
  PROVE  Spec => []Deduplicated
<1>1. DedupInv => Deduplicated
  <2> SUFFICES ASSUME DedupInv, NEW s \in Open, NEW i \in 1 .. Len(sessions[s].messages),
                      NEW j \in 1 .. Len(sessions[s].messages),
                      sessions[s].messages[i].id = sessions[s].messages[j].id
               PROVE  i = j
    BY DEF Deduplicated
  <2>1. sessions[s].messages \in Seq(Message) /\ s \in Sessions /\ sessions[s] # None
    BY DEF Open, DedupInv, TypeInv, TypeOK, Session
  <2>2. PICK id \in MessageIds : id = sessions[s].messages[i].id
    <3>1. sessions[s].messages[i] \in Message
      BY <2>1
    <3> QED BY <3>1 DEF Message
  <2>3. {i, j} \subseteq Positions(s, id)
    BY <2>1, <2>2 DEF Positions
  <2> QED BY <2>1, <2>3 DEF DedupInv, KeyInv
<1> QED BY <1>1, DedupHolds, PTL

(* Then a client that is told of its message's acceptance finds it in the    *)
(* log, and of all its tries one only is told that it was the first.         *)
THEOREM Acceptance ==
  ASSUME ~ConcurrentRetries
  PROVE  Spec => []AcceptanceIsTrue
<1>1. DedupInv => AcceptanceIsTrue
  <2> SUFFICES ASSUME DedupInv, NEW s \in Open, NEW i \in RepliesTo("post", s)
               PROVE  /\ records[i].status \in {200, 202} => records[i].request.message.id \in Logged(s)
                      /\ \A j \in RepliesTo("post", s) :
                           /\ records[i].request.message.id = records[j].request.message.id
                           /\ records[i].status = 202 /\ records[j].status = 202
                           => i = j
    BY DEF AcceptanceIsTrue
  <2>1. PICK id \in MessageIds : id = records[i].request.message.id
    <3>1. i \in 1 .. Len(records) /\ records[i].request.op = "post"
      BY DEF RepliesTo
    <3>2. records[i] \in Handler
      BY <3>1 DEF DedupInv, TypeInv, TypeOK
    <3>3. records[i].request.message \in Message
      BY <3>1, <3>2, RequestFields DEF Handler
    <3> QED BY <3>3 DEF Message
  <2>2. s \in Sessions /\ sessions[s] # None /\ KeyInv(s, id)
    BY DEF DedupInv, Open
  <2>3. i \in Answers(s, id, records[i].status)
    BY <2>1 DEF RepliesTo, Answers
  <2>4. ASSUME records[i].status \in {200, 202} PROVE id \in Logged(s)
    <3>1. Positions(s, id) # {}
      BY <2>2, <2>3, <2>4 DEF KeyInv
    <3> QED BY <3>1, <2>2 DEF Positions, Logged
  <2>5. \A j \in RepliesTo("post", s) :
          records[j].request.message.id = id /\ records[j].status = 202 => j \in Answers(s, id, 202)
    BY DEF RepliesTo, Answers
  <2> QED BY <2>1, <2>2, <2>3, <2>4, <2>5 DEF KeyInv
<1> QED BY <1>1, DedupHolds, PTL
=============================================================================
