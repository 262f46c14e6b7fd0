----------------------------- MODULE MCHttpLive -----------------------------
(* Requests of one or two sessions, for a few concurrent connections. *)
EXTENDS HttpLive, TLC

CONSTANTS s1, s2, m1, m2, m3, h1, h2, h3, c1, c2

To(op, s, after, limit) ==
  [op |-> op, session |-> s, fault |-> "none", after |-> after, limit |-> limit]

PostOf(s, m) == [op |-> "post", session |-> s, fault |-> "none", message |-> m]

M(id, hash) == [id |-> id, hash |-> hash]

Creation == [op |-> "create", fault |-> "none"]

\* Ingestion, closing and replays over two sessions.
Ingestion ==
  {Creation, To("close", s1, 0, 1)} \cup
  {PostOf(s, M(m1, h1)) : s \in {s1, s2}} \cup
  {[PostOf(s1, M(m2, h2)) EXCEPT !.fault = f] :
     f \in {"none", "headers", "session_mismatch"}}

\* Posts and every kind of delivery from one session.
Delivery ==
  {Creation, PostOf(s1, M(m1, h1)), PostOf(s1, M(m2, h2)), PostOf(s1, M(m3, h3)),
   To("stream", s1, 0, 3), To("poll", s1, 1, 1), To("ws", s1, 2, 2)}

\* One request of every other kind, and of every fault.
Others ==
  {Creation, [Creation EXCEPT !.fault = "body"], PostOf(s1, M(m1, h1)),
   To("close", s1, 0, 1), To("stream", s1, 0, 1), To("ws", s1, 1, 1),
   To("head", s1, 0, 1), To("overload", s1, 0, 1), To("unknown", s1, 0, 1),
   To("ack", s1, 0, 1), To("ack", s1, 1, 1), To("poll_expired", s1, 0, 1),
   To("poll", s1, 1, 1), To("stream_overload", s1, 0, 1), To("ws_overload", s1, 0, 1),
   [To("poll", s1, 0, 1) EXCEPT !.fault = "authorization"],
   [To("stream", s1, 0, 1) EXCEPT !.fault = "last_event"],
   [To("ws", s1, 0, 1) EXCEPT !.fault = "key"],
   [To("ws", s1, 0, 1) EXCEPT !.fault = "frame"]}
\* One message posted over and over, and two messages under a head request.
Retries == {Creation, PostOf(s1, M(m1, h1))}

Heads ==
  {Creation, PostOf(s1, M(m1, h1)), PostOf(s1, M(m2, h2)), To("head", s1, 0, 1)}

Interchangeable == Permutations(Connections)

\* Delivery posts every message alike, each with its own hash.
HashOf == m1 :> h1 @@ m2 :> h2 @@ m3 :> h3
IdOf == h1 :> m1 @@ h2 :> m2 @@ h3 :> m3
AlsoMessages ==
  {c @@ m @@ [h \in Hashes |-> HashOf[m[IdOf[h]]]] :
     c \in Interchangeable, m \in Permutations(MessageIds)}
=============================================================================
