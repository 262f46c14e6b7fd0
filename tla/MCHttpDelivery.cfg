CONSTANTS
  s1 = s1
  s2 = s2
  m1 = m1
  m2 = m2
  m3 = m3
  h1 = h1
  h2 = h2
  h3 = h3
  c1 = c1
  c2 = c2
  None = None
  Sessions = {s1}
  MessageIds = {m1, m2, m3}
  Hashes = {h1, h2, h3}
  Connections = {c1, c2}
  Requests <- Delivery
  ConcurrentRetries = FALSE
  MaxRequests = 5
SPECIFICATION Spec
INVARIANTS DeliveriesAreContiguous AcceptedIsDelivered
CHECK_DEADLOCK FALSE
SYMMETRY AlsoMessages
