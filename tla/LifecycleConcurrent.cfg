SPECIFICATION Spec
CONSTANTS
  c1 = c1
  c2 = c2
  c3 = c3
  p1 = p1
  p2 = p2
  NoClient = NoClient
  Clients = {c1, c2}
  IPs = {p1}
  ClientIp <- MCSharedIp
  Workers = {w1, w2}
  MaxPerIp = 2
  MaxId = 3
INVARIANTS
  QuotaExact
  Indexed
  NoDangling
PROPERTIES
  KeepsPromise
