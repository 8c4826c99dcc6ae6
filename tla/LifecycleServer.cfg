SPECIFICATION FairSpec
CONSTANTS
  c1 = c1
  c2 = c2
  c3 = c3
  p1 = p1
  p2 = p2
  NoClient = NoClient
  Clients = {c1, c2, c3}
  IPs = {p1, p2}
  ClientIp <- MCClientIp
  Workers = {w1}
  MaxPerIp = 1
  MaxId = 3
PROPERTIES
  KeepsSlots
  RequestsAnswered
  LapsedReaped
  SlotsReturned
