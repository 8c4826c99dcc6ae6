SPECIFICATION Spec
CONSTANTS
  Allocs = {a1, a2}
  IPs = {relay, x}
  RelayIp = relay
  Addrs = {x1}
  ClientIp <- MCClientIpApart
  AddrIp <- MCAddrIp
  MaxPermissions = 1
  AsksFor <- MCAsksForAll
  Pinging = {a1, a2}
  MaxRequested = 2
  None = None
  a1 = a1
  relay = relay
  x = x
  y = y
INVARIANT
  PermittedPeerHeard
