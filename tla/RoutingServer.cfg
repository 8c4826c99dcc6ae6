SPECIFICATION Spec
CONSTANTS
  Allocs = {a1, a2}
  IPs = {relay, x, y}
  RelayIp = relay
  Addrs = {x1}
  ClientIp <- MCClientIp
  AddrIp <- MCAddrIp
  MaxPermissions = 1
  AsksFor <- MCAsksFor
  Pinging <- MCPinging
  MaxRequested = 2
  None = None
  a1 = a1
  relay = relay
  x = x
  y = y
INVARIANTS
  CapRespected
  PermissionsIndexed
  PermissionsOwned
  TuplesOwned
