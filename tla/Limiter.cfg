SPECIFICATION FairSpec
CONSTANTS
  MaxRequests = 4
  MaxPerIp = 3
  Window = 7
  MaxHeld = 2
  Absent = Absent
INVARIANTS
  CountExact
  WindowExact
PROPERTIES
  RequestsBounded
  IdleForgotten
