SPECIFICATION FairSpec
CONSTANTS
  Sec = 2
  Timeout = 4
  MaxLifetime = 2
  MinLifetime = 1
  MaxSend = 1
PROPERTIES
  LifetimeKept
  KeepaliveKept
  WaitingKept
  OrphansReaped
