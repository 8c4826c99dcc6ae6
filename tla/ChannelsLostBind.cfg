SPECIFICATION Spec
CONSTANTS
  Channels = {n1, n2, n3}
  Peers = {q1, q2, q3}
  NoChannel = NoChannel
  NoPeer = NoPeer
  MaxChannels = 2
PROPERTY
  LiveKept
