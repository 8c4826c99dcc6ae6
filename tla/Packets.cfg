SPECIFICATION AnswersSpec
CONSTANTS
  Nil = Nil
  Lengths = {0, 1, 3, 4, 8, 11, 12, 19, 20, 28, 60}
  Firsts = {0, 3, 4, 19, 20, 25, 26, 63, 64, 127, 128, 129, 159, 191, 192, 255}
  Seconds = {0, 96, 111, 199, 200, 201, 202, 203, 204, 205, 254}
  Fields = {0, 1, 6, 8, 40}
  Payloads = {0, 1, 20}
  MaxAttrs = 3
  MaxDatagram = 65507
  Ports <- MCPorts
  Ips <- MCIps
  TxnIds <- MCTxnIds
INVARIANTS
  MediaRecognised
  ReadersAgree
  DataPathsAgree
  AnswersRead
  FramesParse
