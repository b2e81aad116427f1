SPECIFICATION Spec
CONSTANTS
  Senders = {s1}
  Messages = {m1}
  Kinds <- TcpSocket
  Size = 1
  SndBuf = 1
  MaxInbound = 0
  PeerCloses = TRUE
INVARIANT SendIsSafe
CHECK_DEADLOCK FALSE
