SPECIFICATION FairSpec
CONSTANTS
  Senders = {s1, s2}
  Messages = {m1, m2, m3}
  Kinds <- AnySocket
  Size = 2
  SndBuf = 2
  MaxInbound = 1
  PeerCloses = TRUE
INVARIANTS ArmedIffQueued NoUncalledSend WireInOrder PromiseHonest
PROPERTIES SettledOnce EverySendSettles
CHECK_DEADLOCK FALSE
