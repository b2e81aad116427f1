SPECIFICATION FairSpec
CONSTANTS
  Kinds = {"tcp", "udp", "acceptor"}
  Sizes = {0, 1, 3}
  Timeouts <- AllTimeouts
  SndBuf = 2
  RcvBuf = 2
  RxBufCount = 2
  TicksPerMs = 2
  IntBits = 4
  MaxTime = 5
INVARIANTS TimeoutKept BuffersReturned
PROPERTIES ImplementsTransfer CallsReturn
