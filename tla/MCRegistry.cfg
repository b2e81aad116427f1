SPECIFICATION FairSpec
CONSTANTS
  Tcp = {t1}
  Udp = {u1}
  Acceptors = {a1}
  Fds = {f1, f2}
  RxBufCount = 1
  MaxArrivals = 2
  MaxSends = 2
  NoFd = NoFd
INVARIANTS Aligned LiveIffRegistered NeverUnhandled RequestsMatch
PROPERTIES ArrivalsServed LeavingNoticed
CHECK_DEADLOCK FALSE
