\* Three objects: an acceptor, a client it accepts and another, all of any kind.
SPECIFICATION Spec
CONSTANTS
  Objects = {o1, o2, o3}
  Kinds = {"address", "socket", "acceptor", "accepted", "tls", "tlsAcceptor", "tlsAccepted"}
  MaxFailures = 1
  NoObject = NoObject
SYMMETRY Anyone
INVARIANT Initialised
INVARIANT NothingLeaks
