------------------------------ MODULE Lifetime ------------------------------
(***************************************************************************)
(* Construction and destruction of addresses and sockets.  Each object     *)
(* holds guards that keep a library initialised, and resources of those    *)
(* libraries.  Any part of a constructor may throw; then, as in the        *)
(* destructor, the parts that were made are destroyed in reverse order.    *)
(* Each object is constructed and destroyed by a thread of its own; the    *)
(* guards count their instances under a mutex.                             *)
(*                                                                         *)
(* The build is the one with both libraries, on Windows and with TLS.      *)
(* Elsewhere WinSockGuard is empty and the system calls need no library.   *)
(***************************************************************************)
EXTENDS Integers, Sequences, FiniteSets

CONSTANTS
  Objects,      \* objects that exist at the same time
  Kinds,        \* what they may be
  MaxFailures,  \* times that WSAStartup fails in a behaviour
  NoObject

Libraries == {"winsock", "ssl"}

\* The parts of an object in the order of construction.  "setup" are the
\* calls that configure, bind or connect the descriptor.  An accepted
\* descriptor belongs to nobody until the socket has adopted it.  The peer's
\* address, that comes with it, is left out: it holds a guard only, and the user
\* may drop it before the socket or after.
AddressParts == <<"winsock", "info">>
SocketParts == <<"winsock", "fd">>
AcceptedUnguarded == <<"accept", "adopt">> \* mutant: the socket relies on its acceptor
AcceptedParts == <<"accept", "winsock", "adopt">>
TlsParts == SocketParts \o <<"ssl", "ctx", "session", "freectx">>
TlsAcceptorParts == SocketParts \o <<"ssl", "ctx">>

\* Mutant: the accepted session relies on the guard of its acceptor.
TlsAcceptedUnguarded == AcceptedParts \o <<"session">>

\* Mutant: the session is made before the socket that closes the descriptor.
TlsAcceptedLate == <<"accept", "winsock", "ssl", "session", "adopt">>

TlsAcceptedParts == AcceptedParts \o <<"ssl", "session">>

Configured(parts) == Append(parts, "setup")

Plan ==
  [address     |-> AddressParts,
   socket      |-> Configured(SocketParts),
   acceptor    |-> Configured(SocketParts),
   accepted    |-> Configured(AcceptedParts),
   tls         |-> Configured(TlsParts),
   tlsAcceptor |-> Configured(TlsAcceptorParts),
   tlsAccepted |-> Configured(TlsAcceptedParts)]

\* the library that is called to make a part, and whose state the part is
Library(part) == IF part \in {"ssl", "ctx", "session", "freectx"} THEN "ssl" ELSE "winsock"

Resources == {"info", "fd", "ctx", "session"}

\* kinds that come from the Accept of an object of another kind
AcceptorOf == [accepted |-> "acceptor", tlsAccepted |-> "tlsAcceptor"]

ASSUME LifetimeAssumption ==
  /\ IsFiniteSet(Objects)
  /\ NoObject \notin Objects
  /\ Kinds \subseteq DOMAIN Plan
  /\ MaxFailures \in Nat

VARIABLES
  obj,   \* object -> kind, mode, number of parts made, acceptor it comes from
  held,  \* resources in use, as pairs of the object and the name of the part
  lib    \* library -> state of UpdateInstanceCount and of the library

vars == <<obj, held, lib>>

Modes == {"none", "making", "alive", "unwinding", "dying"}

TypeOK ==
  /\ obj \in [Objects -> [kind : Kinds \cup {"none"}, mode : Modes, made : 0..7,
                          from : Objects \cup {NoObject}]]
  /\ held \subseteq Objects \X Resources
  /\ lib \in [Libraries -> [mtx : Objects \cup {NoObject}, prev : Nat, curr : Nat,
                            up : BOOLEAN, failures : 0..MaxFailures]]

Nothing == [kind |-> "none", mode |-> "none", made |-> 0, from |-> NoObject]

Init ==
  /\ obj = [o \in Objects |-> Nothing]
  /\ held = {}
  /\ lib = [l \in Libraries |->
       [mtx |-> NoObject, prev |-> 0, curr |-> 0, up |-> FALSE, failures |-> 0]]

-----------------------------------------------------------------------------
Making(o) == obj[o].mode = "making" /\ obj[o].made < Len(Plan[obj[o].kind])
Destroying(o) == obj[o].mode \in {"unwinding", "dying"} /\ obj[o].made > 0

\* the part that is being made or destroyed
Part(o) == Plan[obj[o].kind][IF Making(o) THEN obj[o].made + 1 ELSE obj[o].made]

Made(o) == obj' = [obj EXCEPT ![o].made = @ + 1]
Unmade(o) == obj' = [obj EXCEPT ![o].made = @ - 1]
Throws(o) == obj' = [obj EXCEPT ![o].mode = "unwinding"]

\* A constructor is called, of an accepted socket by Accept of a living acceptor,
\* whose guards accept() relies on.
Construct(o, kind, a) ==
  /\ obj[o].mode = "none"
  /\ IF kind \in DOMAIN AcceptorOf
     THEN /\ a # NoObject
          /\ obj[a].mode = "alive" /\ obj[a].kind = AcceptorOf[kind]
          /\ \A p \in Objects : obj[p].from # a
     ELSE a = NoObject
  /\ obj' = [obj EXCEPT ![o] = [kind |-> kind, mode |-> "making", made |-> 0, from |-> a]]
  /\ UNCHANGED <<held, lib>>

Constructed(o) ==
  /\ obj[o].mode = "making" /\ ~ Making(o)
  /\ obj' = [obj EXCEPT ![o].mode = "alive", ![o].from = NoObject]
  /\ UNCHANGED <<held, lib>>

\* A destructor is called, of an acceptor not while it accepts.
Destroy(o) ==
  /\ obj[o].mode = "alive"
  /\ \A p \in Objects : obj[p].from # o
  /\ obj' = [obj EXCEPT ![o].mode = "dying"]
  /\ UNCHANGED <<held, lib>>

\* A buffered socket has taken over the socket and fails to query the size of
\* its receive buffer: the constructor throws, and the socket is lost with it.
BufferFails(o) ==
  /\ obj[o].mode = "alive" /\ <<o, "fd">> \in held
  /\ obj[o].kind \notin {"acceptor", "tlsAcceptor"}
  /\ obj' = [obj EXCEPT ![o].mode = "unwinding"]
  /\ UNCHANGED <<held, lib>>

Gone(o) ==
  /\ obj[o].mode \in {"unwinding", "dying"} /\ obj[o].made = 0
  /\ obj' = [obj EXCEPT ![o] = Nothing]
  /\ UNCHANGED <<held, lib>>

-----------------------------------------------------------------------------
\* UpdateInstanceCount locks the mutex and counts.
Count(o, l) ==
  /\ Making(o) \/ Destroying(o)
  /\ Part(o) = l
  /\ lib[l].mtx = NoObject
  /\ lib' = [lib EXCEPT ![l].mtx = o, ![l].prev = lib[l].curr,
                        ![l].curr = @ + (IF Making(o) THEN 1 ELSE -1)]
  /\ UNCHANGED <<obj, held>>

\* Then it may be the first or the last instance, and it unlocks.
StartUp(o, l) ==
  /\ lib[l].mtx = o /\ lib[l].prev = 0 /\ lib[l].curr = 1
  /\ lib' = [lib EXCEPT ![l].mtx = NoObject, ![l].up = TRUE]
  /\ Made(o)
  /\ UNCHANGED held

\* Only WSAStartup may fail.  The count stays, as no guard has come to be
\* that would undo it.
StartUpFails(o, l) ==
  /\ l = "winsock" /\ lib[l].failures < MaxFailures
  /\ lib[l].mtx = o /\ lib[l].prev = 0 /\ lib[l].curr = 1
  /\ lib' = [lib EXCEPT ![l].mtx = NoObject, ![l].failures = @ + 1]
  /\ Throws(o)
  /\ UNCHANGED held

CleanUp(o, l) ==
  /\ lib[l].mtx = o /\ lib[l].prev = 1 /\ lib[l].curr = 0
  /\ lib' = [lib EXCEPT ![l].mtx = NoObject, ![l].up = FALSE]
  /\ Unmade(o)
  /\ UNCHANGED held

Counted(o, l) ==
  /\ lib[l].mtx = o /\ <<lib[l].prev, lib[l].curr>> \notin {<<0, 1>>, <<1, 0>>}
  /\ lib' = [lib EXCEPT ![l].mtx = NoObject]
  /\ IF Making(o) THEN Made(o) ELSE Unmade(o)
  /\ UNCHANGED held

-----------------------------------------------------------------------------
\* A library that was never initialised does nothing.
Works(part) == lib[Library(part)].up

Acquire(o) ==
  /\ Making(o) /\ Part(o) \in Resources /\ Works(Part(o))
  /\ held' = held \cup {<<o, Part(o)>>}
  /\ Made(o)
  /\ UNCHANGED lib

Setup(o) ==
  /\ Making(o) /\ Part(o) = "setup" /\ Works("setup")
  /\ Made(o)
  /\ UNCHANGED <<held, lib>>

MakeFails(o) ==
  /\ Making(o) /\ Part(o) \in Resources \cup {"setup"}
  /\ Throws(o)
  /\ UNCHANGED <<held, lib>>

\* accept() yields a descriptor, or an invalid one, which only the
\* constructor of the socket looks at.
Accept(o) ==
  /\ Making(o) /\ Part(o) = "accept"
  /\ \/ Works("accept") /\ held' = held \cup {<<o, "fd">>}
     \/ UNCHANGED held
  /\ Made(o)
  /\ UNCHANGED lib

Adopt(o) ==
  /\ Making(o) /\ Part(o) = "adopt"
  /\ IF <<o, "fd">> \in held THEN Made(o) ELSE Throws(o)
  /\ UNCHANGED <<held, lib>>

\* The session keeps the context; the handle to it was a temporary.
FreeCtx(o) ==
  /\ Making(o) /\ Part(o) = "freectx"
  /\ held' = held \ {<<o, "ctx">>}
  /\ Made(o)
  /\ UNCHANGED lib

\* what the destructor of a part releases: nothing for a mere call
Owned(part) == IF part = "adopt" THEN {"fd"} ELSE {part} \cap Resources

Release(o) ==
  /\ Destroying(o) /\ Part(o) \notin Libraries
  /\ held' = held \ ({o} \X Owned(Part(o)))
  /\ Unmade(o)
  /\ UNCHANGED lib

Update(o, l) ==
  Count(o, l) \/ StartUp(o, l) \/ StartUpFails(o, l) \/ CleanUp(o, l) \/ Counted(o, l)

Next ==
  \E o \in Objects :
    \/ \E kind \in Kinds, a \in Objects \cup {NoObject} : Construct(o, kind, a)
    \/ Constructed(o) \/ Destroy(o) \/ BufferFails(o) \/ Gone(o)
    \/ \E l \in Libraries : Update(o, l)
    \/ Acquire(o) \/ Setup(o) \/ MakeFails(o)
    \/ Accept(o) \/ Adopt(o) \/ FreeCtx(o) \/ Release(o)

Spec == Init /\ [][Next]_vars

-----------------------------------------------------------------------------
\* Wherever a library is called, by a constructor or with a resource that a
\* constructor has left to use, shut down and release, the library is
\* initialised: unless its start-up has failed, which no later guard repeats.
\* This takes the guard to be the first member, the acceptor to outlive the calls
\* made for a client, and the mutex to be kept until the library has followed the
\* count (socket_impl.h:25, ssl_guard.cpp:70).
Called(o) ==
  {Library(part) : part \in {r \in Resources : <<o, r>> \in held}
                    \cup (IF Making(o) THEN {Part(o)} \ Libraries ELSE {})}

Initialised ==
  \A o \in Objects : \A l \in Called(o) : lib[l].up \/ lib[l].failures > 0

\* The guards of l that exist, each by its object and its place in the plan.
Guards(l) ==
  {g \in Objects \X (1..7) : LET o == g[1] IN g[2] <= obj[o].made /\ Plan[obj[o].kind][g[2]] = l}

\* However constructors end, nothing is left of an object that is gone, and
\* the counts are those of the guards that exist; of each failed start-up one
\* instance remains.  A library is up just while it is counted.
NothingLeaks ==
  /\ \A o \in Objects : obj[o].mode = "none" => \A r \in Resources : <<o, r>> \notin held
  /\ \A l \in Libraries : lib[l].mtx = NoObject =>
       /\ lib[l].curr = Cardinality(Guards(l)) + lib[l].failures
       /\ lib[l].failures = 0 => (lib[l].up <=> lib[l].curr > 0)

=============================================================================
