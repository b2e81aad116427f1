-------------------------------- MODULE Registry --------------------------------
(***************************************************************************)
(* The asynchronous sockets of one driver: how they are registered with    *)
(* it, polled, served and taken away again.  The driver keeps two vectors, *)
(* sockets and pfds, changed separately and searched by descriptor, while  *)
(* the system hands a descriptor that was closed to the next socket that   *)
(* is opened, by whichever thread.                                         *)
(*                                                                         *)
(* Registering, unregistering and sending take a PauseGuard: by the        *)
(* Contract they are single steps, between steps of the driver or in a     *)
(* handler.  Opening and closing descriptors, dropping buffers and what    *)
(* peers do may happen at any time.                                        *)
(***************************************************************************)
EXTENDS Naturals, Sequences

CONSTANTS
  Tcp, Udp, Acceptors,  \* objects: SocketTcpAsync, SocketUdpAsync, AcceptorAsync
  Fds,                  \* descriptors that the system hands out
  RxBufCount,           \* limit of each socket's receive buffers
  MaxArrivals,          \* bound: messages and connections that arrive in all
  MaxSends,             \* bound: messages given to send in all
  NoFd                  \* the descriptor of an object that has none

ASSUME ObjectsAssumption == /\ Tcp \cap Udp = {}
                            /\ Acceptors \cap (Tcp \cup Udp) = {}
                            /\ Tcp \cap {"out", "ready", "callback"} = {}
ASSUME LimitsAssumption  == RxBufCount \in Nat \ {0} /\ MaxArrivals \in Nat /\ MaxSends \in Nat
ASSUME NoFdAssumption    == NoFd \notin Fds

VARIABLES
  sockets,   \* DriverImpl::sockets: objects
  pfds,      \* DriverImpl::pfds, the signalling pipe's left out
  stage,     \* of an object's life: see Stages
  fd,        \* SocketImpl::fd of an object
  unsent,    \* messages in an object's send queue
  sends,     \* messages given to all objects so far
  held,      \* receive buffers of an object that the user holds
  inbound,   \* messages or connections that wait for an object
  arrived,   \* those that have arrived for all so far
  peer,      \* a TCP peer: "open", "closed" or "reset"; "none" can reach an acceptor
             \* that does not listen yet
  driver,    \* "out" of a step or in poll, "ready" to serve, in a "callback", or, if it
             \* is onReceive of a TCP object, that object
  revents    \* what poll has reported of each pollfd, while the driver is ready

list == <<sockets, pfds, revents>>
life == <<stage, fd>>
user == <<unsent, sends, held>>
net  == <<inbound, arrived, peer>>
vars == <<list, life, user, net, driver>>

Objects == Tcp \cup Udp \cup Acceptors

\* "open" has a descriptor, "live" is registered, "disconnected" has been taken from
\* the driver and told the user, "dying" has run the body of its destructor.
Stages == {"new", "open", "live", "disconnected", "dying", "dead"}
HasFdUntilDisconnect == {"open", "live", "dying"} \* mutant: the disconnect closes
HasFd == {"open", "live", "disconnected", "dying"}

OpenFds == {fd[o] : o \in {p \in Objects : stage[p] \in HasFd}}
Exhausted == Fds \subseteq OpenFds

Init == /\ sockets = <<>>
        /\ pfds = <<>>
        /\ stage = [o \in Objects |-> "new"]
        /\ fd = [o \in Objects |-> NoFd]
        /\ unsent = [o \in Objects |-> 0]
        /\ sends = 0
        /\ held = [o \in Objects |-> 0]
        /\ inbound = [o \in Objects |-> 0]
        /\ arrived = 0
        /\ peer = [o \in Objects |-> IF o \in Acceptors THEN "none" ELSE "open"]
        /\ driver = "out"
        /\ revents = <<>>

\* Whoever needs stepMtx gets it between steps, or in a handler.
Outside == driver # "ready"

-------------------------------------------------------------------------------
(* Life of an object. *)

\* The system chooses a descriptor that is not in use.
Opened(o) == \E f \in Fds \ OpenFds :
               /\ fd' = [fd EXCEPT ![o] = f]
               /\ stage' = [stage EXCEPT ![o] = "open"]

\* A socket is opened, bound or connected.
Open(o) == /\ stage[o] = "new"
           /\ Opened(o)
           /\ UNCHANGED <<list, user, net, driver>>

\* SocketAsyncImpl::SocketAsyncImpl, AsyncRegister.
Register(o) == /\ Outside
               /\ stage[o] = "open"
               /\ stage' = [stage EXCEPT ![o] = "live"]
               /\ sockets' = Append(sockets, o)
               /\ pfds' = Append(pfds, [fd |-> fd[o], out |-> FALSE])
               /\ UNCHANGED <<revents, fd, user, net, driver>>

\* AcceptorAsync::AcceptorAsync listens when it has been registered.
Listen(o) == /\ stage[o] = "live" /\ peer[o] = "none"
             /\ peer' = [peer EXCEPT ![o] = "open"]
             /\ UNCHANGED <<list, life, user, inbound, arrived, driver>>

\* What is left of q without the first of the elements at I, if there is one.
WithoutFirst(q, I) ==
  IF I = {} THEN q
  ELSE LET n == CHOOSE i \in I : \A j \in I : i <= j
       IN  SubSeq(q, 1, n - 1) \o SubSeq(q, n + 1, Len(q))

SocketsWith(f) == {i \in DOMAIN sockets : fd[sockets[i]] = f}
PfdsWith(f)    == {i \in DOMAIN pfds : pfds[i].fd = f}

\* Mutant: the pollfd is forgotten.
EraseSocketOnly(f) == /\ sockets' = WithoutFirst(sockets, SocketsWith(f))
                      /\ pfds' = pfds

\* AsyncUnregister: either vector is searched for the descriptor.
Erase(f) == /\ sockets' = WithoutFirst(sockets, SocketsWith(f))
            /\ pfds' = WithoutFirst(pfds, PfdsWith(f))

\* ~SocketAsyncImpl, its body.  The user has released all receive buffers.
Unregister(o) == /\ Outside
                 /\ stage[o] \in {"live", "disconnected"}
                 /\ held[o] = 0
                 /\ Erase(fd[o])
                 /\ stage' = [stage EXCEPT ![o] = "dying"]
                 /\ UNCHANGED <<revents, fd, user, net, driver>>

\* Mutant: a socket may be destroyed without being unregistered.
CloseLive(o) == /\ stage[o] \in {"open", "live", "dying"}
                /\ stage' = [stage EXCEPT ![o] = "dead"]
                /\ fd' = [fd EXCEPT ![o] = NoFd]
                /\ UNCHANGED <<list, user, net, driver>>

\* ~SocketAsyncImpl, its members, the descriptor last; or a socket never registered.
\* The system forgets what waits for it.
Close(o) == /\ stage[o] \in {"open", "dying"}
            /\ stage' = [stage EXCEPT ![o] = "dead"]
            /\ fd' = [fd EXCEPT ![o] = NoFd]
            /\ unsent' = [unsent EXCEPT ![o] = 0]
            /\ inbound' = [inbound EXCEPT ![o] = 0]
            /\ peer' = [peer EXCEPT ![o] = "open"]
            /\ UNCHANGED <<list, sends, held, arrived, driver>>

\* Send or SendTo: the socket asks for POLLOUT if its queue was empty.  SendQueue has
\* what can come between the two.
Send(o) == /\ Outside
           /\ stage[o] = "live" /\ o \notin Acceptors
           /\ sends < MaxSends
           /\ sends' = sends + 1
           /\ unsent' = [unsent EXCEPT ![o] = @ + 1]
           /\ pfds' = [i \in DOMAIN pfds |->
                         IF pfds[i].fd = fd[o] /\ unsent[o] = 0
                           THEN [pfds[i] EXCEPT !.out = TRUE] ELSE pfds[i]]
           /\ UNCHANGED <<sockets, revents, life, held, net, driver>>

\* The user releases a buffer: it returns to the pool.
Drop(o) == /\ held[o] > 0
           /\ held' = [held EXCEPT ![o] = @ - 1]
           /\ UNCHANGED <<list, life, unsent, sends, net, driver>>

-------------------------------------------------------------------------------
(* The driver's thread. *)

\* What poll reports of p; a closed descriptor is invalid, and a TCP socket that neither
\* listens nor is connected hangs up.
Revents(p) ==
  IF p.fd \notin OpenFds THEN {"POLLNVAL"}
  ELSE LET o == CHOOSE u \in Objects : stage[u] \in HasFd /\ fd[u] = p.fd
       IN  (IF inbound[o] > 0 \/ peer[o] = "closed" THEN {"POLLIN"} ELSE {})
           \cup (IF p.out THEN {"POLLOUT"} ELSE {})
           \cup (IF peer[o] = "reset" THEN {"POLLERR"} ELSE {})
           \cup (IF peer[o] = "none" THEN {"POLLHUP"} ELSE {})

\* StepSockets, if poll finds a socket ready.  One that finds the pipe readable, or
\* nothing in time, lets clients in and changes nothing here.
Poll == /\ driver = "out"
        /\ \E i \in DOMAIN pfds : Revents(pfds[i]) # {}
        /\ revents' = [i \in DOMAIN pfds |-> Revents(pfds[i])]
        /\ driver' = "ready"
        /\ UNCHANGED <<sockets, pfds, life, user, net>>

KnownNoErrors == {"POLLIN", "POLLOUT"} \* mutant
Known == {"POLLIN", "POLLOUT", "POLLERR", "POLLHUP"}

\* DoOneSocketTask serves the first object with an event that it knows, and none
\* after; where it goes from there is next.
Serves(i, next) == /\ driver = "ready"
                   /\ i \in DOMAIN sockets
                   /\ revents[i] \cap Known # {}
                   /\ \A j \in 1..i - 1 : revents[j] \cap Known = {}
                   /\ driver' = next
                   /\ revents' = <<>>

Readable(i) == "POLLIN" \in revents[i]

\* DriverReceive, DriverReceiveFrom: a message, in a buffer of the pool.
Receive(i) == LET o == sockets[i]
              IN  /\ Serves(i, IF o \in Tcp THEN o ELSE "callback")
                  /\ Readable(i)
                  /\ o \notin Acceptors
                  /\ held[o] < RxBufCount
                  /\ inbound[o] > 0
                  /\ inbound' = [inbound EXCEPT ![o] = @ - 1]
                  /\ held' = [held EXCEPT ![o] = @ + 1]
                  /\ UNCHANGED <<sockets, pfds, life, unsent, sends, arrived, peer>>

\* DriverConnect: the handler gets a new socket, and keeps it or not.
Accept(i) == LET o == sockets[i]
             IN  /\ Serves(i, "callback")
                 /\ Readable(i)
                 /\ o \in Acceptors
                 /\ ~Exhausted
                 /\ inbound' = [inbound EXCEPT ![o] = @ - 1]
                 /\ \/ \E s \in Tcp : stage[s] = "new" /\ Opened(s)
                    \/ UNCHANGED life
                 /\ UNCHANGED <<sockets, pfds, user, arrived, peer>>

\* DriverConnect: accept fails and the error is discarded.  Either the peer has given
\* up, or there is no descriptor left and the connection goes on waiting.
AcceptFails(i) == LET o == sockets[i]
                  IN  /\ Serves(i, "out")
                      /\ Readable(i)
                      /\ o \in Acceptors
                      /\ inbound' = IF Exhausted THEN inbound
                                                 ELSE [inbound EXCEPT ![o] = @ - 1]
                      /\ UNCHANGED <<sockets, pfds, life, user, arrived, peer>>

\* There is an error to report: the connection is closed or reset, the pool is out of
\* buffers, or an acceptor does not listen yet.
Fails(i) == LET o == sockets[i]
            IN  IF Readable(i)
                THEN o \notin Acceptors /\ (held[o] = RxBufCount \/ inbound[o] = 0)
                ELSE "POLLOUT" \notin revents[i]

\* onError of a TCP socket, DriverDisconnect: unregister, then tell the user.
Disconnect(i) == LET o == sockets[i]
                 IN  /\ Serves(i, "callback")
                     /\ Fails(i)
                     /\ o \in Tcp
                     /\ Erase(fd[o])
                     /\ stage' = [stage EXCEPT ![o] = "disconnected"]
                     /\ UNCHANGED <<fd, user, net>>

\* Mutant: a UDP socket is unregistered on errors, too.
DiscardUnregisters(i) == /\ Serves(i, "out")
                         /\ Fails(i)
                         /\ sockets[i] \in Udp
                         /\ Erase(fd[sockets[i]])
                         /\ UNCHANGED <<life, user, net>>

\* onError of a UDP socket or an acceptor: nothing.
Discard(i) == /\ Serves(i, "out")
              /\ Fails(i)
              /\ sockets[i] \in Udp \cup Acceptors
              /\ UNCHANGED <<sockets, pfds, life, user, net>>

\* Mutant: POLLOUT is cleared with every message.
WriteClears(i) == LET o == sockets[i]
                  IN  /\ Serves(i, "out")
                      /\ ~Readable(i)
                      /\ "POLLOUT" \in revents[i]
                      /\ unsent' = [unsent EXCEPT ![o] = @ - 1]
                      /\ pfds' = [pfds EXCEPT ![i].out = FALSE]
                      /\ UNCHANGED <<sockets, life, sends, held, net>>

\* DriverOnWritable sends a message; POLLOUT is cleared with the last one, in the
\* pollfd at hand.
Write(i) == LET o == sockets[i]
            IN  /\ Serves(i, "out")
                /\ ~Readable(i)
                /\ "POLLOUT" \in revents[i]
                /\ unsent' = [unsent EXCEPT ![o] = @ - 1]
                /\ pfds' = [pfds EXCEPT ![i].out = unsent[o] > 1]
                /\ UNCHANGED <<sockets, life, sends, held, net>>

\* onReceive throws a runtime_error of its own: it is taken for one of the socket,
\* which is connected.  A handler that destroyed its socket must not throw.
HandlerThrows(o) == /\ driver = o
                    /\ stage[o] = "live"
                    /\ Erase(fd[o])
                    /\ stage' = [stage EXCEPT ![o] = "disconnected"]
                    /\ driver' = "callback"
                    /\ UNCHANGED <<revents, fd, user, net>>

\* The handler returns.
EndCallback == /\ driver \notin {"out", "ready"}
               /\ driver' = "out"
               /\ UNCHANGED <<list, life, user, net>>

-------------------------------------------------------------------------------
(* Peers. *)

Reachable(o) == stage[o] \in {"open", "live"} /\ peer[o] = "open"

Arrive(o) == /\ Reachable(o)
             /\ arrived < MaxArrivals
             /\ arrived' = arrived + 1
             /\ inbound' = [inbound EXCEPT ![o] = @ + 1]
             /\ UNCHANGED <<list, life, user, peer, driver>>

PeerLeaves(o) == /\ Reachable(o)
                 /\ o \in Tcp
                 /\ \E how \in {"closed", "reset"} : peer' = [peer EXCEPT ![o] = how]
                 /\ UNCHANGED <<list, life, user, inbound, arrived, driver>>

-------------------------------------------------------------------------------
Serve == \E i \in DOMAIN sockets : \/ Receive(i) \/ Accept(i) \/ AcceptFails(i)
                                   \/ Disconnect(i) \/ Discard(i) \/ Write(i)

Next == \/ Poll \/ Serve \/ EndCallback
        \/ \E o \in Tcp : HandlerThrows(o)
        \/ \E o \in Objects : \/ Open(o) \/ Register(o) \/ Listen(o) \/ Unregister(o) \/ Close(o)
                              \/ Send(o) \/ Drop(o) \/ Arrive(o) \/ PeerLeaves(o)

Spec == Init /\ [][Next]_vars

\* The driver runs; it yields to finitely many calls and looks at the sockets in the
\* end; handlers and constructors return and the user releases buffers.  Nobody has to
\* open, close, send or arrive.
FairSpec == /\ Spec
            /\ SF_vars(Poll) /\ WF_vars(Serve) /\ WF_vars(EndCallback)
            /\ \A o \in Objects : WF_vars(Drop(o)) /\ WF_vars(Listen(o))

-------------------------------------------------------------------------------
(* Invariants. *)

TypeOK == /\ sockets \in Seq(Objects)
          /\ pfds \in Seq([fd : Fds, out : BOOLEAN])
          /\ revents \in Seq(SUBSET {"POLLIN", "POLLOUT", "POLLERR", "POLLHUP", "POLLNVAL"})
          /\ stage \in [Objects -> Stages]
          /\ fd \in [Objects -> Fds \cup {NoFd}]
          /\ unsent \in [Objects -> 0..MaxSends]
          /\ sends \in 0..MaxSends
          /\ held \in [Objects -> 0..RxBufCount]
          /\ inbound \in [Objects -> 0..MaxArrivals]
          /\ arrived \in 0..MaxArrivals
          /\ peer \in [Objects -> {"open", "closed", "reset", "none"}]
          /\ driver \in {"out", "ready", "callback"} \cup Tcp

\* The assertions of QuerySockets and DoOneSocketTask: the two vectors, searched and
\* changed separately, are aligned, whatever was unregistered in a handler or twice,
\* and however descriptors were used again.
Aligned == /\ Len(sockets) = Len(pfds)
           /\ \A i \in DOMAIN sockets : pfds[i].fd = fd[sockets[i]]

\* Exactly the live objects are registered, once each: none is polled or called after
\* it was destroyed or its disconnect was reported, and the destructor of one that
\* was disconnected before does not unregister another that has its descriptor now.
LiveIffRegistered ==
  /\ \A o \in Objects : stage[o] = "live" <=> \E i \in DOMAIN sockets : sockets[i] = o
  /\ \A i, j \in DOMAIN sockets : sockets[i] = sockets[j] => i = j

\* poll is never given a descriptor that is closed, or belongs to another socket by
\* now, and reports nothing that the loop passes over: "unhandled poll event" is not
\* thrown.
NeverUnhandled == driver = "ready" => \E i \in DOMAIN sockets : revents[i] \cap Known # {}

\* Every POLLOUT request belongs to the socket that made it.
RequestsMatch == \A i \in DOMAIN sockets : pfds[i].out <=> unsent[sockets[i]] > 0

-------------------------------------------------------------------------------
(* Liveness. *)

\* An acceptor has no descriptor to accept with: it stays ready, and may starve those
\* behind it.
AcceptorSpins == Exhausted /\ \E a \in Acceptors : stage[a] = "live" /\ inbound[a] > 0

\* What arrives for a live socket is received, if no acceptor spins for ever, although
\* one socket only is served per step, the first that is ready: the others get their
\* turn when it is quiet, which it is in the end as the bounds keep traffic finite.
ArrivalsServed ==
  \A o \in Tcp \cup Udp : inbound[o] > 0 /\ stage[o] = "live"
                          ~> inbound[o] = 0 \/ stage[o] # "live" \/ []AcceptorSpins

\* A peer that has left is noticed, behind the other sockets and the messages it left.
LeavingNoticed ==
  \A o \in Tcp : peer[o] # "open" /\ stage[o] = "live" ~> stage[o] # "live" \/ []AcceptorSpins
===============================================================================
