------------------------------- MODULE SendQueue -------------------------------
(***************************************************************************)
(* The send side of one asynchronous socket (SocketAsyncImpl) attached to  *)
(* a driver: any thread enqueues messages and gets a future, the driver's  *)
(* thread writes them when poll says that the socket is writable.          *)
(*                                                                         *)
(* Two mutexes guard the two halves of the state: sendQMtx the queue,      *)
(* stepMtx the pollfd with its POLLOUT request.  The property of interest  *)
(* is that the two halves agree although no thread ever holds both when it *)
(* enqueues.  Every critical section of sendQMtx is one step.  The driver  *)
(* is taken by its Contract: operations that need a PauseGuard happen      *)
(* between steps ("out"), wake a blocking poll and are served at last.     *)
(***************************************************************************)
EXTENDS Naturals, Sequences, FiniteSets

CONSTANTS
  Senders,     \* threads that call Send() or SendTo()
  Messages,    \* what they send, each at most once
  Kinds,       \* what the socket may be: TRUE for TCP, FALSE for UDP
  Size,        \* units (bytes, abstracted) of a message
  SndBuf,      \* units the kernel's send buffer holds
  MaxInbound,  \* bound: messages that arrive for the user's receive handler
  PeerCloses   \* whether the peer of a TCP socket may close the connection

ASSUME MessageAssumption == Size \in Nat \ {0} /\ SndBuf \in Nat \ {0}
ASSUME BoundAssumption   == MaxInbound \in Nat
ASSUME KindAssumption    == Kinds \subseteq BOOLEAN /\ PeerCloses \in BOOLEAN

VARIABLES
  stream,      \* whether sendQ is a SendQ (TCP) or a SendToQ (UDP)
  sendQ,       \* messages waiting, oldest first; guarded by sendQMtx
  left,        \* units of each message that the kernel has not accepted
  promise,     \* the state of each message's promise
  pollOut,     \* whether the pollfd requests POLLOUT; guarded by stepMtx
  object,      \* "live", "disconnected" and unregistered, or "destroyed"
  pc,          \* senders: "wantSend" between enqueueing and AsyncWantSend
  driver,      \* the driver: "out" of a step, in "poll", a "callback", or in "clear"
               \* after DriverOnWritable reported an emptied queue
  peerGone,    \* whether the peer has closed the connection
  inbound,     \* messages that wait in the kernel's receive buffer
  arrived,     \* messages that have arrived so far
  kernel,      \* units in the kernel's send buffer
  wire,        \* every unit the kernel accepted, by message, in order
  accepted,    \* every message, in the order of DoSendEnqueue
  aborted      \* whether an assertion has failed

queue == <<sendQ, left, promise, wire, accepted, kernel>>
net   == <<stream, peerGone, inbound, arrived>>
vars  == <<queue, pollOut, object, pc, driver, net, aborted>>

Settled == {"value", "error", "broken"}

Init == /\ stream \in Kinds
        /\ sendQ = <<>>
        /\ left = [m \in Messages |-> Size]
        /\ promise = [m \in Messages |-> "none"]
        /\ pollOut = FALSE
        /\ object = "live"
        /\ pc = [c \in Senders |-> "idle"]
        /\ driver = "out"
        /\ peerGone = FALSE
        /\ inbound = 0
        /\ arrived = 0
        /\ kernel = 0
        /\ wire = <<>>
        /\ accepted = <<>>
        /\ aborted = FALSE

\* No thread is between enqueueing and AsyncWantSend.
NobodyWants == \A c \in Senders : pc[c] = "idle"

-------------------------------------------------------------------------------
(* Senders. *)

\* DoSendEnqueue, under sendQMtx.  The user sends on a connected socket only.
Enqueue(m) == /\ ~aborted
              /\ object = "live"
              /\ promise[m] = "none"
              /\ sendQ' = Append(sendQ, m)
              /\ accepted' = Append(accepted, m)
              /\ promise' = [promise EXCEPT ![m] = "pending"]
              /\ UNCHANGED <<left, wire, kernel>>

\* Mutant: looks whether the queue was empty after the message is in it.
SendLooksLate(c, m) == /\ pc[c] = "idle"
                       /\ Enqueue(m)
                       /\ pc' = [pc EXCEPT ![c] = IF sendQ' = <<>> THEN "wantSend" ELSE "idle"]
                       /\ UNCHANGED <<pollOut, object, driver, net, aborted>>

\* DoSend up to the point where it needs stepMtx, if it does.
Send(c, m) == /\ pc[c] = "idle"
              /\ Enqueue(m)
              /\ pc' = [pc EXCEPT ![c] = IF sendQ = <<>> THEN "wantSend" ELSE "idle"]
              /\ UNCHANGED <<pollOut, object, driver, net, aborted>>

\* AsyncWantSend: request POLLOUT in the socket's pollfd; its assertion that there
\* is one fails when the socket has been unregistered meanwhile.
RequestPollOut == IF object = "live"
                    THEN pollOut' = TRUE /\ UNCHANGED aborted
                    ELSE aborted' = TRUE /\ UNCHANGED pollOut

WantSend(c) == /\ ~aborted
               /\ driver = "out"
               /\ pc[c] = "wantSend"
               /\ RequestPollOut
               /\ pc' = [pc EXCEPT ![c] = "idle"]
               /\ UNCHANGED <<queue, object, driver, net>>

\* ~SocketAsyncImpl: AsyncUnregister, then the members go, the queue with its
\* promises among them.  The user sees to it that nobody is inside Send() then.
\* It needs stepMtx: from another thread between steps, or in a callback.
Destroy == /\ ~aborted
           /\ driver \in {"out", "callback"}
           /\ \A c \in Senders : pc[c] = "idle"
           /\ object # "destroyed"
           /\ object' = "destroyed"
           /\ pollOut' = FALSE
           /\ sendQ' = <<>>
           /\ promise' = [m \in Messages |->
                            IF promise[m] = "pending" THEN "broken" ELSE promise[m]]
           /\ UNCHANGED <<left, wire, accepted, kernel, pc, driver, net, aborted>>

-------------------------------------------------------------------------------
(* The driver's thread, the only one that writes to the socket. *)

\* POLLIN is looked at before POLLOUT.
Readable == object = "live" /\ (inbound > 0 \/ peerGone)
Writable == object = "live" /\ pollOut /\ (stream => kernel < SndBuf)

Wants == {c \in Senders : pc[c] = "wantSend"}

Poll == /\ ~aborted
        /\ driver = "out"
        /\ driver' = "poll"
        /\ UNCHANGED <<queue, pollOut, object, pc, net, aborted>>

\* A PauseGuard's datagram is looked at before the socket; else there was a timeout.
PollYields == /\ driver = "poll"
              /\ Wants # {} \/ ~(Readable \/ Writable)
              /\ driver' = "out"
              /\ UNCHANGED <<queue, pollOut, object, pc, net, aborted>>

\* DriverReceive, DriverReceiveFrom: the user's handler gets a message.
Receive == /\ driver = "poll"
           /\ object = "live"
           /\ inbound > 0
           /\ inbound' = inbound - 1
           /\ driver' = "callback"
           /\ UNCHANGED <<queue, pollOut, object, pc, stream, peerGone, arrived, aborted>>

\* The receive fails, or poll reports an error: DriverDisconnect unregisters the
\* socket and calls the user's handler.
Disconnect == /\ driver = "poll"
              /\ object = "live"
              /\ inbound = 0 /\ peerGone
              /\ object' = "disconnected"
              /\ pollOut' = FALSE
              /\ driver' = "callback"
              /\ UNCHANGED <<queue, pc, net, aborted>>

\* A handler sends on the driver's thread, where AsyncWantSend does not wait.
CallbackSend(m) == /\ driver = "callback"
                   /\ Enqueue(m)
                   /\ IF sendQ = <<>> THEN RequestPollOut ELSE UNCHANGED <<pollOut, aborted>>
                   /\ UNCHANGED <<object, pc, driver, net>>

EndCallback == /\ ~aborted
               /\ driver = "callback"
               /\ driver' = "out"
               /\ UNCHANGED <<queue, pollOut, object, pc, net, aborted>>

\* DriverOnWritable runs, under sendQMtx, when nothing is to be read.  The queue
\* cannot be empty then: NoUncalledSend.
OnWritable == /\ driver = "poll"
              /\ Writable /\ ~Readable
              /\ sendQ # <<>>
              /\ UNCHANGED <<accepted, pollOut, object, pc, net, aborted>>

\* Mutant: POLLOUT is kept although the queue has been emptied.
PoppedKeepsPollOut == /\ sendQ' = Tail(sendQ)
                      /\ driver' = "out"

\* Mutant: the size is taken before popping but compared as if after it.
PoppedOffByOne == /\ sendQ' = Tail(sendQ)
                  /\ driver' = IF Len(sendQ) <= 2 THEN "clear" ELSE "out"

\* What DriverOnWritable returns once it has popped the front: whether that was all.
Popped == /\ sendQ' = Tail(sendQ)
          /\ driver' = IF Len(sendQ) = 1 THEN "clear" ELSE "out"

\* What the kernel may accept of n units: TCP takes what fits, UDP all.
Portions(n) == IF stream THEN {k \in 1..n : kernel + k <= SndBuf} ELSE {n}

\* Mutant: what was sent is not erased from the message.
AcceptKeeps(m, k) == /\ wire' = wire \o [i \in 1..k |-> m]
                     /\ kernel' = IF stream THEN kernel + k ELSE kernel
                     /\ UNCHANGED left

\* The kernel accepts k units of m.
Accept(m, k) == /\ left' = [left EXCEPT ![m] = @ - k]
                /\ wire' = wire \o [i \in 1..k |-> m]
                /\ kernel' = IF stream THEN kernel + k ELSE kernel

\* DriverSend, DriverSendTo: the front is sent whole, its promise is fulfilled.
SendAll == /\ OnWritable
           /\ LET m == Head(sendQ)
              IN  /\ left[m] \in Portions(left[m])
                  /\ Accept(m, left[m])
                  /\ promise' = [promise EXCEPT ![m] = "value"]
           /\ Popped

\* Mutant: a part sent fulfils the promise.
SendPartFulfils == /\ OnWritable
                   /\ LET m == Head(sendQ)
                      IN  /\ \E k \in Portions(left[m]) \ {left[m]} : Accept(m, k)
                          /\ promise' = [promise EXCEPT ![m] = "value"]
                   /\ Popped

\* DriverSend: a part is sent and erased, the front stays.
SendPart == /\ OnWritable
            /\ LET m == Head(sendQ)
               IN  \E k \in Portions(left[m]) \ {left[m]} : Accept(m, k)
            /\ driver' = "out"
            /\ UNCHANGED <<sendQ, promise>>

\* Mutant: a message that failed is tried again.
SendFailsRetries == /\ OnWritable
                    /\ stream => PeerCloses
                    /\ promise' = [promise EXCEPT ![Head(sendQ)] = "error"]
                    /\ driver' = "out"
                    /\ UNCHANGED <<sendQ, left, wire, kernel>>

\* The send fails: the exception goes to the promise and the next is tried later.
SendFails == /\ OnWritable
             /\ stream => PeerCloses
             /\ promise' = [promise EXCEPT ![Head(sendQ)] = "error"]
             /\ Popped
             /\ UNCHANGED <<left, wire, kernel>>

\* DoOneSocketTask clears POLLOUT after DriverOnWritable has released sendQMtx.
ClearPollOut == /\ ~aborted
                /\ driver = "clear"
                /\ pollOut' = FALSE
                /\ driver' = "out"
                /\ UNCHANGED <<queue, object, pc, net, aborted>>

-------------------------------------------------------------------------------
(* The network. *)

\* The peer reads a unit.
Drain == /\ kernel > 0
         /\ kernel' = kernel - 1
         /\ UNCHANGED <<sendQ, left, promise, wire, accepted, pollOut, object, pc,
                        driver, net, aborted>>

Arrive == /\ arrived < MaxInbound /\ ~peerGone
          /\ arrived' = arrived + 1
          /\ inbound' = inbound + 1
          /\ UNCHANGED <<queue, pollOut, object, pc, driver, stream, peerGone, aborted>>

PeerClose == /\ stream /\ PeerCloses /\ ~peerGone
             /\ peerGone' = TRUE
             /\ UNCHANGED <<queue, pollOut, object, pc, driver, stream, inbound, arrived, aborted>>

-------------------------------------------------------------------------------
DriverNext == \/ Poll \/ PollYields \/ Receive \/ Disconnect \/ EndCallback
              \/ SendAll \/ SendPart \/ SendFails \/ ClearPollOut

Next == \/ DriverNext
        \/ \E m \in Messages : CallbackSend(m)
        \/ \E c \in Senders : WantSend(c) \/ \E m \in Messages : Send(c, m)
        \/ Destroy
        \/ Drain \/ Arrive \/ PeerClose

Spec == Init /\ [][Next]_vars

\* The driver runs, the peer reads, and a PauseGuard is let in (RequestsAnswered of
\* Driver); nobody has to send, to close or to destroy anything.
FairSpec == /\ Spec
            /\ WF_vars(DriverNext)
            /\ WF_vars(Drain)
            /\ \A c \in Senders : SF_vars(WantSend(c))

-------------------------------------------------------------------------------
(* Invariants. *)

TypeOK == /\ stream \in Kinds
          /\ sendQ \in Seq(Messages)
          /\ left \in [Messages -> 0..Size]
          /\ promise \in [Messages -> {"none", "pending"} \cup Settled]
          /\ pollOut \in BOOLEAN
          /\ object \in {"live", "disconnected", "destroyed"}
          /\ pc \in [Senders -> {"idle", "wantSend"}]
          /\ driver \in {"out", "poll", "callback", "clear"}
          /\ peerGone \in BOOLEAN
          /\ inbound \in 0..MaxInbound
          /\ arrived \in 0..MaxInbound
          /\ inbound <= arrived
          /\ kernel \in 0..SndBuf
          /\ wire \in Seq(Messages)
          /\ accepted \in Seq(Messages)
          /\ aborted \in BOOLEAN

\* POLLOUT is requested for good: not about to be cleared.
Armed == pollOut /\ driver # "clear"

\* The queue, guarded by sendQMtx, and the pollfd, guarded by stepMtx, agree: a
\* queue that holds something is either watched by poll or about to be, by one
\* sender only, and an empty one is neither.  It has to hold although DoSend
\* releases the one mutex before it takes the other, and although a sender may
\* refill the queue before the driver clears POLLOUT.
ArmedIffQueued ==
  object = "live" =>
    /\ \A c, d \in Wants : c = d
    /\ sendQ # <<>> <=> Armed \/ Wants # {}
    /\ ~(Armed /\ Wants # {})
    /\ driver = "clear" => pollOut

\* DriverOnWritable never finds the queue empty: neither the logic_error "uncalled
\* sendto" of DriverSendTo nor the assertion of SocketImpl::DriverPending is met.
NoUncalledSend == driver = "poll" /\ Writable => sendQ # <<>>

\* The units of m that the kernel has accepted.
Written(m) == Cardinality({i \in DOMAIN wire : wire[i] = m})

\* Where m was enqueued.
Place(m) == CHOOSE i \in DOMAIN accepted : accepted[i] = m

\* No byte is lost, repeated or mixed up by partial sends: messages appear on the
\* wire in the order they were enqueued, each as far as it has been sent, and only
\* the front of the queue is sent in part.
WireInOrder ==
  /\ \A m \in Messages : Written(m) + left[m] = Size
  /\ \A i, j \in DOMAIN wire : i < j => Place(wire[i]) <= Place(wire[j])
  /\ \A i \in DOMAIN sendQ : left[sendQ[i]] < Size => i = 1 /\ stream

\* No promise is forgotten: it is pending exactly while its message is queued, and
\* what it says when it is fulfilled is true: the message was sent whole.
PromiseHonest ==
  \A m \in Messages : /\ promise[m] = "pending" <=> \E i \in DOMAIN sendQ : sendQ[i] = m
                      /\ promise[m] = "value" => left[m] = 0

-------------------------------------------------------------------------------
(* Action properties. *)

\* A promise is settled once; setting it again would throw std::future_error.
SettledOnce ==
  [][\A m \in Messages : promise[m] \in Settled => promise'[m] = promise[m]]_vars

-------------------------------------------------------------------------------
(* Liveness. *)

\* Every future becomes ready while the connection lasts: no interleaving of senders
\* and driver leaves a message in the queue with nobody to send it.
EverySendSettles ==
  \A m \in Messages :
    promise[m] = "pending" ~> promise[m] \in Settled \/ object # "live"

-------------------------------------------------------------------------------
(* A claim of the documentation that the code does not keep. *)

\* "Thread-safe with respect to connected tasks and sockets; these can safely be
\* managed irrespective of concurrent driver state" (socket_async.h): a Send() that
\* began on a connected socket does not fail the assertion of AsyncWantSend.
SendIsSafe == ~aborted
===============================================================================
