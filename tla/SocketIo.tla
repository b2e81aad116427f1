------------------------------- MODULE SocketIo -------------------------------
(***************************************************************************)
(* The calls of one thread on a non-blocking descriptor that is made to    *)
(* look blocking: Send, SendTo, Receive, ReceiveFrom and Listen with no    *)
(* timeout, none at all or a limited one, on plain and buffered sockets.   *)
(* Each is a loop of poll and one system call.  The kernel and the peer    *)
(* fill and drain the buffers meanwhile, and time passes at any point.     *)
(* A unit is a byte of a stream, or a whole datagram or connection.        *)
(***************************************************************************)
EXTENDS Integers, Sequences

CONSTANTS
  Kinds,       \* a subset of "tcp", "udp", "acceptor"
  Sizes,       \* sizes that a TCP call may be made with
  Timeouts,    \* timeouts in milliseconds, negative for no limit
  SndBuf,      \* units that the kernel takes before the peer reads
  RcvBuf,      \* units that wait to be received at most
  RxBufCount,  \* receive buffers in the pool of a buffered socket
  TicksPerMs,  \* resolution of the clock
  IntBits,     \* width of the int that poll takes
  MaxTime      \* bound: ticks of a call spent outside poll

ASSUME IoAssumption ==
  /\ Kinds \subseteq {"tcp", "udp", "acceptor"}
  /\ Sizes \subseteq Nat
  /\ Timeouts \subseteq Int
  /\ {SndBuf, RcvBuf, RxBufCount, TicksPerMs, IntBits} \subseteq Nat \ {0}
  /\ MaxTime \in Nat

VARIABLES
  kind,      \* what the socket is
  buffered,  \* whether it receives into buffers of a pool
  pc,        \* "idle", before "wait", in "poll", or "now" about to read or write
  op,        \* "send" or "receive", accepting included
  size,      \* with how many units it was called
  timeout,   \* and which timeout
  left,      \* remaining: units that a send has yet to hand over
  wire,      \* the positions of the units that passed
  outcome,   \* how the call ended: "none" yet, "returned", "thrown" or "refused" a buffer
  count,     \* the number it returned
  clock,     \* ticks since the call
  now,       \* deadline.now: the last reading of the clock
  until,     \* when the poll gives up
  slept,     \* auxiliary: ticks spent in poll by this call
  room,      \* units that the kernel takes at once
  inbox,     \* units, datagrams or connections that wait to be received
  peer,      \* "open", "closed" for good, or connection "reset"
  lent,      \* buffers taken from the pool
  held       \* those in the hands of the user

socket == <<kind, buffered>>
call   == <<op, size, timeout>>
time   == <<clock, now, until, slept>>
kernel == <<room, inbox, peer>>
pool   == <<lent, held>>
report == <<outcome, count>>
vars   == <<socket, pc, call, left, wire, report, time, kernel, pool>>

Never == -1
Least(a, b) == IF a <= b THEN a ELSE b
Unit == IF kind = "tcp" THEN Sizes ELSE {1}

Init == /\ kind \in Kinds
        /\ buffered \in IF kind = "acceptor" THEN {FALSE} ELSE BOOLEAN
        /\ pc = "idle"
        /\ op \in {"send", "receive"}
        /\ size \in Unit
        /\ timeout \in Timeouts
        /\ left = 0
        /\ wire = <<>>
        /\ outcome = "none" /\ count = 0
        /\ clock = 0 /\ now = 0 /\ until = 0 /\ slept = 0
        /\ room = SndBuf /\ inbox = 0 /\ peer = "open"
        /\ lent = 0 /\ held = 0

-------------------------------------------------------------------------------
(* Deadlines, of which SendSome has a limited one, read in ticks. *)

Deadline == timeout * TicksPerMs

\* Send has a timeout that is neither negative nor zero.
SendsSome == kind = "tcp" /\ op = "send" /\ timeout > 0

\* DeadlineLimited::Remaining in milliseconds, truncated.
Remaining == IF Deadline < now THEN 0 ELSE (Deadline - now) \div TicksPerMs

TimeLeft == now' < Deadline

\* Mutant: the conversion to a narrower integer.
ToMsecNarrow(ms) == LET half == 2 ^ (IntBits - 3) IN ((ms + half) % (2 * half)) - half

\* ToMsec: the conversion to int.
ToMsec(ms) == LET half == 2 ^ (IntBits - 1) IN ((ms + half) % 2 ^ IntBits) - half

\* Mutant: each wait is granted the whole timeout.
WaitTimeoutWhole == timeout

\* What Wait is called with: Send passes on none and zero as they are.
WaitTimeout == IF SendsSome THEN Remaining ELSE timeout

-------------------------------------------------------------------------------
(* The end of a call.  A receive buffer is handed to the user or, when the  *)
(* call ends without having received, returned to the pool by its pointer.  *)

\* Whether the call has taken a buffer: TCP before it waits, UDP after.
HasBuffer == /\ buffered /\ op = "receive"
             /\ kind = "tcp" /\ pc # "idle"

\* Mutant: a receive that ends without data keeps its buffer.
DropKeeps == UNCHANGED lent

\* The buffer of a call that ends without data is dropped.
Drop == lent' = IF HasBuffer THEN lent - 1 ELSE lent

\* The timeout is exceeded: the size less the rest is returned, or nothing.
ReturnEmpty == /\ pc' = "idle"
               /\ outcome' = "returned"
               /\ count' = IF op = "send" THEN size - left ELSE 0
               /\ Drop
               /\ UNCHANGED <<left, wire, held>>

Throw == /\ pc' = "idle"
         /\ outcome' = "thrown"
         /\ Drop
         /\ UNCHANGED <<left, wire, count, held>>

-------------------------------------------------------------------------------
(* The thread. *)

NewCall(o, n, t) == /\ op' = o /\ size' = n /\ timeout' = t
                    /\ wire' = <<>>
                    /\ clock' = 0 /\ now' = 0 /\ until' = 0 /\ slept' = 0

\* A call of the user, up to its first wait.  A buffered TCP receive takes its
\* buffer first; a limited deadline reads the clock.
Call(o, n, t) == /\ pc = "idle"
                 /\ NewCall(o, n, t)
                 /\ pc' = "wait"
                 /\ left' = IF o = "send" THEN n ELSE 0
                 /\ outcome' = "none" /\ count' = 0
                 /\ IF buffered /\ o = "receive" /\ kind = "tcp"
                      THEN lent < RxBufCount /\ lent' = lent + 1
                      ELSE UNCHANGED lent
                 /\ UNCHANGED <<socket, kernel, held>>

\* "out of buffers".
CallRefused(n, t) == /\ pc = "idle"
                     /\ buffered /\ kind = "tcp" /\ lent = RxBufCount
                     /\ NewCall("receive", n, t)
                     /\ outcome' = "refused" /\ count' = 0
                     /\ left' = 0
                     /\ UNCHANGED <<socket, pc, kernel, pool>>

\* WaitReadable or WaitWritable: poll is entered.
EnterPoll == /\ pc = "wait"
             /\ pc' = "poll"
             /\ LET ms == ToMsec(WaitTimeout)
                IN  until' = IF ms < 0 THEN Never ELSE clock + ms * TicksPerMs
             /\ UNCHANGED <<socket, call, left, wire, report, clock, now, slept, kernel, pool>>

Ready == IF op = "send" THEN room > 0 \/ peer = "reset"
                        ELSE inbox > 0 \/ peer # "open"

PollReady == /\ pc = "poll"
             /\ Ready
             /\ pc' = "now"
             /\ UNCHANGED <<socket, call, left, wire, report, time, kernel, pool>>

PollTimeout == /\ pc = "poll"
               /\ ~Ready
               /\ until # Never /\ clock >= until
               /\ ReturnEmpty
               /\ UNCHANGED <<socket, call, time, kernel>>

\* poll fails, interrupted by a signal (EINTR).
PollFails == /\ pc = "poll"
             /\ Throw
             /\ UNCHANGED <<socket, call, time, kernel>>

\* Mutant: a part that was sent is not removed from the rest.
HandOverKeeps(k) == /\ wire' = wire \o [i \in 1..k |-> size - left + i]
                    /\ UNCHANGED left

\* remove_prefix after SendNow.
HandOver(k) == /\ wire' = wire \o [i \in 1..k |-> size - left + i]
               /\ left' = left - k


\* SendAll and SendSome go on, SendTry and SendTo do not.
GoesOn == /\ left' > 0
          /\ timeout < 0 \/ (SendsSome /\ TimeLeft)

\* SendNow in SendAll, SendTry or SendSome: the kernel takes a part of the rest.  The
\* deadline of SendSome ticks before.
Send == /\ pc = "now" /\ op = "send" /\ kind = "tcp"
        /\ peer # "reset"
        /\ now' = IF SendsSome THEN clock ELSE now
        /\ \E k \in Least(1, left)..Least(left, room) :
              /\ HandOver(k)
              /\ room' = room - k
        /\ IF GoesOn THEN pc' = "wait" /\ UNCHANGED report
                     ELSE pc' = "idle" /\ outcome' = "returned" /\ count' = size - left'
        /\ UNCHANGED <<socket, call, clock, until, slept, inbox, peer, pool>>

\* ::sendto takes a datagram as a whole.
SendTo == /\ pc = "now" /\ op = "send" /\ kind = "udp"
          /\ HandOver(1)
          /\ room' = room - 1
          /\ pc' = "idle" /\ outcome' = "returned" /\ count' = size
          /\ UNCHANGED <<socket, call, time, inbox, peer, pool>>

\* The connection is reset, or a datagram cannot be sent locally.
SendFails == /\ pc = "now" /\ op = "send"
             /\ kind = "tcp" => peer = "reset"
             /\ Throw
             /\ UNCHANGED <<socket, call, time, kernel>>

\* n units are received and reported.
Take(n) == /\ pc = "now" /\ op = "receive"
           /\ n > 0 /\ inbox >= n
           /\ inbox' = inbox - n
           /\ wire' = [i \in 1..n |-> i]
           /\ pc' = "idle" /\ outcome' = "returned" /\ count' = n
           /\ UNCHANGED <<socket, call, left, time, room, peer>>

\* ReceiveNow, into the buffer that was taken before.
Receive == /\ kind = "tcp"
           /\ Take(Least(size, inbox))
           /\ held' = IF buffered THEN held + 1 ELSE held
           /\ UNCHANGED lent

\* ::recvfrom, into a buffer that is taken now.
ReceiveFrom == /\ kind = "udp"
               /\ Take(1)
               /\ IF buffered
                    THEN lent < RxBufCount /\ lent' = lent + 1 /\ held' = held + 1
                    ELSE UNCHANGED pool

\* ::accept.
Accept == /\ kind = "acceptor"
          /\ Take(1)
          /\ UNCHANGED pool

\* The connection is closed or reset, or what was ready has vanished: a datagram
\* with a bad checksum, a connection that was given up by its peer.  A size of zero
\* receives nothing, which a stream takes for the end of the connection.
ReceiveFails == /\ pc = "now" /\ op = "receive"
                /\ inbox = 0 \/ size = 0
                /\ ~(kind = "udp" /\ buffered /\ lent = RxBufCount)
                /\ Throw
                /\ UNCHANGED <<socket, call, time, kernel>>

\* A datagram has no buffer to be received into, and stays where it is.
ReceiveRefused == /\ pc = "now" /\ op = "receive"
                  /\ kind = "udp" /\ buffered /\ lent = RxBufCount
                  /\ pc' = "idle"
                  /\ outcome' = "refused"
                  /\ UNCHANGED <<socket, call, left, wire, count, time, kernel, pool>>

\* The user drops a buffer, on any thread.
DropBuffer == /\ held > 0
              /\ held' = held - 1
              /\ lent' = lent - 1
              /\ UNCHANGED <<socket, pc, call, left, wire, report, time, kernel>>

-------------------------------------------------------------------------------
(* Time, the kernel and the peer. *)

\* Time passes while the thread is not at rest, if it matters to the call.
Elapse == /\ pc \in {"wait", "now"} /\ clock < MaxTime /\ timeout > 0
          /\ clock' = clock + 1
          /\ UNCHANGED <<socket, pc, call, left, wire, report, now, until, slept, kernel, pool>>

Sleep == /\ pc = "poll" /\ timeout > 0
         /\ IF until = Never THEN clock <= MaxTime + Deadline ELSE clock < until
         /\ clock' = clock + 1
         /\ slept' = slept + 1
         /\ UNCHANGED <<socket, pc, call, left, wire, report, now, until, kernel, pool>>

Drain == /\ room < SndBuf /\ peer # "reset"
         /\ room' = room + 1
         /\ UNCHANGED <<socket, pc, call, left, wire, report, time, inbox, peer, pool>>

Arrive == /\ inbox < RcvBuf /\ peer = "open"
          /\ inbox' = inbox + 1
          /\ UNCHANGED <<socket, pc, call, left, wire, report, time, room, peer, pool>>

Vanish == /\ kind # "tcp" /\ inbox > 0
          /\ inbox' = inbox - 1
          /\ UNCHANGED <<socket, pc, call, left, wire, report, time, room, peer, pool>>

PeerCloses == /\ kind = "tcp" /\ peer = "open"
              /\ peer' = "closed"
              /\ UNCHANGED <<socket, pc, call, left, wire, report, time, room, inbox, pool>>

\* A reset discards what was not received yet.
PeerResets == /\ kind = "tcp" /\ peer # "reset"
              /\ peer' = "reset"
              /\ inbox' = 0
              /\ UNCHANGED <<socket, pc, call, left, wire, report, time, room, pool>>

-------------------------------------------------------------------------------
Continue == \/ EnterPoll \/ PollReady \/ PollTimeout
            \/ Send \/ SendTo \/ SendFails
            \/ Receive \/ ReceiveFrom \/ Accept \/ ReceiveFails \/ ReceiveRefused

\* An acceptor does not send.
Next == \/ \E n \in Unit, t \in Timeouts :
              \/ Call("receive", n, t)
              \/ kind # "acceptor" /\ Call("send", n, t)
              \/ CallRefused(n, t)
        \/ Continue \/ PollFails \/ DropBuffer
        \/ Elapse \/ Sleep \/ Drain \/ Arrive \/ Vanish \/ PeerCloses \/ PeerResets

Spec == Init /\ [][Next]_vars

\* The thread runs, time passes and what was sent leaves; not that anything arrives.
FairSpec == Spec /\ WF_vars(Continue) /\ WF_vars(Sleep) /\ WF_vars(Drain)

-------------------------------------------------------------------------------
TypeOK == /\ kind \in Kinds /\ buffered \in BOOLEAN
          /\ pc \in {"idle", "wait", "poll", "now"}
          /\ op \in {"send", "receive"} /\ size \in Sizes \cup {1} /\ timeout \in Timeouts
          /\ left \in 0..size
          /\ wire \in Seq(Nat)
          /\ outcome \in {"none", "returned", "thrown", "refused"} /\ count \in 0..size
          /\ clock \in Nat /\ now \in 0..clock /\ slept \in 0..clock
          /\ until \in Nat \cup {Never}
          /\ room \in 0..SndBuf /\ inbox \in 0..RcvBuf
          /\ peer \in {"open", "closed", "reset"}
          /\ lent \in 0..RxBufCount /\ held \in 0..lent

\* A call keeps to its timeout.  What all its waits sleep together is not more: each
\* wait of SendSome is given what the ones before it and the sending have left.  And a
\* call that comes back without all it was called for has waited the timeout out, up
\* to the millisecond that Remaining() rounds off.
TimeoutKept ==
  /\ timeout >= 0 => slept <= Deadline
  /\ /\ outcome = "returned"
     /\ IF op = "send" THEN count < size ELSE count = 0
     => clock > Deadline - TicksPerMs

\* Buffers find their way back to the pool whichever way a receive ends: a user who
\* holds fewer than the limit is never refused one.
BuffersReturned == lent = IF HasBuffer THEN held + 1 ELSE held

Promise == INSTANCE Transfer WITH
             Sizes   <- Sizes \cup {1},
             active  <- pc # "idle",
             sending <- op = "send",
             limited <- timeout >= 0,
             outcome <- IF outcome = "refused" THEN "thrown" ELSE outcome

\* What socket.h says of the calls: data passes once and in order, the count is true,
\* what was received is not lost by a failure, and without a timeout a call returns
\* only when it is complete.
ImplementsTransfer == Promise!Spec

\* Calls come to an end: those with a timeout by themselves, sends without one as the
\* peer reads.
CallsReturn == pc # "idle" /\ (timeout >= 0 \/ op = "send") ~> pc = "idle"
===============================================================================
