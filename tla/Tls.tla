--------------------------------- MODULE Tls ---------------------------------
(***************************************************************************)
(* Two SocketTlsImpl at the ends of a TCP connection.  Either is used with *)
(* blocking calls or by a driver.  OpenSSL may write in a read and read in *)
(* a write while the handshake lasts; the socket has to turn that into     *)
(* waiting, or into events to poll for, and each retry must find the       *)
(* engine where it was left.  The engine is external: it exchanges flights *)
(* of known size in turn and then records of user data.  A unit is some    *)
(* bytes of either; the user's data are numbered records.                  *)
(***************************************************************************)
EXTENDS Integers, Sequences, FiniteSets

CONSTANTS
  Pairings,     \* how the ends are used, each "sync" or "async"
  Handshakes,   \* the handshakes to choose from, sequences of sizes of flights
  RecordUnits,  \* units of a record
  Cap,          \* units that TCP holds in each direction
  MaxRecords,   \* records that each user sends at most
  StepsMax      \* handshakeStepsMax

Ends == {"client", "server"}

ASSUME TlsAssumption == /\ {RecordUnits, Cap, StepsMax} \subseteq Nat \ {0}
                        /\ MaxRecords \in Nat
                        /\ Pairings \subseteq [Ends -> {"sync", "async"}]
                        \* the flight that ends the handshake fits into TCP's buffer
                        /\ \A h \in Handshakes :
                             h \in Seq(Nat \ {0}) /\ Len(h) > 1 /\ h[Len(h)] <= Cap

VARIABLES
  mode,     \* how each end is used
  flights,  \* the handshake; the client has the odd flights
  pc,       \* "idle", "poll" of the driver, "ssl" in OpenSSL, "entry" or "error"
            \* waiting for what lastError says, "return", or "failed"
  sock,     \* members of SocketTlsImpl and the arguments of the call that runs
  ssl,      \* the engine
  wire,     \* units on their way to each end: 0 of a flight, or a record's number
  drv,      \* the driver's side of an "async" end
  user      \* records that were asked and reported to be sent, and received

vars == <<mode, flights, pc, sock, ssl, wire, drv, user>>

Peer(e) == IF e = "client" THEN "server" ELSE "client"
Least(a, b) == IF a <= b THEN a ELSE b

Init ==
  /\ mode \in Pairings
  /\ flights \in Handshakes
  /\ pc = [e \in Ends |-> "idle"]
  /\ sock = [e \in Ends |->
       [op |-> "receive",      \* "receive", "send" or "pending"
        size |-> 0, sent |-> 0, \* records of a send, and those written
        limit |-> "zero",      \* remainingTime: "unlimited", "limited" or "zero"
        lastError |-> "none",  \* or "read", "write": SSL_ERROR_WANT_...
        isReadable |-> FALSE, isWritable |-> FALSE,
        steps |-> 0]]          \* i of the loops
  /\ ssl = [e \in Ends |->
       [flight |-> IF e = "client" THEN 2 ELSE 1,  \* the flight to be heard next
        out |-> IF e = "client" THEN flights[1] ELSE 0,  \* units of a flight to write
        record |-> 0,          \* units of a record to write, 0 if none was begun
        in |-> 0]]             \* units of a flight or record that were read
  /\ wire = [e \in Ends |-> <<>>]
  /\ drv = [e \in Ends |->
       [sendQ |-> <<>>,        \* the messages' sizes in records
        pollOut |-> FALSE, suppressed |-> FALSE]]
  /\ user = [e \in Ends |-> [asked |-> 0, sent |-> 0, got |-> <<>>, failed |-> FALSE]]

-------------------------------------------------------------------------------
Readable(e) == wire[e] # <<>>
Room(e)     == Cap - Len(wire[Peer(e)])
Writable(e) == Room(e) > 0
Reads(e)    == sock[e].op # "send"

\* SSL_is_init_finished: the last flight was heard, or written to the end.
Finished(e) == ssl[e].flight > Len(flights) /\ ssl[e].out = 0

Goto(e, label) == pc' = [pc EXCEPT ![e] = label]
Set(e, s)      == sock' = [sock EXCEPT ![e] = s]

\* A call is over: what it was called with is forgotten.
AtRest(s) == [s EXCEPT !.op = "receive", !.size = 0, !.sent = 0, !.limit = "zero", !.steps = 0]

-------------------------------------------------------------------------------
(* Waiting, and the loops of Read and Write around OpenSSL. *)

\* What UnderDeadline leaves of the time after a wait that was successful.
Spent(limit) == IF limit = "limited" THEN {"limited", "zero"} ELSE {limit}

\* Read or Write begins, with HandleLastError if there is one.
Begin(e, s) == /\ Set(e, [s EXCEPT !.sent = 0, !.steps = 1])
               /\ Goto(e, IF s.lastError = "none" THEN "ssl" ELSE "entry")

\* The loop goes on, up to its bound.
Loop(e, s) == /\ Set(e, [s EXCEPT !.steps = Least(@ + 1, StepsMax)])
              /\ Goto(e, IF s.steps < StepsMax THEN "ssl" ELSE "return")

\* HandleError: waits for what is wanted, for as long as there is time.
Awaited(e) == IF sock[e].lastError = "read" THEN Readable(e) ELSE Writable(e)

Handle(e) == /\ pc[e] \in {"entry", "error"}
             /\ Awaited(e)
             /\ \E l \in Spent(sock[e].limit) :
                  LET s == [sock[e] EXCEPT !.lastError = "none", !.limit = l]
                  IN  IF pc[e] = "entry" THEN Set(e, s) /\ Goto(e, "ssl") ELSE Loop(e, s)
             /\ UNCHANGED <<mode, flights, ssl, wire, drv, user>>

HandleTimeout(e) == /\ pc[e] \in {"entry", "error"}
                    /\ ~Awaited(e)
                    /\ sock[e].limit # "unlimited"
                    /\ Set(e, [sock[e] EXCEPT !.limit = "zero"])
                    /\ Goto(e, "return")
                    /\ UNCHANGED <<mode, flights, ssl, wire, drv, user>>

\* BioRead or BioWrite has nothing to read, no room to write and no time: OpenSSL
\* gives up for now, and HandleResult keeps the reason.
GiveUp(e, reason) == /\ sock[e].limit # "unlimited"
                     /\ Set(e, [sock[e] EXCEPT !.limit = "zero", !.lastError = reason])
                     /\ Goto(e, "error")
                     /\ UNCHANGED <<wire, user>>

\* Mutant: the flag outlives the write it was set for.
AfterWriteKeeps(e) == {[sock[e] EXCEPT !.limit = l] : l \in Spent(sock[e].limit)}

\* BioWrite does not wait if the driver has found the socket writable, which is true
\* once.
AfterWrite(e) == IF sock[e].isWritable
                   THEN {[sock[e] EXCEPT !.isWritable = FALSE]}
                   ELSE {[sock[e] EXCEPT !.limit = l] : l \in Spent(sock[e].limit)}

\* BioRead, likewise.
AfterRead(e) == IF sock[e].isReadable
                  THEN {[sock[e] EXCEPT !.isReadable = FALSE]}
                  ELSE {[sock[e] EXCEPT !.limit = l] : l \in Spent(sock[e].limit)}

\* TCP takes n units of one kind, or yields them.
Put(e, n, unit) == wire' = [wire EXCEPT ![Peer(e)] = @ \o [i \in 1..n |-> unit]]
Take(e, n)      == wire' = [wire EXCEPT ![e] = SubSeq(@, n + 1, Len(@))]

-------------------------------------------------------------------------------
(* Inside OpenSSL: SSL_read or SSL_write_ex, which performs the handshake first. *)

\* A part of the own flight is written.
Flush(e) == /\ pc[e] = "ssl" /\ ssl[e].out > 0
            /\ LET n == Least(ssl[e].out, Room(e))
               IN  IF n = 0
                     THEN GiveUp(e, "write") /\ UNCHANGED ssl
                     ELSE /\ \E s \in AfterWrite(e) : Set(e, s)
                          /\ Put(e, n, 0)
                          /\ ssl' = [ssl EXCEPT ![e].out = @ - n]
                          /\ UNCHANGED <<pc, user>>
            /\ UNCHANGED <<mode, flights, drv>>

\* Once the peer's flight is heard the own one is composed, if another follows.
Heard(s) == LET next == s.flight + 1
            IN  IF next > Len(flights)
                  THEN [s EXCEPT !.in = 0, !.flight = next]
                  ELSE [s EXCEPT !.in = 0, !.flight = next + 1, !.out = flights[next]]

\* A part of the peer's flight is read.
Hear(e) == /\ pc[e] = "ssl"
           /\ ssl[e].out = 0 /\ ssl[e].flight <= Len(flights)
           /\ LET missing == flights[ssl[e].flight] - ssl[e].in
                  n == Least(missing, Len(wire[e]))
              IN  IF n = 0
                    THEN GiveUp(e, "read") /\ UNCHANGED ssl
                    ELSE /\ \E s \in AfterRead(e) : Set(e, s)
                         /\ Take(e, n)
                         /\ ssl' = [ssl EXCEPT ![e] = IF n = missing
                                                        THEN Heard(ssl[e])
                                                        ELSE [ssl[e] EXCEPT !.in = @ + n]]
                         /\ UNCHANGED <<pc, user>>
           /\ UNCHANGED <<mode, flights, drv>>

\* The record that the engine works on: the first of what remains to be sent.
Current(e) == user[e].sent + sock[e].sent + 1

\* Mutant: what was written is not removed from the rest.
WrittenKeeps(e, s) == Loop(e, s)

\* SSL_write_ex has written a record: the loop ends with the last one.
Written(e, s) == IF s.sent + 1 = s.size
                   THEN Set(e, [s EXCEPT !.sent = @ + 1]) /\ Goto(e, "return")
                   ELSE Loop(e, [s EXCEPT !.sent = @ + 1])

\* A part of a record is written.  It is encrypted once: a retry finds what is left.
WriteRecord(e) == /\ pc[e] = "ssl" /\ Finished(e) /\ ~Reads(e)
                  /\ LET left == IF ssl[e].record = 0 THEN RecordUnits ELSE ssl[e].record
                         n == Least(left, Room(e))
                     IN  /\ ssl' = [ssl EXCEPT ![e].record = left - n]
                         /\ IF n = 0
                              THEN GiveUp(e, "write")
                              ELSE /\ \E s \in AfterWrite(e) :
                                        IF n = left THEN Written(e, s)
                                                    ELSE Set(e, s) /\ UNCHANGED pc
                                   /\ Put(e, n, Current(e))
                                   /\ UNCHANGED user
                  /\ UNCHANGED <<mode, flights, drv>>

\* A part of a record is read; when it is whole Read returns it to the caller.  The
\* caller DriverPending throws "unexpected receive", out of Run().
ReadRecord(e) == /\ pc[e] = "ssl" /\ Finished(e) /\ Reads(e)
                 /\ LET missing == RecordUnits - ssl[e].in
                        n == Least(missing, Len(wire[e]))
                    IN  IF n = 0
                          THEN GiveUp(e, "read") /\ UNCHANGED ssl
                          ELSE /\ \E s \in AfterRead(e) :
                                    Set(e, IF n < missing THEN s ELSE AtRest(s))
                               /\ Take(e, n)
                               /\ ssl' = [ssl EXCEPT ![e].in = IF n = missing THEN 0 ELSE @ + n]
                               /\ IF n < missing
                                    THEN UNCHANGED <<pc, user>>
                                    ELSE IF sock[e].op = "receive"
                                    THEN /\ user' = [user EXCEPT ![e].got = Append(@, wire[e][n])]
                                         /\ Goto(e, "idle")
                                    ELSE /\ user' = [user EXCEPT ![e].failed = TRUE]
                                         /\ Goto(e, "failed")
                 /\ UNCHANGED <<mode, flights, drv>>

-------------------------------------------------------------------------------
(* Blocking calls. *)

\* Send with n of the records that its user has yet to send, the same again after a
\* timeout, as socket_tls_impl.h demands.
Send(e, n, limit) ==
  /\ mode[e] = "sync" /\ pc[e] = "idle"
  /\ user[e].sent + n <= MaxRecords
  /\ Begin(e, [sock[e] EXCEPT !.op = "send", !.size = n, !.limit = limit])
  /\ user' = [user EXCEPT ![e].asked = user[e].sent + n]
  /\ UNCHANGED <<mode, flights, ssl, wire, drv>>

Receive(e, limit) ==
  /\ mode[e] = "sync" /\ pc[e] = "idle"
  /\ Begin(e, [sock[e] EXCEPT !.op = "receive", !.limit = limit])
  /\ UNCHANGED <<mode, flights, ssl, wire, drv, user>>

\* What has been sent is reported; nullopt was received.
Return(e) == /\ mode[e] = "sync" /\ pc[e] = "return"
             /\ Goto(e, "idle")
             /\ user' = IF Reads(e) THEN user ELSE [user EXCEPT ![e].sent = @ + sock[e].sent]
             /\ Set(e, AtRest(sock[e]))
             /\ UNCHANGED <<mode, flights, ssl, wire, drv>>

-------------------------------------------------------------------------------
(* The driver. *)

\* The user enqueues a message of n records; AsyncWantSend interrupts the poll.
Enqueue(e, n) ==
  /\ mode[e] = "async" /\ pc[e] \in {"idle", "poll"}
  /\ user[e].asked + n <= MaxRecords
  /\ user' = [user EXCEPT ![e].asked = @ + n]
  /\ drv' = [drv EXCEPT ![e].sendQ = Append(@, n),
                        ![e].pollOut = @ \/ drv[e].sendQ = <<>>]
  /\ Goto(e, IF drv[e].sendQ = <<>> THEN "idle" ELSE pc[e])
  /\ UNCHANGED <<mode, flights, sock, ssl, wire>>

\* Mutant: a request that was suppressed is not restored.
QueriedForgets(e) ==
  CASE ~Finished(e) /\ sock[e].lastError = "write" -> [drv[e] EXCEPT !.pollOut = TRUE]
    [] ~Finished(e) /\ sock[e].lastError = "read"  -> [drv[e] EXCEPT !.pollOut = FALSE]
    [] OTHER -> drv[e]

\* DriverQuery: the handshake asks for POLLOUT or suppresses it.
Queried(e) ==
  CASE ~Finished(e) /\ sock[e].lastError = "write" -> [drv[e] EXCEPT !.pollOut = TRUE]
    [] ~Finished(e) /\ sock[e].lastError = "read" ->
         [drv[e] EXCEPT !.suppressed = @ \/ drv[e].pollOut, !.pollOut = FALSE]
    [] Finished(e) /\ drv[e].suppressed ->
         [drv[e] EXCEPT !.suppressed = FALSE, !.pollOut = TRUE]
    [] OTHER -> drv[e]

Query(e) == /\ mode[e] = "async" /\ pc[e] = "idle"
            /\ drv' = [drv EXCEPT ![e] = Queried(e)]
            /\ Goto(e, "poll")
            /\ UNCHANGED <<mode, flights, sock, ssl, wire, user>>

\* What the driver knows is entered before Read or Write: there is no need to wait for it.
Deemed(e, o) ==
  LET s == [sock[e] EXCEPT !.op = o, !.limit = "zero"]
      awaited == IF o = "receive" THEN "read" ELSE "write"
      t == IF s.lastError = awaited THEN [s EXCEPT !.lastError = "none"] ELSE s
  IN  IF o = "receive" THEN [t EXCEPT !.isReadable = TRUE] ELSE [t EXCEPT !.isWritable = TRUE]

\* DriverReceive.
OnReadable(e) == /\ pc[e] = "poll" /\ Readable(e)
                 /\ Begin(e, Deemed(e, "receive"))
                 /\ UNCHANGED <<mode, flights, ssl, wire, drv, user>>

PollsOut(e) == pc[e] = "poll" /\ ~Readable(e) /\ drv[e].pollOut /\ Writable(e)

\* DriverSend, SendSome of the front message.
OnWritable(e) == /\ PollsOut(e)
                 /\ drv[e].sendQ # <<>>
                 /\ Begin(e, [Deemed(e, "send") EXCEPT !.size = Head(drv[e].sendQ)])
                 /\ UNCHANGED <<mode, flights, ssl, wire, drv, user>>

\* DriverPending, which goes on with the handshake.
OnPending(e) == /\ PollsOut(e)
                /\ drv[e].sendQ = <<>> /\ ~Finished(e)
                /\ Begin(e, Deemed(e, "pending"))
                /\ UNCHANGED <<mode, flights, ssl, wire, drv, user>>

\* DriverPending, which finds the handshake finished: POLLOUT is cleared.
OnIdle(e) == /\ PollsOut(e)
             /\ drv[e].sendQ = <<>> /\ Finished(e)
             /\ drv' = [drv EXCEPT ![e].pollOut = FALSE]
             /\ Goto(e, "idle")
             /\ UNCHANGED <<mode, flights, sock, ssl, wire, user>>

\* Mutant: what Read left behind stays after the handshake.
ReceivedNothingKeeps(e) == /\ sock[e].op = "receive"
                           /\ Set(e, AtRest(sock[e]))
                           /\ UNCHANGED <<drv, user>>

\* The end of Receive without data: once the handshake is finished nothing is awaited.
ReceivedNothing(e) ==
  /\ sock[e].op = "receive"
  /\ Set(e, AtRest(IF Finished(e) THEN [sock[e] EXCEPT !.lastError = "none"] ELSE sock[e]))
  /\ UNCHANGED <<drv, user>>

PendingDone(e) == /\ sock[e].op = "pending"
                  /\ drv' = [drv EXCEPT ![e].pollOut = FALSE]
                  /\ Set(e, AtRest(sock[e]))
                  /\ UNCHANGED user

\* The end of DriverSend: what was sent is erased from the message, or the message
\* popped, and POLLOUT cleared with the last one.
SentSome(e) ==
  LET rest == Head(drv[e].sendQ) - sock[e].sent
  IN  /\ sock[e].op = "send"
      /\ user' = [user EXCEPT ![e].sent = @ + sock[e].sent]
      /\ Set(e, AtRest(sock[e]))
      /\ drv' = IF rest > 0
                  THEN [drv EXCEPT ![e].sendQ = <<rest>> \o Tail(@)]
                  ELSE [drv EXCEPT ![e].sendQ = Tail(@),
                                   ![e].pollOut = @ /\ Len(drv[e].sendQ) > 1]

StepReturn(e) == /\ mode[e] = "async" /\ pc[e] = "return"
                 /\ ReceivedNothing(e) \/ PendingDone(e) \/ SentSome(e)
                 /\ Goto(e, "idle")
                 /\ UNCHANGED <<mode, flights, ssl, wire>>

-------------------------------------------------------------------------------
Continue(e) == \/ Handle(e) \/ HandleTimeout(e)
               \/ Flush(e) \/ Hear(e) \/ WriteRecord(e) \/ ReadRecord(e)
               \/ Return(e)
               \/ Query(e) \/ OnReadable(e) \/ OnWritable(e) \/ OnPending(e) \/ OnIdle(e)
               \/ StepReturn(e)

Next == \E e \in Ends :
          \/ Continue(e)
          \/ \E n \in 1..MaxRecords : Enqueue(e, n)
          \/ \E limit \in {"unlimited", "limited", "zero"} :
               Receive(e, limit) \/ \E n \in 1..MaxRecords : Send(e, n, limit)

Spec == Init /\ [][Next]_vars

\* The threads run; nobody has to send anything.
FairSpec == Spec /\ \A e \in Ends : WF_vars(Continue(e))

-------------------------------------------------------------------------------
TypeOK ==
  /\ pc \in [Ends -> {"idle", "poll", "entry", "error", "ssl", "return", "failed"}]
  /\ \A e \in Ends : /\ ssl[e].flight \in 1..Len(flights) + 2
                     /\ ssl[e].out \in Nat /\ ssl[e].record \in 0..RecordUnits
                     /\ Len(wire[e]) <= Cap
                     /\ sock[e].steps \in 0..StepsMax
                     /\ user[e].asked \in 0..MaxRecords

\* The driver's word that the socket is readable or writable is kept in a flag until
\* the next read or write, which may be in another call of the driver.  It is still
\* true then: ReceiveNow and SendNow, which do not wait, do not fail.
FlagsTrue == \A e \in Ends : /\ sock[e].isReadable => Readable(e)
                             /\ sock[e].isWritable => Writable(e)

\* Units of records that have left an end, by what Write has counted, and that have
\* reached the other or are on their way.
Counted(e) == RecordUnits * (user[e].sent + sock[e].sent)
                + IF ssl[e].record > 0 THEN RecordUnits - ssl[e].record ELSE 0
Passed(e) == RecordUnits * Len(user[Peer(e)].got)
               + Cardinality({i \in DOMAIN wire[Peer(e)] : wire[Peer(e)][i] > 0})
               + IF Finished(Peer(e)) THEN ssl[Peer(e)].in ELSE 0

\* Whatever is cut off and retried, in whichever call, records arrive in order, each
\* once, and what is reported as sent has left.  (An end that has thrown the
\* exception of DriverPending has lost a record.)
RecordsInOrder ==
  \A e \in Ends :
    /\ \A i \in DOMAIN user[e].got : user[e].got[i] = i
    /\ user[Peer(e)].failed \/ Counted(e) = Passed(e)

\* Neither is a request to send lost to the handshake, nor does it spin: between steps
\* a queue that holds something is polled for, or will be as soon as the handshake
\* is finished, and not while the handshake has to read first.
SuppressionHonest ==
  \A e \in Ends : mode[e] = "async" /\ pc[e] = "poll" =>
    /\ drv[e].sendQ # <<>> => drv[e].pollOut \/ drv[e].suppressed
    /\ drv[e].suppressed => ~Finished(e)
    /\ ~Finished(e) /\ sock[e].lastError = "read" => ~drv[e].pollOut
    /\ ~Finished(e) /\ sock[e].lastError = "write" => drv[e].pollOut

\* With drivers at both ends and a client that sends something, all that is enqueued at
\* either end arrives.
Arrived(e) == Len(user[Peer(e)].got) = user[e].asked
EverythingArrives ==
  \A e \in Ends :
    /\ mode = [x \in Ends |-> "async"]
    /\ user["client"].asked > 0
    ~> Arrived(e) \/ \E x \in Ends : user[x].failed

-------------------------------------------------------------------------------
(* A claim of the documentation that the code does not keep. *)

\* "Always matches size on unlimited timeout" (socket.h): Send without a timeout returns
\* when everything is sent.
SendsAll == \A e \in Ends :
  pc[e] = "return" /\ sock[e].op = "send" /\ sock[e].limit = "unlimited"
    => sock[e].sent = sock[e].size
===============================================================================
