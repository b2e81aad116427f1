--------------------------- MODULE SendQueue_proofs ---------------------------
(***************************************************************************)
(* Proofs about SendQueue, for any senders, messages and sizes, TCP or UDP *)
(* and whether or not the peer closes.  ArmedIffQueued is inductive with   *)
(* TypeOK.  PromiseHonest needs QueueInjective: a message is queued once,  *)
(* so that the promise of the front is the only one a step can settle.     *)
(***************************************************************************)
EXTENDS SendQueue, SequenceTheorems, FiniteSetTheorems, TLAPS

USE MessageAssumption, BoundAssumption, KindAssumption
DEF MessageAssumption, BoundAssumption, KindAssumption

\* A message is in the queue once.
QueueInjective == \A i, j \in DOMAIN sendQ : sendQ[i] = sendQ[j] => i = j

\* A settled promise keeps its state in a step.
Once == \A m \in Messages : promise[m] \in Settled => promise'[m] = promise[m]

-------------------------------------------------------------------------------
(* Sequences. *)

\* The front and the rest of a queue.
LEMMA Pop ==
  ASSUME NEW S, NEW q \in Seq(S), q # <<>>
  PROVE  /\ Len(q) \in Nat \ {0}
         /\ Head(q) \in S
         /\ Head(q) = q[1]
         /\ Tail(q) \in Seq(S)
         /\ Len(Tail(q)) = Len(q) - 1
         /\ \A i \in 1..Len(Tail(q)) : Tail(q)[i] = q[i + 1]
         /\ Tail(q) = <<>> <=> Len(q) = 1
<1>1. /\ Len(q) \in Nat \ {0}
      /\ Head(q) \in S
      /\ Tail(q) \in Seq(S)
      /\ Len(Tail(q)) = Len(q) - 1
      /\ \A i \in 1..Len(Tail(q)) : Tail(q)[i] = q[i + 1]
  BY HeadTailProperties, EmptySeq
<1>2. Tail(q) = <<>> <=> Len(Tail(q)) = 0
  BY <1>1, EmptySeq
<1>3. Head(q) = q[1]
  OBVIOUS
<1> QED
  BY <1>1, <1>2, <1>3

\* n copies of a unit.
LEMMA Copies ==
  ASSUME NEW S, NEW n \in Nat, NEW e \in S
  PROVE  [i \in 1..n |-> e] \in Seq(S)
<1>1. [i \in 1..n |-> e] \in [1..n -> S]
  OBVIOUS
<1> QED
  BY <1>1, SeqDef

\* A portion fits the kernel's buffer.
LEMMA PortionFits ==
  ASSUME kernel \in 0..SndBuf, NEW n \in 0..Size, NEW k \in Portions(n)
  PROVE  (IF stream THEN kernel + k ELSE kernel) \in 0..SndBuf
<1>1. CASE stream
  <2>1. k \in 1..n /\ kernel + k <= SndBuf
    BY <1>1 DEF Portions
  <2> QED
    BY <1>1, <2>1
<1>2. CASE ~stream
  BY <1>2
<1> QED
  BY <1>1, <1>2

\* When the driver serves the queue there is a front to send.
LEMMA WritableTypes ==
  ASSUME TypeOK, OnWritable
  PROVE  /\ Head(sendQ) \in Messages
         /\ Tail(sendQ) \in Seq(Messages)
         /\ Tail(sendQ) = <<>> <=> Len(sendQ) = 1
  BY Pop DEF TypeOK, OnWritable


-------------------------------------------------------------------------------
(* What enqueueing and popping do to the promises. *)

\* An unused message joins the queue and becomes pending.
LEMMA EnqueueKeeps ==
  ASSUME TypeOK, QueueInjective, PromiseHonest, NEW m \in Messages, Enqueue(m)
  PROVE  QueueInjective' /\ PromiseHonest'
<1> DEFINE n == Len(sendQ)
<1>1. /\ n \in Nat
      /\ DOMAIN sendQ = 1..n
      /\ DOMAIN sendQ' = 1..n + 1
      /\ \A i \in 1..n : sendQ'[i] = sendQ[i]
      /\ sendQ'[n + 1] = m
  BY DEF TypeOK, Enqueue
<1>2. \A i \in 1..n : sendQ[i] # m
  BY <1>1 DEF PromiseHonest, Enqueue
<1>3. QueueInjective'
  BY <1>1, <1>2 DEF QueueInjective
<1>4. \A k \in Messages : (\E i \in DOMAIN sendQ' : sendQ'[i] = k)
                              <=> k = m \/ \E i \in DOMAIN sendQ : sendQ[i] = k
  BY <1>1
<1>5. PromiseHonest'
  <2> SUFFICES ASSUME NEW k \in Messages
               PROVE  /\ promise'[k] = "pending" <=> \E i \in DOMAIN sendQ' : sendQ'[i] = k
                      /\ promise'[k] = "value" => left'[k] = 0
    BY DEF PromiseHonest
  <2>1. CASE k = m
    BY <1>4, <2>1 DEF TypeOK, Enqueue
  <2>2. CASE k # m
    <3>1. promise'[k] = promise[k] /\ left'[k] = left[k]
      BY <2>2 DEF TypeOK, Enqueue
    <3>2. (\E i \in DOMAIN sendQ' : sendQ'[i] = k) <=> \E i \in DOMAIN sendQ : sendQ[i] = k
      BY <1>4, <2>2, Zenon
    <3> HIDE DEF n
    <3>3. /\ promise[k] = "pending" <=> \E i \in DOMAIN sendQ : sendQ[i] = k
          /\ promise[k] = "value" => left[k] = 0
      BY Zenon DEF PromiseHonest
    <3> QED
      BY <3>1, <3>2, <3>3, Zenon
  <2> QED
    BY <2>1, <2>2
<1> QED
  BY <1>3, <1>5

\* The message at the front is pending.
LEMMA FrontPending ==
  ASSUME TypeOK, PromiseHonest, sendQ # <<>>
  PROVE  promise[Head(sendQ)] = "pending"
<1>1. /\ Head(sendQ) \in Messages
      /\ Head(sendQ) = sendQ[1]
      /\ 1 \in DOMAIN sendQ
  BY Pop, LenProperties DEF TypeOK
<1> QED
  BY <1>1 DEF PromiseHonest

\* The front leaves the queue as its promise is settled.
LEMMA PopKeeps ==
  ASSUME TypeOK, QueueInjective, PromiseHonest, sendQ # <<>>, sendQ' = Tail(sendQ),
         NEW v \in {"value", "error"},
         promise' = [promise EXCEPT ![Head(sendQ)] = v],
         v = "value" => left'[Head(sendQ)] = 0,
         \A k \in Messages \ {Head(sendQ)} : left'[k] = left[k]
  PROVE  QueueInjective' /\ PromiseHonest'
<1> DEFINE n == Len(sendQ)
           m == Head(sendQ)
<1>1. /\ n \in Nat \ {0}
      /\ m \in Messages /\ m = sendQ[1]
      /\ DOMAIN sendQ = 1..n
      /\ DOMAIN sendQ' = 1..n - 1
      /\ \A i \in 1..n - 1 : sendQ'[i] = sendQ[i + 1]
  <2>1. sendQ \in Seq(Messages)
    BY DEF TypeOK
  <2>2. Len(Tail(sendQ)) = n - 1 /\ Tail(sendQ) \in Seq(Messages)
    BY <2>1, Pop
  <2> QED
    BY <2>1, <2>2, Pop, LenProperties
<1> HIDE DEF n, m
<1>2. QueueInjective'
  BY <1>1 DEF QueueInjective
<1>3. \A k \in Messages : (\E i \in DOMAIN sendQ' : sendQ'[i] = k)
                              <=> k # m /\ \E i \in DOMAIN sendQ : sendQ[i] = k
  <2> SUFFICES ASSUME NEW k \in Messages
               PROVE  (\E i \in DOMAIN sendQ' : sendQ'[i] = k)
                         <=> k # m /\ \E i \in DOMAIN sendQ : sendQ[i] = k
    OBVIOUS
  <2>1. ASSUME NEW i \in DOMAIN sendQ', sendQ'[i] = k
        PROVE  k # m /\ \E j \in DOMAIN sendQ : sendQ[j] = k
    BY <1>1, <2>1 DEF QueueInjective
  <2>2. ASSUME k # m, NEW j \in DOMAIN sendQ, sendQ[j] = k
        PROVE  \E i \in DOMAIN sendQ' : sendQ'[i] = k
    <3>1. j # 1 /\ j - 1 \in 1..n - 1
      BY <1>1, <2>2
    <3>2. sendQ'[j - 1] = k
      BY <1>1, <2>2, <3>1
    <3> QED
      BY <1>1, <3>1, <3>2
  <2> QED
    BY <2>1, <2>2
<1>4. PromiseHonest'
  <2> SUFFICES ASSUME NEW k \in Messages
               PROVE  /\ promise'[k] = "pending" <=> \E i \in DOMAIN sendQ' : sendQ'[i] = k
                      /\ promise'[k] = "value" => left'[k] = 0
    BY DEF PromiseHonest
  <2>1. CASE k = m
    BY <1>1, <1>3, <2>1 DEF TypeOK, m
  <2>2. CASE k # m
    <3>1. promise'[k] = promise[k] /\ left'[k] = left[k]
      BY <2>2 DEF TypeOK, m
    <3>2. (\E i \in DOMAIN sendQ' : sendQ'[i] = k) <=> \E i \in DOMAIN sendQ : sendQ[i] = k
      BY <1>3, <2>2, Zenon
    <3>3. /\ promise[k] = "pending" <=> \E i \in DOMAIN sendQ : sendQ[i] = k
          /\ promise[k] = "value" => left[k] = 0
      BY Zenon DEF PromiseHonest
    <3> QED
      BY <3>1, <3>2, <3>3, Zenon
  <2> QED
    BY <2>1, <2>2
<1> QED
  BY <1>2, <1>4

-------------------------------------------------------------------------------
(* Every step keeps the invariants. *)

LEMMA InitTypes == Init => TypeOK
<1> SUFFICES ASSUME Init PROVE TypeOK
  OBVIOUS
<1>1. sendQ \in Seq(Messages) /\ wire \in Seq(Messages) /\ accepted \in Seq(Messages)
  BY EmptySeq DEF Init
<1>2. inbound \in 0..MaxInbound /\ arrived \in 0..MaxInbound /\ kernel \in 0..SndBuf
  BY DEF Init
<1>3. left \in [Messages -> 0..Size] /\ inbound <= arrived
  BY DEF Init
<1> QED
  BY <1>1, <1>2, <1>3 DEF Init, TypeOK, Settled

\* Types.
LEMMA TypeStep == TypeOK /\ [Next]_vars => TypeOK'
<1> SUFFICES ASSUME TypeOK, [Next]_vars PROVE TypeOK'
  OBVIOUS
<1> USE DEF TypeOK, queue, net, Settled
<1>1. CASE Poll
  BY <1>1 DEF Poll
<1>2. CASE PollYields
  BY <1>2 DEF PollYields
<1>3. CASE Receive
  BY <1>3 DEF Receive
<1>4. CASE Disconnect
  BY <1>4 DEF Disconnect
<1>5. CASE EndCallback
  BY <1>5 DEF EndCallback
<1>6. CASE SendAll
  <2> DEFINE m == Head(sendQ)
  <2>1. m \in Messages /\ sendQ' \in Seq(Messages)
    BY <1>6, WritableTypes DEF SendAll, Popped
  <2>2. left[m] \in 0..Size /\ left[m] \in Portions(left[m])
    BY <1>6, <2>1 DEF SendAll
  <2>3. Accept(m, left[m])
    BY <1>6 DEF SendAll
  <2>4. left' \in [Messages -> 0..Size]
    BY <2>1, <2>2, <2>3 DEF Accept
  <2>5. kernel' \in 0..SndBuf
    BY <2>2, <2>3, PortionFits DEF Accept
  <2>6. wire' \in Seq(Messages)
    <3>1. left[m] \in Nat
      BY <2>2
    <3> HIDE DEF m
    <3>2. [i \in 1..left[m] |-> m] \in Seq(Messages)
      BY <2>1, <3>1, Copies, Zenon
    <3> QED
      BY <2>3, <3>2, ConcatProperties DEF Accept
  <2>7. promise' \in [Messages -> {"none", "pending"} \cup {"value", "error", "broken"}]
    BY <1>6, <2>1 DEF SendAll
  <2> QED
    BY <1>6, <2>1, <2>4, <2>5, <2>6, <2>7 DEF SendAll, OnWritable, Popped
<1>7. CASE SendPart
  BY <1>7 DEF SendPart, OnWritable, Portions, Accept
<1>8. CASE SendFails
  BY <1>8 DEF SendFails, OnWritable, Popped
<1>9. CASE ClearPollOut
  BY <1>9 DEF ClearPollOut
<1>10. ASSUME NEW m \in Messages, CallbackSend(m) PROVE TypeOK'
  <2>1. sendQ' \in Seq(Messages) /\ accepted' \in Seq(Messages)
    BY <1>10 DEF CallbackSend, Enqueue
  <2>2. promise' \in [Messages -> {"none", "pending"} \cup {"value", "error", "broken"}]
    BY <1>10 DEF CallbackSend, Enqueue
  <2>3. pollOut' \in BOOLEAN /\ aborted' \in BOOLEAN
    BY <1>10 DEF CallbackSend, RequestPollOut
  <2> QED
    BY <1>10, <2>1, <2>2, <2>3 DEF CallbackSend, Enqueue
<1>11. ASSUME NEW c \in Senders, WantSend(c) PROVE TypeOK'
  BY <1>11 DEF WantSend, RequestPollOut
<1>12. ASSUME NEW c \in Senders, NEW m \in Messages, Send(c, m) PROVE TypeOK'
  BY <1>12 DEF Send, Enqueue
<1>13. CASE Destroy
  <2>1. promise' \in [Messages -> {"none", "pending"} \cup {"value", "error", "broken"}]
    BY <1>13 DEF Destroy
  <2>2. sendQ' \in Seq(Messages)
    BY <1>13, EmptySeq DEF Destroy
  <2> QED
    BY <1>13, <2>1, <2>2 DEF Destroy
<1>14. CASE Drain
  BY <1>14 DEF Drain
<1>15. CASE Arrive
  BY <1>15 DEF Arrive
<1>16. CASE PeerClose
  BY <1>16 DEF PeerClose
<1>17. CASE UNCHANGED vars
  BY <1>17 DEF vars
<1> QED
  BY <1>1, <1>2, <1>3, <1>4, <1>5, <1>6, <1>7, <1>8, <1>9, <1>10, <1>11, <1>12, <1>13,
     <1>14, <1>15, <1>16, <1>17 DEF Next, DriverNext

\* A sender that fills an empty queue owes a request of POLLOUT until it has made
\* it, and POLLOUT is cleared only for a queue that the driver has just emptied.
LEMMA ArmedStep == TypeOK /\ ArmedIffQueued /\ [Next]_vars => ArmedIffQueued'
<1> SUFFICES ASSUME TypeOK, ArmedIffQueued, [Next]_vars PROVE ArmedIffQueued'
  OBVIOUS
<1> USE DEF TypeOK, queue, net, Settled, ArmedIffQueued, Armed, Wants, Writable
<1>1. CASE Poll
  BY <1>1 DEF Poll
<1>2. CASE PollYields
  BY <1>2 DEF PollYields
<1>3. CASE Receive
  BY <1>3 DEF Receive
<1>4. CASE Disconnect
  BY <1>4 DEF Disconnect
<1>5. CASE EndCallback
  BY <1>5 DEF EndCallback
<1>6. CASE SendAll
  BY <1>6, WritableTypes DEF SendAll, OnWritable, Popped
<1>7. CASE SendPart
  BY <1>7 DEF SendPart, OnWritable, Portions, Accept
<1>8. CASE SendFails
  BY <1>8, WritableTypes DEF SendFails, OnWritable, Popped
<1>9. CASE ClearPollOut
  BY <1>9 DEF ClearPollOut
<1>10. ASSUME NEW m \in Messages, CallbackSend(m) PROVE ArmedIffQueued'
  BY <1>10 DEF CallbackSend, Enqueue, RequestPollOut
<1>11. ASSUME NEW c \in Senders, WantSend(c) PROVE ArmedIffQueued'
  BY <1>11 DEF WantSend, RequestPollOut
<1>12. ASSUME NEW c \in Senders, NEW m \in Messages, Send(c, m) PROVE ArmedIffQueued'
  BY <1>12 DEF Send, Enqueue
<1>13. CASE Destroy
  BY <1>13 DEF Destroy
<1>14. CASE Drain
  BY <1>14 DEF Drain
<1>15. CASE Arrive
  BY <1>15 DEF Arrive
<1>16. CASE PeerClose
  BY <1>16 DEF PeerClose
<1>17. CASE UNCHANGED vars
  BY <1>17 DEF vars
<1> QED
  BY <1>1, <1>2, <1>3, <1>4, <1>5, <1>6, <1>7, <1>8, <1>9, <1>10, <1>11, <1>12, <1>13,
     <1>14, <1>15, <1>16, <1>17 DEF Next, DriverNext

\* Messages enter the queue unused and leave it settled.
LEMMA PromiseStep == TypeOK /\ QueueInjective /\ PromiseHonest /\ [Next]_vars => (QueueInjective /\ PromiseHonest)'
<1> SUFFICES ASSUME TypeOK, QueueInjective, PromiseHonest, [Next]_vars PROVE (QueueInjective /\ PromiseHonest)'
  OBVIOUS
<1> USE DEF TypeOK, queue, net, Settled, QueueInjective, PromiseHonest
<1>1. CASE Poll
  BY <1>1 DEF Poll
<1>2. CASE PollYields
  BY <1>2 DEF PollYields
<1>3. CASE Receive
  BY <1>3 DEF Receive
<1>4. CASE Disconnect
  BY <1>4 DEF Disconnect
<1>5. CASE EndCallback
  BY <1>5 DEF EndCallback
<1>6. CASE SendAll
  <2>1. left' = [left EXCEPT ![Head(sendQ)] = left[Head(sendQ)] - left[Head(sendQ)]]
    BY <1>6 DEF SendAll, Accept
  <2>2. left'[Head(sendQ)] = 0
    BY <1>6, <2>1, WritableTypes DEF SendAll
  <2> QED
    BY <1>6, <2>1, <2>2, PopKeeps DEF SendAll, OnWritable, Popped
<1>7. CASE SendPart
  BY <1>7 DEF SendPart, OnWritable, Portions, Accept
<1>8. CASE SendFails
  BY <1>8, PopKeeps DEF SendFails, OnWritable, Popped
<1>9. CASE ClearPollOut
  BY <1>9 DEF ClearPollOut
<1>10. ASSUME NEW m \in Messages, CallbackSend(m) PROVE (QueueInjective /\ PromiseHonest)'
  BY <1>10, EnqueueKeeps DEF CallbackSend
<1>11. ASSUME NEW c \in Senders, WantSend(c) PROVE (QueueInjective /\ PromiseHonest)'
  BY <1>11 DEF WantSend, RequestPollOut
<1>12. ASSUME NEW c \in Senders, NEW m \in Messages, Send(c, m) PROVE (QueueInjective /\ PromiseHonest)'
  BY <1>12, EnqueueKeeps DEF Send
<1>13. CASE Destroy
  BY <1>13 DEF Destroy
<1>14. CASE Drain
  BY <1>14 DEF Drain
<1>15. CASE Arrive
  BY <1>15 DEF Arrive
<1>16. CASE PeerClose
  BY <1>16 DEF PeerClose
<1>17. CASE UNCHANGED vars
  BY <1>17 DEF vars
<1> QED
  BY <1>1, <1>2, <1>3, <1>4, <1>5, <1>6, <1>7, <1>8, <1>9, <1>10, <1>11, <1>12, <1>13,
     <1>14, <1>15, <1>16, <1>17 DEF Next, DriverNext

\* Only the promise of the message at the front is fulfilled, and that one is pending.
LEMMA OnceStep == TypeOK /\ PromiseHonest /\ [Next]_vars => Once
<1> SUFFICES ASSUME TypeOK, PromiseHonest, [Next]_vars PROVE Once
  OBVIOUS
<1> USE DEF TypeOK, queue, net, Settled, Once
<1>1. CASE Poll
  BY <1>1 DEF Poll
<1>2. CASE PollYields
  BY <1>2 DEF PollYields
<1>3. CASE Receive
  BY <1>3 DEF Receive
<1>4. CASE Disconnect
  BY <1>4 DEF Disconnect
<1>5. CASE EndCallback
  BY <1>5 DEF EndCallback
<1>6. CASE SendAll
  <2>1. promise[Head(sendQ)] = "pending"
    BY <1>6, FrontPending DEF SendAll, OnWritable
  <2> QED
    BY <1>6, <2>1, WritableTypes DEF SendAll
<1>7. CASE SendPart
  BY <1>7 DEF SendPart, OnWritable, Portions, Accept
<1>8. CASE SendFails
  <2>1. promise[Head(sendQ)] = "pending"
    BY <1>8, FrontPending DEF SendFails, OnWritable
  <2> QED
    BY <1>8, <2>1, WritableTypes DEF SendFails
<1>9. CASE ClearPollOut
  BY <1>9 DEF ClearPollOut
<1>10. ASSUME NEW m \in Messages, CallbackSend(m) PROVE Once
  BY <1>10 DEF CallbackSend, Enqueue, RequestPollOut
<1>11. ASSUME NEW c \in Senders, WantSend(c) PROVE Once
  BY <1>11 DEF WantSend, RequestPollOut
<1>12. ASSUME NEW c \in Senders, NEW m \in Messages, Send(c, m) PROVE Once
  BY <1>12 DEF Send, Enqueue
<1>13. CASE Destroy
  BY <1>13 DEF Destroy
<1>14. CASE Drain
  BY <1>14 DEF Drain
<1>15. CASE Arrive
  BY <1>15 DEF Arrive
<1>16. CASE PeerClose
  BY <1>16 DEF PeerClose
<1>17. CASE UNCHANGED vars
  BY <1>17 DEF vars
<1> QED
  BY <1>1, <1>2, <1>3, <1>4, <1>5, <1>6, <1>7, <1>8, <1>9, <1>10, <1>11, <1>12, <1>13,
     <1>14, <1>15, <1>16, <1>17 DEF Next, DriverNext

-------------------------------------------------------------------------------
(* The theorems. *)

\* The variables keep their types: no byte is counted twice or sent beyond its
\* message, and the kernel's buffer is not overrun.
THEOREM TypeCorrect == Spec => []TypeOK
BY InitTypes, TypeStep, PTL DEF Spec

\* The queue and the POLLOUT request agree although two mutexes guard them and no
\* sender holds both.
THEOREM QueueWatched == Spec => []ArmedIffQueued
<1>1. Init => ArmedIffQueued
  BY DEF Init, ArmedIffQueued, Armed, Wants
<1> QED
  BY <1>1, TypeCorrect, ArmedStep, PTL DEF Spec

\* The driver never serves an empty queue.
THEOREM NeverUncalled == Spec => []NoUncalledSend
<1>1. ArmedIffQueued => NoUncalledSend
  BY DEF ArmedIffQueued, NoUncalledSend, Armed, Writable
<1> QED
  BY <1>1, QueueWatched, PTL

\* A promise is pending exactly while its message is queued, and fulfilled only
\* when the whole message was accepted by the kernel.
THEOREM PromiseCorrect == Spec => []PromiseHonest
<1>1. Init => QueueInjective /\ PromiseHonest
  BY DEF Init, QueueInjective, PromiseHonest
<1>2. Spec => [](QueueInjective /\ PromiseHonest)
  BY <1>1, TypeCorrect, PromiseStep, PTL DEF Spec
<1> QED
  BY <1>2, PTL

\* A promise is settled once.
THEOREM OnceCorrect == Spec => SettledOnce
<1>1. TypeOK /\ PromiseHonest /\ [Next]_vars => [Once]_vars
  BY OnceStep
<1> QED
  BY <1>1, TypeCorrect, PromiseCorrect, PTL DEF Spec, SettledOnce, Once

-------------------------------------------------------------------------------
(* What is written. *)

\* Where m is in q.
PlaceIn(q, m) == CHOOSE i \in DOMAIN q : q[i] = m

\* A message is accepted once; those accepted are those whose promise is in use.
AcceptedOnce == /\ \A i, j \in DOMAIN accepted : accepted[i] = accepted[j] => i = j
                /\ \A m \in Messages :
                     promise[m] # "none" <=> \E i \in DOMAIN accepted : accepted[i] = m

\* The messages on the wire, then those in the queue, in the order they were accepted.
\* What is on the wire may end with what the queue begins with.
OrderedBy(a, w, q) ==
  /\ \A i, j \in DOMAIN w : i < j => PlaceIn(a, w[i]) <= PlaceIn(a, w[j])
  /\ \A i \in DOMAIN w : \A j \in DOMAIN q : PlaceIn(a, w[i]) <= PlaceIn(a, q[j])
  /\ \A i, j \in DOMAIN q : i < j => PlaceIn(a, q[i]) < PlaceIn(a, q[j])

InOrder == /\ \A i \in DOMAIN wire : promise[wire[i]] # "none"
           /\ OrderedBy(accepted, wire, sendQ)

\* Nothing of an unused message has been sent, and only the front is sent in part.
OnlyFrontPartial ==
  /\ \A m \in Messages : promise[m] = "none" => left[m] = Size
  /\ \A i \in DOMAIN sendQ : left[sendQ[i]] < Size => i = 1 /\ stream

\* Every unit of a message is on the wire or left.
UnitsKept == \A m \in Messages : Written(m) + left[m] = Size

\* The inductive invariant of the wire.
WireInv == /\ TypeOK /\ QueueInjective /\ PromiseHonest
           /\ AcceptedOnce /\ InOrder /\ OnlyFrontPartial /\ UnitsKept

\* In a sequence without repetitions an element is where it is.
LEMMA PlaceFound ==
  ASSUME NEW q, \A i, j \in DOMAIN q : q[i] = q[j] => i = j,
         NEW i \in DOMAIN q
  PROVE  PlaceIn(q, q[i]) = i
BY DEF PlaceIn

\* v has the units of x that w has, and n more.
CountsUp(v, w, x, n) == LET old == {i \in DOMAIN w : w[i] = x}
                            new == {i \in DOMAIN v : v[i] = x}
                        IN  /\ Cardinality(old) \in Nat
                            /\ Cardinality(new) = Cardinality(old) + n

\* The units of x among k of m.
Among(x, k, m) == IF x = m THEN k ELSE 0

\* The units of x on the wire when k of m are added.
LEMMA Counted ==
  ASSUME NEW S, NEW w \in Seq(S), NEW k \in Nat, NEW m \in S, NEW x
  PROVE  CountsUp(w \o [i \in 1..k |-> m], w, x, Among(x, k, m))
<1> DEFINE n == Len(w)
           v == w \o [i \in 1..k |-> m]
           old == {i \in DOMAIN w : w[i] = x}
           new == {i \in DOMAIN v : v[i] = x}
           c == [i \in 1..k |-> m]
<1>1. n \in Nat /\ DOMAIN w = 1..n
  BY LenProperties
<1>2. c \in Seq(S) /\ Len(c) = k /\ \A i \in 1..k : c[i] = m
  BY Copies
<1> HIDE DEF c
<1>3. /\ v \in Seq(S)
      /\ Len(v) = n + k
      /\ \A i \in 1..n + k : v[i] = IF i <= n THEN w[i] ELSE c[i - n]
  <2>1. /\ v \in Seq(S)
        /\ Len(v) = Len(w) + Len(c)
        /\ \A i \in 1..Len(w) + Len(c) : v[i] = IF i <= Len(w) THEN w[i] ELSE c[i - Len(w)]
    BY <1>2, ConcatProperties, Zenon DEF c
  <2> QED
    BY <1>2, <2>1
<1>4. DOMAIN v = 1..n + k
  BY <1>3, LenProperties
<1> HIDE DEF n, v
<1>5. \A i \in 1..n : i \in 1..n + k /\ v[i] = w[i]
  BY <1>1, <1>3
<1>6. \A i \in n + 1..n + k : i \in 1..n + k /\ v[i] = m
  <2> SUFFICES ASSUME NEW i \in n + 1..n + k PROVE i \in 1..n + k /\ v[i] = m
    OBVIOUS
  <2>1. i \in 1..n + k /\ ~(i <= n) /\ i - n \in 1..k
    BY <1>1
  <2> QED
    BY <1>2, <1>3, <2>1
<1>7. \A i \in 1..n + k : i \in 1..n \/ i \in n + 1..n + k
  BY <1>1
<1>8. IsFiniteSet(old) /\ Cardinality(old) \in Nat
  <2>1. IsFiniteSet(1..n)
    BY <1>1, FS_Interval
  <2>2. IsFiniteSet(old)
    BY <1>1, <2>1, FS_Subset
  <2> QED
    BY <2>2, FS_CardinalityType
<1>9. CASE x = m
  <2>1. new = old \cup (n + 1..n + k)
    BY <1>1, <1>4, <1>5, <1>6, <1>7, <1>9
  <2>2. old \cap (n + 1..n + k) = {}
    BY <1>1
  <2>3. IsFiniteSet(n + 1..n + k) /\ Cardinality(n + 1..n + k) = k
    <3>1. n + 1 \in Int /\ n + k \in Int /\ (n + 1 > n + k => k = 0) /\ (n + k) - (n + 1) + 1 = k
      BY <1>1
    <3>2. IsFiniteSet(n + 1..n + k)
      BY <3>1, FS_Interval
    <3>3. Cardinality(n + 1..n + k) = IF n + 1 > n + k THEN 0 ELSE (n + k) - (n + 1) + 1
      BY <3>1, FS_Interval, Zenon
    <3> QED
      BY <3>1, <3>2, <3>3
  <2> HIDE DEF old, new
  <2>4. Cardinality(new) = Cardinality(old) + Cardinality(n + 1..n + k)
                             - Cardinality(old \cap (n + 1..n + k))
    BY <1>8, <2>1, <2>3, FS_Union, Zenon
  <2>5. Cardinality(old \cap (n + 1..n + k)) = 0
    BY <2>2, FS_EmptySet
  <2>6. Cardinality(new) = Cardinality(old) + k
    BY <1>8, <2>3, <2>4, <2>5
  <2> QED
    BY <1>8, <1>9, <2>6 DEF old, new, v, CountsUp, Among
<1>10. CASE x # m
  <2>1. new = old
    BY <1>1, <1>4, <1>5, <1>6, <1>7, <1>10
  <2> HIDE DEF old, new
  <2>2. Cardinality(new) = Cardinality(old) + 0
    BY <1>8, <2>1
  <2> QED
    BY <1>8, <1>10, <2>2 DEF old, new, v, CountsUp, Among
<1> QED
  BY <1>9, <1>10

\* A message that is enqueued is the last in both orders.
LEMMA EnqueueInOrder ==
  ASSUME TypeOK, PromiseHonest, AcceptedOnce, InOrder, NEW m \in Messages, Enqueue(m)
  PROVE  AcceptedOnce' /\ InOrder'
<1> DEFINE n == Len(accepted)
           k == Len(sendQ)
<1>1. /\ n \in Nat /\ DOMAIN accepted = 1..n /\ DOMAIN accepted' = 1..n + 1
      /\ \A i \in 1..n : accepted'[i] = accepted[i]
      /\ accepted'[n + 1] = m
      /\ \A i \in 1..n : accepted[i] \in Messages
  BY DEF TypeOK, Enqueue
<1>2. /\ k \in Nat /\ DOMAIN sendQ = 1..k /\ DOMAIN sendQ' = 1..k + 1
      /\ \A i \in 1..k : sendQ'[i] = sendQ[i]
      /\ sendQ'[k + 1] = m
      /\ \A i \in 1..k : sendQ[i] \in Messages
  BY DEF TypeOK, Enqueue
<1>3. /\ promise[m] = "none" /\ promise'[m] # "none"
      /\ \A x \in Messages : x # m => promise'[x] = promise[x]
      /\ wire' = wire
      /\ \A i \in DOMAIN wire : wire[i] \in Messages
  BY DEF TypeOK, Enqueue
<1> HIDE DEF n, k
<1>4. \A i \in 1..n : accepted[i] # m
  BY <1>1, <1>3 DEF AcceptedOnce
<1>5. \A i, j \in DOMAIN accepted' : accepted'[i] = accepted'[j] => i = j
  BY <1>1, <1>4 DEF AcceptedOnce
<1>6. \A x \in Messages : (\E i \in DOMAIN accepted' : accepted'[i] = x)
                            <=> x = m \/ \E i \in DOMAIN accepted : accepted[i] = x
  BY <1>1
<1>7. AcceptedOnce'
  <2>1. ASSUME NEW x \in Messages
        PROVE  promise'[x] # "none" <=> \E i \in DOMAIN accepted' : accepted'[i] = x
    <3>1. CASE x = m
      BY <1>3, <1>6, <3>1
    <3>2. CASE x # m
      BY <1>3, <1>6, <3>2 DEF AcceptedOnce
    <3> QED
      BY <3>1, <3>2
  <2> QED
    BY <1>5, <2>1 DEF AcceptedOnce
<1> DEFINE Old(x) == PlaceIn(accepted, x)
           New(x) == PlaceIn(accepted', x)
<1>8. \A x \in Messages : promise[x] # "none" => New(x) = Old(x) /\ Old(x) \in 1..n
  <2> SUFFICES ASSUME NEW x \in Messages, promise[x] # "none"
               PROVE  New(x) = Old(x) /\ Old(x) \in 1..n
    OBVIOUS
  <2>1. PICK i \in 1..n : accepted[i] = x
    BY <1>1 DEF AcceptedOnce
  <2>2. PlaceIn(accepted, accepted[i]) = i
    BY <1>1, PlaceFound DEF AcceptedOnce
  <2>3. i \in DOMAIN accepted' /\ accepted'[i] = x
    BY <1>1, <2>1
  <2>4. PlaceIn(accepted', accepted'[i]) = i
    BY <1>5, <2>3, PlaceFound
  <2> QED
    BY <2>1, <2>2, <2>3, <2>4
<1>9. New(m) = n + 1
  <2>1. n + 1 \in DOMAIN accepted'
    BY <1>1
  <2>2. PlaceIn(accepted', accepted'[n + 1]) = n + 1
    BY <1>5, <2>1, PlaceFound
  <2> QED
    BY <1>1, <2>2
<1> HIDE DEF Old, New
<1>10. /\ \A i \in DOMAIN wire : wire[i] \in Messages /\ promise[wire[i]] # "none"
       /\ \A i \in 1..k : sendQ[i] \in Messages /\ promise[sendQ[i]] # "none"
  BY <1>2, <1>3 DEF InOrder, PromiseHonest
<1>11. /\ \A i \in DOMAIN wire : New(wire[i]) = Old(wire[i]) /\ Old(wire[i]) \in 1..n
       /\ \A i \in 1..k : New(sendQ'[i]) = Old(sendQ[i]) /\ Old(sendQ[i]) \in 1..n
       /\ New(sendQ'[k + 1]) = n + 1
  BY <1>2, <1>8, <1>9, <1>10
<1>12. /\ \A i, j \in DOMAIN wire : i < j => Old(wire[i]) <= Old(wire[j])
       /\ \A i \in DOMAIN wire : \A j \in 1..k : Old(wire[i]) <= Old(sendQ[j])
       /\ \A i, j \in 1..k : i < j => Old(sendQ[i]) < Old(sendQ[j])
  BY <1>2 DEF InOrder, OrderedBy, Old
<1>13. \A i, j \in DOMAIN wire : i < j => New(wire[i]) <= New(wire[j])
  BY <1>11, <1>12
<1>14. \A i \in DOMAIN wire : \A j \in 1..k + 1 : New(wire[i]) <= New(sendQ'[j])
  <2>1. \A j \in 1..k + 1 : j \in 1..k \/ j = k + 1
    BY <1>2
  <2>2. \A i \in DOMAIN wire : \A j \in 1..k : New(wire[i]) <= New(sendQ'[j])
    BY <1>11, <1>12
  <2>3. \A i \in DOMAIN wire : New(wire[i]) <= New(sendQ'[k + 1])
    BY <1>1, <1>11
  <2> QED
    BY <2>1, <2>2, <2>3
<1>15. \A i, j \in 1..k + 1 : i < j => New(sendQ'[i]) < New(sendQ'[j])
  <2>1. \A i, j \in 1..k + 1 : i < j => i \in 1..k /\ (j \in 1..k \/ j = k + 1)
    BY <1>2
  <2>2. \A i, j \in 1..k : i < j => New(sendQ'[i]) < New(sendQ'[j])
    BY <1>11, <1>12
  <2>3. \A i \in 1..k : New(sendQ'[i]) < New(sendQ'[k + 1])
    BY <1>1, <1>11
  <2> QED
    BY <2>1, <2>2, <2>3
<1>16. OrderedBy(accepted', wire', sendQ')
  BY <1>2, <1>3, <1>13, <1>14, <1>15 DEF OrderedBy, New
<1>17. \A i \in DOMAIN wire' : promise'[wire'[i]] # "none"
  BY <1>3, <1>10
<1> QED
  BY <1>7, <1>16, <1>17 DEF InOrder

\* What is written comes from the front, and only the front is taken from the queue.
LEMMA FrontInOrder ==
  ASSUME TypeOK, PromiseHonest, AcceptedOnce, InOrder, sendQ # <<>>,
         accepted' = accepted, sendQ' \in {sendQ, Tail(sendQ)},
         NEW k \in Nat, wire' = wire \o [i \in 1..k |-> Head(sendQ)],
         \A m \in Messages : promise'[m] = "none" <=> promise[m] = "none"
  PROVE  AcceptedOnce' /\ InOrder'
<1> DEFINE h == Head(sendQ)
           n == Len(wire)
           c == [i \in 1..k |-> h]
           P(x) == PlaceIn(accepted, x)
<1>1. /\ h \in Messages /\ 1 \in DOMAIN sendQ /\ h = sendQ[1]
      /\ \A i \in DOMAIN sendQ : i = 1 \/ 1 < i
      /\ \A i \in DOMAIN sendQ : sendQ[i] \in Messages
  BY Pop, LenProperties DEF TypeOK
<1>2. /\ n \in Nat /\ DOMAIN wire = 1..n
      /\ \A i \in DOMAIN wire : wire[i] \in Messages
  BY LenProperties DEF TypeOK
<1>3. promise[h] # "none"
  BY <1>1, FrontPending
<1> HIDE DEF h
<1>4. /\ DOMAIN wire' = 1..n + k
      /\ \A i \in 1..n + k : wire'[i] = IF i <= n THEN wire[i] ELSE h
  <2>1. c \in Seq(Messages) /\ Len(c) = k /\ \A i \in 1..k : c[i] = h
    BY <1>1, Copies
  <2> HIDE DEF c
  <2>2. wire' = wire \o c
    BY DEF c, h
  <2> HIDE DEF n
  <2>3. /\ wire' \in Seq(Messages)
        /\ Len(wire') = n + k
        /\ \A i \in 1..n + k : wire'[i] = IF i <= n THEN wire[i] ELSE c[i - n]
    <3>1. wire \in Seq(Messages)
      BY DEF TypeOK
    <3>2. /\ wire \o c \in Seq(Messages)
          /\ Len(wire \o c) = Len(wire) + Len(c)
          /\ \A i \in 1..Len(wire) + Len(c) :
               (wire \o c)[i] = IF i <= Len(wire) THEN wire[i] ELSE c[i - Len(wire)]
      BY <2>1, <3>1, ConcatProperties, Zenon
    <3> QED
      BY <2>1, <2>2, <3>2 DEF n
  <2>4. \A i \in 1..n + k : ~(i <= n) => i - n \in 1..k
    BY <1>2
  <2> QED
    BY <2>1, <2>3, <2>4, LenProperties
<1>5. \A i \in 1..n + k : (i \in DOMAIN wire /\ wire'[i] = wire[i]) \/ (i > n /\ wire'[i] = h)
  BY <1>2, <1>4
<1>6. PICK d \in {0, 1} :
        \A j \in DOMAIN sendQ' : j \in Int /\ j + d \in DOMAIN sendQ /\ sendQ'[j] = sendQ[j + d]
  <2>1. CASE sendQ' = sendQ
    <3>1. \A j \in DOMAIN sendQ' : j \in Int /\ j + 0 \in DOMAIN sendQ /\ sendQ'[j] = sendQ[j + 0]
      BY <2>1, LenProperties DEF TypeOK
    <3> QED
      BY <3>1
  <2>2. CASE sendQ' = Tail(sendQ)
    <3>1. \A j \in DOMAIN sendQ' : j \in Int /\ j + 1 \in DOMAIN sendQ /\ sendQ'[j] = sendQ[j + 1]
      BY <2>2, Pop, LenProperties DEF TypeOK
    <3> QED
      BY <3>1
  <2> QED
    BY <2>1, <2>2
<1>7. /\ \A m \in Messages : promise[m] # "none" => P(m) \in Int
      /\ \A i, j \in DOMAIN accepted : accepted[i] = accepted[j] => i = j
  <2>1. \A i \in DOMAIN accepted : i \in Int
    BY LenProperties DEF TypeOK
  <2> QED
    BY <2>1, PlaceFound DEF AcceptedOnce
<1>8. AcceptedOnce'
  BY DEF AcceptedOnce
<1>9. \A i \in DOMAIN wire : promise[wire[i]] # "none"
  BY DEF InOrder
<1>10. \A i \in DOMAIN wire' : wire'[i] \in Messages /\ promise[wire'[i]] # "none"
  BY <1>1, <1>2, <1>3, <1>4, <1>5, <1>9
<1> HIDE DEF P, n
<1>11. /\ \A i, j \in DOMAIN wire : i < j => P(wire[i]) <= P(wire[j])
       /\ \A i \in DOMAIN wire : \A j \in DOMAIN sendQ : P(wire[i]) <= P(sendQ[j])
       /\ \A i, j \in DOMAIN sendQ : i < j => P(sendQ[i]) < P(sendQ[j])
  BY DEF InOrder, OrderedBy, P
<1>12. /\ P(h) \in Int
       /\ \A i \in DOMAIN wire : P(wire[i]) \in Int /\ P(wire[i]) <= P(h)
       /\ \A j \in DOMAIN sendQ : P(sendQ[j]) \in Int /\ P(h) <= P(sendQ[j])
  <2>1. \A j \in DOMAIN sendQ : promise[sendQ[j]] # "none"
    BY <1>1 DEF PromiseHonest
  <2>2. \A j \in DOMAIN sendQ : j = 1 \/ P(h) < P(sendQ[j])
    BY <1>1, <1>11
  <2> QED
    BY <1>1, <1>2, <1>3, <1>7, <1>9, <1>11, <2>1, <2>2
<1>13. \A i, j \in DOMAIN wire' : i < j => P(wire'[i]) <= P(wire'[j])
  <2> SUFFICES ASSUME NEW i \in 1..n + k, NEW j \in 1..n + k, i < j
               PROVE  P(wire'[i]) <= P(wire'[j])
    BY <1>4
  <2>1. CASE j \in DOMAIN wire
    <3>1. i \in DOMAIN wire /\ wire'[i] = wire[i] /\ wire'[j] = wire[j]
      <4>1. DOMAIN wire = 1..n /\ i <= n /\ j <= n
        BY <1>2, <2>1 DEF n
      <4>2. i \in DOMAIN wire
        BY <1>2, <4>1
      <4> QED
        BY <1>4, <4>1, <4>2
    <3>2. P(wire[i]) <= P(wire[j])
      BY <1>11, <2>1, <3>1
    <3> QED
      BY <3>1, <3>2, Zenon
  <2>2. CASE wire'[j] = h
    <3>1. CASE wire'[i] = h
      <4>1. P(h) <= P(h)
        BY <1>12
      <4> QED
        BY <2>2, <3>1, <4>1, Zenon
    <3>2. CASE i \in DOMAIN wire /\ wire'[i] = wire[i]
      BY <1>12, <2>2, <3>2
    <3> QED
      BY <1>5, <3>1, <3>2
  <2> QED
    BY <1>5, <2>1, <2>2
<1>14. \A i \in DOMAIN wire' : \A j \in DOMAIN sendQ' : P(wire'[i]) <= P(sendQ'[j])
  <2> SUFFICES ASSUME NEW i \in 1..n + k, NEW j \in DOMAIN sendQ'
               PROVE  P(wire'[i]) <= P(sendQ'[j])
    BY <1>4
  <2>1. j + d \in DOMAIN sendQ /\ sendQ'[j] = sendQ[j + d]
    BY <1>6
  <2>2. P(h) <= P(sendQ'[j]) /\ P(sendQ'[j]) \in Int
    BY <1>12, <2>1
  <2>3. CASE wire'[i] = h
    BY <2>2, <2>3
  <2>4. CASE i \in DOMAIN wire /\ wire'[i] = wire[i]
    BY <1>12, <2>2, <2>4
  <2> QED
    BY <1>5, <2>3, <2>4
<1>15. \A i, j \in DOMAIN sendQ' : i < j => P(sendQ'[i]) < P(sendQ'[j])
  BY <1>6, <1>11
<1>16. OrderedBy(accepted', wire', sendQ')
  BY <1>13, <1>14, <1>15 DEF OrderedBy, P
<1>17. \A i \in DOMAIN wire' : promise'[wire'[i]] # "none"
  BY <1>10
<1> QED
  BY <1>8, <1>16, <1>17 DEF InOrder

\* Counted, of the wire.
LEMMA WireCounted ==
  ASSUME wire \in Seq(Messages), NEW m \in Messages, NEW k \in Nat, NEW x \in Messages
  PROVE  CountsUp(wire \o [i \in 1..k |-> m], wire, x, Among(x, k, m))
BY Counted, Zenon

\* The kernel takes from a message what it puts on the wire.
LEMMA AcceptKeepsUnits ==
  ASSUME TypeOK, UnitsKept, NEW m \in Messages, NEW k \in 0..left[m],
         wire' = wire \o [i \in 1..k |-> m],
         left' = [left EXCEPT ![m] = @ - k]
  PROVE  UnitsKept'
<1> SUFFICES ASSUME NEW x \in Messages PROVE Written(x)' + left'[x] = Size
  BY DEF UnitsKept
<1> DEFINE old == Cardinality({i \in DOMAIN wire : wire[i] = x})
           new == Cardinality({i \in DOMAIN wire' : wire'[i] = x})
<1>1. k \in Nat /\ wire \in Seq(Messages) /\ left[m] \in Nat /\ left[x] \in Nat /\ Size \in Nat
  BY DEF TypeOK
<1>2. CountsUp(wire', wire, x, Among(x, k, m))
  BY <1>1, WireCounted
<1>3. old \in Nat /\ new = old + (IF x = m THEN k ELSE 0)
  BY <1>2 DEF CountsUp, Among
<1>4. Written(x)' = new /\ old + left[x] = Size
  BY DEF Written, UnitsKept
<1>5. left'[x] = IF x = m THEN left[x] - k ELSE left[x]
  BY DEF TypeOK
<1> HIDE DEF old, new
<1> QED
  BY <1>1, <1>3, <1>4, <1>5

\* Popping or writing to the front leaves no other message sent in part.
LEMMA FrontPartial ==
  ASSUME TypeOK, QueueInjective, PromiseHonest, OnlyFrontPartial, sendQ # <<>>,
         stream' = stream,
         \A m \in Messages \ {Head(sendQ)} : left'[m] = left[m],
         \A m \in Messages : promise'[m] = "none" <=> promise[m] = "none",
         sendQ' = Tail(sendQ) \/ (sendQ' = sendQ /\ stream)
  PROVE  OnlyFrontPartial'
<1> DEFINE h == Head(sendQ)
           n == Len(sendQ)
<1>1. /\ n \in Nat \ {0} /\ DOMAIN sendQ = 1..n
      /\ h \in Messages /\ h = sendQ[1]
      /\ \A i \in 1..n : sendQ[i] \in Messages
      /\ promise[h] = "pending"
  BY Pop, LenProperties, FrontPending DEF TypeOK
<1> HIDE DEF n
<1>2. \A m \in Messages : promise'[m] = "none" => left'[m] = Size
  BY <1>1 DEF OnlyFrontPartial
<1> HIDE DEF h
<1>3. \A i \in 1..n : i # 1 => left'[sendQ[i]] = left[sendQ[i]] /\ left[sendQ[i]] = Size
  <2> SUFFICES ASSUME NEW i \in 1..n, i # 1
               PROVE  left'[sendQ[i]] = left[sendQ[i]] /\ left[sendQ[i]] = Size
    OBVIOUS
  <2>1. sendQ[i] # h
    BY <1>1 DEF QueueInjective
  <2>2. left[sendQ[i]] \in 0..Size /\ ~(left[sendQ[i]] < Size)
    BY <1>1 DEF OnlyFrontPartial, TypeOK
  <2> QED
    BY <1>1, <2>1, <2>2 DEF h
<1>4. CASE sendQ' = Tail(sendQ)
  <2>1. DOMAIN sendQ' = 1..n - 1 /\ \A i \in 1..n - 1 : sendQ'[i] = sendQ[i + 1]
    BY <1>1, <1>4, Pop, LenProperties DEF TypeOK, n
  <2>2. \A i \in 1..n - 1 : i + 1 \in 1..n /\ i + 1 # 1
    BY <1>1
  <2>3. \A i \in DOMAIN sendQ' : left'[sendQ'[i]] = Size
    BY <1>3, <2>1, <2>2
  <2> QED
    BY <1>2, <2>3 DEF OnlyFrontPartial
<1>5. CASE sendQ' = sendQ /\ stream
  BY <1>1, <1>2, <1>3, <1>5 DEF OnlyFrontPartial
<1> QED
  BY <1>4, <1>5

-------------------------------------------------------------------------------
(* Every step keeps the wire in order. *)

\* The part of WireInv that PromiseStep does not keep.
Rest == AcceptedOnce /\ InOrder /\ OnlyFrontPartial /\ UnitsKept

\* A message is enqueued.
LEMMA EnqueueRest ==
  ASSUME WireInv, NEW m \in Messages, Enqueue(m), stream' = stream
  PROVE  Rest'
<1>1. AcceptedOnce' /\ InOrder'
  BY EnqueueInOrder DEF WireInv
<1>2. UnitsKept'
  BY DEF Enqueue, UnitsKept, Written, WireInv
<1>3. OnlyFrontPartial'
  <2> DEFINE n == Len(sendQ)
  <2>1. /\ n \in Nat /\ DOMAIN sendQ = 1..n /\ DOMAIN sendQ' = 1..n + 1
        /\ \A i \in 1..n : sendQ'[i] = sendQ[i]
        /\ sendQ'[n + 1] = m
    BY DEF TypeOK, Enqueue, WireInv
  <2>2. left' = left /\ left[m] = Size /\ \A x \in Messages : promise'[x] = "none" => promise[x] = "none"
    BY DEF Enqueue, WireInv, OnlyFrontPartial, TypeOK
  <2> HIDE DEF n
  <2>3. \A i \in 1..n + 1 : i \in 1..n \/ i = n + 1
    BY <2>1
  <2>4. \A i \in 1..n : left[sendQ[i]] < Size => i = 1 /\ stream
    BY <2>1 DEF WireInv, OnlyFrontPartial
  <2>5. ~(Size < Size)
    OBVIOUS
  <2>6. \A i \in 1..n + 1 : left'[sendQ'[i]] < Size => i = 1 /\ stream'
    BY <2>1, <2>2, <2>3, <2>4, <2>5
  <2>7. \A x \in Messages : promise'[x] = "none" => left'[x] = Size
    BY <2>2 DEF WireInv, OnlyFrontPartial
  <2> QED
    BY <2>1, <2>6, <2>7 DEF OnlyFrontPartial
<1> QED
  BY <1>1, <1>2, <1>3 DEF Rest

\* The driver writes k units of the front.
LEMMA AcceptRest ==
  ASSUME WireInv, OnWritable, NEW k \in 0..left[Head(sendQ)], Accept(Head(sendQ), k),
         sendQ' = Tail(sendQ) \/ (sendQ' = sendQ /\ stream),
         \A m \in Messages : promise'[m] = "none" <=> promise[m] = "none"
  PROVE  Rest'
<1>1. /\ sendQ # <<>> /\ Head(sendQ) \in Messages
      /\ accepted' = accepted /\ stream' = stream
      /\ wire' = wire \o [i \in 1..k |-> Head(sendQ)]
      /\ left' = [left EXCEPT ![Head(sendQ)] = @ - k]
  BY WritableTypes DEF OnWritable, Accept, net, WireInv
<1>2. left[Head(sendQ)] \in Nat /\ k \in Nat
  BY <1>1 DEF WireInv, TypeOK
<1>3. AcceptedOnce' /\ InOrder'
  BY <1>1, <1>2, FrontInOrder DEF WireInv
<1>4. UnitsKept'
  BY <1>1, AcceptKeepsUnits DEF WireInv
<1>5. \A m \in Messages \ {Head(sendQ)} : left'[m] = left[m]
  BY <1>1 DEF WireInv, TypeOK
<1>6. OnlyFrontPartial'
  BY <1>1, <1>5, FrontPartial DEF WireInv
<1> QED
  BY <1>3, <1>4, <1>6 DEF Rest

\* A send fails: nothing is written, the front goes.
LEMMA FailRest ==
  ASSUME WireInv, SendFails
  PROVE  Rest'
<1>1. /\ sendQ # <<>> /\ Head(sendQ) \in Messages
      /\ accepted' = accepted /\ stream' = stream /\ wire' = wire /\ left' = left
      /\ sendQ' = Tail(sendQ)
      /\ promise' = [promise EXCEPT ![Head(sendQ)] = "error"]
      /\ promise[Head(sendQ)] = "pending"
  BY WritableTypes, FrontPending DEF SendFails, Popped, OnWritable, net, WireInv
<1>2. \A m \in Messages : promise'[m] = "none" <=> promise[m] = "none"
  BY <1>1 DEF WireInv, TypeOK
<1>3. wire' = wire \o [i \in 1..0 |-> Head(sendQ)]
  <2>1. [i \in 1..0 |-> Head(sendQ)] = <<>>
    OBVIOUS
  <2> QED
    BY <1>1, <2>1, ConcatEmptySeq DEF WireInv, TypeOK
<1>4. AcceptedOnce' /\ InOrder'
  <2>1. 0 \in Nat
    OBVIOUS
  <2> QED
    BY <1>1, <1>2, <1>3, <2>1, FrontInOrder DEF WireInv
<1>5. UnitsKept'
  BY <1>1 DEF UnitsKept, Written, WireInv
<1>6. OnlyFrontPartial'
  BY <1>1, <1>2, FrontPartial DEF WireInv
<1> QED
  BY <1>4, <1>5, <1>6 DEF Rest

\* The queue goes with its object.
LEMMA DestroyRest ==
  ASSUME WireInv, Destroy
  PROVE  Rest'
<1>1. /\ sendQ' = <<>> /\ DOMAIN sendQ' = {}
      /\ UNCHANGED <<left, wire, accepted>>
      /\ \A m \in Messages : promise'[m] = "none" <=> promise[m] = "none"
  BY DEF Destroy, WireInv, TypeOK
<1>2. \A i \in DOMAIN wire : wire[i] \in Messages
  BY DEF WireInv, TypeOK
<1> QED
  BY <1>1, <1>2 DEF Rest, WireInv, AcceptedOnce, InOrder, OrderedBy, OnlyFrontPartial, UnitsKept, Written

\* All other steps leave the messages alone.
LEMMA OtherRest ==
  ASSUME WireInv, UNCHANGED <<sendQ, left, promise, wire, accepted, stream>>
  PROVE  Rest'
BY DEF Rest, WireInv, AcceptedOnce, InOrder, OrderedBy, OnlyFrontPartial, UnitsKept, Written

LEMMA WireStep == WireInv /\ [Next]_vars => WireInv'
<1> SUFFICES ASSUME WireInv, [Next]_vars PROVE WireInv'
  OBVIOUS
<1>1. TypeOK' /\ (QueueInjective /\ PromiseHonest)'
  BY TypeStep, PromiseStep DEF WireInv
<1> SUFFICES Rest'
  BY <1>1 DEF WireInv, Rest
<1>2. CASE Poll \/ PollYields \/ Receive \/ Disconnect \/ EndCallback \/ ClearPollOut
  BY <1>2, OtherRest
     DEF Poll, PollYields, Receive, Disconnect, EndCallback, ClearPollOut, queue, net
<1>3. CASE SendAll
  <2>1. /\ OnWritable /\ Accept(Head(sendQ), left[Head(sendQ)])
        /\ sendQ' = Tail(sendQ) /\ Head(sendQ) \in Messages /\ sendQ # <<>>
        /\ promise' = [promise EXCEPT ![Head(sendQ)] = "value"]
    BY <1>3, WritableTypes DEF SendAll, Popped, OnWritable, WireInv
  <2>2. promise[Head(sendQ)] = "pending"
    BY <2>1, FrontPending DEF WireInv
  <2>3. \A m \in Messages : promise'[m] = "none" <=> promise[m] = "none"
    BY <2>1, <2>2 DEF WireInv, TypeOK
  <2>4. left[Head(sendQ)] \in 0..left[Head(sendQ)]
    BY <2>1 DEF WireInv, TypeOK
  <2> QED
    BY <2>1, <2>3, <2>4, AcceptRest
<1>4. CASE SendPart
  <2>1. PICK k \in Portions(left[Head(sendQ)]) \ {left[Head(sendQ)]} : Accept(Head(sendQ), k)
    BY <1>4 DEF SendPart
  <2>2. OnWritable /\ UNCHANGED <<sendQ, promise>> /\ Head(sendQ) \in Messages
    BY <1>4, WritableTypes DEF SendPart, WireInv
  <2>3. stream /\ k \in 0..left[Head(sendQ)]
    BY <2>1 DEF Portions
  <2> QED
    BY <2>1, <2>2, <2>3, AcceptRest
<1>5. CASE SendFails
  BY <1>5, FailRest
<1>6. ASSUME NEW m \in Messages, CallbackSend(m) PROVE Rest'
  BY <1>6, EnqueueRest DEF CallbackSend, net
<1>7. ASSUME NEW c \in Senders, WantSend(c) PROVE Rest'
  BY <1>7, OtherRest DEF WantSend, queue, net
<1>8. ASSUME NEW c \in Senders, NEW m \in Messages, Send(c, m) PROVE Rest'
  BY <1>8, EnqueueRest DEF Send, net
<1>9. CASE Destroy
  BY <1>9, DestroyRest
<1>10. CASE Drain \/ Arrive \/ PeerClose \/ UNCHANGED vars
  BY <1>10, OtherRest DEF Drain, Arrive, PeerClose, vars, queue, net
<1> QED
  BY <1>2, <1>3, <1>4, <1>5, <1>6, <1>7, <1>8, <1>9, <1>10 DEF Next, DriverNext

LEMMA InitWire == Init => WireInv
<1> SUFFICES ASSUME Init PROVE WireInv
  OBVIOUS
<1>1. TypeOK
  BY InitTypes
<1>2. DOMAIN sendQ = {} /\ DOMAIN wire = {} /\ DOMAIN accepted = {}
  BY DEF Init
<1>3. \A m \in Messages : promise[m] = "none" /\ left[m] = Size
  BY DEF Init
<1>4. QueueInjective /\ PromiseHonest /\ AcceptedOnce /\ InOrder /\ OnlyFrontPartial
  BY <1>2, <1>3 DEF QueueInjective, PromiseHonest, AcceptedOnce, InOrder, OrderedBy, OnlyFrontPartial
<1>5. UnitsKept
  <2>1. \A m \in Messages : {i \in DOMAIN wire : wire[i] = m} = {}
    BY <1>2
  <2>2. \A m \in Messages : Written(m) = 0
    BY <2>1, FS_EmptySet DEF Written
  <2> QED
    BY <1>3, <2>2 DEF UnitsKept
<1> QED
  BY <1>1, <1>4, <1>5 DEF WireInv

\* However sends are split, fail and interleave, the wire carries the messages in the
\* order in which DoSendEnqueue took them, no unit lost, repeated or mixed up.
THEOREM WireCorrect == Spec => []WireInOrder
<1>1. WireInv => WireInOrder
  BY DEF WireInv, UnitsKept, InOrder, OrderedBy, OnlyFrontPartial, WireInOrder, Place, PlaceIn
<1> QED
  BY <1>1, InitWire, WireStep, PTL DEF Spec
===============================================================================
