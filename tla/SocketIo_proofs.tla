---------------------------- MODULE SocketIo_proofs ----------------------------
(* What a call of SocketIo keeps for every size, timeout and buffer. *)
EXTENDS SocketIo, SequenceTheorems, TLAPS

\* Units 1 to n have passed.
Upto(n) == [i \in 1..n |-> i]

\* Of the variables that the clock has no part in.
Typed ==
  /\ kind \in Kinds /\ buffered \in BOOLEAN
  /\ pc \in {"idle", "wait", "poll", "now"}
  /\ op \in {"send", "receive"} /\ size \in Sizes \cup {1} /\ timeout \in Timeouts
  /\ left \in 0..size
  /\ room \in 0..SndBuf /\ inbox \in 0..RcvBuf
  /\ peer \in {"open", "closed", "reset"}
  /\ lent \in 0..RxBufCount /\ held \in 0..lent

\* What a call that is under way has done, and what poll has told it.
Calling == pc # "idle"

Progress ==
  /\ Calling => outcome = "none" /\ count = 0
  /\ Calling => wire = Upto(IF op = "send" THEN size - left ELSE 0)
  /\ Calling /\ kind # "tcp" /\ op = "send" => left = 1

\* What distinguishes the kinds of sockets.
KindKept ==
  /\ kind # "tcp" => size = 1 /\ peer = "open"
  /\ pc = "now" /\ op = "send" => room > 0 \/ peer = "reset"

-------------------------------------------------------------------------------
LEMMA UptoProperties ==
  ASSUME NEW n \in Nat
  PROVE  Upto(n) \in Seq(Nat) /\ Len(Upto(n)) = n
<1>1. \A i \in 1..n : i \in Nat
  OBVIOUS
<1>2. Upto(n) \in [1..n -> Nat]
  BY <1>1 DEF Upto
<1>. QED  BY <1>2, SeqDef, LenProperties DEF Upto

LEMMA UptoPrefix ==
  ASSUME NEW n \in Nat, NEW m \in Nat, n <= m
  PROVE  SubSeq(Upto(m), 1, n) = Upto(n)
<1>1. Upto(m) \in Seq(Nat) /\ Len(Upto(m)) = m
  BY UptoProperties
<1>2. SubSeq(Upto(m), 1, n) = [i \in 1..n |-> i]
  BY <1>1 DEF Upto
<1>. QED  BY <1>2 DEF Upto

LEMMA UptoExtended ==
  ASSUME NEW n \in Nat, NEW k \in Nat
  PROVE  Upto(n) \o [i \in 1..k |-> n + i] = Upto(n + k)
<1>. DEFINE more == [i \in 1..k |-> n + i]
<1>1. more \in Seq(Nat) /\ Len(more) = k
  <2>1. more \in [1..k -> Nat]
    OBVIOUS
  <2>. QED  BY <2>1, SeqDef, LenProperties
<1>2. Upto(n) \in Seq(Nat) /\ Len(Upto(n)) = n /\ n + k \in Nat
  BY UptoProperties
<1>3. Upto(n + k) \in Seq(Nat) /\ Len(Upto(n + k)) = n + k
  BY UptoProperties
<1>4. \A i \in 1..(n + k) : (Upto(n) \o more)[i] = i
  <2>1. \A i \in 1..n : Upto(n)[i] = i
    BY DEF Upto
  <2>2. \A i \in 1..k : more[i] = n + i
    OBVIOUS
  <2>. HIDE DEF more
  <2>. QED  BY <1>1, <1>2, <2>1, <2>2, ConcatProperties
<1>5. \A i \in 1..(n + k) : Upto(n + k)[i] = i
  BY DEF Upto
<1>. HIDE DEF more
<1>6. Upto(n) \o more \in Seq(Nat) /\ Len(Upto(n) \o more) = n + k
  BY <1>1, <1>2, ConcatProperties
<1>7. Upto(n) \o more = Upto(n + k)
  BY <1>3, <1>4, <1>5, <1>6, SeqEqual
<1>. QED  BY <1>7 DEF more

-------------------------------------------------------------------------------
USE IoAssumption DEF IoAssumption

Sound == Typed /\ Progress /\ KindKept /\ BuffersReturned

LEMMA UnitsAreNumbers == Unit \subseteq Sizes \cup {1} /\ Sizes \cup {1} \subseteq Nat
BY DEF Unit

LEMMA SoundInit == Init => Sound
<1>. SUFFICES ASSUME Init PROVE Sound
  OBVIOUS
<1>. USE UnitsAreNumbers DEF Init
<1>1. Typed
  <2>1. buffered \in BOOLEAN
    OBVIOUS
  <2>2. size \in Nat /\ SndBuf \in Nat /\ RcvBuf \in Nat /\ RxBufCount \in Nat
    OBVIOUS
  <2>3. /\ left \in 0..size /\ room \in 0..SndBuf /\ inbox \in 0..RcvBuf
        /\ lent \in 0..RxBufCount /\ held \in 0..lent
    BY <2>2
  <2>. QED  BY <2>1, <2>3 DEF Typed
<1>2. Progress
  BY DEF Progress, Calling
<1>3. KindKept
  BY DEF KindKept, Unit
<1>4. BuffersReturned
  BY DEF BuffersReturned, HasBuffer
<1>. QED  BY <1>1, <1>2, <1>3, <1>4 DEF Sound

\* What a call that ends or a user who drops a buffer leaves of the pool.
LEMMA DropReturns ==
  ASSUME Typed, BuffersReturned, Drop, UNCHANGED held
  PROVE  lent' = held /\ lent' \in 0..RxBufCount /\ held' \in 0..lent'
BY DEF Typed, BuffersReturned, Drop, HasBuffer

LEMMA TypedStep == Sound /\ [Next]_vars => Typed'
<1>. SUFFICES ASSUME Sound, [Next]_vars PROVE Typed'
  OBVIOUS
<1>. USE UnitsAreNumbers DEF Sound, Typed, socket, call, kernel, pool
<1>1. ASSUME NEW n \in Unit, NEW t \in Timeouts, NEW o \in {"send", "receive"}, Call(o, n, t)
      PROVE  Typed'
  BY <1>1 DEF Call, NewCall
<1>2. ASSUME NEW n \in Unit, NEW t \in Timeouts, CallRefused(n, t)
      PROVE  Typed'
  BY <1>2 DEF CallRefused, NewCall
<1>3. CASE EnterPoll
  BY <1>3 DEF EnterPoll
<1>4. CASE PollReady
  BY <1>4 DEF PollReady
<1>5. CASE PollTimeout
  BY <1>5, DropReturns DEF PollTimeout, ReturnEmpty
<1>6. CASE Send
  <2>1. PICK k \in Least(1, left)..Least(left, room) :
              left' = left - k /\ room' = room - k
    BY <1>6 DEF Send, HandOver
  <2>2. left' \in 0..size /\ room' \in 0..SndBuf
    BY <2>1 DEF Least
  <2>. QED  BY <1>6, <2>2 DEF Send
<1>7. CASE SendTo
  BY <1>7 DEF SendTo, HandOver, Progress, Calling, KindKept
<1>8. CASE SendFails
  BY <1>8, DropReturns DEF SendFails, Throw
<1>9. CASE Receive
  BY <1>9 DEF Receive, Take, Least, BuffersReturned, HasBuffer
<1>10. CASE ReceiveFrom
  BY <1>10 DEF ReceiveFrom, Take
<1>11. CASE Accept
  BY <1>11 DEF Accept, Take
<1>12. CASE ReceiveFails
  BY <1>12, DropReturns DEF ReceiveFails, Throw
<1>13. CASE ReceiveRefused
  BY <1>13 DEF ReceiveRefused
<1>14. CASE PollFails
  BY <1>14, DropReturns DEF PollFails, Throw
<1>15. CASE DropBuffer
  BY <1>15 DEF DropBuffer
<1>16. CASE Elapse \/ Sleep
  BY <1>16 DEF Elapse, Sleep
<1>17. CASE Drain
  BY <1>17 DEF Drain
<1>18. CASE Arrive
  BY <1>18 DEF Arrive
<1>19. CASE Vanish
  BY <1>19 DEF Vanish
<1>20. CASE PeerCloses \/ PeerResets
  BY <1>20 DEF PeerCloses, PeerResets
<1>21. CASE UNCHANGED vars
  BY <1>21 DEF vars
<1>. QED
  BY <1>1, <1>2, <1>3, <1>4, <1>5, <1>6, <1>7, <1>8, <1>9, <1>10, <1>11, <1>12, <1>13,
     <1>14, <1>15, <1>16, <1>17, <1>18, <1>19, <1>20, <1>21 DEF Next, Continue

LEMMA ProgressStep == Sound /\ [Next]_vars => Progress'
<1>. SUFFICES ASSUME Sound, [Next]_vars PROVE Progress'
  OBVIOUS
<1>. USE UnitsAreNumbers DEF Sound, Progress, Calling, socket, call, kernel, pool, report
<1>1. ASSUME NEW n \in Unit, NEW t \in Timeouts, NEW o \in {"send", "receive"}, Call(o, n, t)
      PROVE  Progress'
  <2>1. wire' = <<>> /\ op' = o /\ size' = n /\ left' = (IF o = "send" THEN n ELSE 0)
    BY <1>1 DEF Call, NewCall
  <2>2. wire' = Upto(IF op' = "send" THEN size' - left' ELSE 0)
    BY <2>1 DEF Upto
  <2>3. kind' # "tcp" /\ op' = "send" => left' = 1
    BY <1>1, <2>1 DEF Call, Unit
  <2>. QED  BY <1>1, <2>2, <2>3 DEF Call
<1>2. ASSUME NEW n \in Unit, NEW t \in Timeouts, CallRefused(n, t)
      PROVE  Progress'
  BY <1>2 DEF CallRefused
<1>3. CASE EnterPoll
  BY <1>3 DEF EnterPoll
<1>4. CASE PollReady
  BY <1>4 DEF PollReady
<1>5. CASE PollTimeout
  BY <1>5 DEF PollTimeout, ReturnEmpty
<1>6. CASE Send
  <2>1. PICK k \in Least(1, left)..Least(left, room) : HandOver(k)
    BY <1>6 DEF Send
  <2>2. /\ k \in Nat /\ left \in Nat /\ size \in Nat /\ size - left \in Nat
        /\ left' = left - k /\ size' = size
    BY <1>6, <2>1 DEF Send, Typed, Least, HandOver
  <2>3. wire' = Upto(size' - left')
    <3>1. wire = Upto(size - left)
      BY <1>6 DEF Send
    <3>2. wire' = Upto((size - left) + k)
      BY <2>1, <2>2, <3>1, UptoExtended DEF HandOver
    <3>. QED  BY <2>2, <3>2
  <2>. QED  BY <1>6, <2>3 DEF Send
<1>7. CASE SendTo
  BY <1>7 DEF SendTo
<1>8. CASE SendFails
  BY <1>8 DEF SendFails, Throw
<1>9. CASE Receive
  BY <1>9 DEF Receive, Take
<1>10. CASE ReceiveFrom
  BY <1>10 DEF ReceiveFrom, Take
<1>11. CASE Accept
  BY <1>11 DEF Accept, Take
<1>12. CASE ReceiveFails
  BY <1>12 DEF ReceiveFails, Throw
<1>13. CASE ReceiveRefused
  BY <1>13 DEF ReceiveRefused
<1>14. CASE PollFails
  BY <1>14 DEF PollFails, Throw
<1>15. CASE DropBuffer
  BY <1>15 DEF DropBuffer
<1>16. CASE Elapse \/ Sleep
  BY <1>16 DEF Elapse, Sleep
<1>17. CASE Drain \/ Arrive \/ Vanish
  BY <1>17 DEF Drain, Arrive, Vanish
<1>18. CASE PeerCloses \/ PeerResets
  BY <1>18 DEF PeerCloses, PeerResets
<1>19. CASE UNCHANGED vars
  BY <1>19 DEF vars
<1>. QED
  BY <1>1, <1>2, <1>3, <1>4, <1>5, <1>6, <1>7, <1>8, <1>9, <1>10, <1>11, <1>12, <1>13,
     <1>14, <1>15, <1>16, <1>17, <1>18, <1>19 DEF Next, Continue

LEMMA KindStep == Sound /\ [Next]_vars => KindKept'
<1>. SUFFICES ASSUME Sound, [Next]_vars PROVE KindKept'
  OBVIOUS
<1>. USE DEF Sound, KindKept, socket, call, kernel, pool, report
<1>1. ASSUME NEW n \in Unit, NEW t \in Timeouts, NEW o \in {"send", "receive"}, Call(o, n, t)
      PROVE  KindKept'
  BY <1>1 DEF Call, NewCall, Unit
<1>2. ASSUME NEW n \in Unit, NEW t \in Timeouts, CallRefused(n, t)
      PROVE  KindKept'
  BY <1>2 DEF CallRefused, NewCall, Unit
<1>3. CASE EnterPoll
  BY <1>3 DEF EnterPoll
<1>4. CASE PollReady
  BY <1>4 DEF PollReady, Ready
<1>5. CASE PollTimeout \/ PollFails
  BY <1>5 DEF PollTimeout, PollFails, ReturnEmpty, Throw
<1>6. CASE Send
  BY <1>6 DEF Send
<1>7. CASE SendTo
  BY <1>7 DEF SendTo
<1>8. CASE SendFails \/ ReceiveFails \/ ReceiveRefused
  BY <1>8 DEF SendFails, ReceiveFails, ReceiveRefused, Throw
<1>9. CASE Receive \/ ReceiveFrom \/ Accept
  BY <1>9 DEF Receive, ReceiveFrom, Accept, Take
<1>10. CASE DropBuffer
  BY <1>10 DEF DropBuffer
<1>11. CASE Elapse \/ Sleep
  BY <1>11 DEF Elapse, Sleep
<1>12. CASE Drain
  <2>1. room \in Nat /\ room' = room + 1
    BY <1>12 DEF Drain, Typed
  <2>. QED  BY <1>12, <2>1 DEF Drain
<1>13. CASE Arrive \/ Vanish
  BY <1>13 DEF Arrive, Vanish
<1>14. CASE PeerCloses \/ PeerResets
  BY <1>14 DEF PeerCloses, PeerResets
<1>15. CASE UNCHANGED vars
  BY <1>15 DEF vars
<1>. QED
  BY <1>1, <1>2, <1>3, <1>4, <1>5, <1>6, <1>7, <1>8, <1>9, <1>10, <1>11, <1>12, <1>13,
     <1>14, <1>15 DEF Next, Continue

LEMMA BuffersStep == Sound /\ [Next]_vars => BuffersReturned'
<1>. SUFFICES ASSUME Sound, [Next]_vars PROVE BuffersReturned'
  OBVIOUS
<1>1. lent \in Nat /\ held \in Nat
  BY DEF Sound, Typed
<1>. USE <1>1 DEF Sound, BuffersReturned, HasBuffer, socket, call, kernel, pool, report
<1>2. ASSUME NEW n \in Unit, NEW t \in Timeouts, NEW o \in {"send", "receive"}, Call(o, n, t)
      PROVE  BuffersReturned'
  BY <1>2 DEF Call, NewCall
<1>3. ASSUME NEW n \in Unit, NEW t \in Timeouts, CallRefused(n, t)
      PROVE  BuffersReturned'
  BY <1>3 DEF CallRefused
<1>4. CASE EnterPoll \/ PollReady
  BY <1>4 DEF EnterPoll, PollReady
<1>5. CASE PollTimeout
  BY <1>5 DEF PollTimeout, ReturnEmpty, Drop
<1>6. CASE PollFails \/ SendFails \/ ReceiveFails
  BY <1>6 DEF PollFails, SendFails, ReceiveFails, Throw, Drop
<1>7. CASE Send \/ SendTo
  BY <1>7 DEF Send, SendTo
<1>8. CASE Receive
  BY <1>8 DEF Receive, Take
<1>9. CASE ReceiveFrom
  BY <1>9 DEF ReceiveFrom, Take
<1>10. CASE Accept \/ ReceiveRefused
  BY <1>10 DEF Accept, Take, ReceiveRefused
<1>11. CASE DropBuffer
  BY <1>11 DEF DropBuffer
<1>12. CASE Elapse \/ Sleep
  BY <1>12 DEF Elapse, Sleep
<1>13. CASE Drain \/ Arrive \/ Vanish
  BY <1>13 DEF Drain, Arrive, Vanish
<1>14. CASE PeerCloses \/ PeerResets
  BY <1>14 DEF PeerCloses, PeerResets
<1>15. CASE UNCHANGED vars
  BY <1>15 DEF vars
<1>. QED
  BY <1>2, <1>3, <1>4, <1>5, <1>6, <1>7, <1>8, <1>9, <1>10, <1>11, <1>12, <1>13,
     <1>14, <1>15 DEF Next, Continue

LEMMA SoundCorrect == Spec => []Sound
BY SoundInit, TypedStep, ProgressStep, KindStep, BuffersStep, PTL DEF Spec, Sound

\* Whichever way a receive ends, its buffer is with the user or back in the pool.
THEOREM BuffersCorrect == Spec => []BuffersReturned
BY SoundCorrect, PTL DEF Sound
-------------------------------------------------------------------------------
(* The calls keep what Transfer promises. *)

\* The int of poll holds the timeouts: no limit stays none, and what remains of a
\* limited one is not changed.
TimeoutsFit ==
  \A t \in Timeouts : /\ t < 0 => ToMsec(t) < 0
                      /\ \A ms \in 0..t : ToMsec(ms) = ms

\* A poll that may time out belongs to a call with a timeout.
PollLimited == pc = "poll" /\ until # Never => timeout >= 0

LEMMA PollLimitedStep ==
  ASSUME TimeoutsFit
  PROVE  Sound /\ PollLimited /\ [Next]_vars => PollLimited'
<1>. SUFFICES ASSUME Sound, PollLimited, [Next]_vars PROVE PollLimited'
  OBVIOUS
<1>. USE DEF PollLimited, call
<1>1. timeout \in Timeouts /\ timeout \in Int
  BY DEF Sound, Typed
<1>2. CASE EnterPoll
  <2>1. timeout < 0 => WaitTimeout = timeout
    BY <1>1 DEF WaitTimeout, SendsSome
  <2>2. timeout < 0 => until' = Never
    BY <1>1, <1>2, <2>1 DEF EnterPoll, TimeoutsFit
  <2>. QED  BY <1>1, <1>2, <2>2 DEF EnterPoll
<1>3. ASSUME NEW n \in Unit, NEW t \in Timeouts, NEW o \in {"send", "receive"}, Call(o, n, t)
      PROVE  PollLimited'
  BY <1>3 DEF Call
<1>4. ASSUME NEW n \in Unit, NEW t \in Timeouts, CallRefused(n, t)
      PROVE  PollLimited'
  BY <1>4 DEF CallRefused
<1>5. CASE PollReady \/ PollTimeout \/ PollFails
  BY <1>5 DEF PollReady, PollTimeout, PollFails, ReturnEmpty, Throw
<1>6. CASE Send \/ SendTo \/ SendFails
  BY <1>6 DEF Send, SendTo, SendFails, Throw
<1>7. CASE Receive \/ ReceiveFrom \/ Accept \/ ReceiveFails \/ ReceiveRefused
  BY <1>7 DEF Receive, ReceiveFrom, Accept, Take, ReceiveFails, ReceiveRefused, Throw
<1>8. CASE DropBuffer \/ Elapse \/ Sleep \/ Drain \/ Arrive \/ Vanish
  BY <1>8 DEF DropBuffer, Elapse, Sleep, Drain, Arrive, Vanish, time
<1>9. CASE PeerCloses \/ PeerResets
  BY <1>9 DEF PeerCloses, PeerResets, time
<1>10. CASE UNCHANGED vars
  BY <1>10 DEF vars, time
<1>. QED
  BY <1>2, <1>3, <1>4, <1>5, <1>6, <1>7, <1>8, <1>9, <1>10 DEF Next, Continue

\* What has passed is continued by more of the same.
LEMMA Continued ==
  ASSUME Sound, UNCHANGED size,
         NEW n \in Nat, wire = Upto(n),
         NEW m \in Nat, wire' = Upto(m), n <= m, m <= size
  PROVE  Promise!Continues(wire')
<1>1. Len(wire) = n /\ SubSeq(wire', 1, n) = wire
  BY UptoProperties, UptoPrefix
<1>2. m \in n..size /\ wire' = [i \in 1..m |-> i]
  BY UnitsAreNumbers DEF Sound, Typed, Upto
<1>. QED  BY <1>1, <1>2 DEF Promise!Continues

\* A call that is under way: what has passed is no more than it was called with.
LEMMA PassedSoFar ==
  ASSUME Sound, Calling, NEW n, n = IF op = "send" THEN size - left ELSE 0
  PROVE  n \in Nat /\ size \in Nat /\ n <= size /\ wire = Upto(n) /\ Len(wire) = n
BY UnitsAreNumbers, UptoProperties DEF Sound, Typed, Progress

LEMMA PromiseReturn ==
  ASSUME Sound, Calling, UNCHANGED call,
         NEW n, n = IF op = "send" THEN size - left ELSE 0,
         NEW m \in Nat, wire' = Upto(m), n <= m, m <= size,
         timeout < 0 => IF op = "send" THEN m = size ELSE m > 0,
         pc' = "idle", outcome' = "returned", count' = m
  PROVE  Promise!Return
<1>. USE DEF call
<1>1. n \in Nat /\ size \in Nat /\ wire = Upto(n)
  BY PassedSoFar
<1>2. Promise!Continues(wire')
  BY <1>1, Continued
<1>3. Len(wire') = m /\ timeout \in Int
  BY UptoProperties DEF Sound, Typed
<1>4. m > 0 => wire' # <<>>
  BY <1>3
<1>5. timeout >= 0 \/ Promise!Complete(wire')
  BY <1>3, <1>4 DEF Promise!Complete
<1>. QED  BY <1>2, <1>3, <1>5 DEF Promise!Return, Promise!call, Calling

LEMMA PromiseThrow ==
  ASSUME Sound, Calling, UNCHANGED <<call, wire, count>>,
         pc' = "idle", outcome' \in {"thrown", "refused"}
  PROVE  Promise!Throw
<1>1. op # "send" => wire = <<>>
  BY DEF Sound, Progress, Upto
<1>. QED  BY <1>1 DEF Promise!Throw, Promise!call, Calling, call
LEMMA PromiseStep == Sound /\ PollLimited /\ [Next]_vars => [Promise!Next]_Promise!vars
<1>. SUFFICES ASSUME Sound, PollLimited, [Next]_vars PROVE [Promise!Next]_Promise!vars
  OBVIOUS
<1>. DEFINE Passed == IF op = "send" THEN size - left ELSE 0
<1>0. ASSUME UNCHANGED <<call, wire, report>>, Calling <=> pc' # "idle"
      PROVE  UNCHANGED Promise!vars
  BY <1>0 DEF Promise!vars, Calling, call, report
<1>1. ASSUME NEW n \in Unit, NEW t \in Timeouts, NEW o \in {"send", "receive"}, Call(o, n, t)
      PROVE  Promise!Begin
  BY <1>1, UnitsAreNumbers DEF Call, NewCall, Promise!Begin
<1>2. ASSUME NEW n \in Unit, NEW t \in Timeouts, CallRefused(n, t)
      PROVE  Promise!Refuse
  BY <1>2, UnitsAreNumbers DEF CallRefused, NewCall, Promise!Refuse
<1>3. CASE EnterPoll \/ PollReady
  BY <1>3, <1>0 DEF EnterPoll, PollReady, Calling
<1>4. CASE PollTimeout
  <2>1. Calling /\ timeout >= 0 /\ UNCHANGED call
    BY <1>4 DEF PollTimeout, Calling, PollLimited
  <2>2. timeout \in Int
    BY DEF Sound, Typed
  <2>3. Passed \in Nat /\ Passed <= size /\ wire = Upto(Passed)
    BY <2>1, PassedSoFar
  <2>4. wire' = Upto(Passed) /\ pc' = "idle" /\ outcome' = "returned" /\ count' = Passed
    BY <1>4, <2>3 DEF PollTimeout, ReturnEmpty
  <2>. QED  BY <2>1, <2>2, <2>3, <2>4, PromiseReturn DEF Promise!Next
<1>5. CASE Send
  <2>1. PICK k \in Least(1, left)..Least(left, room) : HandOver(k)
    BY <1>5 DEF Send
  <2>2. Calling /\ op = "send" /\ UNCHANGED call
    BY <1>5 DEF Send, Calling
  <2>3. /\ Passed \in Nat /\ size \in Nat /\ wire = Upto(Passed)
        /\ left \in Nat /\ k \in Nat /\ k <= left
    BY <1>5, <2>1, <2>2, PassedSoFar DEF Sound, Typed, Least
  <2>. DEFINE m == Passed + k
  <2>4. m \in Nat /\ Passed <= m /\ m <= size /\ left' = size - m /\ wire' = Upto(m)
    <3>1. Passed = size - left
      BY <2>2
    <3>2. wire' = Upto(Passed) \o [i \in 1..k |-> Passed + i] /\ left' = left - k
      BY <2>1, <2>3, <3>1 DEF HandOver
    <3>3. wire' = Upto(m)
      BY <2>3, <3>2, UptoExtended
    <3>. HIDE DEF Passed
    <3>4. m \in Nat /\ Passed <= m /\ m <= size /\ left' = size - m
      BY <2>3, <3>1, <3>2
    <3>. QED  BY <3>3, <3>4
  <2>5. CASE GoesOn
    <3>1. Promise!Continues(wire')
      BY <2>2, <2>3, <2>4, Continued DEF call
    <3>2. ~Promise!Complete(wire')
      BY <2>2, <2>4, <2>5, UptoProperties DEF Promise!Complete, GoesOn
    <3>3. pc' = "wait" /\ UNCHANGED report
      BY <1>5, <2>5 DEF Send
    <3>. QED  BY <2>2, <3>1, <3>2, <3>3
              DEF Promise!Next, Promise!Part, Promise!call, Calling, call, report
  <2>6. CASE ~GoesOn
    <3>1. timeout < 0 => m = size
      BY <2>3, <2>4, <2>6 DEF GoesOn
    <3>2. pc' = "idle" /\ outcome' = "returned" /\ count' = m
      BY <1>5, <2>3, <2>4, <2>6 DEF Send
    <3>. QED  BY <2>2, <2>3, <2>4, <3>1, <3>2, PromiseReturn DEF Promise!Next
  <2>. QED  BY <2>5, <2>6
<1>6. CASE SendTo
  <2>1. Calling /\ op = "send" /\ UNCHANGED call /\ kind = "udp"
    BY <1>6 DEF SendTo, Calling
  <2>2. size = 1 /\ left = 1 /\ Passed = 0
    BY <2>1 DEF Sound, Progress, KindKept
  <2>3. wire = Upto(0)
    BY <2>1, <2>2, PassedSoFar
  <2>4. wire' = Upto(0 + 1)
    BY <1>6, <2>2, <2>3, UptoExtended DEF SendTo, HandOver
  <2>5. pc' = "idle" /\ outcome' = "returned" /\ count' = 1 /\ wire' = Upto(1)
    BY <1>6, <2>2, <2>4 DEF SendTo
  <2>. QED  BY <2>1, <2>2, <2>5, PromiseReturn DEF Promise!Next
<1>7. ASSUME NEW n \in Nat, n <= size, Take(n)
      PROVE  Promise!Return
  <2>1. Calling /\ op = "receive" /\ UNCHANGED call
    BY <1>7 DEF Take, Calling
  <2>2. wire' = Upto(n) /\ pc' = "idle" /\ outcome' = "returned" /\ count' = n /\ n > 0
    BY <1>7 DEF Take, Upto
  <2>. QED  BY <1>7, <2>1, <2>2, PromiseReturn
<1>8. CASE Receive \/ ReceiveFrom \/ Accept
  <2>1. size \in Nat /\ inbox \in Nat /\ Least(size, inbox) \in Nat /\ Least(size, inbox) <= size
    BY UnitsAreNumbers DEF Sound, Typed, Least
  <2>2. kind # "tcp" => size = 1
    BY DEF Sound, KindKept
  <2>. QED  BY <1>7, <1>8, <2>1, <2>2 DEF Receive, ReceiveFrom, Accept, Promise!Next
<1>9. CASE PollFails \/ SendFails \/ ReceiveFails
  BY <1>9, PromiseThrow DEF PollFails, SendFails, ReceiveFails, Throw, Calling, call, Promise!Next
<1>10. CASE ReceiveRefused
  BY <1>10, PromiseThrow DEF ReceiveRefused, Calling, call, Promise!Next
<1>11. CASE DropBuffer
  BY <1>11, <1>0 DEF DropBuffer, Calling
<1>12. CASE Elapse \/ Sleep
  BY <1>12, <1>0 DEF Elapse, Sleep, Calling
<1>13. CASE Drain \/ Arrive \/ Vanish
  BY <1>13, <1>0 DEF Drain, Arrive, Vanish, Calling
<1>14. CASE PeerCloses \/ PeerResets
  BY <1>14, <1>0 DEF PeerCloses, PeerResets, Calling
<1>15. CASE UNCHANGED vars
  BY <1>15, <1>0 DEF vars, Calling
<1>. QED
  BY <1>1, <1>2, <1>3, <1>4, <1>5, <1>6, <1>8, <1>9, <1>10, <1>11, <1>12, <1>13,
     <1>14, <1>15 DEF Next, Continue, Promise!Next

\* Data passes once and in order, the count is true, nothing received is lost by a
\* failure, and a call without a timeout returns only when it is complete.
THEOREM Implements ==
  ASSUME TimeoutsFit
  PROVE  Spec => ImplementsTransfer
<1>1. Init => Promise!Init
  BY UnitsAreNumbers DEF Init, Promise!Init
<1>2. Init => PollLimited
  BY DEF Init, PollLimited
<1>. QED
  BY <1>1, <1>2, SoundCorrect, PollLimitedStep, PromiseStep, PTL
     DEF Spec, ImplementsTransfer, Promise!Spec
-------------------------------------------------------------------------------
(* The calls keep to their timeouts. *)

LEMMA Division ==
  ASSUME NEW a \in Nat, NEW d \in Nat \ {0}
  PROVE  a \div d \in Nat /\ (a \div d) * d <= a /\ a < (a \div d) * d + d
OBVIOUS

LEMMA Multiples ==
  ASSUME NEW q \in Nat, NEW t \in Nat, NEW d \in Nat \ {0}, q * d <= t * d
  PROVE  q <= t
OBVIOUS

LEMMA Product ==
  ASSUME NEW t \in Int, NEW d \in Nat \ {0}
  PROVE  t * d \in Int /\ (t >= 0 => t * d >= 0) /\ (t = 0 => t * d = 0)
OBVIOUS

LEMMA DeadlineIsNumber ==
  ASSUME Typed
  PROVE  /\ timeout \in Int /\ Deadline \in Int /\ TicksPerMs \in Nat \ {0}
         /\ timeout >= 0 => Deadline >= 0
         /\ timeout = 0 => Deadline = 0
BY Product DEF Typed, Deadline

\* What the waits so far have left: before the next one, and while it lasts.
Timed ==
  /\ clock \in Nat /\ now \in 0..clock /\ slept \in 0..clock /\ until \in Nat \cup {Never}
  /\ timeout >= 0 => slept <= Deadline
  /\ pc = "wait" /\ timeout >= 0 => slept <= IF SendsSome THEN now ELSE 0
  /\ pc = "poll" /\ timeout >= 0 =>
       /\ until # Never /\ clock <= until
       /\ slept + (until - clock) <= Deadline
       /\ until > Deadline - TicksPerMs

\* A wait is granted what remains of the timeout, in whole milliseconds.
LEMMA Granted ==
  ASSUME TimeoutsFit, Typed, Timed, pc = "wait", timeout >= 0,
         NEW ms, ms = ToMsec(WaitTimeout)
  PROVE  /\ ms \in Nat /\ ms * TicksPerMs \in Nat
         /\ slept + ms * TicksPerMs <= Deadline
         /\ clock + ms * TicksPerMs > Deadline - TicksPerMs
<1>1. /\ timeout \in Timeouts /\ timeout \in Nat
      /\ Deadline \in Nat /\ TicksPerMs \in Nat \ {0} /\ Deadline = timeout * TicksPerMs
      /\ clock \in Nat /\ now \in Nat /\ now <= clock /\ slept \in Nat /\ slept <= Deadline
  BY DeadlineIsNumber DEF Typed, Timed, Deadline
<1>2. CASE ~SendsSome
  <2>1. ms = timeout
    BY <1>1, <1>2 DEF TimeoutsFit, WaitTimeout
  <2>2. slept = 0
    BY <1>1, <1>2 DEF Timed
  <2>3. ms * TicksPerMs = Deadline
    BY <1>1, <2>1
  <2>. QED  BY <1>1, <2>1, <2>2, <2>3
<1>3. CASE SendsSome /\ Deadline < now
  <2>1. Remaining = 0
    BY <1>3 DEF Remaining
  <2>2. ms = 0
    BY <1>1, <1>3, <2>1 DEF TimeoutsFit, WaitTimeout
  <2>3. ms * TicksPerMs = 0
    BY <1>1, <2>2
  <2>. QED  BY <1>1, <1>3, <2>2, <2>3
<1>4. CASE SendsSome /\ ~(Deadline < now)
  <2>. DEFINE q == (Deadline - now) \div TicksPerMs
  <2>1. Remaining = q /\ Deadline - now \in Nat
    BY <1>1, <1>4 DEF Remaining
  <2>2. q \in Nat /\ q * TicksPerMs <= Deadline - now /\ Deadline - now < q * TicksPerMs + TicksPerMs
    BY <1>1, <2>1, Division
  <2>. HIDE DEF q
  <2>3. q * TicksPerMs \in Nat
    BY <1>1, <2>2
  <2>4. q * TicksPerMs <= timeout * TicksPerMs
    BY <1>1, <2>2, <2>3
  <2>5. q <= timeout
    BY <1>1, <2>2, <2>4, Multiples
  <2>6. ms = q
    BY <1>1, <1>4, <2>1, <2>2, <2>5 DEF TimeoutsFit, WaitTimeout
  <2>7. slept <= now
    BY <1>1, <1>4 DEF Timed
  <2>. QED  BY <1>1, <2>2, <2>3, <2>6, <2>7
<1>. QED  BY <1>2, <1>3, <1>4

LEMMA TimedStep ==
  ASSUME TimeoutsFit
  PROVE  Sound /\ Timed /\ [Next]_vars => Timed'
<1>. SUFFICES ASSUME Sound, Timed, [Next]_vars PROVE Timed'
  OBVIOUS
<1>1. /\ Typed
      /\ timeout \in Int /\ Deadline \in Int /\ TicksPerMs \in Nat \ {0}
      /\ timeout >= 0 => Deadline >= 0
  BY DeadlineIsNumber DEF Sound
<1>2. ASSUME UNCHANGED <<socket, call>>
      PROVE  Deadline' = Deadline /\ SendsSome' = SendsSome
  BY <1>2 DEF Deadline, SendsSome, socket, call
<1>3. ASSUME UNCHANGED <<socket, call, time>>, pc' \notin {"wait", "poll"} \/ pc' = pc
      PROVE  Timed'
  BY <1>1, <1>2, <1>3 DEF Timed, call, time
<1>4. ASSUME NEW n \in Unit, NEW t \in Timeouts, NEW o \in {"send", "receive"},
             NewCall(o, n, t), pc' \in {"idle", "wait"}
      PROVE  Timed'
  <2>1. t \in Int /\ t * TicksPerMs \in Int /\ (t >= 0 => t * TicksPerMs >= 0)
    BY <1>1, Product
  <2>2. Deadline' = t * TicksPerMs
    BY <1>4 DEF NewCall, Deadline
  <2>. QED  BY <1>4, <2>1, <2>2 DEF NewCall, Timed
<1>5. CASE EnterPoll
  <2>. DEFINE ms == ToMsec(WaitTimeout)
  <2>1. CASE timeout >= 0
    <3>1. /\ ms \in Nat /\ ms * TicksPerMs \in Nat
          /\ slept + ms * TicksPerMs <= Deadline
          /\ clock + ms * TicksPerMs > Deadline - TicksPerMs
      BY <1>1, <1>5, <2>1, Granted DEF EnterPoll
    <3>2. until' = clock + ms * TicksPerMs
      BY <1>5, <3>1 DEF EnterPoll
    <3>. HIDE DEF ms
    <3>3. UNCHANGED <<clock, now, slept, timeout>> /\ pc' = "poll" /\ Deadline' = Deadline
      BY <1>2, <1>5 DEF EnterPoll, call
    <3>. QED  BY <1>1, <2>1, <3>1, <3>2, <3>3 DEF Timed, Never
  <2>2. CASE ~(timeout >= 0)
    <3>1. WaitTimeout = timeout
      BY <1>1, <2>2 DEF WaitTimeout, SendsSome
    <3>2. until' = Never
      BY <1>1, <1>5, <2>2, <3>1 DEF EnterPoll, TimeoutsFit, Typed
    <3>3. UNCHANGED <<clock, now, slept, timeout>> /\ pc' = "poll"
      BY <1>5 DEF EnterPoll, call
    <3>. QED  BY <1>1, <2>2, <3>2, <3>3 DEF Timed
  <2>. QED  BY <2>1, <2>2
<1>6. CASE PollReady \/ PollTimeout \/ PollFails
  BY <1>3, <1>6 DEF PollReady, PollTimeout, PollFails, ReturnEmpty, Throw
<1>7. CASE Send
  <2>1. /\ UNCHANGED <<clock, until, slept, timeout>>
        /\ Deadline' = Deadline /\ SendsSome' = SendsSome /\ pc' \in {"wait", "idle"}
        /\ now' = IF SendsSome THEN clock ELSE now
    BY <1>2, <1>7 DEF Send, call
  <2>2. pc' = "wait" /\ timeout >= 0 => SendsSome
    BY <1>1, <1>7 DEF Send, GoesOn
  <2>. QED  BY <1>1, <2>1, <2>2 DEF Timed
<1>8. CASE SendTo \/ SendFails \/ ReceiveFails \/ ReceiveRefused
  BY <1>3, <1>8 DEF SendTo, SendFails, ReceiveFails, ReceiveRefused, Throw
<1>9. CASE Receive \/ ReceiveFrom \/ Accept
  BY <1>3, <1>9 DEF Receive, ReceiveFrom, Accept, Take
<1>10. CASE DropBuffer \/ Drain \/ Arrive \/ Vanish \/ PeerCloses \/ PeerResets
  BY <1>3, <1>10 DEF DropBuffer, Drain, Arrive, Vanish, PeerCloses, PeerResets
<1>11. CASE Elapse
  <2>1. /\ UNCHANGED <<pc, now, until, slept, timeout>> /\ clock' = clock + 1
        /\ pc \in {"wait", "now"} /\ Deadline' = Deadline /\ SendsSome' = SendsSome
    BY <1>2, <1>11 DEF Elapse, call
  <2>. QED  BY <1>1, <2>1 DEF Timed
<1>12. CASE Sleep
  <2>1. /\ UNCHANGED <<pc, now, until, timeout>> /\ clock' = clock + 1 /\ slept' = slept + 1
        /\ pc = "poll" /\ Deadline' = Deadline /\ (until # Never => clock < until)
    BY <1>2, <1>12 DEF Sleep, call
  <2>. QED  BY <1>1, <2>1 DEF Timed, Never
<1>13. CASE UNCHANGED vars
  BY <1>3, <1>13 DEF vars
<1>. QED
  BY <1>4, <1>5, <1>6, <1>7, <1>8, <1>9, <1>10, <1>11, <1>12, <1>13
     DEF Next, Continue, Call, CallRefused
\* A call that has returned less than it was called for has waited its timeout out.
NotEarly ==
  /\ outcome = "returned"
  /\ IF op = "send" THEN count < size ELSE count = 0
  => clock > Deadline - TicksPerMs

LEMMA NotEarlyStep == Sound /\ Timed /\ NotEarly /\ [Next]_vars => NotEarly'
<1>. SUFFICES ASSUME Sound, Timed, NotEarly, [Next]_vars PROVE NotEarly'
  OBVIOUS
<1>1. /\ Typed /\ clock \in Nat
      /\ timeout \in Int /\ Deadline \in Int /\ TicksPerMs \in Nat \ {0}
      /\ timeout >= 0 => Deadline >= 0
      /\ timeout = 0 => Deadline = 0
  BY DeadlineIsNumber DEF Sound, Timed
<1>2. ASSUME UNCHANGED <<call, report, clock>>
      PROVE  NotEarly'
  BY <1>2 DEF NotEarly, Deadline, call, report
<1>3. ASSUME outcome' # "returned"
      PROVE  NotEarly'
  BY <1>3 DEF NotEarly
<1>4. ASSUME Calling, UNCHANGED report
      PROVE  NotEarly'
  BY <1>3, <1>4 DEF Sound, Progress, report
<1>5. ASSUME NEW n \in Unit, NEW t \in Timeouts, NEW o \in {"send", "receive"}, Call(o, n, t)
      PROVE  NotEarly'
  BY <1>3, <1>5 DEF Call
<1>6. ASSUME NEW n \in Unit, NEW t \in Timeouts, CallRefused(n, t)
      PROVE  NotEarly'
  BY <1>3, <1>6 DEF CallRefused
<1>7. CASE EnterPoll \/ PollReady
  BY <1>4, <1>7 DEF EnterPoll, PollReady, Calling
<1>8. CASE PollTimeout
  <2>1. until # Never /\ timeout >= 0 => clock > Deadline - TicksPerMs
    BY <1>1, <1>8 DEF PollTimeout, Timed
  <2>2. timeout < 0 => Deadline - TicksPerMs < 0
    BY <1>1 DEF Deadline
  <2>. QED  BY <1>1, <1>8, <2>1, <2>2 DEF PollTimeout, NotEarly, Deadline, call, time
<1>9. CASE PollFails \/ SendFails \/ ReceiveFails \/ ReceiveRefused
  BY <1>3, <1>9 DEF PollFails, SendFails, ReceiveFails, ReceiveRefused, Throw
<1>10. CASE Send
  <2>1. CASE GoesOn
    BY <1>4, <1>10, <2>1 DEF Send, Calling
  <2>2. CASE ~GoesOn
    <3>1. op' = "send" /\ clock' = clock /\ Deadline' = Deadline
      BY <1>10 DEF Send, call, Deadline
    <3>2. count' < size' => left' > 0
      <4>1. left \in Nat /\ room \in Nat /\ \E n \in Nat : size = n
        BY <1>1, UnitsAreNumbers DEF Typed
      <4>2. PICK n \in Nat, l \in Int : size = n /\ left' = l
        BY <1>10, <4>1 DEF Send, HandOver, Least
      <4>3. count' = size - left' /\ size' = size
        BY <1>10, <2>2 DEF Send, call
      <4>. QED  BY <4>2, <4>3
    <3>3. left' > 0 => timeout >= 0 /\ (timeout > 0 => clock >= Deadline)
      BY <1>1, <1>10, <2>2 DEF Send, GoesOn, SendsSome, TimeLeft
    <3>4. timeout >= 0 /\ (timeout > 0 => clock >= Deadline) => clock > Deadline - TicksPerMs
      BY <1>1
    <3>. QED  BY <3>1, <3>2, <3>3, <3>4 DEF NotEarly
  <2>. QED  BY <2>1, <2>2
<1>11. CASE SendTo
  <2>1. op' = "send" /\ count' = size' /\ size' \in Nat
    BY <1>1, <1>11, UnitsAreNumbers DEF SendTo, Typed, call
  <2>. QED  BY <2>1 DEF NotEarly
<1>12. CASE Receive \/ ReceiveFrom \/ Accept
  <2>1. op' = "receive" /\ count' # 0
    BY <1>12 DEF Receive, ReceiveFrom, Accept, Take, call
  <2>. QED  BY <2>1 DEF NotEarly
<1>13. CASE DropBuffer \/ Drain \/ Arrive \/ Vanish \/ PeerCloses \/ PeerResets
  BY <1>2, <1>13 DEF DropBuffer, Drain, Arrive, Vanish, PeerCloses, PeerResets, time
<1>14. CASE Elapse \/ Sleep
  BY <1>4, <1>14 DEF Elapse, Sleep, Calling
<1>15. CASE UNCHANGED vars
  BY <1>2, <1>15 DEF vars, time
<1>. QED
  BY <1>5, <1>6, <1>7, <1>8, <1>9, <1>10, <1>11, <1>12, <1>13, <1>14, <1>15 DEF Next, Continue

\* All waits of a call together are no longer than its timeout, and a call that
\* comes back short has waited it out.
THEOREM TimeoutCorrect ==
  ASSUME TimeoutsFit
  PROVE  Spec => []TimeoutKept
<1>1. Init => Timed /\ NotEarly
  <2>1. Init => Typed
    BY SoundInit DEF Sound
  <2>2. Init /\ Typed => Timed
    BY DeadlineIsNumber DEF Init, Timed
  <2>. QED  BY <2>1, <2>2 DEF Init, NotEarly
<1>2. Timed /\ NotEarly => TimeoutKept
  BY DEF Timed, NotEarly, TimeoutKept
<1>. QED  BY <1>1, <1>2, SoundCorrect, TimedStep, NotEarlyStep, PTL DEF Spec
===============================================================================
