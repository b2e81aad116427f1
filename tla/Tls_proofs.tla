------------------------------ MODULE Tls_proofs ------------------------------
(***************************************************************************)
(* Proofs about Tls.  The steps fall into nine classes by what they do to  *)
(* an end and to its wires: a call waits, writes or reads a part of a      *)
(* flight, writes or reads a part of a record, reads the end of one,       *)
(* starts or returns, or the driver goes on.  First each action is shown   *)
(* to be of such a class, then each class to keep the invariant Safe:      *)
(*   Types     the types of the variables;                                 *)
(*   Control   what a call is about from its beginning to its end, and     *)
(*             what the driver polls for;                                  *)
(*   FlagsTrue which the driver's word rests on;                           *)
(*   Stream    the handshake is between two known states of its ends, and  *)
(*             a wire holds the rest of a flight, then units of records,   *)
(*             numbered by their places among all that were ever sent.     *)
(***************************************************************************)
EXTENDS Tls, SequenceTheorems, FiniteSetTheorems, TLAPS

Labels == {"idle", "poll", "entry", "error", "ssl", "return", "failed"}

Socks == [op : {"receive", "send", "pending"}, size : Nat, sent : Nat,
          limit : {"unlimited", "limited", "zero"}, lastError : {"none", "read", "write"},
          isReadable : BOOLEAN, isWritable : BOOLEAN, steps : 0..StepsMax]
Ssls  == [flight : Nat, out : Nat, record : 0..RecordUnits, in : Nat]
Drvs  == [sendQ : Seq(Nat), pollOut : BOOLEAN, suppressed : BOOLEAN]
Users == [asked : 0..MaxRecords, sent : Nat, got : Seq(Nat), failed : BOOLEAN]

\* The types of the variables.
Types ==
  /\ mode \in [Ends -> {"sync", "async"}] /\ flights \in Handshakes
  /\ pc \in [Ends -> Labels]
  /\ sock \in [Ends -> Socks]
  /\ ssl \in [Ends -> Ssls]
  /\ wire \in [Ends -> Seq(Nat)]
  /\ \A e \in Ends : Len(wire[e]) <= Cap
  /\ drv \in [Ends -> Drvs]
  /\ user \in [Ends -> Users]

\* What a call is about, from its beginning to its end.
Calls ==
  \A e \in Ends :
    /\ pc[e] \in {"idle", "poll", "failed"} => sock[e].op = "receive"
    /\ sock[e].op # "send" => sock[e].sent = 0
    /\ mode[e] = "async" => /\ sock[e].op = "send" => drv[e].sendQ # <<>>
                            /\ sock[e].op = "pending" => drv[e].sendQ = <<>>

\* A queue that holds something is polled for, or will be.
Requested ==
  \A e \in Ends : mode[e] = "async" /\ drv[e].sendQ # <<>> => drv[e].pollOut \/ drv[e].suppressed

\* What the driver has asked the handshake before it polls.
Polling ==
  \A e \in Ends : mode[e] = "async" /\ pc[e] = "poll" =>
    /\ drv[e].suppressed => ~Finished(e)
    /\ ~Finished(e) /\ sock[e].lastError = "read" => ~drv[e].pollOut
    /\ ~Finished(e) /\ sock[e].lastError = "write" => drv[e].pollOut

\* The flight f is on its way from s to h.
Exchange(s, h, f) ==
  /\ f \in 1..Len(flights)
  /\ ssl[h].flight = f /\ ssl[s].flight = f + 1
  /\ ssl[h].out = 0 /\ ssl[s].in = 0 /\ wire[s] = <<>>
  /\ ssl[s].out + ssl[h].in <= flights[f] /\ ssl[h].in < flights[f]

Exchanged == \A e \in Ends : ssl[e].flight = Len(flights) + 1 /\ ssl[e].out = 0

Shaking == Exchanged \/ \E s \in Ends : Exchange(s, Peer(s), ssl[Peer(s)].flight)

\* The units of a flight on their way to p.
Zeros(p) == IF ssl[p].flight < ssl[Peer(p)].flight
              THEN flights[ssl[p].flight] - ssl[p].in - ssl[Peer(p)].out ELSE 0

\* The units of records that have reached p.
Reached(p) == RecordUnits * Len(user[p].got) + IF Finished(p) THEN ssl[p].in ELSE 0

\* The unit at a position of a stream of records is one of the record v.
Numbered(v, position) == RecordUnits * (v - 1) < position /\ position <= RecordUnits * v

\* On a wire w there are z units of a flight, then those of records, of which r units have
\* arrived and c were sent.
Front(w, z) == z \in 0..Len(w) /\ \A i \in 1..z : w[i] = 0

Rest(w, z, r, c) == /\ \A i \in z + 1 .. Len(w) : Numbered(w[i], r + i - z)
                    /\ c = r + Len(w) - z

\* What is on its way to p: the rest of a flight, then units of records, in their order.
Streaming ==
  \A p \in Ends :
    /\ Front(wire[p], Zeros(p))
    /\ Len(wire[p]) > Zeros(p) => Finished(Peer(p))
    /\ Finished(p) => ssl[p].in < RecordUnits
    /\ user[p].failed => pc[p] = "failed"
    /\ ~user[p].failed => Rest(wire[p], Zeros(p), Reached(p), Counted(Peer(p)))

Ordered == \A p \in Ends : \A i \in 1..Len(user[p].got) : user[p].got[i] = i

-------------------------------------------------------------------------------
(* What a step does to one end. *)

Moves(e, l, t) ==
  /\ t \in Socks
  /\ pc' \in [Ends -> Labels] /\ pc'[e] = l
  /\ sock' \in [Ends -> Socks] /\ sock'[e] = t
  /\ \A x \in Ends : x # e => pc'[x] = pc[x] /\ sock'[x] = sock[x]

LEMMA MovesMeans ==
  ASSUME Types, NEW e \in Ends, NEW l \in Labels, NEW t \in Socks, Goto(e, l), Set(e, t)
  PROVE  Moves(e, l, t)
BY DEF Types, Goto, Set, Moves

\* In what the properties tell apart.
Alike(t, s) == /\ t.op = s.op /\ t.sent = s.sent
               /\ t.isReadable = s.isReadable /\ t.isWritable = s.isWritable

LEMMA LeastMeans ==
  ASSUME NEW a \in Nat, NEW b \in Nat
  PROVE  Least(a, b) \in Nat /\ Least(a, b) <= a /\ Least(a, b) <= b
         /\ (Least(a, b) = a \/ Least(a, b) = b)
BY DEF Least

LEMMA LoopMeans ==
  ASSUME Types, NEW e \in Ends, NEW s \in Socks, Loop(e, s)
  PROVE  \E l \in {"ssl", "return"}, t \in Socks : Moves(e, l, t) /\ Alike(t, s)
<1> DEFINE t == [s EXCEPT !.steps = Least(@ + 1, StepsMax)]
           l == IF s.steps < StepsMax THEN "ssl" ELSE "return"
<1>1. Least(s.steps + 1, StepsMax) \in 0..StepsMax
  <2>1. s.steps + 1 \in Nat /\ StepsMax \in Nat
    BY TlsAssumption DEF TlsAssumption, Socks
  <2>2. Least(s.steps + 1, StepsMax) \in Nat /\ Least(s.steps + 1, StepsMax) <= StepsMax
    BY <2>1, LeastMeans, Zenon
  <2> QED
    BY <2>1, <2>2
<1>2. t \in Socks /\ Alike(t, s)
  BY <1>1 DEF Socks, Alike
<1>3. Set(e, t) /\ Goto(e, l)
  BY DEF Loop
<1>4. l \in {"ssl", "return"} /\ l \in Labels
  BY DEF Labels
<1> HIDE DEF l, t
<1> QED
  BY <1>2, <1>3, <1>4, MovesMeans

LEMMA BeginMeans ==
  ASSUME Types, NEW e \in Ends, NEW s \in Socks, Begin(e, s)
  PROVE  \E l \in {"ssl", "entry"}, t \in Socks :
           /\ Moves(e, l, t) /\ t.op = s.op /\ t.sent = 0
           /\ t.isReadable = s.isReadable /\ t.isWritable = s.isWritable
<1> DEFINE t == [s EXCEPT !.sent = 0, !.steps = 1]
           l == IF s.lastError = "none" THEN "ssl" ELSE "entry"
<1>0. 1 \in 0..StepsMax
  BY TlsAssumption DEF TlsAssumption
<1>1. t \in Socks /\ t.op = s.op /\ t.sent = 0
      /\ t.isReadable = s.isReadable /\ t.isWritable = s.isWritable
  BY <1>0 DEF Socks
<1>3. Set(e, t) /\ Goto(e, l)
  BY DEF Begin
<1>4. l \in {"ssl", "entry"} /\ l \in Labels
  BY DEF Labels
<1> HIDE DEF l, t
<1> QED
  BY <1>1, <1>3, <1>4, MovesMeans

LEMMA AtRestMeans ==
  ASSUME NEW s \in Socks
  PROVE  /\ AtRest(s) \in Socks /\ AtRest(s).op = "receive" /\ AtRest(s).sent = 0
         /\ AtRest(s).isReadable = s.isReadable /\ AtRest(s).isWritable = s.isWritable
         /\ AtRest(s).lastError = s.lastError
<1>1. 0 \in 0..StepsMax
  BY TlsAssumption DEF TlsAssumption
<1> QED
  BY <1>1 DEF Socks, AtRest

LEMMA SpentMeans ==
  ASSUME NEW limit \in {"unlimited", "limited", "zero"}, NEW l \in Spent(limit)
  PROVE  l \in {"unlimited", "limited", "zero"}
BY DEF Spent

-------------------------------------------------------------------------------
(* The control of the calls. *)

Control == Calls /\ Requested /\ Polling

\* A step of a call that goes on.
Running(e, l, t) ==
  /\ pc[e] \in {"ssl", "entry", "error"} /\ l \in {"ssl", "error", "return"}
  /\ Moves(e, l, t)
  /\ t.op = sock[e].op
  /\ t.op # "send" => t.sent = 0
  /\ t.isReadable => sock[e].isReadable
  /\ t.isWritable => sock[e].isWritable
  /\ mode' = mode /\ flights' = flights /\ drv' = drv
  /\ \A x \in Ends : x # e => ssl'[x] = ssl[x]

LEMMA FinishedSame ==
  ASSUME NEW x \in Ends, ssl'[x] = ssl[x], flights' = flights
  PROVE  Finished(x)' = Finished(x)
BY DEF Finished

LEMMA RunningControl ==
  ASSUME Control, NEW e \in Ends, NEW l, NEW t, Running(e, l, t)
  PROVE  Control'
<1>1. Calls'
  <2> SUFFICES ASSUME NEW x \in Ends
               PROVE  /\ pc'[x] \in {"idle", "poll", "failed"} => sock'[x].op = "receive"
                      /\ sock'[x].op # "send" => sock'[x].sent = 0
                      /\ mode'[x] = "async" =>
                           /\ sock'[x].op = "send" => drv'[x].sendQ # <<>>
                           /\ sock'[x].op = "pending" => drv'[x].sendQ = <<>>
    BY DEF Calls
  <2>1. CASE x = e
    BY <2>1 DEF Control, Calls, Running, Moves
  <2>2. CASE x # e
    BY <2>2 DEF Control, Calls, Running, Moves
  <2> QED
    BY <2>1, <2>2
<1>2. Requested'
  BY DEF Control, Requested, Running
<1>3. Polling'
  <2> SUFFICES ASSUME NEW x \in Ends, mode'[x] = "async", pc'[x] = "poll"
               PROVE  /\ drv'[x].suppressed => ~Finished(x)'
                      /\ ~Finished(x)' /\ sock'[x].lastError = "read" => ~drv'[x].pollOut
                      /\ ~Finished(x)' /\ sock'[x].lastError = "write" => drv'[x].pollOut
    BY DEF Polling
  <2>1. x # e
    BY DEF Running, Moves
  <2>2. Finished(x)' = Finished(x)
    BY <2>1, FinishedSame DEF Running
  <2> QED
    BY <2>1, <2>2 DEF Control, Polling, Running, Moves
<1> QED
  BY <1>1, <1>2, <1>3 DEF Control

\* A call that begins.
Starting(e, l, t) ==
  /\ pc[e] \in {"idle", "poll"} /\ l \in {"ssl", "entry"}
  /\ Moves(e, l, t)
  /\ t.sent = 0
  /\ mode[e] = "async" => /\ t.op = "send" => drv[e].sendQ # <<>>
                          /\ t.op = "pending" => drv[e].sendQ = <<>>
  /\ mode' = mode /\ flights' = flights /\ drv' = drv /\ ssl' = ssl /\ wire' = wire

LEMMA StartingControl ==
  ASSUME Control, NEW e \in Ends, NEW l, NEW t, Starting(e, l, t)
  PROVE  Control'
<1>1. Calls'
  <2> SUFFICES ASSUME NEW x \in Ends
               PROVE  /\ pc'[x] \in {"idle", "poll", "failed"} => sock'[x].op = "receive"
                      /\ sock'[x].op # "send" => sock'[x].sent = 0
                      /\ mode'[x] = "async" =>
                           /\ sock'[x].op = "send" => drv'[x].sendQ # <<>>
                           /\ sock'[x].op = "pending" => drv'[x].sendQ = <<>>
    BY DEF Calls
  <2>1. CASE x = e
    BY <2>1 DEF Control, Calls, Starting, Moves
  <2>2. CASE x # e
    BY <2>2 DEF Control, Calls, Starting, Moves
  <2> QED
    BY <2>1, <2>2
<1>2. Requested'
  BY DEF Control, Requested, Starting
<1>3. Polling'
  <2>1. \A x \in Ends : Finished(x)' = Finished(x)
    BY DEF Starting, Finished
  <2> QED
    BY <2>1 DEF Control, Polling, Starting, Moves
<1> QED
  BY <1>1, <1>2, <1>3 DEF Control

-------------------------------------------------------------------------------
(* What a step does to the wires. *)

\* e has written n units.
Wrote(e, n, unit) ==
  /\ wire' \in [Ends -> Seq(Nat)] /\ wire'[e] = wire[e]
  /\ Len(wire'[Peer(e)]) = Len(wire[Peer(e)]) + n
  /\ \A i \in 1..Len(wire[Peer(e)]) : wire'[Peer(e)][i] = wire[Peer(e)][i]
  /\ \A i \in Len(wire[Peer(e)]) + 1 .. Len(wire[Peer(e)]) + n : wire'[Peer(e)][i] = unit
  /\ Len(wire'[Peer(e)]) <= Cap

\* e has read n units.
HasRead(e, n) ==
  /\ wire' \in [Ends -> Seq(Nat)] /\ wire'[Peer(e)] = wire[Peer(e)]
  /\ Len(wire'[e]) = Len(wire[e]) - n
  /\ \A i \in 1..Len(wire[e]) - n : wire'[e][i] = wire[e][i + n]
  /\ Len(wire'[e]) <= Cap

LEMMA EndsAre ==
  ASSUME NEW e \in Ends
  PROVE  /\ Peer(e) \in Ends /\ Peer(e) # e /\ Peer(Peer(e)) = e
         /\ \A x \in Ends : x = e \/ x = Peer(e)
BY DEF Ends, Peer

LEMMA RoomMeans ==
  ASSUME Types, NEW e \in Ends
  PROVE  /\ Room(e) \in Nat /\ Len(wire[e]) \in Nat
         /\ Room(e) = Cap - Len(wire[Peer(e)])
         /\ Writable(e) <=> Room(e) > 0
         /\ Readable(e) <=> Len(wire[e]) > 0
<1>1. Cap \in Nat
  BY TlsAssumption DEF TlsAssumption
<1>2. \A x \in Ends : wire[x] \in Seq(Nat) /\ Len(wire[x]) \in Nat /\ Len(wire[x]) <= Cap
  BY DEF Types
<1>3. wire[e] # <<>> <=> Len(wire[e]) > 0
  BY <1>2, EmptySeq
<1> QED
  BY <1>1, <1>2, <1>3, EndsAre DEF Room, Writable, Readable

LEMMA Repeated ==
  ASSUME NEW n \in Nat, NEW unit \in Nat
  PROVE  /\ [i \in 1..n |-> unit] \in Seq(Nat)
         /\ Len([i \in 1..n |-> unit]) = n
         /\ \A j \in 1..n : [i \in 1..n |-> unit][j] = unit
OBVIOUS

LEMMA Extended ==
  ASSUME NEW a \in Seq(Nat), NEW n \in Nat, NEW unit \in Nat
  PROVE  /\ a \o [i \in 1..n |-> unit] \in Seq(Nat)
         /\ Len(a \o [i \in 1..n |-> unit]) = Len(a) + n
         /\ \A j \in 1..Len(a) : (a \o [i \in 1..n |-> unit])[j] = a[j]
         /\ \A j \in Len(a) + 1 .. Len(a) + n : (a \o [i \in 1..n |-> unit])[j] = unit
<1> DEFINE b == [i \in 1..n |-> unit]
<1>1. b \in Seq(Nat) /\ Len(b) = n /\ \A j \in 1..n : b[j] = unit
  BY Repeated
<1> HIDE DEF b
<1>2. /\ a \o b \in Seq(Nat) /\ Len(a \o b) = Len(a) + Len(b)
      /\ \A j \in 1..Len(a) + Len(b) : (a \o b)[j] = IF j <= Len(a) THEN a[j] ELSE b[j - Len(a)]
  BY <1>1, ConcatProperties, Zenon
<1>3. Len(a) \in Nat
  OBVIOUS
<1>4. ASSUME NEW j \in 1..Len(a) PROVE (a \o b)[j] = a[j]
  BY <1>1, <1>2, <1>3
<1>5. ASSUME NEW j \in Len(a) + 1 .. Len(a) + n PROVE (a \o b)[j] = unit
  <2>1. j - Len(a) \in 1..n /\ ~(j <= Len(a)) /\ j \in 1..Len(a) + Len(b)
    BY <1>1, <1>3
  <2>2. (a \o b)[j] = b[j - Len(a)]
    BY <1>2, <2>1
  <2> QED
    BY <1>1, <2>1, <2>2
<1>6. a \o b \in Seq(Nat) /\ Len(a \o b) = Len(a) + n
  BY <1>1, <1>2
<1> QED
  BY <1>4, <1>5, <1>6 DEF b

LEMMA PutMeans ==
  ASSUME Types, NEW e \in Ends, NEW n \in Nat, NEW unit \in Nat, n <= Room(e), Put(e, n, unit)
  PROVE  Wrote(e, n, unit)
<1> DEFINE a == wire[Peer(e)]
           c == a \o [i \in 1..n |-> unit]
<1>1. a \in Seq(Nat) /\ Len(a) \in Nat /\ Peer(e) \in Ends /\ Peer(e) # e
  BY EndsAre DEF Types
<1>2. /\ c \in Seq(Nat) /\ Len(c) = Len(a) + n
      /\ \A j \in 1..Len(a) : c[j] = a[j]
      /\ \A j \in Len(a) + 1 .. Len(a) + n : c[j] = unit
  BY <1>1, Extended
<1>3. wire' = [wire EXCEPT ![Peer(e)] = c]
  BY DEF Put
<1>4. Len(a) + n <= Cap
  <2>1. Room(e) = Cap - Len(a) /\ Cap \in Nat
    BY RoomMeans, TlsAssumption DEF TlsAssumption
  <2> QED
    BY <1>1, <2>1
<1> HIDE DEF c
<1>5. wire' \in [Ends -> Seq(Nat)] /\ wire'[e] = wire[e] /\ wire'[Peer(e)] = c
  BY <1>1, <1>2, <1>3 DEF Types
<1> QED
  BY <1>2, <1>4, <1>5 DEF Wrote

LEMMA TakeMeans ==
  ASSUME Types, NEW e \in Ends, NEW n \in Nat, n <= Len(wire[e]), Take(e, n)
  PROVE  HasRead(e, n)
<1> DEFINE a == wire[e]
           c == SubSeq(a, n + 1, Len(a))
<1>1. a \in Seq(Nat) /\ Len(a) \in Nat /\ Peer(e) \in Ends /\ Peer(e) # e /\ Len(a) <= Cap
  BY EndsAre DEF Types
<1>2. /\ c \in Seq(Nat) /\ Len(c) = Len(a) - n
      /\ \A j \in 1..Len(a) - n : c[j] = a[j + n]
  <2>1. n + 1 \in Int /\ Len(a) \in Int /\ \A i \in n + 1..Len(a) : a[i] \in Nat
    BY <1>1
  <2>2. /\ c \in Seq(Nat)
        /\ Len(c) = IF n + 1 <= Len(a) THEN Len(a) - (n + 1) + 1 ELSE 0
        /\ \A i \in 1 .. Len(a) - (n + 1) + 1 : c[i] = a[n + 1 + i - 1]
    BY <2>1, SubSeqProperties
  <2>3. Len(c) = Len(a) - n
    BY <1>1, <2>2
  <2>4. ASSUME NEW j \in 1..Len(a) - n PROVE c[j] = a[j + n]
    <3>1. j \in 1 .. Len(a) - (n + 1) + 1 /\ n + 1 + j - 1 = j + n
      BY <1>1
    <3>2. c[j] = a[n + 1 + j - 1]
      BY <2>2, <3>1
    <3> QED
      BY <3>1, <3>2
  <2> QED
    BY <2>2, <2>3, <2>4
<1>3. wire' = [wire EXCEPT ![e] = c]
  BY DEF Take
<1> HIDE DEF c
<1>4. wire' \in [Ends -> Seq(Nat)] /\ wire'[Peer(e)] = wire[Peer(e)] /\ wire'[e] = c
  BY <1>1, <1>2, <1>3 DEF Types
<1>5. Len(c) <= Cap
  <2>1. Cap \in Nat
    BY TlsAssumption DEF TlsAssumption
  <2> QED
    BY <1>1, <1>2, <2>1
<1> QED
  BY <1>2, <1>4, <1>5 DEF HasRead

-------------------------------------------------------------------------------
(* The steps of calls. *)

\* What only e may change, and what it leaves alone.
Keeps(e) ==
  /\ mode' = mode /\ flights' = flights
  /\ ssl' \in [Ends -> Ssls] /\ drv' \in [Ends -> Drvs] /\ user' \in [Ends -> Users]
  /\ \A x \in Ends : x # e => ssl'[x] = ssl[x] /\ drv'[x] = drv[x] /\ user'[x] = user[x]

LEMMA SockIs ==
  ASSUME Types, NEW e \in Ends
  PROVE  /\ sock[e] \in Socks /\ ssl[e] \in Ssls /\ drv[e] \in Drvs /\ user[e] \in Users
         /\ pc[e] \in Labels
BY DEF Types

\* Of what is running, a step that changes none of what the other end can see.
Waits(e) ==
  \E l \in {"ssl", "error", "return"}, t \in Socks :
    /\ Running(e, l, t) /\ t.sent = sock[e].sent
    /\ wire' = wire /\ ssl' = ssl /\ user' = user

LEMMA HandleWaits ==
  ASSUME Types, Control, NEW e \in Ends, Handle(e) \/ HandleTimeout(e)
  PROVE  Waits(e)
<1>1. /\ pc[e] \in {"entry", "error"}
      /\ UNCHANGED <<mode, flights, ssl, wire, drv, user>>
  BY DEF Handle, HandleTimeout
<1>2. sock[e] \in Socks /\ (sock[e].op # "send" => sock[e].sent = 0)
  BY SockIs DEF Control, Calls
<1>3. \E l \in {"ssl", "return"}, t \in Socks : Moves(e, l, t) /\ Alike(t, sock[e])
  <2>1. CASE Handle(e)
    <3>1. PICK limit \in Spent(sock[e].limit) :
            LET s == [sock[e] EXCEPT !.lastError = "none", !.limit = limit]
            IN  IF pc[e] = "entry" THEN Set(e, s) /\ Goto(e, "ssl") ELSE Loop(e, s)
      BY <2>1 DEF Handle
    <3> DEFINE s == [sock[e] EXCEPT !.lastError = "none", !.limit = limit]
    <3>2. limit \in {"unlimited", "limited", "zero"}
      BY <1>2, SpentMeans DEF Socks
    <3>3. s \in Socks /\ Alike(s, sock[e])
      BY <1>2, <3>2 DEF Socks, Alike
    <3>4. IF pc[e] = "entry" THEN Set(e, s) /\ Goto(e, "ssl") ELSE Loop(e, s)
      BY <3>1
    <3> HIDE DEF s
    <3>5. CASE pc[e] = "entry"
      <4>1. Moves(e, "ssl", s)
        BY <3>3, <3>4, <3>5, MovesMeans DEF Labels
      <4> QED
        BY <3>3, <4>1
    <3>6. CASE pc[e] # "entry"
      <4>1. PICK l \in {"ssl", "return"}, t \in Socks : Moves(e, l, t) /\ Alike(t, s)
        BY <3>3, <3>4, <3>6, LoopMeans
      <4>2. Alike(t, sock[e])
        BY <3>3, <4>1 DEF Alike
      <4> QED
        BY <4>1, <4>2
    <3> QED
      BY <3>5, <3>6
  <2>2. CASE HandleTimeout(e)
    <3> DEFINE s == [sock[e] EXCEPT !.limit = "zero"]
    <3>1. s \in Socks /\ Alike(s, sock[e])
      BY <1>2 DEF Socks, Alike
    <3>2. Set(e, s) /\ Goto(e, "return")
      BY <2>2 DEF HandleTimeout
    <3> HIDE DEF s
    <3>3. Moves(e, "return", s)
      BY <3>1, <3>2, MovesMeans DEF Labels
    <3> QED
      BY <3>1, <3>3
  <2> QED
    BY <2>1, <2>2
<1>4. PICK l \in {"ssl", "return"}, t \in Socks : Moves(e, l, t) /\ Alike(t, sock[e])
  BY <1>3
<1>5. Running(e, l, t) /\ t.sent = sock[e].sent
  BY <1>1, <1>2, <1>4 DEF Running, Alike
<1> QED
  BY <1>1, <1>4, <1>5 DEF Waits

LEMMA GiveUpMeans ==
  ASSUME Types, Control, NEW e \in Ends, pc[e] = "ssl", NEW reason \in {"read", "write"},
         GiveUp(e, reason), UNCHANGED <<mode, flights, drv>>,
         \A x \in Ends : x # e => ssl'[x] = ssl[x]
  PROVE  /\ \E t \in Socks : Running(e, "error", t) /\ t.sent = sock[e].sent
         /\ wire' = wire /\ user' = user
<1> DEFINE t == [sock[e] EXCEPT !.limit = "zero", !.lastError = reason]
<1>1. sock[e] \in Socks /\ (sock[e].op # "send" => sock[e].sent = 0)
  BY SockIs DEF Control, Calls
<1>2. t \in Socks /\ Alike(t, sock[e])
  BY <1>1 DEF Socks, Alike
<1>3. Set(e, t) /\ Goto(e, "error") /\ wire' = wire /\ user' = user
  BY DEF GiveUp
<1> HIDE DEF t
<1>4. Moves(e, "error", t)
  BY <1>2, <1>3, MovesMeans DEF Labels
<1>5. Running(e, "error", t) /\ t.sent = sock[e].sent
  BY <1>1, <1>2, <1>4 DEF Running, Alike
<1> QED
  BY <1>2, <1>3, <1>5

LEMMA AfterWriteMeans ==
  ASSUME Types, NEW e \in Ends, NEW s \in AfterWrite(e)
  PROVE  /\ s \in Socks /\ s.op = sock[e].op /\ s.sent = sock[e].sent /\ s.size = sock[e].size
         /\ s.isReadable = sock[e].isReadable /\ ~s.isWritable
<1>1. sock[e] \in Socks
  BY SockIs
<1>2. CASE sock[e].isWritable
  <2>1. s = [sock[e] EXCEPT !.isWritable = FALSE]
    BY <1>2 DEF AfterWrite
  <2> QED
    BY <1>1, <2>1 DEF Socks
<1>3. CASE ~sock[e].isWritable
  <2>1. PICK l \in Spent(sock[e].limit) : s = [sock[e] EXCEPT !.limit = l]
    BY <1>3 DEF AfterWrite
  <2>2. l \in {"unlimited", "limited", "zero"}
    BY <1>1, SpentMeans DEF Socks
  <2> QED
    BY <1>1, <1>3, <2>1, <2>2 DEF Socks
<1> QED
  BY <1>2, <1>3

LEMMA AfterReadMeans ==
  ASSUME Types, NEW e \in Ends, NEW s \in AfterRead(e)
  PROVE  /\ s \in Socks /\ s.op = sock[e].op /\ s.sent = sock[e].sent
         /\ s.isWritable = sock[e].isWritable /\ ~s.isReadable
<1>1. sock[e] \in Socks
  BY SockIs
<1>2. CASE sock[e].isReadable
  <2>1. s = [sock[e] EXCEPT !.isReadable = FALSE]
    BY <1>2 DEF AfterRead
  <2> QED
    BY <1>1, <2>1 DEF Socks
<1>3. CASE ~sock[e].isReadable
  <2>1. PICK l \in Spent(sock[e].limit) : s = [sock[e] EXCEPT !.limit = l]
    BY <1>3 DEF AfterRead
  <2>2. l \in {"unlimited", "limited", "zero"}
    BY <1>1, SpentMeans DEF Socks
  <2> QED
    BY <1>1, <1>3, <2>1, <2>2 DEF Socks
<1> QED
  BY <1>2, <1>3

LEMMA StaysMoves ==
  ASSUME Types, NEW e \in Ends, NEW t \in Socks, Set(e, t), pc' = pc
  PROVE  Moves(e, pc[e], t)
BY DEF Types, Set, Moves

\* A part of a flight is written.
Flushes(e) ==
  \E t \in Socks, n \in 1..ssl[e].out :
    /\ Running(e, "ssl", t) /\ t.sent = sock[e].sent /\ ~t.isWritable
    /\ Wrote(e, n, 0)
    /\ ssl' = [ssl EXCEPT ![e].out = @ - n]
    /\ user' = user

LEMMA FlushMeans ==
  ASSUME Types, Control, NEW e \in Ends, Flush(e)
  PROVE  Waits(e) \/ Flushes(e)
<1> DEFINE n == Least(ssl[e].out, Room(e))
<1>1. /\ pc[e] = "ssl" /\ ssl[e].out > 0 /\ UNCHANGED <<mode, flights, drv>>
      /\ IF n = 0
           THEN GiveUp(e, "write") /\ UNCHANGED ssl
           ELSE /\ \E s \in AfterWrite(e) : Set(e, s)
                /\ Put(e, n, 0)
                /\ ssl' = [ssl EXCEPT ![e].out = @ - n]
                /\ UNCHANGED <<pc, user>>
  BY DEF Flush
<1>2. ssl[e].out \in Nat /\ Room(e) \in Nat
  BY SockIs, RoomMeans DEF Ssls
<1>3. n \in Nat /\ n <= ssl[e].out /\ n <= Room(e)
  BY <1>2, LeastMeans
<1> HIDE DEF n
<1>4. CASE n = 0
  <2>1. GiveUp(e, "write") /\ ssl' = ssl
    BY <1>1, <1>4
  <2> QED
    BY <1>1, <2>1, GiveUpMeans DEF Waits
<1>5. CASE n # 0
  <2>1. PICK s \in AfterWrite(e) : Set(e, s)
    BY <1>1, <1>5
  <2>2. Put(e, n, 0) /\ ssl' = [ssl EXCEPT ![e].out = @ - n] /\ UNCHANGED <<pc, user>>
    BY <1>1, <1>5
  <2>3. /\ s \in Socks /\ s.op = sock[e].op /\ s.sent = sock[e].sent
        /\ s.isReadable = sock[e].isReadable /\ ~s.isWritable
    BY AfterWriteMeans
  <2>4. Moves(e, "ssl", s)
    BY <1>1, <2>1, <2>2, <2>3, StaysMoves
  <2>5. s.op # "send" => s.sent = 0
    BY <2>3 DEF Control, Calls
  <2>6. \A x \in Ends : x # e => ssl'[x] = ssl[x]
    BY <2>2 DEF Types
  <2>7. Running(e, "ssl", s)
    BY <1>1, <2>3, <2>4, <2>5, <2>6 DEF Running
  <2>8. Wrote(e, n, 0)
    BY <1>3, <2>2, PutMeans
  <2>9. n \in 1..ssl[e].out
    BY <1>2, <1>3, <1>5
  <2> QED
    BY <2>2, <2>3, <2>7, <2>8, <2>9 DEF Flushes
<1> QED
  BY <1>4, <1>5

\* A part of a flight is read.
Hears(e) ==
  \E t \in Socks, n \in 1..Len(wire[e]) :
    /\ Running(e, "ssl", t) /\ t.sent = sock[e].sent /\ ~t.isReadable
    /\ HasRead(e, n)
    /\ ssl[e].out = 0 /\ ssl[e].flight <= Len(flights)
    /\ n <= flights[ssl[e].flight] - ssl[e].in
    /\ n = flights[ssl[e].flight] - ssl[e].in \/ n = Len(wire[e])
    /\ ssl' = [ssl EXCEPT ![e] = IF n = flights[ssl[e].flight] - ssl[e].in
                                   THEN Heard(ssl[e])
                                   ELSE [ssl[e] EXCEPT !.in = @ + n]]
    /\ user' = user

LEMMA FlightsAre ==
  ASSUME Types
  PROVE  /\ Len(flights) \in Nat /\ Len(flights) > 1
         /\ \A f \in 1..Len(flights) : flights[f] \in Nat /\ flights[f] > 0
BY TlsAssumption DEF TlsAssumption, Types

LEMMA HearMeans ==
  ASSUME Types, Control, NEW e \in Ends, Hear(e), ssl[e].flight > 0,
         ssl[e].flight <= Len(flights) => ssl[e].in <= flights[ssl[e].flight]
  PROVE  Waits(e) \/ Hears(e)
<1> DEFINE missing == flights[ssl[e].flight] - ssl[e].in
           n == Least(missing, Len(wire[e]))
<1>1. /\ pc[e] = "ssl" /\ ssl[e].out = 0 /\ ssl[e].flight <= Len(flights)
      /\ UNCHANGED <<mode, flights, drv>>
      /\ IF n = 0
           THEN GiveUp(e, "read") /\ UNCHANGED ssl
           ELSE /\ \E s \in AfterRead(e) : Set(e, s)
                /\ Take(e, n)
                /\ ssl' = [ssl EXCEPT ![e] = IF n = missing
                                               THEN Heard(ssl[e])
                                               ELSE [ssl[e] EXCEPT !.in = @ + n]]
                /\ UNCHANGED <<pc, user>>
  BY DEF Hear
<1>2. missing \in Nat /\ Len(wire[e]) \in Nat
  <2>1. ssl[e].flight \in 1..Len(flights) /\ ssl[e].in \in Nat
    BY <1>1, SockIs, FlightsAre DEF Ssls
  <2> QED
    BY <1>1, <2>1, FlightsAre, RoomMeans
<1> HIDE DEF missing
<1>3. n \in Nat /\ n <= missing /\ n <= Len(wire[e]) /\ (n = missing \/ n = Len(wire[e]))
  BY <1>2, LeastMeans
<1> HIDE DEF n
<1>4. CASE n = 0
  <2>1. GiveUp(e, "read") /\ ssl' = ssl
    BY <1>1, <1>4
  <2> QED
    BY <1>1, <2>1, GiveUpMeans DEF Waits
<1>5. CASE n # 0
  <2>1. PICK s \in AfterRead(e) : Set(e, s)
    BY <1>1, <1>5
  <2>2. /\ Take(e, n) /\ UNCHANGED <<pc, user>>
        /\ ssl' = [ssl EXCEPT ![e] = IF n = missing
                                       THEN Heard(ssl[e])
                                       ELSE [ssl[e] EXCEPT !.in = @ + n]]
    BY <1>1, <1>5
  <2>3. /\ s \in Socks /\ s.op = sock[e].op /\ s.sent = sock[e].sent
        /\ s.isWritable = sock[e].isWritable /\ ~s.isReadable
    BY AfterReadMeans
  <2>4. Moves(e, "ssl", s)
    BY <1>1, <2>1, <2>2, <2>3, StaysMoves
  <2>5. s.op # "send" => s.sent = 0
    BY <2>3 DEF Control, Calls
  <2>6. \A x \in Ends : x # e => ssl'[x] = ssl[x]
    BY <2>2 DEF Types
  <2>7. Running(e, "ssl", s)
    BY <1>1, <2>3, <2>4, <2>5, <2>6 DEF Running
  <2>8. HasRead(e, n)
    BY <1>3, <2>2, TakeMeans
  <2>9. n \in 1..Len(wire[e])
    BY <1>2, <1>3, <1>5
  <2> QED
    BY <1>1, <1>3, <2>2, <2>3, <2>7, <2>8, <2>9 DEF Hears, missing
<1> QED
  BY <1>4, <1>5

\* What is left of the record that is written.
Left(e) == IF ssl[e].record = 0 THEN RecordUnits ELSE ssl[e].record

\* A part of a record is written, or none yet.
Writes(e) ==
  \E l \in {"ssl", "error", "return"}, t \in Socks, n \in 0..Left(e) :
    /\ Finished(e) /\ sock[e].op = "send"
    /\ Running(e, l, t)
    /\ t.sent = IF n = Left(e) THEN sock[e].sent + 1 ELSE sock[e].sent
    /\ IF n = 0 THEN wire' = wire ELSE ~t.isWritable /\ Wrote(e, n, Current(e))
    /\ ssl' = [ssl EXCEPT ![e].record = Left(e) - n]
    /\ user' = user

LEMMA LeftMeans ==
  ASSUME Types, NEW e \in Ends
  PROVE  /\ Left(e) \in 1..RecordUnits /\ RecordUnits \in Nat
         /\ Current(e) = user[e].sent + sock[e].sent + 1
         /\ user[e].sent \in Nat /\ sock[e].sent \in Nat /\ Current(e) \in Nat
<1>1. ssl[e].record \in 0..RecordUnits /\ RecordUnits \in Nat /\ RecordUnits > 0
  BY SockIs, TlsAssumption DEF TlsAssumption, Ssls
<1>2. Left(e) \in 1..RecordUnits
  BY <1>1 DEF Left
<1>3. user[e].sent \in Nat /\ sock[e].sent \in Nat
  BY SockIs DEF Users, Socks
<1> QED
  BY <1>1, <1>2, <1>3 DEF Current

LEMMA WrittenMeans ==
  ASSUME Types, NEW e \in Ends, NEW s \in Socks, Written(e, s)
  PROVE  \E l \in {"ssl", "return"}, t \in Socks :
           /\ Moves(e, l, t) /\ t.op = s.op /\ t.sent = s.sent + 1
           /\ t.isReadable = s.isReadable /\ t.isWritable = s.isWritable
<1> DEFINE u == [s EXCEPT !.sent = @ + 1]
<1>1. u \in Socks /\ u.op = s.op /\ u.sent = s.sent + 1
      /\ u.isReadable = s.isReadable /\ u.isWritable = s.isWritable
  BY DEF Socks
<1>2. IF s.sent + 1 = s.size THEN Set(e, u) /\ Goto(e, "return") ELSE Loop(e, u)
  BY DEF Written
<1> HIDE DEF u
<1>3. CASE s.sent + 1 = s.size
  <2>1. Moves(e, "return", u)
    BY <1>1, <1>2, <1>3, MovesMeans DEF Labels
  <2> QED
    BY <1>1, <2>1
<1>4. CASE s.sent + 1 # s.size
  <2>1. PICK l \in {"ssl", "return"}, t \in Socks : Moves(e, l, t) /\ Alike(t, u)
    BY <1>1, <1>2, <1>4, LoopMeans
  <2> QED
    BY <1>1, <2>1 DEF Alike
<1> QED
  BY <1>3, <1>4

LEMMA WriteRecordMeans ==
  ASSUME Types, Control, NEW e \in Ends, WriteRecord(e)
  PROVE  Writes(e)
<1> DEFINE n == Least(Left(e), Room(e))
<1>1. /\ pc[e] = "ssl" /\ Finished(e) /\ ~Reads(e) /\ UNCHANGED <<mode, flights, drv>>
      /\ ssl' = [ssl EXCEPT ![e].record = Left(e) - n]
      /\ IF n = 0
           THEN GiveUp(e, "write")
           ELSE /\ \E s \in AfterWrite(e) :
                     IF n = Left(e) THEN Written(e, s) ELSE Set(e, s) /\ UNCHANGED pc
                /\ Put(e, n, Current(e))
                /\ UNCHANGED user
  BY DEF WriteRecord, Left
<1>2. Left(e) \in 1..RecordUnits /\ Left(e) \in Nat /\ Room(e) \in Nat /\ Current(e) \in Nat
  BY LeftMeans, RoomMeans
<1>3. n \in Nat /\ n <= Left(e) /\ n <= Room(e)
  BY <1>2, LeastMeans
<1> HIDE DEF n
<1>4. n \in 0..Left(e) /\ sock[e].op = "send"
  BY <1>1, <1>2, <1>3 DEF Reads
<1>5. \A x \in Ends : x # e => ssl'[x] = ssl[x]
  BY <1>1 DEF Types
<1>6. CASE n = 0
  <2>1. GiveUp(e, "write")
    BY <1>1, <1>6
  <2>2. /\ \E t \in Socks : Running(e, "error", t) /\ t.sent = sock[e].sent
        /\ wire' = wire /\ user' = user
    BY <1>1, <1>5, <2>1, GiveUpMeans
  <2>3. n # Left(e)
    BY <1>2, <1>6
  <2> QED
    BY <1>1, <1>4, <1>6, <2>2, <2>3 DEF Writes
<1>7. CASE n # 0
  <2>1. PICK s \in AfterWrite(e) :
               IF n = Left(e) THEN Written(e, s) ELSE Set(e, s) /\ UNCHANGED pc
    BY <1>1, <1>7
  <2>2. Put(e, n, Current(e)) /\ user' = user
    BY <1>1, <1>7
  <2>3. /\ s \in Socks /\ s.op = sock[e].op /\ s.sent = sock[e].sent
        /\ s.isReadable = sock[e].isReadable /\ ~s.isWritable
    BY AfterWriteMeans
  <2>4. Wrote(e, n, Current(e))
    BY <1>2, <1>3, <2>2, PutMeans
  <2>5. \E l \in {"ssl", "return"}, t \in Socks :
          /\ Moves(e, l, t) /\ t.op = s.op
          /\ t.sent = IF n = Left(e) THEN s.sent + 1 ELSE s.sent
          /\ t.isReadable = s.isReadable /\ t.isWritable = s.isWritable
    <3>1. CASE n = Left(e)
      BY <2>1, <2>3, <3>1, WrittenMeans
    <3>2. CASE n # Left(e)
      <4>1. Moves(e, "ssl", s)
        BY <1>1, <2>1, <2>3, <3>2, StaysMoves
      <4> QED
        BY <2>3, <3>2, <4>1
    <3> QED
      BY <3>1, <3>2
  <2>6. PICK l \in {"ssl", "return"}, t \in Socks :
          /\ Moves(e, l, t) /\ t.op = s.op
          /\ t.sent = IF n = Left(e) THEN s.sent + 1 ELSE s.sent
          /\ t.isReadable = s.isReadable /\ t.isWritable = s.isWritable
    BY <2>5
  <2>7. Running(e, l, t)
    BY <1>1, <1>4, <1>5, <2>3, <2>6 DEF Running
  <2> QED
    BY <1>1, <1>4, <1>7, <2>2, <2>3, <2>4, <2>6, <2>7 DEF Writes
<1> QED
  BY <1>6, <1>7

\* A part of a record is read, not its end.
ReadsPart(e) ==
  \E t \in Socks, n \in 1..Len(wire[e]) :
    /\ Finished(e) /\ ssl[e].in + n < RecordUnits
    /\ Running(e, "ssl", t) /\ t.sent = sock[e].sent /\ ~t.isReadable
    /\ HasRead(e, n)
    /\ ssl' = [ssl EXCEPT ![e].in = @ + n]
    /\ user' = user

\* The end of a record is read, for the caller or for DriverPending.
ReadsEnd(e) ==
  \E l \in {"idle", "failed"}, t \in Socks, n \in 1..Len(wire[e]) :
    /\ Finished(e) /\ ssl[e].in + n = RecordUnits
    /\ pc[e] = "ssl" /\ sock[e].sent = 0
    /\ Moves(e, l, t) /\ t.op = "receive" /\ t.sent = 0
    /\ ~t.isReadable /\ t.isWritable = sock[e].isWritable
    /\ mode' = mode /\ flights' = flights /\ drv' = drv
    /\ HasRead(e, n)
    /\ ssl' = [ssl EXCEPT ![e].in = 0]
    /\ user' = IF l = "idle"
                 THEN [user EXCEPT ![e].got = Append(@, wire[e][n])]
                 ELSE [user EXCEPT ![e].failed = TRUE]

LEMMA ReadRecordMeans ==
  ASSUME Types, Control, NEW e \in Ends, ReadRecord(e),
         Finished(e) => ssl[e].in < RecordUnits
  PROVE  Waits(e) \/ ReadsPart(e) \/ ReadsEnd(e)
<1> DEFINE missing == RecordUnits - ssl[e].in
           n == Least(missing, Len(wire[e]))
<1>1. /\ pc[e] = "ssl" /\ Finished(e) /\ Reads(e) /\ UNCHANGED <<mode, flights, drv>>
      /\ IF n = 0
           THEN GiveUp(e, "read") /\ UNCHANGED ssl
           ELSE /\ \E s \in AfterRead(e) : Set(e, IF n < missing THEN s ELSE AtRest(s))
                /\ Take(e, n)
                /\ ssl' = [ssl EXCEPT ![e].in = IF n = missing THEN 0 ELSE @ + n]
                /\ IF n < missing
                     THEN UNCHANGED <<pc, user>>
                     ELSE IF sock[e].op = "receive"
                     THEN /\ user' = [user EXCEPT ![e].got = Append(@, wire[e][n])]
                          /\ Goto(e, "idle")
                     ELSE /\ user' = [user EXCEPT ![e].failed = TRUE]
                          /\ Goto(e, "failed")
  BY DEF ReadRecord
<1>2. /\ ssl[e].in \in Nat /\ RecordUnits \in Nat /\ missing \in Nat /\ missing > 0
      /\ Len(wire[e]) \in Nat /\ sock[e].op # "send" /\ sock[e].sent = 0
  <2>1. ssl[e].in \in Nat /\ RecordUnits \in Nat /\ ssl[e].in < RecordUnits
    BY <1>1, SockIs, LeftMeans DEF Ssls
  <2>2. sock[e].op # "send"
    BY <1>1 DEF Reads
  <2> QED
    BY <2>1, <2>2, RoomMeans DEF Control, Calls
<1>3. n \in Nat /\ n <= missing /\ n <= Len(wire[e])
  BY <1>2, LeastMeans
<1> HIDE DEF n
<1>4. CASE n = 0
  <2>1. GiveUp(e, "read") /\ ssl' = ssl
    BY <1>1, <1>4
  <2> QED
    BY <1>1, <2>1, GiveUpMeans DEF Waits
<1>5. CASE n # 0
  <2>1. PICK s \in AfterRead(e) : Set(e, IF n < missing THEN s ELSE AtRest(s))
    BY <1>1, <1>5
  <2>2. HasRead(e, n)
    BY <1>1, <1>3, <1>5, TakeMeans
  <2>3. n \in 1..Len(wire[e])
    BY <1>2, <1>3, <1>5
  <2>4. /\ s \in Socks /\ s.op = sock[e].op /\ s.sent = sock[e].sent
        /\ s.isWritable = sock[e].isWritable /\ ~s.isReadable
    BY AfterReadMeans
  <2>5. CASE n < missing
    <3>1. ssl' = [ssl EXCEPT ![e].in = @ + n] /\ UNCHANGED <<pc, user>>
      BY <1>1, <1>2, <1>3, <1>5, <2>5
    <3>2. Moves(e, "ssl", s)
      BY <1>1, <2>1, <2>4, <2>5, <3>1, StaysMoves
    <3>3. \A x \in Ends : x # e => ssl'[x] = ssl[x]
      BY <3>1 DEF Types
    <3>4. Running(e, "ssl", s)
      BY <1>1, <1>2, <2>4, <3>2, <3>3 DEF Running
    <3>5. ssl[e].in + n < RecordUnits
      BY <1>2, <1>3, <2>5
    <3> QED
      BY <1>1, <2>2, <2>3, <2>4, <3>1, <3>4, <3>5 DEF ReadsPart
  <2>6. CASE ~(n < missing)
    <3> DEFINE l == IF sock[e].op = "receive" THEN "idle" ELSE "failed"
               t == AtRest(s)
    <3>1. n = missing
      BY <1>2, <1>3, <2>6
    <3>2. /\ ssl' = [ssl EXCEPT ![e].in = 0] /\ Goto(e, l) /\ Set(e, t)
          /\ user' = IF l = "idle"
                       THEN [user EXCEPT ![e].got = Append(@, wire[e][n])]
                       ELSE [user EXCEPT ![e].failed = TRUE]
      BY <1>1, <1>5, <2>1, <2>6, <3>1
    <3>3. /\ t \in Socks /\ t.op = "receive" /\ t.sent = 0
          /\ ~t.isReadable /\ t.isWritable = sock[e].isWritable
      BY <2>4, AtRestMeans
    <3>4. l \in {"idle", "failed"} /\ l \in Labels
      BY DEF Labels
    <3> HIDE DEF l, t
    <3>5. Moves(e, l, t)
      BY <3>2, <3>3, <3>4, MovesMeans
    <3>6. ssl[e].in + n = RecordUnits
      BY <1>2, <3>1
    <3> QED
      BY <1>1, <1>2, <2>2, <2>3, <3>2, <3>3, <3>4, <3>5, <3>6 DEF ReadsEnd
  <2> QED
    BY <2>5, <2>6
<1> QED
  BY <1>4, <1>5

-------------------------------------------------------------------------------
(* The steps between calls. *)

\* What the users have is as it was, but for what they ask.
SameUsers ==
  /\ user' \in [Ends -> Users]
  /\ \A x \in Ends : /\ user'[x].sent = user[x].sent
                     /\ user'[x].got = user[x].got /\ user'[x].failed = user[x].failed

\* A call begins; what the driver knows of the socket is true.
Starts(e) ==
  \E l \in {"ssl", "entry"}, t \in Socks :
    /\ Starting(e, l, t) /\ SameUsers /\ sock[e].sent = 0
    /\ t.isReadable => sock[e].isReadable \/ Readable(e)
    /\ t.isWritable => sock[e].isWritable \/ Writable(e)

LEMMA SendStarts ==
  ASSUME Types, Control, NEW e \in Ends, NEW n \in 1..MaxRecords,
         NEW limit \in {"unlimited", "limited", "zero"}, Send(e, n, limit)
  PROVE  Starts(e)
<1> DEFINE s == [sock[e] EXCEPT !.op = "send", !.size = n, !.limit = limit]
<1>1. /\ mode[e] = "sync" /\ pc[e] = "idle" /\ user[e].sent + n <= MaxRecords
      /\ Begin(e, s)
      /\ user' = [user EXCEPT ![e].asked = user[e].sent + n]
      /\ UNCHANGED <<mode, flights, ssl, wire, drv>>
  BY DEF Send
<1>2. sock[e] \in Socks /\ user[e].sent \in Nat /\ MaxRecords \in Nat /\ n \in Nat
  BY SockIs, TlsAssumption DEF Users, TlsAssumption
<1>3. s \in Socks /\ s.isReadable = sock[e].isReadable /\ s.isWritable = sock[e].isWritable
  BY <1>2 DEF Socks
<1> HIDE DEF s
<1>4. PICK l \in {"ssl", "entry"}, t \in Socks :
           /\ Moves(e, l, t) /\ t.op = s.op /\ t.sent = 0
           /\ t.isReadable = s.isReadable /\ t.isWritable = s.isWritable
  BY <1>1, <1>3, BeginMeans
<1>5. sock[e].sent = 0
  BY <1>1 DEF Control, Calls
<1>6. SameUsers
  <2>1. user[e].sent + n \in 0..MaxRecords
    BY <1>1, <1>2
  <2> DEFINE k == user[e].sent + n
             u == [user[e] EXCEPT !.asked = k]
  <2>2. user' = [user EXCEPT ![e] = u] /\ user \in [Ends -> Users] /\ user[e] \in Users
    BY <1>1 DEF Types
  <2>3. k \in 0..MaxRecords
    BY <2>1
  <2> HIDE DEF k
  <2>4. u \in Users /\ u.sent = user[e].sent /\ u.got = user[e].got /\ u.failed = user[e].failed
    BY <2>2, <2>3 DEF Users
  <2> HIDE DEF u
  <2> QED
    BY <2>2, <2>4 DEF SameUsers
<1>7. Starting(e, l, t)
  BY <1>1, <1>4 DEF Starting
<1> QED
  BY <1>3, <1>4, <1>5, <1>6, <1>7 DEF Starts

LEMMA UsersSame == ASSUME Types, user' = user PROVE SameUsers
BY DEF Types, SameUsers

LEMMA ReceiveStarts ==
  ASSUME Types, Control, NEW e \in Ends,
         NEW limit \in {"unlimited", "limited", "zero"}, Receive(e, limit)
  PROVE  Starts(e)
<1> DEFINE s == [sock[e] EXCEPT !.op = "receive", !.limit = limit]
<1>1. /\ mode[e] = "sync" /\ pc[e] = "idle" /\ Begin(e, s)
      /\ UNCHANGED <<mode, flights, ssl, wire, drv, user>>
  BY DEF Receive
<1>2. s \in Socks /\ s.isReadable = sock[e].isReadable /\ s.isWritable = sock[e].isWritable
  BY SockIs DEF Socks
<1> HIDE DEF s
<1>3. PICK l \in {"ssl", "entry"}, t \in Socks :
           /\ Moves(e, l, t) /\ t.op = s.op /\ t.sent = 0
           /\ t.isReadable = s.isReadable /\ t.isWritable = s.isWritable
  BY <1>1, <1>2, BeginMeans
<1>4. sock[e].sent = 0 /\ SameUsers
  BY <1>1, UsersSame DEF Control, Calls
<1>5. Starting(e, l, t)
  BY <1>1, <1>3 DEF Starting
<1> QED
  BY <1>2, <1>3, <1>4, <1>5 DEF Starts

LEMMA DeemedMeans ==
  ASSUME Types, NEW e \in Ends, NEW o \in {"receive", "send", "pending"}
  PROVE  /\ Deemed(e, o) \in Socks /\ Deemed(e, o).op = o
         /\ Deemed(e, o).isReadable = (IF o = "receive" THEN TRUE ELSE sock[e].isReadable)
         /\ Deemed(e, o).isWritable = (IF o = "receive" THEN sock[e].isWritable ELSE TRUE)
<1> DEFINE s == [sock[e] EXCEPT !.op = o, !.limit = "zero"]
           awaited == IF o = "receive" THEN "read" ELSE "write"
           t == IF s.lastError = awaited THEN [s EXCEPT !.lastError = "none"] ELSE s
<1>1. /\ s \in Socks /\ s.op = o
      /\ s.isReadable = sock[e].isReadable /\ s.isWritable = sock[e].isWritable
  BY SockIs DEF Socks
<1>2. Deemed(e, o) = IF o = "receive" THEN [t EXCEPT !.isReadable = TRUE]
                                      ELSE [t EXCEPT !.isWritable = TRUE]
  BY DEF Deemed
<1> HIDE DEF s
<1>3. /\ t \in Socks /\ t.op = o
      /\ t.isReadable = sock[e].isReadable /\ t.isWritable = sock[e].isWritable
  BY <1>1 DEF Socks
<1> HIDE DEF t
<1>4. CASE o = "receive"
  <2>1. Deemed(e, o) = [t EXCEPT !.isReadable = TRUE]
    BY <1>2, <1>4
  <2> QED
    BY <1>3, <1>4, <2>1 DEF Socks
<1>5. CASE o # "receive"
  <2>1. Deemed(e, o) = [t EXCEPT !.isWritable = TRUE]
    BY <1>2, <1>5
  <2> QED
    BY <1>3, <1>5, <2>1 DEF Socks
<1> QED
  BY <1>4, <1>5

LEMMA DriverStarts ==
  ASSUME Types, Control, NEW e \in Ends, OnReadable(e) \/ OnWritable(e) \/ OnPending(e)
  PROVE  Starts(e)
<1>1. /\ pc[e] = "poll" /\ UNCHANGED <<mode, flights, ssl, wire, drv, user>>
      /\ \E s \in Socks :
           /\ Begin(e, s)
           /\ s.isReadable => sock[e].isReadable \/ Readable(e)
           /\ s.isWritable => sock[e].isWritable \/ Writable(e)
           /\ s.op = "send" => drv[e].sendQ # <<>>
           /\ s.op = "pending" => drv[e].sendQ = <<>>
  <2>1. CASE OnReadable(e)
    BY <2>1, DeemedMeans DEF OnReadable
  <2>2. CASE OnWritable(e)
    <3> DEFINE d == Deemed(e, "send")
               s == [d EXCEPT !.size = Head(drv[e].sendQ)]
    <3>1. /\ PollsOut(e) /\ drv[e].sendQ # <<>> /\ Begin(e, s)
          /\ UNCHANGED <<mode, flights, ssl, wire, drv, user>>
      BY <2>2 DEF OnWritable
    <3>2. Head(drv[e].sendQ) \in Nat
      BY <3>1, SockIs DEF Drvs
    <3>3. /\ d \in Socks /\ d.op = "send"
          /\ d.isReadable = sock[e].isReadable
      BY DeemedMeans
    <3> HIDE DEF d
    <3>4. s \in Socks /\ s.op = "send" /\ s.isReadable = sock[e].isReadable
      BY <3>2, <3>3 DEF Socks
    <3> HIDE DEF s
    <3> QED
      BY <3>1, <3>4 DEF PollsOut
  <2>3. CASE OnPending(e)
    BY <2>3, DeemedMeans DEF OnPending, PollsOut
  <2> QED
    BY <2>1, <2>2, <2>3
<1>2. PICK s \in Socks :
           /\ Begin(e, s)
           /\ s.isReadable => sock[e].isReadable \/ Readable(e)
           /\ s.isWritable => sock[e].isWritable \/ Writable(e)
           /\ s.op = "send" => drv[e].sendQ # <<>>
           /\ s.op = "pending" => drv[e].sendQ = <<>>
  BY <1>1
<1>3. PICK l \in {"ssl", "entry"}, t \in Socks :
           /\ Moves(e, l, t) /\ t.op = s.op /\ t.sent = 0
           /\ t.isReadable = s.isReadable /\ t.isWritable = s.isWritable
  BY <1>2, BeginMeans
<1>4. sock[e].sent = 0 /\ SameUsers
  BY <1>1, UsersSame DEF Control, Calls
<1>5. Starting(e, l, t)
  BY <1>1, <1>2, <1>3 DEF Starting
<1> QED
  BY <1>2, <1>3, <1>4, <1>5 DEF Starts

\* A call ends.
Returns(e) ==
  \E t \in Socks :
    /\ pc[e] = "return" /\ Moves(e, "idle", t) /\ t.op = "receive" /\ t.sent = 0
    /\ t.isReadable = sock[e].isReadable /\ t.isWritable = sock[e].isWritable
    /\ mode' = mode /\ flights' = flights /\ ssl' = ssl /\ wire' = wire
    /\ drv' \in [Ends -> Drvs] /\ user' \in [Ends -> Users]
    /\ \A x \in Ends : x # e => drv'[x] = drv[x] /\ user'[x] = user[x]
    /\ user'[e].sent = user[e].sent + sock[e].sent
    /\ user'[e].got = user[e].got /\ user'[e].failed = user[e].failed
    /\ mode[e] = "async" /\ drv'[e].sendQ # <<>> => drv'[e].pollOut \/ drv'[e].suppressed

LEMMA UserCounts ==
  ASSUME Types, NEW e \in Ends, user' = [user EXCEPT ![e].sent = @ + sock[e].sent]
  PROVE  /\ user' \in [Ends -> Users]
         /\ \A x \in Ends : x # e => user'[x] = user[x]
         /\ user'[e].sent = user[e].sent + sock[e].sent
         /\ user'[e].got = user[e].got /\ user'[e].failed = user[e].failed
<1> DEFINE k == user[e].sent + sock[e].sent
           u == [user[e] EXCEPT !.sent = k]
<1>1. k \in Nat /\ user[e] \in Users
  BY SockIs DEF Socks, Users
<1> HIDE DEF k
<1>2. /\ u \in Users /\ u.sent = k
      /\ u.got = user[e].got /\ u.failed = user[e].failed
  BY <1>1 DEF Users
<1>3. user' = [user EXCEPT ![e] = u]
  BY DEF k
<1> HIDE DEF u
<1> QED
  BY <1>2, <1>3 DEF Types, k

LEMMA UserStays ==
  ASSUME Types, NEW e \in Ends, user' = user, sock[e].sent = 0
  PROVE  /\ user' \in [Ends -> Users]
         /\ \A x \in Ends : x # e => user'[x] = user[x]
         /\ user'[e].sent = user[e].sent + sock[e].sent
         /\ user'[e].got = user[e].got /\ user'[e].failed = user[e].failed
<1>1. user[e].sent \in Nat
  BY SockIs DEF Users
<1> QED
  BY <1>1 DEF Types

LEMMA ReturnReturns ==
  ASSUME Types, Control, NEW e \in Ends, Return(e)
  PROVE  Returns(e)
<1> DEFINE t == AtRest(sock[e])
<1>1. /\ mode[e] = "sync" /\ pc[e] = "return" /\ Goto(e, "idle") /\ Set(e, t)
      /\ user' = IF Reads(e) THEN user ELSE [user EXCEPT ![e].sent = @ + sock[e].sent]
      /\ UNCHANGED <<mode, flights, ssl, wire, drv>>
  BY DEF Return
<1>2. /\ t \in Socks /\ t.op = "receive" /\ t.sent = 0
      /\ t.isReadable = sock[e].isReadable /\ t.isWritable = sock[e].isWritable
  BY SockIs, AtRestMeans
<1> HIDE DEF t
<1>3. Moves(e, "idle", t)
  BY <1>1, <1>2, MovesMeans DEF Labels
<1>4. /\ user' \in [Ends -> Users]
      /\ \A x \in Ends : x # e => user'[x] = user[x]
      /\ user'[e].sent = user[e].sent + sock[e].sent
      /\ user'[e].got = user[e].got /\ user'[e].failed = user[e].failed
  <2>1. CASE Reads(e)
    <3>1. sock[e].sent = 0 /\ user' = user
      BY <1>1, <2>1 DEF Reads, Control, Calls
    <3> QED
      BY <3>1, UserStays
  <2>2. CASE ~Reads(e)
    BY <1>1, <2>2, UserCounts
  <2> QED
    BY <2>1, <2>2
<1>5. drv' \in [Ends -> Drvs] /\ \A x \in Ends : drv'[x] = drv[x]
  BY <1>1 DEF Types
<1> QED
  BY <1>1, <1>2, <1>3, <1>4, <1>5 DEF Returns

LEMMA StepReturnReturns ==
  ASSUME Types, Control, NEW e \in Ends, StepReturn(e)
  PROVE  Returns(e)
<1>1. /\ mode[e] = "async" /\ pc[e] = "return" /\ Goto(e, "idle")
      /\ ReceivedNothing(e) \/ PendingDone(e) \/ SentSome(e)
      /\ UNCHANGED <<mode, flights, ssl, wire>>
  BY DEF StepReturn
<1>2. /\ drv[e] \in Drvs /\ sock[e] \in Socks
      /\ drv[e].sendQ # <<>> => drv[e].pollOut \/ drv[e].suppressed
      /\ sock[e].op = "send" => drv[e].sendQ # <<>>
      /\ sock[e].op = "pending" => drv[e].sendQ = <<>>
      /\ sock[e].op # "send" => sock[e].sent = 0
  BY <1>1, SockIs DEF Control, Calls, Requested
<1>3. \E s \in Socks : Set(e, AtRest(s)) /\ s.isReadable = sock[e].isReadable
                       /\ s.isWritable = sock[e].isWritable
  <2>1. CASE ReceivedNothing(e)
    <3>1. [sock[e] EXCEPT !.lastError = "none"] \in Socks
          /\ [sock[e] EXCEPT !.lastError = "none"].isReadable = sock[e].isReadable
          /\ [sock[e] EXCEPT !.lastError = "none"].isWritable = sock[e].isWritable
      BY <1>2 DEF Socks
    <3> QED
      BY <1>2, <2>1, <3>1 DEF ReceivedNothing
  <2>2. CASE PendingDone(e) \/ SentSome(e)
    BY <1>2, <2>2 DEF PendingDone, SentSome
  <2> QED
    BY <1>1, <2>1, <2>2
<1>4. PICK s \in Socks : Set(e, AtRest(s)) /\ s.isReadable = sock[e].isReadable
                         /\ s.isWritable = sock[e].isWritable
  BY <1>3
<1> DEFINE t == AtRest(s)
<1>5. /\ t \in Socks /\ t.op = "receive" /\ t.sent = 0
      /\ t.isReadable = sock[e].isReadable /\ t.isWritable = sock[e].isWritable
  BY <1>4, AtRestMeans
<1>6. Moves(e, "idle", t)
  BY <1>1, <1>4, <1>5, MovesMeans DEF Labels
<1> HIDE DEF t
<1>7. /\ user' \in [Ends -> Users]
      /\ \A x \in Ends : x # e => user'[x] = user[x]
      /\ user'[e].sent = user[e].sent + sock[e].sent
      /\ user'[e].got = user[e].got /\ user'[e].failed = user[e].failed
  <2>1. CASE ReceivedNothing(e) \/ PendingDone(e)
    <3>1. sock[e].sent = 0 /\ user' = user
      BY <1>2, <2>1 DEF ReceivedNothing, PendingDone
    <3> QED
      BY <3>1, UserStays
  <2>2. CASE SentSome(e)
    <3>1. user' = [user EXCEPT ![e].sent = @ + sock[e].sent]
      BY <2>2 DEF SentSome
    <3> QED
      BY <3>1, UserCounts
  <2> QED
    BY <1>1, <2>1, <2>2
<1>8. \E d \in Drvs : /\ drv' = [drv EXCEPT ![e] = d]
                      /\ d.sendQ # <<>> => d.pollOut \/ d.suppressed
  <2>1. CASE ReceivedNothing(e)
    <3>1. drv' = [drv EXCEPT ![e] = drv[e]]
      BY <2>1 DEF ReceivedNothing, Types
    <3> QED
      BY <1>2, <3>1
  <2>2. CASE PendingDone(e)
    <3> DEFINE d == [drv[e] EXCEPT !.pollOut = FALSE]
    <3>1. drv' = [drv EXCEPT ![e] = d] /\ sock[e].op = "pending"
      BY <2>2 DEF PendingDone
    <3>2. d \in Drvs /\ d.sendQ = <<>>
      BY <1>2, <3>1 DEF Drvs
    <3> HIDE DEF d
    <3> QED
      BY <3>1, <3>2
  <2>3. CASE SentSome(e)
    <3> DEFINE q == drv[e].sendQ
               rest == Head(q) - sock[e].sent
               d == IF rest > 0 THEN [drv[e] EXCEPT !.sendQ = <<rest>> \o Tail(q)]
                    ELSE [drv[e] EXCEPT !.sendQ = Tail(q), !.pollOut = @ /\ Len(q) > 1]
    <3>1. q \in Seq(Nat) /\ q # <<>> /\ sock[e].sent \in Nat
      BY <1>2, <2>3 DEF SentSome, Drvs, Socks
    <3>2. drv' = [drv EXCEPT ![e] = d]
      BY <2>3 DEF SentSome
    <3>3. Head(q) \in Nat /\ Tail(q) \in Seq(Nat) /\ Len(Tail(q)) = Len(q) - 1 /\ Len(q) \in Nat
      BY <3>1, HeadTailProperties
    <3>4. CASE rest > 0
      <4>1. rest \in Nat
        BY <3>1, <3>3, <3>4
      <4>2. <<rest>> \o Tail(q) \in Seq(Nat) /\ <<rest>> \o Tail(q) # <<>>
        BY <3>3, <4>1
      <4>3. d = [drv[e] EXCEPT !.sendQ = <<rest>> \o Tail(q)]
        BY <3>4
      <4>4. d \in Drvs /\ d.pollOut = drv[e].pollOut /\ d.suppressed = drv[e].suppressed
        BY <1>2, <4>2, <4>3 DEF Drvs
      <4> HIDE DEF d
      <4> QED
        BY <1>2, <3>1, <3>2, <4>4
    <3>5. CASE ~(rest > 0)
      <4>1. d = [drv[e] EXCEPT !.sendQ = Tail(q), !.pollOut = @ /\ Len(q) > 1]
        BY <3>5
      <4>2. /\ d \in Drvs /\ d.sendQ = Tail(q) /\ d.suppressed = drv[e].suppressed
            /\ d.pollOut = (drv[e].pollOut /\ Len(q) > 1)
        BY <1>2, <3>3, <4>1 DEF Drvs
      <4>3. Tail(q) # <<>> => Len(q) > 1
        BY <3>3, EmptySeq
      <4> HIDE DEF d
      <4> QED
        BY <1>2, <3>1, <3>2, <4>2, <4>3
    <3> QED
      BY <3>4, <3>5
  <2> QED
    BY <1>1, <2>1, <2>2, <2>3
<1>9. /\ drv' \in [Ends -> Drvs] /\ \A x \in Ends : x # e => drv'[x] = drv[x]
      /\ drv'[e].sendQ # <<>> => drv'[e].pollOut \/ drv'[e].suppressed
  BY <1>8 DEF Types
<1> QED
  BY <1>1, <1>5, <1>6, <1>7, <1>9 DEF Returns

LEMMA ReturnsControl ==
  ASSUME Control, NEW e \in Ends, Returns(e)
  PROVE  Control'
<1>1. PICK t \in Socks :
        /\ pc[e] = "return" /\ Moves(e, "idle", t) /\ t.op = "receive" /\ t.sent = 0
        /\ mode' = mode /\ flights' = flights /\ ssl' = ssl
        /\ \A x \in Ends : x # e => drv'[x] = drv[x]
        /\ mode[e] = "async" /\ drv'[e].sendQ # <<>> => drv'[e].pollOut \/ drv'[e].suppressed
  BY DEF Returns
<1>2. Calls'
  <2> SUFFICES ASSUME NEW x \in Ends
               PROVE  /\ pc'[x] \in {"idle", "poll", "failed"} => sock'[x].op = "receive"
                      /\ sock'[x].op # "send" => sock'[x].sent = 0
                      /\ mode'[x] = "async" =>
                           /\ sock'[x].op = "send" => drv'[x].sendQ # <<>>
                           /\ sock'[x].op = "pending" => drv'[x].sendQ = <<>>
    BY DEF Calls
  <2>1. CASE x = e
    BY <1>1, <2>1 DEF Moves
  <2>2. CASE x # e
    BY <1>1, <2>2 DEF Control, Calls, Moves
  <2> QED
    BY <2>1, <2>2
<1>3. Requested'
  BY <1>1 DEF Control, Requested
<1>4. Polling'
  <2> SUFFICES ASSUME NEW x \in Ends, mode'[x] = "async", pc'[x] = "poll"
               PROVE  /\ drv'[x].suppressed => ~Finished(x)'
                      /\ ~Finished(x)' /\ sock'[x].lastError = "read" => ~drv'[x].pollOut
                      /\ ~Finished(x)' /\ sock'[x].lastError = "write" => drv'[x].pollOut
    BY DEF Polling
  <2>1. x # e /\ Finished(x)' = Finished(x)
    BY <1>1, FinishedSame DEF Moves
  <2> QED
    BY <1>1, <2>1 DEF Control, Polling, Moves
<1> QED
  BY <1>2, <1>3, <1>4 DEF Control

\* The end of a record that is read.
LEMMA ReadsEndControl ==
  ASSUME Control, NEW e \in Ends, ReadsEnd(e)
  PROVE  Control'
<1>1. PICK l \in {"idle", "failed"}, t \in Socks :
        /\ Moves(e, l, t) /\ t.op = "receive" /\ t.sent = 0
        /\ mode' = mode /\ flights' = flights /\ drv' = drv
        /\ ssl' = [ssl EXCEPT ![e].in = 0]
  BY DEF ReadsEnd
<1>2. Calls'
  <2> SUFFICES ASSUME NEW x \in Ends
               PROVE  /\ pc'[x] \in {"idle", "poll", "failed"} => sock'[x].op = "receive"
                      /\ sock'[x].op # "send" => sock'[x].sent = 0
                      /\ mode'[x] = "async" =>
                           /\ sock'[x].op = "send" => drv'[x].sendQ # <<>>
                           /\ sock'[x].op = "pending" => drv'[x].sendQ = <<>>
    BY DEF Calls
  <2>1. CASE x = e
    BY <1>1, <2>1 DEF Moves
  <2>2. CASE x # e
    BY <1>1, <2>2 DEF Control, Calls, Moves
  <2> QED
    BY <2>1, <2>2
<1>3. Requested'
  BY <1>1 DEF Control, Requested
<1>4. Polling'
  <2> SUFFICES ASSUME NEW x \in Ends, mode'[x] = "async", pc'[x] = "poll"
               PROVE  /\ drv'[x].suppressed => ~Finished(x)'
                      /\ ~Finished(x)' /\ sock'[x].lastError = "read" => ~drv'[x].pollOut
                      /\ ~Finished(x)' /\ sock'[x].lastError = "write" => drv'[x].pollOut
    BY DEF Polling
  <2>1. x # e
    BY <1>1 DEF Moves
  <2>2. ssl'[x] = ssl[x]
    BY <1>1, <2>1
  <2>3. Finished(x)' = Finished(x)
    BY <1>1, <2>2, FinishedSame
  <2> QED
    BY <1>1, <2>1, <2>3 DEF Control, Polling, Moves
<1> QED
  BY <1>2, <1>3, <1>4 DEF Control

\* A step of the driver or its user that touches neither the socket nor the engine.
Drives(e) ==
  /\ pc[e] \in {"idle", "poll"} /\ pc'[e] \in {"idle", "poll"}
  /\ pc' \in [Ends -> Labels] /\ drv' \in [Ends -> Drvs]
  /\ \A x \in Ends : x # e => pc'[x] = pc[x] /\ drv'[x] = drv[x]
  /\ sock' = sock /\ ssl' = ssl /\ wire' = wire /\ mode' = mode /\ flights' = flights
  /\ SameUsers
  /\ mode[e] = "async" /\ drv'[e].sendQ # <<>> => drv'[e].pollOut \/ drv'[e].suppressed
  /\ mode[e] = "async" /\ pc'[e] = "poll" =>
       /\ drv'[e].suppressed => ~Finished(e)
       /\ ~Finished(e) /\ sock[e].lastError = "read" => ~drv'[e].pollOut
       /\ ~Finished(e) /\ sock[e].lastError = "write" => drv'[e].pollOut

LEMMA EnqueueDrives ==
  ASSUME Types, Control, NEW e \in Ends, NEW n \in 1..MaxRecords, Enqueue(e, n)
  PROVE  Drives(e)
<1> DEFINE q == drv[e].sendQ
           d == [drv[e] EXCEPT !.sendQ = Append(@, n), !.pollOut = @ \/ q = <<>>]
           l == IF q = <<>> THEN "idle" ELSE pc[e]
<1>1. /\ mode[e] = "async" /\ pc[e] \in {"idle", "poll"} /\ user[e].asked + n <= MaxRecords
      /\ user' = [user EXCEPT ![e].asked = @ + n]
      /\ Goto(e, l)
      /\ UNCHANGED <<mode, flights, sock, ssl, wire>>
  BY DEF Enqueue
<1>2. drv[e] \in Drvs /\ user[e] \in Users /\ q \in Seq(Nat) /\ n \in Nat
  BY SockIs DEF Drvs
<1>3. drv' = [drv EXCEPT ![e] = d]
  BY DEF Enqueue
<1>4. Append(q, n) \in Seq(Nat) /\ Append(q, n) # <<>>
  BY <1>2
<1>5. /\ d \in Drvs /\ d.suppressed = drv[e].suppressed /\ d.sendQ # <<>>
      /\ d.pollOut = (drv[e].pollOut \/ q = <<>>)
  BY <1>2, <1>4 DEF Drvs
<1>6. SameUsers
  <2> DEFINE k == user[e].asked + n
             u == [user[e] EXCEPT !.asked = k]
  <2>1. k \in 0..MaxRecords
    BY <1>1, <1>2 DEF Users
  <2> HIDE DEF k
  <2>2. u \in Users /\ u.sent = user[e].sent /\ u.got = user[e].got /\ u.failed = user[e].failed
    BY <1>2, <2>1 DEF Users
  <2>3. user' = [user EXCEPT ![e] = u]
    BY <1>1 DEF k
  <2> HIDE DEF u
  <2> QED
    BY <2>2, <2>3 DEF Types, SameUsers
<1>7. pc' = [pc EXCEPT ![e] = l] /\ l \in {"idle", "poll"} /\ (l = "poll" => pc[e] = "poll" /\ q # <<>>)
  BY <1>1 DEF Goto
<1>8. q # <<>> => drv[e].pollOut \/ drv[e].suppressed
  BY <1>1 DEF Control, Requested
<1>9. l = "poll" => /\ d.suppressed => ~Finished(e)
                    /\ ~Finished(e) /\ sock[e].lastError = "read" => ~d.pollOut
                    /\ ~Finished(e) /\ sock[e].lastError = "write" => d.pollOut
  BY <1>1, <1>5, <1>7 DEF Control, Polling
<1> HIDE DEF d, l, q
<1> QED
  BY <1>1, <1>3, <1>5, <1>6, <1>7, <1>8, <1>9 DEF Drives, Types, Labels

LEMMA QueryDrives ==
  ASSUME Types, Control, NEW e \in Ends, Query(e)
  PROVE  Drives(e)
<1>1. /\ mode[e] = "async" /\ pc[e] = "idle" /\ Goto(e, "poll")
      /\ UNCHANGED <<mode, flights, sock, ssl, wire, user>>
  BY DEF Query
<1>2. drv' = [drv EXCEPT ![e] = Queried(e)]
  BY DEF Query
<1>3. drv[e] \in Drvs /\ (drv[e].sendQ # <<>> => drv[e].pollOut \/ drv[e].suppressed)
  BY <1>1, SockIs DEF Control, Requested
<1>4. /\ Queried(e) \in Drvs
      /\ Queried(e).sendQ # <<>> => Queried(e).pollOut \/ Queried(e).suppressed
      /\ Queried(e).suppressed => ~Finished(e)
      /\ ~Finished(e) /\ sock[e].lastError = "read" => ~Queried(e).pollOut
      /\ ~Finished(e) /\ sock[e].lastError = "write" => Queried(e).pollOut
  <2>1. CASE ~Finished(e) /\ sock[e].lastError = "write"
    <3>1. Queried(e) = [drv[e] EXCEPT !.pollOut = TRUE]
      BY <2>1 DEF Queried
    <3> QED
      BY <1>3, <2>1, <3>1 DEF Drvs
  <2>2. CASE ~Finished(e) /\ sock[e].lastError = "read"
    <3>1. Queried(e) = [drv[e] EXCEPT !.suppressed = @ \/ drv[e].pollOut, !.pollOut = FALSE]
      BY <2>2 DEF Queried
    <3> QED
      BY <1>3, <2>2, <3>1 DEF Drvs
  <2>3. CASE Finished(e) /\ drv[e].suppressed
    <3>1. Queried(e) = [drv[e] EXCEPT !.suppressed = FALSE, !.pollOut = TRUE]
      BY <2>3 DEF Queried
    <3> QED
      BY <1>3, <2>3, <3>1 DEF Drvs
  <2>4. CASE /\ ~(~Finished(e) /\ sock[e].lastError = "write")
             /\ ~(~Finished(e) /\ sock[e].lastError = "read")
             /\ ~(Finished(e) /\ drv[e].suppressed)
    <3>1. Queried(e) = drv[e]
      BY <2>4 DEF Queried
    <3> QED
      BY <1>3, <2>4, <3>1
  <2> QED
    BY <2>1, <2>2, <2>3, <2>4
<1>5. pc' = [pc EXCEPT ![e] = "poll"] /\ SameUsers
  BY <1>1, UsersSame DEF Goto
<1> QED
  BY <1>1, <1>2, <1>4, <1>5 DEF Drives, Types, Labels

LEMMA OnIdleDrives ==
  ASSUME Types, Control, NEW e \in Ends, OnIdle(e)
  PROVE  Drives(e)
<1> DEFINE d == [drv[e] EXCEPT !.pollOut = FALSE]
<1>1. /\ pc[e] = "poll" /\ drv[e].sendQ = <<>> /\ Goto(e, "idle")
      /\ UNCHANGED <<mode, flights, sock, ssl, wire, user>>
  BY DEF OnIdle, PollsOut
<1>2. drv' = [drv EXCEPT ![e] = d]
  BY DEF OnIdle
<1>3. drv[e] \in Drvs /\ d \in Drvs /\ d.sendQ = <<>>
  BY <1>1, SockIs DEF Drvs
<1> HIDE DEF d
<1>4. pc' = [pc EXCEPT ![e] = "idle"] /\ SameUsers
  BY <1>1, UsersSame DEF Goto
<1> QED
  BY <1>1, <1>2, <1>3, <1>4 DEF Drives, Types, Labels

LEMMA DrivesControl ==
  ASSUME Types, Control, NEW e \in Ends, Drives(e)
  PROVE  Control'
<1>1. Calls'
  <2> SUFFICES ASSUME NEW x \in Ends
               PROVE  /\ pc'[x] \in {"idle", "poll", "failed"} => sock[x].op = "receive"
                      /\ sock[x].op # "send" => sock[x].sent = 0
                      /\ mode[x] = "async" =>
                           /\ sock[x].op = "send" => drv'[x].sendQ # <<>>
                           /\ sock[x].op = "pending" => drv'[x].sendQ = <<>>
    BY DEF Calls, Drives
  <2>1. CASE x = e
    BY <2>1 DEF Control, Calls, Drives
  <2>2. CASE x # e
    BY <2>2 DEF Control, Calls, Drives
  <2> QED
    BY <2>1, <2>2
<1>2. Requested'
  BY DEF Control, Requested, Drives
<1>3. Polling'
  <2>1. \A x \in Ends : Finished(x)' = Finished(x)
    BY DEF Drives, Finished
  <2> SUFFICES ASSUME NEW x \in Ends, mode[x] = "async", pc'[x] = "poll"
               PROVE  /\ drv'[x].suppressed => ~Finished(x)
                      /\ ~Finished(x) /\ sock[x].lastError = "read" => ~drv'[x].pollOut
                      /\ ~Finished(x) /\ sock[x].lastError = "write" => drv'[x].pollOut
    BY <2>1 DEF Polling, Drives
  <2>2. CASE x = e
    BY <2>2 DEF Drives
  <2>3. CASE x # e
    BY <2>3 DEF Control, Polling, Drives
  <2> QED
    BY <2>2, <2>3
<1> QED
  BY <1>1, <1>2, <1>3 DEF Control

-------------------------------------------------------------------------------
(* The flags. *)

LEMMA MoreRoom ==
  ASSUME NEW c \in Nat, NEW a \in Nat, NEW b \in Nat, NEW n \in Nat, b = a - n
  PROVE  c - a > 0 => c - b > 0
OBVIOUS

\* The steps that are running, whatever they do to the wires.
LEMMA FlagsRun ==
  ASSUME Types, FlagsTrue, NEW e \in Ends, NEW l, NEW t, Moves(e, l, t),
         t.isReadable => sock[e].isReadable \/ Readable(e),
         t.isWritable => sock[e].isWritable \/ Writable(e),
         Types',
         \/ wire' = wire
         \/ \E n \in Nat : \E unit : Wrote(e, n, unit) /\ ~t.isWritable
         \/ \E n \in Nat : HasRead(e, n) /\ ~t.isReadable
  PROVE  FlagsTrue'
<1> DEFINE p == Peer(e)
<1>1. p \in Ends /\ p # e /\ Peer(p) = e /\ \A x \in Ends : x = e \/ x = p
  BY EndsAre
<1>2. /\ sock'[e] = t /\ sock'[p] = sock[p]
      /\ sock[p].isReadable => Readable(p)
      /\ sock[p].isWritable => Writable(p)
      /\ t.isReadable => Readable(e)
      /\ t.isWritable => Writable(e)
  BY <1>1 DEF Moves, FlagsTrue
<1> HIDE DEF p
<1>3. /\ Len(wire[e]) \in Nat /\ Len(wire[p]) \in Nat /\ Cap \in Nat
      /\ Len(wire'[e]) \in Nat /\ Len(wire'[p]) \in Nat
  <2>1. \A x \in Ends : wire[x] \in Seq(Nat) /\ wire'[x] \in Seq(Nat)
    BY DEF Types
  <2>2. Cap \in Nat
    BY TlsAssumption DEF TlsAssumption
  <2> QED
    BY <1>1, <2>1, <2>2
<1>4. /\ Readable(e) <=> Len(wire[e]) > 0
      /\ Readable(p) <=> Len(wire[p]) > 0
      /\ Writable(e) <=> Cap - Len(wire[p]) > 0
      /\ Writable(p) <=> Cap - Len(wire[e]) > 0
  BY <1>1, RoomMeans DEF p
<1>5. /\ Readable(e)' <=> Len(wire'[e]) > 0
      /\ Readable(p)' <=> Len(wire'[p]) > 0
      /\ Writable(e)' <=> Cap - Len(wire'[p]) > 0
      /\ Writable(p)' <=> Cap - Len(wire'[e]) > 0
  <2>1. \A x \in Ends : wire'[x] \in Seq(Nat)
    BY DEF Types
  <2>2. /\ Readable(e)' <=> Len(wire'[e]) > 0
        /\ Readable(p)' <=> Len(wire'[p]) > 0
    BY <1>1, <2>1, EmptySeq DEF Readable
  <2> QED
    BY <1>1, <2>2 DEF Writable, Room, p
<1>6. /\ t.isReadable => Readable(e)'
      /\ t.isWritable => Writable(e)'
      /\ sock[p].isReadable => Readable(p)'
      /\ sock[p].isWritable => Writable(p)'
  <2>1. CASE wire' = wire
    BY <1>2, <1>4, <1>5, <2>1
  <2>2. ASSUME NEW n \in Nat, NEW unit, Wrote(e, n, unit), ~t.isWritable
        PROVE  <1>6!:
    <3>1. Len(wire'[p]) = Len(wire[p]) + n /\ Len(wire'[e]) = Len(wire[e])
      BY <2>2 DEF Wrote, p
    <3>2. /\ Len(wire[e]) > 0 => Len(wire'[e]) > 0
          /\ Len(wire[p]) > 0 => Len(wire'[p]) > 0
          /\ Cap - Len(wire[e]) > 0 => Cap - Len(wire'[e]) > 0
      BY <1>3, <3>1
    <3> QED
      BY <1>2, <1>4, <1>5, <2>2, <3>2, Zenon
  <2>3. ASSUME NEW n \in Nat, HasRead(e, n), ~t.isReadable
        PROVE  <1>6!:
    <3>1. Len(wire'[p]) = Len(wire[p]) /\ Len(wire'[e]) = Len(wire[e]) - n
      BY <2>3 DEF HasRead, p
    <3>2. /\ Len(wire[p]) > 0 => Len(wire'[p]) > 0
          /\ Cap - Len(wire[e]) > 0 => Cap - Len(wire'[e]) > 0
          /\ Cap - Len(wire[p]) > 0 => Cap - Len(wire'[p]) > 0
      BY <1>3, <3>1, MoreRoom
    <3> QED
      BY <1>2, <1>4, <1>5, <2>3, <3>2, Zenon
  <2> QED
    BY <2>1, <2>2, <2>3
<1> QED
  BY <1>1, <1>2, <1>6 DEF FlagsTrue

-------------------------------------------------------------------------------
(* The wires. *)

\* Units are read from the front, of a flight,
LEMMA FlightRead ==
  ASSUME NEW w \in Seq(Nat), NEW v \in Seq(Nat), NEW z \in Nat, NEW n \in 1..z,
         NEW r \in Nat, NEW c, Front(w, z),
         Len(v) = Len(w) - n, \A i \in 1..Len(w) - n : v[i] = w[i + n]
  PROVE  Front(v, z - n) /\ (Rest(w, z, r, c) => Rest(v, z - n, r, c))
<1>1. Len(w) \in Nat /\ Len(v) \in Nat /\ z <= Len(w) /\ n <= z /\ n \in Nat
  BY DEF Front
<1>2. Front(v, z - n)
  <2>1. z - n \in 0..Len(v)
    BY <1>1
  <2>2. ASSUME NEW i \in 1..z - n PROVE v[i] = 0
    <3>1. i \in 1..Len(w) - n /\ i + n \in 1..z
      BY <1>1
    <3> QED
      BY <3>1 DEF Front
  <2> QED
    BY <2>1, <2>2 DEF Front
<1>3. ASSUME Rest(w, z, r, c) PROVE Rest(v, z - n, r, c)
  <2>1. c = r + Len(v) - (z - n)
    BY <1>1, <1>3 DEF Rest
  <2>2. ASSUME NEW i \in z - n + 1 .. Len(v) PROVE Numbered(v[i], r + i - (z - n))
    <3>1. i \in 1..Len(w) - n /\ i + n \in z + 1 .. Len(w) /\ r + i - (z - n) = r + (i + n) - z
      BY <1>1
    <3>2. v[i] = w[i + n] /\ Numbered(w[i + n], r + (i + n) - z)
      BY <1>3, <3>1 DEF Rest
    <3> QED
      BY <3>1, <3>2
  <2> QED
    BY <2>1, <2>2 DEF Rest
<1> QED
  BY <1>2, <1>3

\* or of records.
LEMMA RecordRead ==
  ASSUME NEW w \in Seq(Nat), NEW v \in Seq(Nat), NEW n \in 1..Len(w), NEW r \in Nat, NEW c,
         Rest(w, 0, r, c),
         Len(v) = Len(w) - n, \A i \in 1..Len(w) - n : v[i] = w[i + n]
  PROVE  Front(v, 0) /\ Rest(v, 0, r + n, c)
<1>1. Len(w) \in Nat /\ Len(v) \in Nat /\ n <= Len(w) /\ n \in Nat
  OBVIOUS
<1>2. Front(v, 0)
  BY <1>1 DEF Front
<1>3. c = r + n + Len(v) - 0
  BY <1>1 DEF Rest
<1>4. ASSUME NEW i \in 0 + 1 .. Len(v) PROVE Numbered(v[i], r + n + i - 0)
  <2>1. i \in 1..Len(w) - n /\ i + n \in 0 + 1 .. Len(w) /\ r + n + i - 0 = r + (i + n) - 0
    BY <1>1
  <2>2. v[i] = w[i + n] /\ Numbered(w[i + n], r + (i + n) - 0)
    BY <2>1 DEF Rest
  <2> QED
    BY <2>1, <2>2
<1> QED
  BY <1>2, <1>3, <1>4 DEF Rest

\* Units are written behind what is there, of a flight,
LEMMA FlightWritten ==
  ASSUME NEW w \in Seq(Nat), NEW v \in Seq(Nat), NEW n \in Nat, NEW r \in Nat, NEW c,
         Front(w, Len(w)), Len(v) = Len(w) + n,
         \A i \in 1..Len(w) : v[i] = w[i],
         \A i \in Len(w) + 1 .. Len(w) + n : v[i] = 0
  PROVE  Front(v, Len(w) + n) /\ (Rest(w, Len(w), r, c) => Rest(v, Len(w) + n, r, c))
<1>1. Len(w) \in Nat /\ Len(v) \in Nat
  OBVIOUS
<1>2. ASSUME NEW i \in 1..Len(w) + n PROVE v[i] = 0
  <2>1. i \in 1..Len(w) \/ i \in Len(w) + 1 .. Len(w) + n
    BY <1>1
  <2> QED
    BY <2>1 DEF Front
<1>3. Len(w) + n \in 0..Len(v) /\ Len(w) + n + 1 .. Len(v) = {}
  BY <1>1
<1>4. r + Len(w) - Len(w) = r + Len(v) - (Len(w) + n)
  BY <1>1
<1> QED
  BY <1>2, <1>3, <1>4 DEF Front, Rest

\* or of a record.
LEMMA RecordWritten ==
  ASSUME NEW w \in Seq(Nat), NEW v \in Seq(Nat), NEW n \in Nat, NEW z \in Nat,
         NEW r \in Nat, NEW c \in Nat, NEW unit,
         Front(w, z), Len(v) = Len(w) + n,
         \A i \in 1..Len(w) : v[i] = w[i],
         \A i \in Len(w) + 1 .. Len(w) + n : v[i] = unit,
         \A j \in 1..n : Numbered(unit, c + j)
  PROVE  Front(v, z) /\ (Rest(w, z, r, c) => Rest(v, z, r, c + n))
<1>1. Len(w) \in Nat /\ Len(v) \in Nat /\ z <= Len(w)
  BY DEF Front
<1>2. Front(v, z)
  <2>1. z \in 0..Len(v)
    BY <1>1
  <2>2. ASSUME NEW i \in 1..z PROVE v[i] = 0
    <3>1. i \in 1..Len(w)
      BY <1>1
    <3> QED
      BY <3>1 DEF Front
  <2> QED
    BY <2>1, <2>2 DEF Front
<1>3. ASSUME Rest(w, z, r, c) PROVE Rest(v, z, r, c + n)
  <2>0. c = r + Len(w) - z
    BY <1>3 DEF Rest
  <2>1. c + n = r + Len(v) - z
    BY <1>1, <2>0
  <2>2. ASSUME NEW i \in z + 1 .. Len(v) PROVE Numbered(v[i], r + i - z)
    <3>1. CASE i <= Len(w)
      <4>1. i \in 1..Len(w) /\ i \in z + 1 .. Len(w)
        BY <1>1, <3>1
      <4> QED
        BY <1>3, <4>1 DEF Rest
    <3>2. CASE ~(i <= Len(w))
      <4>1. i \in Len(w) + 1 .. Len(w) + n /\ i - Len(w) \in 1..n
        BY <1>1, <3>2
      <4>2. c + (i - Len(w)) = r + i - z
        BY <1>1, <2>0
      <4>3. v[i] = unit /\ Numbered(unit, c + (i - Len(w)))
        BY <4>1
      <4> QED
        BY <4>2, <4>3
    <3> QED
      BY <3>1, <3>2
  <2> QED
    BY <2>1, <2>2 DEF Rest
<1> QED
  BY <1>2, <1>3

\* The unit that ends a record is of that record.
LEMMA EndNumbered ==
  ASSUME NEW v \in Nat, NEW k \in Nat, Numbered(v, RecordUnits * (k + 1))
  PROVE  v = k + 1
<1>1. RecordUnits \in Nat /\ RecordUnits > 0
  BY TlsAssumption DEF TlsAssumption
<1>2. RecordUnits * (v - 1) < RecordUnits * (k + 1) /\ RecordUnits * (k + 1) <= RecordUnits * v
  BY DEF Numbered
<1>3. ASSUME NEW a \in Int, NEW b \in Int, a <= b PROVE RecordUnits * a <= RecordUnits * b
  <2>1. RecordUnits * b = RecordUnits * a + RecordUnits * (b - a)
    BY <1>1
  <2>2. RecordUnits * (b - a) >= 0
    BY <1>1, <1>3
  <2> QED
    BY <1>1, <2>1, <2>2
<1>4. ~(k + 1 <= v - 1)
  <2> SUFFICES ASSUME k + 1 <= v - 1 PROVE FALSE
    OBVIOUS
  <2>1. RecordUnits * (k + 1) <= RecordUnits * (v - 1)
    BY <1>3
  <2> QED
    BY <1>1, <1>2, <2>1
<1>5. ~(v + 1 <= k + 1)
  <2> SUFFICES ASSUME v + 1 <= k + 1 PROVE FALSE
    OBVIOUS
  <2>1. RecordUnits * (v + 1) <= RecordUnits * (k + 1)
    BY <1>3
  <2>2. RecordUnits * (v + 1) = RecordUnits * v + RecordUnits
    BY <1>1
  <2> QED
    BY <1>1, <1>2, <2>1, <2>2
<1> QED
  BY <1>4, <1>5

-------------------------------------------------------------------------------
(* The handshake and the records. *)

Stream == Shaking /\ Streaming /\ Ordered

\* What the streams depend on, of one end.
Still(x) ==
  /\ ssl'[x].flight = ssl[x].flight /\ ssl'[x].out = ssl[x].out /\ ssl'[x].in = ssl[x].in
  /\ user'[x].got = user[x].got /\ user'[x].failed = user[x].failed

LEMMA StillMeans ==
  ASSUME flights' = flights, \A x \in Ends : Still(x), NEW p \in Ends
  PROVE  /\ Finished(p)' = Finished(p) /\ Zeros(p)' = Zeros(p) /\ Reached(p)' = Reached(p)
<1>1. Still(p) /\ Still(Peer(p)) /\ Finished(p)' = Finished(p)
  BY EndsAre DEF Still, Finished
<1> QED
  BY <1>1 DEF Still, Zeros, Reached

LEMMA ShakingStill ==
  ASSUME Shaking, flights' = flights, \A x \in Ends : Still(x),
         \A x \in Ends : ~Finished(Peer(x)) => wire'[x] = wire[x]
  PROVE  Shaking'
<1>1. CASE Exchanged
  BY <1>1 DEF Shaking, Exchanged, Still
<1>2. CASE \E s \in Ends : Exchange(s, Peer(s), ssl[Peer(s)].flight)
  <2>1. PICK s \in Ends : Exchange(s, Peer(s), ssl[Peer(s)].flight)
    BY <1>2
  <2>2. Peer(s) \in Ends /\ Peer(Peer(s)) = s
    BY EndsAre
  <2>3. ~Finished(Peer(s))
    <3>1. ssl[Peer(s)].flight \in 1..Len(flights)
      BY <2>1 DEF Exchange
    <3> QED
      BY <3>1 DEF Finished
  <2>4. wire'[s] = <<>>
    BY <2>1, <2>2, <2>3 DEF Exchange
  <2>5. Exchange(s, Peer(s), ssl[Peer(s)].flight)'
    BY <2>1, <2>2, <2>4 DEF Exchange, Still
  <2> QED
    BY <2>5 DEF Shaking
<1> QED
  BY <1>1, <1>2 DEF Shaking

\* A step that moves no units.
LEMMA QuietStream ==
  ASSUME Stream, flights' = flights, wire' = wire, \A x \in Ends : Still(x),
         \A x \in Ends : user[x].failed => pc'[x] = "failed",
         \A x \in Ends : Counted(x)' = Counted(x)
  PROVE  Stream'
<1>1. Shaking'
  BY ShakingStill DEF Stream
<1>2. Streaming'
  <2> SUFFICES ASSUME NEW p \in Ends
               PROVE  /\ Front(wire[p], Zeros(p)')
                      /\ Len(wire[p]) > Zeros(p)' => Finished(Peer(p))'
                      /\ Finished(p)' => ssl'[p].in < RecordUnits
                      /\ user'[p].failed => pc'[p] = "failed"
                      /\ ~user'[p].failed => Rest(wire[p], Zeros(p)', Reached(p)', Counted(Peer(p))')
    BY DEF Streaming, Front, Rest, Numbered
  <2>1. /\ Zeros(p)' = Zeros(p) /\ Reached(p)' = Reached(p)
        /\ Finished(p)' = Finished(p) /\ Finished(Peer(p))' = Finished(Peer(p))
        /\ Counted(Peer(p))' = Counted(Peer(p))
    BY StillMeans, EndsAre
  <2>2. ssl'[p].in = ssl[p].in /\ user'[p].failed = user[p].failed
    BY DEF Still
  <2> QED
    BY <2>1, <2>2 DEF Stream, Streaming
<1>3. Ordered'
  BY DEF Stream, Ordered, Still
<1> QED
  BY <1>1, <1>2, <1>3 DEF Stream

\* Records are counted as long as the socket and the user count them the same.
LEMMA CountedSame ==
  ASSUME NEW x \in Ends, ssl'[x].record = ssl[x].record,
         user'[x].sent + sock'[x].sent = user[x].sent + sock[x].sent
  PROVE  Counted(x)' = Counted(x)
BY DEF Counted

\* Numbers of one who writes a record.
LEMMA CountedMeans ==
  ASSUME Types, NEW e \in Ends
  PROVE  /\ Counted(e) = RecordUnits * (user[e].sent + sock[e].sent) + RecordUnits - Left(e)
         /\ Counted(e) \in Nat
         /\ \A j \in 1..Left(e) : Numbered(Current(e), Counted(e) + j)
<1> DEFINE s == user[e].sent + sock[e].sent
           w == RecordUnits * s
<1>1. RecordUnits \in Nat /\ Left(e) \in 1..RecordUnits /\ s \in Nat /\ Current(e) = s + 1
  BY LeftMeans
<1>2. ssl[e].record \in 0..RecordUnits
  BY SockIs DEF Ssls
<1> HIDE DEF s
<1>3. w \in Nat /\ RecordUnits * (s + 1) = w + RecordUnits
  BY <1>1
<1>4. Counted(e) = w + IF ssl[e].record > 0 THEN RecordUnits - ssl[e].record ELSE 0
  BY DEF Counted, s
<1> HIDE DEF w
<1>5. Counted(e) = w + RecordUnits - Left(e)
  BY <1>1, <1>2, <1>3, <1>4 DEF Left
<1>6. Counted(e) \in Nat
  BY <1>1, <1>3, <1>5
<1>7. ASSUME NEW j \in 1..Left(e) PROVE Numbered(Current(e), Counted(e) + j)
  <2>1. Current(e) - 1 = s
    BY <1>1
  <2>2. w < Counted(e) + j /\ Counted(e) + j <= w + RecordUnits
    BY <1>1, <1>3, <1>5
  <2> QED
    BY <1>1, <1>3, <2>1, <2>2 DEF Numbered, w
<1> QED
  BY <1>5, <1>6, <1>7 DEF s, w

LEMMA WaitsStream ==
  ASSUME Types, Stream, NEW e \in Ends, Waits(e)
  PROVE  Stream'
<1>1. PICK l \in {"ssl", "error", "return"}, t \in Socks :
        /\ Running(e, l, t) /\ t.sent = sock[e].sent
        /\ wire' = wire /\ ssl' = ssl /\ user' = user
  BY DEF Waits
<1>2. \A x \in Ends : sock'[x].sent = sock[x].sent
  BY <1>1 DEF Running, Moves
<1>3. \A x \in Ends : Still(x) /\ Counted(x)' = Counted(x)
  BY <1>1, <1>2 DEF Still, Counted
<1>4. \A x \in Ends : user[x].failed => pc'[x] = "failed"
  <2>1. ~user[e].failed
    BY <1>1 DEF Running, Stream, Streaming
  <2> QED
    BY <1>1, <2>1 DEF Running, Moves, Stream, Streaming
<1>5. flights' = flights
  BY <1>1 DEF Running
<1> QED
  BY <1>1, <1>3, <1>4, <1>5, QuietStream

LEMMA StartsStream ==
  ASSUME Types, Stream, NEW e \in Ends, Starts(e)
  PROVE  Stream'
<1>1. PICK l \in {"ssl", "entry"}, t \in Socks :
        Starting(e, l, t) /\ SameUsers /\ sock[e].sent = 0
  BY DEF Starts
<1>2. \A x \in Ends : sock'[x].sent = sock[x].sent
  BY <1>1 DEF Starting, Moves
<1>3. \A x \in Ends : Still(x) /\ Counted(x)' = Counted(x)
  BY <1>1, <1>2 DEF Still, Counted, Starting, SameUsers
<1>4. \A x \in Ends : user[x].failed => pc'[x] = "failed"
  <2>1. ~user[e].failed
    BY <1>1 DEF Starting, Stream, Streaming
  <2> QED
    BY <1>1, <2>1 DEF Starting, Moves, Stream, Streaming
<1>5. flights' = flights /\ wire' = wire
  BY <1>1 DEF Starting
<1> QED
  BY <1>3, <1>4, <1>5, QuietStream

LEMMA ReturnsStream ==
  ASSUME Types, Stream, NEW e \in Ends, Returns(e)
  PROVE  Stream'
<1>1. PICK t \in Socks :
        /\ pc[e] = "return" /\ Moves(e, "idle", t) /\ t.sent = 0
        /\ flights' = flights /\ ssl' = ssl /\ wire' = wire
        /\ \A x \in Ends : x # e => user'[x] = user[x]
        /\ user'[e].sent = user[e].sent + sock[e].sent
        /\ user'[e].got = user[e].got /\ user'[e].failed = user[e].failed
  BY DEF Returns
<1>2. \A x \in Ends : user'[x].sent + sock'[x].sent = user[x].sent + sock[x].sent
  <2>1. user[e].sent \in Nat /\ sock[e].sent \in Nat
    BY SockIs DEF Users, Socks
  <2>2. user'[e].sent + sock'[e].sent = user[e].sent + sock[e].sent
    BY <1>1, <2>1 DEF Moves
  <2> QED
    BY <1>1, <2>2 DEF Moves
<1>3. \A x \in Ends : Still(x) /\ Counted(x)' = Counted(x)
  BY <1>1, <1>2, CountedSame DEF Still
<1>4. \A x \in Ends : user[x].failed => pc'[x] = "failed"
  <2>1. ~user[e].failed
    BY <1>1 DEF Stream, Streaming
  <2> QED
    BY <1>1, <2>1 DEF Moves, Stream, Streaming
<1> QED
  BY <1>1, <1>3, <1>4, QuietStream

LEMMA DrivesStream ==
  ASSUME Types, Stream, NEW e \in Ends, Drives(e)
  PROVE  Stream'
<1>1. \A x \in Ends : Still(x) /\ Counted(x)' = Counted(x)
  BY DEF Still, Counted, Drives, SameUsers
<1>2. \A x \in Ends : user[x].failed => pc'[x] = "failed"
  <2>1. ~user[e].failed
    BY DEF Drives, Stream, Streaming
  <2> QED
    BY <2>1 DEF Drives, Stream, Streaming
<1>3. flights' = flights /\ wire' = wire
  BY DEF Drives
<1> QED
  BY <1>1, <1>2, <1>3, QuietStream

LEMMA ReachedMeans ==
  ASSUME Types, NEW p \in Ends
  PROVE  /\ Reached(p) \in Nat /\ wire[p] \in Seq(Nat) /\ Len(wire[p]) \in Nat
         /\ Reached(p) = RecordUnits * Len(user[p].got) + IF Finished(p) THEN ssl[p].in ELSE 0
         /\ RecordUnits * Len(user[p].got) \in Nat /\ ssl[p].in \in Nat
         /\ ssl[p].out \in Nat /\ ssl[p].flight \in Nat
         /\ Finished(p) <=> ssl[p].flight > Len(flights) /\ ssl[p].out = 0
<1>1. RecordUnits \in Nat /\ user[p] \in Users /\ ssl[p] \in Ssls /\ wire[p] \in Seq(Nat)
  BY SockIs, LeftMeans DEF Types
<1>2. Len(user[p].got) \in Nat /\ ssl[p].in \in Nat /\ ssl[p].out \in Nat /\ ssl[p].flight \in Nat
  BY <1>1 DEF Users, Ssls
<1> DEFINE w == RecordUnits * Len(user[p].got)
<1>3. w \in Nat
  BY <1>1, <1>2
<1>4. Reached(p) = w + IF Finished(p) THEN ssl[p].in ELSE 0
  BY DEF Reached
<1>5. Finished(p) <=> ssl[p].flight > Len(flights) /\ ssl[p].out = 0
  BY DEF Finished
<1>6. Len(wire[p]) \in Nat
  BY <1>1
<1> HIDE DEF w
<1>7. Reached(p) \in Nat
  BY <1>2, <1>3, <1>4
<1> QED
  BY <1>1, <1>2, <1>3, <1>4, <1>5, <1>6, <1>7 DEF w

\* Each unit that is written is counted.
LEMMA WritesCounted ==
  ASSUME Types, NEW e \in Ends, NEW l, NEW t, NEW n \in 0..Left(e), Moves(e, l, t),
         t.sent = IF n = Left(e) THEN sock[e].sent + 1 ELSE sock[e].sent,
         ssl' = [ssl EXCEPT ![e].record = Left(e) - n], user' = user
  PROVE  Counted(e)' = Counted(e) + n
<1> DEFINE s == user[e].sent + sock[e].sent
           w == RecordUnits * s
           left == Left(e)
           record == ssl'[e].record
<1>1. RecordUnits \in Nat /\ left \in 1..RecordUnits /\ s \in Nat
      /\ user[e].sent \in Nat /\ sock[e].sent \in Nat
  BY LeftMeans
<1>2. Counted(e) = w + RecordUnits - left
  BY CountedMeans
<1>3. record = left - n
  BY DEF Types
<1>4. user'[e].sent + sock'[e].sent = IF n = left THEN s + 1 ELSE s
  BY <1>1 DEF Moves
<1>5. Counted(e)' = RecordUnits * (user'[e].sent + sock'[e].sent)
                      + IF record > 0 THEN RecordUnits - record ELSE 0
  BY DEF Counted
<1> HIDE DEF s, left, record
<1>6. w \in Nat /\ RecordUnits * (s + 1) = w + RecordUnits
  BY <1>1
<1>7. n \in 0..left
  BY DEF left
<1>8. CASE n = left
  <2>1. RecordUnits * (user'[e].sent + sock'[e].sent) = w + RecordUnits /\ record = 0
    BY <1>1, <1>3, <1>4, <1>6, <1>8
  <2> HIDE DEF w
  <2> QED
    BY <1>1, <1>2, <1>5, <1>6, <1>8, <2>1
<1>9. CASE n # left
  <2>1. RecordUnits * (user'[e].sent + sock'[e].sent) = w /\ record > 0
    BY <1>1, <1>3, <1>4, <1>7, <1>9
  <2> HIDE DEF w
  <2> QED
    BY <1>1, <1>2, <1>3, <1>5, <1>6, <1>7, <1>9, <2>1
<1> QED
  BY <1>8, <1>9

LEMMA WritesStream ==
  ASSUME Types, Types', Stream, NEW e \in Ends, Writes(e)
  PROVE  Stream'
<1> DEFINE h == Peer(e)
<1>0. h \in Ends /\ h # e /\ Peer(h) = e /\ \A x \in Ends : x = e \/ x = h
  BY EndsAre
<1>1. PICK l \in {"ssl", "error", "return"}, t \in Socks, n \in 0..Left(e) :
        /\ Finished(e) /\ sock[e].op = "send"
        /\ Running(e, l, t)
        /\ t.sent = IF n = Left(e) THEN sock[e].sent + 1 ELSE sock[e].sent
        /\ IF n = 0 THEN wire' = wire ELSE ~t.isWritable /\ Wrote(e, n, Current(e))
        /\ ssl' = [ssl EXCEPT ![e].record = Left(e) - n]
        /\ user' = user
  BY DEF Writes
<1>2. Moves(e, l, t) /\ flights' = flights /\ pc[e] # "failed"
  BY <1>1 DEF Running
<1>3. Counted(e)' = Counted(e) + n
  BY <1>1, <1>2, WritesCounted
<1>4. \A x \in Ends : Still(x)
  BY <1>1 DEF Still, Types
<1>5. Counted(h)' = Counted(h)
  BY <1>0, <1>1, <1>2 DEF Counted, Moves
<1>6. \A x \in Ends : user[x].failed => pc'[x] = "failed"
  <2>1. ~user[e].failed
    BY <1>2 DEF Stream, Streaming
  <2> QED
    BY <1>2, <2>1 DEF Moves, Stream, Streaming
<1>7. CASE n = 0
  <2>1. Counted(e)' = Counted(e)
    BY <1>3, <1>7, CountedMeans
  <2>2. \A x \in Ends : Counted(x)' = Counted(x)
    BY <1>0, <1>5, <2>1
  <2> QED
    BY <1>1, <1>2, <1>4, <1>6, <1>7, <2>2, QuietStream
<1>8. CASE n # 0
  <2>1. Wrote(e, n, Current(e))
    BY <1>1, <1>8
  <2>2. /\ wire'[e] = wire[e] /\ Len(wire'[h]) = Len(wire[h]) + n
        /\ \A i \in 1..Len(wire[h]) : wire'[h][i] = wire[h][i]
        /\ \A i \in Len(wire[h]) + 1 .. Len(wire[h]) + n : wire'[h][i] = Current(e)
    BY <2>1 DEF Wrote
  <2> HIDE DEF h
  <2>3. \A p \in Ends : /\ Finished(p)' = Finished(p) /\ Zeros(p)' = Zeros(p)
                        /\ Reached(p)' = Reached(p)
    BY <1>2, <1>4, StillMeans
  <2>4. Shaking'
    <3>1. \A x \in Ends : ~Finished(Peer(x)) => wire'[x] = wire[x]
      BY <1>0, <1>1, <2>2
    <3> QED
      BY <1>2, <1>4, <3>1, ShakingStill DEF Stream
  <2>5. Ordered'
    BY <1>4 DEF Stream, Ordered, Still
  <2>6. Streaming'
    <3> SUFFICES ASSUME NEW p \in Ends
                 PROVE  /\ Front(wire'[p], Zeros(p)')
                        /\ Len(wire'[p]) > Zeros(p)' => Finished(Peer(p))'
                        /\ Finished(p)' => ssl'[p].in < RecordUnits
                        /\ user'[p].failed => pc'[p] = "failed"
                        /\ ~user'[p].failed =>
                             Rest(wire'[p], Zeros(p)', Reached(p)', Counted(Peer(p))')
      BY DEF Streaming, Front, Rest, Numbered
    <3>1. /\ Front(wire[p], Zeros(p))
          /\ Len(wire[p]) > Zeros(p) => Finished(Peer(p))
          /\ Finished(p) => ssl[p].in < RecordUnits
          /\ ~user[p].failed => Rest(wire[p], Zeros(p), Reached(p), Counted(Peer(p)))
      BY DEF Stream, Streaming
    <3>2. /\ Finished(p)' => ssl'[p].in < RecordUnits
          /\ user'[p].failed => pc'[p] = "failed"
          /\ user'[p].failed = user[p].failed
      BY <1>1, <1>4, <1>6, <2>3, <3>1 DEF Still
    <3>3. CASE p = e
      BY <1>0, <1>5, <2>2, <2>3, <3>1, <3>2, <3>3 DEF h
    <3>4. CASE p = h
      <4>1. Finished(Peer(p))'
        BY <1>0, <1>1, <2>3, <3>4
      <4>2. /\ wire[h] \in Seq(Nat) /\ wire'[h] \in Seq(Nat) /\ Reached(h) \in Nat
            /\ Zeros(h) \in Nat /\ n \in Nat /\ Counted(e) \in Nat
        <5>1. Zeros(h) \in Nat
          BY <1>0, <3>1, <3>4, ReachedMeans DEF Front
        <5>2. n \in Nat
          BY LeftMeans
        <5> QED
          BY <1>0, <5>1, <5>2, ReachedMeans, CountedMeans DEF Types
      <4>3. \A j \in 1..n : Numbered(Current(e), Counted(e) + j)
        <5>1. \A j \in 1..n : j \in 1..Left(e)
          BY LeftMeans
        <5> QED
          BY <5>1, CountedMeans
      <4>4. /\ Front(wire'[h], Zeros(h))
            /\ Rest(wire[h], Zeros(h), Reached(h), Counted(e)) =>
                 Rest(wire'[h], Zeros(h), Reached(h), Counted(e) + n)
        BY <2>2, <3>1, <3>4, <4>2, <4>3, RecordWritten
      <4> QED
        BY <1>0, <1>3, <2>3, <3>1, <3>2, <3>4, <4>1, <4>4
    <3> QED
      BY <1>0, <3>3, <3>4
  <2> QED
    BY <2>4, <2>5, <2>6 DEF Stream
<1> QED
  BY <1>7, <1>8

\* Whose flight is written is the one that speaks.
LEMMA Speaks ==
  ASSUME Types, Shaking, NEW e \in Ends, ssl[e].out > 0
  PROVE  Exchange(e, Peer(e), ssl[Peer(e)].flight)
<1>1. ~Exchanged
  BY DEF Exchanged
<1>2. PICK s \in Ends : Exchange(s, Peer(s), ssl[Peer(s)].flight)
  BY <1>1 DEF Shaking
<1>3. e # Peer(s)
  BY <1>2 DEF Exchange
<1>4. e = s
  BY <1>3, EndsAre
<1> QED
  BY <1>2, <1>4

\* Who has a flight to hear, and something to read, is the other one.
LEMMA Listens ==
  ASSUME Types, Shaking, NEW e \in Ends, wire[e] # <<>>
  PROVE  Exchanged \/ Exchange(Peer(e), e, ssl[e].flight)
<1> SUFFICES ASSUME ~Exchanged PROVE Exchange(Peer(e), e, ssl[e].flight)
  OBVIOUS
<1>1. PICK s \in Ends : Exchange(s, Peer(s), ssl[Peer(s)].flight)
  BY DEF Shaking
<1>2. e # s
  BY <1>1 DEF Exchange
<1>3. s = Peer(e) /\ Peer(s) = e
  BY <1>2, EndsAre
<1> QED
  BY <1>1, <1>3

\* What there is to hear, whoever hears it.
LEMMA Hearing ==
  ASSUME Types, Shaking, NEW e \in Ends
  PROVE  /\ ssl[e].flight > 0
         /\ ssl[e].flight <= Len(flights) => ssl[e].in <= flights[ssl[e].flight]
<1>1. /\ Len(flights) \in Nat /\ Len(flights) > 1
      /\ \A f \in 1..Len(flights) : flights[f] \in Nat /\ flights[f] > 0
  BY FlightsAre
<1>2. CASE Exchanged
  <2>1. ssl[e].flight = Len(flights) + 1
    BY <1>2 DEF Exchanged
  <2> QED
    BY <1>1, <2>1
<1>3. CASE \E s \in Ends : Exchange(s, Peer(s), ssl[Peer(s)].flight)
  <2>1. PICK s \in Ends : Exchange(s, Peer(s), ssl[Peer(s)].flight)
    BY <1>3
  <2>2. e = s \/ e = Peer(s)
    BY EndsAre
  <2> DEFINE f == ssl[Peer(s)].flight
  <2>3. /\ f \in 1..Len(flights) /\ ssl[s].flight = f + 1 /\ ssl[s].in = 0
        /\ ssl[Peer(s)].in < flights[f]
    BY <2>1 DEF Exchange
  <2>4. CASE e = s
    <3>1. ssl[e].flight = f + 1 /\ ssl[e].in = 0
      BY <2>3, <2>4
    <3> HIDE DEF f
    <3>2. f + 1 <= Len(flights) => f + 1 \in 1..Len(flights)
      BY <1>1, <2>3
    <3>3. f + 1 <= Len(flights) => 0 <= flights[f + 1]
      BY <1>1, <3>2
    <3>4. f + 1 > 0
      BY <1>1, <2>3
    <3> QED
      BY <3>1, <3>3, <3>4
  <2>5. CASE e = Peer(s)
    <3>1. ssl[e].flight = f /\ ssl[e].in < flights[f]
      BY <2>3, <2>5
    <3>2. ssl[e].in \in Nat /\ flights[f] \in Nat
      BY <1>1, <2>3, ReachedMeans
    <3> HIDE DEF f
    <3>3. f > 0 /\ ssl[e].in <= flights[f]
      BY <1>1, <2>3, <3>1, <3>2
    <3> QED
      BY <3>1, <3>3
  <2> QED
    BY <2>2, <2>4, <2>5
<1> QED
  BY <1>2, <1>3 DEF Shaking

LEMMA MoreWritten ==
  ASSUME NEW size \in Nat, NEW in \in Nat, NEW out \in Nat, NEW n \in Nat
  PROVE  size - in - (out - n) = (size - in - out) + n
OBVIOUS

LEMMA FlushesStream ==
  ASSUME Types, Types', Stream, NEW e \in Ends, Flushes(e)
  PROVE  Stream'
<1> DEFINE h == Peer(e)
           f == ssl[h].flight
<1>0. h \in Ends /\ h # e /\ Peer(h) = e /\ \A x \in Ends : x = e \/ x = h
  BY EndsAre
<1>1. PICK t \in Socks, n \in 1..ssl[e].out :
        /\ Running(e, "ssl", t) /\ t.sent = sock[e].sent /\ ~t.isWritable
        /\ Wrote(e, n, 0)
        /\ ssl' = [ssl EXCEPT ![e].out = @ - n]
        /\ user' = user
  BY DEF Flushes
<1>2. Moves(e, "ssl", t) /\ flights' = flights /\ pc[e] # "failed"
  BY <1>1 DEF Running
<1>3. /\ n \in Nat /\ n > 0 /\ n <= ssl[e].out /\ ssl[e].out > 0
      /\ ssl[e].out \in Nat /\ ssl[h].in \in Nat
  BY <1>0, ReachedMeans
<1>4. Exchange(e, h, f)
  BY <1>3, Speaks DEF Stream
<1>5. /\ f \in 1..Len(flights) /\ ssl[e].flight = f + 1
      /\ ssl[h].out = 0 /\ ssl[e].in = 0 /\ wire[e] = <<>>
      /\ ssl[e].out + ssl[h].in <= flights[f] /\ ssl[h].in < flights[f]
      /\ flights[f] \in Nat
  BY <1>4, FlightsAre DEF Exchange
<1>6. /\ ssl'[h] = ssl[h] /\ ssl'[e].flight = ssl[e].flight /\ ssl'[e].in = ssl[e].in
      /\ ssl'[e].out = ssl[e].out - n /\ ssl'[e].record = ssl[e].record
  BY <1>0, <1>1 DEF Types
<1>7. /\ wire'[e] = wire[e] /\ Len(wire'[h]) = Len(wire[h]) + n
      /\ \A i \in 1..Len(wire[h]) : wire'[h][i] = wire[h][i]
      /\ \A i \in Len(wire[h]) + 1 .. Len(wire[h]) + n : wire'[h][i] = 0
  BY <1>1 DEF Wrote
<1>8. /\ Zeros(h) = flights[f] - ssl[h].in - ssl[e].out
      /\ Zeros(h)' = flights[f] - ssl[h].in - (ssl[e].out - n)
      /\ Zeros(e) = 0 /\ Zeros(e)' = 0
  <2>1. f < f + 1 /\ ~(f + 1 < f)
    BY <1>5
  <2> QED
    BY <1>0, <1>2, <1>5, <1>6, <2>1 DEF Zeros
<1>9. Shaking'
  <2>1. Exchange(e, h, f)'
    <3>1. (ssl[e].out - n) + ssl[h].in <= flights[f]
      BY <1>3, <1>5
    <3> QED
      BY <1>2, <1>5, <1>6, <1>7, <3>1 DEF Exchange
  <2> QED
    BY <2>1 DEF Shaking
<1>10. Ordered'
  BY <1>1 DEF Stream, Ordered
<1>11. /\ Counted(e)' = Counted(e) /\ Counted(h)' = Counted(h)
       /\ user' = user
  <2>1. sock'[e].sent = sock[e].sent /\ sock'[h].sent = sock[h].sent
    BY <1>0, <1>1, <1>2 DEF Moves
  <2> QED
    BY <1>1, <1>6, <2>1 DEF Counted
<1>12. /\ Finished(h)' = Finished(h) /\ ~Finished(h) /\ ~Finished(e)
       /\ Reached(h)' = Reached(h) /\ Reached(e)' = Reached(e)
  <2>1. Finished(h)' = Finished(h)
    BY <1>2, <1>6 DEF Finished
  <2>2. ~Finished(h) /\ ~Finished(e)
    BY <1>3, <1>5 DEF Finished
  <2>3. Reached(h)' = Reached(h)
    BY <1>1, <1>6, <2>1 DEF Reached
  <2>4. Reached(e)' = Reached(e)
    BY <1>1, <1>5, <1>6 DEF Reached
  <2> QED
    BY <2>1, <2>2, <2>3, <2>4
<1>13. ~user[e].failed /\ \A x \in Ends : user[x].failed => pc'[x] = "failed"
  <2>1. ~user[e].failed
    BY <1>2 DEF Stream, Streaming
  <2> QED
    BY <1>2, <2>1 DEF Moves, Stream, Streaming
<1> HIDE DEF h, f
<1>14. Streaming'
  <2> SUFFICES ASSUME NEW p \in Ends
               PROVE  /\ Front(wire'[p], Zeros(p)')
                      /\ Len(wire'[p]) > Zeros(p)' => Finished(Peer(p))'
                      /\ Finished(p)' => ssl'[p].in < RecordUnits
                      /\ user'[p].failed => pc'[p] = "failed"
                      /\ ~user'[p].failed =>
                           Rest(wire'[p], Zeros(p)', Reached(p)', Counted(Peer(p))')
    BY DEF Streaming, Front, Rest, Numbered
  <2>1. /\ Front(wire[p], Zeros(p))
        /\ Len(wire[p]) > Zeros(p) => Finished(Peer(p))
        /\ Finished(p) => ssl[p].in < RecordUnits
        /\ ~user[p].failed => Rest(wire[p], Zeros(p), Reached(p), Counted(Peer(p)))
    BY DEF Stream, Streaming
  <2>2. user'[p].failed => pc'[p] = "failed"
    BY <1>11, <1>13
  <2>3. CASE p = e
    <3>1. Len(wire'[e]) = 0 /\ ssl'[e].in < RecordUnits
      BY <1>5, <1>6, <1>7, LeftMeans
    <3> QED
      BY <1>0, <1>7, <1>8, <1>11, <1>12, <2>1, <2>2, <2>3, <3>1 DEF h
  <2>4. CASE p = h
    <3>1. /\ wire[h] \in Seq(Nat) /\ wire'[h] \in Seq(Nat) /\ Reached(h) \in Nat
          /\ Len(wire[h]) \in Nat
      BY <1>0, ReachedMeans DEF Types
    <3>2. Len(wire[h]) = Zeros(h)
      <4>1. ~(Len(wire[h]) > Zeros(h)) /\ Zeros(h) \in 0..Len(wire[h])
        BY <1>0, <1>12, <2>1, <2>4 DEF Front
      <4> QED
        BY <3>1, <4>1
    <3>3. Zeros(h)' = Len(wire[h]) + n
      <4>1. flights[f] - ssl[h].in - (ssl[e].out - n) = (flights[f] - ssl[h].in - ssl[e].out) + n
        BY <1>3, <1>5, MoreWritten
      <4> QED
        BY <1>8, <3>2, <4>1
    <3>4. /\ Front(wire'[h], Len(wire[h]) + n)
          /\ Rest(wire[h], Len(wire[h]), Reached(h), Counted(e)) =>
               Rest(wire'[h], Len(wire[h]) + n, Reached(h), Counted(e))
      BY <1>3, <1>7, <2>1, <2>4, <3>1, <3>2, FlightWritten
    <3>5. ~(Len(wire'[h]) > Zeros(h)')
      BY <1>3, <1>7, <3>1, <3>3
    <3> QED
      BY <1>0, <1>11, <1>12, <2>1, <2>2, <2>4, <3>2, <3>3, <3>4, <3>5
  <2> QED
    BY <1>0, <2>3, <2>4
<1> QED
  BY <1>9, <1>10, <1>14 DEF Stream

\* The step of the engine when a part of a flight was read, or the rest of it.
HeardPart(e, n) ==
  /\ ssl'[e].flight = ssl[e].flight /\ ssl'[e].out = ssl[e].out /\ ssl'[e].in = ssl[e].in + n
  /\ n # flights[ssl[e].flight] - ssl[e].in

HeardLast(e, n) ==
  /\ ssl'[e].flight = ssl[e].flight + 1 /\ ssl'[e].out = ssl[e].out /\ ssl'[e].in = 0
  /\ n = flights[ssl[e].flight] - ssl[e].in /\ ssl[e].flight + 1 > Len(flights)

HeardNext(e, n) ==
  /\ ssl'[e].flight = ssl[e].flight + 2 /\ ssl'[e].out = flights[ssl[e].flight + 1]
  /\ ssl'[e].in = 0
  /\ n = flights[ssl[e].flight] - ssl[e].in /\ ~(ssl[e].flight + 1 > Len(flights))

LEMMA HeardMeans ==
  ASSUME Types, NEW e \in Ends, NEW n \in Nat,
         ssl' = [ssl EXCEPT ![e] = IF n = flights[ssl[e].flight] - ssl[e].in
                                     THEN Heard(ssl[e])
                                     ELSE [ssl[e] EXCEPT !.in = @ + n]]
  PROVE  /\ HeardPart(e, n) \/ HeardLast(e, n) \/ HeardNext(e, n)
         /\ ssl'[e].record = ssl[e].record
         /\ \A x \in Ends : x # e => ssl'[x] = ssl[x]
<1>1. ssl[e] \in Ssls /\ ssl[e].flight \in Nat
  BY SockIs DEF Ssls
<1>2. ssl'[e] = IF n = flights[ssl[e].flight] - ssl[e].in
                  THEN Heard(ssl[e]) ELSE [ssl[e] EXCEPT !.in = @ + n]
  BY DEF Types
<1>3. \A x \in Ends : x # e => ssl'[x] = ssl[x]
  BY DEF Types
<1>4. CASE n # flights[ssl[e].flight] - ssl[e].in
  <2>1. ssl'[e] = [ssl[e] EXCEPT !.in = @ + n]
    BY <1>2, <1>4
  <2>2. HeardPart(e, n) /\ ssl'[e].record = ssl[e].record
    BY <1>1, <1>4, <2>1 DEF Ssls, HeardPart
  <2> QED
    BY <1>3, <2>2
<1>5. CASE n = flights[ssl[e].flight] - ssl[e].in
  <2>1. ssl'[e] = Heard(ssl[e])
    BY <1>2, <1>5
  <2>2. CASE ssl[e].flight + 1 > Len(flights)
    <3>1. ssl'[e] = [ssl[e] EXCEPT !.in = 0, !.flight = ssl[e].flight + 1]
      BY <2>1, <2>2 DEF Heard
    <3>2. HeardLast(e, n) /\ ssl'[e].record = ssl[e].record
      BY <1>1, <1>5, <2>2, <3>1 DEF Ssls, HeardLast
    <3> QED
      BY <1>3, <3>2
  <2>3. CASE ~(ssl[e].flight + 1 > Len(flights))
    <3>1. ssl'[e] = [ssl[e] EXCEPT !.in = 0, !.flight = ssl[e].flight + 1 + 1,
                                   !.out = flights[ssl[e].flight + 1]]
      BY <2>1, <2>3 DEF Heard
    <3>2. ssl[e].flight + 1 + 1 = ssl[e].flight + 2
      BY <1>1
    <3> DEFINE after == ssl[e].flight + 2
               out == flights[ssl[e].flight + 1]
               old == ssl[e]
               new == ssl'[e]
    <3>3. new = [old EXCEPT !.in = 0, !.flight = after, !.out = out] /\ old \in Ssls
      BY <1>1, <3>1, <3>2
    <3>4. new.flight = after /\ new.out = out /\ new.in = 0 /\ new.record = old.record
      <4> HIDE DEF after, out, old, new
      <4> QED
        BY <3>3 DEF Ssls
    <3>5. HeardNext(e, n)
      BY <1>5, <2>3, <3>4 DEF HeardNext
    <3> QED
      BY <1>3, <3>4, <3>5
  <2> QED
    BY <2>2, <2>3
<1> QED
  BY <1>4, <1>5

LEMMA PartHeard ==
  ASSUME NEW size \in Nat, NEW in \in Nat, NEW out \in Nat, NEW n \in Nat,
         n <= size - in - out, n # size - in
  PROVE  out + (in + n) <= size /\ in + n < size
OBVIOUS

\* The handshake goes on, and the units that were read were of the flight.
LEMMA HearsShaking ==
  ASSUME Types, Stream, NEW e \in Ends, NEW n \in 1..Len(wire[e]),
         flights' = flights, HasRead(e, n),
         ssl[e].out = 0, ssl[e].flight <= Len(flights),
         n <= flights[ssl[e].flight] - ssl[e].in,
         HeardPart(e, n) \/ HeardLast(e, n) \/ HeardNext(e, n),
         \A x \in Ends : x # e => ssl'[x] = ssl[x]
  PROVE  /\ Shaking' /\ n \in 1..Zeros(e) /\ Zeros(e)' = Zeros(e) - n
         /\ Zeros(Peer(e)) = 0 /\ Zeros(Peer(e))' = 0
         /\ wire[Peer(e)] = <<>> /\ ssl[Peer(e)].in = 0
         /\ Len(wire[e]) - n > Zeros(e) - n => Finished(Peer(e))
         /\ ~Finished(e) /\ (Finished(e)' => ssl'[e].in = 0)
<1> DEFINE s == Peer(e)
           f == ssl[e].flight
           len == Len(flights)
           size == flights[f]
           out == ssl[s].out
           in == ssl[e].in
           w == Len(wire[e])
<1>0. s \in Ends /\ s # e /\ Peer(s) = e /\ \A x \in Ends : x = e \/ x = s
  BY EndsAre
<1>1. w \in Nat /\ n \in 1..w /\ in \in Nat /\ out \in Nat
  BY <1>0, ReachedMeans
<1>2. ~Exchanged /\ wire[e] # <<>>
  <2>1. wire[e] # <<>>
    BY <1>1, EmptySeq
  <2>2. f # len + 1
    BY FlightsAre
  <2> QED
    BY <2>1, <2>2 DEF Exchanged
<1>3. Exchange(s, e, f)
  BY <1>2, Listens DEF Stream
<1>4. /\ f \in 1..len /\ len \in Nat /\ ssl[s].flight = f + 1
      /\ ssl[s].in = 0 /\ wire[s] = <<>>
      /\ out + in <= size /\ in < size /\ size \in Nat
  BY <1>3, FlightsAre DEF Exchange
<1>5. wire'[s] = <<>> /\ Len(wire'[e]) = w - n /\ wire'[e] \in Seq(Nat)
  BY <1>0, <1>4 DEF HasRead
<1>6. Zeros(e) = size - in - out /\ Zeros(s) = 0
  <2>1. f < f + 1 /\ ~(f + 1 < f)
    BY <1>4
  <2> QED
    BY <1>0, <1>4, <2>1 DEF Zeros
<1>7. ssl'[s] = ssl[s]
  BY <1>0
<1>8. ~Finished(e)
  <2>1. ~(f > len)
    BY <1>4
  <2> QED
    BY <2>1 DEF Finished
<1>9. w > Zeros(e) => Finished(s)
  BY DEF Stream, Streaming
<1>10. Finished(s) => out = 0 /\ f = len
  <2>1. f + 1 > len => f = len
    BY <1>4
  <2> QED
    BY <1>4, <2>1 DEF Finished
<1>11. n <= size - in
  OBVIOUS
<1>12. n \in 1..Zeros(e)
  <2>1. CASE w > Zeros(e)
    <3>1. out = 0
      BY <1>9, <1>10, <2>1
    <3> HIDE DEF out, in, size, w
    <3> QED
      BY <1>1, <1>4, <1>6, <1>11, <3>1
  <2>2. CASE ~(w > Zeros(e))
    <3> HIDE DEF out, in, size, w
    <3> QED
      BY <1>1, <1>4, <1>6, <2>2
  <2> QED
    BY <2>1, <2>2
<1>13. w - n > Zeros(e) - n => Finished(s)
  <2> HIDE DEF out, in, size, w
  <2>1. w - n > Zeros(e) - n => w > Zeros(e)
    BY <1>1, <1>4, <1>6
  <2> QED
    BY <1>9, <2>1
<1>14. CASE HeardPart(e, n)
  <2>1. ssl'[e].flight = f /\ ssl'[e].out = 0 /\ ssl'[e].in = in + n /\ n # size - in
    BY <1>14 DEF HeardPart
  <2>2. Zeros(e)' = size - (in + n) - out /\ Zeros(s)' = 0
    <3>1. f < f + 1 /\ ~(f + 1 < f)
      BY <1>4
    <3> QED
      BY <1>0, <1>4, <1>7, <2>1, <3>1 DEF Zeros
  <2>3. out + (in + n) <= size /\ in + n < size
    <3>1. n \in Nat /\ n <= size - in - out
      BY <1>1, <1>6, <1>12
    <3> HIDE DEF out, in, size, w
    <3> QED
      BY <1>1, <1>4, <2>1, <3>1, PartHeard
  <2>4. Exchange(s, e, f)'
    BY <1>0, <1>4, <1>5, <1>7, <2>1, <2>3 DEF Exchange
  <2>5. Shaking'
    BY <1>0, <2>1, <2>4 DEF Shaking
  <2>6. Zeros(e)' = Zeros(e) - n
    <3> HIDE DEF out, in, size, w
    <3> QED
      BY <1>1, <1>4, <1>6, <2>2
  <2>7. ~Finished(e)'
    <3>1. ~(f > len)
      BY <1>4
    <3> QED
      BY <2>1, <3>1 DEF Finished
  <2> QED
    BY <1>4, <1>6, <1>8, <1>12, <1>13, <2>2, <2>5, <2>6, <2>7
<1>15. ASSUME n = size - in PROVE out = 0 /\ n = Zeros(e)
  <2> HIDE DEF out, in, size, w
  <2> QED
    BY <1>1, <1>4, <1>6, <1>12, <1>15
<1>16. CASE HeardLast(e, n)
  <2>1. /\ ssl'[e].flight = f + 1 /\ ssl'[e].out = 0 /\ ssl'[e].in = 0 /\ n = size - in
        /\ f + 1 > len
    BY <1>16 DEF HeardLast
  <2>2. f + 1 = len + 1
    BY <1>4, <2>1
  <2>3. Exchanged'
    BY <1>0, <1>4, <1>7, <1>15, <2>1, <2>2 DEF Exchanged
  <2>4. Zeros(e)' = 0 /\ Zeros(s)' = 0
    <3>1. ~(f + 1 < f + 1)
      BY <1>4
    <3> QED
      BY <1>0, <1>4, <1>7, <2>1, <3>1 DEF Zeros
  <2>5. Zeros(e) - n = 0
    BY <1>12, <1>15, <2>1
  <2> QED
    BY <1>4, <1>6, <1>8, <1>12, <1>13, <2>1, <2>3, <2>4, <2>5 DEF Shaking
<1>17. CASE HeardNext(e, n)
  <2>1. /\ ssl'[e].flight = f + 2 /\ ssl'[e].out = flights[f + 1] /\ ssl'[e].in = 0
        /\ n = size - in /\ ~(f + 1 > len)
    BY <1>17 DEF HeardNext
  <2>2. f + 1 \in 1..len /\ f + 2 = (f + 1) + 1
    BY <1>4, <2>1
  <2>3. flights[f + 1] \in Nat /\ flights[f + 1] > 0
    BY <2>2, FlightsAre
  <2>4. out = 0 /\ n = Zeros(e)
    BY <1>15, <2>1
  <2>5. w = n
    <3>1. f # len
      <4> HIDE DEF f, len
      <4> QED
        BY <1>4, <2>2
    <3>2. ~(w > Zeros(e))
      <4> HIDE DEF f, len, w, out
      <4> QED
        BY <1>9, <1>10, <3>1
    <3> HIDE DEF out, in, size, w
    <3> QED
      BY <1>1, <1>12, <2>4, <3>2
  <2>6. wire'[e] = <<>>
    <3>1. Len(wire'[e]) = 0
      BY <1>1, <1>5, <2>5
    <3> QED
      BY <1>5, <3>1, EmptySeq
  <2>8. Shaking'
    <3>1. ssl'[s].flight = f + 1
      BY <1>4, <1>7
    <3>2. /\ ssl'[s].flight \in 1..Len(flights') /\ ssl'[e].flight = ssl'[s].flight + 1
          /\ ssl'[s].out = 0 /\ ssl'[e].in = 0 /\ wire'[e] = <<>>
          /\ ssl'[e].out + ssl'[s].in <= flights'[ssl'[s].flight]
          /\ ssl'[s].in < flights'[ssl'[s].flight]
      <4>1. flights[f + 1] + 0 <= flights[f + 1] /\ 0 < flights[f + 1]
        BY <2>3
      <4>2. ssl'[s].out = 0 /\ ssl'[s].in = 0
        BY <1>4, <1>7, <2>4
      <4> QED
        BY <2>1, <2>2, <2>6, <3>1, <4>1, <4>2
    <3>3. Exchange(e, Peer(e), ssl[Peer(e)].flight)'
      BY <3>2 DEF Exchange
    <3> QED
      BY <3>3 DEF Shaking
  <2>9. Zeros(e)' = 0 /\ Zeros(s)' = 0
    <3>1. ~(f + 2 < f + 1) /\ f + 1 < f + 2
      BY <1>4
    <3>2. flights[f + 1] - 0 - flights[f + 1] = 0
      BY <2>3
    <3> QED
      BY <1>0, <1>4, <1>7, <2>1, <3>1, <3>2 DEF Zeros
  <2>10. Zeros(e) - n = 0
    BY <1>12, <2>4
  <2> QED
    BY <1>4, <1>6, <1>8, <1>12, <1>13, <2>1, <2>8, <2>9, <2>10
<1> QED
  BY <1>14, <1>16, <1>17


LEMMA HearsStream ==
  ASSUME Types, Types', Stream, NEW e \in Ends, Hears(e)
  PROVE  Stream'
<1> DEFINE h == Peer(e)
<1>0. h \in Ends /\ h # e /\ Peer(h) = e /\ \A x \in Ends : x = e \/ x = h
  BY EndsAre
<1>1. PICK t \in Socks, n \in 1..Len(wire[e]) :
        /\ Running(e, "ssl", t) /\ t.sent = sock[e].sent
        /\ HasRead(e, n)
        /\ ssl[e].out = 0 /\ ssl[e].flight <= Len(flights)
        /\ n <= flights[ssl[e].flight] - ssl[e].in
        /\ ssl' = [ssl EXCEPT ![e] = IF n = flights[ssl[e].flight] - ssl[e].in
                                       THEN Heard(ssl[e])
                                       ELSE [ssl[e] EXCEPT !.in = @ + n]]
        /\ user' = user
  BY DEF Hears
<1>2. Moves(e, "ssl", t) /\ flights' = flights /\ pc[e] # "failed"
  BY <1>1 DEF Running
<1>3. n \in Nat /\ Len(wire[e]) \in Nat
  BY ReachedMeans
<1>4. /\ HeardPart(e, n) \/ HeardLast(e, n) \/ HeardNext(e, n)
      /\ ssl'[e].record = ssl[e].record
      /\ \A x \in Ends : x # e => ssl'[x] = ssl[x]
  BY <1>1, <1>3, HeardMeans
<1>5. /\ Shaking' /\ n \in 1..Zeros(e) /\ Zeros(e)' = Zeros(e) - n
      /\ Zeros(h) = 0 /\ Zeros(h)' = 0
      /\ wire[h] = <<>> /\ ssl[h].in = 0
      /\ Len(wire[e]) - n > Zeros(e) - n => Finished(h)
      /\ ~Finished(e)
  BY <1>1, <1>2, <1>4, HearsShaking
<1>6. Finished(e)' => ssl'[e].in = 0
  BY <1>1, <1>2, <1>4, HearsShaking
<1>7. ssl'[h] = ssl[h] /\ Finished(h)' = Finished(h)
  BY <1>0, <1>2, <1>4 DEF Finished
<1>8. Ordered'
  BY <1>1 DEF Stream, Ordered
<1>9. Counted(e)' = Counted(e) /\ Counted(h)' = Counted(h) /\ user' = user
  <2>1. sock'[e].sent = sock[e].sent /\ sock'[h].sent = sock[h].sent
    BY <1>0, <1>1, <1>2 DEF Moves
  <2> QED
    BY <1>1, <1>4, <1>7, <2>1 DEF Counted
<1>10. Reached(h)' = Reached(h) /\ Reached(e)' = Reached(e)
  <2>1. Reached(h)' = Reached(h)
    BY <1>7, <1>9 DEF Reached
  <2>2. Reached(e)' = Reached(e)
    BY <1>5, <1>6, <1>9 DEF Reached
  <2> QED
    BY <2>1, <2>2
<1>11. \A x \in Ends : user[x].failed => pc'[x] = "failed"
  <2>1. ~user[e].failed
    BY <1>2 DEF Stream, Streaming
  <2> QED
    BY <1>2, <2>1 DEF Moves, Stream, Streaming
<1>12. /\ wire'[h] = wire[h] /\ Len(wire'[e]) = Len(wire[e]) - n
       /\ \A i \in 1..Len(wire[e]) - n : wire'[e][i] = wire[e][i + n]
  BY <1>1 DEF HasRead
<1> HIDE DEF h
<1>13. Streaming'
  <2> SUFFICES ASSUME NEW p \in Ends
               PROVE  /\ Front(wire'[p], Zeros(p)')
                      /\ Len(wire'[p]) > Zeros(p)' => Finished(Peer(p))'
                      /\ Finished(p)' => ssl'[p].in < RecordUnits
                      /\ user'[p].failed => pc'[p] = "failed"
                      /\ ~user'[p].failed =>
                           Rest(wire'[p], Zeros(p)', Reached(p)', Counted(Peer(p))')
    BY DEF Streaming, Front, Rest, Numbered
  <2>1. /\ Front(wire[p], Zeros(p))
        /\ Finished(p) => ssl[p].in < RecordUnits
        /\ ~user[p].failed => Rest(wire[p], Zeros(p), Reached(p), Counted(Peer(p)))
    BY DEF Stream, Streaming
  <2>2. user'[p].failed => pc'[p] = "failed"
    BY <1>9, <1>11
  <2>3. CASE p = h
    <3>1. Len(wire'[h]) = 0
      BY <1>5, <1>12
    <3> QED
      BY <1>0, <1>5, <1>7, <1>9, <1>10, <1>12, <2>1, <2>2, <2>3, <3>1
  <2>4. CASE p = e
    <3>1. /\ wire[e] \in Seq(Nat) /\ wire'[e] \in Seq(Nat) /\ Reached(e) \in Nat
      BY ReachedMeans DEF Types
    <3>2. Zeros(e) \in Nat
      BY <1>3, <2>1, <2>4 DEF Front
    <3>3. /\ Front(wire'[e], Zeros(e) - n)
          /\ Rest(wire[e], Zeros(e), Reached(e), Counted(h)) =>
               Rest(wire'[e], Zeros(e) - n, Reached(e), Counted(h))
      BY <1>5, <1>12, <2>1, <2>4, <3>1, <3>2, FlightRead
    <3>4. Finished(e)' => ssl'[e].in < RecordUnits
      BY <1>6, LeftMeans
    <3>5. Len(wire'[e]) > Zeros(e)' => Finished(h)'
      BY <1>5, <1>7, <1>12
    <3> QED
      BY <1>5, <1>9, <1>10, <2>1, <2>2, <2>4, <3>3, <3>4, <3>5 DEF h
  <2> QED
    BY <1>0, <2>3, <2>4
<1> QED
  BY <1>5, <1>8, <1>13 DEF Stream

\* A record is read behind the handshake.
LEMMA ReadsAfter ==
  ASSUME Types, Stream, NEW e \in Ends, wire[e] # <<>>, Finished(e)
  PROVE  Exchanged /\ \A p \in Ends : Zeros(p) = 0
<1>1. Exchanged
  <2>1. CASE Exchange(Peer(e), e, ssl[e].flight)
    <3>1. ssl[e].flight \in 1..Len(flights)
      BY <2>1 DEF Exchange
    <3> QED
      BY <3>1, FlightsAre DEF Finished
  <2> QED
    BY <2>1, Listens DEF Stream
<1>2. \A p \in Ends : Zeros(p) = 0
  <2>1. ~(Len(flights) + 1 < Len(flights) + 1)
    BY FlightsAre
  <2> QED
    BY <1>1, <2>1, EndsAre DEF Exchanged, Zeros
<1> QED
  BY <1>1, <1>2

\* The engine of the end that reads changes in what was read.
LEMMA ReadsSame ==
  ASSUME Types, Exchanged, \A p \in Ends : Zeros(p) = 0, NEW e \in Ends, NEW in \in Nat,
         flights' = flights, ssl' = [ssl EXCEPT ![e].in = in]
  PROVE  /\ Exchanged' /\ ssl'[e].in = in /\ Finished(e)
         /\ \A x \in Ends : /\ ssl'[x].record = ssl[x].record
                            /\ Finished(x)' = Finished(x) /\ Zeros(x)' = 0
                            /\ x # e => ssl'[x] = ssl[x]
<1>1. \A x \in Ends : ssl[x] \in Ssls
  BY SockIs
<1>2. \A x \in Ends : /\ ssl'[x].record = ssl[x].record /\ ssl'[x].flight = ssl[x].flight
                      /\ ssl'[x].out = ssl[x].out
                      /\ x # e => ssl'[x] = ssl[x]
  BY <1>1 DEF Types, Ssls
<1>3. ssl'[e].in = in
  BY <1>1 DEF Types, Ssls
<1>4. Exchanged' /\ Finished(e)
  <2>1. Len(flights) + 1 > Len(flights)
    BY FlightsAre
  <2> QED
    BY <1>2, <2>1 DEF Exchanged, Finished
<1>5. \A x \in Ends : Zeros(x)' = 0
  <2>1. ~(Len(flights) + 1 < Len(flights) + 1)
    BY FlightsAre
  <2> QED
    BY <1>4, <2>1, EndsAre DEF Exchanged, Zeros
<1> QED
  BY <1>2, <1>3, <1>4, <1>5 DEF Finished


\* What is left to be read of the stream of records, if the user has not lost any.
ReadOn(e, n) == /\ Finished(e)' /\ Zeros(e)' = 0 /\ Front(wire'[e], 0)
                /\ ssl'[e].in < RecordUnits
                /\ user'[e].failed => pc'[e] = "failed"
                /\ ~user'[e].failed => ~user[e].failed /\ Reached(e)' = Reached(e) + n

\* A step that reads n units of records.
LEMMA ReadStream ==
  ASSUME Types, Types', Stream, NEW e \in Ends, NEW n \in 1..Len(wire[e]),
         flights' = flights, HasRead(e, n), Exchanged', ReadOn(e, n),
         \A p \in Ends : Zeros(p) = 0 /\ Zeros(p)' = 0 /\ Finished(p)' = Finished(p),
         ssl'[Peer(e)] = ssl[Peer(e)], user'[Peer(e)] = user[Peer(e)],
         pc'[Peer(e)] = pc[Peer(e)], \A p \in Ends : Counted(p)' = Counted(p)
  PROVE  Shaking' /\ Streaming'
<1> DEFINE h == Peer(e)
<1>0. h \in Ends /\ h # e /\ Peer(h) = e /\ \A x \in Ends : x = e \/ x = h
  BY EndsAre
<1>1. Shaking'
  BY DEF Shaking
<1>2. /\ wire'[h] = wire[h] /\ Len(wire'[e]) = Len(wire[e]) - n
      /\ \A i \in 1..Len(wire[e]) - n : wire'[e][i] = wire[e][i + n]
  BY DEF HasRead
<1>3. Reached(h)' = Reached(h)
  <2>1. Finished(h)' = Finished(h) /\ ssl'[h] = ssl[h] /\ user'[h] = user[h]
    BY <1>0
  <2> QED
    BY <2>1 DEF Reached
<1>4. Finished(e) /\ Finished(h)
  <2>1. Finished(e)' /\ Finished(h)'
    <3>1. Len(flights') + 1 > Len(flights')
      BY FlightsAre
    <3> QED
      BY <1>0, <3>1 DEF Exchanged, Finished
  <2> QED
    BY <1>0, <2>1
<1>5. Streaming'
  <2> SUFFICES ASSUME NEW p \in Ends
               PROVE  /\ Front(wire'[p], Zeros(p)')
                      /\ Len(wire'[p]) > Zeros(p)' => Finished(Peer(p))'
                      /\ Finished(p)' => ssl'[p].in < RecordUnits
                      /\ user'[p].failed => pc'[p] = "failed"
                      /\ ~user'[p].failed =>
                           Rest(wire'[p], Zeros(p)', Reached(p)', Counted(Peer(p))')
    BY DEF Streaming, Front, Rest, Numbered
  <2>1. /\ Front(wire[p], Zeros(p))
        /\ Finished(p) => ssl[p].in < RecordUnits
        /\ user[p].failed => pc[p] = "failed"
        /\ ~user[p].failed => Rest(wire[p], Zeros(p), Reached(p), Counted(Peer(p)))
    BY DEF Stream, Streaming
  <2>2. Zeros(p) = 0 /\ Zeros(p)' = 0 /\ Finished(Peer(p))'
    BY <1>0, <1>4
  <2>3. CASE p = h
    BY <1>0, <1>2, <1>3, <1>4, <2>1, <2>2, <2>3
  <2>4. CASE p = e
    <3>1. wire[e] \in Seq(Nat) /\ wire'[e] \in Seq(Nat) /\ Reached(e) \in Nat
      BY ReachedMeans DEF Types
    <3>2. Rest(wire[e], 0, Reached(e), Counted(h)) =>
            Rest(wire'[e], 0, Reached(e) + n, Counted(h))
      BY <1>2, <3>1, RecordRead
    <3>3. ~user'[e].failed => Rest(wire'[e], 0, Reached(e)', Counted(h)')
      BY <1>0, <2>1, <2>2, <2>4, <3>2 DEF ReadOn
    <3> QED
      BY <2>2, <2>4, <3>3 DEF ReadOn
  <2> QED
    BY <1>0, <2>3, <2>4
<1> QED
  BY <1>1, <1>5

LEMMA ReadsPartStream ==
  ASSUME Types, Types', Stream, NEW e \in Ends, ReadsPart(e)
  PROVE  Stream'
<1> DEFINE h == Peer(e)
           in == ssl[e].in
<1>0. h \in Ends /\ h # e /\ \A x \in Ends : x = e \/ x = h
  BY EndsAre
<1>1. PICK t \in Socks, n \in 1..Len(wire[e]) :
        /\ Finished(e) /\ in + n < RecordUnits
        /\ Running(e, "ssl", t) /\ t.sent = sock[e].sent
        /\ HasRead(e, n)
        /\ ssl' = [ssl EXCEPT ![e].in = @ + n]
        /\ user' = user
  BY DEF ReadsPart
<1>2. Moves(e, "ssl", t) /\ flights' = flights /\ pc[e] # "failed"
  BY <1>1 DEF Running
<1>3. n \in Nat /\ in \in Nat /\ in + n \in Nat /\ wire[e] # <<>> /\ RecordUnits \in Nat
  <2>1. Len(wire[e]) \in Nat /\ in \in Nat /\ wire[e] \in Seq(Nat)
    BY ReachedMeans
  <2>2. wire[e] # <<>>
    BY <2>1, EmptySeq
  <2> QED
    BY <2>1, <2>2, LeftMeans
<1>4. Exchanged /\ \A p \in Ends : Zeros(p) = 0
  BY <1>1, <1>3, ReadsAfter
<1>5. ssl' = [ssl EXCEPT ![e].in = in + n]
  BY <1>1
<1>6. /\ Exchanged' /\ ssl'[e].in = in + n /\ Finished(e)
      /\ \A x \in Ends : /\ ssl'[x].record = ssl[x].record
                         /\ Finished(x)' = Finished(x) /\ Zeros(x)' = 0
                         /\ x # e => ssl'[x] = ssl[x]
  BY <1>2, <1>3, <1>4, <1>5, ReadsSame
<1>7. \A p \in Ends : Counted(p)' = Counted(p)
  <2>1. \A p \in Ends : sock'[p].sent = sock[p].sent
    BY <1>1, <1>2 DEF Moves
  <2> QED
    BY <1>1, <1>6, <2>1, CountedSame
<1>8. user' = user /\ ~user[e].failed
  BY <1>1, <1>2 DEF Stream, Streaming
<1>9. Reached(e)' = Reached(e) + n
  <2> DEFINE w == RecordUnits * Len(user[e].got)
  <2>1. w \in Nat /\ Reached(e) = w + in
    BY <1>6, ReachedMeans
  <2>2. Finished(e)'
    BY <1>6
  <2>3. Reached(e)' = w + (in + n)
    BY <1>6, <1>8, <2>2 DEF Reached
  <2> HIDE DEF w, in
  <2> QED
    BY <1>3, <2>1, <2>3
<1>10. HasRead(e, n) /\ in + n < RecordUnits
  BY <1>1
<1>11. ReadOn(e, n)
  <2>1. Front(wire'[e], 0)
    <3>1. Len(wire'[e]) \in Nat
      BY DEF Types
    <3> QED
      BY <3>1 DEF Front
  <2> QED
    BY <1>6, <1>8, <1>9, <1>10, <2>1 DEF ReadOn
<1>12. Shaking' /\ Streaming'
  <2>1. ssl'[h] = ssl[h] /\ user'[h] = user[h] /\ pc'[h] = pc[h]
    BY <1>0, <1>2, <1>6, <1>8 DEF Moves
  <2> QED
    BY <1>2, <1>4, <1>6, <1>7, <1>10, <1>11, <2>1, ReadStream
<1>13. Ordered'
  BY <1>8 DEF Stream, Ordered
<1> QED
  BY <1>12, <1>13 DEF Stream

LEMMA ReadsEndStream ==
  ASSUME Types, Types', Stream, NEW e \in Ends, ReadsEnd(e)
  PROVE  Stream'
<1> DEFINE h == Peer(e)
           in == ssl[e].in
           got == user[e].got
           k == Len(got)
           w == RecordUnits * k
<1>0. h \in Ends /\ h # e /\ \A x \in Ends : x = e \/ x = h
  BY EndsAre
<1>1. PICK l \in {"idle", "failed"}, t \in Socks, n \in 1..Len(wire[e]) :
        /\ Finished(e) /\ in + n = RecordUnits
        /\ pc[e] = "ssl" /\ sock[e].sent = 0
        /\ Moves(e, l, t) /\ t.sent = 0
        /\ flights' = flights
        /\ HasRead(e, n)
        /\ ssl' = [ssl EXCEPT ![e].in = 0]
        /\ user' = IF l = "idle"
                     THEN [user EXCEPT ![e].got = Append(@, wire[e][n])]
                     ELSE [user EXCEPT ![e].failed = TRUE]
  BY DEF ReadsEnd
<1>2. /\ n \in Nat /\ in \in Nat /\ wire[e] # <<>> /\ RecordUnits \in Nat /\ RecordUnits > 0
      /\ wire[e][n] \in Nat /\ got \in Seq(Nat) /\ k \in Nat
  <2>1. Len(wire[e]) \in Nat /\ in \in Nat /\ wire[e] \in Seq(Nat)
    BY ReachedMeans
  <2>2. wire[e] # <<>>
    BY <2>1, EmptySeq
  <2>3. got \in Seq(Nat)
    BY SockIs DEF Users
  <2>4. RecordUnits \in Nat /\ RecordUnits > 0
    BY TlsAssumption DEF TlsAssumption
  <2> QED
    BY <2>1, <2>2, <2>3, <2>4
<1>3. Exchanged /\ \A p \in Ends : Zeros(p) = 0
  BY <1>1, <1>2, ReadsAfter
<1>4. /\ Exchanged' /\ ssl'[e].in = 0 /\ Finished(e)
      /\ \A x \in Ends : /\ ssl'[x].record = ssl[x].record
                         /\ Finished(x)' = Finished(x) /\ Zeros(x)' = 0
                         /\ x # e => ssl'[x] = ssl[x]
  BY <1>1, <1>3, ReadsSame
<1>5. /\ \A x \in Ends : x # e => user'[x] = user[x]
      /\ user'[e].sent = user[e].sent
      /\ l = "idle" => user'[e].got = Append(got, wire[e][n]) /\ user'[e].failed = user[e].failed
      /\ l = "failed" => user'[e].got = got /\ user'[e].failed
  <2>1. user \in [Ends -> Users] /\ user[e] \in Users
    BY DEF Types
  <2>2. CASE l = "idle"
    <3>1. user' = [user EXCEPT ![e] = [user[e] EXCEPT !.got = Append(got, wire[e][n])]]
      BY <1>1, <2>2
    <3>2. user'[e] = [user[e] EXCEPT !.got = Append(got, wire[e][n])]
      BY <2>1, <3>1
    <3> QED
      BY <2>1, <2>2, <3>1, <3>2 DEF Users
  <2>3. CASE l = "failed"
    <3>1. user' = [user EXCEPT ![e] = [user[e] EXCEPT !.failed = TRUE]]
      BY <1>1, <2>3
    <3>2. user'[e] = [user[e] EXCEPT !.failed = TRUE]
      BY <2>1, <3>1
    <3> QED
      BY <2>1, <2>3, <3>1, <3>2 DEF Users
  <2> QED
    BY <2>2, <2>3
<1>6. /\ Moves(e, l, t) /\ ~user[e].failed /\ flights' = flights
      /\ HasRead(e, n) /\ in + n = RecordUnits
  BY <1>1 DEF Stream, Streaming
<1>7. \A p \in Ends : Counted(p)' = Counted(p)
  <2>1. \A p \in Ends : sock'[p].sent = sock[p].sent
    BY <1>1 DEF Moves
  <2>2. \A p \in Ends : user'[p].sent = user[p].sent
    BY <1>5
  <2> QED
    BY <1>4, <2>1, <2>2, CountedSame
<1>8. w \in Nat /\ RecordUnits * (k + 1) = w + RecordUnits /\ Reached(e) = w + in
  <2>1. w \in Nat /\ Reached(e) = w + in
    BY <1>4, ReachedMeans
  <2> HIDE DEF k
  <2>2. RecordUnits * (k + 1) = w + RecordUnits
    BY <1>2
  <2> QED
    BY <2>1, <2>2
<1>9. Reached(e) + n = RecordUnits * (k + 1)
  <2> DEFINE all == RecordUnits * (k + 1)
  <2>1. all = w + RecordUnits /\ Reached(e) = w + in /\ w \in Nat
    BY <1>8
  <2>2. n \in Nat /\ in \in Nat /\ RecordUnits \in Nat /\ in + n = RecordUnits
    BY <1>2, <1>6
  <2> HIDE DEF w, k, in, all
  <2>3. (w + in) + n = w + RecordUnits
    BY <2>1, <2>2
  <2>4. Reached(e) + n = all
    BY <2>1, <2>3
  <2> QED
    BY <2>4 DEF all
<1>10. l = "idle" => Reached(e)' = Reached(e) + n
  <2> SUFFICES ASSUME l = "idle" PROVE Reached(e)' = Reached(e) + n
    OBVIOUS
  <2>1. Len(user'[e].got) = k + 1
    BY <1>2, <1>5
  <2>2. Finished(e)'
    BY <1>4
  <2>3. Reached(e)' = RecordUnits * (k + 1) + 0
    BY <1>4, <2>1, <2>2 DEF Reached
  <2> HIDE DEF w, k
  <2> QED
    BY <1>2, <1>8, <1>9, <2>3
<1>11. ReadOn(e, n)
  <2>1. Front(wire'[e], 0)
    <3>1. Len(wire'[e]) \in Nat
      BY DEF Types
    <3> QED
      BY <3>1 DEF Front
  <2>2. Finished(e)' /\ Zeros(e)' = 0 /\ ssl'[e].in < RecordUnits
    BY <1>2, <1>4
  <2>3. user'[e].failed => pc'[e] = "failed"
    BY <1>5, <1>6 DEF Moves
  <2>4. ~user'[e].failed => ~user[e].failed /\ Reached(e)' = Reached(e) + n
    BY <1>5, <1>6, <1>10
  <2> QED
    BY <2>1, <2>2, <2>3, <2>4 DEF ReadOn
<1>12. Shaking' /\ Streaming'
  <2>1. ssl'[h] = ssl[h] /\ user'[h] = user[h] /\ pc'[h] = pc[h]
    BY <1>0, <1>4, <1>5, <1>6 DEF Moves
  <2> QED
    BY <1>3, <1>4, <1>6, <1>7, <1>11, <2>1, ReadStream
<1>13. wire[e][n] = k + 1
  <2>1. Rest(wire[e], 0, Reached(e), Counted(h))
    BY <1>3, <1>6 DEF Stream, Streaming
  <2>2. Numbered(wire[e][n], Reached(e) + n - 0)
    <3>1. n \in 0 + 1 .. Len(wire[e])
      OBVIOUS
    <3> QED
      BY <2>1, <3>1 DEF Rest
  <2>3. Reached(e) + n - 0 = RecordUnits * (k + 1)
    <3>1. Reached(e) \in Nat
      BY ReachedMeans
    <3> HIDE DEF k
    <3> QED
      BY <1>2, <1>9, <3>1
  <2>4. Numbered(wire[e][n], RecordUnits * (k + 1))
    BY <2>2, <2>3
  <2> HIDE DEF k
  <2> QED
    BY <1>2, <2>4, EndNumbered
<1>14. Ordered'
  <2> SUFFICES ASSUME NEW p \in Ends, NEW i \in 1..Len(user'[p].got)
               PROVE  user'[p].got[i] = i
    BY DEF Ordered
  <2>1. CASE p # e \/ l = "failed"
    <3>1. user'[p].got = user[p].got
      BY <1>5, <2>1
    <3> QED
      BY <3>1 DEF Stream, Ordered
  <2>2. CASE p = e /\ l = "idle"
    <3>1. user'[p].got = Append(got, k + 1)
      BY <1>5, <1>13, <2>2
    <3>2. i \in 1..k \/ i = k + 1
      BY <1>2, <3>1
    <3>3. \A j \in 1..k : got[j] = j
      BY DEF Stream, Ordered
    <3> QED
      BY <1>2, <3>1, <3>2, <3>3
  <2> QED
    BY <2>1, <2>2
<1> QED
  BY <1>12, <1>14 DEF Stream


-------------------------------------------------------------------------------
(* The types. *)

LEMMA PartOfAll ==
  ASSUME Types, flights' = flights, mode' = mode, pc' \in [Ends -> Labels],
         sock' \in [Ends -> Socks], ssl' \in [Ends -> Ssls], drv' \in [Ends -> Drvs],
         user' \in [Ends -> Users],
         \/ wire' = wire
         \/ wire' \in [Ends -> Seq(Nat)] /\ \A x \in Ends : Len(wire'[x]) <= Cap
  PROVE  Types'
BY DEF Types

LEMMA WrittenTypes ==
  ASSUME Types, NEW e \in Ends, NEW n \in Nat, NEW unit, Wrote(e, n, unit)
  PROVE  wire' \in [Ends -> Seq(Nat)] /\ \A x \in Ends : Len(wire'[x]) <= Cap
<1>1. wire'[e] = wire[e] /\ Len(wire'[Peer(e)]) <= Cap /\ wire' \in [Ends -> Seq(Nat)]
  BY DEF Wrote
<1>2. Len(wire[e]) <= Cap /\ \A x \in Ends : x = e \/ x = Peer(e)
  BY EndsAre DEF Types
<1> QED
  BY <1>1, <1>2

LEMMA ReadTypes ==
  ASSUME Types, NEW e \in Ends, NEW n \in Nat, HasRead(e, n)
  PROVE  wire' \in [Ends -> Seq(Nat)] /\ \A x \in Ends : Len(wire'[x]) <= Cap
<1>1. wire'[Peer(e)] = wire[Peer(e)] /\ Len(wire'[e]) <= Cap /\ wire' \in [Ends -> Seq(Nat)]
  BY DEF HasRead
<1>2. Len(wire[Peer(e)]) <= Cap /\ \A x \in Ends : x = e \/ x = Peer(e)
  BY EndsAre DEF Types
<1> QED
  BY <1>1, <1>2

\* The engine of an end gets another value.
LEMMA EngineTypes ==
  ASSUME Types, NEW e \in Ends, NEW s \in Ssls, ssl' = [ssl EXCEPT ![e] = s]
  PROVE  ssl' \in [Ends -> Ssls]
BY DEF Types

LEMMA EngineHears ==
  ASSUME NEW s \in Ssls, NEW next \in Nat, NEW out \in Nat
  PROVE  /\ [s EXCEPT !.in = 0, !.flight = next] \in Ssls
         /\ [s EXCEPT !.in = 0, !.flight = next, !.out = out] \in Ssls
BY DEF Ssls

LEMMA RunningTypes ==
  ASSUME Types, NEW e \in Ends, NEW l, NEW t, Running(e, l, t),
         ssl' \in [Ends -> Ssls], user' = user,
         \/ wire' = wire
         \/ wire' \in [Ends -> Seq(Nat)] /\ \A x \in Ends : Len(wire'[x]) <= Cap
  PROVE  Types'
<1>1. /\ flights' = flights /\ mode' = mode /\ drv' = drv
      /\ pc' \in [Ends -> Labels] /\ sock' \in [Ends -> Socks]
  BY DEF Running, Moves
<1>2. drv' \in [Ends -> Drvs] /\ user' \in [Ends -> Users]
  BY <1>1 DEF Types
<1> QED
  BY <1>1, <1>2, PartOfAll

LEMMA WaitsTypes ==
  ASSUME Types, NEW e \in Ends, Waits(e)
  PROVE  Types'
<1>1. PICK l \in {"ssl", "error", "return"}, t \in Socks :
        /\ Running(e, l, t)
        /\ wire' = wire /\ ssl' = ssl /\ user' = user
  BY DEF Waits
<1>2. ssl' \in [Ends -> Ssls]
  BY <1>1 DEF Types
<1> QED
  BY <1>1, <1>2, RunningTypes

LEMMA FlushesTypes ==
  ASSUME Types, NEW e \in Ends, Flushes(e)
  PROVE  Types'
<1>1. PICK t \in Socks, n \in 1..ssl[e].out :
        /\ Running(e, "ssl", t) /\ Wrote(e, n, 0)
        /\ ssl' = [ssl EXCEPT ![e].out = @ - n] /\ user' = user
  BY DEF Flushes
<1>2. n \in Nat /\ ssl[e] \in Ssls /\ ssl[e].out - n \in Nat
  BY SockIs DEF Ssls
<1>3. ssl' \in [Ends -> Ssls]
  <2>1. ssl' = [ssl EXCEPT ![e] = [ssl[e] EXCEPT !.out = ssl[e].out - n]]
    BY <1>1
  <2>2. [ssl[e] EXCEPT !.out = ssl[e].out - n] \in Ssls
    BY <1>2 DEF Ssls
  <2> QED
    BY <2>1, <2>2, EngineTypes
<1> QED
  BY <1>1, <1>2, <1>3, WrittenTypes, RunningTypes

LEMMA HearsTypes ==
  ASSUME Types, NEW e \in Ends, Hears(e), ssl[e].flight > 0
  PROVE  Types'
<1>1. PICK t \in Socks, n \in 1..Len(wire[e]) :
        /\ Running(e, "ssl", t) /\ HasRead(e, n)
        /\ ssl' = [ssl EXCEPT ![e] = IF n = flights[ssl[e].flight] - ssl[e].in
                                       THEN Heard(ssl[e])
                                       ELSE [ssl[e] EXCEPT !.in = @ + n]]
        /\ user' = user
  BY DEF Hears
<1>2. n \in Nat /\ ssl[e] \in Ssls /\ ssl[e].in + n \in Nat /\ ssl[e].flight \in Nat
  BY SockIs, ReachedMeans DEF Ssls
<1>3. [ssl[e] EXCEPT !.in = ssl[e].in + n] \in Ssls
  BY <1>2 DEF Ssls
<1>4. Heard(ssl[e]) \in Ssls
  <2> DEFINE next == ssl[e].flight + 1
  <2>1. next \in Nat /\ next + 1 \in Nat /\ next > 0
    BY <1>2
  <2>2. CASE next > Len(flights)
    <3>1. Heard(ssl[e]) = [ssl[e] EXCEPT !.in = 0, !.flight = next]
      BY <2>2 DEF Heard
    <3> HIDE DEF next
    <3> QED
      BY <1>2, <2>1, <3>1, EngineHears
  <2>3. CASE ~(next > Len(flights))
    <3>1. Heard(ssl[e]) = [ssl[e] EXCEPT !.in = 0, !.flight = next + 1, !.out = flights[next]]
      BY <2>3 DEF Heard
    <3> HIDE DEF next
    <3>2. next \in 1..Len(flights)
      BY <2>1, <2>3, FlightsAre
    <3>3. flights[next] \in Nat
      BY <3>2, FlightsAre
    <3> DEFINE after == next + 1
    <3>4. after \in Nat
      BY <2>1
    <3>5. Heard(ssl[e]) = [ssl[e] EXCEPT !.in = 0, !.flight = after, !.out = flights[next]]
      BY <3>1
    <3> HIDE DEF after
    <3>6. [ssl[e] EXCEPT !.in = 0, !.flight = after, !.out = flights[next]] \in Ssls
      BY <1>2, <3>3, <3>4, EngineHears
    <3> QED
      BY <3>5, <3>6
  <2> QED
    BY <2>2, <2>3
<1>5. ssl' \in [Ends -> Ssls]
  <2>1. CASE n = flights[ssl[e].flight] - ssl[e].in
    <3>1. ssl' = [ssl EXCEPT ![e] = Heard(ssl[e])]
      BY <1>1, <2>1
    <3> QED
      BY <1>4, <3>1, EngineTypes
  <2>2. CASE n # flights[ssl[e].flight] - ssl[e].in
    <3>1. ssl' = [ssl EXCEPT ![e] = [ssl[e] EXCEPT !.in = ssl[e].in + n]]
      BY <1>1, <2>2
    <3> QED
      BY <1>3, <3>1, EngineTypes
  <2> QED
    BY <2>1, <2>2
<1> QED
  BY <1>1, <1>2, <1>5, ReadTypes, RunningTypes

LEMMA WritesTypes ==
  ASSUME Types, NEW e \in Ends, Writes(e)
  PROVE  Types'
<1>1. PICK l \in {"ssl", "error", "return"}, t \in Socks, n \in 0..Left(e) :
        /\ Running(e, l, t)
        /\ IF n = 0 THEN wire' = wire ELSE ~t.isWritable /\ Wrote(e, n, Current(e))
        /\ ssl' = [ssl EXCEPT ![e].record = Left(e) - n] /\ user' = user
  BY DEF Writes
<1>2. n \in Nat /\ ssl[e] \in Ssls /\ Left(e) - n \in 0..RecordUnits
  BY SockIs, LeftMeans
<1>3. ssl' \in [Ends -> Ssls]
  <2>1. ssl' = [ssl EXCEPT ![e] = [ssl[e] EXCEPT !.record = Left(e) - n]]
    BY <1>1
  <2>2. [ssl[e] EXCEPT !.record = Left(e) - n] \in Ssls
    BY <1>2 DEF Ssls
  <2> QED
    BY <2>1, <2>2, EngineTypes
<1>4. wire' = wire \/ Wrote(e, n, Current(e))
  BY <1>1
<1> QED
  BY <1>1, <1>2, <1>3, <1>4, WrittenTypes, RunningTypes

LEMMA ReadsPartTypes ==
  ASSUME Types, NEW e \in Ends, ReadsPart(e)
  PROVE  Types'
<1>1. PICK t \in Socks, n \in 1..Len(wire[e]) :
        /\ Running(e, "ssl", t) /\ HasRead(e, n)
        /\ ssl' = [ssl EXCEPT ![e].in = @ + n] /\ user' = user
  BY DEF ReadsPart
<1>2. n \in Nat /\ ssl[e] \in Ssls /\ ssl[e].in + n \in Nat
  BY SockIs, ReachedMeans
<1>3. ssl' \in [Ends -> Ssls]
  <2>1. ssl' = [ssl EXCEPT ![e] = [ssl[e] EXCEPT !.in = ssl[e].in + n]]
    BY <1>1
  <2>2. [ssl[e] EXCEPT !.in = ssl[e].in + n] \in Ssls
    BY <1>2 DEF Ssls
  <2> QED
    BY <2>1, <2>2, EngineTypes
<1> QED
  BY <1>1, <1>2, <1>3, ReadTypes, RunningTypes

LEMMA ReadsEndTypes ==
  ASSUME Types, NEW e \in Ends, ReadsEnd(e)
  PROVE  Types'
<1>1. PICK l \in {"idle", "failed"}, t \in Socks, n \in 1..Len(wire[e]) :
        /\ Moves(e, l, t) /\ HasRead(e, n)
        /\ mode' = mode /\ flights' = flights /\ drv' = drv
        /\ ssl' = [ssl EXCEPT ![e].in = 0]
        /\ user' = IF l = "idle"
                     THEN [user EXCEPT ![e].got = Append(@, wire[e][n])]
                     ELSE [user EXCEPT ![e].failed = TRUE]
  BY DEF ReadsEnd
<1>2. /\ n \in Nat /\ ssl[e] \in Ssls /\ user \in [Ends -> Users] /\ user[e] \in Users
      /\ wire[e][n] \in Nat
  <2>1. wire[e] \in Seq(Nat)
    BY ReachedMeans
  <2> QED
    BY <2>1, SockIs DEF Types
<1>3. ssl' \in [Ends -> Ssls]
  <2>1. ssl' = [ssl EXCEPT ![e] = [ssl[e] EXCEPT !.in = 0]]
    BY <1>1
  <2>2. [ssl[e] EXCEPT !.in = 0] \in Ssls
    BY <1>2 DEF Ssls
  <2> QED
    BY <2>1, <2>2, EngineTypes
<1>4. user' \in [Ends -> Users]
  <2>1. CASE l = "idle"
    <3>1. user' = [user EXCEPT ![e] = [user[e] EXCEPT !.got = Append(user[e].got, wire[e][n])]]
      BY <1>1, <2>1
    <3>2. Append(user[e].got, wire[e][n]) \in Seq(Nat)
      BY <1>2 DEF Users
    <3>3. [user[e] EXCEPT !.got = Append(user[e].got, wire[e][n])] \in Users
      BY <1>2, <3>2 DEF Users
    <3> QED
      BY <1>2, <3>1, <3>3
  <2>2. CASE l = "failed"
    <3>1. user' = [user EXCEPT ![e] = [user[e] EXCEPT !.failed = TRUE]]
      BY <1>1, <2>2
    <3>2. [user[e] EXCEPT !.failed = TRUE] \in Users
      BY <1>2 DEF Users
    <3> QED
      BY <1>2, <3>1, <3>2
  <2> QED
    BY <2>1, <2>2
<1>5. pc' \in [Ends -> Labels] /\ sock' \in [Ends -> Socks] /\ drv' \in [Ends -> Drvs]
  BY <1>1 DEF Moves, Types
<1> QED
  BY <1>1, <1>2, <1>3, <1>4, <1>5, ReadTypes, PartOfAll

LEMMA BetweenTypes ==
  ASSUME Types, NEW e \in Ends, Starts(e) \/ Returns(e) \/ Drives(e)
  PROVE  Types'
<1>1. CASE Starts(e)
  <2>1. /\ flights' = flights /\ mode' = mode /\ drv' = drv /\ ssl' = ssl /\ wire' = wire
        /\ pc' \in [Ends -> Labels] /\ sock' \in [Ends -> Socks] /\ user' \in [Ends -> Users]
    BY <1>1 DEF Starts, Starting, Moves, SameUsers
  <2> QED
    BY <2>1 DEF Types
<1>2. CASE Returns(e)
  <2>1. /\ flights' = flights /\ mode' = mode /\ ssl' = ssl /\ wire' = wire
        /\ pc' \in [Ends -> Labels] /\ sock' \in [Ends -> Socks]
        /\ drv' \in [Ends -> Drvs] /\ user' \in [Ends -> Users]
    BY <1>2 DEF Returns, Moves
  <2> QED
    BY <2>1 DEF Types
<1>3. CASE Drives(e)
  <2>1. /\ flights' = flights /\ mode' = mode /\ sock' = sock /\ ssl' = ssl /\ wire' = wire
        /\ pc' \in [Ends -> Labels] /\ drv' \in [Ends -> Drvs] /\ user' \in [Ends -> Users]
    BY <1>3 DEF Drives, SameUsers
  <2> QED
    BY <2>1 DEF Types
<1> QED
  BY <1>1, <1>2, <1>3


-------------------------------------------------------------------------------
(* The invariant. *)

Safe == Types /\ Control /\ FlagsTrue /\ Stream

\* What a step may be.
Steps(e) == \/ Waits(e) \/ Flushes(e) \/ Hears(e) \/ Writes(e)
            \/ ReadsPart(e) \/ ReadsEnd(e)
            \/ Starts(e) \/ Returns(e) \/ Drives(e)

LEMMA NextSteps ==
  ASSUME Safe, Next
  PROVE  \E e \in Ends : Steps(e)
<1>1. Types /\ Control /\ Shaking /\ Streaming
  BY DEF Safe, Stream
<1>2. PICK e \in Ends :
        \/ Continue(e)
        \/ \E n \in 1..MaxRecords : Enqueue(e, n)
        \/ \E limit \in {"unlimited", "limited", "zero"} :
             Receive(e, limit) \/ \E n \in 1..MaxRecords : Send(e, n, limit)
  BY DEF Next
<1>3. CASE Handle(e) \/ HandleTimeout(e)
  BY <1>1, <1>3, HandleWaits DEF Steps
<1>4. CASE Flush(e)
  BY <1>1, <1>4, FlushMeans DEF Steps
<1>5. CASE Hear(e)
  BY <1>1, <1>5, Hearing, HearMeans DEF Steps
<1>6. CASE WriteRecord(e)
  BY <1>1, <1>6, WriteRecordMeans DEF Steps
<1>7. CASE ReadRecord(e)
  <2>1. Finished(e) => ssl[e].in < RecordUnits
    BY <1>1 DEF Streaming
  <2> QED
    BY <1>1, <1>7, <2>1, ReadRecordMeans DEF Steps
<1>8. CASE Return(e)
  BY <1>1, <1>8, ReturnReturns DEF Steps
<1>9. CASE StepReturn(e)
  BY <1>1, <1>9, StepReturnReturns DEF Steps
<1>10. CASE Query(e)
  BY <1>1, <1>10, QueryDrives DEF Steps
<1>11. CASE OnIdle(e)
  BY <1>1, <1>11, OnIdleDrives DEF Steps
<1>12. CASE OnReadable(e) \/ OnWritable(e) \/ OnPending(e)
  BY <1>1, <1>12, DriverStarts DEF Steps
<1>13. CASE \E n \in 1..MaxRecords : Enqueue(e, n)
  BY <1>1, <1>13, EnqueueDrives DEF Steps
<1>14. CASE \E limit \in {"unlimited", "limited", "zero"} :
              Receive(e, limit) \/ \E n \in 1..MaxRecords : Send(e, n, limit)
  BY <1>1, <1>14, ReceiveStarts, SendStarts DEF Steps
<1> QED
  BY <1>2, <1>3, <1>4, <1>5, <1>6, <1>7, <1>8, <1>9, <1>10, <1>11, <1>12, <1>13, <1>14
     DEF Continue

LEMMA StepsTypes ==
  ASSUME Safe, NEW e \in Ends, Steps(e)
  PROVE  Types'
<1>1. Types /\ ssl[e].flight > 0
  BY Hearing DEF Safe, Stream
<1> QED
  BY <1>1, WaitsTypes, FlushesTypes, HearsTypes, WritesTypes, ReadsPartTypes, ReadsEndTypes,
     BetweenTypes DEF Steps

LEMMA StepsControl ==
  ASSUME Safe, NEW e \in Ends, Steps(e)
  PROVE  Control'
<1>1. Types /\ Control
  BY DEF Safe
<1>2. CASE Waits(e) \/ Flushes(e) \/ Hears(e) \/ Writes(e) \/ ReadsPart(e)
  <2>1. \E l, t : Running(e, l, t)
    BY <1>2 DEF Waits, Flushes, Hears, Writes, ReadsPart
  <2> QED
    BY <1>1, <2>1, RunningControl
<1>3. CASE ReadsEnd(e)
  BY <1>1, <1>3, ReadsEndControl
<1>4. CASE Starts(e)
  BY <1>1, <1>4, StartingControl DEF Starts
<1>5. CASE Returns(e)
  BY <1>1, <1>5, ReturnsControl
<1>6. CASE Drives(e)
  BY <1>1, <1>6, DrivesControl
<1> QED
  BY <1>2, <1>3, <1>4, <1>5, <1>6 DEF Steps

LEMMA StepsFlags ==
  ASSUME Safe, Types', NEW e \in Ends, Steps(e)
  PROVE  FlagsTrue'
<1>1. Types /\ FlagsTrue
  BY DEF Safe
<1>2. CASE Drives(e)
  BY <1>1, <1>2 DEF Drives, FlagsTrue, Readable, Writable, Room
<1>3. ASSUME ~Drives(e)
      PROVE  \E l, t :
               /\ Moves(e, l, t)
               /\ t.isReadable => sock[e].isReadable \/ Readable(e)
               /\ t.isWritable => sock[e].isWritable \/ Writable(e)
               /\ \/ wire' = wire
                  \/ \E n \in Nat : \E unit : Wrote(e, n, unit) /\ ~t.isWritable
                  \/ \E n \in Nat : HasRead(e, n) /\ ~t.isReadable
  <2>0. \A n \in 1..Len(wire[e]) : n \in Nat
    OBVIOUS
  <2>1. CASE Waits(e)
    BY <2>1 DEF Waits, Running
  <2>2. CASE Flushes(e)
    <3>1. PICK t \in Socks, n \in 1..ssl[e].out :
            Running(e, "ssl", t) /\ ~t.isWritable /\ Wrote(e, n, 0)
      BY <2>2 DEF Flushes
    <3>2. n \in Nat
      OBVIOUS
    <3> QED
      BY <3>1, <3>2 DEF Running
  <2>3. CASE Hears(e)
    <3>1. PICK t \in Socks, n \in 1..Len(wire[e]) :
            Running(e, "ssl", t) /\ ~t.isReadable /\ HasRead(e, n)
      BY <2>3 DEF Hears
    <3> QED
      BY <2>0, <3>1 DEF Running
  <2>4. CASE Writes(e)
    <3>1. PICK l \in {"ssl", "error", "return"}, t \in Socks, n \in 0..Left(e) :
            /\ Running(e, l, t)
            /\ IF n = 0 THEN wire' = wire ELSE ~t.isWritable /\ Wrote(e, n, Current(e))
      BY <2>4 DEF Writes
    <3>2. n \in Nat
      OBVIOUS
    <3> QED
      BY <3>1, <3>2 DEF Running
  <2>5. CASE ReadsPart(e)
    <3>1. PICK t \in Socks, n \in 1..Len(wire[e]) :
            Running(e, "ssl", t) /\ ~t.isReadable /\ HasRead(e, n)
      BY <2>5 DEF ReadsPart
    <3> QED
      BY <2>0, <3>1 DEF Running
  <2>6. CASE ReadsEnd(e)
    <3>1. PICK l \in {"idle", "failed"}, t \in Socks, n \in 1..Len(wire[e]) :
            /\ Moves(e, l, t) /\ ~t.isReadable /\ t.isWritable = sock[e].isWritable
            /\ HasRead(e, n)
      BY <2>6 DEF ReadsEnd
    <3> QED
      BY <2>0, <3>1
  <2>7. CASE Starts(e)
    BY <2>7 DEF Starts, Starting
  <2>8. CASE Returns(e)
    BY <2>8 DEF Returns
  <2> QED
    BY <1>3, <2>1, <2>2, <2>3, <2>4, <2>5, <2>6, <2>7, <2>8 DEF Steps
<1>4. CASE ~Drives(e)
  BY <1>1, <1>3, <1>4, FlagsRun
<1> QED
  BY <1>2, <1>4

LEMMA StepsStream ==
  ASSUME Safe, Types', NEW e \in Ends, Steps(e)
  PROVE  Stream'
<1>1. Types /\ Stream
  BY DEF Safe
<1> QED
  BY <1>1, WaitsStream, FlushesStream, HearsStream, WritesStream, ReadsPartStream,
     ReadsEndStream, StartsStream, ReturnsStream, DrivesStream DEF Steps

LEMMA SafeStep ==
  ASSUME Safe, [Next]_vars
  PROVE  Safe'
<1>1. CASE Next
  <2>1. PICK e \in Ends : Steps(e)
    BY <1>1, NextSteps
  <2>2. Types'
    BY <2>1, StepsTypes
  <2> QED
    BY <2>1, <2>2, StepsControl, StepsFlags, StepsStream DEF Safe
<1>2. CASE UNCHANGED vars
  <2>1. /\ mode' = mode /\ flights' = flights /\ pc' = pc /\ sock' = sock
        /\ ssl' = ssl /\ wire' = wire /\ drv' = drv /\ user' = user
    BY <1>2 DEF vars
  <2>2. Types'
    BY <2>1 DEF Safe, Types
  <2>3. Control'
    BY <2>1 DEF Safe, Control, Calls, Requested, Polling, Finished
  <2>4. FlagsTrue'
    BY <2>1 DEF Safe, FlagsTrue, Readable, Writable, Room
  <2>5. Stream'
    <3>1. \A x \in Ends : Still(x) /\ Counted(x)' = Counted(x)
      BY <2>1 DEF Still, Counted
    <3>2. \A x \in Ends : user[x].failed => pc'[x] = "failed"
      BY <2>1 DEF Safe, Stream, Streaming
    <3> QED
      BY <2>1, <3>1, <3>2, QuietStream DEF Safe
  <2> QED
    BY <2>2, <2>3, <2>4, <2>5 DEF Safe
<1> QED
  BY <1>1, <1>2

\* In the beginning the client's first flight is to be written.
LEMMA InitSafe ==
  ASSUME Init
  PROVE  Safe
<1>1. /\ flights \in Seq(Nat \ {0}) /\ Len(flights) \in Nat /\ Len(flights) > 1
      /\ flights[1] \in Nat /\ flights[1] > 0 /\ RecordUnits \in Nat /\ RecordUnits > 0
      /\ Cap \in Nat /\ MaxRecords \in Nat /\ StepsMax \in Nat
  <2>1. flights \in Seq(Nat \ {0}) /\ Len(flights) > 1 /\ Len(flights) \in Nat
    BY TlsAssumption DEF TlsAssumption, Init
  <2>2. flights[1] \in Nat \ {0}
    BY <2>1
  <2> QED
    BY <2>1, <2>2, TlsAssumption DEF TlsAssumption
<1>2. /\ mode \in Pairings /\ flights \in Handshakes
      /\ \A e \in Ends : /\ pc[e] = "idle" /\ sock[e].op = "receive" /\ sock[e].sent = 0
                         /\ sock[e].lastError = "none"
                         /\ ~sock[e].isReadable /\ ~sock[e].isWritable
                         /\ wire[e] = <<>> /\ ssl[e].record = 0 /\ ssl[e].in = 0
                         /\ drv[e].sendQ = <<>> /\ ~drv[e].pollOut /\ ~drv[e].suppressed
                         /\ user[e].sent = 0 /\ user[e].got = <<>> /\ ~user[e].failed
                         /\ user[e].asked = 0
  BY DEF Init
<1>3. /\ ssl["client"].flight = 2 /\ ssl["client"].out = flights[1]
      /\ ssl["server"].flight = 1 /\ ssl["server"].out = 0
  BY DEF Init, Ends
<1>4. \A e \in Ends : ~Finished(e)
  <2>1. ~(2 > Len(flights)) /\ ~(1 > Len(flights))
    BY <1>1
  <2> QED
    BY <1>3, <2>1 DEF Finished, Ends
<1>5. Types
  <2>1. mode \in [Ends -> {"sync", "async"}]
    BY <1>2, TlsAssumption DEF TlsAssumption
  <2>2. pc \in [Ends -> Labels]
    BY DEF Init, Labels
  <2>3. sock \in [Ends -> Socks]
    <3> DEFINE s == [op |-> "receive", size |-> 0, sent |-> 0, limit |-> "zero",
                     lastError |-> "none", isReadable |-> FALSE, isWritable |-> FALSE,
                     steps |-> 0]
    <3>1. 0 \in 0..StepsMax
      BY <1>1
    <3>2. s \in Socks
      BY <3>1 DEF Socks
    <3>3. sock = [e \in Ends |-> s]
      BY DEF Init
    <3> HIDE DEF s
    <3> QED
      BY <3>2, <3>3
  <2>4. ssl \in [Ends -> Ssls]
    <3> DEFINE s(e) == [flight |-> IF e = "client" THEN 2 ELSE 1,
                        out |-> IF e = "client" THEN flights[1] ELSE 0,
                        record |-> 0, in |-> 0]
    <3>1. 0 \in 0..RecordUnits
      BY <1>1
    <3>2. \A e \in Ends : s(e) \in Ssls
      BY <1>1, <3>1 DEF Ssls
    <3>3. ssl = [e \in Ends |-> s(e)]
      BY DEF Init
    <3> HIDE DEF s
    <3> QED
      BY <3>2, <3>3
  <2>5. wire \in [Ends -> Seq(Nat)] /\ \A e \in Ends : Len(wire[e]) <= Cap
    <3>1. wire = [e \in Ends |-> <<>>] /\ <<>> \in Seq(Nat) /\ Len(<<>>) = 0
      BY DEF Init
    <3> QED
      BY <1>1, <3>1
  <2>6. drv \in [Ends -> Drvs]
    BY DEF Init, Drvs
  <2>7. user \in [Ends -> Users]
    <3>1. 0 \in 0..MaxRecords
      BY <1>1
    <3> QED
      BY <3>1 DEF Init, Users
  <2> QED
    BY <1>2, <2>1, <2>2, <2>3, <2>4, <2>5, <2>6, <2>7 DEF Types
<1>6. Control
  BY <1>2 DEF Control, Calls, Requested, Polling
<1>7. FlagsTrue
  BY <1>2 DEF FlagsTrue
<1>8. Shaking
  <2>1. "client" \in Ends /\ Peer("client") = "server" /\ "server" \in Ends
    BY DEF Ends, Peer
  <2>2. 1 \in 1..Len(flights) /\ flights[1] + 0 <= flights[1] /\ 0 < flights[1] /\ 2 = 1 + 1
    BY <1>1
  <2>3. Exchange("client", "server", 1)
    BY <1>2, <1>3, <2>1, <2>2 DEF Exchange
  <2> QED
    BY <1>3, <2>1, <2>3 DEF Shaking
<1>9. Streaming
  <2> SUFFICES ASSUME NEW p \in Ends
               PROVE  /\ Front(wire[p], Zeros(p))
                      /\ Len(wire[p]) > Zeros(p) => Finished(Peer(p))
                      /\ Finished(p) => ssl[p].in < RecordUnits
                      /\ user[p].failed => pc[p] = "failed"
                      /\ ~user[p].failed =>
                           Rest(wire[p], Zeros(p), Reached(p), Counted(Peer(p)))
    BY DEF Streaming
  <2>1. Zeros(p) = 0
    <3>1. CASE p = "client"
      <4>1. Peer(p) = "server" /\ ~(2 < 1)
        BY <3>1 DEF Peer
      <4> QED
        BY <1>3, <3>1, <4>1 DEF Zeros
    <3>2. CASE p = "server"
      <4>1. Peer(p) = "client" /\ 1 < 2 /\ ssl[p].in = 0
        BY <1>2, <3>2 DEF Peer
      <4>2. Zeros(p) = flights[1] - 0 - flights[1]
        BY <1>3, <3>2, <4>1 DEF Zeros
      <4> QED
        BY <1>1, <4>2
    <3> QED
      BY <3>1, <3>2 DEF Ends
  <2>2. Len(wire[p]) = 0
    BY <1>2
  <2>3. Reached(p) = 0
    <3>1. Reached(p) = RecordUnits * 0 + 0
      BY <1>2, <1>4 DEF Reached
    <3> QED
      BY <1>1, <3>1
  <2>4. Counted(Peer(p)) = 0
    <3>1. Counted(Peer(p)) = RecordUnits * (0 + 0) + 0
      BY <1>2, EndsAre DEF Counted
    <3> QED
      BY <1>1, <3>1
  <2>5. Front(wire[p], 0) /\ Rest(wire[p], 0, 0, 0)
    BY <2>2 DEF Front, Rest
  <2> QED
    BY <1>2, <1>4, <2>1, <2>2, <2>3, <2>4, <2>5
<1>10. Ordered
  BY <1>2 DEF Ordered
<1> QED
  BY <1>5, <1>6, <1>7, <1>8, <1>9, <1>10 DEF Safe, Stream

LEMMA AlwaysSafe == Spec => []Safe
<1>1. Init => Safe
  BY InitSafe
<1>2. Safe /\ [Next]_vars => Safe'
  BY SafeStep
<1> QED
  BY <1>1, <1>2, PTL DEF Spec

-------------------------------------------------------------------------------
(* What follows. *)

\* The types, with the bounds that the model gives: the handshake ends after its last flight,
\* and TCP holds no more than it can (BioWrite, UnderDeadline).
THEOREM TypeCorrect == Spec => []TypeOK
<1>1. Safe => TypeOK
  <2> SUFFICES ASSUME Safe, NEW e \in Ends
               PROVE  /\ pc \in [Ends -> Labels]
                      /\ ssl[e].flight \in 1..Len(flights) + 2
                      /\ ssl[e].out \in Nat /\ ssl[e].record \in 0..RecordUnits
                      /\ Len(wire[e]) <= Cap
                      /\ sock[e].steps \in 0..StepsMax
                      /\ user[e].asked \in 0..MaxRecords
    BY DEF TypeOK, Labels, Safe, Types
  <2>1. Types /\ Shaking
    BY DEF Safe, Stream
  <2>2. ssl[e].flight \in 1..Len(flights) + 2
    <3>0. Len(flights) \in Nat
      BY <2>1, FlightsAre
    <3>1. CASE Exchanged
      <4>1. ssl[e].flight = Len(flights) + 1
        BY <3>1 DEF Exchanged
      <4> QED
        BY <3>0, <4>1
    <3>2. ASSUME NEW s \in Ends, Exchange(s, Peer(s), ssl[Peer(s)].flight)
          PROVE  ssl[e].flight \in 1..Len(flights) + 2
      <4>1. e = s \/ e = Peer(s)
        BY EndsAre
      <4> DEFINE f == ssl[Peer(s)].flight
      <4>2. f \in 1..Len(flights) /\ (ssl[e].flight = f \/ ssl[e].flight = f + 1)
        BY <3>2, <4>1 DEF Exchange
      <4> HIDE DEF f
      <4> QED
        BY <3>0, <4>2
    <3> QED
      BY <2>1, <3>1, <3>2 DEF Shaking
  <2>3. sock[e] \in Socks /\ ssl[e] \in Ssls /\ user[e] \in Users /\ Len(wire[e]) <= Cap
        /\ pc \in [Ends -> Labels]
    BY <2>1 DEF Types
  <2> QED
    BY <2>2, <2>3 DEF Socks, Ssls, Users
<1> QED
  BY <1>1, AlwaysSafe, PTL

\* The flags isReadable and isWritable, which the driver sets before it calls Read or Write,
\* are true whenever BioRead or BioWrite finds them set: it does not wait then.
THEOREM FlagsHonest == Spec => []FlagsTrue
<1>1. Safe => FlagsTrue
  BY DEF Safe
<1> QED
  BY <1>1, AlwaysSafe, PTL

\* The handshake neither loses a request to send nor spins (DriverQuery, DriverPending).
THEOREM SuppressionCorrect == Spec => []SuppressionHonest
<1>1. Safe => SuppressionHonest
  BY DEF Safe, Control, Requested, Polling, SuppressionHonest
<1> QED
  BY <1>1, AlwaysSafe, PTL

\* The units of records on a wire are those behind the flight.
LEMMA RecordUnitsCounted ==
  ASSUME NEW w \in Seq(Nat), NEW z, NEW r \in Nat, NEW c, Front(w, z), Rest(w, z, r, c)
  PROVE  /\ Cardinality({i \in DOMAIN w : w[i] > 0}) \in Nat
         /\ c = r + Cardinality({i \in DOMAIN w : w[i] > 0})
<1>1. Len(w) \in Nat /\ DOMAIN w = 1..Len(w) /\ z \in 0..Len(w)
  BY DEF Front
<1>2. ASSUME NEW i \in 1..Len(w) PROVE w[i] > 0 <=> i \in z + 1 .. Len(w)
  <2>1. CASE i \in 1..z
    <3>1. w[i] = 0
      BY <2>1 DEF Front
    <3> QED
      BY <1>1, <2>1, <3>1
  <2>2. CASE i \in z + 1 .. Len(w)
    <3>1. r + i - z <= RecordUnits * w[i]
      BY <2>2 DEF Rest, Numbered
    <3>2. r + i - z > 0
      BY <1>1, <2>2
    <3>3. w[i] # 0
      <4> SUFFICES ASSUME w[i] = 0 PROVE FALSE
        OBVIOUS
      <4>1. RecordUnits * w[i] = 0
        BY TlsAssumption DEF TlsAssumption
      <4> QED
        BY <1>1, <3>1, <3>2, <4>1
    <3>4. w[i] \in Nat
      OBVIOUS
    <3> QED
      BY <2>2, <3>3, <3>4
  <2> QED
    BY <1>1, <2>1, <2>2
<1>3. {i \in DOMAIN w : w[i] > 0} = z + 1 .. Len(w)
  <2>1. z + 1 .. Len(w) \subseteq 1..Len(w)
    BY <1>1
  <2> QED
    BY <1>1, <1>2, <2>1
<1>4. Cardinality(z + 1 .. Len(w)) = Len(w) - z
  <2>1. z + 1 \in Int /\ Len(w) \in Int
    BY <1>1
  <2>2. Cardinality(z + 1 .. Len(w)) = IF z + 1 > Len(w) THEN 0 ELSE Len(w) - (z + 1) + 1
    BY <2>1, FS_Interval
  <2> QED
    BY <1>1, <2>2
<1>5. c = r + Len(w) - z
  BY DEF Rest
<1> DEFINE k == Cardinality({i \in DOMAIN w : w[i] > 0})
<1>6. k = Len(w) - z
  BY <1>3, <1>4
<1> HIDE DEF k
<1>7. k \in Nat /\ c = r + k
  BY <1>1, <1>5, <1>6
<1> QED
  BY <1>7 DEF k

\* Whatever is cut off and retried, records arrive in order, each once, and what is
\* reported as sent has left (Read, Write, SendSome, Receive).
THEOREM RecordsCorrect == Spec => []RecordsInOrder
<1>1. Safe => RecordsInOrder
  <2> SUFFICES ASSUME Safe, NEW e \in Ends, ~user[Peer(e)].failed
               PROVE  Counted(e) = Passed(e)
    <3>1. ASSUME Safe, NEW e \in Ends, NEW i \in DOMAIN user[e].got
          PROVE  user[e].got[i] = i
      <4>1. user[e].got \in Seq(Nat)
        BY <3>1, SockIs DEF Safe, Users
      <4>2. i \in 1..Len(user[e].got)
        BY <4>1
      <4> QED
        BY <3>1, <4>2 DEF Safe, Stream, Ordered
    <3> QED
      BY <3>1 DEF RecordsInOrder
  <2> DEFINE p == Peer(e)
  <2>1. p \in Ends /\ Peer(p) = e
    BY EndsAre
  <2>2. Types /\ Front(wire[p], Zeros(p)) /\ Rest(wire[p], Zeros(p), Reached(p), Counted(e))
    BY <2>1 DEF Safe, Stream, Streaming
  <2> DEFINE n == Cardinality({i \in DOMAIN wire[p] : wire[p][i] > 0})
             w == RecordUnits * Len(user[p].got)
             in == IF Finished(p) THEN ssl[p].in ELSE 0
  <2>3. wire[p] \in Seq(Nat) /\ Reached(p) \in Nat /\ w \in Nat /\ in \in Nat /\ Reached(p) = w + in
    BY <2>1, <2>2, ReachedMeans
  <2>4. n \in Nat /\ Counted(e) = Reached(p) + n
    BY <2>2, <2>3, RecordUnitsCounted
  <2>5. Passed(e) = w + n + in
    BY DEF Passed
  <2> HIDE DEF p, n, w, in
  <2> QED
    BY <2>3, <2>4, <2>5
<1> QED
  BY <1>1, AlwaysSafe, PTL
===============================================================================
