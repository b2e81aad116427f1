---------------------------- MODULE Scheduler_proofs ----------------------------
(***************************************************************************)
(* Proofs about Scheduler, for any ToDos, timeouts, clock resolution and   *)
(* bounds.  Orderly is the inductive invariant: the list of the driver and *)
(* the order in which ToDos were scheduled hold the same ToDos, once each, *)
(* and the list is sorted stably, so that its front is the ToDo that       *)
(* Agenda would start next.                                                *)
(*                                                                         *)
(* How long poll sleeps is proved from IntSuffices, that no duration which *)
(* occurs is too long for the int of poll: the code does not check it.     *)
(***************************************************************************)
EXTENDS Scheduler, SequenceTheorems, WellFoundedInduction, TLAPS

\* Every duration up to the last time of a ToDo and up to the longest timeout, in ms,
\* has the same value as an int.
IntSuffices == /\ \A ms \in 0..(MaxTime \div TicksPerMs) : ToMsec(ms) = ms
               /\ \A timeout \in Timeouts : \A ms \in 0..timeout : ToMsec(ms) = ms

\* What q holds, and in which order.
In(q, t)        == \E i \in DOMAIN q : q[i] = t
Before(q, t, u) == \E i, j \in DOMAIN q : i < j /\ q[i] = t /\ q[j] = u

\* Nothing is in q twice.
Distinct(q) == \A i, j \in DOMAIN q : q[i] = q[j] => i = j

\* The types of the variables; when poll ends is left to NeverOversleeps.
Types == /\ now \in 0..MaxTime
         /\ todos \in Seq(Tasks)
         /\ order \in Seq(Tasks)
         /\ when \in [Tasks -> 0..MaxTime]
         /\ driver \in {"out", "todos", "task", "poll"}
         /\ deadline \in [kind : {"unlimited", "zero", "limited"}, now : Nat, end : Int]
         /\ deadline.now <= now

\* The list holds what was scheduled, once.
Listed == /\ Distinct(todos)
          /\ Distinct(order)
          /\ \A t \in Tasks : In(todos, t) <=> In(order, t)

\* StepTodos looks at a first ToDo only if there is one, and never in a task.
Control == /\ driver = "todos" => todos # <<>>
           /\ IF driver = "task" THEN \E t \in Tasks : current = {t} ELSE current = {}

\* The inductive invariant.
Orderly == Types /\ Listed /\ Control /\ SortedStable

\* What a limited deadline leaves is never more than some timeout of Step().
Limited ==
  deadline.kind = "limited" =>
    \E timeout \in Timeouts : timeout > 0 /\ deadline.end - deadline.now <= timeout * TicksPerMs

\* Poll has an end, unless nothing limits it.
Ends == driver = "poll" /\ (todos # <<>> \/ deadline.kind # "unlimited") => pollEnd \in Int

\* The inductive invariant of the polls.
Punctual == Orderly /\ Limited /\ Ends /\ NeverOversleeps /\ StepWithinTimeout

-------------------------------------------------------------------------------
(* Sequences. *)

\* q without its n-th element.
LEMMA EraseNth ==
  ASSUME NEW S, NEW q \in Seq(S), NEW n \in 1..Len(q)
  PROVE  LET r == SubSeq(q, 1, n - 1) \o SubSeq(q, n + 1, Len(q))
         IN  /\ r \in Seq(S)
             /\ Len(r) = Len(q) - 1
             /\ \A i \in 1..Len(q) - 1 : r[i] = IF i < n THEN q[i] ELSE q[i + 1]
<1> DEFINE a == SubSeq(q, 1, n - 1)
           b == SubSeq(q, n + 1, Len(q))
<1>1. Len(q) \in Nat /\ n \in Nat
  BY LenProperties
<1>2. /\ a \in Seq(S)
      /\ Len(a) = n - 1
      /\ \A i \in 1..n - 1 : a[i] = q[i]
  BY <1>1, LenProperties, SubSeqProperties
<1>3. /\ b \in Seq(S)
      /\ Len(b) = Len(q) - n
      /\ \A i \in 1..Len(q) - n : b[i] = q[n + i]
  BY <1>1, LenProperties, SubSeqProperties
<1> HIDE DEF a, b
<1>4. /\ a \o b \in Seq(S)
      /\ Len(a \o b) = Len(q) - 1
      /\ \A i \in 1..Len(q) - 1 : (a \o b)[i] = IF i <= n - 1 THEN a[i] ELSE b[i - (n - 1)]
  <2>1. /\ a \o b \in Seq(S)
        /\ Len(a \o b) = Len(a) + Len(b)
        /\ \A i \in 1..Len(a) + Len(b) :
             (a \o b)[i] = IF i <= Len(a) THEN a[i] ELSE b[i - Len(a)]
    BY <1>2, <1>3, ConcatProperties, Zenon
  <2>2. Len(a) = n - 1 /\ Len(a) + Len(b) = Len(q) - 1
    BY <1>1, <1>2, <1>3
  <2> QED
    BY <2>1, <2>2, Zenon
<1>5. \A i \in 1..Len(q) - 1 : (a \o b)[i] = IF i < n THEN q[i] ELSE q[i + 1]
  <2> SUFFICES ASSUME NEW i \in 1..Len(q) - 1
               PROVE  (a \o b)[i] = IF i < n THEN q[i] ELSE q[i + 1]
    OBVIOUS
  <2>1. CASE i < n
    BY <1>1, <1>2, <1>4, <2>1
  <2>2. CASE ~(i < n)
    <3>1. i - (n - 1) \in 1..Len(q) - n
      BY <1>1, <2>2
    <3>2. b[i - (n - 1)] = q[n + (i - (n - 1))]
      BY <1>3, <3>1
    <3>3. n + (i - (n - 1)) = i + 1
      BY <1>1
    <3> QED
      BY <1>1, <1>4, <2>2, <3>2, <3>3
  <2> QED
    BY <2>1, <2>2
<1> QED
  BY <1>4, <1>5 DEF a, b

\* r is q with e put before its p-th element, or at its end.
Insertion(r, q, p, e) ==
  /\ Len(r) = Len(q) + 1
  /\ \A i \in 1..Len(q) + 1 : r[i] = IF i < p THEN q[i] ELSE IF i = p THEN e ELSE q[i - 1]

\* How a deque inserts: what was before, the element, what was behind.
LEMMA InsertNth ==
  ASSUME NEW S, NEW q \in Seq(S), NEW e \in S, NEW p \in 1..Len(q) + 1
  PROVE  LET r == SubSeq(q, 1, p - 1) \o <<e>> \o SubSeq(q, p, Len(q))
         IN  r \in Seq(S) /\ Insertion(r, q, p, e)
<1> DEFINE a == SubSeq(q, 1, p - 1)
           b == SubSeq(q, p, Len(q))
           n == Len(q)
<1>1. n \in Nat /\ p \in Nat /\ DOMAIN q = 1..n
  BY LenProperties
<1>2. /\ a \in Seq(S)
      /\ Len(a) = p - 1
      /\ \A i \in 1..p - 1 : a[i] = q[i]
  BY <1>1, LenProperties, SubSeqProperties
<1>3. /\ b \in Seq(S)
      /\ Len(b) = n - p + 1
      /\ \A i \in 1..n - p + 1 : b[i] = q[p + i - 1]
  BY <1>1, LenProperties, SubSeqProperties
<1>4. <<e>> \in Seq(S) /\ Len(<<e>>) = 1 /\ <<e>>[1] = e
  OBVIOUS
<1> HIDE DEF a, b, n
<1>5. /\ a \o <<e>> \in Seq(S)
      /\ Len(a \o <<e>>) = p
      /\ \A i \in 1..p : (a \o <<e>>)[i] = IF i < p THEN q[i] ELSE e
  <2>1. /\ a \o <<e>> \in Seq(S)
        /\ Len(a \o <<e>>) = Len(a) + 1
        /\ \A i \in 1..Len(a) + 1 :
             (a \o <<e>>)[i] = IF i <= Len(a) THEN a[i] ELSE <<e>>[i - Len(a)]
    BY <1>2, <1>4, ConcatProperties, Zenon
  <2>2. \A i \in 1..p : i <= p - 1 \/ i = p
    BY <1>1
  <2> QED
    BY <1>1, <1>2, <1>4, <2>1, <2>2
<1> DEFINE c == a \o <<e>>
<1>6. c \in Seq(S) /\ Len(c) = p /\ \A i \in 1..p : c[i] = IF i < p THEN q[i] ELSE e
  BY <1>5
<1> HIDE DEF c
<1>7. /\ c \o b \in Seq(S)
      /\ Len(c \o b) = n + 1
      /\ \A i \in 1..n + 1 : (c \o b)[i] = IF i <= p THEN c[i] ELSE b[i - p]
  <2>1. /\ c \o b \in Seq(S)
        /\ Len(c \o b) = Len(c) + Len(b)
        /\ \A i \in 1..Len(c) + Len(b) : (c \o b)[i] = IF i <= Len(c) THEN c[i] ELSE b[i - Len(c)]
    BY <1>3, <1>6, ConcatProperties, Zenon
  <2>2. Len(c) = p /\ Len(c) + Len(b) = n + 1
    BY <1>1, <1>3, <1>6
  <2> QED
    BY <2>1, <2>2, Zenon
<1>8. \A i \in 1..n + 1 : (c \o b)[i] = IF i < p THEN q[i] ELSE IF i = p THEN e ELSE q[i - 1]
  <2> SUFFICES ASSUME NEW i \in 1..n + 1
               PROVE  (c \o b)[i] = IF i < p THEN q[i] ELSE IF i = p THEN e ELSE q[i - 1]
    OBVIOUS
  <2>1. CASE i <= p
    BY <1>1, <1>6, <1>7, <2>1
  <2>2. CASE ~(i <= p)
    <3>1. i - p \in 1..n - p + 1
      BY <1>1, <2>2 DEF n
    <3>2. b[i - p] = q[p + (i - p) - 1]
      BY <1>3, <3>1
    <3>3. p + (i - p) - 1 = i - 1
      BY <1>1
    <3> QED
      BY <1>1, <1>7, <2>2, <3>2, <3>3
  <2> QED
    BY <2>1, <2>2
<1> QED
  BY <1>7, <1>8 DEF Insertion, a, b, c, n

\* Where a sequence without repetitions is searched for t and t is erased.
LEMMA RemovedProperties ==
  ASSUME NEW S, NEW q \in Seq(S), Distinct(q), NEW t
  PROVE  /\ Removed(q, t) \in Seq(S)
         /\ Distinct(Removed(q, t))
         /\ \A u : In(Removed(q, t), u) <=> u # t /\ In(q, u)
         /\ \A u, v : Before(Removed(q, t), u, v) <=> u # t /\ v # t /\ Before(q, u, v)
<1> DEFINE n == Len(q)
           r == Removed(q, t)
<1>1. n \in Nat /\ DOMAIN q = 1..n
  BY LenProperties
<1>2. CASE \A i \in DOMAIN q : q[i] # t
  BY <1>2 DEF Removed, In, Before
<1>3. CASE \E i \in DOMAIN q : q[i] = t
  <2>1. PICK p \in DOMAIN q : q[p] = t
    BY <1>3
  <2>2. \A i \in DOMAIN q : q[i] = t <=> i = p
    BY <2>1 DEF Distinct
  <2>3. (CHOOSE i \in DOMAIN q : q[i] = t /\ \A j \in 1..i - 1 : q[j] # t) = p
    BY <1>1, <2>2
  <2>4. r = SubSeq(q, 1, p - 1) \o SubSeq(q, p + 1, Len(q))
    BY <1>3, <2>3 DEF Removed
  <2> HIDE DEF r
  <2>5. /\ r \in Seq(S)
        /\ Len(r) = n - 1
        /\ \A i \in 1..n - 1 : r[i] = IF i < p THEN q[i] ELSE q[i + 1]
    <3>1. p \in 1..Len(q)
      BY <1>1
    <3> QED
      BY <2>4, <3>1, EraseNth, Zenon
  <2>6. DOMAIN r = 1..n - 1
    BY <2>5, LenProperties
  <2> DEFINE Was(i) == IF i < p THEN i ELSE i + 1
             Is(j)  == IF j < p THEN j ELSE j - 1
  <2> HIDE DEF n
  <2>7. \A i \in DOMAIN r : Was(i) \in DOMAIN q \ {p} /\ r[i] = q[Was(i)]
    BY <1>1, <2>1, <2>5, <2>6
  <2>8. \A j \in DOMAIN q \ {p} : Is(j) \in DOMAIN r /\ r[Is(j)] = q[j]
    <3> SUFFICES ASSUME NEW j \in DOMAIN q \ {p} PROVE Is(j) \in DOMAIN r /\ r[Is(j)] = q[j]
      OBVIOUS
    <3>1. CASE j < p
      BY <1>1, <2>1, <2>5, <2>6, <3>1
    <3>2. CASE ~(j < p)
      <4>1. Is(j) = j - 1 /\ j - 1 \in 1..n - 1 /\ ~(j - 1 < p) /\ j - 1 + 1 = j
        BY <1>1, <2>1, <3>2
      <4> QED
        BY <2>5, <2>6, <4>1
    <3> QED
      BY <3>1, <3>2
  <2>9. /\ \A i, j \in DOMAIN r : i < j => Was(i) < Was(j)
        /\ \A i, j \in DOMAIN r : Was(i) = Was(j) => i = j
        /\ \A i, j \in DOMAIN q \ {p} : i < j => Is(i) < Is(j)
    BY <1>1, <2>1, <2>6
  <2> HIDE DEF Was, Is
  <2>10. Distinct(r)
    BY <2>7, <2>9 DEF Distinct
  <2>11. \A u : In(r, u) <=> u # t /\ In(q, u)
    BY <2>2, <2>7, <2>8 DEF In
  <2>12. \A u, v : Before(r, u, v) <=> u # t /\ v # t /\ Before(q, u, v)
    <3> SUFFICES ASSUME NEW u, NEW v
                 PROVE  Before(r, u, v) <=> u # t /\ v # t /\ Before(q, u, v)
      OBVIOUS
    <3>1. ASSUME Before(r, u, v) PROVE u # t /\ v # t /\ Before(q, u, v)
      <4>1. PICK i, j \in DOMAIN r : i < j /\ r[i] = u /\ r[j] = v
        BY <3>1 DEF Before
      <4>2. /\ Was(i) \in DOMAIN q \ {p} /\ q[Was(i)] = u
            /\ Was(j) \in DOMAIN q \ {p} /\ q[Was(j)] = v
            /\ Was(i) < Was(j)
        BY <2>7, <2>9, <4>1
      <4> QED
        BY <2>2, <4>2 DEF Before
    <3>2. ASSUME u # t, v # t, Before(q, u, v) PROVE Before(r, u, v)
      <4>1. PICK i, j \in DOMAIN q : i < j /\ q[i] = u /\ q[j] = v
        BY <3>2 DEF Before
      <4>2. i # p /\ j # p
        BY <2>1, <3>2, <4>1
      <4>3. /\ Is(i) \in DOMAIN r /\ r[Is(i)] = u
            /\ Is(j) \in DOMAIN r /\ r[Is(j)] = v
            /\ Is(i) < Is(j)
        BY <2>8, <2>9, <4>1, <4>2
      <4> QED
        BY <4>3 DEF Before
    <3> QED
      BY <3>1, <3>2
  <2> QED
    BY <2>5, <2>10, <2>11, <2>12 DEF r
<1> QED
  BY <1>2, <1>3

\* What is appended comes last.
LEMMA AppendedProperties ==
  ASSUME NEW S, NEW q \in Seq(S), Distinct(q), NEW t \in S, ~In(q, t)
  PROVE  /\ Append(q, t) \in Seq(S)
         /\ Distinct(Append(q, t))
         /\ \A u : In(Append(q, t), u) <=> u = t \/ In(q, u)
         /\ \A u, v : Before(Append(q, t), u, v) <=> Before(q, u, v) \/ (v = t /\ In(q, u))
<1> DEFINE n == Len(q)
           r == Append(q, t)
<1>1. n \in Nat /\ DOMAIN q = 1..n
  BY LenProperties
<1>2. /\ r \in Seq(S) /\ Len(r) = n + 1 /\ r[n + 1] = t
      /\ \A i \in 1..n : r[i] = q[i]
  BY <1>1, AppendProperties
<1>3. DOMAIN r = 1..n + 1
  BY <1>2, LenProperties
<1> HIDE DEF n, r
<1>4. \A i \in DOMAIN q : q[i] # t
  BY DEF In
<1>5. Distinct(r)
  BY <1>1, <1>2, <1>3, <1>4 DEF Distinct
<1>6. \A u : In(r, u) <=> u = t \/ In(q, u)
  <2> SUFFICES ASSUME NEW u PROVE In(r, u) <=> u = t \/ In(q, u)
    OBVIOUS
  <2>1. \A i \in DOMAIN r : i \in DOMAIN q \/ i = n + 1
    BY <1>1, <1>3
  <2>2. DOMAIN q \subseteq DOMAIN r /\ n + 1 \in DOMAIN r
    BY <1>1, <1>3
  <2> QED
    BY <1>1, <1>2, <2>1, <2>2, Zenon DEF In
<1>7. \A u, v : Before(r, u, v) <=> Before(q, u, v) \/ (v = t /\ In(q, u))
  <2> SUFFICES ASSUME NEW u, NEW v
               PROVE  Before(r, u, v) <=> Before(q, u, v) \/ (v = t /\ In(q, u))
    OBVIOUS
  <2>1. ASSUME Before(r, u, v) PROVE Before(q, u, v) \/ (v = t /\ In(q, u))
    <3>1. PICK i, j \in DOMAIN r : i < j /\ r[i] = u /\ r[j] = v
      BY <2>1 DEF Before
    <3>2. i \in DOMAIN q /\ q[i] = u
      BY <1>1, <1>2, <1>3, <3>1
    <3>3. CASE j = n + 1
      BY <1>2, <3>1, <3>2, <3>3 DEF In
    <3>4. CASE j # n + 1
      <4>1. j \in DOMAIN q /\ q[j] = v
        BY <1>1, <1>2, <1>3, <3>1, <3>4
      <4> QED
        BY <3>1, <3>2, <4>1 DEF Before
    <3> QED
      BY <3>3, <3>4
  <2>2. ASSUME Before(q, u, v) PROVE Before(r, u, v)
    <3>1. PICK i, j \in DOMAIN q : i < j /\ q[i] = u /\ q[j] = v
      BY <2>2 DEF Before
    <3>2. i \in DOMAIN r /\ j \in DOMAIN r /\ r[i] = u /\ r[j] = v
      BY <1>1, <1>2, <1>3, <3>1
    <3> QED
      BY <3>1, <3>2 DEF Before
  <2>3. ASSUME v = t, In(q, u) PROVE Before(r, u, v)
    <3>1. PICK i \in DOMAIN q : q[i] = u
      BY <2>3 DEF In
    <3>2. i \in DOMAIN r /\ n + 1 \in DOMAIN r /\ i < n + 1 /\ r[i] = u /\ r[n + 1] = v
      BY <1>1, <1>2, <1>3, <2>3, <3>1
    <3> QED
      BY <3>2 DEF Before
  <2> QED
    BY <2>1, <2>2, <2>3
<1> QED
  BY <1>2, <1>5, <1>6, <1>7 DEF r

\* The front is before all others; without it the rest is as it was.
LEMMA TailOf ==
  ASSUME NEW S, NEW q \in Seq(S), Distinct(q), q # <<>>
  PROVE  /\ Head(q) \in S
         /\ In(q, Head(q))
         /\ \A u : In(q, u) => u = Head(q) \/ Before(q, Head(q), u)
         /\ Tail(q) \in Seq(S)
         /\ Distinct(Tail(q))
         /\ \A u : In(Tail(q), u) <=> u # Head(q) /\ In(q, u)
         /\ \A u, v : Before(Tail(q), u, v) => Before(q, u, v)
<1> DEFINE n == Len(q)
           r == Tail(q)
           h == Head(q)
<1>1. /\ n \in Nat \ {0} /\ DOMAIN q = 1..n
      /\ h \in S /\ h = q[1]
      /\ r \in Seq(S) /\ Len(r) = n - 1
      /\ \A i \in 1..n - 1 : r[i] = q[i + 1]
  BY HeadTailProperties, EmptySeq, LenProperties
<1>2. DOMAIN r = 1..n - 1
  BY <1>1, LenProperties
<1> HIDE DEF n, r, h
<1>3. 1 \in DOMAIN q
  BY <1>1
<1>4. \A u : In(q, u) => u = h \/ Before(q, h, u)
  <2> SUFFICES ASSUME NEW i \in DOMAIN q PROVE q[i] = h \/ Before(q, h, q[i])
    BY DEF In
  <2>1. i = 1 \/ 1 < i
    BY <1>1
  <2> QED
    BY <1>1, <1>3, <2>1 DEF Before
<1>5. \A i \in DOMAIN r : i + 1 \in DOMAIN q /\ i + 1 # 1 /\ r[i] = q[i + 1]
  BY <1>1, <1>2
<1>6. \A j \in DOMAIN q : j # 1 => j - 1 \in DOMAIN r /\ r[j - 1] = q[j]
  <2> SUFFICES ASSUME NEW j \in DOMAIN q, j # 1 PROVE j - 1 \in DOMAIN r /\ r[j - 1] = q[j]
    OBVIOUS
  <2>1. j - 1 \in 1..n - 1 /\ j - 1 + 1 = j
    BY <1>1
  <2> QED
    BY <1>1, <1>2, <2>1
<1>7. Distinct(r)
  BY <1>1, <1>2, <1>5 DEF Distinct
<1>8. \A u : In(r, u) <=> u # h /\ In(q, u)
  <2>1. \A i \in DOMAIN q : i # 1 => q[i] # h
    BY <1>1, <1>3 DEF Distinct
  <2>2. ASSUME NEW u, In(r, u) PROVE u # h /\ In(q, u)
    BY <1>5, <2>1, <2>2 DEF In
  <2>3. ASSUME NEW u, u # h, In(q, u) PROVE In(r, u)
    BY <1>1, <1>6, <2>3 DEF In
  <2> QED
    BY <2>2, <2>3
<1>9. \A u, v : Before(r, u, v) => Before(q, u, v)
  <2> SUFFICES ASSUME NEW i \in DOMAIN r, NEW j \in DOMAIN r, i < j
               PROVE  Before(q, r[i], r[j])
    BY DEF Before
  <2>1. i + 1 < j + 1
    BY <1>1, <1>2
  <2> QED
    BY <1>5, <2>1 DEF Before
<1> QED
  BY <1>1, <1>3, <1>4, <1>7, <1>8, <1>9 DEF In, r, h

-------------------------------------------------------------------------------
(* The sorted list. *)

\* Every set of naturals has a least element.
LEMMA Least ==
  ASSUME NEW T, T \subseteq Nat, T # {}
  PROVE  \E x \in T : \A y \in T : x <= y
<1> DEFINE R == {ss \in Nat \X Nat : ss[1] < ss[2]}
<1>1. IsWellFoundedOn(R, Nat)
  BY NatLessThanWellFounded, Zenon DEF OpToRel
<1> HIDE DEF R
<1>2. PICK x \in T : \A y \in T : <<y, x>> \notin R
  BY <1>1, WFMin, Zenon
<1>3. \A y \in T : x <= y
  <2> SUFFICES ASSUME NEW y \in T, ~(x <= y) PROVE FALSE
    OBVIOUS
  <2>1. y \in Nat /\ x \in Nat /\ y < x
    OBVIOUS
  <2>2. <<y, x>> \in R
    BY <2>1 DEF R
  <2> QED
    BY <1>2, <2>2
<1> QED
  BY <1>3

\* The search finds the first ToDo that is due later, or the end.
LEMMA WhereIs ==
  ASSUME NEW q \in Seq(Tasks), when \in [Tasks -> Nat], NEW w \in Nat
  PROVE  /\ Where(q, w) \in 1..Len(q) + 1
         /\ \A j \in 1..Where(q, w) - 1 : when[q[j]] <= w
         /\ Where(q, w) <= Len(q) => w < when[q[Where(q, w)]]
<1> DEFINE n == Len(q)
           Later == {i \in 1..n : w < when[q[i]]}
           First(i) == /\ \A j \in 1..i - 1 : ~(w < when[q[j]])
                       /\ i <= n => w < when[q[i]]
<1>1. n \in Nat /\ DOMAIN q = 1..n
  BY LenProperties
<1>2. \A i \in 1..n : when[q[i]] \in Nat
  BY <1>1
<1> HIDE DEF n
<1>3. \E i \in 1..n + 1 : First(i)
  <2>1. CASE Later = {}
    <3>1. n + 1 \in 1..n + 1 /\ ~(n + 1 <= n)
      BY <1>1
    <3>2. \A j \in 1..(n + 1) - 1 : j \in 1..n
      BY <1>1
    <3>3. \A j \in 1..n : ~(w < when[q[j]])
      BY <2>1
    <3>4. First(n + 1)
      BY <3>1, <3>2, <3>3
    <3> HIDE DEF First
    <3> QED
      BY <3>1, <3>4
  <2>2. CASE Later # {}
    <3>1. Later \subseteq Nat
      BY <1>1
    <3>2. PICK i \in Later : \A j \in Later : i <= j
      BY <2>2, <3>1, Least
    <3>3. i \in 1..n /\ w < when[q[i]]
      BY <3>2
    <3>4. \A j \in 1..i - 1 : ~(w < when[q[j]])
      <4> SUFFICES ASSUME NEW j \in 1..i - 1, w < when[q[j]] PROVE FALSE
        OBVIOUS
      <4>1. j \in 1..n /\ ~(i <= j)
        BY <1>1, <3>3
      <4>2. j \in Later
        BY <4>1
      <4> QED
        BY <3>2, <4>1, <4>2
    <3>5. i \in 1..n + 1
      BY <1>1, <3>3
    <3> QED
      BY <3>3, <3>4, <3>5
  <2> QED
    BY <2>1, <2>2
<1>4. Where(q, w) \in 1..n + 1 /\ First(Where(q, w))
  BY <1>3, Zenon DEF Where, n
<1>5. \A j \in 1..Where(q, w) - 1 : when[q[j]] <= w
  <2> SUFFICES ASSUME NEW j \in 1..Where(q, w) - 1 PROVE when[q[j]] <= w
    OBVIOUS
  <2>1. j \in 1..n
    BY <1>1, <1>4
  <2> QED
    BY <1>2, <1>4, <2>1
<1> QED
  BY <1>4, <1>5 DEF n

\* A ToDo is put behind those that are due at its time or before it, and in front of
\* those that are due later.
LEMMA InsertedProperties ==
  ASSUME NEW q \in Seq(Tasks), Distinct(q), NEW t \in Tasks, ~In(q, t),
         when \in [Tasks -> Nat], NEW w \in Nat,
         \A u, v \in Tasks : Before(q, u, v) => when[u] <= when[v]
  PROVE  /\ Inserted(q, t, w) \in Seq(Tasks)
         /\ Distinct(Inserted(q, t, w))
         /\ \A u : In(Inserted(q, t, w), u) <=> u = t \/ In(q, u)
         /\ \A u, v : Before(Inserted(q, t, w), u, v) =>
              \/ Before(q, u, v)
              \/ v = t /\ In(q, u) /\ when[u] <= w
              \/ u = t /\ In(q, v) /\ w < when[v]
<1> DEFINE n == Len(q)
           r == Inserted(q, t, w)
           p == Where(q, w)
<1>1. n \in Nat /\ DOMAIN q = 1..n
  BY LenProperties
<1>2. /\ p \in 1..n + 1
      /\ \A j \in 1..p - 1 : when[q[j]] <= w
      /\ p <= n => w < when[q[p]]
  BY WhereIs
<1>3. /\ r \in Seq(Tasks) /\ Len(r) = n + 1
      /\ \A i \in 1..n + 1 : r[i] = IF i < p THEN q[i] ELSE IF i = p THEN t ELSE q[i - 1]
  <2> HIDE DEF p
  <2>1. r = SubSeq(q, 1, p - 1) \o <<t>> \o SubSeq(q, p, Len(q))
    BY DEF Inserted, p
  <2>2. p \in 1..Len(q) + 1
    BY <1>2
  <2> HIDE DEF r, n
  <2>3. r \in Seq(Tasks) /\ Insertion(r, q, p, t)
    BY <2>1, <2>2, InsertNth, Zenon
  <2> QED
    BY <2>3 DEF Insertion, n
<1>4. DOMAIN r = 1..n + 1
  BY <1>3, LenProperties
<1> DEFINE Was(i) == IF i < p THEN i ELSE i - 1
           Is(j)  == IF j < p THEN j ELSE j + 1
<1> HIDE DEF n, r, p
<1>5. p \in DOMAIN r /\ r[p] = t
  BY <1>1, <1>2, <1>3, <1>4
<1>6. \A i \in DOMAIN r \ {p} : Was(i) \in DOMAIN q /\ r[i] = q[Was(i)]
  <2> SUFFICES ASSUME NEW i \in DOMAIN r \ {p} PROVE Was(i) \in DOMAIN q /\ r[i] = q[Was(i)]
    OBVIOUS
  <2>1. CASE i < p
    BY <1>1, <1>2, <1>3, <1>4, <2>1
  <2>2. CASE ~(i < p)
    <3>1. i - 1 \in 1..n
      BY <1>1, <1>2, <1>4, <2>2
    <3> QED
      BY <1>1, <1>3, <1>4, <2>2, <3>1
  <2> QED
    BY <2>1, <2>2
<1>7. \A j \in DOMAIN q : Is(j) \in DOMAIN r \ {p} /\ r[Is(j)] = q[j]
  <2> SUFFICES ASSUME NEW j \in DOMAIN q PROVE Is(j) \in DOMAIN r \ {p} /\ r[Is(j)] = q[j]
    OBVIOUS
  <2>1. CASE j < p
    <3>1. j \in 1..n + 1
      BY <1>1
    <3> QED
      BY <1>1, <1>2, <1>3, <1>4, <2>1, <3>1
  <2>2. CASE ~(j < p)
    <3>1. j + 1 \in 1..n + 1 /\ ~(j + 1 < p) /\ j + 1 # p /\ j + 1 - 1 = j
      BY <1>1, <1>2, <2>2
    <3> QED
      BY <1>3, <1>4, <2>2, <3>1
  <2> QED
    BY <2>1, <2>2
<1>8. /\ \A i, j \in DOMAIN r \ {p} : i < j => Was(i) < Was(j)
      /\ \A i, j \in DOMAIN r \ {p} : Was(i) = Was(j) => i = j
      /\ \A i \in DOMAIN r \ {p} : i < p => Was(i) \in 1..p - 1
      /\ \A i \in DOMAIN r \ {p} : p < i => p <= n /\ (Was(i) = p \/ p < Was(i))
  <2>1. p \in Int /\ n \in Int /\ \A i \in DOMAIN r \ {p} : i \in Int /\ 1 <= i /\ i <= n + 1 /\ i # p
    BY <1>1, <1>2, <1>4
  <2>2. \A i, j \in DOMAIN r \ {p} : i < j => Was(i) < Was(j)
    BY <2>1
  <2>3. \A i, j \in DOMAIN r \ {p} : Was(i) = Was(j) => i = j
    BY <2>1
  <2>4. \A i \in DOMAIN r \ {p} : i < p => Was(i) \in 1..p - 1
    BY <2>1
  <2>5. \A i \in DOMAIN r \ {p} : p < i => p <= n /\ (Was(i) = p \/ p < Was(i))
    BY <2>1
  <2> QED
    BY <2>2, <2>3, <2>4, <2>5
<1> HIDE DEF Was, Is
<1>9. \A j \in DOMAIN q : q[j] # t
  BY DEF In
<1>10. Distinct(r)
  <2> SUFFICES ASSUME NEW i \in DOMAIN r, NEW j \in DOMAIN r, r[i] = r[j]
               PROVE  i = j
    BY DEF Distinct
  <2>1. i = p <=> j = p
    BY <1>5, <1>6, <1>9
  <2> QED
    BY <1>6, <1>8, <2>1 DEF Distinct
<1>11. \A u : In(r, u) <=> u = t \/ In(q, u)
  BY <1>5, <1>6, <1>7 DEF In
<1>12. \A j \in DOMAIN q : p <= n /\ p < j => w < when[q[j]]
  <2> SUFFICES ASSUME NEW j \in DOMAIN q, p <= n, p < j PROVE w < when[q[j]]
    OBVIOUS
  <2>1. p \in DOMAIN q /\ q[p] \in Tasks /\ q[j] \in Tasks
    BY <1>1, <1>2
  <2>2. when[q[p]] <= when[q[j]]
    BY <2>1 DEF Before
  <2>3. when[q[p]] \in Nat /\ when[q[j]] \in Nat
    BY <2>1
  <2> QED
    BY <1>2, <2>2, <2>3
<1>13. ASSUME NEW i \in DOMAIN r, NEW j \in DOMAIN r, i < j
       PROVE  \/ Before(q, r[i], r[j])
              \/ r[j] = t /\ In(q, r[i]) /\ when[r[i]] <= w
              \/ r[i] = t /\ In(q, r[j]) /\ w < when[r[j]]
  <2>1. CASE i # p /\ j # p
    BY <1>6, <1>8, <1>13, <2>1 DEF Before
  <2>2. CASE j = p
    <3>1. i # p /\ Was(i) \in 1..p - 1
      BY <1>4, <1>8, <1>13, <2>2
    <3>2. Was(i) \in DOMAIN q /\ r[i] = q[Was(i)]
      BY <1>6, <3>1
    <3> QED
      BY <1>2, <1>5, <2>2, <3>1, <3>2 DEF In
  <2>3. CASE i = p
    <3>1. j # p /\ p <= n /\ (Was(j) = p \/ p < Was(j))
      BY <1>4, <1>8, <1>13, <2>3
    <3>2. Was(j) \in DOMAIN q /\ r[j] = q[Was(j)]
      BY <1>6, <3>1
    <3>3. w < when[q[Was(j)]]
      BY <1>2, <1>12, <3>1, <3>2
    <3> QED
      BY <1>5, <2>3, <3>2, <3>3 DEF In
  <2> QED
    BY <2>1, <2>2, <2>3
<1>14. \A u, v : Before(r, u, v) =>
              \/ Before(q, u, v)
              \/ v = t /\ In(q, u) /\ when[u] <= w
              \/ u = t /\ In(q, v) /\ w < when[v]
  BY <1>13 DEF Before
<1> QED
  BY <1>3, <1>10, <1>11, <1>14 DEF r

\* Sorted by time and then by the order of scheduling.
SortedBy(q, o, w) ==
  \A u, v \in Tasks : Before(q, u, v) => \/ w[u] < w[v]
                                         \/ w[u] = w[v] /\ Before(o, u, v)

LEMMA SortedMeans ==
  ASSUME NEW q \in Seq(Tasks), NEW o, NEW w
  PROVE  SortedBy(q, o, w) <=> \A i, j \in DOMAIN q : i < j =>
                                 \/ w[q[i]] < w[q[j]]
                                 \/ w[q[i]] = w[q[j]] /\ Before(o, q[i], q[j])
<1>1. \A i \in DOMAIN q : q[i] \in Tasks
  BY LenProperties
<1>2. ASSUME SortedBy(q, o, w), NEW i \in DOMAIN q, NEW j \in DOMAIN q, i < j
      PROVE  w[q[i]] < w[q[j]] \/ (w[q[i]] = w[q[j]] /\ Before(o, q[i], q[j]))
  <2>1. Before(q, q[i], q[j]) /\ q[i] \in Tasks /\ q[j] \in Tasks
    BY <1>1, <1>2 DEF Before
  <2> QED
    BY <1>2, <2>1, Zenon DEF SortedBy
<1>3. ASSUME \A i, j \in DOMAIN q : i < j => \/ w[q[i]] < w[q[j]]
                                             \/ w[q[i]] = w[q[j]] /\ Before(o, q[i], q[j]),
             NEW u \in Tasks, NEW v \in Tasks, Before(q, u, v)
      PROVE  w[u] < w[v] \/ (w[u] = w[v] /\ Before(o, u, v))
  <2>1. PICK i, j \in DOMAIN q : i < j /\ q[i] = u /\ q[j] = v
    BY <1>3 DEF Before
  <2> QED
    BY <1>3, <2>1, Zenon
<1> QED
  BY <1>2, <1>3, Zenon DEF SortedBy

\* The two ways to say it agree, now and after a step.
LEMMA SortedNow ==
  /\ todos \in Seq(Tasks) => (SortedStable <=> SortedBy(todos, order, when))
  /\ todos' \in Seq(Tasks) => (SortedStable' <=> SortedBy(todos', order', when'))
<1>1. ASSUME todos \in Seq(Tasks) PROVE SortedStable <=> SortedBy(todos, order, when)
  <2>1. SortedStable <=> \A i, j \in DOMAIN todos : i < j =>
                           \/ when[todos[i]] < when[todos[j]]
                           \/ when[todos[i]] = when[todos[j]] /\ Before(order, todos[i], todos[j])
    BY DEF SortedStable, Earlier, Before
  <2> QED
    BY <1>1, <2>1, SortedMeans
<1>2. ASSUME todos' \in Seq(Tasks) PROVE SortedStable' <=> SortedBy(todos', order', when')
  <2>1. SortedStable' <=> \A i, j \in DOMAIN todos' : i < j =>
                            \/ when'[todos'[i]] < when'[todos'[j]]
                            \/ /\ when'[todos'[i]] = when'[todos'[j]]
                               /\ Before(order', todos'[i], todos'[j])
    BY DEF SortedStable, Earlier, Before
  <2> QED
    BY <1>2, <2>1, SortedMeans
<1> QED
  BY <1>1, <1>2

-------------------------------------------------------------------------------
(* What the driver does to the list. *)

\* Without t the list and the order remain what they are for the others.
LEMMA RemovedOrderly ==
  ASSUME Orderly, NEW t
  PROVE  LET q == Removed(todos, t)
             o == Removed(order, t)
         IN  /\ q \in Seq(Tasks) /\ o \in Seq(Tasks)
             /\ Distinct(q) /\ Distinct(o)
             /\ ~In(q, t) /\ ~In(o, t)
             /\ \A u \in Tasks : In(q, u) <=> In(o, u)
             /\ SortedBy(q, o, when)
<1> DEFINE q == Removed(todos, t)
           o == Removed(order, t)
<1>1. /\ todos \in Seq(Tasks) /\ order \in Seq(Tasks)
      /\ Distinct(todos) /\ Distinct(order)
      /\ \A u \in Tasks : In(todos, u) <=> In(order, u)
      /\ SortedBy(todos, order, when)
  BY SortedNow DEF Orderly, Types, Listed
<1>2. /\ q \in Seq(Tasks) /\ Distinct(q)
      /\ \A u : In(q, u) <=> u # t /\ In(todos, u)
      /\ \A u, v : Before(q, u, v) <=> u # t /\ v # t /\ Before(todos, u, v)
  BY <1>1, RemovedProperties, Zenon
<1>3. /\ o \in Seq(Tasks) /\ Distinct(o)
      /\ \A u : In(o, u) <=> u # t /\ In(order, u)
      /\ \A u, v : Before(o, u, v) <=> u # t /\ v # t /\ Before(order, u, v)
  BY <1>1, RemovedProperties, Zenon
<1> HIDE DEF q, o
<1>4. SortedBy(q, o, when)
  BY <1>1, <1>2, <1>3, Zenon DEF SortedBy
<1>5. ~In(q, t) /\ ~In(o, t) /\ \A u \in Tasks : In(q, u) <=> In(o, u)
  BY <1>1, <1>2, <1>3, Zenon
<1> QED
  BY <1>2, <1>3, <1>4, <1>5 DEF q, o

\* ToDos are scheduled within the bound of the clock.
LEMMA WhenInTime == \A w \in 0..MaxWhen : w \in 0..MaxTime
BY TimeAssumption DEF TimeAssumption

LEMMA ShiftOrderly ==
  ASSUME Orderly, NEW t \in Tasks, NEW w \in 0..MaxTime, Shift(t, w)
  PROVE  /\ todos' \in Seq(Tasks) /\ order' \in Seq(Tasks) /\ when' \in [Tasks -> 0..MaxTime]
         /\ Listed' /\ SortedStable'
<1> DEFINE q == Removed(todos, t)
           o == Removed(order, t)
<1>1. /\ q \in Seq(Tasks) /\ o \in Seq(Tasks)
      /\ Distinct(q) /\ Distinct(o)
      /\ ~In(q, t) /\ ~In(o, t)
      /\ \A u \in Tasks : In(q, u) <=> In(o, u)
      /\ SortedBy(q, o, when)
  BY RemovedOrderly, Zenon
<1>2. /\ todos' = Inserted(q, t, w)
      /\ order' = Append(o, t)
      /\ when' = [when EXCEPT ![t] = w]
  BY DEF Shift
<1> HIDE DEF q, o
<1>3. /\ when \in [Tasks -> 0..MaxTime] /\ when \in [Tasks -> Nat] /\ w \in Nat
      /\ \A u \in Tasks : when[u] \in Nat
  BY DEF Orderly, Types
<1>4. \A u, v \in Tasks : Before(q, u, v) => when[u] <= when[v]
  <2> SUFFICES ASSUME NEW u \in Tasks, NEW v \in Tasks, Before(q, u, v)
               PROVE  when[u] <= when[v]
    OBVIOUS
  <2>1. when[u] < when[v] \/ when[u] = when[v]
    BY <1>1, Zenon DEF SortedBy
  <2>2. when[u] \in Nat /\ when[v] \in Nat
    BY <1>3
  <2> QED
    BY <2>1, <2>2
<1>5. /\ todos' \in Seq(Tasks)
      /\ Distinct(todos')
      /\ \A u : In(todos', u) <=> u = t \/ In(q, u)
      /\ \A u, v : Before(todos', u, v) =>
              \/ Before(q, u, v)
              \/ v = t /\ In(q, u) /\ when[u] <= w
              \/ u = t /\ In(q, v) /\ w < when[v]
  BY <1>1, <1>2, <1>3, <1>4, InsertedProperties, Zenon
<1>6. /\ order' \in Seq(Tasks)
      /\ Distinct(order')
      /\ \A u : In(order', u) <=> u = t \/ In(o, u)
      /\ \A u, v : Before(order', u, v) <=> Before(o, u, v) \/ (v = t /\ In(o, u))
  BY <1>1, <1>2, AppendedProperties, Zenon
<1>7. \A u \in Tasks : when'[u] = IF u = t THEN w ELSE when[u]
  BY <1>2, <1>3
<1>8. SortedBy(todos', order', when')
  <2> SUFFICES ASSUME NEW u \in Tasks, NEW v \in Tasks, Before(todos', u, v)
               PROVE  \/ when'[u] < when'[v]
                      \/ when'[u] = when'[v] /\ Before(order', u, v)
    BY DEF SortedBy
  <2>1. CASE Before(q, u, v)
    <3>1. u # t /\ v # t
      BY <1>1, <2>1 DEF In, Before
    <3>2. when'[u] = when[u] /\ when'[v] = when[v]
      BY <1>7, <3>1
    <3>3. when[u] < when[v] \/ (when[u] = when[v] /\ Before(o, u, v))
      BY <1>1, <2>1, Zenon DEF SortedBy
    <3> QED
      BY <1>6, <3>2, <3>3
  <2>2. CASE v = t /\ In(q, u) /\ when[u] <= w
    <3>1. u # t
      BY <1>1, <2>2
    <3>2. when'[u] = when[u] /\ when'[v] = w
      BY <1>7, <2>2, <3>1
    <3>3. Before(order', u, v)
      BY <1>1, <1>6, <2>2
    <3>4. when[u] < w \/ when[u] = w
      BY <1>3, <2>2
    <3> QED
      BY <3>2, <3>3, <3>4
  <2>3. CASE u = t /\ In(q, v) /\ w < when[v]
    <3>1. v # t
      BY <1>1, <2>3
    <3> QED
      BY <1>7, <2>3, <3>1
  <2> QED
    BY <1>5, <2>1, <2>2, <2>3
<1>9. SortedStable'
  BY <1>5, <1>8, SortedNow
<1>10. Listed'
  BY <1>1, <1>5, <1>6 DEF Listed
<1>11. when' \in [Tasks -> 0..MaxTime]
  BY <1>2, <1>3
<1> QED
  BY <1>5, <1>6, <1>9, <1>10, <1>11

LEMMA CancelOrderly ==
  ASSUME Orderly, NEW t \in Tasks, Cancel(t)
  PROVE  /\ todos' \in Seq(Tasks) /\ order' \in Seq(Tasks) /\ when' \in [Tasks -> 0..MaxTime]
         /\ Listed' /\ SortedStable'
<1>1. /\ todos' = Removed(todos, t) /\ order' = Removed(order, t) /\ when' = when
  BY DEF Cancel
<1>2. /\ todos' \in Seq(Tasks) /\ order' \in Seq(Tasks)
      /\ Distinct(todos') /\ Distinct(order')
      /\ \A u \in Tasks : In(todos', u) <=> In(order', u)
      /\ SortedBy(todos', order', when)
  BY <1>1, RemovedOrderly, Zenon
<1>3. SortedStable'
  BY <1>1, <1>2, SortedNow
<1>4. when' \in [Tasks -> 0..MaxTime]
  BY <1>1 DEF Orderly, Types
<1> QED
  BY <1>2, <1>3, <1>4 DEF Listed

\* The front of the list is scheduled, due before all others, and of those of its time
\* the oldest; taken, it leaves the list in order.
LEMMA FrontOrderly ==
  ASSUME Orderly, todos # <<>>
  PROVE  LET t == Head(todos)
         IN  /\ t \in Tasks
             /\ In(order, t)
             /\ \A u \in Tasks : In(order, u) =>
                  \/ u = t
                  \/ when[t] < when[u]
                  \/ when[t] = when[u] /\ Before(order, t, u)
             /\ Tail(todos) \in Seq(Tasks) /\ Removed(order, t) \in Seq(Tasks)
             /\ Distinct(Tail(todos)) /\ Distinct(Removed(order, t))
             /\ \A u \in Tasks : In(Tail(todos), u) <=> In(Removed(order, t), u)
             /\ SortedBy(Tail(todos), Removed(order, t), when)
<1> DEFINE t == Head(todos)
           q == Tail(todos)
           o == Removed(order, t)
<1>1. /\ todos \in Seq(Tasks) /\ order \in Seq(Tasks)
      /\ Distinct(todos) /\ Distinct(order)
      /\ \A u \in Tasks : In(todos, u) <=> In(order, u)
      /\ SortedBy(todos, order, when)
  BY SortedNow DEF Orderly, Types, Listed
<1>2. /\ t \in Tasks
      /\ In(todos, t)
      /\ \A u : In(todos, u) => u = t \/ Before(todos, t, u)
      /\ q \in Seq(Tasks)
      /\ Distinct(q)
      /\ \A u : In(q, u) <=> u # t /\ In(todos, u)
      /\ \A u, v : Before(q, u, v) => Before(todos, u, v)
  BY <1>1, TailOf, Zenon
<1> HIDE DEF t, q
<1>3. /\ o \in Seq(Tasks) /\ Distinct(o)
      /\ \A u : In(o, u) <=> u # t /\ In(order, u)
      /\ \A u, v : Before(o, u, v) <=> u # t /\ v # t /\ Before(order, u, v)
  BY <1>1, RemovedProperties, Zenon
<1> HIDE DEF o
<1>4. \A u \in Tasks : In(order, u) => \/ u = t
                                       \/ when[t] < when[u]
                                       \/ when[t] = when[u] /\ Before(order, t, u)
  BY <1>1, <1>2, Zenon DEF SortedBy
<1>5. SortedBy(q, o, when)
  <2> SUFFICES ASSUME NEW u \in Tasks, NEW v \in Tasks, Before(q, u, v)
               PROVE  \/ when[u] < when[v]
                      \/ when[u] = when[v] /\ Before(o, u, v)
    BY Zenon DEF SortedBy
  <2>1. In(q, u) /\ In(q, v)
    BY DEF In, Before
  <2>2. u # t /\ v # t /\ Before(todos, u, v)
    BY <1>2, <2>1, Zenon
  <2> QED
    BY <1>1, <1>3, <2>2, Zenon DEF SortedBy
<1>6. In(order, t) /\ \A u \in Tasks : In(q, u) <=> In(o, u)
  BY <1>1, <1>2, <1>3, Zenon
<1> QED
  BY <1>2, <1>3, <1>4, <1>5, <1>6, Zenon DEF t, q, o

\* The list is left alone.
LEMMA KeptOrderly ==
  ASSUME Orderly, UNCHANGED list
  PROVE  /\ todos' \in Seq(Tasks) /\ order' \in Seq(Tasks) /\ when' \in [Tasks -> 0..MaxTime]
         /\ Listed' /\ SortedStable'
<1>1. todos' = todos /\ when' = when /\ order' = order
  BY DEF list
<1> QED
  BY <1>1 DEF Orderly, Types, Listed, SortedStable, Earlier

-------------------------------------------------------------------------------
(* Every step keeps the list in order. *)

\* The deadline that Step() begins with.
LEMMA NewDeadlineType ==
  ASSUME Types, TimeAssumption, TimeoutAssumption, NEW timeout \in Timeouts
  PROVE  /\ NewDeadline(timeout) \in [kind : {"unlimited", "zero", "limited"}, now : Nat, end : Int]
         /\ NewDeadline(timeout).now = now
         /\ NewDeadline(timeout).end = now + timeout * TicksPerMs
         /\ NewDeadline(timeout).kind = "limited" => timeout > 0
         /\ NewDeadline(timeout).kind = "zero" => timeout = 0
         /\ timeout < 0 => NewDeadline(timeout).kind = "unlimited"
<1>1. now \in Nat /\ timeout \in Int /\ TicksPerMs \in Int
  BY DEF Types, TimeAssumption, TimeoutAssumption
<1>2. timeout * TicksPerMs \in Int
  BY <1>1
<1>3. now + timeout * TicksPerMs \in Int
  BY <1>1, <1>2
<1> QED
  BY <1>1, <1>3 DEF NewDeadline

LEMMA OrderlyStep == Orderly /\ [Next]_vars => Orderly'
<1> SUFFICES ASSUME Orderly, [Next]_vars PROVE Orderly'
  OBVIOUS
<1> USE DEF Types, Control
<1>0. /\ now \in Nat /\ MaxTime \in Nat
      /\ now \in 0..MaxTime
      /\ deadline \in [kind : {"unlimited", "zero", "limited"}, now : Nat, end : Int]
      /\ deadline.now <= now
  BY TimeAssumption DEF Orderly, TimeAssumption
<1>1. ASSUME NEW timeout \in Timeouts, StepEmpty(timeout) PROVE Orderly'
  <2>1. /\ driver = "out" /\ driver' = "poll" /\ UNCHANGED <<now, list, current>>
        /\ deadline' = NewDeadline(timeout)
    BY <1>1 DEF StepEmpty, PollFor
  <2>2. /\ deadline' \in [kind : {"unlimited", "zero", "limited"}, now : Nat, end : Int]
        /\ deadline'.now = now
    BY <2>1, NewDeadlineType, TimeAssumption, TimeoutAssumption DEF Orderly
  <2> QED
    BY <1>0, <2>1, <2>2, KeptOrderly DEF Orderly
<1>2. ASSUME NEW timeout \in Timeouts, StepWithTodos(timeout) PROVE Orderly'
  <2>1. /\ driver = "out" /\ driver' = "todos" /\ UNCHANGED <<now, list, current>>
        /\ deadline' = NewDeadline(timeout) /\ todos # <<>>
    BY <1>2 DEF StepWithTodos
  <2>2. /\ deadline' \in [kind : {"unlimited", "zero", "limited"}, now : Nat, end : Int]
        /\ deadline'.now = now
    BY <2>1, NewDeadlineType, TimeAssumption, TimeoutAssumption DEF Orderly
  <2> QED
    BY <1>0, <2>1, <2>2, KeptOrderly DEF Orderly, list
<1>3. CASE FrontNotDue
  <2>1. driver = "todos" /\ driver' = "poll" /\ UNCHANGED <<now, list, current, deadline>>
    BY <1>3 DEF FrontNotDue, PollFor
  <2> QED
    BY <1>0, <2>1, KeptOrderly DEF Orderly
<1>4. CASE RunFront
  <2>1. /\ driver = "todos" /\ driver' = "task" /\ UNCHANGED <<now, when, deadline>>
        /\ todos # <<>>
        /\ current' = {Head(todos)}
        /\ todos' = Tail(todos) /\ order' = Removed(order, Head(todos))
    BY <1>4 DEF RunFront, Orderly
  <2>2. /\ Head(todos) \in Tasks
        /\ todos' \in Seq(Tasks) /\ order' \in Seq(Tasks)
        /\ Distinct(todos') /\ Distinct(order')
        /\ \A u \in Tasks : In(todos', u) <=> In(order', u)
        /\ SortedBy(todos', order', when)
    BY <2>1, FrontOrderly, Zenon
  <2>3. SortedStable'
    BY <2>1, <2>2, SortedNow
  <2>4. Listed'
    BY <2>2 DEF Listed
  <2>5. when' \in [Tasks -> 0..MaxTime]
    BY <2>1 DEF Orderly
  <2> QED
    BY <1>0, <2>1, <2>2, <2>3, <2>4, <2>5 DEF Orderly
<1>5. CASE TaskReturns
  <2>1. /\ driver = "task" /\ current' = {} /\ UNCHANGED <<now, list>>
        /\ deadline' = [deadline EXCEPT !.now = now]
        /\ (driver' = "todos" /\ todos # <<>>) \/ driver' = "poll"
    BY <1>5 DEF TaskReturns, PollFor
  <2>2. /\ deadline' \in [kind : {"unlimited", "zero", "limited"}, now : Nat, end : Int]
        /\ deadline'.now <= now
    BY <1>0, <2>1
  <2> QED
    BY <1>0, <2>1, <2>2, KeptOrderly DEF Orderly, list
<1>6. CASE TaskThrows
  <2>1. driver' = "out" /\ current' = {} /\ UNCHANGED <<now, list, deadline>>
    BY <1>6 DEF TaskThrows
  <2> QED
    BY <1>0, <2>1, KeptOrderly DEF Orderly
<1>7. CASE PollTimeout \/ PollWakes
  <2>1. driver = "poll" /\ driver' = "out" /\ UNCHANGED <<now, list, current, deadline>>
    BY <1>7 DEF PollTimeout, PollWakes
  <2> QED
    BY <1>0, <2>1, KeptOrderly DEF Orderly
<1>8. ASSUME NEW t \in Tasks, TaskCancel(t) \/ UserCancel(t) PROVE Orderly'
  <2>1. driver \in {"out", "task"} /\ UNCHANGED <<now, driver, current, deadline>> /\ Cancel(t)
    BY <1>8 DEF TaskCancel, UserCancel, step
  <2> QED
    BY <1>0, <2>1, CancelOrderly DEF Orderly
<1>9. ASSUME NEW t \in Tasks, NEW w \in 0..MaxWhen, TaskShift(t, w) \/ UserShift(t, w)
      PROVE  Orderly'
  <2>1. driver \in {"out", "task"} /\ UNCHANGED <<now, driver, current, deadline>> /\ Shift(t, w)
    BY <1>9 DEF TaskShift, UserShift, step
  <2>2. w \in 0..MaxTime
    BY WhenInTime
  <2> QED
    BY <1>0, <2>1, <2>2, ShiftOrderly DEF Orderly
<1>10. CASE Tick
  <2>1. now < MaxTime /\ now' = now + 1 /\ UNCHANGED <<list, driver, current, deadline>>
    BY <1>10 DEF Tick, step
  <2>2. now' \in 0..MaxTime /\ deadline'.now <= now'
    BY <1>0, <2>1
  <2> QED
    BY <1>0, <2>1, <2>2, KeptOrderly DEF Orderly, list
<1>11. CASE UNCHANGED vars
  <2>1. UNCHANGED <<now, list, driver, current, deadline>>
    BY <1>11 DEF vars, step
  <2> QED
    BY <1>0, <2>1, KeptOrderly DEF Orderly, list
<1> QED
  BY <1>1, <1>2, <1>3, <1>4, <1>5, <1>6, <1>7, <1>8, <1>9, <1>10, <1>11
  DEF Next, Step, StepTodos

LEMMA InitOrderly == Init => Orderly
<1> SUFFICES ASSUME Init PROVE Orderly
  OBVIOUS
<1>1. todos = <<>> /\ order = <<>> /\ DOMAIN todos = {} /\ DOMAIN order = {}
  BY DEF Init
<1>2. todos \in Seq(Tasks) /\ order \in Seq(Tasks)
  BY <1>1, EmptySeq
<1>3. Listed /\ SortedStable
  BY <1>1 DEF Listed, SortedStable, Distinct, In
<1>4. Types
  BY <1>2, TimeAssumption DEF Init, Types, TimeAssumption
<1>5. Control
  BY DEF Init, Control
<1> QED
  BY <1>3, <1>4, <1>5 DEF Orderly

\* The list is sorted, and stable, after any step.
THEOREM ListSorted == Spec => []SortedStable
<1>1. Init => Orderly
  BY InitOrderly
<1>2. Orderly /\ [Next]_vars => Orderly'
  BY OrderlyStep
<1>3. Orderly => SortedStable
  BY DEF Orderly
<1> QED
  BY <1>1, <1>2, <1>3, PTL DEF Spec

-------------------------------------------------------------------------------
(* ToDos keep what Agenda promises. *)

\* The front of the list is what Agenda starts.
LEMMA RunFrontStarts ==
  ASSUME Orderly, RunFront
  PROVE  Promise!Start(Head(todos)) /\ Head(todos) \in Tasks
<1> DEFINE t == Head(todos)
<1>1. /\ driver = "todos" /\ todos # <<>> /\ current = {}
      /\ when[t] <= deadline.now
      /\ current' = {t} /\ order' = Removed(order, t) /\ UNCHANGED <<now, when>>
  BY DEF RunFront, Orderly, Control
<1>2. /\ t \in Tasks
      /\ In(order, t)
      /\ \A u \in Tasks : In(order, u) => \/ u = t
                                          \/ when[t] < when[u]
                                          \/ when[t] = when[u] /\ Before(order, t, u)
  BY <1>1, FrontOrderly, Zenon
<1> HIDE DEF t
<1>3. when[t] <= now
  <2>1. when[t] \in Nat /\ deadline.now \in Nat /\ now \in Nat /\ deadline.now <= now
    BY <1>2 DEF Orderly, Types
  <2> QED
    BY <1>1, <2>1
<1>4. \A u \in Promise!Scheduled : u \in Tasks /\ In(order, u)
  BY DEF Promise!Scheduled, In, Orderly, Types
<1>5. Promise!Earlier(t, t)
  <2>1. PICK i \in DOMAIN order : order[i] = t
    BY <1>2 DEF In
  <2>2. i <= i
    BY LenProperties DEF Orderly, Types
  <2> QED
    BY <2>1, <2>2 DEF Promise!Earlier
<1>6. \A u : Before(order, t, u) => Promise!Earlier(t, u)
  <2> SUFFICES ASSUME NEW u, Before(order, t, u) PROVE Promise!Earlier(t, u)
    OBVIOUS
  <2>1. PICK i, j \in DOMAIN order : i < j /\ order[i] = t /\ order[j] = u
    BY DEF Before
  <2>2. i <= j
    BY <2>1, LenProperties DEF Orderly, Types
  <2> QED
    BY <2>1, <2>2 DEF Promise!Earlier
<1>7. \A u \in Promise!Scheduled :
        when[t] < when[u] \/ (when[t] = when[u] /\ Promise!Earlier(t, u))
  BY <1>2, <1>4, <1>5, <1>6, Zenon
<1>8. t \in Promise!Scheduled
  BY <1>2 DEF In, Promise!Scheduled
<1>9. Removed(order, t) = Promise!Without(t)
  BY DEF Removed, Promise!Without
<1> QED
  BY <1>1, <1>2, <1>3, <1>7, <1>8, <1>9 DEF Promise!Start, t

\* Every step of the scheduler is a step of the agenda, or none.
LEMMA AgendaStep == Orderly /\ [Next]_vars => [Promise!Next]_(Promise!vars)
<1> SUFFICES ASSUME Orderly, [Next]_vars PROVE [Promise!Next]_(Promise!vars)
  OBVIOUS
<1>1. ASSUME UNCHANGED <<now, list, current>> PROVE UNCHANGED Promise!vars
  BY <1>1 DEF list, Promise!vars
<1>2. ASSUME NEW timeout \in Timeouts, StepEmpty(timeout) \/ StepWithTodos(timeout)
      PROVE  UNCHANGED Promise!vars
  BY <1>1, <1>2 DEF StepEmpty, StepWithTodos
<1>3. CASE FrontNotDue \/ PollTimeout \/ PollWakes
  BY <1>1, <1>3 DEF FrontNotDue, PollTimeout, PollWakes
<1>4. CASE RunFront
  BY <1>4, RunFrontStarts DEF Promise!Next
<1>5. CASE TaskReturns \/ TaskThrows
  <2>1. driver = "task" /\ current' = {} /\ UNCHANGED <<now, when, order>>
    BY <1>5 DEF TaskReturns, TaskThrows, list
  <2>2. current # {}
    BY <2>1 DEF Orderly, Control
  <2> QED
    BY <2>1, <2>2 DEF Promise!Next, Promise!Finish
<1>6. ASSUME NEW t \in Tasks, TaskCancel(t) \/ UserCancel(t) PROVE Promise!Next
  <2>1. Cancel(t) /\ UNCHANGED <<now, current>>
    BY <1>6 DEF TaskCancel, UserCancel, step
  <2>2. Promise!Cancel(t)
    BY <2>1 DEF Cancel, Removed, Promise!Cancel, Promise!Without
  <2> QED
    BY <2>2 DEF Promise!Next
<1>7. ASSUME NEW t \in Tasks, NEW w \in 0..MaxWhen, TaskShift(t, w) \/ UserShift(t, w)
      PROVE  Promise!Next
  <2>1. Shift(t, w) /\ UNCHANGED <<now, current>>
    BY <1>7 DEF TaskShift, UserShift, step
  <2>2. Removed(order, t) = Promise!Without(t)
    BY DEF Removed, Promise!Without
  <2>4. w \in 0..MaxTime
    BY WhenInTime
  <2>3. Promise!Schedule(t)
    BY <2>1, <2>2, <2>4 DEF Shift, Promise!Schedule
  <2> QED
    BY <2>3 DEF Promise!Next
<1>8. CASE Tick
  BY <1>8 DEF Tick, list, step, Promise!Next, Promise!Tick
<1>9. CASE UNCHANGED vars
  BY <1>1, <1>9 DEF vars, step
<1> QED
  BY <1>2, <1>3, <1>4, <1>5, <1>6, <1>7, <1>8, <1>9 DEF Next, Step, StepTodos

\* Scheduler implements Agenda: no ToDo runs that was cancelled, none before its time,
\* the earliest first and, of those, the one scheduled first.
THEOREM AgendaImplemented == Spec => ImplementsAgenda
<1>1. Init => Orderly
  BY InitOrderly
<1>2. Orderly /\ [Next]_vars => Orderly'
  BY OrderlyStep
<1>3. Init => Promise!Init
  BY TimeAssumption DEF Init, Promise!Init, TimeAssumption
<1>4. Orderly /\ [Next]_vars => [Promise!Next]_(Promise!vars)
  BY AgendaStep
<1> QED
  BY <1>1, <1>2, <1>3, <1>4, PTL DEF Spec, ImplementsAgenda, Promise!Spec

-------------------------------------------------------------------------------
(* Durations. *)

\* Whole milliseconds of a number of ticks: never more than there are.
LEMMA Truncated ==
  ASSUME NEW a \in Nat, NEW d \in Nat \ {0}
  PROVE  a \div d \in Nat /\ (a \div d) * d <= a /\ a < (a \div d) * d + d
OBVIOUS

LEMMA Scaled ==
  ASSUME NEW d \in Nat \ {0}, NEW a \in Int, NEW b \in Int
  PROVE  /\ a * d \in Int /\ b * d \in Int
         /\ a <= b => a * d <= b * d
         /\ a * d <= b * d => a <= b
         /\ a * d < b * d + d => a <= b
OBVIOUS

\* Fewer ticks are not more milliseconds.
LEMMA Monotone ==
  ASSUME NEW d \in Nat \ {0}, NEW a \in Nat, NEW b \in Nat, a <= b
  PROVE  a \div d <= b \div d
<1> DEFINE p == a \div d
           q == b \div d
<1>1. p \in Nat /\ q \in Nat /\ p * d <= a /\ b < q * d + d
  BY Truncated
<1> HIDE DEF p, q
<1>2. p * d \in Int /\ q * d \in Int /\ (p * d < q * d + d => p <= q)
  BY <1>1, Scaled
<1>3. p <= q
  BY <1>1, <1>2
<1> QED
  BY <1>3 DEF p, q

\* Nor are those of a number of milliseconds more than that number.
LEMMA AtMost ==
  ASSUME NEW d \in Nat \ {0}, NEW a \in Nat, NEW t \in Int, a <= t * d
  PROVE  a \div d <= t
<1> DEFINE p == a \div d
<1>1. p \in Nat /\ p * d <= a
  BY Truncated
<1> HIDE DEF p
<1>2. p * d \in Int /\ t * d \in Int /\ (p * d <= t * d => p <= t)
  BY <1>1, Scaled
<1>3. p <= t
  BY <1>1, <1>2
<1> QED
  BY <1>3 DEF p

\* A poll for a number of milliseconds that an int holds ends when it should.
LEMMA PollForEnds ==
  ASSUME now \in Nat, TimeAssumption, NEW ms \in Nat, ToMsec(ms) = ms, PollFor(ms)
  PROVE  /\ driver' = "poll"
         /\ pollEnd' = now + ms * TicksPerMs
         /\ pollEnd' \in Int
<1>1. ms * TicksPerMs \in Int
  BY TimeAssumption, Scaled DEF TimeAssumption
<1> QED
  BY <1>1 DEF PollFor

\* How long a poll may be that Step() begins before the first ToDo is due.
LEMMA WaitForFront ==
  ASSUME IntSuffices, TimeAssumption, Orderly, FrontNotDue
  PROVE  \E ms \in Nat :
           /\ PollFor(ms)
           /\ ToMsec(ms) = ms
           /\ ms * TicksPerMs <= when[Head(todos)] - deadline.now
           /\ deadline.kind = "zero" => ms = 0
           /\ deadline.kind = "limited" =>
                ms = 0 \/ ms * TicksPerMs <= deadline.end - deadline.now
<1> DEFINE u == when[Head(todos)] - deadline.now
           a == ToDuration(u)
           b == Remaining(deadline)
           ms == MinDuration(a, b)
<1>1. /\ TicksPerMs \in Nat \ {0} /\ MaxTime \in Nat /\ TicksPerMs \in Int
      /\ deadline.kind \in {"unlimited", "zero", "limited"}
      /\ deadline.now \in Nat /\ deadline.end \in Int
  BY DEF TimeAssumption, Orderly, Types
<1>2. u > 0 /\ PollFor(ms)
  BY DEF FrontNotDue
<1>3. u \in Nat /\ u <= MaxTime
  <2>1. Head(todos) \in Tasks
    BY FrontOrderly DEF FrontNotDue, Orderly, Control
  <2>2. when[Head(todos)] \in 0..MaxTime
    BY <2>1 DEF Orderly, Types
  <2> QED
    BY <1>1, <1>2, <2>2
<1> HIDE DEF u
<1>4. /\ a \in Nat /\ a * TicksPerMs <= u
      /\ a <= MaxTime \div TicksPerMs /\ MaxTime \div TicksPerMs \in Nat
  BY <1>1, <1>3, Truncated, Monotone DEF ToDuration
<1>5. /\ b \in Int
      /\ deadline.kind = "unlimited" => b < 0
      /\ deadline.kind = "zero" => b = 0
      /\ deadline.kind = "limited" => b >= 0 /\ (b = 0 \/ b * TicksPerMs <= deadline.end - deadline.now)
  <2>1. CASE deadline.kind = "unlimited"
    BY <2>1 DEF Remaining
  <2>2. CASE deadline.kind = "zero"
    BY <2>2 DEF Remaining
  <2>3. CASE deadline.kind = "limited" /\ deadline.end < deadline.now
    BY <2>3 DEF Remaining
  <2>4. CASE deadline.kind = "limited" /\ ~(deadline.end < deadline.now)
    <3> DEFINE r == deadline.end - deadline.now
    <3>1. r \in Nat
      BY <1>1, <2>4
    <3>2. b = r \div TicksPerMs
      BY <2>4 DEF Remaining, ToDuration
    <3> HIDE DEF r, b
    <3>3. b \in Nat /\ b * TicksPerMs <= r
      BY <1>1, <3>1, <3>2, Truncated
    <3> QED
      BY <2>4, <3>3 DEF r
  <2> QED
    BY <1>1, <2>1, <2>2, <2>3, <2>4
<1> HIDE DEF a, b
<1>6. /\ ms \in Nat /\ ms <= a
      /\ deadline.kind # "unlimited" => ms <= b
  BY <1>1, <1>4, <1>5 DEF MinDuration
<1> HIDE DEF ms
<1>7. ToMsec(ms) = ms
  <2>1. ms \in 0..(MaxTime \div TicksPerMs)
    BY <1>4, <1>6
  <2> QED
    BY <2>1, Zenon DEF IntSuffices
<1>8. ms * TicksPerMs <= u
  <2>1. ms * TicksPerMs \in Int /\ a * TicksPerMs \in Int /\ ms * TicksPerMs <= a * TicksPerMs
    BY <1>1, <1>4, <1>6, Scaled
  <2> QED
    BY <1>3, <1>4, <2>1
<1>9. deadline.kind = "zero" => ms = 0
  BY <1>5, <1>6
<1>10. deadline.kind = "limited" => ms = 0 \/ ms * TicksPerMs <= deadline.end - deadline.now
  <2> SUFFICES ASSUME deadline.kind = "limited"
               PROVE  ms = 0 \/ ms * TicksPerMs <= deadline.end - deadline.now
    OBVIOUS
  <2>1. CASE b = 0
    BY <1>6, <2>1
  <2>2. CASE b # 0
    <3>1. ms * TicksPerMs \in Int /\ b * TicksPerMs \in Int /\ ms * TicksPerMs <= b * TicksPerMs
      BY <1>1, <1>5, <1>6, Scaled
    <3>2. b * TicksPerMs <= deadline.end - deadline.now
      BY <1>5, <2>2
    <3> QED
      BY <1>1, <3>1, <3>2
  <2> QED
    BY <2>1, <2>2
<1> QED
  BY <1>2, <1>6, <1>7, <1>8, <1>9, <1>10 DEF u

-------------------------------------------------------------------------------
(* Every step keeps the polls punctual. *)

\* Outside of poll there is nothing to show.
LEMMA NotInPoll == driver' # "poll" => Ends' /\ NeverOversleeps' /\ StepWithinTimeout'
BY DEF Ends, NeverOversleeps, StepWithinTimeout

\* A deadline that is kept remains limited.
LEMMA LimitedKept == Limited /\ deadline' = deadline => Limited'
BY DEF Limited

LEMMA StepEmptyPunctual ==
  ASSUME IntSuffices, TimeAssumption, TimeoutAssumption, Punctual,
         NEW timeout \in Timeouts, StepEmpty(timeout)
  PROVE  Limited' /\ Ends' /\ NeverOversleeps' /\ StepWithinTimeout'
<1>1. /\ todos = <<>> /\ todos' = <<>> /\ now' = now
      /\ deadline' = NewDeadline(timeout)
      /\ PollFor(timeout)
  BY DEF StepEmpty, list
<1>2. /\ now \in Nat /\ timeout \in Int /\ TicksPerMs \in Nat \ {0} /\ Types
  BY DEF Punctual, Orderly, Types, TimeAssumption, TimeoutAssumption
<1>3. /\ deadline'.now = now
      /\ deadline'.end = now + timeout * TicksPerMs
      /\ deadline'.kind \in {"unlimited", "zero", "limited"}
      /\ deadline'.kind = "limited" => timeout > 0
      /\ deadline'.kind = "zero" => timeout = 0
      /\ timeout < 0 => deadline'.kind = "unlimited"
  BY <1>1, <1>2, NewDeadlineType
<1>4. timeout * TicksPerMs \in Int
  BY <1>2, Scaled
<1>5. Limited'
  <2> SUFFICES ASSUME deadline'.kind = "limited"
               PROVE  timeout > 0 /\ deadline'.end - deadline'.now <= timeout * TicksPerMs
    BY DEF Limited
  <2> QED
    BY <1>2, <1>3, <1>4
<1>6. NeverOversleeps'
  BY <1>1 DEF NeverOversleeps, Scheduled
<1>7. CASE deadline'.kind = "unlimited"
  BY <1>1, <1>5, <1>6, <1>7 DEF Ends, StepWithinTimeout
<1>8. CASE deadline'.kind # "unlimited"
  <2>1. timeout \in Nat
    BY <1>2, <1>3, <1>8
  <2>2. ToMsec(timeout) = timeout
    <3>1. timeout \in 0..timeout
      BY <2>1
    <3> QED
      BY <3>1, Zenon DEF IntSuffices
  <2>3. pollEnd' = now + timeout * TicksPerMs /\ pollEnd' \in Int
    BY <1>1, <1>2, <2>1, <2>2, PollForEnds
  <2>4. pollEnd' = deadline'.end
    BY <1>3, <2>3
  <2>5. deadline'.kind = "zero" => pollEnd' = now
    <3>1. 0 * TicksPerMs = 0
      BY <1>2
    <3> QED
      BY <1>2, <1>3, <2>3, <3>1
  <2>6. Ends'
    BY <2>3 DEF Ends
  <2>7. StepWithinTimeout'
    <3>1. pollEnd' - deadline'.end <= now' - deadline'.now
      BY <1>1, <1>2, <1>3, <2>3, <2>4
    <3>2. deadline'.kind = "zero" => pollEnd' <= now'
      BY <1>1, <1>2, <2>5
    <3> QED
      BY <1>3, <1>8, <3>1, <3>2 DEF StepWithinTimeout
  <2> QED
    BY <1>5, <1>6, <2>6, <2>7
<1> QED
  BY <1>7, <1>8

LEMMA FrontNotDuePunctual ==
  ASSUME IntSuffices, TimeAssumption, Punctual, FrontNotDue
  PROVE  Limited' /\ Ends' /\ NeverOversleeps' /\ StepWithinTimeout'
<1>1. UNCHANGED <<now, todos, when, order, deadline>> /\ todos # <<>> /\ Orderly
  BY DEF FrontNotDue, list, Punctual, Orderly, Control
<1>2. /\ now \in Nat /\ deadline.now \in Nat /\ deadline.end \in Int /\ deadline.now <= now
      /\ deadline.kind \in {"unlimited", "zero", "limited"}
      /\ \A u \in Tasks : when[u] \in Nat
  BY <1>1 DEF Orderly, Types
<1>3. PICK ms \in Nat :
           /\ PollFor(ms)
           /\ ToMsec(ms) = ms
           /\ ms * TicksPerMs <= when[Head(todos)] - deadline.now
           /\ deadline.kind = "zero" => ms = 0
           /\ deadline.kind = "limited" =>
                ms = 0 \/ ms * TicksPerMs <= deadline.end - deadline.now
  BY <1>1, WaitForFront
<1> DEFINE x == ms * TicksPerMs
           h == Head(todos)
<1>4. pollEnd' = now + x /\ pollEnd' \in Int
  BY <1>2, <1>3, PollForEnds
<1>5. x \in Int /\ (ms = 0 => x = 0)
  BY TimeAssumption, Scaled DEF TimeAssumption
<1>6. /\ x <= when[h] - deadline.now
      /\ deadline.kind = "zero" => x = 0
      /\ deadline.kind = "limited" => x = 0 \/ x <= deadline.end - deadline.now
  BY <1>3, <1>5
<1> HIDE DEF x, h
<1>7. h \in Tasks /\ \A u \in Tasks : In(todos, u) => u = h \/ when[h] <= when[u]
  <2>1. /\ h \in Tasks
        /\ \A u \in Tasks : In(order, u) => \/ u = h
                                            \/ when[h] < when[u]
                                            \/ when[h] = when[u] /\ Before(order, h, u)
    BY <1>1, FrontOrderly, Zenon DEF h
  <2>2. \A u \in Tasks : In(todos, u) <=> In(order, u)
    BY <1>1 DEF Orderly, Listed
  <2> QED
    BY <1>2, <2>1, <2>2
<1>8. NeverOversleeps'
  <2> SUFFICES ASSUME NEW u \in Scheduled PROVE pollEnd' - when[u] <= now - deadline.now
    BY <1>1 DEF NeverOversleeps, Scheduled
  <2>1. u \in Tasks /\ In(todos, u)
    BY <1>1 DEF Scheduled, In, Orderly, Types
  <2>2. when[h] \in Nat /\ when[u] \in Nat /\ when[h] <= when[u]
    BY <1>2, <1>7, <2>1
  <2> QED
    BY <1>2, <1>4, <1>5, <1>6, <2>2
<1>9. StepWithinTimeout'
  <2>1. CASE deadline.kind = "unlimited"
    BY <1>1, <2>1 DEF StepWithinTimeout
  <2>2. CASE x = 0
    <3>1. pollEnd' <= now'
      BY <1>1, <1>2, <1>4, <2>2
    <3> QED
      BY <3>1 DEF StepWithinTimeout
  <2>3. CASE deadline.kind = "limited" /\ x <= deadline.end - deadline.now
    <3>1. pollEnd' - deadline'.end <= now' - deadline'.now
      BY <1>1, <1>2, <1>4, <1>5, <2>3
    <3> QED
      BY <1>1, <2>3, <3>1 DEF StepWithinTimeout
  <2> QED
    BY <1>2, <1>6, <2>1, <2>2, <2>3
<1>10. Ends'
  BY <1>4 DEF Ends
<1> QED
  BY <1>1, <1>8, <1>9, <1>10, LimitedKept DEF Punctual

LEMMA TaskReturnsPunctual ==
  ASSUME IntSuffices, TimeAssumption, TimeoutAssumption, Punctual, TaskReturns
  PROVE  Limited' /\ Ends' /\ NeverOversleeps' /\ StepWithinTimeout'
<1>1. /\ UNCHANGED <<now, todos, when>>
      /\ deadline' = [deadline EXCEPT !.now = now]
      /\ Orderly /\ Limited
  BY DEF TaskReturns, list, Punctual
<1>2. /\ now \in Nat /\ deadline.now \in Nat /\ deadline.end \in Int /\ deadline.now <= now
      /\ deadline.kind \in {"unlimited", "zero", "limited"}
      /\ deadline'.now = now /\ deadline'.end = deadline.end /\ deadline'.kind = deadline.kind
      /\ TicksPerMs \in Nat \ {0} /\ MaxTime \in Nat
  BY <1>1 DEF Orderly, Types, TimeAssumption
<1>3. \A t \in Timeouts : t \in Int /\ t * TicksPerMs \in Int
  BY <1>2, Scaled, TimeoutAssumption DEF TimeoutAssumption
<1>4. Limited'
  <2> SUFFICES ASSUME deadline.kind = "limited"
               PROVE  \E t \in Timeouts : t > 0 /\ deadline'.end - deadline'.now <= t * TicksPerMs
    BY <1>2 DEF Limited
  <2>1. PICK t \in Timeouts : t > 0 /\ deadline.end - deadline.now <= t * TicksPerMs
    BY <1>1 DEF Limited
  <2>2. deadline'.end - deadline'.now <= t * TicksPerMs
    BY <1>2, <1>3, <2>1
  <2> QED
    BY <2>1, <2>2
<1>5. CASE driver' # "poll"
  BY <1>4, <1>5, NotInPoll
<1>6. ASSUME NEW ms \in Nat, ms = 0, PollFor(ms)
      PROVE  Ends' /\ NeverOversleeps' /\ StepWithinTimeout'
  <2>1. ToMsec(ms) = ms
    <3>1. 0 \in 0..(MaxTime \div TicksPerMs)
      BY <1>2, Truncated
    <3> QED
      BY <1>6, <3>1, Zenon DEF IntSuffices
  <2>2. pollEnd' = now + ms * TicksPerMs /\ pollEnd' \in Int
    BY <1>2, <1>6, <2>1, PollForEnds
  <2>3. ms * TicksPerMs = 0
    BY <1>2, <1>6
  <2>4. pollEnd' <= now'
    BY <1>1, <1>2, <2>2, <2>3
  <2> QED
    BY <2>2, <2>4 DEF Ends, NeverOversleeps, StepWithinTimeout
<1>7. CASE todos # <<>> /\ PollFor(0)
  BY <1>4, <1>6, <1>7
<1>8. CASE todos = <<>> /\ PollFor(Remaining(deadline'))
  <2>1. NeverOversleeps'
    BY <1>1, <1>8 DEF NeverOversleeps, Scheduled
  <2>2. CASE deadline.kind = "unlimited"
    BY <1>1, <1>2, <1>4, <1>8, <2>1, <2>2 DEF Ends, StepWithinTimeout
  <2>3. CASE deadline.kind = "zero" \/ deadline.end < now
    <3>1. Remaining(deadline') = 0 \/ deadline.kind = "unlimited"
      BY <1>2, <2>3 DEF Remaining
    <3> QED
      BY <1>4, <1>6, <1>8, <2>2, <3>1
  <2>4. CASE deadline.kind = "limited" /\ ~(deadline.end < now)
    <3> DEFINE r  == deadline.end - now
               ms == r \div TicksPerMs
    <3>1. r \in Nat /\ Remaining(deadline') = ms
      BY <1>2, <2>4 DEF Remaining, ToDuration
    <3>2. PICK t \in Timeouts : t > 0 /\ r <= t * TicksPerMs
      BY <1>2, <1>4, <2>4 DEF Limited
    <3> HIDE DEF r
    <3>3. ms \in Nat /\ ms * TicksPerMs <= r /\ ms <= t
      BY <1>2, <1>3, <3>1, <3>2, Truncated, AtMost
    <3> HIDE DEF ms
    <3>4. ToMsec(ms) = ms
      <4>1. ms \in 0..t
        BY <1>3, <3>2, <3>3
      <4> QED
        BY <4>1, Zenon DEF IntSuffices
    <3>5. pollEnd' = now + ms * TicksPerMs /\ pollEnd' \in Int
      BY <1>2, <1>8, <3>1, <3>3, <3>4, PollForEnds
    <3>6. ms * TicksPerMs \in Int
      BY <1>2, <3>3, Scaled
    <3>7. pollEnd' - deadline'.end <= now' - deadline'.now
      BY <1>1, <1>2, <3>3, <3>5, <3>6 DEF r
    <3> QED
      BY <1>2, <1>4, <2>1, <2>4, <3>5, <3>7 DEF Ends, StepWithinTimeout
  <2> QED
    BY <1>2, <2>2, <2>3, <2>4
<1> QED
  BY <1>1, <1>5, <1>7, <1>8 DEF TaskReturns

\* Time passes: a poll comes no later, whatever it waits for.
LEMMA TickPunctual ==
  ASSUME TimeAssumption, Punctual, Tick
  PROVE  Limited' /\ Ends' /\ NeverOversleeps' /\ StepWithinTimeout'
<1>1. UNCHANGED <<todos, when, order, driver, deadline, pollEnd>> /\ now' = now + 1
  BY DEF Tick, list, step
<1>2. Orderly /\ Limited /\ Ends /\ NeverOversleeps /\ StepWithinTimeout
  BY DEF Punctual
<1>3. /\ now \in Nat /\ deadline.now \in Nat /\ deadline.end \in Int
      /\ deadline.kind \in {"unlimited", "zero", "limited"}
      /\ \A u \in Tasks : when[u] \in Nat
      /\ Scheduled \subseteq Tasks
  BY <1>2 DEF Orderly, Types, Scheduled
<1>4. Limited' /\ Ends'
  BY <1>1, <1>2 DEF Limited, Ends
<1>5. NeverOversleeps'
  <2> SUFFICES ASSUME driver = "poll", NEW t \in Scheduled
               PROVE  pollEnd <= now' \/ pollEnd - when[t] <= now' - deadline.now
    BY <1>1 DEF NeverOversleeps, Scheduled
  <2>1. pollEnd <= now \/ pollEnd - when[t] <= now - deadline.now
    BY <1>2 DEF NeverOversleeps
  <2>2. todos # <<>>
    BY <1>2, EmptySeq DEF Scheduled, Orderly, Types
  <2>3. pollEnd \in Int /\ when[t] \in Nat
    BY <1>2, <1>3, <2>2 DEF Ends
  <2> QED
    BY <1>1, <1>3, <2>1, <2>3
<1>6. StepWithinTimeout'
  <2> SUFFICES ASSUME driver = "poll", deadline.kind # "unlimited"
               PROVE  \/ pollEnd <= now'
                      \/ deadline.kind = "limited" /\ pollEnd - deadline.end <= now' - deadline.now
    BY <1>1 DEF StepWithinTimeout
  <2>1. \/ pollEnd <= now
        \/ deadline.kind = "limited" /\ pollEnd - deadline.end <= now - deadline.now
    BY <1>2 DEF StepWithinTimeout
  <2>2. pollEnd \in Int
    BY <1>2 DEF Ends
  <2> QED
    BY <1>1, <1>3, <2>1, <2>2
<1> QED
  BY <1>4, <1>5, <1>6

\* Leaving the deadline alone and not polling, a step shows nothing new.
LEMMA AwayPunctual ==
  ASSUME Punctual, deadline' = deadline, driver' # "poll"
  PROVE  Limited' /\ Ends' /\ NeverOversleeps' /\ StepWithinTimeout'
BY NotInPoll, LimitedKept DEF Punctual

\* A Step() that looks at ToDos first has a deadline within its timeout.
LEMMA StepWithTodosPunctual ==
  ASSUME TimeAssumption, TimeoutAssumption, Punctual,
         NEW timeout \in Timeouts, StepWithTodos(timeout)
  PROVE  Limited' /\ Ends' /\ NeverOversleeps' /\ StepWithinTimeout'
<1>1. driver' = "todos" /\ deadline' = NewDeadline(timeout) /\ now \in Nat /\ Types
  BY DEF StepWithTodos, Punctual, Orderly, Types
<1>2. timeout \in Int /\ timeout * TicksPerMs \in Int
  BY TimeoutAssumption, TimeAssumption, Scaled DEF TimeoutAssumption, TimeAssumption
<1>3. Limited'
  <2> SUFFICES ASSUME deadline'.kind = "limited"
               PROVE  timeout > 0 /\ deadline'.end - deadline'.now <= timeout * TicksPerMs
    BY DEF Limited
  <2>1. timeout > 0 /\ deadline'.now = now /\ deadline'.end = now + timeout * TicksPerMs
    BY <1>1, NewDeadlineType, TimeAssumption, TimeoutAssumption
  <2> QED
    BY <1>1, <1>2, <2>1
<1> QED
  BY <1>1, <1>3, NotInPoll

LEMMA PunctualStep ==
  ASSUME IntSuffices, Punctual, [Next]_vars
  PROVE  Punctual'
<1>1. Orderly'
  BY OrderlyStep DEF Punctual
<1> DEFINE Rest == Limited' /\ Ends' /\ NeverOversleeps' /\ StepWithinTimeout'
<1> SUFFICES Rest
  BY <1>1 DEF Punctual
<1>2. ASSUME NEW timeout \in Timeouts, StepEmpty(timeout) PROVE Rest
  BY <1>2, StepEmptyPunctual, TimeAssumption, TimeoutAssumption
<1>3. ASSUME NEW timeout \in Timeouts, StepWithTodos(timeout) PROVE Rest
  BY <1>3, StepWithTodosPunctual, TimeAssumption, TimeoutAssumption
<1>4. CASE FrontNotDue
  BY <1>4, FrontNotDuePunctual, TimeAssumption
<1>5. CASE RunFront
  BY <1>5, AwayPunctual DEF RunFront
<1>6. CASE TaskReturns
  BY <1>6, TaskReturnsPunctual, TimeAssumption, TimeoutAssumption
<1>7. CASE TaskThrows \/ PollTimeout \/ PollWakes
  BY <1>7, AwayPunctual DEF TaskThrows, PollTimeout, PollWakes
<1>8. ASSUME NEW t \in Tasks, TaskCancel(t) \/ UserCancel(t) PROVE Rest
  BY <1>8, AwayPunctual DEF TaskCancel, UserCancel, step
<1>9. ASSUME NEW t \in Tasks, NEW w \in 0..MaxWhen, TaskShift(t, w) \/ UserShift(t, w)
      PROVE  Rest
  BY <1>9, AwayPunctual DEF TaskShift, UserShift, step
<1>10. CASE Tick
  BY <1>10, TickPunctual, TimeAssumption
<1>11. CASE UNCHANGED vars
  <2>1. UNCHANGED <<now, todos, when, order, driver, deadline, pollEnd>>
    BY <1>11 DEF vars, list, step
  <2> QED
    BY <2>1 DEF Punctual, Limited, Ends, NeverOversleeps, StepWithinTimeout, Scheduled
<1> HIDE DEF Rest
<1> QED
  BY <1>2, <1>3, <1>4, <1>5, <1>6, <1>7, <1>8, <1>9, <1>10, <1>11 DEF Next, Step, StepTodos

LEMMA InitPunctual == Init => Punctual
<1>1. Init => Orderly
  BY InitOrderly
<1>2. Init => Limited /\ Ends /\ NeverOversleeps /\ StepWithinTimeout
  BY DEF Init, Limited, Ends, NeverOversleeps, StepWithinTimeout
<1> QED
  BY <1>1, <1>2 DEF Punctual

\* A poll never sleeps past the time of a ToDo, up to what passed since the clock was
\* read, if poll's int holds the durations that occur.
THEOREM NoOversleep ==
  ASSUME IntSuffices
  PROVE  Spec => []NeverOversleeps
<1>1. Init => Punctual
  BY InitPunctual
<1>2. Punctual /\ [Next]_vars => Punctual'
  BY PunctualStep
<1>3. Punctual => NeverOversleeps
  BY DEF Punctual
<1> QED
  BY <1>1, <1>2, <1>3, PTL DEF Spec

\* Nor does it block beyond the timeout that Step() was called with.
THEOREM TimeoutKept ==
  ASSUME IntSuffices
  PROVE  Spec => []StepWithinTimeout
<1>1. Init => Punctual
  BY InitPunctual
<1>2. Punctual /\ [Next]_vars => Punctual'
  BY PunctualStep
<1>3. Punctual => StepWithinTimeout
  BY DEF Punctual
<1> QED
  BY <1>1, <1>2, <1>3, PTL DEF Spec
===============================================================================
