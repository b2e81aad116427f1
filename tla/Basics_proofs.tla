----------------------------- MODULE Basics_proofs -----------------------------
(***************************************************************************)
(* What the two components keep that use no other one: BufferPool, for     *)
(* every number of holders and buffers, and Uri, for texts of any length,  *)
(* any numbers, names and literals.  They share no state.                  *)
(***************************************************************************)
EXTENDS BufferPool, Uri, SequenceTheorems, FiniteSetTheorems,
        WellFoundedInduction, TLAPS

\* A limit is a number of buffers.
LEMMA LimitsAreNumbers == Limits \subseteq Nat
<1>1. Cardinality(Buffers) \in Nat
  BY PoolAssumption, FS_CardinalityType DEF PoolAssumption
<1>. QED  BY <1>1, PoolAssumption DEF PoolAssumption

\* What Get() takes from the stack, and what it leaves there.
LEMMA Pop ==
  ASSUME idle \in Seq(Buffers), idle # <<>>,
         \A i, j \in DOMAIN idle : idle[i] = idle[j] => i = j,
         NEW rest, rest = SubSeq(idle, 1, Len(idle) - 1)
  PROVE  /\ idle[Len(idle)] \in Buffers
         /\ idle[Len(idle)] \in Idle
         /\ rest \in Seq(Buffers)
         /\ Len(rest) = Len(idle) - 1
         /\ {rest[i] : i \in DOMAIN rest} \subseteq Idle \ {idle[Len(idle)]}
         /\ \A i, j \in DOMAIN rest : rest[i] = rest[j] => i = j
<1>1. Len(idle) \in Nat \ {0} /\ DOMAIN idle = 1..Len(idle)
  BY EmptySeq, LenProperties
<1>2. /\ rest \in Seq(Buffers)
      /\ Len(rest) = Len(idle) - 1
      /\ DOMAIN rest = 1..(Len(idle) - 1)
      /\ \A i \in 1..(Len(idle) - 1) : rest[i] = idle[i]
  <2>1. Len(rest) = Len(idle) - 1 /\ \A i \in 1..(Len(idle) - 1) : rest[i] = idle[i]
    BY <1>1, SubSeqProperties
  <2>2. rest \in Seq(Buffers)
    BY <1>1, SubSeqProperties
  <2>. QED  BY <2>1, <2>2, LenProperties
<1>3. \A i \in 1..(Len(idle) - 1) : i \in DOMAIN idle /\ i # Len(idle)
  <2>1. \A n \in Nat \ {0} : \A i \in 1..(n - 1) : i \in 1..n /\ i # n
    OBVIOUS
  <2>. QED  BY <1>1, <2>1
<1>4. Len(idle) \in DOMAIN idle
  BY <1>1
<1>5. idle[Len(idle)] \in Buffers
  BY <1>1, <1>4, ElementOfSeq
<1>6. idle[Len(idle)] \in Idle
  BY <1>4 DEF Idle
<1>7. \A i \in DOMAIN rest : rest[i] \in Idle /\ rest[i] # idle[Len(idle)]
  BY <1>2, <1>3, <1>4 DEF Idle
<1>8. \A i, j \in DOMAIN rest : rest[i] = rest[j] => i = j
  BY <1>2, <1>3
<1>. QED  BY <1>2, <1>5, <1>6, <1>7, <1>8

\* What Recycle() puts on the stack.
LEMMA Push ==
  ASSUME idle \in Seq(Buffers),
         \A i, j \in DOMAIN idle : idle[i] = idle[j] => i = j,
         NEW b \in Buffers, b \notin Idle,
         NEW more, more = Append(idle, b)
  PROVE  /\ more \in Seq(Buffers)
         /\ {more[i] : i \in DOMAIN more} = Idle \cup {b}
         /\ \A i, j \in DOMAIN more : more[i] = more[j] => i = j
<1>1. /\ more \in Seq(Buffers)
      /\ Len(more) = Len(idle) + 1
      /\ \A i \in 1..Len(idle) : more[i] = idle[i]
      /\ more[Len(idle) + 1] = b
  BY AppendProperties
<1>2. /\ Len(idle) \in Nat
      /\ DOMAIN idle = 1..Len(idle)
      /\ DOMAIN more = 1..(Len(idle) + 1)
  BY <1>1, LenProperties
<1>3. DOMAIN more = DOMAIN idle \cup {Len(idle) + 1}
  BY <1>2
<1>4. \A i \in DOMAIN idle : more[i] = idle[i] /\ more[i] # b
  BY <1>1, <1>2 DEF Idle
<1>. QED  BY <1>1, <1>3, <1>4 DEF Idle

-------------------------------------------------------------------------------
(* Every allocated buffer is in one of the two lists. *)

\* Partition, element by element.
Elementwise ==
  /\ \A b : b \in busy <=> \E h \in Holders : b \in held[h]
  /\ \A g, h \in Holders : \A b : b \in held[g] /\ b \in held[h] => g = h
  /\ \A b : ~(b \in busy /\ b \in Idle)
  /\ \A i, j \in DOMAIN idle : idle[i] = idle[j] => i = j

\* It says the same.
LEMMA ElementwiseIsPartition == Elementwise <=> Partition
<1>1. ASSUME Elementwise PROVE Partition
  BY <1>1 DEF Elementwise, Partition
<1>2. ASSUME Partition PROVE Elementwise
  BY <1>2 DEF Elementwise, Partition
<1>. QED  BY <1>1, <1>2

IInv == TypeOK /\ Elementwise

\* The buffers of a limit are idle at first, each once.
LEMMA InitIInv == Init => IInv
<1>. SUFFICES ASSUME Init PROVE IInv
  OBVIOUS
<1>1. idle \in Seq(Buffers)
  <2>1. maxCount \in Nat /\ idle \in [1..maxCount -> Buffers]
    BY LimitsAreNumbers DEF Init
  <2>. QED  BY <2>1, SeqDef
<1>2. DOMAIN idle = 1..maxCount
  BY DEF Init
<1>3. TypeOK
  BY <1>1 DEF Init, TypeOK
<1>4. \A i, j \in DOMAIN idle : idle[i] = idle[j] => i = j
  BY <1>2 DEF Init
<1>. QED  BY <1>3, <1>4 DEF Init, IInv, Elementwise

\* Lending, handing on and returning keep each buffer in one place.
LEMMA NextIInv == IInv /\ [Next]_vars => IInv'
<1>. SUFFICES ASSUME IInv, [Next]_vars PROVE IInv'
  OBVIOUS
<1>. USE DEF IInv
<1>1. ASSUME NEW h \in Holders, GetIdle(h) PROVE IInv'
  <2>. DEFINE b == idle[Len(idle)]
  <2>1. /\ b \in Buffers /\ b \in Idle
        /\ idle' \in Seq(Buffers)
        /\ Idle' \subseteq Idle \ {b}
        /\ \A i, j \in DOMAIN idle' : idle'[i] = idle'[j] => i = j
    BY <1>1, Pop DEF GetIdle, TypeOK, Elementwise, Idle
  <2>2. b \notin busy /\ \A g \in Holders : b \notin held[g]
    BY <2>1 DEF Elementwise
  <2>3. /\ busy' = busy \cup {b}
        /\ held' = [held EXCEPT ![h] = @ \cup {b}]
        /\ refused' = refused \ {h}
        /\ content' = [content EXCEPT ![b] = "clear"]
        /\ alive' = alive /\ maxCount' = maxCount
    BY <1>1 DEF GetIdle, Lend
  <2>. HIDE DEF b
  <2>4. TypeOK'
    BY <2>1, <2>3 DEF TypeOK
  <2>5. \A g \in Holders : \A x : x \in held'[g] <=> x \in held[g] \/ (g = h /\ x = b)
    <3>1. \A g \in Holders : held'[g] = IF g = h THEN held[g] \cup {b} ELSE held[g]
      BY <2>3 DEF TypeOK
    <3>. QED  BY <3>1
  <2>6. \A x : x \in busy' <=> \E g \in Holders : x \in held'[g]
    BY <1>1, <2>3, <2>5 DEF Elementwise
  <2>7. \A f, g \in Holders : \A x : x \in held'[f] /\ x \in held'[g] => f = g
    BY <2>2, <2>5 DEF Elementwise
  <2>8. \A x : ~(x \in busy' /\ x \in Idle')
    BY <2>1, <2>3 DEF Elementwise
  <2>. QED  BY <2>1, <2>4, <2>6, <2>7, <2>8 DEF Elementwise
<1>2. ASSUME NEW h \in Holders, GetNew(h) PROVE IInv'
  <2>1. PICK b \in Buffers \ busy : Lend(h, b)
    BY <1>2 DEF GetNew
  <2>2. /\ idle = <<>> /\ idle' = idle /\ content' = content /\ alive' = alive /\ maxCount' = maxCount
        /\ busy' = busy \cup {b}
        /\ held' = [held EXCEPT ![h] = @ \cup {b}]
        /\ refused' = refused \ {h}
    BY <1>2, <2>1 DEF GetNew, Lend
  <2>3. TypeOK'
    BY <2>2 DEF TypeOK
  <2>4. Idle' = {}
    BY <2>2, EmptySeq DEF Idle
  <2>5. \A g \in Holders : \A x : x \in held'[g] <=> x \in held[g] \/ (g = h /\ x = b)
    <3>1. \A g \in Holders : held'[g] = IF g = h THEN held[g] \cup {b} ELSE held[g]
      BY <2>2 DEF TypeOK
    <3>. QED  BY <3>1
  <2>6. \A x : x \in busy' <=> \E g \in Holders : x \in held'[g]
    BY <2>2, <2>5 DEF Elementwise
  <2>7. \A f, g \in Holders : \A x : x \in held'[f] /\ x \in held'[g] => f = g
    BY <2>1, <2>5 DEF Elementwise
  <2>. QED  BY <2>2, <2>3, <2>4, <2>6, <2>7 DEF Elementwise
<1>3. ASSUME NEW h \in Holders, GetThrows(h) PROVE IInv'
  BY <1>3 DEF GetThrows, TypeOK, Elementwise, Idle
<1>4. ASSUME NEW h \in Holders, NEW b \in Buffers, Fill(h, b) PROVE IInv'
  BY <1>4 DEF Fill, TypeOK, Elementwise, Idle
<1>5. ASSUME NEW h \in Holders, NEW g \in Holders, NEW b \in Buffers, Hand(h, g, b)
      PROVE  IInv'
  <2>1. /\ b \in held[h]
        /\ held' = [[held EXCEPT ![h] = @ \ {b}] EXCEPT ![g] = @ \cup {b}]
        /\ UNCHANGED <<idle, busy, content, refused, alive, maxCount>>
    BY <1>5 DEF Hand
  <2>2. TypeOK'
    BY <2>1 DEF TypeOK
  <2>3. \A f \in Holders : \A x : x \in held'[f] <=> IF x = b THEN f = g ELSE x \in held[f]
    <3>1. \A f \in Holders : b \in held[f] <=> f = h
      BY <2>1 DEF Elementwise
    <3>2. held'[g] = (IF g = h THEN held[g] \ {b} ELSE held[g]) \cup {b}
      BY <2>1 DEF TypeOK
    <3>3. \A f \in Holders \ {g} : held'[f] = IF f = h THEN held[f] \ {b} ELSE held[f]
      BY <2>1 DEF TypeOK
    <3>. QED  BY <3>1, <3>2, <3>3
  <2>4. ASSUME NEW x PROVE x \in busy' <=> \E f \in Holders : x \in held'[f]
    <3>1. x \in busy' <=> \E f \in Holders : x \in held[f]
      BY <2>1 DEF Elementwise
    <3>2. CASE x = b
      BY <2>1, <2>3, <3>1, <3>2
    <3>3. CASE x # b
      BY <2>3, <3>1, <3>3
    <3>. QED  BY <3>2, <3>3
  <2>5. \A e, f \in Holders : \A x : x \in held'[e] /\ x \in held'[f] => e = f
    BY <2>3 DEF Elementwise
  <2>6. Idle' = Idle /\ busy' = busy /\ idle' = idle
    BY <2>1 DEF Idle
  <2>7. Elementwise'
    BY <2>4, <2>5, <2>6 DEF Elementwise
  <2>. QED  BY <2>2, <2>7
<1>6. ASSUME NEW h \in Holders, NEW b \in Buffers, Recycle(h, b) PROVE IInv'
  <2>1. /\ b \in held[h] /\ b \in busy /\ b \notin Idle
        /\ \A g \in Holders : g # h => b \notin held[g]
    BY <1>6 DEF Recycle, Elementwise
  <2>2. /\ idle' \in Seq(Buffers)
        /\ Idle' = Idle \cup {b}
        /\ \A i, j \in DOMAIN idle' : idle'[i] = idle'[j] => i = j
    BY <1>6, <2>1, Push DEF Recycle, TypeOK, Elementwise, Idle
  <2>3. /\ held' = [held EXCEPT ![h] = @ \ {b}]
        /\ busy' = busy \ {b}
        /\ UNCHANGED <<content, refused, alive, maxCount>>
    BY <1>6 DEF Recycle
  <2>4. TypeOK'
    BY <2>2, <2>3 DEF TypeOK
  <2>5. \A g \in Holders : \A x : x \in held'[g] <=> x \in held[g] /\ x # b
    <3>1. \A g \in Holders : held'[g] = IF g = h THEN held[g] \ {b} ELSE held[g]
      BY <2>3 DEF TypeOK
    <3>. QED  BY <2>1, <3>1
  <2>6. \A x : x \in busy' <=> \E g \in Holders : x \in held'[g]
    BY <2>1, <2>3, <2>5 DEF Elementwise
  <2>7. \A f, g \in Holders : \A x : x \in held'[f] /\ x \in held'[g] => f = g
    BY <2>5 DEF Elementwise
  <2>8. \A x : ~(x \in busy' /\ x \in Idle')
    BY <2>2, <2>3 DEF Elementwise
  <2>. QED  BY <2>2, <2>4, <2>6, <2>7, <2>8 DEF Elementwise
<1>7. CASE Destroy
  <2>1. UNCHANGED <<idle, busy, held, content, refused, maxCount>> /\ alive' = FALSE
    BY <1>7 DEF Destroy
  <2>2. TypeOK'
    BY <2>1 DEF TypeOK
  <2>3. Elementwise'
    BY <2>1 DEF Elementwise, Idle
  <2>. QED  BY <2>2, <2>3
<1>8. CASE UNCHANGED vars
  BY <1>8 DEF vars, TypeOK, Elementwise, Idle
<1>. QED  BY <1>1, <1>2, <1>3, <1>4, <1>5, <1>6, <1>7, <1>8 DEF Next

\* Variables keep their types.
THEOREM TypeCorrect == Spec => []TypeOK
<1>1. IInv => TypeOK
  BY DEF IInv
<1>. QED  BY <1>1, InitIInv, NextIInv, PTL DEF Spec

\* However buffers are lent, handed on and returned, each is in one list and, if it
\* is lent, in one hand: Recycle() always finds it and never has it twice.
THEOREM PartitionCorrect == Spec => []Partition
<1>1. IInv => Partition
  BY ElementwiseIsPartition DEF IInv
<1>. QED  BY <1>1, InitIInv, NextIInv, PTL DEF Spec

-------------------------------------------------------------------------------
(* A pool lends what its limit says. *)

\* What a limited pool lends and what it keeps is its limit; one without never refuses.
Counted == /\ maxCount # 0 => Cardinality(busy) + Len(idle) = maxCount
           /\ maxCount = 0 => refused = {}

\* Remainders of what the range of size_t holds, and of -1.
LEMMA Remainders ==
  ASSUME NEW m \in Int, NEW a \in 0..m - 1
  PROVE  a % m = a /\ (-1) % m = m - 1
<1>1. a % m = a
  OBVIOUS
<1>2. (-1) % m = m - 1
  OBVIOUS
<1>. QED  BY <1>1, <1>2

\* m_maxCount, compared with the number of busy buffers: "more than it" means that
\* the limit is lent, or never if there is none.
LEMMA LimitMeans ==
  ASSUME TypeOK
  PROVE  /\ maxCount \in Nat
         /\ IsFiniteSet(busy) /\ Cardinality(busy) \in Nat
         /\ maxCount = 0 => Limit \in Int /\ Cardinality(busy) <= Limit
         /\ maxCount # 0 => Limit = maxCount - 1
<1>. DEFINE n == Cardinality(Buffers)
            c == Cardinality(busy)
            m == 2 ^ Bits
<1>1. n \in Nat /\ n < m /\ m \in Int /\ maxCount \in 0..n
  BY PoolAssumption, FS_CardinalityType DEF PoolAssumption, TypeOK
<1>2. IsFiniteSet(busy) /\ c \in Nat /\ c <= n
  <2>1. IsFiniteSet(busy) /\ c <= n
    BY PoolAssumption, FS_Subset DEF PoolAssumption, TypeOK
  <2>. QED  BY <2>1, FS_CardinalityType
<1>3. Limit = (maxCount - 1) % m
  BY DEF Limit
<1>. HIDE DEF n, c, m
<1>4. maxCount = 0 => Limit \in Int /\ c <= Limit
  <2>. SUFFICES ASSUME maxCount = 0 PROVE Limit \in Int /\ c <= Limit
    OBVIOUS
  <2>1. maxCount - 1 = -1 /\ 0 \in 0..m - 1
    BY <1>1
  <2>2. (-1) % m = m - 1
    BY <1>1, <2>1, Remainders
  <2>. QED  BY <1>1, <1>2, <1>3, <2>1, <2>2
<1>5. maxCount # 0 => Limit = maxCount - 1
  <2>. SUFFICES ASSUME maxCount # 0 PROVE Limit = maxCount - 1
    OBVIOUS
  <2>1. maxCount - 1 \in 0..m - 1
    BY <1>1
  <2>. QED  BY <1>1, <1>3, <2>1, Remainders
<1>. QED  BY <1>1, <1>2, <1>4, <1>5 DEF c

\* All the buffers of a limit are counted from the start.
LEMMA InitCounted == Init => Counted
<1>. SUFFICES ASSUME Init PROVE Counted
  OBVIOUS
<1>1. maxCount \in Nat /\ idle \in [1..maxCount -> Buffers]
  BY LimitsAreNumbers DEF Init
<1>2. Len(idle) = maxCount
  <2>1. idle \in Seq(Buffers)
    BY <1>1, SeqDef
  <2>2. DOMAIN idle = 1..Len(idle) /\ Len(idle) \in Nat
    BY <2>1, LenProperties
  <2>3. \A n \in Nat : 1..n = 1..maxCount => n = maxCount
    BY <1>1
  <2>. QED  BY <1>1, <2>2, <2>3
<1>3. Cardinality(busy) = 0
  BY FS_EmptySet DEF Init
<1>. QED  BY <1>1, <1>2, <1>3 DEF Counted, Init

\* With a limit, as many buffers are lent as taken from the stack.
LEMMA NextCounted == IInv /\ Counted /\ [Next]_vars => Counted'
<1>. SUFFICES ASSUME IInv, Counted, [Next]_vars PROVE Counted'
  OBVIOUS
<1>1. /\ maxCount \in Nat
      /\ IsFiniteSet(busy) /\ Cardinality(busy) \in Nat
      /\ maxCount = 0 => Limit \in Int /\ Cardinality(busy) <= Limit
      /\ maxCount # 0 => Limit = maxCount - 1
  BY LimitMeans DEF IInv
<1>2. idle \in Seq(Buffers) /\ Len(idle) \in Nat /\ (idle = <<>> <=> Len(idle) = 0)
  BY LenProperties, EmptySeq DEF IInv, TypeOK
<1>3. ASSUME NEW h \in Holders, GetIdle(h) PROVE Counted'
  <2>. DEFINE b == idle[Len(idle)]
  <2>1. b \in Idle /\ Len(idle') = Len(idle) - 1
    BY <1>3, Pop DEF GetIdle, IInv, TypeOK, Elementwise
  <2>2. b \notin busy
    BY <2>1 DEF IInv, Elementwise
  <2>3. /\ busy' = busy \cup {b} /\ maxCount' = maxCount
        /\ refused' = refused \ {h}
        /\ idle # <<>> /\ idle' = SubSeq(idle, 1, Len(idle) - 1)
    BY <1>3 DEF GetIdle, Lend
  <2>. HIDE DEF b
  <2>4. Cardinality(busy') = Cardinality(busy) + 1
    BY <1>1, <2>2, <2>3, FS_AddElement
  <2>5. maxCount' # 0 => Cardinality(busy') + Len(idle') = maxCount'
    BY <1>1, <1>2, <2>1, <2>3, <2>4 DEF Counted
  <2>6. maxCount' = 0 => refused' = {}
    BY <2>3 DEF Counted
  <2>. QED  BY <2>5, <2>6 DEF Counted
<1>4. ASSUME NEW h \in Holders, GetNew(h) PROVE Counted'
  <2>1. /\ idle = <<>> /\ Cardinality(busy) <= Limit /\ maxCount' = maxCount
        /\ refused' = refused \ {h}
    BY <1>4 DEF GetNew, Lend
  <2>2. maxCount = 0
    BY <1>1, <1>2, <2>1 DEF Counted
  <2>. QED  BY <2>1, <2>2 DEF Counted
<1>5. ASSUME NEW h \in Holders, GetThrows(h) PROVE Counted'
  <2>1. UNCHANGED <<idle, busy, maxCount>> /\ Cardinality(busy) > Limit
    BY <1>5 DEF GetThrows
  <2>2. maxCount # 0
    BY <1>1, <2>1
  <2>. QED  BY <2>1, <2>2 DEF Counted
<1>6. ASSUME NEW h \in Holders, NEW b \in Buffers, Recycle(h, b) PROVE Counted'
  <2>1. b \in busy
    BY <1>6 DEF Recycle, IInv, Elementwise
  <2>2. idle' = Append(idle, b) /\ busy' = busy \ {b} /\ UNCHANGED <<maxCount, refused>>
    BY <1>6 DEF Recycle
  <2>3. Len(idle') = Len(idle) + 1
    BY <1>2, <2>2, AppendProperties
  <2>4. Cardinality(busy') = Cardinality(busy) - 1
    BY <1>1, <2>1, <2>2, FS_RemoveElement
  <2>. QED  BY <1>1, <1>2, <2>2, <2>3, <2>4 DEF Counted
<1>7. ASSUME NEW h \in Holders, NEW b \in Buffers,
             Fill(h, b) \/ \E g \in Holders : Hand(h, g, b)
      PROVE  Counted'
  BY <1>7 DEF Fill, Hand, Counted
<1>8. CASE Destroy \/ UNCHANGED vars
  BY <1>8 DEF Destroy, vars, Counted
<1>. QED  BY <1>3, <1>4, <1>5, <1>6, <1>7, <1>8 DEF Next

\* A limited pool lends its limit and no more, and refuses only then; an unlimited one
\* never does, since its m_maxCount has wrapped around to the largest size_t.
THEOREM LimitCorrect == Spec => []LimitExact
<1>1. IInv /\ Counted => LimitExact
  <2>. SUFFICES ASSUME IInv, Counted PROVE LimitExact
    OBVIOUS
  <2>1. idle \in Seq(Buffers) /\ Len(idle) \in Nat /\ (idle = <<>> <=> Len(idle) = 0)
    BY LenProperties, EmptySeq DEF IInv, TypeOK
  <2>. QED  BY <2>1, LimitMeans DEF LimitExact, Counted, IInv
<1>. QED  BY <1>1, InitIInv, NextIInv, InitCounted, NextCounted, PTL DEF Spec

-------------------------------------------------------------------------------
(* The list of getaddrinfo. *)

\* The entries of the first address come first, one for each protocol.
LEMMA FirstTurn ==
  ASSUME NEW n \in Nat \ {0}, NEW i \in 1..n
  PROVE  ((i - 1) \div n) + 1 = 1 /\ ((i - 1) % n) + 1 = i
OBVIOUS

\* No entry comes before the first one for its protocol.
LEMMA AnyTurn ==
  ASSUME NEW n \in Nat \ {0}, NEW i \in Nat \ {0}
  PROVE  ((i - 1) % n) + 1 \in 1..n /\ ((i - 1) % n) + 1 <= i
<1>1. (i - 1) % n \in 0..(n - 1)
  OBVIOUS
<1>2. CASE i <= n
  BY <1>2, FirstTurn
<1>3. CASE n < i
  BY <1>1, <1>3
<1> QED
  BY <1>2, <1>3

\* As many entries for each of m addresses are no fewer than for one.
LEMMA AtLeast ==
  ASSUME NEW m \in Nat \ {0}, NEW n \in Nat \ {0}
  PROVE  m * n \in Nat /\ n <= n * m
OBVIOUS

\* A set of numbers, as the positions of the entries for a protocol, has a least one.
LEMMA Earliest ==
  ASSUME NEW T, T \subseteq Nat, T # {}
  PROVE  \E x \in T : \A y \in T : x <= y
<1> DEFINE R == {ss \in Nat \X Nat : ss[1] < ss[2]}
<1>1. IsWellFoundedOn(R, Nat)
  BY NatLessThanWellFounded, Zenon DEF OpToRel
<1> HIDE DEF R
<1>2. PICK x \in T : \A y \in T : <<y, x>> \notin R
  BY <1>1, WFMin, Zenon
<1>3. ASSUME NEW y \in T PROVE x <= y
  <2>1. y \in Nat /\ x \in Nat /\ <<y, x>> \notin R
    BY <1>2
  <2> QED
    BY <2>1 DEF R
<1> QED
  BY <1>3

\* A list of one entry has it in the first place.
LEMMA Single ==
  ASSUME NEW x, NEW i \in DOMAIN <<x>>
  PROVE  i = 1 /\ <<x>>[i] = x
OBVIOUS

\* A list of no positions is the empty one.
LEMMA NoEntries ==
  ASSUME NEW n \in Int, n <= 0, NEW e, e = [i \in 1..n |-> e[i]]
  PROVE  e = <<>>
<1>1. 1..n = 1..0
  OBVIOUS
<1>2. e \in [1..0 -> {}]
  BY <1>1
<1>3. e \in Seq({})
  BY <1>2, SeqDef
<1>4. Len(e) = 0
  <2>1. Len(e) \in Nat /\ 1..Len(e) = 1..0
    BY <1>2, <1>3, LenProperties
  <2>2. 1 \notin 1..0
    OBVIOUS
  <2>3. 1 \notin 1..Len(e)
    BY <2>1, <2>2, Zenon
  <2> DEFINE l == Len(e)
  <2>4. l \in Nat /\ 1 \notin 1..l
    BY <2>1, <2>3
  <2> HIDE DEF l
  <2>5. l = 0
    BY <2>4
  <2> QED
    BY <2>5 DEF l
<1> QED
  BY <1>3, <1>4, EmptySeq

Protocols == {"tcp", "udp", "any"}

\* The entries for addresses, protocols and a port.
Entries(as, ps, port) ==
  [i \in 1..(Len(ps) * Len(as)) |->
     Node(as[((i - 1) \div Len(ps)) + 1], port, ps[((i - 1) % Len(ps)) + 1])]

\* Without addresses or without protocols there are no entries.
LEMMA EntriesEmpty ==
  ASSUME NEW as \in Seq(Literals), NEW ps \in Seq(Protocols), NEW port,
         as = <<>> \/ ps = <<>>
  PROVE  Entries(as, ps, port) = <<>>
<1>1. Len(as) \in Nat /\ Len(ps) \in Nat
  BY LenProperties
<1>2. Len(as) = 0 \/ Len(ps) = 0
  BY EmptySeq
<1>3. Len(ps) * Len(as) = 0
  <2>1. \A m, n \in Nat : m = 0 \/ n = 0 => m * n = 0
    OBVIOUS
  <2> QED
    BY <1>1, <1>2, <2>1
<1> DEFINE size == Len(ps) * Len(as)
           list == Entries(as, ps, port)
<1>4. list = [i \in 1..size |-> list[i]]
  <2>1. DOMAIN list = 1..size /\ list = [i \in DOMAIN list |-> list[i]]
    BY DEF Entries
  <2> HIDE DEF size, list
  <2> QED
    BY <2>1, Zenon
<1> HIDE DEF list
<1>5. size = 0
  BY <1>3
<1> HIDE DEF size
<1>6. list = <<>>
  BY <1>4, <1>5, NoEntries
<1> QED
  BY <1>6 DEF list

\* What the list of a host and a port stands for, and that whoever looks in it for a
\* protocol finds the same, or nothing.
LEMMA EntriesFit ==
  ASSUME NEW as \in Seq(Literals), NEW ps \in Seq(Protocols), NEW port,
         as # <<>>, ps # <<>>, NEW list, list = Entries(as, ps, port)
  PROVE  /\ list # <<>>
         /\ list[1] = Node(as[1], port, ps[1])
         /\ \A p : \A i \in DOMAIN Find(list, p) : Endpoint(Find(list, p)[i]) = ForAny(list)
<1> DEFINE n == Len(ps)
           size == n * Len(as)
<1>1. n \in Nat \ {0} /\ Len(as) \in Nat \ {0}
  BY EmptySeq
<1>2. size \in Nat /\ n <= size /\ DOMAIN list = 1..size
  BY <1>1, AtLeast DEF Entries
<1> DEFINE Turn(i) == ((i - 1) % n) + 1
<1>3. \A i \in 1..size : list[i].protocol = ps[Turn(i)]
  BY DEF Entries, Node
<1>4. \A i \in 1..n : list[i] = Node(as[1], port, ps[i])
  <2> TAKE i \in 1..n
  <2>1. i \in 1..size
    <3> HIDE DEF n, size
    <3> QED
      BY <1>1, <1>2
  <2>2. ((i - 1) \div n) + 1 = 1 /\ ((i - 1) % n) + 1 = i
    BY <1>1, FirstTurn
  <2> QED
    BY <2>1, <2>2 DEF Entries
<1>5. \A i \in 1..size : Turn(i) \in 1..n /\ Turn(i) <= i /\ Turn(i) \in 1..size
  <2> TAKE i \in 1..size
  <2> HIDE DEF n, size
  <2>1. Turn(i) \in 1..n /\ Turn(i) <= i
    BY <1>1, <1>2, AnyTurn
  <2> HIDE DEF Turn
  <2> QED
    BY <1>1, <1>2, <2>1
<1>6. \A i \in 1..n : Turn(i) = i
  BY <1>1, FirstTurn
<1> HIDE DEF Turn, n, size
<1>7. 1 \in 1..n /\ 1 \in 1..size
  BY <1>1, <1>2
<1>8. list # <<>> /\ list[1] = Node(as[1], port, ps[1])
  <2>1. DOMAIN <<>> = {}
    OBVIOUS
  <2> QED
    BY <1>2, <1>4, <1>7, <2>1
<1>9. ASSUME NEW p, NEW i \in DOMAIN Find(list, p)
      PROVE  Endpoint(Find(list, p)[i]) = ForAny(list)
  <2> DEFINE fits == {j \in DOMAIN list : list[j].protocol \in {"any", p}}
             first == CHOOSE j \in fits : \A k \in fits : j <= k
  <2>1. fits # {}
    <3>1. SUFFICES ASSUME fits = {} PROVE FALSE
      OBVIOUS
    <3>2. Find(list, p) = <<>>
      BY <3>1 DEF Find, Nothing
    <3>3. DOMAIN <<>> = {}
      OBVIOUS
    <3> QED
      BY <1>9, <3>2, <3>3
  <2>2. Find(list, p) = <<list[first]>>
    BY <2>1 DEF Find
  <2>3. fits \subseteq 1..size
    <3>1. fits \subseteq DOMAIN list
      OBVIOUS
    <3> HIDE DEF fits
    <3> QED
      BY <1>2, <3>1
  <2>4. \E j \in fits : \A k \in fits : j <= k
    <3>0. 1..size \subseteq Nat
      BY <1>2
    <3>1. fits \subseteq Nat
      BY <2>3, <3>0, Zenon
    <3> HIDE DEF fits
    <3> QED
      BY <2>1, <3>1, Earliest
  <2>5. first \in fits /\ \A k \in fits : first <= k
    BY <2>4
  <2>6. first \in 1..n
    <3>1. first \in 1..size
      BY <2>3, <2>5
    <3>2. Turn(first) \in 1..n /\ Turn(first) \in 1..size /\ Turn(first) <= first
      BY <1>5, <3>1
    <3>3. list[Turn(first)].protocol = list[first].protocol
      BY <1>3, <1>6, <3>1, <3>2
    <3>4. Turn(first) \in fits
      BY <1>2, <2>5, <3>2, <3>3
    <3>5. first <= Turn(first)
      BY <2>5, <3>4
    <3>6. Turn(first) = first
      <4> HIDE DEF first
      <4> QED
        BY <1>2, <3>1, <3>2, <3>5
    <3> QED
      BY <3>2, <3>6
  <2>7. list[first] = Node(as[1], port, ps[first])
    BY <1>4, <2>6
  <2>8. i = 1 /\ Find(list, p)[i] = list[first]
    <3> HIDE DEF first
    <3>1. i \in DOMAIN <<list[first]>>
      BY <1>9, <2>2
    <3> QED
      BY <2>2, <3>1, Single
  <2> QED
    BY <1>8, <2>7, <2>8 DEF Endpoint, ForAny, Node
<1> QED
  BY <1>8, <1>9

\* The list is one of the address and the port.
Stands(list, address, port) ==
  /\ list # Nothing
  /\ ForAny(list) = [family |-> address.family, text |-> address.text, port |-> port]
  /\ Fits(list, <<ForAny(list)>>)

\* A text of one token is not empty, and has this token.
LEMMA SingleText == \A x : <<x>> # <<>> /\ <<x>>[1] = x /\ Len(<<x>>) = 1
OBVIOUS

\* The list of addresses, protocols and a port stands for the first address and the port.
LEMMA EntriesStand ==
  ASSUME NEW as \in Seq(Literals), NEW ps \in Seq(Protocols), NEW port, as # <<>>, ps # <<>>
  PROVE  Stands(Entries(as, ps, port), as[1], port)
<1> DEFINE list == Entries(as, ps, port)
<1>1. /\ list # <<>>
      /\ list[1] = Node(as[1], port, ps[1])
      /\ \A p : \A i \in DOMAIN Find(list, p) : Endpoint(Find(list, p)[i]) = ForAny(list)
  BY EntriesFit
<1> HIDE DEF list
<1>2. ForAny(list) = [family |-> as[1].family, text |-> as[1].text, port |-> port]
  BY <1>1 DEF ForAny, Endpoint, Node
<1> DEFINE meaning == <<ForAny(list)>>
<1>3. meaning # Nothing /\ meaning[1] = ForAny(list)
  BY SingleText DEF Nothing
<1> HIDE DEF meaning
<1>4. Fits(list, meaning)
  BY <1>1, <1>3 DEF Fits, Nothing
<1>5. Stands(list, as[1], port)
  BY <1>1, <1>2, <1>4 DEF Stands, Nothing, meaning
<1> QED
  BY <1>5 DEF list

\* Whatever the host, its addresses are numeric hosts.
Families == {"unspec", "inet"}

LEMMA AddressesAre ==
  ASSUME NEW host, NEW family \in Families
  PROVE  Addresses(host, family) \in Seq(Literals)
<1>1. CASE Len(host) = 1 /\ host[1] \in DOMAIN HostName
  <2>1. HostName[host[1]] \in [unspec : Seq(Literals) \ {<<>>}, inet : Seq(Literals)]
    BY <1>1, LiteralAssumption DEF LiteralAssumption
  <2> QED
    BY <1>1, <2>1 DEF Addresses, Families
<1>2. CASE ~(Len(host) = 1 /\ host[1] \in DOMAIN HostName)
  <2> DEFINE found == {l \in Literals : l.text = host /\ family \in {"unspec", l.family}}
  <2>1. CASE found = {}
    BY <1>2, <2>1, EmptySeq DEF Addresses, Nothing
  <2>2. CASE found # {}
    <3>1. PICK l \in Literals : Addresses(host, family) = <<l>>
      BY <1>2, <2>2 DEF Addresses
    <3> QED
      BY <3>1
  <2> QED
    BY <2>1, <2>2
<1> QED
  BY <1>1, <1>2

\* A numeric host stands for itself alone.
LEMMA OwnAddress == ASSUME NEW l \in Literals PROVE Addresses(l.text, "unspec") = <<l>>
<1> DEFINE found == {k \in Literals : k.text = l.text /\ "unspec" \in {"unspec", k.family}}
<1>1. ~(Len(l.text) = 1 /\ l.text[1] \in DOMAIN HostName)
  BY LiteralAssumption DEF LiteralAssumption
<1>2. l \in found /\ \A k \in found : k = l
  BY LiteralAssumption DEF LiteralAssumption
<1>3. (CHOOSE k \in found : TRUE) = l
  BY <1>2
<1> QED
  BY <1>1, <1>2, <1>3 DEF Addresses

\* A member of a set makes a sequence over the set.
LEMMA SingleSeq == ASSUME NEW S, NEW x \in S PROVE <<x>> \in Seq(S)
OBVIOUS

\* Numbers, and what has a name.
Names == DOMAIN Number \cup DOMAIN Service \cup DOMAIN HostName \cup Schemes

\* What may be given as a service.
Servings == {Nothing} \cup {<<t>> : t \in Names}

\* Whatever the service, its protocols are TCP and UDP, or none.
LEMMA ServedIs ==
  ASSUME NEW serv \in Servings, NEW numeric \in BOOLEAN
  PROVE  Served(serv, numeric).protocols \in Seq(Protocols)
<1>1. Both \in Seq(Protocols) /\ Nothing \in Seq(Protocols)
  BY EmptySeq DEF Both, Nothing, Protocols
<1>2. \A s \in DOMAIN Service : Service[s].protocols \in Seq(Protocols)
  <2> TAKE s \in DOMAIN Service
  <2>1. Service[s].protocols \in Seq({"tcp", "udp"})
    BY ServiceAssumption DEF ServiceAssumption
  <2>2. {"tcp", "udp"} \subseteq Protocols
    BY DEF Protocols
  <2> QED
    BY <2>1, <2>2, SeqMonotonic
<1> QED
  BY <1>1, <1>2 DEF Served

\* The list of getaddrinfo is empty, or stands for the first address of the host and the
\* port of the service.
LEMMA ListStands ==
  ASSUME NEW host, NEW serv \in Servings, NEW numeric \in BOOLEAN,
         NEW family \in Families
  PROVE  IF Addresses(host, family) = Nothing \/ Served(serv, numeric).protocols = Nothing
         THEN GetAddrInfo(host, serv, numeric, family) = Nothing
         ELSE Stands(GetAddrInfo(host, serv, numeric, family), Addresses(host, family)[1],
                     Served(serv, numeric).port)
<1> DEFINE as == Addresses(host, family)
           s == Served(serv, numeric)
           ps == IF typed \/ s.protocols = Nothing THEN s.protocols ELSE <<"any">>
<1>1. as \in Seq(Literals)
  BY AddressesAre
<1>2. ps \in Seq(Protocols) /\ (ps = Nothing <=> s.protocols = Nothing)
  <2>1. s.protocols \in Seq(Protocols)
    BY ServedIs
  <2>2. <<"any">> \in Seq(Protocols) /\ <<"any">> # Nothing
    BY SingleText, SingleSeq DEF Nothing, Protocols
  <2> HIDE DEF s
  <2> QED
    BY <2>1, <2>2
<1>3. GetAddrInfo(host, serv, numeric, family) = Entries(as, ps, s.port)
  BY DEF GetAddrInfo, Entries
<1> HIDE DEF as, s, ps
<1>4. CASE as = Nothing \/ s.protocols = Nothing
  <2>1. Entries(as, ps, s.port) = Nothing
    BY <1>1, <1>2, <1>4, EntriesEmpty DEF Nothing
  <2> QED
    BY <1>3, <1>4, <2>1 DEF as, s
<1>5. CASE ~(as = Nothing \/ s.protocols = Nothing)
  <2>1. Stands(Entries(as, ps, s.port), as[1], s.port)
    BY <1>1, <1>2, <1>5, EntriesStand DEF Nothing
  <2> QED
    BY <1>3, <1>5, <2>1 DEF as, s
<1> QED
  BY <1>4, <1>5

-------------------------------------------------------------------------------
(* The parts of a text. *)

\* After k tokens of uri there is part, and no more or a path.
Shaped(uri, k, part) ==
  /\ uri \in Text /\ part \in Text \ {<<>>} /\ k \in Nat
  /\ k + Len(part) <= Len(uri)
  /\ \A i \in 1..Len(part) : uri[k + i] = part[i] /\ part[i] # "/"
  /\ k + Len(part) < Len(uri) => uri[k + Len(part) + 1] = "/"

\* What is known of any text.
LEMMA TextIs ==
  ASSUME NEW t \in Text
  PROVE  /\ Len(t) \in Nat /\ DOMAIN t = 1..Len(t)
         /\ t # <<>> => Len(t) \in Nat \ {0}
         /\ \A i \in 1..Len(t) : t[i] \in Tokens
BY LenProperties, EmptySeq, ElementOfSeq DEF Text

\* What makes a text.
LEMMA TextOf ==
  ASSUME NEW n \in Nat, NEW t, DOMAIN t = 1..n, t = [i \in 1..n |-> t[i]],
         \A i \in 1..n : t[i] \in Tokens
  PROVE  t \in Text /\ Len(t) = n
<1>1. t \in [1..n -> Tokens]
  OBVIOUS
<1>2. t \in Seq(Tokens)
  BY <1>1, SeqDef
<1> QED
  BY <1>2 DEF Text

\* Names and words are no punctuation.
LEMMA Apart == \A w \in Names \cup Words : w # ":" /\ w # "/" /\ w # "[" /\ w # "]" /\ w # ""
BY TokenAssumption DEF TokenAssumption, Punctuation, Colons, Names

\* Three tokens, as the colon and slashes after a scheme, make a text of them.
LEMMA TripleSeq ==
  ASSUME NEW S, NEW x \in S, NEW y \in S, NEW z \in S
  PROVE  /\ <<x, y, z>> \in Seq(S) /\ Len(<<x, y, z>>) = 3
         /\ <<x, y, z>>[1] = x /\ <<x, y, z>>[2] = y /\ <<x, y, z>>[3] = z
OBVIOUS

\* And two, as a name and a colon.
LEMMA PairSeq ==
  ASSUME NEW S, NEW x \in S, NEW y \in S
  PROVE  /\ <<x, y>> \in Seq(S) \ {<<>>} /\ Len(<<x, y>>) = 2
         /\ <<x, y>>[1] = x /\ <<x, y>>[2] = y
OBVIOUS

\* Where ://, in three tokens, is in a text.
LEMMA SchemeMark ==
  ASSUME NEW uri \in Text, NEW n \in 3..Len(uri)
  PROVE  SubSeq(uri, n - 2, n) = <<":", "/", "/">>
           <=> uri[n - 2] = ":" /\ uri[n - 1] = "/" /\ uri[n] = "/"
<1> DEFINE s == SubSeq(uri, n - 2, n)
           mark == <<":", "/", "/">>
<1>1. Len(uri) \in Nat /\ n \in Nat /\ n - 2 \in 1..Len(uri) /\ n <= Len(uri)
  BY TextIs
<1>2. \A i \in (n - 2)..n : uri[i] \in Tokens
  BY <1>1, TextIs
<1>3. /\ s \in Seq(Tokens) /\ Len(s) = 3
      /\ s[1] = uri[n - 2] /\ s[2] = uri[n - 1] /\ s[3] = uri[n]
  <2>1. /\ s \in Seq(Tokens)
        /\ Len(s) = IF n - 2 <= n THEN n - (n - 2) + 1 ELSE 0
        /\ \A i \in 1..(n - (n - 2) + 1) : s[i] = uri[n - 2 + i - 1]
    BY <1>1, <1>2, SubSeqProperties
  <2>2. n - (n - 2) + 1 = 3 /\ n - 2 <= n
    BY <1>1
  <2>3. /\ n - 2 + 1 - 1 = n - 2 /\ n - 2 + 2 - 1 = n - 1 /\ n - 2 + 3 - 1 = n
        /\ 1 \in 1..3 /\ 2 \in 1..3 /\ 3 \in 1..3
    BY <1>1
  <2> HIDE DEF s
  <2> QED
    BY <2>1, <2>2, <2>3
<1>4. /\ mark \in Seq(Tokens) /\ Len(mark) = 3
      /\ mark[1] = ":" /\ mark[2] = "/" /\ mark[3] = "/"
  <2>1. ":" \in Tokens /\ "/" \in Tokens
    BY TokenAssumption DEF TokenAssumption, Punctuation, Colons
  <2> QED
    BY <2>1, TripleSeq
<1> HIDE DEF s, mark
<1>5. s[1] = mark[1] /\ s[2] = mark[2] /\ s[3] = mark[3] => s = mark
  <2>1. 1..3 = {1, 2, 3}
    OBVIOUS
  <2> SUFFICES ASSUME s[1] = mark[1] /\ s[2] = mark[2] /\ s[3] = mark[3] PROVE s = mark
    OBVIOUS
  <2>2. \A i \in 1..Len(s) : s[i] = mark[i]
    BY <1>3, <2>1
  <2> QED
    BY <1>3, <1>4, <2>2, SeqEqual
<1>6. s = mark <=> uri[n - 2] = ":" /\ uri[n - 1] = "/" /\ uri[n] = "/"
  BY <1>3, <1>4, <1>5
<1> QED
  BY <1>6 DEF s, mark

\* Where :// can end, position by position.
Ends(uri) == {n \in 3..(Len(uri) - 1) :
                /\ \A i \in 1..(n - 3) : uri[i] \in Words
                /\ uri[n - 2] = ":" /\ uri[n - 1] = "/" /\ uri[n] = "/"
                /\ uri[n + 1] # "/"}
Any(S) == IF S = {} THEN 0 ELSE CHOOSE n \in S : TRUE

\* The end of the scheme, with the set of ends named.
LEMMA SchemeEnds == ASSUME NEW uri \in Text PROVE SchemeEnd(uri) = Any(Ends(uri))
<1>1. \A n \in 3..(Len(uri) - 1) :
        SubSeq(uri, n - 2, n) = <<":", "/", "/">>
          <=> uri[n - 2] = ":" /\ uri[n - 1] = "/" /\ uri[n] = "/"
  <2> TAKE n \in 3..(Len(uri) - 1)
  <2>1. n \in 3..Len(uri)
    BY TextIs
  <2> QED
    BY <2>1, SchemeMark
<1> DEFINE marked == {n \in 3..(Len(uri) - 1) :
                        /\ \A i \in 1..(n - 3) : uri[i] \in Words
                        /\ SubSeq(uri, n - 2, n) = <<":", "/", "/">>
                        /\ uri[n + 1] # "/"}
<1>2. marked = Ends(uri)
  BY <1>1, Zenon DEF Ends
<1>3. SchemeEnd(uri) = Any(marked)
  BY DEF SchemeEnd, Any
<1> QED
  BY <1>2, <1>3, Zenon

\* A word before :// is a scheme, and no later :// makes one.
LEMMA SchemeFound ==
  ASSUME NEW uri \in Text, Len(uri) > 4, uri[1] \in Words,
         uri[2] = ":", uri[3] = "/", uri[4] = "/", uri[5] # "/"
  PROVE  SchemeEnd(uri) = 4
<1>1. Len(uri) \in Nat
  BY TextIs
<1>2. 4 \in Ends(uri)
  <2>1. \A i \in 1..1 : i = 1
    OBVIOUS
  <2>2. 4 \in 3..(Len(uri) - 1)
    BY <1>1
  <2> QED
    BY <2>1, <2>2 DEF Ends
<1>3. ASSUME NEW n \in Ends(uri) PROVE n = 4
  <2>1. n \in 3..(Len(uri) - 1) /\ (\A i \in 1..(n - 3) : uri[i] \in Words) /\ uri[n - 2] = ":"
    BY <1>3 DEF Ends
  <2>2. CASE n = 3
    <3>1. n - 2 = 1
      BY <2>2
    <3>2. uri[1] = ":"
      BY <2>1, <3>1, Zenon
    <3> QED
      BY <3>2, Apart
  <2>3. CASE n > 4
    <3>1. 2 \in 1..(n - 3)
      BY <1>1, <2>1, <2>3
    <3> QED
      BY <2>1, <3>1, Apart
  <2>4. n \in Nat /\ n >= 3
    BY <1>1, <2>1
  <2>5. n = 3 \/ n = 4 \/ n > 4
    BY <2>4
  <2> QED
    BY <2>2, <2>3, <2>5
<1>4. (CHOOSE n \in Ends(uri) : TRUE) = 4
  BY <1>2, <1>3
<1> QED
  BY <1>2, <1>4, SchemeEnds DEF Any

\* A text that has more than words before a colon that may end it has no scheme: the first
\* slash is the one of its path.
LEMMA NoScheme ==
  ASSUME NEW uri, NEW part, Shaped(uri, 0, part),
         part[Len(part)] = ":" => \E i \in 1..(Len(part) - 1) : part[i] \notin Words
  PROVE  SchemeEnd(uri) = 0
<1> DEFINE l == Len(part)
           m == Len(uri)
<1>1. /\ uri \in Text /\ m \in Nat /\ l \in Nat \ {0} /\ l <= m
      /\ \A i \in 1..l : uri[i] = part[i] /\ part[i] # "/"
      /\ l < m => uri[l + 1] = "/"
  <2>1. uri \in Text /\ part \in Text \ {<<>>}
    BY DEF Shaped
  <2>2. m \in Nat /\ l \in Nat \ {0}
    BY <2>1, TextIs
  <2>3. 0 + l = l /\ \A i \in 1..l : 0 + i = i
    BY <2>2
  <2> QED
    BY <2>1, <2>2, <2>3 DEF Shaped
<1> HIDE DEF l, m
<1>2. ASSUME NEW n \in Ends(uri) PROVE FALSE
  <2>1. /\ n \in 3..(m - 1) /\ (\A i \in 1..(n - 3) : uri[i] \in Words)
        /\ uri[n - 2] = ":" /\ uri[n - 1] = "/"
    BY <1>2 DEF m, Ends
  <2>2. n - 1 \notin 1..l
    BY <1>1, <2>1
  <2>3. n - 2 >= l
    BY <1>1, <2>1, <2>2
  <2>4. l < m
    BY <1>1, <2>1, <2>3
  <2>5. CASE n - 2 = l
    <3>1. part[l] = ":"
      <4>1. l \in 1..l
        BY <1>1
      <4> QED
        BY <1>1, <2>1, <2>5, <4>1
    <3>2. PICK i \in 1..(l - 1) : part[i] \notin Words
      BY <3>1 DEF l
    <3>3. i \in 1..l /\ i \in 1..(n - 3)
      BY <1>1, <2>1, <2>5
    <3> QED
      BY <1>1, <2>1, <3>2, <3>3
  <2>6. CASE n - 2 = l + 1
    BY <1>1, <2>1, <2>4, <2>6
  <2>7. CASE n - 2 > l + 1
    <3>1. l + 1 \in 1..(n - 3)
      BY <1>1, <2>1, <2>7
    <3> QED
      BY <1>1, <2>1, <2>4, <3>1, Apart
  <2> QED
    BY <1>1, <2>1, <2>3, <2>5, <2>6, <2>7
<1>3. Ends(uri) = {}
  BY <1>2
<1> QED
  BY <1>1, <1>3, SchemeEnds DEF Any

\* What follows the service, up to the path, is taken for the host and the port.
LEMMA HostPartIs ==
  ASSUME NEW uri, NEW part, Shaped(uri, SchemeEnd(uri), part)
  PROVE  HostPart(uri) = part
<1> DEFINE k == SchemeEnd(uri)
           l == Len(part)
           m == Len(uri)
           Stops(n) == /\ \A i \in (k + 1)..n : uri[i] # "/"
                       /\ n < m => uri[n + 1] = "/"
<1>1. /\ uri \in Text /\ part \in Text /\ m \in Nat /\ l \in Nat \ {0} /\ k \in Nat
      /\ k + l <= m
      /\ \A i \in 1..l : uri[k + i] = part[i] /\ part[i] # "/"
      /\ k + l < m => uri[k + l + 1] = "/"
  BY TextIs DEF Shaped
<1>2. HostPart(uri) = SubSeq(uri, k + 1, CHOOSE n \in (k + 1)..m : Stops(n))
  BY DEF HostPart
<1> HIDE DEF k, l, m
<1>3. k + l \in (k + 1)..m /\ Stops(k + l)
  <2>1. ASSUME NEW i \in (k + 1)..(k + l) PROVE uri[i] # "/"
    <3>1. i - k \in 1..l /\ k + (i - k) = i
      BY <1>1
    <3> QED
      BY <1>1, <3>1
  <2>2. k + l \in (k + 1)..m
    BY <1>1
  <2> QED
    BY <1>1, <2>1, <2>2
<1>4. ASSUME NEW n \in (k + 1)..m, Stops(n) PROVE n = k + l
  <2>1. CASE n < k + l
    <3>1. n < m /\ n + 1 \in (k + 1)..(k + l)
      BY <1>1, <2>1
    <3> QED
      BY <1>3, <1>4, <3>1
  <2>2. CASE n > k + l
    <3>1. k + l < m /\ k + l + 1 \in (k + 1)..n
      BY <1>1, <2>2
    <3> QED
      BY <1>1, <1>4, <3>1
  <2> QED
    BY <1>1, <2>1, <2>2
<1> HIDE DEF Stops
<1>5. (CHOOSE n \in (k + 1)..m : Stops(n)) = k + l
  BY <1>3, <1>4
<1>6. SubSeq(uri, k + 1, k + l) = part
  <2> DEFINE s == SubSeq(uri, k + 1, k + l)
  <2>1. \A i \in (k + 1)..(k + l) : uri[i] \in Tokens
    <3>1. \A i \in (k + 1)..(k + l) : i \in 1..m
      BY <1>1
    <3> QED
      BY <1>1, <3>1, TextIs DEF m
  <2>2. /\ s \in Seq(Tokens)
        /\ Len(s) = IF k + 1 <= k + l THEN k + l - (k + 1) + 1 ELSE 0
        /\ \A i \in 1..(k + l - (k + 1) + 1) : s[i] = uri[k + 1 + i - 1]
    BY <1>1, <2>1, SubSeqProperties
  <2>3. k + l - (k + 1) + 1 = l /\ k + 1 <= k + l
    BY <1>1
  <2>4. Len(s) = l /\ \A i \in 1..l : s[i] = part[i]
    <3> HIDE DEF s
    <3>1. \A i \in 1..l : k + 1 + i - 1 = k + i
      BY <1>1
    <3> QED
      BY <1>1, <2>2, <2>3, <3>1
  <2> HIDE DEF s
  <2> QED
    BY <1>1, <2>2, <2>4, SeqEqual DEF s, l, Text
<1> QED
  BY <1>2, <1>5, <1>6 DEF k, m

\* A host with a port after a colon, in brackets or not.
PlainPort(part, host, port) ==
  /\ part \in Text /\ host \in Text \ {<<>>} /\ port \in DOMAIN Number
  /\ Len(part) = Len(host) + 2
  /\ \A i \in 1..Len(host) : part[i] = host[i]
  /\ part[Len(host) + 1] = ":"
  /\ part[Len(host) + 2] = port

BracketedPort(part, host, port) ==
  /\ part \in Text /\ host \in Text \ {<<>>} /\ port \in DOMAIN Number
  /\ Len(part) = Len(host) + 4
  /\ part[1] = "["
  /\ \A i \in 1..Len(host) : part[i + 1] = host[i]
  /\ part[Len(host) + 2] = "]"
  /\ part[Len(host) + 3] = ":"
  /\ part[Len(host) + 4] = port

\* From position k + 1 on, the text has a host.
Has(part, k, host) == \A i \in 1..Len(host) : part[k + i] = host[i]

\* The positions from a to b are the l that follow k.
Spans(a, b, k, l) == k \in Nat /\ l \in Nat /\ a \in Int /\ a = k + 1 /\ b \in Int /\ b = k + l

\* The part of a text that agrees with a host from its start to its end is the host.
LEMMA Middle ==
  ASSUME NEW part \in Text, NEW host \in Text, NEW k, NEW a, NEW b,
         Spans(a, b, k, Len(host)), b <= Len(part), Has(part, k, host)
  PROVE  SubSeq(part, a, b) = host
<1> DEFINE m == Len(part)
           l == Len(host)
           s == SubSeq(part, a, b)
<1>0. k \in Nat /\ l \in Nat /\ a \in Int /\ a = k + 1 /\ b \in Int /\ b = k + l
  BY DEF Spans
<1> HIDE DEF l
<1>1. m \in Nat
  BY TextIs
<1>2. \A i \in a..b : part[i] \in Tokens
  <2>1. \A i \in a..b : i \in 1..Len(part)
    BY <1>0, <1>1
  <2> QED
    BY <2>1, TextIs
<1>3. /\ s \in Seq(Tokens)
      /\ Len(s) = IF a <= b THEN b - a + 1 ELSE 0
      /\ \A i \in 1..(b - a + 1) : s[i] = part[a + i - 1]
  BY <1>0, <1>2, SubSeqProperties
<1> HIDE DEF s
<1>4. b - a + 1 = l /\ (~(a <= b) => l = 0)
  BY <1>0
<1>5. Len(s) = l
  BY <1>0, <1>3, <1>4
<1>6. ASSUME NEW i \in 1..l PROVE s[i] = host[i]
  <2>1. a + i - 1 = k + i
    BY <1>0
  <2> QED
    BY <1>3, <1>4, <2>1 DEF Has, l
<1>7. s = host
  BY <1>3, <1>5, <1>6, SeqEqual DEF Text, l
<1> QED
  BY <1>7 DEF s

\* Numbers are no punctuation.
LEMMA PortApart == \A n \in DOMAIN Number : n # ":" /\ n # "/" /\ n # "[" /\ n # "]" /\ n \in Tokens
BY Apart, TokenAssumption DEF TokenAssumption, Names

\* A number in range is of digits only.
LEMMA RangeHasDigits == \A n \in DOMAIN Number : ~OutOfRange(n) => n \in Digits
<1> TAKE n \in DOMAIN Number
<1> HAVE ~OutOfRange(n)
<1>1. Number[n] \in 0..PortMax
  BY DEF OutOfRange
<1>2. Number[n] >= 0
  BY <1>1
<1> QED
  BY <1>2 DEF Digits

\* Brackets are for hosts with colons; without them a single colon is the port's.
LEMMA PlainDissected ==
  ASSUME NEW uri, NEW part, NEW host, NEW port,
         HostPart(uri) = part, PlainPort(part, host, port), port \in Digits,
         host[1] # "[", \A i \in 1..Len(host) : host[i] \notin Colons
  PROVE  UriDissect(uri) = [host |-> host, serv |-> <<port>>, numeric |-> TRUE]
<1> DEFINE l == Len(host)
           n == Len(part)
<1>1. l \in Nat \ {0} /\ n = l + 2 /\ n > 2 /\ n - 1 = l + 1 /\ n - 2 = l /\ 1 \in 1..l
  BY TextIs DEF PlainPort
<1> HIDE DEF l, n
<1>2. /\ part[1] = host[1] /\ part[n] = port /\ part[n - 1] = ":"
      /\ \A i \in 1..l : part[i] = host[i]
  BY <1>1 DEF PlainPort, l, n
<1>3. EndsInPort(part)
  BY <1>1, <1>2 DEF EndsInPort, PlainPort, n
<1>4. ~Bracketed(part)
  BY <1>2 DEF Bracketed
<1>5. Plain(part)
  BY <1>1, <1>2, <1>3 DEF Plain, l, n
<1>6. SubSeq(part, 1, n - 2) = host
  <2>1. \A i \in 1..l : 0 + i = i
    BY <1>1
  <2> DEFINE b == n - 2
  <2>2. 0 \in Nat /\ 1 \in Int /\ 1 = 0 + 1 /\ b = 0 + l /\ b <= n /\ b \in Int /\ l \in Nat
    BY <1>1
  <2> HIDE DEF b
  <2>3. Has(part, 0, host)
    BY <1>2, <2>1 DEF Has, l
  <2>4. part \in Text /\ host \in Text /\ Spans(1, b, 0, Len(host)) /\ b <= Len(part)
    BY <2>2 DEF PlainPort, Spans, l, n
  <2>5. SubSeq(part, 1, b) = host
    BY <2>3, <2>4, Middle
  <2> QED
    BY <2>5 DEF b
<1> QED
  BY <1>2, <1>4, <1>5, <1>6 DEF UriDissect, n

\* In brackets, a host is told from its port whatever colons it has.
LEMMA BracketedDissected ==
  ASSUME NEW uri, NEW part, NEW host, NEW port,
         HostPart(uri) = part, BracketedPort(part, host, port), port \in Digits
  PROVE  UriDissect(uri) = [host |-> host, serv |-> <<port>>, numeric |-> TRUE]
<1> DEFINE l == Len(host)
           n == Len(part)
<1>1. /\ l \in Nat \ {0} /\ n = l + 4 /\ n > 2
      /\ n - 1 = l + 3 /\ n - 2 = l + 2 /\ n - 3 = l + 1
  BY TextIs DEF BracketedPort
<1> HIDE DEF l, n
<1>2. part[1] = "[" /\ part[n - 2] = "]" /\ part[n - 1] = ":" /\ part[n] = port
  BY <1>1 DEF BracketedPort, l, n
<1>3. Bracketed(part)
  BY <1>1, <1>2 DEF Bracketed, EndsInPort, BracketedPort, n
<1>4. SubSeq(part, 2, n - 3) = host
  <2>1. \A i \in 1..l : 1 + i = i + 1
    BY <1>1
  <2> DEFINE b == n - 3
  <2>2. 1 \in Nat /\ 2 \in Int /\ 2 = 1 + 1 /\ b = 1 + l /\ b <= n /\ b \in Int /\ l \in Nat
    BY <1>1
  <2> HIDE DEF b
  <2>3. Has(part, 1, host)
    BY <2>1 DEF BracketedPort, Has, l
  <2>4. part \in Text /\ host \in Text /\ Spans(2, b, 1, Len(host)) /\ b <= Len(part)
    BY <2>2 DEF BracketedPort, Spans, l, n
  <2>5. SubSeq(part, 2, b) = host
    BY <2>3, <2>4, Middle
  <2> QED
    BY <2>5 DEF b
<1> QED
  BY <1>2, <1>3, <1>4 DEF UriDissect, n

\* A host without a port keeps its colons.
LEMMA HostDissected ==
  ASSUME NEW uri, NEW part, HostPart(uri) = part, ~Plain(part), part[1] # "["
  PROVE  UriDissect(uri) =
           [host |-> part, serv |-> SubSeq(uri, 1, SchemeEnd(uri) - 3), numeric |-> FALSE]
BY DEF UriDissect, Bracketed

-------------------------------------------------------------------------------
(* What to_string prints. *)

\* The buffer, for a host and a service and where it has the service, and what is
\* left of the buffer when its parts are moved together.
Buffer(text, port, v6, serv) ==
  [i \in 0..(serv + 1) |->
     IF i = serv THEN port
     ELSE IF i = serv - 1 THEN ":"
     ELSE IF i = serv - 2 /\ v6 = 1 THEN "]"
     ELSE IF i = 0 /\ v6 = 1 THEN "["
     ELSE IF i - v6 \in 0..(Len(text) - 1) THEN text[i - v6 + 1]
     ELSE ""]

HostEnds(buffer, v6, i) == buffer[i] = "" /\ \A j \in v6..(i - 1) : buffer[j] # ""
HostEnd(buffer, v6, serv) == CHOOSE i \in v6..serv : HostEnds(buffer, v6, i)

Moved(buffer, hostEnd, tail, size) ==
  [i \in 1..size |-> IF i <= hostEnd THEN buffer[i - 1] ELSE buffer[tail + i - hostEnd - 1]]

\* Where the host ends and the service starts.
Laid(v6, len, tail, serv, end) ==
  /\ v6 \in {0, 1} /\ len \in Nat \ {0} /\ tail \in Nat /\ len + v6 < tail
  /\ serv \in Nat /\ serv = tail + 1 + v6 /\ end \in Nat /\ end = v6 + len

Filled(buffer, text, port, v6, len, tail, end) ==
  /\ \A i \in 1..len : buffer[v6 + i - 1] = text[i]
  /\ buffer[end] = ""
  /\ v6 = 1 => buffer[0] = "[" /\ buffer[tail] = "]"
  /\ buffer[tail + v6] = ":" /\ buffer[tail + v6 + 1] = port

\* The buffer has the text of the host, its end, and what surrounds host and service.
LEMMA BufferHas ==
  ASSUME NEW text, NEW port, NEW v6, NEW len, NEW tail, NEW serv, NEW end,
         Len(text) = len, Laid(v6, len, tail, serv, end)
  PROVE  Filled(Buffer(text, port, v6, serv), text, port, v6, len, tail, end)
<1> DEFINE buffer == Buffer(text, port, v6, serv)
<1>0. /\ v6 \in {0, 1} /\ len \in Nat \ {0} /\ tail \in Nat /\ len + v6 < tail
      /\ serv \in Nat /\ serv = tail + 1 + v6 /\ end \in Nat /\ end = v6 + len
  BY DEF Laid
<1>1. ASSUME NEW i \in 1..len PROVE buffer[v6 + i - 1] = text[i]
  <2> DEFINE n == v6 + i - 1
  <2>1. /\ n \in 0..(serv + 1)
        /\ n # serv /\ n # serv - 1
        /\ ~(n = serv - 2 /\ v6 = 1)
        /\ ~(n = 0 /\ v6 = 1)
        /\ n - v6 \in 0..(len - 1)
        /\ n - v6 + 1 = i
    BY <1>0
  <2> HIDE DEF n
  <2>2. buffer[n] = text[n - v6 + 1]
    BY <2>1 DEF Buffer
  <2>3. buffer[n] = text[i]
    BY <2>1, <2>2
  <2> QED
    BY <2>3 DEF n
<1>2. buffer[end] = ""
  <2>1. /\ end \in 0..(serv + 1)
        /\ end # serv /\ end # serv - 1
        /\ ~(end = serv - 2 /\ v6 = 1)
        /\ end # 0
        /\ end - v6 \notin 0..(len - 1)
    BY <1>0
  <2> QED
    BY <2>1 DEF Buffer
<1>3. ASSUME v6 = 1 PROVE buffer[0] = "[" /\ buffer[tail] = "]"
  <2>1. /\ 0 \in 0..(serv + 1) /\ 0 # serv /\ 0 # serv - 1 /\ 0 # serv - 2
        /\ tail \in 0..(serv + 1) /\ tail = serv - 2 /\ tail # serv /\ tail # serv - 1
    BY <1>0, <1>3
  <2> QED
    BY <1>3, <2>1 DEF Buffer
<1>4. buffer[tail + v6] = ":" /\ buffer[tail + v6 + 1] = port
  <2>1. /\ tail + v6 \in 0..(serv + 1) /\ tail + v6 = serv - 1 /\ tail + v6 # serv
        /\ tail + v6 + 1 \in 0..(serv + 1) /\ tail + v6 + 1 = serv
    BY <1>0
  <2> QED
    BY <2>1 DEF Buffer
<1> QED
  BY <1>1, <1>2, <1>3, <1>4 DEF Filled

\* Its first NUL is where the host ends.
LEMMA HostEndIs ==
  ASSUME NEW buffer, NEW v6 \in Nat, NEW end \in Nat, NEW serv \in Nat,
         v6 <= end, end <= serv, HostEnds(buffer, v6, end)
  PROVE  HostEnd(buffer, v6, serv) = end
<1>1. end \in v6..serv
  OBVIOUS
<1>2. ASSUME NEW i \in v6..serv, HostEnds(buffer, v6, i) PROVE i = end
  <2>1. i \in Int /\ v6 <= i
    OBVIOUS
  <2>2. ASSUME i < end PROVE FALSE
    <3>1. i \in v6..(end - 1)
      BY <2>1, <2>2
    <3> QED
      BY <1>2, <3>1 DEF HostEnds
  <2>3. ASSUME end < i PROVE FALSE
    <3>1. end \in v6..(i - 1)
      BY <2>1, <2>3
    <3> QED
      BY <1>2, <3>1 DEF HostEnds
  <2> QED
    BY <2>1, <2>2, <2>3
<1> QED
  BY <1>1, <1>2 DEF HostEnd

\* Moved together, the parts of the buffer are a host and a port.
LEMMA MovedPlain ==
  ASSUME NEW text \in Text \ {<<>>}, NEW len \in Nat, Len(text) = len, NEW port \in DOMAIN Number,
         NEW buffer, NEW tail \in Nat,
         \A i \in 1..len : buffer[0 + i - 1] = text[i],
         buffer[tail] = ":", buffer[tail + 1] = port,
         NEW size \in Nat, size = len + 2
  PROVE  PlainPort(Moved(buffer, len, tail, size), text, port)
<1> DEFINE moved == Moved(buffer, len, tail, size)
<1>1. \A i \in 1..len : text[i] \in Tokens
  BY TextIs
<1>2. moved = [i \in 1..size |-> moved[i]]
  BY DEF Moved
<1>3. ASSUME NEW i \in 1..len PROVE moved[i] = text[i]
  <2>1. i \in 1..size /\ i <= len /\ i - 1 = 0 + i - 1
    OBVIOUS
  <2> QED
    BY <2>1 DEF Moved
<1>4. moved[len + 1] = ":" /\ moved[len + 2] = port
  <2>1. /\ len + 1 \in 1..size /\ ~(len + 1 <= len) /\ tail + (len + 1) - len - 1 = tail
        /\ len + 2 \in 1..size /\ ~(len + 2 <= len) /\ tail + (len + 2) - len - 1 = tail + 1
    OBVIOUS
  <2> QED
    BY <2>1 DEF Moved
<1> HIDE DEF moved
<1>5. \A i \in 1..size : moved[i] \in Tokens
  <2>1. \A i \in 1..size : i \in 1..len \/ i = len + 1 \/ i = len + 2
    OBVIOUS
  <2>2. ":" \in Tokens /\ port \in Tokens
    BY PortApart, TokenAssumption DEF TokenAssumption, Punctuation, Colons
  <2> QED
    BY <1>1, <1>3, <1>4, <2>1, <2>2
<1>6. moved \in Text /\ Len(moved) = size
  BY <1>2, <1>5, TextOf
<1>7. PlainPort(moved, text, port)
  BY <1>3, <1>4, <1>6 DEF PlainPort
<1> QED
  BY <1>7 DEF moved

\* Moved together, the parts of the buffer are a host in brackets and a port.
LEMMA MovedBracketed ==
  ASSUME NEW text \in Text \ {<<>>}, NEW len \in Nat, Len(text) = len, NEW port \in DOMAIN Number,
         NEW buffer, NEW tail \in Nat,
         \A i \in 1..len : buffer[1 + i - 1] = text[i],
         buffer[0] = "[", buffer[tail] = "]", buffer[tail + 1] = ":", buffer[tail + 2] = port,
         NEW size \in Nat, size = len + 4
  PROVE  BracketedPort(Moved(buffer, len + 1, tail, size), text, port)
<1> DEFINE moved == Moved(buffer, len + 1, tail, size)
<1>1. \A i \in 1..len : text[i] \in Tokens
  BY TextIs
<1>2. moved = [i \in 1..size |-> moved[i]]
  BY DEF Moved
<1>3. ASSUME NEW i \in 1..len PROVE moved[i + 1] = text[i]
  <2>1. i + 1 \in 1..size /\ i + 1 <= len + 1 /\ i + 1 - 1 = 1 + i - 1
    OBVIOUS
  <2> QED
    BY <2>1 DEF Moved
<1>4. moved[1] = "["
  <2>1. 1 \in 1..size /\ 1 <= len + 1 /\ 1 - 1 = 0
    OBVIOUS
  <2> QED
    BY <2>1 DEF Moved
<1>5. moved[len + 2] = "]" /\ moved[len + 3] = ":" /\ moved[len + 4] = port
  <2>1. /\ len + 2 \in 1..size /\ ~(len + 2 <= len + 1) /\ tail + (len + 2) - (len + 1) - 1 = tail
        /\ len + 3 \in 1..size /\ ~(len + 3 <= len + 1)
        /\ tail + (len + 3) - (len + 1) - 1 = tail + 1
        /\ len + 4 \in 1..size /\ ~(len + 4 <= len + 1)
        /\ tail + (len + 4) - (len + 1) - 1 = tail + 2
    OBVIOUS
  <2> QED
    BY <2>1 DEF Moved
<1> HIDE DEF moved
<1>6. \A i \in 1..size : moved[i] \in Tokens
  <2>1. ASSUME NEW i \in 1..size
        PROVE  i = 1 \/ i - 1 \in 1..len \/ i = len + 2 \/ i = len + 3 \/ i = len + 4
    OBVIOUS
  <2>2. \A i \in 1..size : i - 1 + 1 = i
    OBVIOUS
  <2>3. "[" \in Tokens /\ "]" \in Tokens /\ ":" \in Tokens /\ port \in Tokens
    BY PortApart, TokenAssumption DEF TokenAssumption, Punctuation, Colons
  <2>4. \A i \in 1..size : i - 1 \in 1..len => moved[i] \in Tokens
    BY <1>1, <1>3, <2>2
  <2> QED
    BY <1>4, <1>5, <2>1, <2>3, <2>4
<1>7. moved \in Text /\ Len(moved) = size
  BY <1>2, <1>6, TextOf
<1>8. BracketedPort(moved, text, port)
  BY <1>3, <1>4, <1>5, <1>7 DEF BracketedPort
<1> QED
  BY <1>8 DEF moved

\* An address is printed as its host and its port, in brackets if it is of IPv6.
LEMMA PrintedIs ==
  ASSUME NEW l \in Literals, NEW a, a.family = l.family, a.text = l.text,
         NEW port \in DOMAIN Number
  PROVE  /\ l.family = "inet" => PlainPort(Printed(a, port), l.text, port)
         /\ l.family = "inet6" => BracketedPort(Printed(a, port), l.text, port)
<1> DEFINE len == Len(l.text)
<1>0. /\ l.text \in Text \ {<<>>} /\ len \in Nat \ {0} /\ MaxHost \in Nat /\ len < MaxHost
      /\ \A i \in 1..len : l.text[i] # ""
  <2>1. /\ l.text \in Text \ {<<>>} /\ MaxHost \in Nat /\ len < MaxHost
        /\ \A i \in DOMAIN l.text : l.text[i] \notin Punctuation \ Colons
    BY LiteralAssumption DEF LiteralAssumption
  <2>2. "" \in Punctuation \ Colons
    BY DEF Punctuation, Colons
  <2> QED
    BY <2>1, <2>2, TextIs
<1>1. len \in Nat \ {0} /\ MaxHost \in Nat /\ len < MaxHost
  BY <1>0
<1>2. ASSUME NEW v6 \in {0, 1}, v6 = IF l.family = "inet" THEN 0 ELSE 1
      PROVE  LET serv == MaxHost + 1 + 2 * v6
                 buffer == Buffer(l.text, port, v6, serv)
                 hostEnd == HostEnd(buffer, v6, serv)
                 tail == serv - 1 - v6
             IN Printed(a, port) = Moved(buffer, hostEnd, tail, hostEnd + serv + 1 - tail)
  BY <1>2 DEF Printed, Buffer, HostEnd, HostEnds, Moved
<1>3. ASSUME NEW v6 \in {0, 1}, v6 = (IF l.family = "inet" THEN 0 ELSE 1)
      PROVE  \E tail, buffer :
                /\ tail \in Nat
                /\ Printed(a, port) = Moved(buffer, v6 + len, tail, len + 2 + 2 * v6)
                /\ \A i \in 1..len : buffer[v6 + i - 1] = l.text[i]
                /\ v6 = 1 => buffer[0] = "[" /\ buffer[tail] = "]"
                /\ buffer[tail + v6] = ":" /\ buffer[tail + v6 + 1] = port
  <2> DEFINE tail == MaxHost + v6
             serv == tail + 1 + v6
             end == v6 + len
             buffer == Buffer(l.text, port, v6, serv)
  <2> HIDE DEF len
  <2>1. /\ tail \in Nat /\ serv \in Nat /\ len + v6 < tail /\ serv = tail + 1 + v6
        /\ v6 \in Nat /\ end \in Nat /\ end = v6 + len /\ v6 <= end /\ end <= serv
    BY <1>1
  <2>2. MaxHost + 1 + 2 * v6 = serv /\ serv - 1 - v6 = tail
    BY <1>1
  <2>3. end + serv + 1 - tail = len + 2 + 2 * v6
    BY <1>1
  <2>4. \A j \in v6..(end - 1) : j - v6 + 1 \in 1..len /\ v6 + (j - v6 + 1) - 1 = j
    BY <1>1
  <2> HIDE DEF serv, tail, end, buffer
  <2>5. /\ \A i \in 1..len : buffer[v6 + i - 1] = l.text[i]
        /\ buffer[end] = ""
        /\ v6 = 1 => buffer[0] = "[" /\ buffer[tail] = "]"
        /\ buffer[tail + v6] = ":" /\ buffer[tail + v6 + 1] = port
    <3>1. Len(l.text) = len /\ Laid(v6, len, tail, serv, end)
      BY <1>1, <2>1 DEF len, Laid
    <3>2. Filled(buffer, l.text, port, v6, len, tail, end)
      BY <3>1, BufferHas DEF buffer
    <3> QED
      BY <3>2 DEF Filled
  <2>6. HostEnds(buffer, v6, end)
    <3>1. ASSUME NEW j \in v6..(end - 1) PROVE buffer[j] # ""
      <4>1. j - v6 + 1 \in 1..len /\ v6 + (j - v6 + 1) - 1 = j
        BY <2>4
      <4> DEFINE i == j - v6 + 1
      <4>2. i \in 1..len /\ v6 + i - 1 = j
        BY <4>1
      <4> HIDE DEF i
      <4>3. buffer[j] = l.text[i] /\ l.text[i] # ""
        BY <1>0, <2>5, <4>2
      <4> QED
        BY <4>3
    <3> QED
      BY <2>5, <3>1 DEF HostEnds
  <2>7. HostEnd(buffer, v6, serv) = end
    BY <2>1, <2>6, HostEndIs
  <2>8. Printed(a, port) = Moved(buffer, end, tail, end + serv + 1 - tail)
    BY <1>2, <1>3, <2>2, <2>7, Zenon DEF buffer
  <2>9. Printed(a, port) = Moved(buffer, v6 + len, tail, len + 2 + 2 * v6)
    BY <2>3, <2>8, Zenon DEF end
  <2> QED
    BY <2>1, <2>5, <2>9
<1>4. CASE l.family = "inet"
  <2>1. PICK tail, buffer :
          /\ tail \in Nat
          /\ Printed(a, port) = Moved(buffer, 0 + len, tail, len + 2 + 2 * 0)
          /\ \A i \in 1..len : buffer[0 + i - 1] = l.text[i]
          /\ buffer[tail + 0] = ":" /\ buffer[tail + 0 + 1] = port
    BY <1>3, <1>4
  <2>0. tail \in Nat
    BY <2>1
  <2> HIDE DEF len
  <2>2. 0 + len = len /\ len + 2 + 2 * 0 = len + 2 /\ tail + 0 = tail /\ len + 2 \in Nat
    BY <1>1, <2>0
  <2>3. PlainPort(Moved(buffer, len, tail, len + 2), l.text, port)
    BY <1>0, <2>1, <2>2, MovedPlain DEF len
  <2> QED
    BY <1>4, <2>1, <2>2, <2>3
<1>5. CASE l.family # "inet"
  <2>1. PICK tail, buffer :
          /\ tail \in Nat
          /\ Printed(a, port) = Moved(buffer, 1 + len, tail, len + 2 + 2 * 1)
          /\ \A i \in 1..len : buffer[1 + i - 1] = l.text[i]
          /\ buffer[0] = "[" /\ buffer[tail] = "]"
          /\ buffer[tail + 1] = ":" /\ buffer[tail + 1 + 1] = port
    BY <1>3, <1>5
  <2>0. tail \in Nat
    BY <2>1
  <2> HIDE DEF len
  <2>2. 1 + len = len + 1 /\ len + 2 + 2 * 1 = len + 4 /\ tail + 1 + 1 = tail + 2 /\ len + 4 \in Nat
    BY <1>1, <2>0
  <2>3. BracketedPort(Moved(buffer, len + 1, tail, len + 4), l.text, port)
    BY <1>0, <2>1, <2>2, MovedBracketed DEF len
  <2> QED
    BY <1>5, <2>1, <2>2, <2>3
<1> QED
  BY <1>4, <1>5

-------------------------------------------------------------------------------
(* URIs put together, and taken apart again. *)

\* A text of two, of length k and l.
Both2(both, s, t, k, l) ==
  /\ both \in Text /\ Len(both) = k + l
  /\ \A i \in 1..k : both[i] = s[i]
  /\ \A i \in 1..l : both[k + i] = t[i]

\* Texts joined have the tokens of the one, then those of the other.
LEMMA Joined ==
  ASSUME NEW s \in Text, NEW t \in Text
  PROVE  Both2(s \o t, s, t, Len(s), Len(t))
<1> DEFINE both == s \o t
           k == Len(s)
           l == Len(t)
<1>1. k \in Nat /\ l \in Nat
  BY TextIs
<1>2. /\ both \in Text /\ Len(both) = k + l
      /\ \A i \in 1..(k + l) : both[i] = IF i <= k THEN s[i] ELSE t[i - k]
  BY ConcatProperties DEF Text
<1> HIDE DEF both, k, l
<1>3. ASSUME NEW i \in 1..k PROVE both[i] = s[i]
  <2>1. i \in 1..(k + l) /\ i <= k
    BY <1>1
  <2> QED
    BY <1>2, <2>1
<1>4. ASSUME NEW i \in 1..l PROVE both[k + i] = t[i]
  <2> DEFINE n == k + i
  <2>1. n \in 1..(k + l) /\ ~(n <= k) /\ n - k = i
    BY <1>1
  <2> HIDE DEF n
  <2>2. both[n] = t[i]
    BY <1>2, <2>1
  <2> QED
    BY <2>2 DEF n
<1>5. Both2(both, s, t, k, l)
  BY <1>2, <1>3, <1>4 DEF Both2
<1> QED
  BY <1>5 DEF both, k, l

\* A text of another of length k and a token.
Longer(both, s, k, x) ==
  both \in Text /\ Len(both) = k + 1 /\ both[k + 1] = x /\ \A i \in 1..k : both[i] = s[i]

\* A text with one token more has it at its end.
LEMMA Appended ==
  ASSUME NEW s \in Text, NEW x \in Tokens
  PROVE  Longer(s \o <<x>>, s, Len(s), x)
<1> DEFINE t == <<x>>
           k == Len(s)
<1>1. t \in Text /\ Len(t) = 1 /\ t[1] = x
  BY SingleSeq, SingleText DEF Text
<1> HIDE DEF t
<1>2. Both2(s \o t, s, t, k, 1)
  BY <1>1, Joined
<1>3. 1 \in 1..1
  OBVIOUS
<1> HIDE DEF k
<1>4. Longer(s \o t, s, k, x)
  BY <1>1, <1>2, <1>3 DEF Both2, Longer
<1> QED
  BY <1>4 DEF t, k

StartsWith(text, start) == \A i \in 1..Len(start) : text[i] = start[i]

\* What surrounds a part does not change it.
LEMMA Surrounded ==
  ASSUME NEW before \in Text, NEW part \in Text \ {<<>>}, NEW path \in Text,
         path = Nothing \/ path[1] = "/", \A i \in 1..Len(part) : part[i] # "/",
         NEW uri, uri = (before \o part) \o path
  PROVE  Shaped(uri, Len(before), part) /\ StartsWith(uri, before)
<1> DEFINE k == Len(before)
           l == Len(part)
           m == Len(path)
           both == before \o part
<1>1. k \in Nat /\ l \in Nat \ {0} /\ m \in Nat
  BY TextIs
<1>2. /\ both \in Text /\ Len(both) = k + l
      /\ \A i \in 1..(k + l) : both[i] = IF i <= k THEN before[i] ELSE part[i - k]
  BY ConcatProperties DEF Text
<1> HIDE DEF both
<1>3. /\ uri \in Text /\ Len(uri) = Len(both) + m
      /\ \A i \in 1..(Len(both) + m) : uri[i] = IF i <= Len(both) THEN both[i] ELSE path[i - Len(both)]
  BY <1>2, ConcatProperties DEF Text, both
<1> HIDE DEF k, l, m
<1>4. \A i \in 1..(k + l + m) : uri[i] = IF i <= k + l THEN both[i] ELSE path[i - (k + l)]
  BY <1>2, <1>3
<1>5. ASSUME NEW i \in 1..k PROVE uri[i] = before[i]
  <2>1. i \in 1..(k + l + m) /\ i <= k + l /\ i \in 1..(k + l) /\ i <= k
    BY <1>1
  <2> QED
    BY <1>2, <1>4, <2>1
<1>6. ASSUME NEW i \in 1..l PROVE uri[k + i] = part[i]
  <2> DEFINE n == k + i
  <2>1. n \in 1..(k + l + m) /\ n <= k + l /\ n \in 1..(k + l) /\ ~(n <= k) /\ n - k = i
    BY <1>1
  <2> HIDE DEF n
  <2>2. uri[n] = part[i]
    BY <1>2, <1>4, <2>1
  <2> QED
    BY <2>2 DEF n
<1>7. ASSUME k + l < Len(uri) PROVE uri[k + l + 1] = "/"
  <2> DEFINE n == k + l + 1
  <2>1. Len(uri) = k + l + m
    BY <1>2, <1>3
  <2>2. m # 0
    BY <1>1, <1>7, <2>1
  <2>3. n \in 1..(k + l + m) /\ ~(n <= k + l) /\ n - (k + l) = 1
    BY <1>1, <2>2
  <2>4. path[1] = "/"
    BY <2>2, EmptySeq DEF m, Nothing, Text
  <2> HIDE DEF n
  <2>5. uri[n] = "/"
    BY <1>4, <2>3, <2>4
  <2> QED
    BY <2>5 DEF n
<1>8. k + l <= Len(uri)
  BY <1>1, <1>2, <1>3
<1>9. Shaped(uri, k, part)
  BY <1>1, <1>3, <1>6, <1>7, <1>8 DEF Shaped, l
<1> QED
  BY <1>5, <1>9 DEF k, StartsWith

\* The service of a URI is its scheme, if it has one.
LEMMA WithoutScheme ==
  ASSUME NEW uri, NEW part, Shaped(uri, 0, part),
         part[Len(part)] = ":" => \E i \in 1..(Len(part) - 1) : part[i] \notin Words
  PROVE  uri # Nothing /\ HostPart(uri) = part /\ SubSeq(uri, 1, SchemeEnd(uri) - 3) = Nothing
<1>1. SchemeEnd(uri) = 0
  BY NoScheme
<1>2. HostPart(uri) = part
  BY <1>1, HostPartIs
<1>3. SubSeq(uri, 1, 0 - 3) = Nothing
  BY SubSeqEmpty DEF Nothing
<1>4. uri # Nothing
  <2>1. Len(part) \in Nat \ {0} /\ Len(part) <= Len(uri)
    BY TextIs DEF Shaped
  <2> QED
    BY <2>1, EmptySeq DEF Nothing
<1> QED
  BY <1>1, <1>2, <1>3, <1>4

\* A URI with a scheme has the rest up to the path for its part.
LEMMA WithScheme ==
  ASSUME NEW uri, NEW part, NEW scheme \in Schemes \cap Words, Shaped(uri, 4, part),
         uri[1] = scheme, uri[2] = ":", uri[3] = "/", uri[4] = "/"
  PROVE  uri # Nothing /\ HostPart(uri) = part /\ SubSeq(uri, 1, SchemeEnd(uri) - 3) = <<scheme>>
<1>0. uri \in Text /\ part \in Text \ {<<>>} /\ Len(part) \in Nat \ {0} /\ Len(uri) \in Nat
      /\ 4 + Len(part) <= Len(uri)
  BY TextIs DEF Shaped
<1>1. SchemeEnd(uri) = 4
  <2>1. Len(uri) > 4
    BY <1>0
  <2>2. 1 \in 1..Len(part) /\ 4 + 1 = 5
    BY <1>0
  <2>3. uri[5] # "/"
    BY <2>2 DEF Shaped
  <2>4. uri[1] \in Words
    OBVIOUS
  <2> QED
    BY <1>0, <2>1, <2>3, <2>4, SchemeFound
<1>2. HostPart(uri) = part
  BY <1>1, HostPartIs
<1>3. SubSeq(uri, 1, 1) = <<scheme>>
  <2>1. <<scheme>> \in Text /\ Len(<<scheme>>) = 1 /\ <<scheme>>[1] = scheme
    BY SingleSeq, SingleText, TokenAssumption DEF TokenAssumption, Names, Text
  <2> DEFINE t == <<scheme>>
  <2>0. t \in Text
    BY <2>1
  <2> HIDE DEF t
  <2> DEFINE b == 1
  <2>2. Spans(1, b, 0, Len(t)) /\ b <= Len(uri)
    BY <1>0, <2>1 DEF Spans, t
  <2>3. Has(uri, 0, t)
    BY <2>1 DEF Has, t
  <2> HIDE DEF b
  <2>4. SubSeq(uri, 1, b) = t
    BY <1>0, <2>0, <2>2, <2>3, Middle
  <2> QED
    BY <2>4 DEF t, b
<1>4. uri # Nothing
  BY <1>0, EmptySeq DEF Nothing
<1> QED
  BY <1>1, <1>2, <1>3, <1>4

\* The URIs of GiveUri.
UriOf(scheme, part, path) ==
  LET before == IF scheme = Nothing THEN Nothing ELSE scheme \o <<":", "/", "/">>
  IN (before \o part) \o path

\* A part that is not taken for a scheme has more than words before a colon at its end.
NoService(part) ==
  part[Len(part)] = ":" => \E i \in 1..(Len(part) - 1) : part[i] \notin Words

\* A URI with a scheme has it first, then the part.
LEMMA SchemeFirst ==
  ASSUME NEW s \in Schemes, NEW part \in Text \ {<<>>}, NEW path \in Paths,
         \A i \in 1..Len(part) : part[i] # "/",
         NEW uri, uri = UriOf(<<s>>, part, path)
  PROVE  Shaped(uri, 4, part) /\ uri[1] = s /\ uri[2] = ":" /\ uri[3] = "/" /\ uri[4] = "/"
<1> DEFINE mark == <<":", "/", "/">>
           first == <<s>>
           before == first \o mark
<1>1. path \in Text /\ (path = Nothing \/ path[1] = "/")
  BY TextAssumption DEF TextAssumption
<1>2. /\ mark \in Text /\ Len(mark) = 3 /\ mark[1] = ":" /\ mark[2] = "/" /\ mark[3] = "/"
  BY TripleSeq, TokenAssumption DEF TokenAssumption, Punctuation, Colons, Text
<1>3. first \in Text /\ Len(first) = 1 /\ first[1] = s
  BY SingleSeq, SingleText, TokenAssumption DEF TokenAssumption, Names, Text
<1>4. uri = (before \o part) \o path
  BY SingleText DEF UriOf, Nothing
<1> HIDE DEF before, first, mark
<1>5. /\ before \in Text /\ Len(before) = 1 + 3
      /\ \A i \in 1..1 : before[i] = first[i]
      /\ \A i \in 1..3 : before[1 + i] = mark[i]
  <2>1. Both2(before, first, mark, 1, 3)
    BY <1>2, <1>3, Joined DEF before
  <2> QED
    BY <2>1 DEF Both2
<1>6. before[1] = s /\ before[2] = ":" /\ before[3] = "/" /\ before[4] = "/"
  <2>1. 1 \in 1..1 /\ 1 \in 1..3 /\ 2 \in 1..3 /\ 3 \in 1..3 /\ 1 + 1 = 2 /\ 1 + 2 = 3 /\ 1 + 3 = 4
    OBVIOUS
  <2> QED
    BY <1>2, <1>3, <1>5, <2>1
<1>7. Shaped(uri, Len(before), part) /\ StartsWith(uri, before)
  BY <1>1, <1>4, <1>5, Surrounded
<1>8. Len(before) = 4 /\ 1 \in 1..4 /\ 2 \in 1..4 /\ 3 \in 1..4 /\ 4 \in 1..4
  BY <1>5
<1>9. Shaped(uri, 4, part) /\ \A i \in 1..4 : uri[i] = before[i]
  BY <1>7, <1>8 DEF StartsWith
<1> QED
  BY <1>6, <1>8, <1>9

\* A URI without a scheme, or with a word for one, comes apart into scheme and part.
LEMMA Dissected ==
  ASSUME NEW scheme \in Optional(Schemes \cap Words), NEW part \in Text \ {<<>>},
         NEW path \in Paths, \A i \in 1..Len(part) : part[i] # "/", NoService(part),
         NEW uri, uri = UriOf(scheme, part, path)
  PROVE  uri # Nothing /\ HostPart(uri) = part /\ SubSeq(uri, 1, SchemeEnd(uri) - 3) = scheme
<1>1. path \in Text /\ (path = Nothing \/ path[1] = "/")
  BY TextAssumption DEF TextAssumption
<1>2. CASE scheme = Nothing
  <2> DEFINE before == Nothing
  <2>0. uri = (before \o part) \o path
    BY <1>2 DEF UriOf
  <2>1. before \in Text /\ Len(before) = 0
    BY EmptySeq DEF Nothing, Text
  <2> HIDE DEF before
  <2>2. Shaped(uri, 0, part)
    BY <1>1, <2>0, <2>1, Surrounded
  <2> QED
    BY <1>2, <2>2, WithoutScheme DEF NoService
<1>3. CASE scheme # Nothing
  <2>1. PICK s \in Schemes \cap Words : scheme = <<s>>
    BY <1>3 DEF Optional
  <2>2. Shaped(uri, 4, part) /\ uri[1] = s /\ uri[2] = ":" /\ uri[3] = "/" /\ uri[4] = "/"
    BY <2>1, SchemeFirst
  <2> QED
    BY <2>1, <2>2, WithScheme
<1> QED
  BY <1>2, <1>3

\* What is given as a host may stand there alone, or before a port.
LEMMA HostIs ==
  ASSUME NEW host \in Hosts
  PROVE  /\ host \in Text \ {<<>>}
         /\ \A i \in 1..Len(host) : host[i] # "/" /\ host[i] # "[" /\ host[i] # "]"
         /\ host[1] # "["
         /\ ~Plain(host)
         /\ host[Len(host)] = ":" => \E i \in 1..(Len(host) - 1) : host[i] \notin Words
<1>1. /\ host \in Text \ {<<>>}
      /\ \A i \in DOMAIN host : host[i] \notin {"/", "[", "]"}
      /\ ~Plain(host)
      /\ host[Len(host)] = ":" => \E i \in 1..(Len(host) - 1) : host[i] \notin Words
  BY TextAssumption DEF TextAssumption
<1>2. DOMAIN host = 1..Len(host) /\ Len(host) \in Nat \ {0}
  BY <1>1, TextIs
<1>3. 1 \in 1..Len(host)
  BY <1>2
<1> QED
  BY <1>1, <1>2, <1>3

\* A host, a colon and a number are a host with a port.
LEMMA PortAfter ==
  ASSUME NEW host \in Text \ {<<>>}, NEW n \in DOMAIN Number
  PROVE  PlainPort((host \o <<":">>) \o <<n>>, host, n)
<1> DEFINE l == Len(host)
           both == host \o <<":">>
           k == l + 1
           part == both \o <<n>>
<1>1. l \in Nat \ {0} /\ k = l + 1 /\ k + 1 = l + 2 /\ \A i \in 1..l : i \in 1..k
  BY TextIs
<1>2. k \in 1..k
  BY <1>1
<1> HIDE DEF k
<1>3. both \in Text /\ Len(both) = k /\ both[k] = ":" /\ \A i \in 1..l : both[i] = host[i]
  <2>1. ":" \in Tokens /\ l = Len(host)
    BY TokenAssumption DEF TokenAssumption, Punctuation, Colons
  <2> HIDE DEF l
  <2>2. Longer(both, host, l, ":")
    BY <2>1, Appended
  <2> HIDE DEF both
  <2> QED
    BY <1>1, <2>2 DEF Longer
<1> HIDE DEF both
<1>4. /\ part \in Text /\ Len(part) = k + 1 /\ part[k + 1] = n
      /\ \A i \in 1..k : part[i] = both[i]
  <2>1. Longer(part, both, k, n)
    BY <1>3, Appended, PortApart
  <2> HIDE DEF part
  <2> QED
    BY <2>1 DEF Longer
<1> HIDE DEF part, l
<1>5. /\ Len(part) = l + 2 /\ part[l + 2] = n /\ part[l + 1] = ":"
      /\ \A i \in 1..l : part[i] = host[i]
  BY <1>1, <1>2, <1>3, <1>4
<1>6. PlainPort(part, host, n)
  BY <1>4, <1>5 DEF PlainPort, l
<1> QED
  BY <1>6 DEF part, both

\* So they are if the host is in brackets.
LEMMA PortAfterBrackets ==
  ASSUME NEW host \in Text \ {<<>>}, NEW n \in DOMAIN Number
  PROVE  BracketedPort(((<<"[">> \o host \o <<"]">>) \o <<":">>) \o <<n>>, host, n)
<1> DEFINE l == Len(host)
           first == <<"[">>
           opened == first \o host
           closed == opened \o <<"]">>
           part == (closed \o <<":">>) \o <<n>>
<1>1. l \in Nat \ {0}
  BY TextIs
<1>2. "[" \in Tokens /\ "]" \in Tokens
  BY TokenAssumption DEF TokenAssumption, Punctuation, Colons
<1>3. first \in Text /\ Len(first) = 1 /\ first[1] = "["
  BY <1>2, SingleSeq, SingleText DEF Text
<1> HIDE DEF first
<1>4. /\ opened \in Text /\ Len(opened) = 1 + l
      /\ \A i \in 1..1 : opened[i] = first[i]
      /\ \A i \in 1..l : opened[1 + i] = host[i]
  <2>1. l = Len(host)
    OBVIOUS
  <2> HIDE DEF l
  <2>2. Both2(opened, first, host, 1, l)
    BY <1>3, <2>1, Joined
  <2> HIDE DEF opened
  <2> QED
    BY <2>2 DEF Both2
<1> HIDE DEF opened
<1> DEFINE k == l + 2
<1>5. /\ k = l + 2 /\ k \in Nat /\ 1 + l + 1 = k /\ 1 \in 1..(1 + l) /\ 1 \in 1..1
      /\ \A i \in 1..l : 1 + i \in 1..(1 + l) /\ 1 + i = i + 1
  BY <1>1
<1>6. /\ \A i \in 1..(1 + l) : i \in 1..k
      /\ k \in 1..k /\ k + 1 = l + 3 /\ k + 2 = l + 4
  BY <1>1
<1> HIDE DEF k
<1>7. /\ closed \in Text /\ Len(closed) = k /\ closed[k] = "]"
      /\ \A i \in 1..(1 + l) : closed[i] = opened[i]
  <2>1. Len(opened) \in Int
    BY <1>4, <1>5
  <2>2. Longer(closed, opened, 1 + l, "]")
    BY <1>2, <1>4, Appended
  <2> HIDE DEF closed, l
  <2> QED
    BY <1>5, <2>2 DEF Longer
<1> HIDE DEF closed
<1>8. closed # <<>>
  BY <1>5, <1>6, <1>7
<1>9. PlainPort(part, closed, n)
  BY <1>7, <1>8, PortAfter
<1> HIDE DEF part
<1>10. /\ part \in Text /\ Len(part) = k + 2 /\ part[k + 1] = ":" /\ part[k + 2] = n
       /\ \A i \in 1..k : part[i] = closed[i]
  BY <1>7, <1>9 DEF PlainPort
<1>11. part[1] = "["
  BY <1>3, <1>4, <1>5, <1>6, <1>7, <1>10
<1>12. part[k] = "]"
  BY <1>6, <1>7, <1>10
<1>13. ASSUME NEW i \in 1..l PROVE part[i + 1] = host[i]
  BY <1>4, <1>5, <1>6, <1>7, <1>10
<1> HIDE DEF l
<1>14. BracketedPort(part, host, n)
  BY <1>5, <1>6, <1>10, <1>11, <1>12, <1>13 DEF BracketedPort, l
<1> QED
  BY <1>14 DEF part, closed, opened, first

\* A host with a port has no slash and ends in the port.
LEMMA PlainText ==
  ASSUME NEW part, NEW host, NEW n, PlainPort(part, host, n),
         \A i \in 1..Len(host) : host[i] # "/"
  PROVE  /\ part \in Text \ {<<>>} /\ \A i \in 1..Len(part) : part[i] # "/"
         /\ part[Len(part)] # ":"
<1> DEFINE l == Len(host)
<1>1. l \in Nat \ {0} /\ n # "/" /\ n # ":"
  BY TextIs, PortApart DEF PlainPort
<1>2. /\ part \in Text /\ Len(part) = l + 2
      /\ \A i \in 1..l : part[i] = host[i]
      /\ part[l + 1] = ":" /\ part[l + 2] = n
  BY DEF PlainPort
<1> HIDE DEF l
<1>3. ASSUME NEW i \in 1..Len(part) PROVE part[i] # "/"
  <2>1. i \in 1..l \/ i = l + 1 \/ i = l + 2
    BY <1>1, <1>2
  <2> QED
    BY <1>1, <1>2, <2>1 DEF l
<1>4. part # <<>>
  BY <1>1, <1>2, EmptySeq
<1> QED
  BY <1>1, <1>2, <1>3, <1>4

\* So does a host in brackets.
LEMMA BracketedText ==
  ASSUME NEW part, NEW host, NEW n, BracketedPort(part, host, n),
         \A i \in 1..Len(host) : host[i] # "/"
  PROVE  /\ part \in Text \ {<<>>} /\ \A i \in 1..Len(part) : part[i] # "/"
         /\ part[Len(part)] # ":"
<1> DEFINE l == Len(host)
<1>1. l \in Nat \ {0} /\ n # "/" /\ n # ":"
  BY TextIs, PortApart DEF BracketedPort
<1>2. /\ part \in Text /\ Len(part) = l + 4 /\ part[1] = "["
      /\ \A i \in 1..l : part[i + 1] = host[i]
      /\ part[l + 2] = "]" /\ part[l + 3] = ":" /\ part[l + 4] = n
  BY DEF BracketedPort
<1> HIDE DEF l
<1>3. ASSUME NEW i \in 1..Len(part) PROVE part[i] # "/"
  <2>1. CASE i - 1 \in 1..l
    <3>1. part[(i - 1) + 1] = host[i - 1] /\ (i - 1) + 1 = i
      BY <1>2, <2>1
    <3> QED
      BY <2>1, <3>1 DEF l
  <2>2. CASE i - 1 \notin 1..l
    <3>1. i = 1 \/ i = l + 2 \/ i = l + 3 \/ i = l + 4
      BY <1>1, <1>2, <2>2
    <3> QED
      BY <1>1, <1>2, <3>1
  <2> QED
    BY <2>1, <2>2
<1>4. part # <<>>
  BY <1>1, <1>2, EmptySeq
<1> QED
  BY <1>1, <1>2, <1>3, <1>4

\* A text may be a part and nothing else.
LEMMA ShapedAlone ==
  ASSUME NEW part \in Text \ {<<>>}, \A i \in 1..Len(part) : part[i] # "/"
  PROVE  Shaped(part, 0, part)
<1> DEFINE l == Len(part)
<1>1. l \in Nat
  BY TextIs
<1> HIDE DEF l
<1>2. 0 + l <= l /\ ~(0 + l < l) /\ \A i \in 1..l : 0 + i = i
  BY <1>1
<1> QED
  BY <1>2 DEF Shaped, l

\* A URI with a port is parsed to the list of the host and the port, which is not
\* looked up as a service.
LEMMA ParsedWithPort ==
  ASSUME NEW uri, NEW host, NEW n \in DOMAIN Number, uri # Nothing,
         UriDissect(uri) = [host |-> host, serv |-> <<n>>, numeric |-> TRUE]
  PROVE  ParseUri(uri) = IF OutOfRange(n) THEN Nothing ELSE GetAddrInfo(host, <<n>>, TRUE, "unspec")
<1> DEFINE d == UriDissect(uri)
<1>1. d.numeric = TRUE /\ d.host = host /\ d.serv = <<n>> /\ d.serv[1] = n
  BY SingleText
<1> HIDE DEF d
<1>2. ParseUri(uri) = IF d.numeric /\ OutOfRange(d.serv[1]) THEN Nothing
                      ELSE GetAddrInfo(d.host, d.serv, d.numeric, "unspec")
  BY Zenon DEF ParseUri, d
<1> QED
  BY <1>1, <1>2

\* Without a port, the scheme is looked up as a service.
LEMMA ParsedWithoutPort ==
  ASSUME NEW uri, NEW host, NEW serv, uri # Nothing,
         UriDissect(uri) = [host |-> host, serv |-> serv, numeric |-> FALSE]
  PROVE  ParseUri(uri) = GetAddrInfo(host, serv, FALSE, "unspec")
<1> DEFINE d == UriDissect(uri)
<1>1. d.numeric = FALSE /\ d.host = host /\ d.serv = serv
  OBVIOUS
<1> HIDE DEF d
<1>2. ParseUri(uri) = IF d.numeric /\ OutOfRange(d.serv[1]) THEN Nothing
                      ELSE GetAddrInfo(d.host, d.serv, d.numeric, "unspec")
  BY Zenon DEF ParseUri, d
<1> QED
  BY <1>1, <1>2

\* No host ends in a single colon, or in a number with a sign after something else.
LEMMA Unknown ==
  ASSUME NEW part \in Text, Len(part) > 1,
         part[Len(part)] \in {":"} \cup (DOMAIN Number \ Digits), NEW serv \in Servings
  PROVE  GetAddrInfo(part, serv, FALSE, "unspec") = Nothing
<1>1. ~(Len(part) = 1 /\ part[1] \in DOMAIN HostName)
  BY TextIs
<1>2. \A l \in Literals : l.text # part
  BY LiteralAssumption DEF LiteralAssumption
<1>3. Addresses(part, "unspec") = Nothing
  BY <1>1, <1>2 DEF Addresses
<1> QED
  BY <1>3, ListStands DEF Families

\* What ends in a number with a sign has no port, and is refused.
LEMMA SignRefused ==
  ASSUME NEW uri, NEW part \in Text, Len(part) > 1,
         part[Len(part)] \in DOMAIN Number \ Digits, uri # Nothing, HostPart(uri) = part,
         SubSeq(uri, 1, SchemeEnd(uri) - 3) \in Servings
  PROVE  ParseUri(uri) = Nothing
<1> DEFINE serv == SubSeq(uri, 1, SchemeEnd(uri) - 3)
<1>1. ~EndsInPort(part)
  BY DEF EndsInPort
<1>2. UriDissect(uri) = [host |-> part, serv |-> serv, numeric |-> FALSE]
  BY <1>1 DEF UriDissect, Bracketed, Plain
<1> HIDE DEF serv
<1>3. ParseUri(uri) = GetAddrInfo(part, serv, FALSE, "unspec")
  BY <1>2, ParsedWithoutPort
<1> QED
  BY <1>3, Unknown DEF serv

\* Any scheme that is no word is part of the host, with the colon after it, and refused.
LEMMA UnreadRefused ==
  ASSUME NEW s \in Schemes \ Words, NEW part \in Text \ {<<>>}, NEW path \in Paths,
         \A i \in 1..Len(part) : part[i] # "/",
         NEW uri, uri = UriOf(<<s>>, part, path)
  PROVE  /\ ParseUri(uri) = Nothing
         /\ Len(uri) > 4 /\ uri[1] = s /\ SubSeq(uri, 2, 4) = <<":", "/", "/">>
<1>1. Shaped(uri, 4, part) /\ uri[1] = s /\ uri[2] = ":" /\ uri[3] = "/" /\ uri[4] = "/"
  BY SchemeFirst
<1>2. uri \in Text /\ Len(uri) \in Nat /\ Len(part) \in Nat \ {0} /\ 4 + Len(part) <= Len(uri)
  BY <1>1, TextIs DEF Shaped
<1>3. Len(uri) > 4
  BY <1>2
<1>4. SubSeq(uri, 2, 4) = <<":", "/", "/">>
  <2> DEFINE n == 4
  <2>1. n \in 3..Len(uri) /\ n - 2 = 2 /\ n - 1 = 3 /\ n = 4
    BY <1>2
  <2> HIDE DEF n
  <2>2. SubSeq(uri, n - 2, n) = <<":", "/", "/">>
    BY <1>1, <1>2, <2>1, SchemeMark
  <2> QED
    BY <2>1, <2>2
<1> DEFINE host == <<s, ":">>
<1>5. host \in Text \ {<<>>} /\ Len(host) = 2 /\ host[1] = s /\ host[2] = ":"
  <2>1. s \in Tokens /\ ":" \in Tokens
    BY TokenAssumption DEF TokenAssumption, Punctuation, Colons
  <2> QED
    BY <2>1, PairSeq DEF Text
<1>6. s # "/" /\ s # "["
  BY Apart DEF Names
<1> HIDE DEF host
<1>7. Shaped(uri, 0, host)
  <2>1. 0 + 2 <= Len(uri) /\ 0 + 2 + 1 = 3 /\ \A i \in 1..2 : i = 1 \/ i = 2
    BY <1>3, <1>2
  <2>2. \A i \in 1..2 : uri[0 + i] = host[i] /\ host[i] # "/"
    BY <1>1, <1>5, <1>6, <2>1
  <2> QED
    BY <1>1, <1>2, <1>5, <2>1, <2>2 DEF Shaped
<1>8. uri # Nothing /\ HostPart(uri) = host /\ SubSeq(uri, 1, SchemeEnd(uri) - 3) = Nothing
  <2>1. 1 \in 1..(Len(host) - 1) /\ host[1] \notin Words
    BY <1>5
  <2> QED
    BY <1>7, <2>1, WithoutScheme
<1>9. UriDissect(uri) = [host |-> host, serv |-> Nothing, numeric |-> FALSE]
  <2>1. ~Plain(host) /\ host[1] # "["
    BY <1>5, <1>6 DEF Plain, EndsInPort
  <2> QED
    BY <1>8, <2>1, HostDissected
<1>10. ParseUri(uri) = GetAddrInfo(host, Nothing, FALSE, "unspec")
  BY <1>8, <1>9, ParsedWithoutPort
<1>11. ParseUri(uri) = Nothing
  <2>1. Nothing \in Servings /\ Len(host) > 1 /\ host[Len(host)] = ":"
    BY <1>5 DEF Servings
  <2> QED
    BY <1>5, <1>10, <2>1, Unknown
<1> QED
  BY <1>1, <1>3, <1>4, <1>11

\* A URI without a port is parsed to the list of its host and its scheme.
LEMMA UriOfHost ==
  ASSUME NEW scheme \in Optional(Schemes \cap Words), NEW host \in Hosts, NEW path \in Paths
  PROVE  ParseUri(UriOf(scheme, host, path)) = GetAddrInfo(host, scheme, FALSE, "unspec")
<1> DEFINE uri == UriOf(scheme, host, path)
<1>1. /\ host \in Text \ {<<>>} /\ host[1] # "[" /\ ~Plain(host)
      /\ \A i \in 1..Len(host) : host[i] # "/"
      /\ NoService(host)
  BY HostIs DEF NoService
<1>2. uri # Nothing /\ HostPart(uri) = host /\ SubSeq(uri, 1, SchemeEnd(uri) - 3) = scheme
  BY <1>1, Dissected
<1> HIDE DEF uri
<1>3. UriDissect(uri) = [host |-> host, serv |-> scheme, numeric |-> FALSE]
  BY <1>1, <1>2, HostDissected
<1>4. ParseUri(uri) = GetAddrInfo(host, scheme, FALSE, "unspec")
  BY <1>2, <1>3, ParsedWithoutPort
<1> QED
  BY <1>4 DEF uri

\* A host as it stands before a port.
Closed(host) ==
  IF \E i \in DOMAIN host : host[i] \in Colons THEN <<"[">> \o host \o <<"]">> ELSE host

\* A URI with a port is parsed to the list of its host and its port, if it is one.
LEMMA UriOfPort ==
  ASSUME NEW scheme \in Optional(Schemes \cap Words), NEW host \in Hosts, NEW n \in DOMAIN Number,
         NEW path \in Paths
  PROVE  ParseUri(UriOf(scheme, Closed(host) \o <<":">> \o <<n>>, path)) =
           IF OutOfRange(n) THEN Nothing ELSE GetAddrInfo(host, <<n>>, TRUE, "unspec")
<1> DEFINE part == (Closed(host) \o <<":">>) \o <<n>>
           uri == UriOf(scheme, part, path)
<1>1. /\ host \in Text \ {<<>>} /\ host[1] # "["
      /\ \A i \in 1..Len(host) : host[i] # "/"
      /\ DOMAIN host = 1..Len(host)
  BY HostIs, TextIs
<1>2. n # ":" /\ n # "/"
  BY PortApart
<1>5. scheme \in Servings
  BY DEF Optional, Servings, Names
<1>6. n \notin Digits => OutOfRange(n)
  BY RangeHasDigits
<1>3. CASE \E i \in DOMAIN host : host[i] \in Colons
  <2>1. BracketedPort(part, host, n)
    BY <1>1, <1>3, PortAfterBrackets DEF Closed
  <2> HIDE DEF part
  <2>2. /\ part \in Text \ {<<>>} /\ \A i \in 1..Len(part) : part[i] # "/"
        /\ NoService(part)
    BY <1>1, <1>2, <2>1, BracketedText DEF NoService
  <2>3. uri # Nothing /\ HostPart(uri) = part /\ SubSeq(uri, 1, SchemeEnd(uri) - 3) = scheme
    BY <2>2, Dissected
  <2> HIDE DEF uri
  <2>4. ASSUME n \in Digits
        PROVE  ParseUri(uri) = IF OutOfRange(n) THEN Nothing ELSE GetAddrInfo(host, <<n>>, TRUE, "unspec")
    <3>1. UriDissect(uri) = [host |-> host, serv |-> <<n>>, numeric |-> TRUE]
      BY <2>1, <2>3, BracketedDissected, <2>4
    <3> QED
      BY <2>3, <3>1, ParsedWithPort
  <2>6. ASSUME n \notin Digits PROVE ParseUri(uri) = Nothing
    <3>1. Len(part) > 1 /\ part[Len(part)] = n
      BY <1>1, <2>1, TextIs DEF BracketedPort
    <3>2. part[Len(part)] \in DOMAIN Number \ Digits /\ part \in Text
      BY <2>2, <2>6, <3>1
    <3> QED
      BY <1>5, <2>3, <3>1, <3>2, SignRefused
  <2>5. ParseUri(uri) = IF OutOfRange(n) THEN Nothing ELSE GetAddrInfo(host, <<n>>, TRUE, "unspec")
    BY <1>6, <2>4, <2>6
  <2> QED
    BY <2>5 DEF uri, part
<1>4. CASE ~\E i \in DOMAIN host : host[i] \in Colons
  <2>1. PlainPort(part, host, n)
    BY <1>1, <1>4, PortAfter DEF Closed
  <2> HIDE DEF part
  <2>2. /\ part \in Text \ {<<>>} /\ \A i \in 1..Len(part) : part[i] # "/"
        /\ NoService(part)
    BY <1>1, <1>2, <2>1, PlainText DEF NoService
  <2>3. uri # Nothing /\ HostPart(uri) = part /\ SubSeq(uri, 1, SchemeEnd(uri) - 3) = scheme
    BY <2>2, Dissected
  <2> HIDE DEF uri
  <2>4. ASSUME n \in Digits
        PROVE  ParseUri(uri) = IF OutOfRange(n) THEN Nothing ELSE GetAddrInfo(host, <<n>>, TRUE, "unspec")
    <3>1. UriDissect(uri) = [host |-> host, serv |-> <<n>>, numeric |-> TRUE]
      BY <1>1, <1>4, <2>1, <2>3, PlainDissected, <2>4
    <3> QED
      BY <2>3, <3>1, ParsedWithPort
  <2>6. ASSUME n \notin Digits PROVE ParseUri(uri) = Nothing
    <3>1. Len(part) > 1 /\ part[Len(part)] = n
      BY <1>1, <2>1, TextIs DEF PlainPort
    <3>2. part[Len(part)] \in DOMAIN Number \ Digits /\ part \in Text
      BY <2>2, <2>6, <3>1
    <3> QED
      BY <1>5, <2>3, <3>1, <3>2, SignRefused
  <2>5. ParseUri(uri) = IF OutOfRange(n) THEN Nothing ELSE GetAddrInfo(host, <<n>>, TRUE, "unspec")
    BY <1>6, <2>4, <2>6
  <2> QED
    BY <2>5 DEF uri, part
<1> QED
  BY <1>3, <1>4

\* A host with a port has no slash.
LEMMA PortText ==
  ASSUME NEW host \in Hosts, NEW n \in DOMAIN Number,
         NEW part, part = (Closed(host) \o <<":">>) \o <<n>>
  PROVE  part \in Text \ {<<>>} /\ \A i \in 1..Len(part) : part[i] # "/"
<1>1. /\ host \in Text \ {<<>>} /\ \A i \in 1..Len(host) : host[i] # "/"
  BY HostIs
<1>2. CASE \E i \in DOMAIN host : host[i] \in Colons
  <2>1. BracketedPort(part, host, n)
    BY <1>1, <1>2, PortAfterBrackets DEF Closed
  <2> QED
    BY <1>1, <2>1, BracketedText
<1>3. CASE ~\E i \in DOMAIN host : host[i] \in Colons
  <2>1. PlainPort(part, host, n)
    BY <1>1, <1>3, PortAfter DEF Closed
  <2> QED
    BY <1>1, <2>1, PlainText
<1> QED
  BY <1>2, <1>3

-------------------------------------------------------------------------------
(* What is meant, and what a list can print. *)

\* A list that is not empty is of a numeric host and a port that can be written.
Writable(list) ==
  list # Nothing =>
    \E l \in Literals, n \in DOMAIN Number :
      /\ ~OutOfRange(n)
      /\ ForAny(list) = [family |-> l.family, text |-> l.text, port |-> Number[n]]

\* The inductive invariant speaks of a list that has what is meant, and can be printed.
Right(list, meaning) == Fits(list, meaning) /\ Writable(list)

\* A service that is no number, or one in range, has a port that can be written.
LEMMA PortWritable ==
  ASSUME NEW serv \in Servings, NEW numeric \in BOOLEAN,
         \A n \in DOMAIN Number : serv = <<n>> => ~OutOfRange(n)
  PROVE  \E n \in DOMAIN Number : ~OutOfRange(n) /\ Served(serv, numeric).port = Number[n]
<1>0. PortMax \in Nat
  BY DEF PortMax
<1>1. 0 \in 0..PortMax /\ \A port \in 1..PortMax : port \in 0..PortMax
  BY <1>0
<1>2. \A port \in {0} \cup {Service[s].port : s \in DOMAIN Service} :
        port \in 0..PortMax /\ \E n \in DOMAIN Number : Number[n] = port
  BY <1>1, ServiceAssumption DEF ServiceAssumption
<1>3. \A port \in {0} \cup {Service[s].port : s \in DOMAIN Service} :
        \E n \in DOMAIN Number : ~OutOfRange(n) /\ port = Number[n]
  <2> TAKE port \in {0} \cup {Service[s].port : s \in DOMAIN Service}
  <2>1. PICK n \in DOMAIN Number : Number[n] = port
    BY <1>2
  <2>2. Number[n] \in 0..PortMax
    BY <1>2, <2>1
  <2> QED
    BY <2>1, <2>2 DEF OutOfRange
<1>4. CASE serv # Nothing /\ serv[1] \in DOMAIN Number
  <2>1. serv = <<serv[1]>>
    BY <1>4, SingleText DEF Servings, Nothing
  <2>2. ~OutOfRange(serv[1]) /\ Served(serv, numeric).port = Number[serv[1]]
    BY <1>4, <2>1 DEF Served
  <2> QED
    BY <1>4, <2>2
<1>5. CASE ~(serv # Nothing /\ serv[1] \in DOMAIN Number)
  <2>1. Served(serv, numeric).port \in {0} \cup {Service[s].port : s \in DOMAIN Service}
    BY <1>5 DEF Served
  <2> QED
    BY <1>3, <2>1
<1> QED
  BY <1>4, <1>5

\* What getaddrinfo returns for such a service is of one address.
LEMMA ListRight ==
  ASSUME NEW host, NEW serv \in Servings, NEW numeric \in BOOLEAN,
         NEW family \in Families,
         \A n \in DOMAIN Number : serv = <<n>> => ~OutOfRange(n),
         NEW list, list = GetAddrInfo(host, serv, numeric, family)
  PROVE  /\ Writable(list)
         /\ list # Nothing => /\ Fits(list, <<ForAny(list)>>)
                              /\ list[1].port \in 0..PortMax
<1> DEFINE address == Addresses(host, family)[1]
           port == Served(serv, numeric).port
<1>1. CASE list = Nothing
  BY <1>1 DEF Writable
<1>2. CASE list # Nothing
  <2>1. Stands(list, address, port) /\ Addresses(host, family) # Nothing
    BY <1>2, ListStands
  <2>2. address \in Literals
    BY <2>1, AddressesAre, EmptySeq, ElementOfSeq DEF Nothing
  <2>3. PICK n \in DOMAIN Number : ~OutOfRange(n) /\ port = Number[n]
    BY PortWritable
  <2> HIDE DEF address, port
  <2>4. ForAny(list) = [family |-> address.family, text |-> address.text, port |-> Number[n]]
    BY <2>1, <2>3 DEF Stands
  <2>5. list[1].port = Number[n]
    BY <2>4 DEF ForAny, Endpoint
  <2>6. list[1].port \in 0..PortMax
    BY <2>3, <2>5 DEF OutOfRange
  <2>7. Writable(list)
    BY <2>2, <2>3, <2>4 DEF Writable
  <2> QED
    BY <2>1, <2>6, <2>7 DEF Stands
<1> QED
  BY <1>1, <1>2

\* What a host and a service are meant to stand for is what getaddrinfo returns for them.
LEMMA MeaningRight ==
  ASSUME NEW host, NEW serv \in Servings,
         \A n \in DOMAIN Number : serv = <<n>> => ~OutOfRange(n)
  PROVE  Right(GetAddrInfo(host, serv, FALSE, "unspec"), Meaning(host, serv))
<1> DEFINE list == GetAddrInfo(host, serv, FALSE, "unspec")
<1>1. /\ Writable(list)
      /\ list # Nothing => Fits(list, <<ForAny(list)>>) /\ list[1].port \in 0..PortMax
  BY ListRight DEF Families
<1>2. Meaning(host, serv) =
        IF list = Nothing \/ list[1].port \notin 0..PortMax THEN Nothing ELSE <<ForAny(list)>>
  BY DEF Meaning
<1> HIDE DEF list
<1>3. Fits(list, Meaning(host, serv))
  BY <1>1, <1>2 DEF Fits
<1>4. Right(list, Meaning(host, serv))
  BY <1>1, <1>3 DEF Right
<1> QED
  BY <1>4 DEF list

\* A number that is no port means nothing.
LEMMA MeaningNothing ==
  ASSUME NEW host, NEW n \in DOMAIN Number, OutOfRange(n)
  PROVE  Meaning(host, <<n>>) = Nothing /\ Right(Nothing, Meaning(host, <<n>>))
<1> DEFINE serv == <<n>>
           list == GetAddrInfo(host, serv, FALSE, "unspec")
<1>1. serv \in Servings /\ serv # Nothing /\ serv[1] = n
  BY SingleText DEF Servings, Names, Nothing
<1> HIDE DEF serv
<1>2. Served(serv, FALSE).port = Number[n]
  BY <1>1 DEF Served
<1>3. list # Nothing => list[1].port \notin 0..PortMax
  <2> SUFFICES ASSUME list # Nothing PROVE list[1].port \notin 0..PortMax
    OBVIOUS
  <2>1. Stands(list, Addresses(host, "unspec")[1], Number[n])
    BY <1>1, <1>2, ListStands DEF Families
  <2> HIDE DEF list
  <2>2. list[1].port = Number[n]
    BY <2>1 DEF Stands, ForAny, Endpoint
  <2> QED
    BY <2>2 DEF OutOfRange
<1>4. Meaning(host, serv) = Nothing
  BY <1>3 DEF Meaning
<1> QED
  BY <1>4 DEF serv, Right, Fits, Writable

\* A number is looked up alike, whether services are or not.
LEMMA NumberServed ==
  ASSUME NEW host, NEW n \in DOMAIN Number
  PROVE  GetAddrInfo(host, <<n>>, TRUE, "unspec") = GetAddrInfo(host, <<n>>, FALSE, "unspec")
<1> DEFINE serv == <<n>>
<1>1. serv # Nothing /\ serv[1] = n
  BY SingleText DEF Nothing
<1> HIDE DEF serv
<1>2. Served(serv, TRUE) = Served(serv, FALSE)
  BY <1>1 DEF Served
<1>3. GetAddrInfo(host, serv, TRUE, "unspec") = GetAddrInfo(host, serv, FALSE, "unspec")
  BY <1>2, Zenon DEF GetAddrInfo
<1> QED
  BY <1>3 DEF serv

\* A host and a port stand for the first address of the host, and the port.
LEMMA FirstRight ==
  ASSUME NEW host, NEW family \in Families, NEW l \in Literals,
         Addresses(host, family) # Nothing, Addresses(host, family)[1] = l,
         NEW n \in DOMAIN Number, ~OutOfRange(n)
  PROVE  Right(GetAddrInfo(host, <<n>>, TRUE, family),
               <<[family |-> l.family, text |-> l.text, port |-> Number[n]]>>)
<1> DEFINE serv == <<n>>
           list == GetAddrInfo(host, serv, TRUE, family)
<1>1. /\ serv \in Servings /\ serv # Nothing /\ serv[1] = n
      /\ \A k \in DOMAIN Number : serv = <<k>> => ~OutOfRange(k)
  BY SingleText DEF Servings, Names, Nothing
<1> HIDE DEF serv
<1>2. Served(serv, TRUE) = [port |-> Number[n], protocols |-> Both]
  BY <1>1 DEF Served
<1>4. Stands(list, l, Number[n])
  <2>1. Both # Nothing
    BY DEF Both, Nothing
  <2> DEFINE s == Served(serv, TRUE)
  <2>2. s.port = Number[n] /\ s.protocols # Nothing
    <3>1. s = [port |-> Number[n], protocols |-> Both]
      BY <1>2
    <3> HIDE DEF s
    <3> QED
      BY <2>1, <3>1, Zenon
  <2>3. IF Addresses(host, family) = Nothing \/ s.protocols = Nothing
        THEN list = Nothing
        ELSE Stands(list, Addresses(host, family)[1], s.port)
    BY <1>1, ListStands
  <2> HIDE DEF list, s
  <2> QED
    BY <2>2, <2>3
<1>5. Writable(list)
  BY <1>1, ListRight
<1> HIDE DEF list
<1>6. Right(list, <<[family |-> l.family, text |-> l.text, port |-> Number[n]]>>)
  BY <1>4, <1>5 DEF Stands, Right
<1> QED
  BY <1>6 DEF list, serv

\* A numeric host and a port stand for themselves.
LEMMA LiteralRight ==
  ASSUME NEW l \in Literals, NEW n \in DOMAIN Number, ~OutOfRange(n)
  PROVE  Right(GetAddrInfo(l.text, <<n>>, TRUE, "unspec"),
               <<[family |-> l.family, text |-> l.text, port |-> Number[n]]>>)
<1>1. Addresses(l.text, "unspec") # Nothing /\ Addresses(l.text, "unspec")[1] = l
  BY OwnAddress, SingleText DEF Nothing
<1> QED
  BY <1>1, FirstRight DEF Families

-------------------------------------------------------------------------------
(* The steps. *)

\* What is about to be made has what is meant, and so has what was made.  The parts of
\* Right are an invariant only together: what is printed is meant to be the address of
\* the list, and parses to it only since that has a numeric host and a port.
UriInv ==
  /\ phase = "given" => Right(Parsed, meant) \/ (Unread /\ Parsed = Nothing)
  /\ phase = "made" => Right(info, meant) \/ (Unread /\ info = Nothing)

\* What is given is parsed when the address is made; nothing changes before.
LEMMA GiveStep ==
  ASSUME NEW way, NEW host, NEW serv, NEW meaning, Give(way, host, serv, meaning)
  PROVE  /\ phase' = "given" /\ meant' = meaning /\ given'.way = way /\ given'.host = host
         /\ way = "uri" => Parsed' = ParseUri(host)
         /\ way = "pair" => Parsed' = ParseHostServ(host, serv)
         /\ way = "port" => Parsed' = ParsePort(serv[1])
<1>1. /\ given'.way = way /\ given'.host = host /\ given'.serv = serv /\ typed' = typed
      /\ phase' = "given" /\ meant' = meaning
  BY DEF Give
<1>2. \A h, s, numeric, f : GetAddrInfo(h, s, numeric, f)' = GetAddrInfo(h, s, numeric, f)
  BY <1>1 DEF GetAddrInfo
<1>3. CASE way = "uri"
  <2>1. Parsed' = ParseUri(given.host)'
    BY <1>1, <1>3 DEF Parsed
  <2>2. ParseUri(given.host)' = ParseUri(host)
    BY <1>1, <1>2 DEF ParseUri
  <2> QED
    BY <1>1, <1>3, <2>1, <2>2
<1>4. CASE way = "pair"
  <2>1. Parsed' = ParseHostServ(given.host, given.serv)'
    BY <1>1, <1>4 DEF Parsed
  <2>2. ParseHostServ(given.host, given.serv)' = ParseHostServ(host, serv)
    BY <1>1, <1>2 DEF ParseHostServ
  <2> QED
    BY <1>1, <1>4, <2>1, <2>2
<1>5. CASE way = "port"
  <2>1. Parsed' = ParsePort(given.serv[1])'
    BY <1>1, <1>5 DEF Parsed
  <2>2. ParsePort(given.serv[1])' = ParsePort(serv[1])
    BY <1>1, <1>2 DEF ParsePort
  <2> QED
    BY <1>1, <1>5, <2>1, <2>2
<1> QED
  BY <1>1, <1>3, <1>4, <1>5

\* Making keeps the invariant if what is made is what was meant.
LEMMA MadeKeeps ==
  ASSUME Right(info', meant') \/ (Unread' /\ info' = Nothing), phase' = "made"
  PROVE  UriInv'
BY DEF UriInv, Right, Fits, Writable, ForAny, Endpoint, Find

\* Steps that give something keep the invariant if what is given parses to what it means.
LEMMA GiveKeeps ==
  ASSUME Right(Parsed', meant') \/ (Unread' /\ Parsed' = Nothing), phase' = "given"
  PROVE  UriInv'
BY DEF UriInv, Right, Fits, Writable, ForAny, Endpoint, Find

\* Giving a URI keeps the invariant, with and without a port.
LEMMA GiveUriKeeps == GiveUri => UriInv'
<1> SUFFICES ASSUME GiveUri PROVE UriInv'
  OBVIOUS
<1>1. PICK scheme \in Optional(Schemes), host \in Hosts,
           port \in Optional(DOMAIN Number), path \in Paths :
        LET before == IF scheme = Nothing THEN Nothing ELSE scheme \o <<":", "/", "/">>
            closed == IF \E i \in DOMAIN host : host[i] \in Colons
                      THEN <<"[">> \o host \o <<"]">> ELSE host
            part == IF port = Nothing THEN host ELSE closed \o <<":">> \o port
        IN Give("uri", before \o part \o path, Nothing,
                Meaning(host, IF port = Nothing THEN scheme ELSE port))
  BY DEF GiveUri
<1> DEFINE part == IF port = Nothing THEN host ELSE Closed(host) \o <<":">> \o port
<1>0. Give("uri", UriOf(scheme, part, path), Nothing,
           Meaning(host, IF port = Nothing THEN scheme ELSE port))
  BY <1>1 DEF UriOf, Closed
<1>4. CASE scheme \notin Optional(Words)
  <2>1. PICK s \in Schemes \ Words : scheme = <<s>>
    BY <1>4 DEF Optional
  <2>2. part \in Text \ {<<>>} /\ \A i \in 1..Len(part) : part[i] # "/"
    <3>1. CASE port = Nothing
      BY <3>1, HostIs
    <3>2. CASE port # Nothing
      <4>1. PICK n \in DOMAIN Number : port = <<n>>
        BY <3>2 DEF Optional
      <4> QED
        BY <3>2, <4>1, PortText
    <3> QED
      BY <3>1, <3>2
  <2> DEFINE uri == UriOf(<<s>>, part, path)
  <2>3. Give("uri", uri, Nothing, Meaning(host, IF port = Nothing THEN scheme ELSE port))
    BY <1>0, <2>1
  <2> HIDE DEF part
  <2>4. /\ ParseUri(uri) = Nothing
        /\ Len(uri) > 4 /\ uri[1] = s /\ SubSeq(uri, 2, 4) = <<":", "/", "/">>
    BY <2>2, UnreadRefused
  <2> HIDE DEF uri
  <2>5. Parsed' = ParseUri(uri) /\ given'.way = "uri" /\ given'.host = uri /\ phase' = "given"
    BY <2>3, GiveStep
  <2>6. Unread' /\ Parsed' = Nothing
    BY <2>4, <2>5 DEF Unread
  <2> QED
    BY <2>5, <2>6, GiveKeeps
<1> SUFFICES ASSUME scheme \in Optional(Schemes \cap Words) PROVE UriInv'
  BY <1>4 DEF Optional
<1>2. CASE port = Nothing
  <2>1. Give("uri", UriOf(scheme, host, path), Nothing, Meaning(host, scheme))
    BY <1>0, <1>2
  <2>2. Parsed' = GetAddrInfo(host, scheme, FALSE, "unspec") /\ meant' = Meaning(host, scheme) /\ phase' = "given"
    BY <2>1, GiveStep, UriOfHost
  <2>3. scheme \in Servings /\ \A n \in DOMAIN Number : scheme # <<n>>
    <3>1. \A s \in Schemes : s \in Names /\ s \notin DOMAIN Number
      BY TokenAssumption DEF TokenAssumption, Names
    <3> QED
      BY <3>1, SingleText DEF Optional, Servings, Nothing
  <2>4. Right(GetAddrInfo(host, scheme, FALSE, "unspec"), Meaning(host, scheme))
    BY <2>3, MeaningRight
  <2> QED
    BY <2>2, <2>4, GiveKeeps
<1>3. CASE port # Nothing
  <2>1. PICK n \in DOMAIN Number : port = <<n>>
    BY <1>3 DEF Optional
  <2>2. Give("uri", UriOf(scheme, Closed(host) \o <<":">> \o <<n>>, path), Nothing, Meaning(host, <<n>>))
    BY <1>0, <1>3, <2>1
  <2>3. ParseUri(UriOf(scheme, Closed(host) \o <<":">> \o <<n>>, path)) =
          IF OutOfRange(n) THEN Nothing ELSE GetAddrInfo(host, <<n>>, TRUE, "unspec")
    BY UriOfPort
  <2>4. /\ Parsed' = IF OutOfRange(n) THEN Nothing ELSE GetAddrInfo(host, <<n>>, TRUE, "unspec")
        /\ meant' = Meaning(host, <<n>>) /\ phase' = "given"
    BY <2>2, <2>3, GiveStep
  <2>5. CASE OutOfRange(n)
    BY <2>4, <2>5, MeaningNothing, GiveKeeps
  <2>6. CASE ~OutOfRange(n)
    <3>1. <<n>> \in Servings /\ \A k \in DOMAIN Number : <<n>> = <<k>> => ~OutOfRange(k)
      BY <2>6, SingleText DEF Servings, Names
    <3>2. Right(GetAddrInfo(host, <<n>>, FALSE, "unspec"), Meaning(host, <<n>>))
      BY <3>1, MeaningRight
    <3>3. Parsed' = GetAddrInfo(host, <<n>>, FALSE, "unspec")
      BY <2>4, <2>6, NumberServed
    <3> QED
      BY <2>4, <3>2, <3>3, GiveKeeps
  <2> QED
    BY <2>5, <2>6
<1> QED
  BY <1>2, <1>3

\* Giving a host and a service keeps the invariant.
LEMMA GiveHostServKeeps == GiveHostServ => UriInv'
<1> SUFFICES ASSUME GiveHostServ PROVE UriInv'
  OBVIOUS
<1>1. PICK host \in Hosts, serv \in Optional(DOMAIN Number \cup DOMAIN Service) \ {Nothing} :
        Give("pair", host, serv, Meaning(host, serv))
  BY DEF GiveHostServ
<1>2. /\ Parsed' = ParseHostServ(host, serv)
      /\ meant' = Meaning(host, serv) /\ phase' = "given"
  BY <1>1, GiveStep
<1>3. PICK s \in DOMAIN Number \cup DOMAIN Service : serv = <<s>>
  BY <1>1 DEF Optional
<1>4. serv \in Servings /\ serv # Nothing /\ serv[1] = s
  BY <1>3, SingleText DEF Servings, Names, Nothing
<1>5. CASE s \in DOMAIN Number /\ OutOfRange(s)
  <2>1. ParseHostServ(host, serv) = Nothing
    BY <1>4, <1>5 DEF ParseHostServ
  <2> QED
    BY <1>2, <1>3, <1>5, <2>1, MeaningNothing, GiveKeeps
<1>6. CASE ~(s \in DOMAIN Number /\ OutOfRange(s))
  <2>1. ParseHostServ(host, serv) = GetAddrInfo(host, serv, FALSE, "unspec")
    BY <1>4, <1>6 DEF ParseHostServ
  <2>2. \A n \in DOMAIN Number : serv = <<n>> => ~OutOfRange(n)
    BY <1>4, <1>6, SingleText
  <2>3. Right(GetAddrInfo(host, serv, FALSE, "unspec"), Meaning(host, serv))
    BY <1>4, <2>2, MeaningRight
  <2> QED
    BY <1>2, <2>1, <2>3, GiveKeeps
<1> QED
  BY <1>5, <1>6

\* Giving a port keeps the invariant.
LEMMA GivePortKeeps == GivePort => UriInv'
<1> SUFFICES ASSUME GivePort PROVE UriInv'
  OBVIOUS
<1> DEFINE host == <<"localhost">>
<1>1. PICK n \in {k \in DOMAIN Number : Number[k] \in 0..PortMax} :
        Give("port", Nothing, <<n>>,
             <<[family |-> "inet", text |-> Localhost.text, port |-> Number[n]]>>)
  BY DEF GivePort
<1>2. /\ Parsed' = GetAddrInfo(host, <<n>>, TRUE, "inet") /\ phase' = "given"
      /\ meant' = <<[family |-> "inet", text |-> Localhost.text, port |-> Number[n]]>>
  BY <1>1, GiveStep, SingleText DEF ParsePort
<1>3. ~OutOfRange(n)
  BY DEF OutOfRange
<1>4. Localhost \in Literals /\ Localhost.family = "inet"
  BY LiteralAssumption DEF LiteralAssumption, Localhost
<1>6. Addresses(host, "inet") = HostName["localhost"].inet
  <2>1. Len(host) = 1 /\ host[1] = "localhost"
    BY SingleText
  <2> HIDE DEF host
  <2> QED
    BY <2>1, LiteralAssumption DEF LiteralAssumption, Addresses
<1>7. Addresses(host, "inet") # Nothing /\ Addresses(host, "inet")[1] = Localhost
  BY <1>6, LiteralAssumption DEF LiteralAssumption
<1> HIDE DEF host
<1>5. Right(GetAddrInfo(host, <<n>>, TRUE, "inet"),
            <<[family |-> Localhost.family, text |-> Localhost.text, port |-> Number[n]]>>)
  BY <1>3, <1>4, <1>7, FirstRight DEF Families
<1> QED
  BY <1>2, <1>4, <1>5, GiveKeeps

\* What an address prints is parsed to the list of its host and port.
LEMMA PrintedParsed ==
  ASSUME NEW l \in Literals, NEW a, a.family = l.family, a.text = l.text,
         NEW n \in DOMAIN Number, ~OutOfRange(n)
  PROVE  ParseUri(Printed(a, n)) = GetAddrInfo(l.text, <<n>>, TRUE, "unspec")
<1> DEFINE uri == Printed(a, n)
<1>1. /\ l.text \in Text \ {<<>>} /\ DOMAIN l.text = 1..Len(l.text) /\ Len(l.text) \in Nat \ {0}
      /\ l.family \in {"inet", "inet6"}
      /\ \A i \in DOMAIN l.text : /\ l.text[i] \notin Punctuation \ Colons
                                  /\ l.family = "inet" => l.text[i] \notin Colons
  BY LiteralAssumption, TextIs DEF LiteralAssumption
<1>2. "/" \in Punctuation \ Colons /\ "[" \in Punctuation \ Colons
  BY DEF Punctuation, Colons
<1>3. \A i \in 1..Len(l.text) : l.text[i] # "/" /\ l.text[i] # "["
  BY <1>1, <1>2
<1>7. n \in Digits
  BY RangeHasDigits
<1>4. 1 \in 1..Len(l.text)
  BY <1>1
<1>5. CASE l.family = "inet"
  <2>1. PlainPort(uri, l.text, n)
    BY <1>5, PrintedIs
  <2> HIDE DEF uri
  <2>2. uri \in Text \ {<<>>} /\ (\A i \in 1..Len(uri) : uri[i] # "/") /\ uri[Len(uri)] # ":"
    BY <1>3, <2>1, PlainText
  <2>3. uri # Nothing /\ HostPart(uri) = uri
    BY <2>2, ShapedAlone, WithoutScheme
  <2>4. UriDissect(uri) = [host |-> l.text, serv |-> <<n>>, numeric |-> TRUE]
    BY <1>1, <1>3, <1>4, <1>5, <2>1, <1>7, <2>3, PlainDissected
  <2>5. ParseUri(uri) = GetAddrInfo(l.text, <<n>>, TRUE, "unspec")
    BY <2>3, <2>4, ParsedWithPort
  <2> QED
    BY <2>5 DEF uri
<1>6. CASE l.family = "inet6"
  <2>1. BracketedPort(uri, l.text, n)
    BY <1>6, PrintedIs
  <2> HIDE DEF uri
  <2>2. uri \in Text \ {<<>>} /\ (\A i \in 1..Len(uri) : uri[i] # "/") /\ uri[Len(uri)] # ":"
    BY <1>3, <2>1, BracketedText
  <2>3. uri # Nothing /\ HostPart(uri) = uri
    BY <2>2, ShapedAlone, WithoutScheme
  <2>4. UriDissect(uri) = [host |-> l.text, serv |-> <<n>>, numeric |-> TRUE]
    BY <2>1, <1>7, <2>3, BracketedDissected
  <2>5. ParseUri(uri) = GetAddrInfo(l.text, <<n>>, TRUE, "unspec")
    BY <2>3, <2>4, ParsedWithPort
  <2> QED
    BY <2>5 DEF uri
<1> QED
  BY <1>1, <1>5, <1>6

\* Giving what an address prints keeps the invariant: this is where both its parts are needed.
LEMMA GivePrintedKeeps == UriInv /\ GivePrinted => UriInv'
<1> SUFFICES ASSUME UriInv, GivePrinted PROVE UriInv'
  OBVIOUS
<1> DEFINE n == Token(info[1].port)
<1>1. phase = "made" /\ info # Nothing
  BY DEF GivePrinted
<1>2. PICK l \in Literals, k \in DOMAIN Number :
        /\ ~OutOfRange(k)
        /\ ForAny(info) = [family |-> l.family, text |-> l.text, port |-> Number[k]]
  BY <1>1 DEF UriInv, Right, Writable
<1>3. info[1].family = l.family /\ info[1].text = l.text /\ info[1].port = Number[k]
  BY <1>2 DEF ForAny, Endpoint
<1>4. n \in DOMAIN Number /\ Number[n] = Number[k]
  BY <1>3 DEF Token
<1>5. ~OutOfRange(n)
  BY <1>2, <1>4 DEF OutOfRange
<1> HIDE DEF n
<1>6. \/ Give("uri", Printed(info[1], n), Nothing, <<ForAny(info)>>)
      \/ Give("pair", info[1].text, <<n>>, <<ForAny(info)>>)
  BY DEF GivePrinted, n
<1>7. Right(GetAddrInfo(l.text, <<n>>, TRUE, "unspec"), <<ForAny(info)>>)
  BY <1>2, <1>4, <1>5, LiteralRight
<1>8. CASE Give("uri", Printed(info[1], n), Nothing, <<ForAny(info)>>)
  <2>1. ParseUri(Printed(info[1], n)) = GetAddrInfo(l.text, <<n>>, TRUE, "unspec")
    BY <1>3, <1>4, <1>5, PrintedParsed
  <2>2. Parsed' = ParseUri(Printed(info[1], n)) /\ meant' = <<ForAny(info)>> /\ phase' = "given"
    BY <1>8, GiveStep
  <2> QED
    BY <1>7, <2>1, <2>2, GiveKeeps
<1>9. CASE Give("pair", info[1].text, <<n>>, <<ForAny(info)>>)
  <2>1. ParseHostServ(l.text, <<n>>) = GetAddrInfo(l.text, <<n>>, FALSE, "unspec")
    <3>1. <<n>> # Nothing /\ <<n>>[1] = n
      BY SingleText DEF Nothing
    <3> QED
      BY <1>5, <3>1 DEF ParseHostServ
  <2>2. Parsed' = ParseHostServ(l.text, <<n>>) /\ meant' = <<ForAny(info)>> /\ phase' = "given"
    BY <1>3, <1>9, GiveStep
  <2> QED
    BY <1>4, <1>7, <2>1, <2>2, NumberServed, GiveKeeps
<1> QED
  BY <1>6, <1>8, <1>9

\* An address is made of what is given.
LEMMA MakeKeeps == UriInv /\ Make => UriInv'
<1> SUFFICES ASSUME UriInv, Make PROVE UriInv'
  OBVIOUS
<1>1. phase = "given" /\ phase' = "made" /\ info' = Parsed /\ meant' = meant /\ given' = given
  BY DEF Make
<1>2. Unread' = Unread
  BY <1>1 DEF Unread
<1> QED
  BY <1>1, <1>2, MadeKeeps DEF UriInv

\* The invariant is inductive.
LEMMA UriInvInductive == UriInv /\ [UriNext]_uriVars => UriInv'
<1> SUFFICES ASSUME UriInv, [UriNext]_uriVars PROVE UriInv'
  OBVIOUS
<1>1. CASE GiveUri
  BY <1>1, GiveUriKeeps
<1>2. CASE GiveHostServ
  BY <1>2, GiveHostServKeeps
<1>3. CASE GivePort
  BY <1>3, GivePortKeeps
<1>4. CASE GivePrinted
  BY <1>4, GivePrintedKeeps
<1>5. CASE Make
  BY <1>5, MakeKeeps
<1>6. CASE UNCHANGED uriVars
  <2>1. phase' = phase /\ meant' = meant /\ info' = info /\ typed' = typed /\ given' = given
    BY <1>6 DEF uriVars
  <2>2. Parsed' = Parsed
    BY <2>1 DEF Parsed, ParseUri, ParseHostServ, ParsePort, GetAddrInfo
  <2>6. Unread' = Unread
    BY <2>1 DEF Unread
  <2>3. CASE phase = "given"
    BY <2>1, <2>2, <2>3, <2>6, GiveKeeps DEF UriInv
  <2>4. CASE phase = "made"
    BY <2>1, <2>4, <2>6, MadeKeeps DEF UriInv
  <2>5. CASE phase # "given" /\ phase # "made"
    BY <2>1, <2>5 DEF UriInv
  <2> QED
    BY <2>3, <2>4, <2>5
<1> QED
  BY <1>1, <1>2, <1>3, <1>4, <1>5, <1>6 DEF UriNext

\* Whatever text an address is made of, it is understood as it was meant, or refused where
\* a service is no word: the theorem is about texts of any length, any numbers, services,
\* hosts and paths.
THEOREM TextsUnderstood == UriSpec => []Understood
<1>1. UriInit => UriInv
  BY DEF UriInit, UriInv
<1>2. UriInv => Understood
  BY DEF UriInv, Right, Understood
<1> QED
  BY <1>1, <1>2, UriInvInductive, PTL DEF UriSpec
================================================================================
