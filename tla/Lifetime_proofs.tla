---------------------------- MODULE Lifetime_proofs ----------------------------
(***************************************************************************)
(* Proofs about Lifetime, for any objects, kinds and number of failed      *)
(* start-ups.  Sound is the inductive invariant: what a library has        *)
(* followed of its count is the number of its guards and failures, and     *)
(* every resource is that of a part that is made, whose guard was made     *)
(* before it.  An accepted descriptor has no guard of its own yet: that    *)
(* the acceptor is alive, with its guards, is Accepting.                   *)
(***************************************************************************)
EXTENDS Lifetime, SequenceTheorems, FiniteSetTheorems, TLAPS

PlanOf(o) == Plan[obj[o].kind]

Objs == [kind : Kinds \cup {"none"}, mode : Modes, made : Nat, from : Objects \cup {NoObject}]
Libs == [mtx : Objects \cup {NoObject}, prev : Nat, curr : Nat, up : BOOLEAN,
         failures : 0..MaxFailures]

Types ==
  /\ obj \in [Objects -> Objs]
  /\ held \subseteq Objects \X Resources
  /\ lib \in [Libraries -> Libs]

\* No object has more parts than its plan, and one that is alive has them all.
Shaped ==
  \A o \in Objects :
    /\ obj[o].mode = "none" => obj[o].made = 0
    /\ obj[o].mode # "none" => obj[o].kind \in Kinds /\ obj[o].made <= Len(PlanOf(o))
    /\ obj[o].mode = "alive" => obj[o].made = Len(PlanOf(o))

\* Who holds the mutex is at a guard, and has counted it.
Counting ==
  \A l \in Libraries : \A o \in Objects : lib[l].mtx = o =>
    /\ Making(o) \/ Destroying(o)
    /\ Part(o) = l
    /\ lib[l].curr = lib[l].prev + (IF Making(o) THEN 1 ELSE -1)

\* The count that the library has followed: without the one that is being made.
Seen(l) == IF lib[l].mtx = NoObject THEN lib[l].curr ELSE lib[l].prev

\* It is right.
Exact ==
  \A l \in Libraries :
    /\ Seen(l) = Cardinality(Guards(l)) + lib[l].failures
    /\ lib[l].failures = 0 => (lib[l].up <=> Seen(l) > 0)

\* Of an object of a kind, in a mode, with that many parts made, r is a resource.
Has(kind, made, part) == \E i \in 1..made : Plan[kind][i] = part

Owns(kind, mode, made, r) ==
  \/ Has(kind, made, r)
  \/ r = "fd" /\ Has(kind, made, "adopt")
  \/ r = "fd" /\ Has(kind, made, "accept") /\ mode = "making"

\* A resource is that of a part that is made; an accepted descriptor that is not
\* adopted yet belongs to a constructor.
Owners ==
  \A o \in Objects : \A r \in Resources :
    <<o, r>> \in held => Owns(obj[o].kind, obj[o].mode, obj[o].made, r)

\* A constructor of an accepted socket works for an acceptor that is alive.
Accepting ==
  \A o \in Objects : obj[o].mode = "making" /\ obj[o].kind \in DOMAIN AcceptorOf =>
    \E a \in Objects :
      obj[o].from = a /\ obj[a].mode = "alive" /\ obj[a].kind = AcceptorOf[obj[o].kind]

\* The inductive invariant, with Accepting.
Sound == Types /\ Shaped /\ Counting /\ Exact /\ Owners

-------------------------------------------------------------------------------
(* The plans. *)

Parts == Libraries \cup Resources \cup {"accept", "adopt", "freectx", "setup"}

\* A plan begins with a guard of WinSock, unless it does with a descriptor that is
\* accepted and then adopted after a guard; it has one of TLS at n before what needs it.
Planned(p, n) ==
  /\ Len(p) \in 1..7
  /\ \A i \in 1..Len(p) : p[i] \in Parts
  /\ p[1] \in {"winsock", "accept"}
  /\ n \in 1..Len(p)
  /\ \A i \in 1..Len(p) : p[i] \notin Libraries /\ Library(p[i]) = "ssl" => n < i /\ p[n] = "ssl"
  /\ \A i \in 1..Len(p) : p[i] = "accept" =>
       /\ i = 1
       /\ i + 2 \in 1..Len(p)
       /\ p[i + 1] = "winsock"
       /\ p[i + 2] = "adopt"

LEMMA AddressPlanned == Planned(Plan["address"], 1)
<1> DEFINE p == Plan["address"]
<1>1. Len(p) = 2 /\ p[1] = "winsock" /\ p[2] = "info"
  BY DEF Plan, AddressParts
<1> HIDE DEF p
<1> QED
  BY <1>1 DEF Planned, Parts, Libraries, Resources, Library, p

LEMMA SocketPlanned == Planned(Plan["socket"], 1) /\ Planned(Plan["acceptor"], 1)
<1> DEFINE p == Plan["socket"]
<1>1. Len(p) = 3 /\ p[1] = "winsock" /\ p[2] = "fd" /\ p[3] = "setup"
  BY DEF Plan, SocketParts, Configured
<1>2. Plan["acceptor"] = p
  BY DEF Plan
<1> HIDE DEF p
<1>3. Planned(p, 1)
  BY <1>1 DEF Planned, Parts, Libraries, Resources, Library
<1> QED
  BY <1>2, <1>3 DEF p

LEMMA AcceptedPlanned == Planned(Plan["accepted"], 1)
<1> DEFINE p == Plan["accepted"]
<1>1. /\ Len(p) = 4 /\ p[1] = "accept" /\ p[2] = "winsock" /\ p[3] = "adopt"
      /\ p[4] = "setup"
  BY DEF Plan, AcceptedParts, Configured
<1> HIDE DEF p
<1> QED
  BY <1>1 DEF Planned, Parts, Libraries, Resources, Library, p

LEMMA TlsPlanned == Planned(Plan["tls"], 3)
<1> DEFINE p == Plan["tls"]
<1>1. /\ Len(p) = 7 /\ p[1] = "winsock" /\ p[2] = "fd" /\ p[3] = "ssl" /\ p[4] = "ctx"
      /\ p[5] = "session" /\ p[6] = "freectx" /\ p[7] = "setup"
  BY DEF Plan, TlsParts, SocketParts, Configured
<1> HIDE DEF p
<1> QED
  BY <1>1 DEF Planned, Parts, Libraries, Resources, Library, p

LEMMA TlsAcceptorPlanned == Planned(Plan["tlsAcceptor"], 3)
<1> DEFINE p == Plan["tlsAcceptor"]
<1>1. /\ Len(p) = 5 /\ p[1] = "winsock" /\ p[2] = "fd" /\ p[3] = "ssl" /\ p[4] = "ctx"
      /\ p[5] = "setup"
  BY DEF Plan, TlsAcceptorParts, SocketParts, Configured
<1> HIDE DEF p
<1> QED
  BY <1>1 DEF Planned, Parts, Libraries, Resources, Library, p

LEMMA TlsAcceptedPlanned == Planned(Plan["tlsAccepted"], 4)
<1> DEFINE p == Plan["tlsAccepted"]
<1>1. /\ Len(p) = 6 /\ p[1] = "accept" /\ p[2] = "winsock" /\ p[3] = "adopt"
      /\ p[4] = "ssl" /\ p[5] = "session" /\ p[6] = "setup"
  BY DEF Plan, TlsAcceptedParts, AcceptedParts, Configured
<1> HIDE DEF p
<1> QED
  BY <1>1 DEF Planned, Parts, Libraries, Resources, Library, p

\* Every plan begins with guards for what follows.
LEMMA AllPlanned == \A k \in DOMAIN Plan : \E n \in Nat : Planned(Plan[k], n)
<1>1. DOMAIN Plan = {"address", "socket", "acceptor", "accepted", "tls", "tlsAcceptor", "tlsAccepted"}
  BY DEF Plan
<1>2. 1 \in Nat /\ 3 \in Nat /\ 4 \in Nat
  OBVIOUS
<1> SUFFICES ASSUME NEW k \in DOMAIN Plan PROVE \E n \in Nat : Planned(Plan[k], n)
  OBVIOUS
<1>3. \/ k = "address" \/ k = "socket" \/ k = "acceptor" \/ k = "accepted"
      \/ k = "tls" \/ k = "tlsAcceptor" \/ k = "tlsAccepted"
  BY <1>1
<1> QED
  BY <1>2, <1>3, AddressPlanned, SocketPlanned, AcceptedPlanned, TlsPlanned,
     TlsAcceptorPlanned, TlsAcceptedPlanned, Zenon

\* Only the plans of accepted sockets begin with an accepted descriptor.
LEMMA FirstParts ==
  ASSUME NEW k \in DOMAIN Plan, Plan[k][1] = "accept"
  PROVE  k \in DOMAIN AcceptorOf
<1>1. DOMAIN Plan = {"address", "socket", "acceptor", "accepted", "tls", "tlsAcceptor", "tlsAccepted"}
  BY DEF Plan
<1>2. DOMAIN AcceptorOf = {"accepted", "tlsAccepted"}
  BY DEF AcceptorOf
<1>3. Plan["address"][1] = "winsock"
  BY DEF Plan, AddressParts
<1>4. Plan["socket"][1] = "winsock" /\ Plan["acceptor"][1] = "winsock"
  BY DEF Plan, SocketParts, Configured
<1>5. Plan["tls"][1] = "winsock"
  BY DEF Plan, TlsParts, SocketParts, Configured
<1>6. Plan["tlsAcceptor"][1] = "winsock"
  BY DEF Plan, TlsAcceptorParts, SocketParts, Configured
<1> QED
  BY <1>1, <1>2, <1>3, <1>4, <1>5, <1>6

\* The guard of a part that needs one of its own comes before it.
LEMMA GuardBefore ==
  ASSUME NEW k \in DOMAIN Plan, NEW i \in 1..Len(Plan[k]),
         Plan[k][i] \notin Libraries, Plan[k][i] # "accept"
  PROVE  \E j \in 1..i - 1 : Plan[k][j] = Library(Plan[k][i])
<1> DEFINE p == Plan[k]
<1>1. PICK n \in Nat : Planned(p, n)
  BY AllPlanned
<1> HIDE DEF p
<1>2. Len(p) \in Nat /\ i \in 1..Len(p) /\ p[i] \notin Libraries /\ p[i] # "accept"
  BY <1>1 DEF Planned, p
<1>3. CASE Library(p[i]) = "ssl"
  <2>1. n \in 1..i - 1 /\ p[n] = "ssl"
    BY <1>1, <1>2, <1>3 DEF Planned
  <2> QED
    BY <1>3, <2>1 DEF p
<1>4. CASE Library(p[i]) # "ssl"
  <2>1. Library(p[i]) = "winsock" /\ "winsock" \in Libraries
    BY <1>4 DEF Library, Libraries
  <2>2. i # 1 /\ p[1] \in {"winsock", "accept"} /\ 1 \in 1..Len(p)
    BY <1>1, <1>2, <2>1 DEF Planned
  <2>3. CASE p[1] = "winsock"
    <3>1. 1 \in 1..i - 1
      BY <1>2, <2>2
    <3> QED
      BY <2>1, <2>3, <3>1 DEF p
  <2>4. CASE p[1] = "accept"
    <3>1. p[1 + 1] = "winsock"
      BY <1>1, <2>2, <2>4 DEF Planned
    <3>2. p[2] = "winsock" /\ i # 2
      BY <1>2, <2>1, <3>1
    <3>3. 2 \in 1..i - 1
      BY <1>2, <2>2, <3>2
    <3> QED
      BY <2>1, <3>2, <3>3 DEF p
  <2> QED
    BY <2>2, <2>3, <2>4
<1> QED
  BY <1>3, <1>4

-------------------------------------------------------------------------------
(* What a step does to one object. *)

\* Only o changes, to be of a kind, in a mode, with that many parts made.
Becomes(o, kind, mode, made) ==
  /\ obj' \in [Objects -> Objs]
  /\ \A p \in Objects : p # o => obj'[p] = obj[p]
  /\ obj'[o].kind = kind /\ obj'[o].mode = mode /\ obj'[o].made = made

LEMMA MadeMeans ==
  ASSUME Types, NEW o \in Objects, Made(o)
  PROVE  Becomes(o, obj[o].kind, obj[o].mode, obj[o].made + 1)
BY DEF Types, Objs, Made, Becomes

LEMMA UnmadeMeans ==
  ASSUME Types, NEW o \in Objects, obj[o].made > 0, Unmade(o)
  PROVE  Becomes(o, obj[o].kind, obj[o].mode, obj[o].made - 1)
<1>1. obj[o].made - 1 \in Nat
  BY DEF Types, Objs
<1> QED
  BY <1>1 DEF Types, Objs, Unmade, Becomes

LEMMA ThrowsMeans ==
  ASSUME Types, NEW o \in Objects, Throws(o)
  PROVE  Becomes(o, obj[o].kind, "unwinding", obj[o].made)
BY DEF Types, Objs, Modes, Throws, Becomes

\* The part that is made or destroyed is one of the plan.
LEMMA PartMeans ==
  ASSUME Types, Shaped, NEW o \in Objects
  PROVE  /\ obj[o].made \in Nat
         /\ Making(o) => /\ obj[o].kind \in Kinds /\ PlanOf(o) = Plan[obj[o].kind]
                         /\ obj[o].made + 1 \in 1..Len(PlanOf(o))
                         /\ Part(o) = PlanOf(o)[obj[o].made + 1]
         /\ Destroying(o) => /\ obj[o].kind \in Kinds
                             /\ ~Making(o)
                             /\ obj[o].made \in 1..Len(PlanOf(o))
                             /\ Part(o) = PlanOf(o)[obj[o].made]
<1>1. obj[o].made \in Nat
  BY DEF Types, Objs
<1>2. obj[o].kind \in Kinds => Len(PlanOf(o)) \in 1..7
  BY AllPlanned, LifetimeAssumption DEF LifetimeAssumption, PlanOf, Planned
<1>3. CASE Making(o)
  <2>1. obj[o].mode = "making" /\ obj[o].made < Len(PlanOf(o)) /\ ~Destroying(o)
    BY <1>3 DEF Making, Destroying, PlanOf
  <2>2. obj[o].kind \in Kinds
    BY <2>1 DEF Shaped
  <2> QED
    BY <1>1, <1>2, <1>3, <2>1, <2>2 DEF Part, PlanOf
<1>4. CASE ~Making(o)
  <2>1. Destroying(o) => obj[o].mode # "none" /\ obj[o].made > 0
    BY DEF Destroying
  <2>2. Destroying(o) => obj[o].kind \in Kinds /\ obj[o].made <= Len(PlanOf(o))
    BY <2>1 DEF Shaped
  <2> QED
    BY <1>1, <1>2, <1>4, <2>1, <2>2 DEF Part, PlanOf
<1> QED
  BY <1>3, <1>4

-------------------------------------------------------------------------------
(* The guards. *)

LEMMA AtMost ==
  ASSUME NEW m \in Nat, NEW n \in 1..7, m <= n
  PROVE  m \in 0..7
OBVIOUS

LEMMA Within ==
  ASSUME NEW m \in Nat, NEW n \in 1..7, m <= n, NEW i \in 1..m
  PROVE  i \in 1..7 /\ i <= m
OBVIOUS

\* There are finitely many.
LEMMA GuardsFinite ==
  ASSUME NEW l
  PROVE  IsFiniteSet(Guards(l)) /\ Cardinality(Guards(l)) \in Nat
<1>1. IsFiniteSet(1..7)
  <2>1. 1 \in Int /\ 7 \in Int
    OBVIOUS
  <2> QED
    BY <2>1, FS_Interval, Zenon
<1>2. IsFiniteSet(Objects \X (1..7))
  BY <1>1, FS_Product, LifetimeAssumption DEF LifetimeAssumption
<1>3. Guards(l) \subseteq Objects \X (1..7)
  BY DEF Guards
<1>4. IsFiniteSet(Guards(l))
  BY <1>2, <1>3, FS_Subset
<1> QED
  BY <1>4, FS_CardinalityType

\* They remain as long as nothing is made or destroyed.
LEMMA GuardsStay ==
  ASSUME Types, NEW o \in Objects, NEW kind, NEW mode, NEW made,
         Becomes(o, kind, mode, made),
         \/ kind = obj[o].kind /\ made = obj[o].made
         \/ made = 0 /\ obj[o].made = 0,
         NEW l
  PROVE  Guards(l)' = Guards(l)
<1> SUFFICES ASSUME NEW g \in Objects \X (1..7)
             PROVE  /\ g[2] <= obj'[g[1]].made /\ Plan[obj'[g[1]].kind][g[2]] = l
                      <=> g[2] <= obj[g[1]].made /\ Plan[obj[g[1]].kind][g[2]] = l
  BY DEF Guards
<1>1. g[1] \in Objects /\ g[2] \in 1..7
  OBVIOUS
<1>2. CASE g[1] # o
  BY <1>1, <1>2 DEF Becomes
<1>3. CASE g[1] = o
  BY <1>1, <1>3 DEF Becomes
<1> QED
  BY <1>2, <1>3

\* One more is made, or a part that is not one of them.
LEMMA GuardsGrow ==
  ASSUME Types, Shaped, NEW o \in Objects, Making(o), Made(o), NEW l
  PROVE  Cardinality(Guards(l))' = Cardinality(Guards(l)) + (IF Part(o) = l THEN 1 ELSE 0)
<1> DEFINE n == obj[o].made + 1
           new == <<o, n>>
<1>1. Becomes(o, obj[o].kind, obj[o].mode, n)
  BY MadeMeans
<1>2. /\ obj[o].made \in Nat /\ n \in 1..7 /\ Part(o) = PlanOf(o)[n]
      /\ new \in Objects \X (1..7) /\ new[1] = o /\ new[2] = n
  <2>1. Len(PlanOf(o)) \in 1..7
    BY PartMeans, AllPlanned, LifetimeAssumption DEF LifetimeAssumption, PlanOf, Planned
  <2> QED
    BY <2>1, PartMeans
<1> HIDE DEF n
<1>3. \A g \in Objects \X (1..7) : g = new <=> g[1] = o /\ g[2] = n
  BY <1>2
<1> HIDE DEF new
<1>4. \A g \in Objects \X (1..7) :
        /\ g # new => (g \in Guards(l)' <=> g \in Guards(l))
        /\ g = new => (g \in Guards(l)' <=> Part(o) = l) /\ g \notin Guards(l)
  <2> SUFFICES ASSUME NEW g \in Objects \X (1..7)
               PROVE  /\ g # new => (g \in Guards(l)' <=> g \in Guards(l))
                      /\ g = new => (g \in Guards(l)' <=> Part(o) = l) /\ g \notin Guards(l)
    OBVIOUS
  <2>1. /\ g \in Guards(l) <=> g[2] <= obj[g[1]].made /\ Plan[obj[g[1]].kind][g[2]] = l
        /\ g \in Guards(l)' <=> g[2] <= obj'[g[1]].made /\ Plan[obj'[g[1]].kind][g[2]] = l
    BY DEF Guards
  <2>2. g[1] \in Objects /\ g[2] \in 1..7
    OBVIOUS
  <2>3. CASE g[1] # o
    BY <1>1, <1>2, <2>1, <2>2, <2>3 DEF Becomes
  <2>4. CASE g[1] = o
    <3>1. obj'[g[1]].made = n /\ obj'[g[1]].kind = obj[o].kind /\ obj[o].made = n - 1
      BY <1>1, <1>2, <2>4 DEF Becomes, n
    <3>2. g = new <=> g[2] = n
      BY <1>3, <2>4
    <3>3. g[2] <= n <=> g[2] <= n - 1 \/ g[2] = n
      BY <1>2, <2>2
    <3>4. ~(n <= n - 1)
      BY <1>2
    <3>5. CASE g[2] = n
      BY <1>2, <2>1, <2>4, <3>1, <3>2, <3>3, <3>4, <3>5 DEF PlanOf
    <3>6. CASE g[2] # n
      BY <2>1, <2>4, <3>1, <3>2, <3>3, <3>6
    <3> QED
      BY <3>5, <3>6
  <2> QED
    BY <2>3, <2>4
<1>5. /\ Guards(l) \subseteq Objects \X (1..7) /\ Guards(l)' \subseteq Objects \X (1..7)
      /\ IsFiniteSet(Guards(l)) /\ Cardinality(Guards(l)) \in Nat
  BY GuardsFinite DEF Guards
<1>6. CASE Part(o) = l
  <2>1. Guards(l)' = Guards(l) \cup {new} /\ new \notin Guards(l)
    BY <1>2, <1>4, <1>5, <1>6
  <2>2. Cardinality(Guards(l)') = Cardinality(Guards(l)) + 1
    BY <1>5, <2>1, FS_AddElement
  <2> QED
    BY <1>6, <2>2
<1>7. CASE Part(o) # l
  <2>1. Guards(l)' = Guards(l)
    BY <1>2, <1>4, <1>5, <1>7
  <2> QED
    BY <1>5, <1>7, <2>1
<1> QED
  BY <1>6, <1>7

\* One is destroyed, or a part that is not one of them.
LEMMA GuardsShrink ==
  ASSUME Types, Shaped, NEW o \in Objects, Destroying(o), Unmade(o), NEW l
  PROVE  /\ Cardinality(Guards(l))' = Cardinality(Guards(l)) - (IF Part(o) = l THEN 1 ELSE 0)
         /\ Part(o) = l => Cardinality(Guards(l)) > 0
<1> DEFINE n == obj[o].made
           old == <<o, n>>
<1>1. n \in Nat /\ n > 0 /\ Becomes(o, obj[o].kind, obj[o].mode, n - 1)
  BY UnmadeMeans, PartMeans DEF Destroying
<1>2. /\ n \in 1..7 /\ Part(o) = PlanOf(o)[n]
      /\ old \in Objects \X (1..7) /\ old[1] = o /\ old[2] = n
  <2>1. Len(PlanOf(o)) \in 1..7
    BY PartMeans, AllPlanned, LifetimeAssumption DEF LifetimeAssumption, PlanOf, Planned
  <2> QED
    BY <2>1, PartMeans
<1>3. \A g \in Objects \X (1..7) : g = old <=> g[1] = o /\ g[2] = n
  BY <1>2
<1> HIDE DEF old
<1>4. \A g \in Objects \X (1..7) :
        /\ g # old => (g \in Guards(l)' <=> g \in Guards(l))
        /\ g = old => (g \in Guards(l) <=> Part(o) = l) /\ g \notin Guards(l)'
  <2> SUFFICES ASSUME NEW g \in Objects \X (1..7)
               PROVE  /\ g # old => (g \in Guards(l)' <=> g \in Guards(l))
                      /\ g = old => (g \in Guards(l) <=> Part(o) = l) /\ g \notin Guards(l)'
    OBVIOUS
  <2>1. /\ g \in Guards(l) <=> g[2] <= obj[g[1]].made /\ Plan[obj[g[1]].kind][g[2]] = l
        /\ g \in Guards(l)' <=> g[2] <= obj'[g[1]].made /\ Plan[obj'[g[1]].kind][g[2]] = l
    BY DEF Guards
  <2>2. g[1] \in Objects /\ g[2] \in 1..7
    OBVIOUS
  <2>3. CASE g[1] # o
    BY <1>1, <1>2, <1>3, <2>1, <2>2, <2>3 DEF Becomes
  <2>4. CASE g[1] = o
    <3>1. obj'[g[1]].made = n - 1 /\ obj'[g[1]].kind = obj[o].kind /\ obj[g[1]].made = n
      BY <1>1, <2>4 DEF Becomes
    <3>2. g = old <=> g[2] = n
      BY <1>3, <2>4
    <3> HIDE DEF n
    <3>3. g[2] <= n <=> g[2] <= n - 1 \/ g[2] = n
      BY <1>2, <2>2
    <3>4. ~(n <= n - 1) /\ n <= n
      BY <1>2
    <3>5. CASE g[2] = n
      BY <1>2, <2>1, <2>4, <3>1, <3>2, <3>3, <3>4, <3>5 DEF PlanOf
    <3>6. CASE g[2] # n
      BY <2>1, <2>4, <3>1, <3>2, <3>3, <3>6
    <3> QED
      BY <3>5, <3>6
  <2> QED
    BY <2>3, <2>4
<1>5. /\ Guards(l) \subseteq Objects \X (1..7) /\ Guards(l)' \subseteq Objects \X (1..7)
      /\ IsFiniteSet(Guards(l)) /\ Cardinality(Guards(l)) \in Nat
  BY GuardsFinite DEF Guards
<1> HIDE DEF n
<1>6. CASE Part(o) = l
  <2>1. Guards(l)' = Guards(l) \ {old} /\ old \in Guards(l)
    BY <1>2, <1>4, <1>5, <1>6
  <2>2. Cardinality(Guards(l)') = Cardinality(Guards(l)) - 1
    BY <1>5, <2>1, FS_RemoveElement
  <2>3. Cardinality(Guards(l)) # 0
    BY <1>5, <2>1, FS_EmptySet
  <2> QED
    BY <1>5, <1>6, <2>2, <2>3
<1>7. CASE Part(o) # l
  <2>1. Guards(l)' = Guards(l)
    BY <1>2, <1>4, <1>5, <1>7
  <2> QED
    BY <1>5, <1>7, <2>1
<1> QED
  BY <1>6, <1>7

\* What is made after a guard keeps it counted.
LEMMA GuardCounted ==
  ASSUME Types, Shaped, NEW o \in Objects, NEW i \in 1..obj[o].made, obj[o].mode # "none"
  PROVE  Cardinality(Guards(PlanOf(o)[i])) > 0
<1> DEFINE l == PlanOf(o)[i]
           g == <<o, i>>
<1>1. i \in 1..7 /\ i <= obj[o].made
  <2>1. /\ obj[o].kind \in Kinds /\ obj[o].made <= Len(PlanOf(o)) /\ obj[o].made \in Nat
    BY DEF Shaped, Types, Objs
  <2>2. Len(PlanOf(o)) \in 1..7
    BY <2>1, AllPlanned, LifetimeAssumption DEF LifetimeAssumption, PlanOf, Planned
  <2> QED
    BY <2>1, <2>2, Within
<1>2. g \in Objects \X (1..7) /\ g[1] = o /\ g[2] = i
  BY <1>1
<1> HIDE DEF g
<1>3. g \in Guards(l)
  BY <1>1, <1>2 DEF Guards, PlanOf
<1> HIDE DEF l
<1>4. Cardinality(Guards(l)) # 0 /\ Cardinality(Guards(l)) \in Nat
  BY <1>3, GuardsFinite, FS_EmptySet
<1> QED
  BY <1>4 DEF l

-------------------------------------------------------------------------------
(* Steps, by what they leave alone. *)

\* How an object may be, by its kind, its mode and the number of its parts.
Shape(kind, mode, made) ==
  /\ mode = "none" => made = 0
  /\ mode # "none" => kind \in Kinds /\ made <= Len(Plan[kind])
  /\ mode = "alive" => made = Len(Plan[kind])

LEMMA ShapedBecomes ==
  ASSUME Shaped, NEW o \in Objects, NEW kind, NEW mode, NEW made,
         Becomes(o, kind, mode, made), Shape(kind, mode, made)
  PROVE  Shaped'
<1> SUFFICES ASSUME NEW p \in Objects
             PROVE  Shape(obj'[p].kind, obj'[p].mode, obj'[p].made)
  BY DEF Shaped, Shape, PlanOf
<1>1. CASE p = o
  BY <1>1 DEF Becomes
<1>2. CASE p # o
  BY <1>2 DEF Becomes, Shaped, Shape, PlanOf
<1> QED
  BY <1>1, <1>2

LEMMA OwnersBecome ==
  ASSUME Owners, NEW o \in Objects, NEW kind, NEW mode, NEW made,
         Becomes(o, kind, mode, made),
         \A p \in Objects : \A r \in Resources : <<p, r>> \in held' =>
           IF p = o THEN Owns(kind, mode, made, r) ELSE <<p, r>> \in held
  PROVE  Owners'
<1> SUFFICES ASSUME NEW p \in Objects, NEW r \in Resources, <<p, r>> \in held'
             PROVE  Owns(obj'[p].kind, obj'[p].mode, obj'[p].made, r)
  BY DEF Owners, Owns, Has
<1>1. CASE p = o
  BY <1>1 DEF Becomes
<1>2. CASE p # o
  <2>1. obj'[p] = obj[p] /\ <<p, r>> \in held
    BY <1>2 DEF Becomes
  <2> QED
    BY <2>1 DEF Owners
<1> QED
  BY <1>1, <1>2

\* Who is not at a guard holds no mutex.
AtGuard(o) == (Making(o) \/ Destroying(o)) /\ Part(o) \in Libraries

\* Making, Destroying and Part of the other objects are as they were.
LEMMA OthersAre ==
  ASSUME NEW o \in Objects, NEW kind, NEW mode, NEW made, Becomes(o, kind, mode, made),
         NEW p \in Objects, p # o
  PROVE  /\ Making(p)' <=> Making(p)
         /\ Destroying(p)' <=> Destroying(p)
         /\ Part(p)' = Part(p)
<1>1. obj'[p] = obj[p]
  BY DEF Becomes
<1>2. Making(p)' <=> Making(p)
  BY <1>1 DEF Making
<1>3. Destroying(p)' <=> Destroying(p)
  BY <1>1 DEF Destroying
<1> QED
  BY <1>1, <1>2, <1>3 DEF Part

\* Without a change of the libraries.
LEMMA LibKept ==
  ASSUME Counting, Exact, NEW o \in Objects, NEW kind, NEW mode, NEW made,
         Becomes(o, kind, mode, made), ~AtGuard(o), lib' = lib,
         \A l \in Libraries : Cardinality(Guards(l))' = Cardinality(Guards(l))
  PROVE  Counting' /\ Exact'
<1>1. Counting'
  <2> SUFFICES ASSUME NEW l \in Libraries, NEW p \in Objects, lib[l].mtx = p
               PROVE  /\ Making(p)' \/ Destroying(p)'
                      /\ Part(p)' = l
                      /\ lib[l].curr = lib[l].prev + (IF Making(p)' THEN 1 ELSE -1)
    BY DEF Counting
  <2>1. /\ Making(p) \/ Destroying(p)
        /\ Part(p) = l
        /\ lib[l].curr = lib[l].prev + (IF Making(p) THEN 1 ELSE -1)
    BY DEF Counting
  <2>2. p # o
    BY <2>1 DEF AtGuard
  <2> QED
    BY <2>1, <2>2, OthersAre
<1>2. Exact'
  BY DEF Exact, Seen
<1> QED
  BY <1>1, <1>2

\* Nothing is made or destroyed.
LEMMA ModeSound ==
  ASSUME Sound, NEW o \in Objects, NEW kind, NEW mode, NEW made,
         Becomes(o, kind, mode, made), Shape(kind, mode, made),
         \/ kind = obj[o].kind /\ made = obj[o].made
         \/ made = 0 /\ obj[o].made = 0,
         ~AtGuard(o), UNCHANGED <<held, lib>>,
         \A r \in Resources : <<o, r>> \in held => Owns(kind, mode, made, r)
  PROVE  Sound'
<1>1. Types'
  BY DEF Sound, Types, Becomes
<1>2. \A l \in Libraries : Cardinality(Guards(l))' = Cardinality(Guards(l))
  <2> SUFFICES ASSUME NEW l \in Libraries
               PROVE  Cardinality(Guards(l))' = Cardinality(Guards(l))
    OBVIOUS
  <2>1. Guards(l)' = Guards(l)
    BY GuardsStay DEF Sound
  <2> QED
    BY <2>1
<1>3. Counting' /\ Exact'
  BY <1>2, LibKept DEF Sound
<1>4. Shaped'
  BY ShapedBecomes DEF Sound
<1>5. Owners'
  BY OwnersBecome DEF Sound
<1> QED
  BY <1>1, <1>3, <1>4, <1>5 DEF Sound

\* A part that is no guard is made.
LEMMA MakeSound ==
  ASSUME Sound, NEW o \in Objects, Making(o), Part(o) \notin Libraries, Made(o), lib' = lib,
         held' \subseteq Objects \X Resources,
         \A p \in Objects : \A r \in Resources : <<p, r>> \in held' =>
           \/ <<p, r>> \in held
           \/ p = o /\ (r = Part(o) \/ (r = "fd" /\ Part(o) = "accept"))
  PROVE  Sound'
<1> DEFINE kind == obj[o].kind
           n    == obj[o].made
<1>1. Becomes(o, kind, "making", n + 1)
  BY MadeMeans DEF Sound, Making
<1>2. /\ n \in Nat /\ kind \in Kinds /\ n + 1 \in 1..Len(Plan[kind])
      /\ Part(o) = Plan[kind][n + 1] /\ Len(Plan[kind]) \in Nat
  BY PartMeans, AllPlanned, LifetimeAssumption DEF Sound, PlanOf, LifetimeAssumption, Planned
<1>3. Types'
  BY <1>1 DEF Sound, Types, Becomes
<1>4. \A l \in Libraries : Cardinality(Guards(l))' = Cardinality(Guards(l))
  <2> SUFFICES ASSUME NEW l \in Libraries
               PROVE  Cardinality(Guards(l))' = Cardinality(Guards(l))
    OBVIOUS
  <2>1. Cardinality(Guards(l))' = Cardinality(Guards(l)) + 0
    BY GuardsGrow DEF Sound
  <2> QED
    BY <2>1, GuardsFinite
<1>5. Counting' /\ Exact'
  BY <1>1, <1>4, LibKept DEF Sound, AtGuard
<1>6. Shaped'
  <2>1. Shape(kind, "making", n + 1)
    BY <1>2 DEF Shape
  <2> QED
    BY <1>1, <2>1, ShapedBecomes DEF Sound
<1>7. \A r \in Resources : <<o, r>> \in held' => Owns(kind, "making", n + 1, r)
  <2> SUFFICES ASSUME NEW r \in Resources, <<o, r>> \in held'
               PROVE  Owns(kind, "making", n + 1, r)
    OBVIOUS
  <2>1. CASE <<o, r>> \in held
    <3>1. Owns(kind, "making", n, r)
      BY <2>1 DEF Sound, Owners, Making
    <3>2. \A part : Has(kind, n, part) => Has(kind, n + 1, part)
      BY <1>2 DEF Has
    <3> QED
      BY <3>1, <3>2 DEF Owns
  <2>2. CASE r = Part(o) \/ (r = "fd" /\ Part(o) = "accept")
    <3>1. Has(kind, n + 1, Part(o))
      BY <1>2 DEF Has
    <3> QED
      BY <2>2, <3>1 DEF Owns
  <2> QED
    BY <2>1, <2>2
<1>8. Owners'
  <2>1. \A p \in Objects : \A r \in Resources : <<p, r>> \in held' =>
          IF p = o THEN Owns(kind, "making", n + 1, r) ELSE <<p, r>> \in held
    BY <1>7
  <2> HIDE DEF kind, n
  <2> QED
    BY <1>1, <2>1, OwnersBecome DEF Sound
<1> QED
  BY <1>3, <1>5, <1>6, <1>8 DEF Sound

\* A part that is no guard is destroyed, and releases what it owns.
LEMMA ReleaseSound ==
  ASSUME Sound, NEW o \in Objects, Release(o)
  PROVE  Sound'
<1> DEFINE kind == obj[o].kind
           mode == obj[o].mode
           n    == obj[o].made
<1>1. /\ Destroying(o) /\ Part(o) \notin Libraries /\ Unmade(o) /\ lib' = lib
      /\ held' = held \ ({o} \X Owned(Part(o)))
      /\ mode \in {"unwinding", "dying"} /\ n > 0
  BY DEF Release, Destroying
<1>2. Becomes(o, kind, mode, n - 1)
  BY <1>1, UnmadeMeans DEF Sound
<1>3. /\ n \in Nat /\ kind \in Kinds /\ n \in 1..Len(Plan[kind])
      /\ Part(o) = Plan[kind][n] /\ Len(Plan[kind]) \in Nat
  BY <1>1, PartMeans, AllPlanned, LifetimeAssumption DEF Sound, PlanOf, LifetimeAssumption, Planned
<1>4. Types'
  BY <1>1, <1>2 DEF Sound, Types, Becomes
<1>5. \A l \in Libraries : Cardinality(Guards(l))' = Cardinality(Guards(l))
  <2> SUFFICES ASSUME NEW l \in Libraries
               PROVE  Cardinality(Guards(l))' = Cardinality(Guards(l))
    OBVIOUS
  <2>1. Cardinality(Guards(l))' = Cardinality(Guards(l)) - 0
    BY <1>1, GuardsShrink DEF Sound
  <2> QED
    BY <2>1, GuardsFinite
<1>6. Counting' /\ Exact'
  BY <1>1, <1>2, <1>5, LibKept DEF Sound, AtGuard
<1>7. Shaped'
  <2>1. Shape(kind, mode, n - 1)
    BY <1>1, <1>3 DEF Shape
  <2> QED
    BY <1>2, <2>1, ShapedBecomes DEF Sound
<1>8. \A r \in Resources : <<o, r>> \in held' => Owns(kind, mode, n - 1, r)
  <2> SUFFICES ASSUME NEW r \in Resources, <<o, r>> \in held, r \notin Owned(Part(o))
               PROVE  Owns(kind, mode, n - 1, r)
    BY <1>1
  <2>1. Has(kind, n, r) \/ (r = "fd" /\ Has(kind, n, "adopt"))
    BY <1>1 DEF Sound, Owners, Owns
  <2>2. Part(o) # r /\ (r = "fd" => Part(o) # "adopt")
    BY DEF Owned, Resources
  <2>3. \A part : Has(kind, n, part) /\ Part(o) # part => Has(kind, n - 1, part)
    BY <1>3 DEF Has
  <2> QED
    BY <2>1, <2>2, <2>3 DEF Owns
<1>9. Owners'
  <2>1. \A p \in Objects : \A r \in Resources : <<p, r>> \in held' =>
          IF p = o THEN Owns(kind, mode, n - 1, r) ELSE <<p, r>> \in held
    BY <1>1, <1>8
  <2> HIDE DEF kind, mode, n
  <2> QED
    BY <1>2, <2>1, OwnersBecome DEF Sound
<1> QED
  BY <1>4, <1>6, <1>7, <1>9 DEF Sound

-------------------------------------------------------------------------------
(* The steps of UpdateInstanceCount. *)

\* Only l changes.
LibBecomes(l, mtx, prev, curr, up, failures) ==
  /\ lib' \in [Libraries -> Libs]
  /\ \A m \in Libraries : m # l => lib'[m] = lib[m]
  /\ lib'[l].mtx = mtx /\ lib'[l].prev = prev /\ lib'[l].curr = curr
  /\ lib'[l].up = up /\ lib'[l].failures = failures

\* The mutex is released by who holds it.
LEMMA CountingReleased ==
  ASSUME Sound, NEW o \in Objects, NEW kind, NEW mode, NEW made,
         Becomes(o, kind, mode, made),
         NEW l \in Libraries, lib[l].mtx = o,
         NEW prev, NEW curr, NEW up, NEW failures,
         LibBecomes(l, NoObject, prev, curr, up, failures)
  PROVE  Counting'
<1> SUFFICES ASSUME NEW m \in Libraries, NEW p \in Objects, lib'[m].mtx = p
             PROVE  /\ Making(p)' \/ Destroying(p)'
                    /\ Part(p)' = m
                    /\ lib'[m].curr = lib'[m].prev + (IF Making(p)' THEN 1 ELSE -1)
  BY DEF Counting
<1>1. m # l
  BY LifetimeAssumption DEF LibBecomes, LifetimeAssumption
<1>2. lib'[m] = lib[m]
  BY <1>1 DEF LibBecomes
<1>3. /\ Making(p) \/ Destroying(p)
      /\ Part(p) = m
      /\ lib[m].curr = lib[m].prev + (IF Making(p) THEN 1 ELSE -1)
  BY <1>2 DEF Sound, Counting
<1>4. Part(o) = l
  BY DEF Sound, Counting
<1>5. p # o
  BY <1>1, <1>3, <1>4
<1> QED
  BY <1>2, <1>3, <1>5, OthersAre

LEMMA ExactBecomes ==
  ASSUME Exact, NEW l \in Libraries,
         NEW mtx, NEW prev, NEW curr, NEW up, NEW failures,
         LibBecomes(l, mtx, prev, curr, up, failures),
         \A m \in Libraries : m # l => Cardinality(Guards(m))' = Cardinality(Guards(m)),
         NEW seen, seen = IF mtx = NoObject THEN curr ELSE prev,
         seen = Cardinality(Guards(l))' + failures,
         failures = 0 => (up <=> seen > 0)
  PROVE  Exact'
<1> SUFFICES ASSUME NEW m \in Libraries
             PROVE  /\ Seen(m)' = Cardinality(Guards(m))' + lib'[m].failures
                    /\ lib'[m].failures = 0 => (lib'[m].up <=> Seen(m)' > 0)
  BY DEF Exact
<1>1. CASE m = l
  <2>1. Seen(m)' = seen /\ lib'[m].failures = failures /\ lib'[m].up = up
    BY <1>1 DEF LibBecomes, Seen
  <2> QED
    BY <1>1, <2>1
<1>2. CASE m # l
  <2>1. lib'[m] = lib[m] /\ Cardinality(Guards(m))' = Cardinality(Guards(m))
    BY <1>2 DEF LibBecomes
  <2>2. Seen(m)' = Seen(m)
    BY <2>1 DEF Seen
  <2> QED
    BY <2>1, <2>2 DEF Exact
<1> QED
  BY <1>1, <1>2

\* A guard is made.
LEMMA GuardMade ==
  ASSUME Sound, NEW o \in Objects, NEW l \in Libraries, lib[l].mtx = o,
         Making(o), Made(o), held' = held,
         NEW up, LibBecomes(l, NoObject, lib[l].prev, lib[l].curr, up, lib[l].failures),
         lib[l].failures = 0 => up
  PROVE  Sound'
<1> DEFINE kind == obj[o].kind
           n    == obj[o].made
           c    == Cardinality(Guards(l))
<1>1. Becomes(o, kind, "making", n + 1)
  BY MadeMeans DEF Sound, Making
<1>2. /\ n \in Nat /\ kind \in Kinds /\ n + 1 \in 1..Len(Plan[kind]) /\ Len(Plan[kind]) \in Nat
  BY PartMeans, AllPlanned, LifetimeAssumption DEF Sound, PlanOf, LifetimeAssumption, Planned
<1>3. Part(o) = l /\ lib[l].curr = lib[l].prev + 1 /\ lib[l].mtx # NoObject
  BY LifetimeAssumption DEF Sound, Counting, LifetimeAssumption
<1>4. Types'
  BY <1>1 DEF Sound, Types, Becomes, LibBecomes
<1>5. Counting'
  BY <1>1, CountingReleased
<1>6. Exact'
  <2>1. /\ c \in Nat /\ Cardinality(Guards(l))' = c + 1
        /\ lib[l].prev = c + lib[l].failures /\ lib[l].failures \in Nat
    <3>1. c \in Nat
      BY GuardsFinite
    <3>2. Cardinality(Guards(l))' = c + 1
      BY <1>3, GuardsGrow DEF Sound
    <3>3. lib[l].prev = c + lib[l].failures
      BY <1>3 DEF Sound, Exact, Seen
    <3>4. lib[l].failures \in Nat
      BY DEF Sound, Types, Libs
    <3> QED
      BY <3>1, <3>2, <3>3, <3>4
  <2>2. \A m \in Libraries : m # l => Cardinality(Guards(m))' = Cardinality(Guards(m))
    <3> SUFFICES ASSUME NEW m \in Libraries, m # l
                 PROVE  Cardinality(Guards(m))' = Cardinality(Guards(m))
      OBVIOUS
    <3>1. Cardinality(Guards(m))' = Cardinality(Guards(m)) + 0
      BY <1>3, GuardsGrow DEF Sound
    <3> QED
      BY <3>1, GuardsFinite
  <2> HIDE DEF c
  <2>3. lib[l].curr = Cardinality(Guards(l))' + lib[l].failures /\ lib[l].curr > 0
    BY <1>3, <2>1
  <2> QED
    BY <2>2, <2>3, ExactBecomes DEF Sound
<1>7. Shaped'
  <2>1. Shape(kind, "making", n + 1)
    BY <1>2 DEF Shape
  <2> QED
    BY <1>1, <2>1, ShapedBecomes DEF Sound
<1>8. \A r \in Resources : <<o, r>> \in held => Owns(kind, "making", n + 1, r)
  <2> SUFFICES ASSUME NEW r \in Resources, <<o, r>> \in held
               PROVE  Owns(kind, "making", n + 1, r)
    OBVIOUS
  <2>1. Owns(kind, "making", n, r)
    BY DEF Sound, Owners, Making
  <2>2. \A part : Has(kind, n, part) => Has(kind, n + 1, part)
    BY <1>2 DEF Has
  <2> QED
    BY <2>1, <2>2 DEF Owns
<1>9. Owners'
  <2>1. \A p \in Objects : \A r \in Resources : <<p, r>> \in held' =>
          IF p = o THEN Owns(kind, "making", n + 1, r) ELSE <<p, r>> \in held
    BY <1>8
  <2> HIDE DEF kind, n
  <2> QED
    BY <1>1, <2>1, OwnersBecome DEF Sound
<1> QED
  BY <1>4, <1>5, <1>6, <1>7, <1>9 DEF Sound

\* A guard is destroyed.
LEMMA GuardDestroyed ==
  ASSUME Sound, NEW o \in Objects, NEW l \in Libraries, lib[l].mtx = o,
         ~Making(o), Unmade(o), held' = held,
         NEW up, LibBecomes(l, NoObject, lib[l].prev, lib[l].curr, up, lib[l].failures),
         lib[l].failures = 0 => (up <=> lib[l].curr > 0)
  PROVE  Sound'
<1> DEFINE kind == obj[o].kind
           mode == obj[o].mode
           n    == obj[o].made
           c    == Cardinality(Guards(l))
<1>1. Destroying(o) /\ Part(o) = l /\ lib[l].curr = lib[l].prev - 1 /\ lib[l].mtx # NoObject
  <2>1. Destroying(o) /\ Part(o) = l /\ lib[l].curr = lib[l].prev + (-1)
    BY DEF Sound, Counting
  <2>2. lib[l].prev \in Nat
    BY DEF Sound, Types, Libs
  <2> QED
    BY <2>1, <2>2, LifetimeAssumption DEF LifetimeAssumption
<1>2. n > 0 /\ mode \in {"unwinding", "dying"}
  BY <1>1 DEF Destroying
<1>3. Becomes(o, kind, mode, n - 1)
  BY <1>2, UnmadeMeans DEF Sound
<1>4. /\ n \in Nat /\ kind \in Kinds /\ n \in 1..Len(Plan[kind])
      /\ Part(o) = Plan[kind][n] /\ Len(Plan[kind]) \in Nat
  BY <1>1, PartMeans, AllPlanned, LifetimeAssumption DEF Sound, PlanOf, LifetimeAssumption, Planned
<1>5. Types'
  BY <1>3 DEF Sound, Types, Becomes, LibBecomes
<1>6. Counting'
  BY <1>3, CountingReleased
<1>7. Exact'
  <2>1. /\ c \in Nat /\ Cardinality(Guards(l))' = c - 1
        /\ lib[l].prev = c + lib[l].failures /\ lib[l].failures \in Nat
    <3>1. c \in Nat
      BY GuardsFinite
    <3>2. Cardinality(Guards(l))' = c - 1
      BY <1>1, GuardsShrink DEF Sound
    <3>3. lib[l].prev = c + lib[l].failures
      BY <1>1 DEF Sound, Exact, Seen
    <3>4. lib[l].failures \in Nat
      BY DEF Sound, Types, Libs
    <3> QED
      BY <3>1, <3>2, <3>3, <3>4
  <2>2. \A m \in Libraries : m # l => Cardinality(Guards(m))' = Cardinality(Guards(m))
    <3> SUFFICES ASSUME NEW m \in Libraries, m # l
                 PROVE  Cardinality(Guards(m))' = Cardinality(Guards(m))
      OBVIOUS
    <3>1. Cardinality(Guards(m))' = Cardinality(Guards(m)) - 0
      BY <1>1, GuardsShrink DEF Sound
    <3> QED
      BY <3>1, GuardsFinite
  <2> HIDE DEF c
  <2>3. lib[l].curr = Cardinality(Guards(l))' + lib[l].failures
    BY <1>1, <2>1
  <2> QED
    BY <2>2, <2>3, ExactBecomes DEF Sound
<1>8. Shaped'
  <2>1. Shape(kind, mode, n - 1)
    BY <1>2, <1>4 DEF Shape
  <2> QED
    BY <1>3, <2>1, ShapedBecomes DEF Sound
<1>9. \A r \in Resources : <<o, r>> \in held => Owns(kind, mode, n - 1, r)
  <2> SUFFICES ASSUME NEW r \in Resources, <<o, r>> \in held
               PROVE  Owns(kind, mode, n - 1, r)
    OBVIOUS
  <2>1. Has(kind, n, r) \/ (r = "fd" /\ Has(kind, n, "adopt"))
    BY <1>2 DEF Sound, Owners, Owns
  <2>2. Part(o) # r /\ Part(o) # "adopt"
    BY <1>1 DEF Resources, Libraries
  <2>3. \A part : Has(kind, n, part) /\ Part(o) # part => Has(kind, n - 1, part)
    BY <1>4 DEF Has
  <2> QED
    BY <2>1, <2>2, <2>3 DEF Owns
<1>10. Owners'
  <2>1. \A p \in Objects : \A r \in Resources : <<p, r>> \in held' =>
          IF p = o THEN Owns(kind, mode, n - 1, r) ELSE <<p, r>> \in held
    BY <1>9
  <2> HIDE DEF kind, mode, n
  <2> QED
    BY <1>3, <2>1, OwnersBecome DEF Sound
<1> QED
  BY <1>5, <1>6, <1>7, <1>8, <1>10 DEF Sound

-------------------------------------------------------------------------------
(* Each action. *)

\* An accepted descriptor is adopted before anything that needs it is made.
LEMMA AdoptFollows ==
  ASSUME NEW k \in DOMAIN Plan, NEW n \in Nat, n <= Len(Plan[k]), Has(k, n, "accept"),
         n < Len(Plan[k]) => Plan[k][n + 1] \notin {"winsock", "adopt"}
  PROVE  Has(k, n, "adopt")
<1> DEFINE p == Plan[k]
<1>1. PICK m \in Nat : Planned(p, m)
  BY AllPlanned
<1>2. PICK i \in 1..n : p[i] = "accept"
  BY DEF Has
<1>3. n < Len(p) => p[n + 1] \notin {"winsock", "adopt"}
  OBVIOUS
<1> HIDE DEF p
<1>4. Len(p) \in Nat /\ n <= Len(p) /\ i \in 1..Len(p)
  BY <1>1, <1>2 DEF Planned, p
<1>5. i + 2 <= Len(p) /\ p[i + 1] = "winsock" /\ p[i + 2] = "adopt"
  BY <1>1, <1>2, <1>4 DEF Planned
<1>6. i + 2 <= n
  <2>1. CASE n = i
    BY <1>3, <1>5, <2>1
  <2>2. CASE n = i + 1
    <3>1. p[n + 1] = "adopt" /\ n < Len(p)
      <4>1. n + 1 = i + 2
        BY <1>2, <2>2
      <4> QED
        BY <1>4, <1>5, <4>1
    <3> QED
      BY <1>3, <3>1
  <2> QED
    BY <1>2, <2>1, <2>2
<1>7. i + 2 \in 1..n
  BY <1>2, <1>6
<1> QED
  BY <1>5, <1>7 DEF Has, p

\* An object that does not exist has nothing, and no more has one without parts.
LEMMA NothingHeld ==
  ASSUME Sound, NEW o \in Objects, obj[o].made = 0, NEW r \in Resources
  PROVE  <<o, r>> \notin held
<1>1. \A part : ~Has(obj[o].kind, 0, part)
  BY DEF Has
<1> QED
  BY <1>1 DEF Sound, Owners, Owns

LEMMA ConstructSound ==
  ASSUME Sound, NEW o \in Objects, NEW kind \in Kinds, NEW a \in Objects \cup {NoObject},
         Construct(o, kind, a)
  PROVE  Sound'
<1>1. /\ obj[o].mode = "none" /\ UNCHANGED <<held, lib>>
      /\ obj' = [obj EXCEPT ![o] = [kind |-> kind, mode |-> "making", made |-> 0, from |-> a]]
  BY DEF Construct
<1>2. obj[o].made = 0 /\ ~AtGuard(o)
  BY <1>1 DEF Sound, Shaped, AtGuard, Making, Destroying
<1>3. Becomes(o, kind, "making", 0)
  BY <1>1 DEF Sound, Types, Objs, Modes, Becomes
<1>4. Shape(kind, "making", 0)
  <2>1. Len(Plan[kind]) \in Nat
    BY AllPlanned, LifetimeAssumption DEF LifetimeAssumption, Planned
  <2> QED
    BY <2>1 DEF Shape
<1>5. \A r \in Resources : <<o, r>> \notin held
  BY <1>2, NothingHeld
<1> QED
  BY <1>1, <1>2, <1>3, <1>4, <1>5, ModeSound

LEMMA GoneSound ==
  ASSUME Sound, NEW o \in Objects, Gone(o)
  PROVE  Sound'
<1>1. /\ obj[o].mode \in {"unwinding", "dying"} /\ obj[o].made = 0 /\ UNCHANGED <<held, lib>>
      /\ obj' = [obj EXCEPT ![o] = Nothing]
  BY DEF Gone
<1>2. ~AtGuard(o)
  BY <1>1 DEF AtGuard, Making, Destroying
<1>3. Becomes(o, "none", "none", 0)
  BY <1>1 DEF Sound, Types, Objs, Modes, Becomes, Nothing
<1>4. Shape("none", "none", 0)
  BY DEF Shape
<1>5. \A r \in Resources : <<o, r>> \notin held
  BY <1>1, NothingHeld
<1> QED
  BY <1>1, <1>2, <1>3, <1>4, <1>5, ModeSound

LEMMA ConstructedSound ==
  ASSUME Sound, NEW o \in Objects, Constructed(o)
  PROVE  Sound'
<1> DEFINE kind == obj[o].kind
           n    == obj[o].made
<1>1. /\ obj[o].mode = "making" /\ ~Making(o) /\ UNCHANGED <<held, lib>>
      /\ obj' = [obj EXCEPT ![o].mode = "alive", ![o].from = NoObject]
  BY DEF Constructed
<1>2. ~AtGuard(o)
  BY <1>1 DEF AtGuard, Destroying
<1>3. Becomes(o, kind, "alive", n)
  BY <1>1 DEF Sound, Types, Objs, Modes, Becomes
<1>4. kind \in Kinds /\ n \in Nat /\ Len(Plan[kind]) \in Nat /\ n = Len(Plan[kind])
  <2>1. kind \in Kinds /\ n \in Nat /\ n <= Len(Plan[kind])
    BY <1>1 DEF Sound, Types, Objs, Shaped, PlanOf
  <2>2. Len(Plan[kind]) \in Nat
    BY <2>1, AllPlanned, LifetimeAssumption DEF LifetimeAssumption, Planned
  <2>3. ~(n < Len(Plan[kind]))
    BY <1>1 DEF Making
  <2> QED
    BY <2>1, <2>2, <2>3
<1>5. Shape(kind, "alive", n)
  BY <1>4 DEF Shape
<1>6. \A r \in Resources : <<o, r>> \in held => Owns(kind, "alive", n, r)
  <2>1. Has(kind, n, "accept") => Has(kind, n, "adopt")
    BY <1>4, AdoptFollows, LifetimeAssumption DEF LifetimeAssumption
  <2> QED
    BY <2>1 DEF Sound, Owners, Owns
<1> HIDE DEF kind, n
<1> QED
  BY <1>1, <1>2, <1>3, <1>5, <1>6, ModeSound DEF kind, n

\* A living object is destroyed, by its destructor or by the stack.
LEMMA DestroyedSound ==
  ASSUME Sound, NEW o \in Objects, obj[o].mode = "alive", UNCHANGED <<held, lib>>,
         NEW mode \in {"dying", "unwinding"}, obj' = [obj EXCEPT ![o].mode = mode]
  PROVE  Sound'
<1> DEFINE kind == obj[o].kind
           n    == obj[o].made
<1>1. ~AtGuard(o)
  BY DEF AtGuard, Making, Destroying
<1>2. Becomes(o, kind, mode, n)
  BY DEF Sound, Types, Objs, Modes, Becomes
<1>3. Shape(kind, mode, n)
  BY DEF Sound, Shaped, Shape, PlanOf
<1>4. \A r \in Resources : <<o, r>> \in held => Owns(kind, mode, n, r)
  BY DEF Sound, Owners, Owns
<1> HIDE DEF kind, n
<1> QED
  BY <1>1, <1>2, <1>3, <1>4, ModeSound DEF kind, n

LEMMA DestroySound ==
  ASSUME Sound, NEW o \in Objects, Destroy(o) \/ BufferFails(o)
  PROVE  Sound'
BY DestroyedSound DEF Destroy, BufferFails

\* A constructor throws at a part that is no guard.
LEMMA ThrowsSound ==
  ASSUME Sound, NEW o \in Objects, Making(o), Part(o) \notin Libraries, Throws(o),
         UNCHANGED <<held, lib>>,
         Part(o) = "adopt" => <<o, "fd">> \notin held
  PROVE  Sound'
<1> DEFINE kind == obj[o].kind
           n    == obj[o].made
<1>1. ~AtGuard(o)
  BY DEF AtGuard, Making, Destroying
<1>2. Becomes(o, kind, "unwinding", n)
  BY ThrowsMeans DEF Sound
<1>3. /\ kind \in Kinds /\ n \in Nat /\ Len(Plan[kind]) \in Nat /\ n < Len(Plan[kind])
      /\ Part(o) = Plan[kind][n + 1]
  BY PartMeans, AllPlanned, LifetimeAssumption DEF Sound, PlanOf, LifetimeAssumption, Planned, Making
<1>4. Shape(kind, "unwinding", n)
  BY <1>3 DEF Shape
<1>5. \A r \in Resources : <<o, r>> \in held => Owns(kind, "unwinding", n, r)
  <2> SUFFICES ASSUME NEW r \in Resources, <<o, r>> \in held
               PROVE  Owns(kind, "unwinding", n, r)
    OBVIOUS
  <2>1. \/ Owns(kind, "unwinding", n, r)
        \/ r = "fd" /\ Has(kind, n, "accept")
    BY DEF Sound, Owners, Owns
  <2>2. Has(kind, n, "accept") /\ Part(o) # "adopt" => Has(kind, n, "adopt")
    BY <1>3, AdoptFollows, LifetimeAssumption DEF LifetimeAssumption, Libraries
  <2> QED
    BY <2>1, <2>2 DEF Owns
<1> HIDE DEF kind, n
<1> QED
  BY <1>1, <1>2, <1>4, <1>5, ModeSound DEF kind, n

LEMMA ResourcesAre ==
  /\ Resources \cap Libraries = {}
  /\ {"setup", "accept", "adopt", "freectx"} \cap (Libraries \cup Resources) = {}
  /\ "fd" \in Resources
BY DEF Resources, Libraries

LEMMA MakeFailsSound ==
  ASSUME Sound, NEW o \in Objects, MakeFails(o)
  PROVE  Sound'
<1>1. /\ Making(o) /\ Part(o) \in Resources \cup {"setup"} /\ Throws(o) /\ UNCHANGED <<held, lib>>
  BY DEF MakeFails
<1>2. Part(o) \notin Libraries /\ Part(o) # "adopt"
  BY <1>1, ResourcesAre
<1> QED
  BY <1>1, <1>2, ThrowsSound

LEMMA AcquireSound ==
  ASSUME Sound, NEW o \in Objects, Acquire(o)
  PROVE  Sound'
<1>1. /\ Making(o) /\ Part(o) \in Resources /\ Made(o) /\ lib' = lib
      /\ held' = held \cup {<<o, Part(o)>>}
  BY DEF Acquire
<1>2. Part(o) \notin Libraries
  BY <1>1, ResourcesAre
<1>3. held' \subseteq Objects \X Resources
  BY <1>1 DEF Sound, Types
<1> QED
  BY <1>1, <1>2, <1>3, MakeSound

LEMMA SetupSound ==
  ASSUME Sound, NEW o \in Objects, Setup(o)
  PROVE  Sound'
<1>1. Making(o) /\ Part(o) = "setup" /\ Made(o) /\ lib' = lib /\ held' = held
  BY DEF Setup
<1>2. Part(o) \notin Libraries
  BY <1>1, ResourcesAre
<1>3. held' \subseteq Objects \X Resources
  BY <1>1 DEF Sound, Types
<1> QED
  BY <1>1, <1>2, <1>3, MakeSound

LEMMA AcceptSound ==
  ASSUME Sound, NEW o \in Objects, Accept(o)
  PROVE  Sound'
<1>1. /\ Making(o) /\ Part(o) = "accept" /\ Made(o) /\ lib' = lib
      /\ held' = held \cup {<<o, "fd">>} \/ held' = held
  BY DEF Accept
<1>2. Part(o) \notin Libraries
  BY <1>1, ResourcesAre
<1>3. held' \subseteq Objects \X Resources
  BY <1>1, ResourcesAre DEF Sound, Types
<1> QED
  BY <1>1, <1>2, <1>3, MakeSound

LEMMA AdoptSound ==
  ASSUME Sound, NEW o \in Objects, Adopt(o)
  PROVE  Sound'
<1>1. /\ Making(o) /\ Part(o) = "adopt" /\ lib' = lib /\ held' = held
      /\ IF <<o, "fd">> \in held THEN Made(o) ELSE Throws(o)
  BY DEF Adopt
<1>2. Part(o) \notin Libraries
  BY <1>1, ResourcesAre
<1>3. held' \subseteq Objects \X Resources
  BY <1>1 DEF Sound, Types
<1>4. CASE <<o, "fd">> \in held
  BY <1>1, <1>2, <1>3, <1>4, MakeSound
<1>5. CASE <<o, "fd">> \notin held
  BY <1>1, <1>2, <1>5, ThrowsSound
<1> QED
  BY <1>4, <1>5

LEMMA FreeCtxSound ==
  ASSUME Sound, NEW o \in Objects, FreeCtx(o)
  PROVE  Sound'
<1>1. /\ Making(o) /\ Part(o) = "freectx" /\ Made(o) /\ lib' = lib
      /\ held' = held \ {<<o, "ctx">>}
  BY DEF FreeCtx
<1>2. Part(o) \notin Libraries
  BY <1>1, ResourcesAre
<1>3. held' \subseteq Objects \X Resources
  BY <1>1 DEF Sound, Types
<1> QED
  BY <1>1, <1>2, <1>3, MakeSound

LEMMA CountSound ==
  ASSUME Sound, NEW o \in Objects, NEW l \in Libraries, Count(o, l)
  PROVE  Sound'
<1> DEFINE d == IF Making(o) THEN 1 ELSE -1
<1>1. /\ Making(o) \/ Destroying(o)
      /\ Part(o) = l /\ lib[l].mtx = NoObject
      /\ lib' = [lib EXCEPT ![l].mtx = o, ![l].prev = lib[l].curr, ![l].curr = @ + d]
      /\ obj' = obj /\ held' = held
  BY DEF Count
<1>2. lib[l].curr = Cardinality(Guards(l)) + lib[l].failures
  BY <1>1 DEF Sound, Exact, Seen
<1>3. Cardinality(Guards(l)) \in Nat /\ lib[l].failures \in Nat /\ lib[l].curr \in Nat
  BY GuardsFinite DEF Sound, Types, Libs
<1>4. lib[l].curr + d \in Nat
  <2>1. CASE Making(o)
    BY <1>3, <2>1
  <2>2. CASE ~Making(o)
    <3>1. Destroying(o) /\ obj[o].made \in 1..obj[o].made /\ PlanOf(o)[obj[o].made] = l
      BY <1>1, <2>2, PartMeans DEF Sound
    <3>2. obj[o].mode # "none"
      BY <3>1 DEF Destroying
    <3>3. Cardinality(Guards(l)) > 0
      BY <3>1, <3>2, GuardCounted DEF Sound
    <3>4. lib[l].curr > 0
      BY <1>2, <1>3, <3>3
    <3> QED
      BY <1>3, <2>2, <3>4
  <2> QED
    BY <2>1, <2>2
<1>5. LibBecomes(l, o, lib[l].curr, lib[l].curr + d, lib[l].up, lib[l].failures)
  BY <1>1, <1>3, <1>4 DEF LibBecomes, Sound, Types, Libs
<1>6. Types'
  BY <1>1, <1>5 DEF Sound, Types, LibBecomes
<1>7. Shaped' /\ Owners'
  BY <1>1 DEF Sound, Shaped, Owners, PlanOf
<1>8. /\ \A p \in Objects : Part(p)' = Part(p) /\ (Making(p)' <=> Making(p))
                            /\ (Destroying(p)' <=> Destroying(p))
      /\ \A m \in Libraries : Cardinality(Guards(m))' = Cardinality(Guards(m))
  BY <1>1 DEF Part, Making, Destroying, Guards
<1>9. Counting'
  <2> SUFFICES ASSUME NEW m \in Libraries, NEW p \in Objects, lib'[m].mtx = p
               PROVE  /\ Making(p) \/ Destroying(p)
                      /\ Part(p) = m
                      /\ lib'[m].curr = lib'[m].prev + (IF Making(p) THEN 1 ELSE -1)
    BY <1>8 DEF Counting
  <2>1. CASE m = l
    BY <1>1, <1>5, <2>1 DEF LibBecomes
  <2>2. CASE m # l
    <3>1. lib'[m] = lib[m]
      BY <1>5, <2>2 DEF LibBecomes
    <3> QED
      BY <3>1 DEF Sound, Counting
  <2> QED
    BY <2>1, <2>2
<1>10. Exact'
  <2>1. o # NoObject
    BY LifetimeAssumption DEF LifetimeAssumption
  <2>2. lib[l].curr = Cardinality(Guards(l))' + lib[l].failures
    BY <1>2, <1>8
  <2>3. lib[l].failures = 0 => (lib[l].up <=> lib[l].curr > 0)
    BY <1>1 DEF Sound, Exact, Seen
  <2> HIDE DEF d
  <2> QED
    BY <1>5, <1>8, <2>1, <2>2, <2>3, ExactBecomes DEF Sound
<1> QED
  BY <1>6, <1>7, <1>9, <1>10 DEF Sound

\* What holds the mutex, and what it has counted.
LEMMA HolderMeans ==
  ASSUME Sound, NEW o \in Objects, NEW l \in Libraries, lib[l].mtx = o
  PROVE  /\ lib[l].mtx # NoObject
         /\ Part(o) = l
         /\ Making(o) => lib[l].curr = lib[l].prev + 1
         /\ ~Making(o) => Destroying(o) /\ lib[l].curr = lib[l].prev - 1
         /\ lib[l].prev = Cardinality(Guards(l)) + lib[l].failures
         /\ lib[l].failures = 0 => (lib[l].up <=> lib[l].prev > 0)
         /\ lib[l].prev \in Nat /\ lib[l].curr \in Nat /\ lib[l].failures \in Nat
<1>1. lib[l].prev \in Nat /\ lib[l].curr \in Nat /\ lib[l].failures \in Nat
  BY DEF Sound, Types, Libs
<1>2. /\ Part(o) = l
      /\ Making(o) \/ Destroying(o)
      /\ lib[l].curr = lib[l].prev + (IF Making(o) THEN 1 ELSE -1)
  BY DEF Sound, Counting
<1>3. lib[l].mtx # NoObject
  BY LifetimeAssumption DEF LifetimeAssumption
<1>4. Making(o) => lib[l].curr = lib[l].prev + 1
  BY <1>2
<1>5. ~Making(o) => Destroying(o) /\ lib[l].curr = lib[l].prev - 1
  <2> SUFFICES ASSUME ~Making(o) PROVE Destroying(o) /\ lib[l].curr = lib[l].prev - 1
    OBVIOUS
  <2>1. Destroying(o) /\ lib[l].curr = lib[l].prev + (-1)
    BY <1>2
  <2> QED
    BY <1>1, <2>1
<1>6. /\ lib[l].prev = Cardinality(Guards(l)) + lib[l].failures
      /\ lib[l].failures = 0 => (lib[l].up <=> lib[l].prev > 0)
  BY <1>3 DEF Sound, Exact, Seen
<1> QED
  BY <1>1, <1>2, <1>3, <1>4, <1>5, <1>6

LEMMA StartUpSound ==
  ASSUME Sound, NEW o \in Objects, NEW l \in Libraries, StartUp(o, l)
  PROVE  Sound'
<1>1. /\ lib[l].mtx = o /\ lib[l].prev = 0 /\ lib[l].curr = 1 /\ Made(o) /\ held' = held
      /\ lib' = [lib EXCEPT ![l].mtx = NoObject, ![l].up = TRUE]
  BY DEF StartUp
<1>2. Making(o)
  BY <1>1, HolderMeans
<1>3. LibBecomes(l, NoObject, lib[l].prev, lib[l].curr, TRUE, lib[l].failures)
  BY <1>1 DEF LibBecomes, Sound, Types, Libs
<1> QED
  BY <1>1, <1>2, <1>3, GuardMade

LEMMA CleanUpSound ==
  ASSUME Sound, NEW o \in Objects, NEW l \in Libraries, CleanUp(o, l)
  PROVE  Sound'
<1>1. /\ lib[l].mtx = o /\ lib[l].prev = 1 /\ lib[l].curr = 0 /\ Unmade(o) /\ held' = held
      /\ lib' = [lib EXCEPT ![l].mtx = NoObject, ![l].up = FALSE]
  BY DEF CleanUp
<1>2. ~Making(o)
  BY <1>1, HolderMeans
<1>3. LibBecomes(l, NoObject, lib[l].prev, lib[l].curr, FALSE, lib[l].failures)
  BY <1>1 DEF LibBecomes, Sound, Types, Libs
<1>4. lib[l].failures = 0 => (FALSE <=> lib[l].curr > 0)
  BY <1>1
<1> QED
  BY <1>1, <1>2, <1>3, <1>4, GuardDestroyed

LEMMA CountedSound ==
  ASSUME Sound, NEW o \in Objects, NEW l \in Libraries, Counted(o, l)
  PROVE  Sound'
<1>1. /\ lib[l].mtx = o /\ held' = held
      /\ ~(lib[l].prev = 0 /\ lib[l].curr = 1) /\ ~(lib[l].prev = 1 /\ lib[l].curr = 0)
      /\ lib' = [lib EXCEPT ![l].mtx = NoObject]
      /\ IF Making(o) THEN Made(o) ELSE Unmade(o)
  BY DEF Counted
<1>2. LibBecomes(l, NoObject, lib[l].prev, lib[l].curr, lib[l].up, lib[l].failures)
  BY <1>1 DEF LibBecomes, Sound, Types, Libs
<1>3. CASE Making(o)
  <2>1. lib[l].prev > 0
    BY <1>1, <1>3, HolderMeans
  <2>2. lib[l].failures = 0 => lib[l].up
    BY <1>1, <2>1, HolderMeans
  <2> QED
    BY <1>1, <1>2, <1>3, <2>2, GuardMade
<1>4. CASE ~Making(o)
  <2>1. lib[l].prev > 0 /\ lib[l].curr > 0
    BY <1>1, <1>4, HolderMeans
  <2>2. lib[l].failures = 0 => (lib[l].up <=> lib[l].curr > 0)
    BY <1>1, <2>1, HolderMeans
  <2> QED
    BY <1>1, <1>2, <1>4, <2>2, GuardDestroyed
<1> QED
  BY <1>3, <1>4

\* While an accepted socket is constructed, its acceptor has a guard.
LEMMA AcceptGuarded ==
  ASSUME Sound, Accepting, NEW o \in Objects,
         obj[o].mode = "making", obj[o].kind \in DOMAIN AcceptorOf
  PROVE  Cardinality(Guards("winsock")) > 0
<1>1. PICK a \in Objects : obj[a].mode = "alive" /\ obj[a].kind = AcceptorOf[obj[o].kind]
  BY DEF Accepting
<1>2. obj[a].kind = "acceptor" \/ obj[a].kind = "tlsAcceptor"
  BY <1>1 DEF AcceptorOf
<1>3. PlanOf(a)[1] = "winsock"
  <2>1. Plan["acceptor"][1] = "winsock"
    BY DEF Plan, SocketParts, Configured
  <2>2. Plan["tlsAcceptor"][1] = "winsock"
    BY DEF Plan, TlsAcceptorParts, SocketParts, Configured
  <2> QED
    BY <1>2, <2>1, <2>2 DEF PlanOf
<1>4. 1 \in 1..obj[a].made /\ obj[a].mode # "none"
  <2>1. obj[a].kind \in Kinds /\ obj[a].made = Len(PlanOf(a))
    BY <1>1 DEF Sound, Shaped
  <2>2. Len(PlanOf(a)) \in 1..7
    BY <2>1, AllPlanned, LifetimeAssumption DEF LifetimeAssumption, PlanOf, Planned
  <2>3. \A m \in 1..7 : 1 \in 1..m
    OBVIOUS
  <2>4. obj[a].mode # "none"
    BY <1>1
  <2> QED
    BY <2>1, <2>2, <2>3, <2>4, Zenon
<1> QED
  BY <1>3, <1>4, GuardCounted DEF Sound

\* Who has accepted a descriptor is of an accepted kind.
LEMMA AcceptedKind ==
  ASSUME NEW k \in DOMAIN Plan, NEW n \in Nat, n <= Len(Plan[k]), Has(k, n, "accept")
  PROVE  k \in DOMAIN AcceptorOf
<1>1. PICK m \in Nat : Planned(Plan[k], m)
  BY AllPlanned
<1>2. PICK i \in 1..n : Plan[k][i] = "accept"
  BY DEF Has
<1>3. i \in 1..Len(Plan[k])
  BY <1>1, <1>2 DEF Planned
<1>4. i = 1
  BY <1>1, <1>2, <1>3 DEF Planned
<1> QED
  BY <1>2, <1>4, FirstParts

LEMMA StartUpFailsSound ==
  ASSUME Sound, Accepting, NEW o \in Objects, NEW l \in Libraries, StartUpFails(o, l)
  PROVE  Sound'
<1> DEFINE kind == obj[o].kind
           n    == obj[o].made
           c    == Cardinality(Guards(l))
           f    == lib[l].failures
<1>1. /\ l = "winsock" /\ f < MaxFailures /\ Throws(o) /\ held' = held
      /\ lib[l].mtx = o /\ lib[l].prev = 0 /\ lib[l].curr = 1
      /\ lib' = [lib EXCEPT ![l].mtx = NoObject, ![l].failures = @ + 1]
  BY DEF StartUpFails
<1>2. Making(o) /\ Part(o) = l
  BY <1>1, HolderMeans
<1>3. c = 0 /\ f = 0
  <2>1. 0 = c + f /\ f \in Nat
    BY <1>1, HolderMeans
  <2>2. c \in Nat
    BY GuardsFinite
  <2> HIDE DEF c, f
  <2> QED
    BY <2>1, <2>2
<1>4. Becomes(o, kind, "unwinding", n)
  BY <1>1, ThrowsMeans DEF Sound
<1>5. LibBecomes(l, NoObject, lib[l].prev, lib[l].curr, lib[l].up, 1)
  BY <1>1, <1>3, LifetimeAssumption DEF LibBecomes, Sound, Types, Libs, LifetimeAssumption
<1>6. Types'
  BY <1>1, <1>4, <1>5 DEF Sound, Types, Becomes, LibBecomes
<1>7. Counting'
  BY <1>1, <1>4, <1>5, CountingReleased
<1>8. Shaped'
  <2>1. Shape(kind, "unwinding", n)
    BY <1>2 DEF Sound, Shaped, Shape, PlanOf, Making
  <2> QED
    BY <1>4, <2>1, ShapedBecomes DEF Sound
<1>9. Exact'
  <2>1. \A m \in Libraries : Guards(m)' = Guards(m)
    BY <1>4, GuardsStay DEF Sound
  <2>2. lib[l].curr = Cardinality(Guards(l))' + 1
    BY <1>1, <1>3, <2>1
  <2>3. \A m \in Libraries : m # l => Cardinality(Guards(m))' = Cardinality(Guards(m))
    BY <2>1
  <2> HIDE DEF c, f
  <2> QED
    BY <1>5, <2>2, <2>3, ExactBecomes DEF Sound
<1>10. \A r \in Resources : <<o, r>> \in held => Owns(kind, "unwinding", n, r)
  <2>1. ~Has(kind, n, "accept")
    <3>1. obj[o].mode = "making"
      BY <1>2 DEF Making
    <3>2. kind \in DOMAIN Plan /\ n \in Nat /\ n <= Len(Plan[kind])
      BY <3>1, LifetimeAssumption DEF LifetimeAssumption, Sound, Types, Objs, Shaped, PlanOf
    <3>3. kind \notin DOMAIN AcceptorOf
      BY <1>1, <1>3, <3>1, AcceptGuarded
    <3> QED
      BY <3>2, <3>3, AcceptedKind
  <2> QED
    BY <2>1 DEF Sound, Owners, Owns
<1>11. Owners'
  <2>1. \A p \in Objects : \A r \in Resources : <<p, r>> \in held' =>
          IF p = o THEN Owns(kind, "unwinding", n, r) ELSE <<p, r>> \in held
    BY <1>1, <1>10
  <2> HIDE DEF kind, n
  <2> QED
    BY <1>4, <2>1, OwnersBecome DEF Sound
<1> QED
  BY <1>6, <1>7, <1>8, <1>9, <1>11 DEF Sound

LEMMA UnchangedSound ==
  ASSUME Sound, UNCHANGED vars
  PROVE  Sound'
<1>1. obj' = obj /\ held' = held /\ lib' = lib
  BY DEF vars
<1>2. /\ \A p \in Objects : Part(p)' = Part(p) /\ (Making(p)' <=> Making(p))
                            /\ (Destroying(p)' <=> Destroying(p))
      /\ \A m \in Libraries : Guards(m)' = Guards(m) /\ Seen(m)' = Seen(m)
  BY <1>1 DEF Part, Making, Destroying, Guards, Seen
<1>3. Types' /\ Shaped' /\ Owners'
  BY <1>1 DEF Sound, Types, Shaped, Owners, PlanOf
<1>4. Counting'
  BY <1>1, <1>2 DEF Sound, Counting
<1>5. Exact'
  BY <1>1, <1>2 DEF Sound, Exact
<1> QED
  BY <1>3, <1>4, <1>5 DEF Sound

\* Nothing exists yet.
LEMMA InitSound == Init => Sound
<1> SUFFICES ASSUME Init PROVE Sound
  OBVIOUS
<1>1. obj = [o \in Objects |-> Nothing] /\ held = {}
  BY DEF Init
<1>2. lib = [l \in Libraries |->
        [mtx |-> NoObject, prev |-> 0, curr |-> 0, up |-> FALSE, failures |-> 0]]
  BY DEF Init
<1>3. MaxFailures \in Nat /\ \A o \in Objects : o # NoObject
  BY LifetimeAssumption DEF LifetimeAssumption
<1>4. Types
  BY <1>1, <1>2, <1>3 DEF Types, Objs, Libs, Modes, Nothing
<1>5. Shaped
  BY <1>1 DEF Shaped, Nothing
<1>6. Counting
  BY <1>2, <1>3 DEF Counting
<1>7. Exact
  <2> SUFFICES ASSUME NEW l \in Libraries
               PROVE  /\ Seen(l) = Cardinality(Guards(l)) + lib[l].failures
                      /\ lib[l].failures = 0 => (lib[l].up <=> Seen(l) > 0)
    BY DEF Exact
  <2>1. Seen(l) = 0 /\ lib[l].failures = 0 /\ lib[l].up = FALSE
    BY <1>2 DEF Seen
  <2>2. Guards(l) = {}
    BY <1>1 DEF Guards, Nothing
  <2>3. Cardinality({}) = 0
    BY FS_EmptySet
  <2> QED
    BY <2>1, <2>2, <2>3
<1>8. Owners
  BY <1>1 DEF Owners
<1> QED
  BY <1>4, <1>5, <1>6, <1>7, <1>8 DEF Sound

LEMMA SoundStep ==
  ASSUME Sound, Accepting, [Next]_vars
  PROVE  Sound'
<1>1. CASE UNCHANGED vars
  BY <1>1, UnchangedSound
<1>2. CASE Next
  <2>1. PICK o \in Objects :
          \/ \E kind \in Kinds, a \in Objects \cup {NoObject} : Construct(o, kind, a)
          \/ Constructed(o) \/ Destroy(o) \/ BufferFails(o) \/ Gone(o)
          \/ \E l \in Libraries : Update(o, l)
          \/ Acquire(o) \/ Setup(o) \/ MakeFails(o)
          \/ Accept(o) \/ Adopt(o) \/ FreeCtx(o) \/ Release(o)
    BY <1>2 DEF Next
  <2>2. ASSUME NEW kind \in Kinds, NEW a \in Objects \cup {NoObject}, Construct(o, kind, a)
        PROVE  Sound'
    BY <2>2, ConstructSound
  <2>3. ASSUME NEW l \in Libraries, Update(o, l)
        PROVE  Sound'
    BY <2>3, CountSound, StartUpSound, StartUpFailsSound, CleanUpSound, CountedSound DEF Update
  <2>4. CASE Constructed(o) \/ Destroy(o) \/ BufferFails(o) \/ Gone(o)
    BY <2>4, ConstructedSound, DestroySound, GoneSound
  <2>5. CASE Acquire(o) \/ Setup(o) \/ MakeFails(o)
    BY <2>5, AcquireSound, SetupSound, MakeFailsSound
  <2>6. CASE Accept(o) \/ Adopt(o) \/ FreeCtx(o) \/ Release(o)
    BY <2>6, AcceptSound, AdoptSound, FreeCtxSound, ReleaseSound
  <2> QED
    BY <2>1, <2>2, <2>3, <2>4, <2>5, <2>6
<1> QED
  BY <1>1, <1>2

\* One object changes: if it is accepted its acceptor is another, that is alive, and it
\* is no acceptor that others need.
LEMMA AcceptingBecomes ==
  ASSUME Accepting, NEW o \in Objects, \A p \in Objects : p # o => obj'[p] = obj[p],
         obj'[o].mode = "making" /\ obj'[o].kind \in DOMAIN AcceptorOf =>
           \E a \in Objects : /\ a # o /\ obj'[o].from = a /\ obj[a].mode = "alive"
                             /\ obj[a].kind = AcceptorOf[obj'[o].kind],
         \/ obj[o].mode # "alive"
         \/ obj[o].kind \notin {"acceptor", "tlsAcceptor"}
         \/ \A p \in Objects : obj[p].from # o
  PROVE  Accepting'
<1> SUFFICES ASSUME NEW p \in Objects, obj'[p].mode = "making",
                    obj'[p].kind \in DOMAIN AcceptorOf
             PROVE  \E a \in Objects : /\ obj'[p].from = a /\ obj'[a].mode = "alive"
                                      /\ obj'[a].kind = AcceptorOf[obj'[p].kind]
  BY DEF Accepting
<1>1. CASE p = o
  BY <1>1
<1>2. CASE p # o
  <2>1. obj'[p] = obj[p]
    BY <1>2
  <2>2. PICK a \in Objects : /\ obj[p].from = a /\ obj[a].mode = "alive"
                             /\ obj[a].kind = AcceptorOf[obj[p].kind]
    BY <2>1 DEF Accepting
  <2>3. AcceptorOf[obj[p].kind] \in {"acceptor", "tlsAcceptor"}
    BY <2>1 DEF AcceptorOf
  <2>4. a # o
    BY <2>2, <2>3
  <2> QED
    BY <2>1, <2>2, <2>4
<1> QED
  BY <1>1, <1>2

\* So it is as long as an object is made, destroyed or thrown away.
LEMMA AcceptingKept ==
  ASSUME Types, Accepting, NEW o \in Objects, obj[o].mode # "alive",
         Made(o) \/ Unmade(o) \/ Throws(o)
  PROVE  Accepting'
<1>1. \A p \in Objects : p # o => obj'[p] = obj[p]
  BY DEF Types, Made, Unmade, Throws
<1>2. /\ obj'[o].kind = obj[o].kind /\ obj'[o].from = obj[o].from
      /\ obj'[o].mode \in {obj[o].mode, "unwinding"}
  BY DEF Types, Objs, Made, Unmade, Throws
<1>3. obj'[o].mode = "making" /\ obj'[o].kind \in DOMAIN AcceptorOf =>
        \E a \in Objects : /\ a # o /\ obj'[o].from = a /\ obj[a].mode = "alive"
                          /\ obj[a].kind = AcceptorOf[obj'[o].kind]
  BY <1>2 DEF Accepting
<1> QED
  BY <1>1, <1>3, AcceptingBecomes

LEMMA AcceptingStep ==
  ASSUME Sound, Accepting, [Next]_vars
  PROVE  Accepting'
<1>1. CASE UNCHANGED vars
  BY <1>1 DEF vars, Accepting
<1>2. CASE Next
  <2>1. PICK o \in Objects :
          \/ \E kind \in Kinds, a \in Objects \cup {NoObject} : Construct(o, kind, a)
          \/ Constructed(o) \/ Destroy(o) \/ BufferFails(o) \/ Gone(o)
          \/ \E l \in Libraries : Update(o, l)
          \/ Acquire(o) \/ Setup(o) \/ MakeFails(o)
          \/ Accept(o) \/ Adopt(o) \/ FreeCtx(o) \/ Release(o)
    BY <1>2 DEF Next
  <2>2. Types /\ obj \in [Objects -> Objs]
    BY DEF Sound, Types
  <2>3. ASSUME NEW kind \in Kinds, NEW a \in Objects \cup {NoObject}, Construct(o, kind, a)
        PROVE  Accepting'
    <3>1. /\ obj[o].mode = "none"
          /\ obj' = [obj EXCEPT ![o] = [kind |-> kind, mode |-> "making", made |-> 0, from |-> a]]
      BY <2>3 DEF Construct
    <3>2. obj'[o].kind = kind /\ obj'[o].from = a /\ \A p \in Objects : p # o => obj'[p] = obj[p]
      BY <2>2, <3>1
    <3>3. kind \in DOMAIN AcceptorOf =>
            a \in Objects /\ a # o /\ obj[a].mode = "alive" /\ obj[a].kind = AcceptorOf[kind]
      BY <2>3, <3>1 DEF Construct
    <3> QED
      BY <3>1, <3>2, <3>3, AcceptingBecomes
  <2>4. ASSUME Constructed(o) \/ Destroy(o) \/ BufferFails(o) \/ Gone(o)
        PROVE  Accepting'
    <3>1. /\ \A p \in Objects : p # o => obj'[p] = obj[p]
          /\ obj'[o].mode # "making"
      BY <2>2, <2>4 DEF Constructed, Destroy, BufferFails, Gone, Nothing, Objs
    <3>2. \/ obj[o].mode # "alive"
          \/ obj[o].kind \notin {"acceptor", "tlsAcceptor"}
          \/ \A p \in Objects : obj[p].from # o
      BY <2>4 DEF Constructed, Destroy, BufferFails, Gone
    <3> QED
      BY <3>1, <3>2, AcceptingBecomes
  <2>5. ASSUME NEW l \in Libraries, Update(o, l)
        PROVE  Accepting'
    <3>1. CASE Count(o, l)
      BY <3>1 DEF Count, Accepting
    <3>2. CASE StartUp(o, l) \/ StartUpFails(o, l) \/ CleanUp(o, l) \/ Counted(o, l)
      <4>1. lib[l].mtx = o /\ (Made(o) \/ Unmade(o) \/ Throws(o))
        BY <3>2 DEF StartUp, StartUpFails, CleanUp, Counted
      <4>2. obj[o].mode # "alive"
        BY <4>1, HolderMeans DEF Making, Destroying
      <4> QED
        BY <2>2, <4>1, <4>2, AcceptingKept
    <3> QED
      BY <2>5, <3>1, <3>2 DEF Update
  <2>6. ASSUME \/ Acquire(o) \/ Setup(o) \/ MakeFails(o)
               \/ Accept(o) \/ Adopt(o) \/ FreeCtx(o) \/ Release(o)
        PROVE  Accepting'
    <3>1. Making(o) \/ Destroying(o)
      BY <2>6 DEF Acquire, Setup, MakeFails, Accept, Adopt, FreeCtx, Release
    <3>2. Made(o) \/ Unmade(o) \/ Throws(o)
      BY <2>6 DEF Acquire, Setup, MakeFails, Accept, Adopt, FreeCtx, Release
    <3>3. obj[o].mode # "alive"
      BY <3>1 DEF Making, Destroying
    <3> QED
      BY <2>2, <3>2, <3>3, AcceptingKept
  <2> QED
    BY <2>1, <2>3, <2>4, <2>5, <2>6
<1> QED
  BY <1>1, <1>2

\* The inductive invariant holds.
LEMMA AlwaysSound == Spec => [](Sound /\ Accepting)
<1>1. Init => Accepting
  BY DEF Init, Accepting, Nothing
<1>2. Sound /\ Accepting /\ [Next]_vars => (Sound /\ Accepting)'
  BY SoundStep, AcceptingStep
<1> QED
  BY InitSound, <1>1, <1>2, PTL DEF Spec

-------------------------------------------------------------------------------
(* The theorems. *)

\* The variables keep their types: in particular no object ever has more parts than
\* the longest plan.
THEOREM TypeCorrect == Spec => []TypeOK
<1>1. Sound => TypeOK
  <2> SUFFICES ASSUME Sound PROVE TypeOK
    OBVIOUS
  <2>1. \A o \in Objects : obj[o].made \in 0..7
    <3> SUFFICES ASSUME NEW o \in Objects PROVE obj[o].made \in 0..7
      OBVIOUS
    <3>1. obj[o].made \in Nat
      BY DEF Sound, Types, Objs
    <3>2. CASE obj[o].mode = "none"
      BY <3>2 DEF Sound, Shaped
    <3>3. CASE obj[o].mode # "none"
      <4>1. obj[o].kind \in Kinds /\ obj[o].made <= Len(PlanOf(o))
        BY <3>3 DEF Sound, Shaped
      <4>2. Len(PlanOf(o)) \in 1..7
        BY <4>1, AllPlanned, LifetimeAssumption DEF LifetimeAssumption, PlanOf, Planned
      <4> QED
        BY <3>1, <4>1, <4>2, AtMost
    <3> QED
      BY <3>2, <3>3
  <2>2. obj \in [Objects -> [kind : Kinds \cup {"none"}, mode : Modes, made : 0..7,
                             from : Objects \cup {NoObject}]]
    BY <2>1 DEF Sound, Types, Objs
  <2> QED
    BY <2>2 DEF Sound, Types, Libs, TypeOK
<1> QED
  BY AlwaysSound, <1>1, PTL

\* Whose library is called has made a guard of its own, or is accepted.
LEMMA CalledMeans ==
  ASSUME Sound, NEW o \in Objects, NEW l \in Called(o)
  PROVE  \/ obj[o].mode = "making" /\ obj[o].kind \in DOMAIN AcceptorOf /\ l = "winsock"
         \/ /\ obj[o].mode # "none"
            /\ \E j \in 1..obj[o].made : PlanOf(o)[j] = l
<1> DEFINE n == obj[o].made
<1>1. n \in Nat
  BY DEF Sound, Types, Objs
<1>2. ASSUME obj[o].mode # "none"
      PROVE  obj[o].kind \in DOMAIN Plan /\ n <= Len(PlanOf(o)) /\ Len(PlanOf(o)) \in Nat
  <2>1. obj[o].kind \in Kinds /\ n <= Len(PlanOf(o))
    BY <1>2 DEF Sound, Shaped
  <2> QED
    BY <2>1, AllPlanned, LifetimeAssumption DEF LifetimeAssumption, Planned, PlanOf
<1>3. ASSUME obj[o].mode # "none", NEW i \in 1..Len(PlanOf(o)), i <= n + 1,
             PlanOf(o)[i] \notin Libraries, PlanOf(o)[i] # "accept", Library(PlanOf(o)[i]) = l
      PROVE  \E j \in 1..n : PlanOf(o)[j] = l
  <2>1. PICK j \in 1..i - 1 : PlanOf(o)[j] = l
    BY <1>2, <1>3, GuardBefore DEF PlanOf
  <2>2. j \in 1..n
    BY <1>1, <1>2, <1>3, <2>1
  <2> QED
    BY <2>1, <2>2
<1>4. ASSUME obj[o].mode = "making", NEW m \in Nat, m <= Len(PlanOf(o)),
             Has(obj[o].kind, m, "accept"), l = "winsock"
      PROVE  obj[o].kind \in DOMAIN AcceptorOf
  BY <1>2, <1>4, AcceptedKind DEF PlanOf
<1>5. CASE Making(o) /\ l = Library(Part(o)) /\ Part(o) \notin Libraries
  <2>1. obj[o].mode = "making" /\ obj[o].mode # "none"
    BY <1>5 DEF Making
  <2>2. n + 1 \in 1..Len(PlanOf(o)) /\ Part(o) = PlanOf(o)[n + 1]
    BY <1>5, PartMeans DEF Sound
  <2>3. CASE Part(o) = "accept"
    <3>1. Has(obj[o].kind, n + 1, "accept")
      <4>1. n + 1 \in 1..n + 1 /\ Plan[obj[o].kind][n + 1] = "accept"
        BY <1>1, <2>2, <2>3 DEF PlanOf
      <4> HIDE DEF n
      <4> QED
        BY <4>1, Zenon DEF Has
    <3>2. l = "winsock"
      BY <1>5, <2>3 DEF Library
    <3>3. n + 1 \in Nat /\ n + 1 <= Len(PlanOf(o))
      BY <1>1, <1>2, <2>1, <2>2
    <3> QED
      BY <1>4, <2>1, <3>1, <3>2, <3>3
  <2>4. CASE Part(o) # "accept"
    BY <1>1, <1>3, <1>5, <2>1, <2>2, <2>4
  <2> QED
    BY <2>3, <2>4
<1>6. ASSUME NEW r \in Resources, <<o, r>> \in held, l = Library(r)
      PROVE  \/ obj[o].mode = "making" /\ obj[o].kind \in DOMAIN AcceptorOf /\ l = "winsock"
             \/ obj[o].mode # "none" /\ \E j \in 1..n : PlanOf(o)[j] = l
  <2>1. Owns(obj[o].kind, obj[o].mode, n, r)
    BY <1>6 DEF Sound, Owners
  <2>2. obj[o].mode # "none"
    BY <1>1, <2>1 DEF Sound, Shaped, Owns, Has
  <2>3. CASE obj[o].mode = "making" /\ r = "fd" /\ Has(obj[o].kind, n, "accept")
    <3>1. l = "winsock"
      BY <1>6, <2>3 DEF Library
    <3> QED
      BY <1>1, <1>2, <1>4, <2>2, <2>3, <3>1
  <2>4. CASE Has(obj[o].kind, n, r) \/ (r = "fd" /\ Has(obj[o].kind, n, "adopt"))
    <3>1. PICK part \in {r, "adopt"} :
            /\ Has(obj[o].kind, n, part) /\ Library(part) = l
            /\ part \notin Libraries /\ part # "accept"
      BY <1>6, <2>4, ResourcesAre DEF Library
    <3>2. PICK i \in 1..n : PlanOf(o)[i] = part
      BY <3>1 DEF Has, PlanOf
    <3>3. i \in 1..Len(PlanOf(o)) /\ i <= n + 1
      BY <1>1, <1>2, <2>2, <3>2
    <3> QED
      BY <1>3, <2>2, <3>1, <3>2, <3>3
  <2> QED
    BY <2>1, <2>3, <2>4 DEF Owns
<1>7. \/ Making(o) /\ l = Library(Part(o)) /\ Part(o) \notin Libraries
      \/ \E r \in Resources : <<o, r>> \in held /\ l = Library(r)
  BY DEF Called
<1> QED
  BY <1>5, <1>6, <1>7

\* No constructor and no object ever calls a library that is not initialised, but after
\* a failed start-up.
THEOREM LibrariesInitialised == Spec => []Initialised
<1>1. Sound /\ Accepting => Initialised
  <2> SUFFICES ASSUME Sound, Accepting, NEW o \in Objects, NEW l \in Called(o)
               PROVE  lib[l].up \/ lib[l].failures > 0
    BY DEF Initialised
  <2>1. Cardinality(Guards(l)) > 0
    <3>1. CASE obj[o].mode = "making" /\ obj[o].kind \in DOMAIN AcceptorOf /\ l = "winsock"
      BY <3>1, AcceptGuarded
    <3>2. CASE obj[o].mode # "none" /\ \E j \in 1..obj[o].made : PlanOf(o)[j] = l
      BY <3>2, GuardCounted DEF Sound
    <3> QED
      BY <3>1, <3>2, CalledMeans
  <2>2. l \in Libraries
    BY DEF Called, Library, Libraries
  <2>3. lib[l].failures \in Nat /\ Cardinality(Guards(l)) \in Nat
    BY <2>2, GuardsFinite DEF Sound, Types, Libs
  <2>4. lib[l].failures = 0 => Seen(l) > 0
    BY <2>1, <2>2, <2>3 DEF Sound, Exact
  <2> QED
    BY <2>2, <2>3, <2>4 DEF Sound, Exact
<1> QED
  BY AlwaysSound, <1>1, PTL

\* An object that is gone has left nothing, and the counts are those of the guards.
THEOREM NoLeaks == Spec => []NothingLeaks
<1>1. Sound => NothingLeaks
  <2> SUFFICES ASSUME Sound PROVE NothingLeaks
    OBVIOUS
  <2>1. ASSUME NEW o \in Objects, obj[o].mode = "none", NEW r \in Resources
        PROVE  <<o, r>> \notin held
    BY <2>1, NothingHeld DEF Sound, Shaped
  <2>2. ASSUME NEW l \in Libraries, lib[l].mtx = NoObject
        PROVE  /\ lib[l].curr = Cardinality(Guards(l)) + lib[l].failures
               /\ lib[l].failures = 0 => (lib[l].up <=> lib[l].curr > 0)
    BY <2>2 DEF Sound, Exact, Seen
  <2> QED
    BY <2>1, <2>2 DEF NothingLeaks
<1> QED
  BY AlwaysSound, <1>1, PTL
===============================================================================
