---------------------------- MODULE Registry_proofs ----------------------------
(***************************************************************************)
(* Proofs about Registry, for any objects, descriptors and bounds.         *)
(*                                                                         *)
(* The two vectors are searched by descriptor, so everything rests on      *)
(* Descriptors: the objects that have a descriptor have different ones,    *)
(* however the system hands out those that were closed.  With it, a search *)
(* finds the object's own entries or, when it was unregistered before,     *)
(* none at all (EraseOwn), and erasing them keeps the vectors aligned.     *)
(***************************************************************************)
EXTENDS Registry, SequenceTheorems, TLAPS

USE LimitsAssumption, NoFdAssumption DEF LimitsAssumption, NoFdAssumption

Pollfds == [fd : Fds, out : BOOLEAN]
Events  == {"POLLIN", "POLLOUT", "POLLERR", "POLLHUP", "POLLNVAL"}

\* Descriptors belong to the objects that have not closed theirs, one to each.
Descriptors == /\ \A o \in Objects : stage[o] \in HasFd <=> fd[o] # NoFd
               /\ \A o, p \in Objects : fd[o] = fd[p] /\ fd[o] # NoFd => o = p

\* What is queued has been sent, what waits has arrived, and neither before an
\* object is registered with the driver or connected; only connections end.
Traffic == \A o \in Objects : /\ unsent[o] <= sends
                              /\ inbound[o] <= arrived
                              /\ stage[o] \in {"new", "open"} => unsent[o] = 0
                              /\ o \notin Tcp => peer[o] # "closed"

\* What poll reported holds until it is served: the sockets are those that it was
\* given, a request to write stands, and a connection that waits is not forgotten.
Reported ==
  driver = "ready" =>
    /\ Len(revents) = Len(sockets)
    /\ \A i \in DOMAIN sockets :
         /\ "POLLOUT" \in revents[i] => pfds[i].out
         /\ sockets[i] \in Acceptors /\ "POLLIN" \in revents[i] => inbound[sockets[i]] > 0

\* The inductive invariant.
Consistent == /\ TypeOK
              /\ Descriptors
              /\ Traffic
              /\ Aligned
              /\ LiveIffRegistered
              /\ RequestsMatch
              /\ Reported
              /\ NeverUnhandled

-------------------------------------------------------------------------------
(* Sequences. *)

\* q without its n-th element.
LEMMA EraseNth ==
  ASSUME NEW S, NEW q \in Seq(S), NEW n \in 1..Len(q)
  PROVE  LET r == SubSeq(q, 1, n - 1) \o SubSeq(q, n + 1, Len(q))
         IN  /\ r \in Seq(S)
             /\ Len(r) = Len(q) - 1
             /\ \A i \in 1..Len(q) - 1 : r[i] = IF i < n THEN q[i] ELSE q[i + 1]
<1> DEFINE a == SubSeq(q, 1, n - 1)
           b == SubSeq(q, n + 1, Len(q))
<1>1. Len(q) \in Nat /\ n \in Nat
  BY LenProperties
<1>2. /\ a \in Seq(S)
      /\ Len(a) = n - 1
      /\ \A i \in 1..n - 1 : a[i] = q[i]
  BY <1>1, LenProperties, SubSeqProperties
<1>3. /\ b \in Seq(S)
      /\ Len(b) = Len(q) - n
      /\ \A i \in 1..Len(q) - n : b[i] = q[n + i]
  BY <1>1, LenProperties, SubSeqProperties
<1> HIDE DEF a, b
<1>4. /\ a \o b \in Seq(S)
      /\ Len(a \o b) = Len(q) - 1
      /\ \A i \in 1..Len(q) - 1 : (a \o b)[i] = IF i <= n - 1 THEN a[i] ELSE b[i - (n - 1)]
  <2>1. /\ a \o b \in Seq(S)
        /\ Len(a \o b) = Len(a) + Len(b)
        /\ \A i \in 1..Len(a) + Len(b) :
             (a \o b)[i] = IF i <= Len(a) THEN a[i] ELSE b[i - Len(a)]
    BY <1>2, <1>3, ConcatProperties, Zenon
  <2>2. Len(a) = n - 1 /\ Len(a) + Len(b) = Len(q) - 1
    BY <1>1, <1>2, <1>3
  <2> QED
    BY <2>1, <2>2, Zenon
<1>5. \A i \in 1..Len(q) - 1 : (a \o b)[i] = IF i < n THEN q[i] ELSE q[i + 1]
  <2> SUFFICES ASSUME NEW i \in 1..Len(q) - 1
               PROVE  (a \o b)[i] = IF i < n THEN q[i] ELSE q[i + 1]
    OBVIOUS
  <2>1. CASE i < n
    BY <1>1, <1>2, <1>4, <2>1
  <2>2. CASE ~(i < n)
    <3>1. i - (n - 1) \in 1..Len(q) - n
      BY <1>1, <2>2
    <3>2. b[i - (n - 1)] = q[n + (i - (n - 1))]
      BY <1>3, <3>1
    <3>3. n + (i - (n - 1)) = i + 1
      BY <1>1
    <3> QED
      BY <1>1, <1>4, <2>2, <3>2, <3>3
  <2> QED
    BY <2>1, <2>2
<1> QED
  BY <1>4, <1>5 DEF a, b

\* What a search that finds nothing, or one place only, leaves.
LEMMA WithoutFirstOf ==
  ASSUME NEW S, NEW q \in Seq(S)
  PROVE  /\ WithoutFirst(q, {}) = q
         /\ \A n \in 1..Len(q) :
              WithoutFirst(q, {n}) = SubSeq(q, 1, n - 1) \o SubSeq(q, n + 1, Len(q))
<1>1. ASSUME NEW n \in 1..Len(q)
      PROVE  (CHOOSE i \in {n} : \A j \in {n} : i <= j) = n
  <2>1. n <= n
    BY LenProperties
  <2> QED
    BY <2>1
<1> QED
  BY <1>1 DEF WithoutFirst

\* Records built for every place of a vector are a vector.
LEMMA MappedSeq ==
  ASSUME NEW S, NEW n \in Nat, NEW f \in [1..n -> S]
  PROVE  f \in Seq(S) /\ Len(f) = n /\ DOMAIN f = 1..n
BY SeqDef, LenProperties

-------------------------------------------------------------------------------
(* Counters. *)

\* One less of something that there is.
LEMMA OneLess ==
  ASSUME NEW S, NEW n \in Nat, NEW c \in [S -> 0..n], NEW o \in S, c[o] > 0,
         NEW d, d = [c EXCEPT ![o] = @ - 1]
  PROVE  /\ d \in [S -> 0..n]
         /\ \A p \in S : d[p] = IF p = o THEN c[o] - 1 ELSE c[p]
         /\ \A p \in S : d[p] <= c[p]
<1>1. \A p \in S : c[p] \in 0..n
  OBVIOUS
<1>2. c[o] - 1 \in 0..n /\ c[o] - 1 <= c[o]
  BY <1>1
<1>3. \A p \in S : d[p] = IF p = o THEN c[o] - 1 ELSE c[p]
  OBVIOUS
<1>4. \A p \in S : d[p] <= c[p]
  BY <1>1, <1>2, <1>3
<1> QED
  BY <1>2, <1>3, <1>4

\* One more of something below its limit.
LEMMA OneMore ==
  ASSUME NEW S, NEW n \in Nat, NEW c \in [S -> 0..n], NEW o \in S, c[o] < n,
         NEW d, d = [c EXCEPT ![o] = @ + 1]
  PROVE  d \in [S -> 0..n]
<1>1. c[o] \in 0..n
  OBVIOUS
<1>2. c[o] + 1 \in 0..n
  BY <1>1
<1> QED
  BY <1>2

\* What is left alone has not grown.
LEMMA Untouched ==
  ASSUME Consistent
  PROVE  \A o \in Objects : unsent[o] <= unsent[o] /\ inbound[o] <= inbound[o]
<1>1. \A o \in Objects : unsent[o] \in 0..MaxSends /\ inbound[o] \in 0..MaxArrivals
  BY DEF Consistent, TypeOK
<1> QED
  BY <1>1

-------------------------------------------------------------------------------
(* Searching and erasing by descriptor. *)

\* The place of a registered object is the only one with its descriptor.
LEMMA FoundOnce ==
  ASSUME Consistent, NEW n \in DOMAIN sockets
  PROVE  /\ sockets[n] \in Objects
         /\ stage[sockets[n]] = "live"
         /\ fd[sockets[n]] \in Fds
         /\ n \in DOMAIN pfds
         /\ pfds[n].fd = fd[sockets[n]]
         /\ SocketsWith(fd[sockets[n]]) = {n}
         /\ PfdsWith(fd[sockets[n]]) = {n}
<1>1. /\ DOMAIN sockets = 1..Len(sockets)
      /\ DOMAIN pfds = DOMAIN sockets
      /\ \A i \in DOMAIN sockets : sockets[i] \in Objects
  BY DEF Consistent, TypeOK, Aligned
<1>2. \A i \in DOMAIN sockets : stage[sockets[i]] = "live" /\ fd[sockets[i]] \in Fds
  <2> SUFFICES ASSUME NEW i \in DOMAIN sockets
               PROVE  stage[sockets[i]] = "live" /\ fd[sockets[i]] \in Fds
    OBVIOUS
  <2>1. sockets[i] \in Objects /\ stage[sockets[i]] = "live"
    BY <1>1 DEF Consistent, LiveIffRegistered
  <2>2. fd[sockets[i]] # NoFd
    BY <2>1 DEF Consistent, Descriptors, HasFd
  <2>3. fd[sockets[i]] \in Fds \cup {NoFd}
    BY <2>1 DEF Consistent, TypeOK
  <2> QED
    BY <2>1, <2>2, <2>3
<1>3. \A i \in DOMAIN sockets : fd[sockets[i]] = fd[sockets[n]] => i = n
  BY <1>1, <1>2 DEF Consistent, Descriptors, LiveIffRegistered
<1>4. SocketsWith(fd[sockets[n]]) = {n}
  BY <1>3 DEF SocketsWith
<1>5. PfdsWith(fd[sockets[n]]) = {n}
  BY <1>1, <1>3 DEF PfdsWith, Consistent, Aligned
<1> QED
  BY <1>1, <1>2, <1>4, <1>5 DEF Consistent, Aligned

\* An object that has a descriptor and is not live is not found.
LEMMA FoundNever ==
  ASSUME Consistent, NEW o \in Objects, stage[o] \in HasFd, stage[o] # "live"
  PROVE  SocketsWith(fd[o]) = {} /\ PfdsWith(fd[o]) = {}
<1>1. \A i \in DOMAIN sockets : fd[sockets[i]] # fd[o]
  <2> SUFFICES ASSUME NEW i \in DOMAIN sockets, fd[sockets[i]] = fd[o] PROVE FALSE
    OBVIOUS
  <2>1. sockets[i] \in Objects /\ stage[sockets[i]] = "live" /\ fd[sockets[i]] \in Fds
    BY FoundOnce
  <2> QED
    BY <2>1 DEF Consistent, Descriptors
<1>2. DOMAIN pfds = DOMAIN sockets
  BY DEF Consistent, TypeOK, Aligned
<1> QED
  BY <1>1, <1>2 DEF SocketsWith, PfdsWith, Consistent, Aligned

\* Erasing an object's descriptor takes the object and its pollfd, and nothing else.
LEMMA EraseOwn ==
  ASSUME Consistent, NEW n \in DOMAIN sockets, Erase(fd[sockets[n]])
  PROVE  /\ sockets' \in Seq(Objects)
         /\ pfds' \in Seq(Pollfds)
         /\ Len(sockets') = Len(sockets) - 1
         /\ Len(pfds') = Len(sockets) - 1
         /\ \A i \in 1..Len(sockets) - 1 :
              /\ sockets'[i] = IF i < n THEN sockets[i] ELSE sockets[i + 1]
              /\ pfds'[i] = IF i < n THEN pfds[i] ELSE pfds[i + 1]
<1>1. sockets \in Seq(Objects) /\ pfds \in Seq(Pollfds) /\ Len(pfds) = Len(sockets)
  BY DEF Consistent, TypeOK, Aligned, Pollfds
<1>2. n \in 1..Len(sockets) /\ n \in 1..Len(pfds)
  BY <1>1, LenProperties
<1>3. /\ sockets' = SubSeq(sockets, 1, n - 1) \o SubSeq(sockets, n + 1, Len(sockets))
      /\ pfds' = SubSeq(pfds, 1, n - 1) \o SubSeq(pfds, n + 1, Len(pfds))
  BY <1>1, <1>2, FoundOnce, WithoutFirstOf, Zenon DEF Erase
<1>4. /\ sockets' \in Seq(Objects)
      /\ Len(sockets') = Len(sockets) - 1
      /\ \A i \in 1..Len(sockets) - 1 : sockets'[i] = IF i < n THEN sockets[i] ELSE sockets[i + 1]
  BY <1>1, <1>2, <1>3, EraseNth, Zenon
<1>5. /\ pfds' \in Seq(Pollfds)
      /\ Len(pfds') = Len(pfds) - 1
      /\ \A i \in 1..Len(pfds) - 1 : pfds'[i] = IF i < n THEN pfds[i] ELSE pfds[i + 1]
  BY <1>1, <1>2, <1>3, EraseNth, Zenon
<1> QED
  BY <1>1, <1>4, <1>5

\* Unregistering an object, whether the driver still knows it or not, leaves vectors
\* that are aligned and hold the live objects with their requests.
LEMMA EraseKeeps ==
  ASSUME Consistent, NEW o \in Objects, stage[o] \in {"live", "disconnected"},
         Erase(fd[o]), NEW s \in {"disconnected", "dying"},
         stage' = [stage EXCEPT ![o] = s], fd' = fd, unsent' = unsent
  PROVE  /\ sockets' \in Seq(Objects) /\ pfds' \in Seq(Pollfds)
         /\ Aligned' /\ LiveIffRegistered' /\ RequestsMatch'
<1>1. /\ sockets \in Seq(Objects) /\ pfds \in Seq(Pollfds)
      /\ Len(sockets) \in Nat /\ Len(pfds) = Len(sockets)
      /\ DOMAIN sockets = 1..Len(sockets)
  BY LenProperties DEF Consistent, TypeOK, Aligned, Pollfds
<1>2. \A p \in Objects : stage'[p] = IF p = o THEN s ELSE stage[p]
  BY DEF Consistent, TypeOK
<1>3. CASE stage[o] = "disconnected"
  <2>1. SocketsWith(fd[o]) = {} /\ PfdsWith(fd[o]) = {}
    BY <1>3, FoundNever DEF HasFd
  <2>2. sockets' = sockets /\ pfds' = pfds
    BY <1>1, <2>1, WithoutFirstOf, Zenon DEF Erase
  <2>3. Aligned' /\ RequestsMatch'
    BY <2>2 DEF Consistent, Aligned, RequestsMatch
  <2>4. \A p \in Objects : stage'[p] = "live" <=> stage[p] = "live"
    BY <1>2, <1>3
  <2>5. LiveIffRegistered'
    BY <2>2, <2>4, Zenon DEF Consistent, LiveIffRegistered
  <2> QED
    BY <1>1, <2>2, <2>3, <2>5
<1>4. CASE stage[o] = "live"
  <2>1. PICK n \in DOMAIN sockets : sockets[n] = o
    BY <1>4 DEF Consistent, LiveIffRegistered
  <2>2. /\ sockets' \in Seq(Objects)
        /\ pfds' \in Seq(Pollfds)
        /\ Len(sockets') = Len(sockets) - 1
        /\ Len(pfds') = Len(sockets) - 1
        /\ \A i \in 1..Len(sockets) - 1 :
             /\ sockets'[i] = IF i < n THEN sockets[i] ELSE sockets[i + 1]
             /\ pfds'[i] = IF i < n THEN pfds[i] ELSE pfds[i + 1]
    BY <2>1, EraseOwn
  <2>3. DOMAIN sockets' = 1..Len(sockets) - 1
    BY <2>2, LenProperties
  <2> DEFINE Was(i) == IF i < n THEN i ELSE i + 1
  <2>4. \A i \in DOMAIN sockets' : /\ Was(i) \in DOMAIN sockets \ {n}
                                   /\ sockets'[i] = sockets[Was(i)]
                                   /\ pfds'[i] = pfds[Was(i)]
    BY <1>1, <2>1, <2>2, <2>3
  <2>5. \A j \in DOMAIN sockets \ {n} : \E i \in DOMAIN sockets' : Was(i) = j
    <3> SUFFICES ASSUME NEW j \in DOMAIN sockets \ {n}
                 PROVE  \E i \in DOMAIN sockets' : Was(i) = j
      OBVIOUS
    <3>1. CASE j < n
      BY <1>1, <2>3, <3>1
    <3>2. CASE ~(j < n)
      <4>1. j - 1 \in DOMAIN sockets' /\ Was(j - 1) = j
        BY <1>1, <2>3, <3>2
      <4> QED
        BY <4>1
    <3> QED
      BY <3>1, <3>2
  <2>6. \A i, j \in DOMAIN sockets' : Was(i) = Was(j) => i = j
    BY <1>1, <2>1, <2>3
  <2> HIDE DEF Was
  <2>7. Aligned'
    <3>1. Len(sockets') = Len(pfds')
      BY <2>2
    <3>2. \A j \in DOMAIN sockets : pfds[j].fd = fd[sockets[j]]
      BY DEF Consistent, Aligned
    <3>3. ASSUME NEW i \in DOMAIN sockets' PROVE pfds'[i].fd = fd[sockets'[i]]
      <4>1. /\ Was(i) \in DOMAIN sockets
            /\ sockets'[i] = sockets[Was(i)] /\ pfds'[i] = pfds[Was(i)]
        BY <2>4, <3>3
      <4> QED
        BY <3>2, <4>1
    <3> QED
      BY <3>1, <3>3 DEF Aligned
  <2>8. RequestsMatch'
    BY <2>4 DEF Consistent, RequestsMatch
  <2>9. \A i, j \in DOMAIN sockets' : sockets'[i] = sockets'[j] => i = j
    <3>1. \A i, j \in DOMAIN sockets : sockets[i] = sockets[j] => i = j
      BY DEF Consistent, LiveIffRegistered
    <3> SUFFICES ASSUME NEW i \in DOMAIN sockets', NEW j \in DOMAIN sockets',
                        sockets'[i] = sockets'[j]
                 PROVE  i = j
      OBVIOUS
    <3>2. /\ Was(i) \in DOMAIN sockets /\ Was(j) \in DOMAIN sockets
          /\ sockets[Was(i)] = sockets[Was(j)]
      BY <2>4
    <3>3. Was(i) = Was(j)
      BY <3>1, <3>2
    <3> QED
      BY <2>6, <3>3
  <2>10. \A p \in Objects : stage'[p] = "live" <=> \E i \in DOMAIN sockets' : sockets'[i] = p
    <3> SUFFICES ASSUME NEW p \in Objects
                 PROVE  stage'[p] = "live" <=> \E i \in DOMAIN sockets' : sockets'[i] = p
      OBVIOUS
    <3>1. ASSUME stage'[p] = "live"
          PROVE  \E i \in DOMAIN sockets' : sockets'[i] = p
      <4>1. p # o /\ stage[p] = "live"
        BY <1>2, <3>1
      <4>2. PICK j \in DOMAIN sockets : sockets[j] = p
        BY <4>1 DEF Consistent, LiveIffRegistered
      <4>3. j # n
        BY <2>1, <4>1, <4>2
      <4> QED
        BY <2>4, <2>5, <4>2, <4>3
    <3>2. ASSUME NEW i \in DOMAIN sockets', sockets'[i] = p
          PROVE  stage'[p] = "live"
      <4>1. Was(i) \in DOMAIN sockets /\ Was(i) # n /\ sockets[Was(i)] = p
        BY <2>4, <3>2
      <4>2. p # o /\ stage[p] = "live"
        BY <2>1, <4>1 DEF Consistent, LiveIffRegistered
      <4> QED
        BY <1>2, <4>2
    <3> QED
      BY <3>1, <3>2
  <2> QED
    BY <2>2, <2>7, <2>8, <2>9, <2>10 DEF LiveIffRegistered
<1> QED
  BY <1>3, <1>4

-------------------------------------------------------------------------------
(* What poll reports. *)

\* Every pollfd is that of a live object, and poll looks at that object.
LEMMA PolledObject ==
  ASSUME Consistent, NEW n \in DOMAIN sockets
  PROVE  LET o == sockets[n]
         IN  Revents(pfds[n]) =
               (IF inbound[o] > 0 \/ peer[o] = "closed" THEN {"POLLIN"} ELSE {})
               \cup (IF pfds[n].out THEN {"POLLOUT"} ELSE {})
               \cup (IF peer[o] = "reset" THEN {"POLLERR"} ELSE {})
               \cup (IF peer[o] = "none" THEN {"POLLHUP"} ELSE {})
<1> DEFINE o == sockets[n]
<1>1. o \in Objects /\ stage[o] \in HasFd /\ fd[o] \in Fds /\ pfds[n].fd = fd[o]
  BY FoundOnce DEF HasFd
<1>2. pfds[n].fd \in OpenFds
  BY <1>1 DEF OpenFds
<1>3. \A u \in Objects : stage[u] \in HasFd /\ fd[u] = pfds[n].fd => u = o
  BY <1>1 DEF Consistent, Descriptors
<1>4. (CHOOSE u \in Objects : stage[u] \in HasFd /\ fd[u] = pfds[n].fd) = o
  BY <1>1, <1>3
<1> QED
  BY <1>2, <1>4 DEF Revents

\* All that poll reports of a registered socket is known to DoOneSocketTask.
LEMMA ReportsKnown ==
  ASSUME Consistent, NEW n \in DOMAIN sockets
  PROVE  /\ Revents(pfds[n]) \subseteq Known
         /\ "POLLOUT" \in Revents(pfds[n]) => pfds[n].out
         /\ sockets[n] \in Acceptors /\ "POLLIN" \in Revents(pfds[n]) => inbound[sockets[n]] > 0
<1>1. sockets[n] \in Objects
  BY FoundOnce
<1>2. Revents(pfds[n]) =
               (IF inbound[sockets[n]] > 0 \/ peer[sockets[n]] = "closed" THEN {"POLLIN"} ELSE {})
               \cup (IF pfds[n].out THEN {"POLLOUT"} ELSE {})
               \cup (IF peer[sockets[n]] = "reset" THEN {"POLLERR"} ELSE {})
               \cup (IF peer[sockets[n]] = "none" THEN {"POLLHUP"} ELSE {})
  BY PolledObject
<1>3. sockets[n] \in Acceptors => peer[sockets[n]] # "closed"
  BY <1>1, ObjectsAssumption DEF Consistent, Traffic, ObjectsAssumption
<1> QED
  BY <1>2, <1>3 DEF Known

\* Objects that keep their descriptors and their part in the driver's life.
LEMMA Unmoved ==
  ASSUME Consistent, UNCHANGED <<sockets, pfds, stage, fd>>
  PROVE  /\ Descriptors' /\ Aligned' /\ LiveIffRegistered'
         /\ sockets' \in Seq(Objects) /\ pfds' \in Seq(Pollfds)
         /\ stage' \in [Objects -> Stages] /\ fd' \in [Objects -> Fds \cup {NoFd}]
BY DEF Consistent, TypeOK, Descriptors, Aligned, LiveIffRegistered, Pollfds

\* The open socket's descriptor is not in use: it is not that of a registered one.
LEMMA OpenedKeeps ==
  ASSUME Consistent, NEW o \in Objects, stage[o] = "new", Opened(o), UNCHANGED <<sockets, pfds>>
  PROVE  /\ Descriptors' /\ Aligned' /\ LiveIffRegistered'
         /\ stage' \in [Objects -> Stages] /\ fd' \in [Objects -> Fds \cup {NoFd}]
         /\ \A p \in Objects : stage'[p] \in {"new", "open"} <=> stage[p] \in {"new", "open"}
<1>1. PICK f \in Fds \ OpenFds : /\ fd' = [fd EXCEPT ![o] = f]
                                /\ stage' = [stage EXCEPT ![o] = "open"]
  BY DEF Opened
<1>2. stage \in [Objects -> Stages] /\ fd \in [Objects -> Fds \cup {NoFd}]
  BY DEF Consistent, TypeOK
<1>3. stage' \in [Objects -> Stages] /\ fd' \in [Objects -> Fds \cup {NoFd}]
  BY <1>1, <1>2 DEF Stages
<1>4. \A p \in Objects : /\ fd'[p] = IF p = o THEN f ELSE fd[p]
                         /\ stage'[p] = IF p = o THEN "open" ELSE stage[p]
  BY <1>1, <1>2
<1>5. \A p \in Objects : fd[p] # f
  BY <1>1 DEF Consistent, Descriptors, OpenFds
<1>6. f # NoFd
  BY <1>1
<1>7. Descriptors'
  <2>1. \A p \in Objects : stage'[p] \in HasFd <=> fd'[p] # NoFd
    BY <1>4, <1>6 DEF Consistent, Descriptors, HasFd
  <2>2. \A p, q \in Objects : fd'[p] = fd'[q] /\ fd'[p] # NoFd => p = q
    BY <1>4, <1>5 DEF Consistent, Descriptors
  <2> QED
    BY <2>1, <2>2 DEF Descriptors
<1>8. Aligned'
  <2>1. \A i \in DOMAIN sockets : sockets[i] \in Objects \ {o} /\ pfds[i].fd = fd[sockets[i]]
    BY FoundOnce
  <2> QED
    BY <1>4, <2>1 DEF Consistent, Aligned
<1>9. LiveIffRegistered'
  <2>1. \A p \in Objects : stage'[p] = "live" <=> stage[p] = "live"
    BY <1>4
  <2> QED
    BY <2>1, Zenon DEF Consistent, LiveIffRegistered
<1> QED
  BY <1>3, <1>4, <1>7, <1>8, <1>9

-------------------------------------------------------------------------------
(* Every step keeps the invariant. *)

\* The life of an object.
LEMMA OpenStep == ASSUME Consistent, NEW o \in Objects, Open(o) PROVE Consistent'
<1>1. /\ Descriptors' /\ Aligned' /\ LiveIffRegistered'
      /\ stage' \in [Objects -> Stages] /\ fd' \in [Objects -> Fds \cup {NoFd}]
      /\ \A p \in Objects : stage'[p] \in {"new", "open"} <=> stage[p] \in {"new", "open"}
  BY OpenedKeeps DEF Open, list
<1>2. UNCHANGED <<sockets, pfds, revents, unsent, sends, held, inbound, arrived, peer, driver>>
  BY DEF Open, list, user, net
<1>3. TypeOK'
  BY <1>1, <1>2 DEF Consistent, TypeOK
<1>4. Traffic'
  BY <1>1, <1>2 DEF Consistent, Traffic
<1>5. RequestsMatch' /\ Reported' /\ NeverUnhandled'
  BY <1>2 DEF Consistent, RequestsMatch, Reported, NeverUnhandled
<1> QED
  BY <1>1, <1>3, <1>4, <1>5 DEF Consistent

LEMMA RegisterStep == ASSUME Consistent, NEW o \in Objects, Register(o) PROVE Consistent'
<1> DEFINE n == Len(sockets)
<1>1. /\ sockets \in Seq(Objects) /\ pfds \in Seq(Pollfds)
      /\ n \in Nat /\ Len(pfds) = n
      /\ DOMAIN sockets = 1..n /\ DOMAIN pfds = 1..n
  BY LenProperties DEF Consistent, TypeOK, Aligned, Pollfds
<1>2. stage[o] = "open" /\ driver # "ready" /\ driver' = driver
  BY DEF Register, Outside
<1>3. [fd |-> fd[o], out |-> FALSE] \in Pollfds
  <2>1. fd[o] # NoFd /\ fd[o] \in Fds \cup {NoFd}
    BY <1>2 DEF Consistent, Descriptors, TypeOK, HasFd
  <2> QED
    BY <2>1 DEF Pollfds
<1>4. /\ sockets' = Append(sockets, o)
      /\ pfds' = Append(pfds, [fd |-> fd[o], out |-> FALSE])
  BY DEF Register
<1> HIDE DEF n
<1>5. /\ sockets' \in Seq(Objects) /\ Len(sockets') = n + 1 /\ DOMAIN sockets' = 1..n + 1
      /\ sockets'[n + 1] = o
      /\ \A i \in 1..n : sockets'[i] = sockets[i]
  BY <1>1, <1>4, AppendProperties DEF n
<1>6. /\ pfds' \in Seq(Pollfds) /\ Len(pfds') = n + 1
      /\ pfds'[n + 1] = [fd |-> fd[o], out |-> FALSE]
      /\ \A i \in 1..n : pfds'[i] = pfds[i]
  BY <1>1, <1>3, <1>4, AppendProperties DEF n
<1>7. \A p \in Objects : stage'[p] = IF p = o THEN "live" ELSE stage[p]
  BY DEF Register, Consistent, TypeOK
<1>8. UNCHANGED <<fd, revents, unsent, sends, held, inbound, arrived, peer>>
  BY DEF Register, user, net
<1>9. TypeOK'
  <2>1. stage' \in [Objects -> Stages]
    BY DEF Register, Consistent, TypeOK, Stages
  <2> QED
    BY <1>2, <1>5, <1>6, <1>8, <2>1 DEF Consistent, TypeOK, Pollfds
<1>10. Descriptors'
  BY <1>2, <1>7, <1>8 DEF Consistent, Descriptors, HasFd
<1>11. Traffic'
  BY <1>7, <1>8 DEF Consistent, Traffic
<1>12. Aligned'
  <2>1. \A i \in 1..n : pfds'[i].fd = fd'[sockets'[i]]
    BY <1>1, <1>5, <1>6, <1>8 DEF Consistent, Aligned
  <2>2. pfds'[n + 1].fd = fd'[sockets'[n + 1]]
    BY <1>5, <1>6, <1>8
  <2>3. \A i \in DOMAIN sockets' : i \in 1..n \/ i = n + 1
    BY <1>1, <1>5
  <2> QED
    BY <1>5, <1>6, <2>1, <2>2, <2>3, Zenon DEF Aligned
<1>13. \A i \in 1..n : sockets[i] \in Objects /\ sockets[i] # o
  BY <1>1, <1>2, FoundOnce
<1>14. LiveIffRegistered'
  <2>1. \A i, j \in DOMAIN sockets' : sockets'[i] = sockets'[j] => i = j
    <3>1. \A i, j \in 1..n : sockets'[i] = sockets'[j] => i = j
      BY <1>1, <1>5 DEF Consistent, LiveIffRegistered
    <3>2. \A i \in DOMAIN sockets' : i \in 1..n \/ i = n + 1
      BY <1>1, <1>5
    <3>3. \A i \in 1..n : sockets'[i] # sockets'[n + 1]
      BY <1>5, <1>13
    <3> QED
      BY <3>1, <3>2, <3>3, Zenon
  <2>2. ASSUME NEW p \in Objects
        PROVE  stage'[p] = "live" <=> \E i \in DOMAIN sockets' : sockets'[i] = p
    <3>1. CASE p = o
      <4>1. n + 1 \in DOMAIN sockets'
        BY <1>1, <1>5
      <4> QED
        BY <1>5, <1>7, <3>1, <4>1
    <3>2. CASE p # o
      <4>1. (\E i \in DOMAIN sockets' : sockets'[i] = p) <=> \E i \in DOMAIN sockets : sockets[i] = p
        BY <1>1, <1>5, <3>2
      <4>2. stage[p] = "live" <=> \E i \in DOMAIN sockets : sockets[i] = p
        BY DEF Consistent, LiveIffRegistered
      <4> QED
        BY <1>7, <3>2, <4>1, <4>2
    <3> QED
      BY <3>1, <3>2
  <2> QED
    BY <2>1, <2>2 DEF LiveIffRegistered
<1>15. RequestsMatch'
  <2>1. \A i \in 1..n : pfds'[i].out <=> unsent'[sockets'[i]] > 0
    BY <1>1, <1>5, <1>6, <1>8 DEF Consistent, RequestsMatch
  <2>2. unsent'[o] = 0
    BY <1>2, <1>8 DEF Consistent, Traffic
  <2>3. pfds'[n + 1].out <=> unsent'[sockets'[n + 1]] > 0
    BY <1>5, <1>6, <2>2
  <2>4. \A i \in DOMAIN sockets' : i \in 1..n \/ i = n + 1
    BY <1>1, <1>5
  <2> QED
    BY <2>1, <2>3, <2>4, Zenon DEF RequestsMatch
<1> QED
  BY <1>2, <1>9, <1>10, <1>11, <1>12, <1>14, <1>15 DEF Consistent, Reported, NeverUnhandled

\* Taking an object from the driver, for any of the reasons there are.
LEMMA TakenAway ==
  ASSUME Consistent, NEW o \in Objects, stage[o] \in {"live", "disconnected"},
         Erase(fd[o]), NEW s \in {"disconnected", "dying"},
         stage' = [stage EXCEPT ![o] = s], UNCHANGED <<fd, user, net>>,
         driver' # "ready", driver' \in {"out", "callback"} \cup Tcp,
         revents' \in Seq(SUBSET Events)
  PROVE  Consistent'
<1>1. UNCHANGED <<fd, unsent, sends, held, inbound, arrived, peer>>
  BY DEF user, net
<1>2. /\ sockets' \in Seq(Objects) /\ pfds' \in Seq(Pollfds)
      /\ Aligned' /\ LiveIffRegistered' /\ RequestsMatch'
  BY <1>1, EraseKeeps
<1>3. \A p \in Objects : stage'[p] = IF p = o THEN s ELSE stage[p]
  BY DEF Consistent, TypeOK
<1>4. TypeOK'
  <2>1. stage' \in [Objects -> Stages]
    BY DEF Consistent, TypeOK, Stages
  <2> QED
    BY <1>1, <1>2, <2>1 DEF Consistent, TypeOK, Pollfds, Events
<1>5. Descriptors'
  BY <1>1, <1>3 DEF Consistent, Descriptors, HasFd
<1>6. Traffic'
  BY <1>1, <1>3 DEF Consistent, Traffic
<1> QED
  BY <1>2, <1>4, <1>5, <1>6 DEF Consistent, Reported, NeverUnhandled

LEMMA UnregisterStep == ASSUME Consistent, NEW o \in Objects, Unregister(o) PROVE Consistent'
<1>1. revents' \in Seq(SUBSET Events) /\ driver \in {"out", "ready", "callback"} \cup Tcp
  BY DEF Unregister, Consistent, TypeOK, Events
<1> QED
  BY <1>1, TakenAway DEF Unregister, Outside

LEMMA CloseStep == ASSUME Consistent, NEW o \in Objects, Close(o) PROVE Consistent'
<1>1. stage[o] \in {"open", "dying"}
  BY DEF Close
<1>2. /\ UNCHANGED <<sockets, pfds, revents, sends, held, arrived, driver>>
      /\ \A p \in Objects : /\ stage'[p] = IF p = o THEN "dead" ELSE stage[p]
                            /\ fd'[p] = IF p = o THEN NoFd ELSE fd[p]
                            /\ unsent'[p] = IF p = o THEN 0 ELSE unsent[p]
                            /\ inbound'[p] = IF p = o THEN 0 ELSE inbound[p]
                            /\ peer'[p] = IF p = o THEN "open" ELSE peer[p]
  BY DEF Close, list, Consistent, TypeOK
<1>3. \A i \in DOMAIN sockets : sockets[i] \in Objects \ {o}
  BY <1>1, FoundOnce
<1>4. TypeOK'
  BY <1>2 DEF Close, Consistent, TypeOK, Stages
<1>5. Descriptors'
  BY <1>2 DEF Consistent, Descriptors, HasFd
<1>6. Traffic'
  <2>1. sends \in Nat /\ arrived \in Nat
    BY DEF Consistent, TypeOK
  <2> QED
    BY <1>2, <2>1 DEF Consistent, Traffic
<1>7. Aligned'
  BY <1>2, <1>3 DEF Consistent, Aligned
<1>8. LiveIffRegistered'
  <2>1. \A p \in Objects : stage'[p] = "live" <=> stage[p] = "live"
    BY <1>1, <1>2
  <2> QED
    BY <1>2, <2>1, Zenon DEF Consistent, LiveIffRegistered
<1>9. RequestsMatch'
  BY <1>2, <1>3 DEF Consistent, RequestsMatch
<1>10. Reported' /\ NeverUnhandled'
  BY <1>2, <1>3 DEF Consistent, Reported, NeverUnhandled
<1> QED
  BY <1>4, <1>5, <1>6, <1>7, <1>8, <1>9, <1>10 DEF Consistent

\* A message is queued; the first one asks for POLLOUT, in the object's own pollfd.
LEMMA SendStep == ASSUME Consistent, NEW o \in Objects, Send(o) PROVE Consistent'
<1>1. /\ stage[o] = "live" /\ sends < MaxSends /\ sends' = sends + 1
      /\ driver # "ready" /\ driver' = driver
      /\ UNCHANGED <<sockets, revents, stage, fd, held, inbound, arrived, peer>>
  BY DEF Send, Outside, life, net
<1>2. /\ unsent \in [Objects -> Nat] /\ sends \in Nat
      /\ \A p \in Objects : unsent'[p] = IF p = o THEN unsent[o] + 1 ELSE unsent[p]
  BY DEF Send, Consistent, TypeOK
<1>3. /\ pfds \in Seq(Pollfds) /\ Len(pfds) \in Nat /\ DOMAIN pfds = 1..Len(pfds)
      /\ sockets \in Seq(Objects) /\ Len(sockets) = Len(pfds)
      /\ DOMAIN sockets = 1..Len(pfds)
  BY LenProperties DEF Consistent, TypeOK, Aligned, Pollfds
<1> DEFINE Asked(i) == IF pfds[i].fd = fd[o] /\ unsent[o] = 0
                         THEN [pfds[i] EXCEPT !.out = TRUE] ELSE pfds[i]
<1>4. pfds' = [i \in 1..Len(pfds) |-> Asked(i)]
  BY <1>3 DEF Send
<1>5. \A i \in 1..Len(pfds) : /\ Asked(i) \in Pollfds
                              /\ Asked(i).fd = pfds[i].fd
                              /\ Asked(i).out = (pfds[i].out \/ (pfds[i].fd = fd[o] /\ unsent[o] = 0))
  <2> SUFFICES ASSUME NEW i \in 1..Len(pfds)
               PROVE  /\ Asked(i) \in Pollfds
                      /\ Asked(i).fd = pfds[i].fd
                      /\ Asked(i).out = (pfds[i].out \/ (pfds[i].fd = fd[o] /\ unsent[o] = 0))
    OBVIOUS
  <2>1. pfds[i] \in Pollfds
    BY <1>3
  <2> QED
    BY <2>1 DEF Pollfds
<1> HIDE DEF Asked
<1>6. pfds' \in Seq(Pollfds) /\ Len(pfds') = Len(pfds)
  <2>1. pfds' \in [1..Len(pfds) -> Pollfds]
    BY <1>4, <1>5
  <2>2. Len(pfds) \in Nat
    BY <1>3
  <2> QED
    BY <2>1, <2>2, MappedSeq
<1>7. \A i \in DOMAIN sockets :
        /\ sockets[i] \in Objects
        /\ pfds[i].fd = fd[sockets[i]]
        /\ pfds[i].fd = fd[o] <=> sockets[i] = o
  <2> SUFFICES ASSUME NEW i \in DOMAIN sockets
               PROVE  /\ sockets[i] \in Objects
                      /\ pfds[i].fd = fd[sockets[i]]
                      /\ pfds[i].fd = fd[o] <=> sockets[i] = o
    OBVIOUS
  <2>1. sockets[i] \in Objects /\ fd[sockets[i]] \in Fds /\ pfds[i].fd = fd[sockets[i]]
    BY FoundOnce
  <2> QED
    BY <2>1 DEF Consistent, Descriptors
<1>8. TypeOK'
  <2>1. /\ sends \in 0..MaxSends /\ unsent \in [Objects -> 0..MaxSends]
        /\ unsent[o] <= sends /\ MaxSends \in Nat
    BY LimitsAssumption DEF Consistent, TypeOK, Traffic
  <2>2. sends' \in 0..MaxSends /\ unsent[o] + 1 \in 0..MaxSends
    BY <1>1, <1>2, <2>1
  <2>3. unsent' = [unsent EXCEPT ![o] = unsent[o] + 1]
    BY DEF Send
  <2>4. unsent' \in [Objects -> 0..MaxSends]
    BY <2>1, <2>2, <2>3
  <2> QED
    BY <1>1, <1>6, <2>2, <2>4 DEF Consistent, TypeOK, Pollfds
<1>9. Descriptors'
  BY <1>1 DEF Consistent, Descriptors
<1>10. Traffic'
  BY <1>1, <1>2 DEF Consistent, Traffic
<1>11. Aligned'
  BY <1>1, <1>3, <1>4, <1>5, <1>6, <1>7 DEF Aligned
<1>12. LiveIffRegistered'
  BY <1>1 DEF Consistent, LiveIffRegistered
<1>13. RequestsMatch'
  <2> SUFFICES ASSUME NEW i \in DOMAIN sockets
               PROVE  pfds'[i].out <=> unsent'[sockets[i]] > 0
    BY <1>1 DEF RequestsMatch
  <2>1. pfds'[i].out = (pfds[i].out \/ (sockets[i] = o /\ unsent[o] = 0))
    BY <1>3, <1>4, <1>5, <1>7
  <2>2. pfds[i].out <=> unsent[sockets[i]] > 0
    BY DEF Consistent, RequestsMatch
  <2>3. unsent[o] \in Nat
    BY <1>2
  <2>4. CASE sockets[i] = o
    <3>1. unsent'[sockets[i]] > 0
      BY <1>2, <2>3, <2>4
    <3>2. unsent[o] > 0 \/ unsent[o] = 0
      BY <2>3
    <3> QED
      BY <2>1, <2>2, <2>4, <3>1, <3>2
  <2>5. CASE sockets[i] # o
    BY <1>2, <1>7, <2>1, <2>2, <2>5
  <2> QED
    BY <2>4, <2>5
<1> QED
  BY <1>1, <1>8, <1>9, <1>10, <1>11, <1>12, <1>13 DEF Consistent, Reported, NeverUnhandled

LEMMA DropStep == ASSUME Consistent, NEW o \in Objects, Drop(o) PROVE Consistent'
<1>1. UNCHANGED <<sockets, pfds, revents, stage, fd, unsent, sends, inbound, arrived, peer, driver>>
  BY DEF Drop, list, life, net
<1>2. held' \in [Objects -> 0..RxBufCount]
  BY DEF Drop, Consistent, TypeOK
<1>3. TypeOK'
  BY <1>1, <1>2 DEF Consistent, TypeOK
<1>4. Descriptors' /\ Traffic' /\ Aligned' /\ LiveIffRegistered'
  BY <1>1 DEF Consistent, Descriptors, Traffic, Aligned, LiveIffRegistered
<1> QED
  BY <1>1, <1>3, <1>4 DEF Consistent, RequestsMatch, Reported, NeverUnhandled

\* The driver's thread.
LEMMA PollStep == ASSUME Consistent, Poll PROVE Consistent'
<1>1. /\ UNCHANGED <<sockets, pfds, stage, fd, unsent, sends, held, inbound, arrived, peer>>
      /\ driver' = "ready"
  BY DEF Poll, life, user, net
<1>2. /\ pfds \in Seq(Pollfds) /\ Len(pfds) \in Nat /\ Len(sockets) = Len(pfds)
      /\ DOMAIN pfds = 1..Len(pfds) /\ DOMAIN sockets = 1..Len(pfds)
  BY LenProperties DEF Consistent, TypeOK, Aligned, Pollfds
<1>3. revents' = [i \in 1..Len(pfds) |-> Revents(pfds[i])]
  BY <1>2 DEF Poll
<1>4. \A i \in 1..Len(pfds) :
        /\ Revents(pfds[i]) \subseteq Known
        /\ "POLLOUT" \in Revents(pfds[i]) => pfds[i].out
        /\ sockets[i] \in Acceptors /\ "POLLIN" \in Revents(pfds[i]) => inbound[sockets[i]] > 0
  BY <1>2, ReportsKnown
<1>5. revents' \in Seq(SUBSET Events) /\ Len(revents') = Len(pfds)
  <2>1. \A i \in 1..Len(pfds) : Revents(pfds[i]) \in SUBSET Events
    BY <1>4 DEF Known, Events
  <2>2. revents' \in [1..Len(pfds) -> SUBSET Events]
    BY <1>3, <2>1
  <2>3. Len(pfds) \in Nat
    BY <1>2
  <2> QED
    BY <2>2, <2>3, MappedSeq
<1>6. TypeOK'
  BY <1>1, <1>5 DEF Consistent, TypeOK, Events
<1>7. Descriptors' /\ Traffic' /\ Aligned' /\ LiveIffRegistered' /\ RequestsMatch'
  BY <1>1 DEF Consistent, Descriptors, Traffic, Aligned, LiveIffRegistered, RequestsMatch
<1>8. Reported'
  BY <1>1, <1>2, <1>3, <1>4, <1>5 DEF Reported
<1>9. NeverUnhandled'
  <2>1. PICK i \in DOMAIN pfds : Revents(pfds[i]) # {}
    BY DEF Poll
  <2>2. i \in DOMAIN sockets' /\ revents'[i] = Revents(pfds[i])
    BY <1>1, <1>2, <1>3
  <2>3. revents'[i] \cap Known # {}
    BY <1>2, <1>4, <2>1, <2>2
  <2> QED
    BY <2>2, <2>3 DEF NeverUnhandled
<1> QED
  BY <1>6, <1>7, <1>8, <1>9 DEF Consistent

\* The object that is served: it was given to poll, and an event that it knows came.
LEMMA Served ==
  ASSUME Consistent, NEW i \in DOMAIN sockets, NEW next \in {"out", "callback"} \cup Tcp,
         Serves(i, next)
  PROVE  /\ sockets[i] \in Objects
         /\ stage[sockets[i]] = "live"
         /\ driver = "ready" /\ driver' = next /\ driver' # "ready"
         /\ revents' \in Seq(SUBSET Events)
         /\ "POLLOUT" \in revents[i] => unsent[sockets[i]] > 0
         /\ sockets[i] \in Acceptors /\ "POLLIN" \in revents[i] => inbound[sockets[i]] > 0
<1>1. sockets[i] \in Objects /\ stage[sockets[i]] = "live"
  BY FoundOnce
<1>2. driver = "ready" /\ driver' = next /\ revents' = <<>>
  BY DEF Serves
<1>3. driver' # "ready"
  <2>1. next \in Tcp => next # "ready"
    BY ObjectsAssumption DEF ObjectsAssumption
  <2> QED
    BY <1>2, <2>1
<1>4. revents' \in Seq(SUBSET Events)
  BY <1>2, EmptySeq
<1>5. /\ "POLLOUT" \in revents[i] => pfds[i].out
      /\ sockets[i] \in Acceptors /\ "POLLIN" \in revents[i] => inbound[sockets[i]] > 0
  BY <1>2 DEF Consistent, Reported
<1>6. pfds[i].out => unsent[sockets[i]] > 0
  BY DEF Consistent, RequestsMatch
<1> QED
  BY <1>1, <1>2, <1>3, <1>4, <1>5, <1>6

\* What shrinks stays below the bound of what it was, and stays 0.
LEMMA NoMoreThan ==
  ASSUME NEW now \in Nat, NEW before \in Nat, NEW bound \in Nat,
         now <= before, before <= bound
  PROVE  now <= bound /\ (before = 0 => now = 0)
OBVIOUS

\* A step that serves object i and leaves the vectors and the objects' lives alone;
\* what is queued, requested, held and waits may change.
LEMMA ServedInPlace ==
  ASSUME Consistent, UNCHANGED <<sockets, stage, fd, sends, arrived, peer>>,
         driver' \in {"out", "callback"} \cup Tcp, driver' # "ready",
         revents' \in Seq(SUBSET Events),
         pfds' \in Seq(Pollfds), Len(pfds') = Len(pfds),
         \A i \in DOMAIN sockets : pfds'[i].fd = pfds[i].fd,
         unsent' \in [Objects -> 0..MaxSends], held' \in [Objects -> 0..RxBufCount],
         inbound' \in [Objects -> 0..MaxArrivals],
         \A o \in Objects : unsent'[o] <= unsent[o] /\ inbound'[o] <= inbound[o],
         RequestsMatch'
  PROVE  Consistent'
<1>1. TypeOK'
  BY DEF Consistent, TypeOK, Pollfds, Events
<1>2. Descriptors' /\ LiveIffRegistered'
  BY DEF Consistent, Descriptors, LiveIffRegistered
<1>3. Aligned'
  BY DEF Consistent, Aligned
<1>4. Traffic'
  <2> SUFFICES ASSUME NEW o \in Objects
               PROVE  /\ unsent'[o] <= sends
                      /\ inbound'[o] <= arrived
                      /\ stage[o] \in {"new", "open"} => unsent'[o] = 0
                      /\ o \notin Tcp => peer[o] # "closed"
    BY DEF Traffic
  <2>1. /\ unsent'[o] \in Nat /\ inbound'[o] \in Nat /\ unsent[o] \in Nat /\ inbound[o] \in Nat
        /\ sends \in Nat /\ arrived \in Nat
    BY DEF Consistent, TypeOK
  <2>2. unsent'[o] <= unsent[o] /\ inbound'[o] <= inbound[o]
    OBVIOUS
  <2>3. /\ unsent[o] <= sends
        /\ inbound[o] <= arrived
        /\ stage[o] \in {"new", "open"} => unsent[o] = 0
        /\ o \notin Tcp => peer[o] # "closed"
    BY DEF Consistent, Traffic
  <2>4. unsent'[o] <= sends /\ (unsent[o] = 0 => unsent'[o] = 0)
    BY <2>1, <2>2, <2>3, NoMoreThan
  <2>5. inbound'[o] <= arrived
    BY <2>1, <2>2, <2>3, NoMoreThan
  <2> QED
    BY <2>3, <2>4, <2>5
<1> QED
  BY <1>1, <1>2, <1>3, <1>4 DEF Consistent, Reported, NeverUnhandled

LEMMA ReceiveStep == ASSUME Consistent, NEW i \in DOMAIN sockets, Receive(i) PROVE Consistent'
<1> DEFINE o == sockets[i]
<1>1. /\ o \in Objects /\ driver' \in {"out", "callback"} \cup Tcp /\ driver' # "ready"
      /\ revents' \in Seq(SUBSET Events)
  BY Served DEF Receive
<1>2. /\ UNCHANGED <<sockets, pfds, stage, fd, unsent, sends, arrived, peer>>
      /\ held[o] < RxBufCount /\ inbound[o] > 0
      /\ inbound' = [inbound EXCEPT ![o] = @ - 1]
      /\ held' = [held EXCEPT ![o] = @ + 1]
  BY DEF Receive, life
<1> HIDE DEF o
<1>3. /\ inbound' \in [Objects -> 0..MaxArrivals] /\ held' \in [Objects -> 0..RxBufCount]
      /\ \A p \in Objects : inbound'[p] <= inbound[p] /\ unsent'[p] <= unsent[p]
  <2>1. /\ inbound \in [Objects -> 0..MaxArrivals] /\ held \in [Objects -> 0..RxBufCount]
        /\ unsent \in [Objects -> 0..MaxSends]
    BY DEF Consistent, TypeOK
  <2>2. inbound' \in [Objects -> 0..MaxArrivals] /\ \A p \in Objects : inbound'[p] <= inbound[p]
    BY <1>1, <1>2, <2>1, OneLess
  <2>3. held' \in [Objects -> 0..RxBufCount]
    BY <1>1, <1>2, <2>1, OneMore
  <2> QED
    BY <1>2, <2>1, <2>2, <2>3
<1>4. pfds' \in Seq(Pollfds) /\ unsent' \in [Objects -> 0..MaxSends] /\ RequestsMatch'
  BY <1>2 DEF Consistent, TypeOK, Pollfds, RequestsMatch
<1> QED
  BY <1>1, <1>2, <1>3, <1>4, ServedInPlace

LEMMA WriteStep == ASSUME Consistent, NEW i \in DOMAIN sockets, Write(i) PROVE Consistent'
<1> DEFINE o == sockets[i]
<1>1. /\ o \in Objects /\ driver' \in {"out", "callback"} \cup Tcp /\ driver' # "ready"
      /\ revents' \in Seq(SUBSET Events) /\ unsent[o] > 0
  BY Served DEF Write
<1>2. /\ UNCHANGED <<sockets, stage, fd, sends, held, inbound, arrived, peer>>
      /\ unsent' = [unsent EXCEPT ![o] = @ - 1]
      /\ pfds' = [pfds EXCEPT ![i].out = unsent[o] > 1]
  BY DEF Write, life, net
<1>3. \A j \in DOMAIN sockets : sockets[j] \in Objects /\ (sockets[j] = o => j = i)
  BY FoundOnce DEF Consistent, LiveIffRegistered
<1>4. /\ pfds \in Seq(Pollfds) /\ Len(pfds) \in Nat /\ DOMAIN pfds = 1..Len(pfds)
      /\ DOMAIN sockets = DOMAIN pfds
  BY LenProperties DEF Consistent, TypeOK, Aligned, Pollfds
<1> HIDE DEF o
<1>5. /\ unsent \in [Objects -> 0..MaxSends] /\ unsent[o] \in Nat
      /\ unsent' \in [Objects -> 0..MaxSends]
      /\ \A p \in Objects : unsent'[p] = IF p = o THEN unsent[o] - 1 ELSE unsent[p]
      /\ \A p \in Objects : unsent'[p] <= unsent[p]
  <2>1. unsent \in [Objects -> 0..MaxSends]
    BY DEF Consistent, TypeOK
  <2> QED
    BY <1>1, <1>2, <2>1, OneLess
<1>6. /\ pfds' \in [1..Len(pfds) -> Pollfds]
      /\ pfds'[i].out = (unsent[o] > 1)
      /\ \A j \in DOMAIN sockets : pfds'[j].fd = pfds[j].fd /\ (j # i => pfds'[j] = pfds[j])
  <2>1. (unsent[o] > 1) \in BOOLEAN
    OBVIOUS
  <2>2. \A j \in DOMAIN pfds : pfds'[j] = IF j = i THEN [pfds[i] EXCEPT !.out = unsent[o] > 1]
                                                   ELSE pfds[j]
    BY <1>2, <1>4
  <2>3. \A j \in DOMAIN pfds : pfds[j] \in Pollfds
    BY <1>4
  <2>4. [pfds[i] EXCEPT !.out = unsent[o] > 1] = [fd |-> pfds[i].fd, out |-> unsent[o] > 1]
    BY <1>4, <2>3 DEF Pollfds
  <2>5. [fd |-> pfds[i].fd, out |-> unsent[o] > 1] \in Pollfds
    BY <1>4, <2>1, <2>3 DEF Pollfds
  <2>6. pfds' = [j \in 1..Len(pfds) |-> pfds'[j]]
    BY <1>2, <1>4
  <2>7. \A j \in 1..Len(pfds) : pfds'[j] \in Pollfds
    BY <1>4, <2>2, <2>3, <2>4, <2>5
  <2>8. pfds' \in [1..Len(pfds) -> Pollfds]
    BY <2>6, <2>7
  <2> QED
    BY <1>4, <2>2, <2>4, <2>8
<1>7. pfds' \in Seq(Pollfds) /\ Len(pfds') = Len(pfds)
  BY <1>4, <1>6, MappedSeq
<1>8. RequestsMatch'
  <2> SUFFICES ASSUME NEW j \in DOMAIN sockets
               PROVE  pfds'[j].out <=> unsent'[sockets[j]] > 0
    BY <1>2 DEF RequestsMatch
  <2>1. CASE j = i
    <3>1. unsent[o] > 1 <=> unsent[o] - 1 > 0
      BY <1>5
    <3>2. sockets[j] = o
      BY <2>1 DEF o
    <3> QED
      BY <1>1, <1>5, <1>6, <2>1, <3>1, <3>2
  <2>2. CASE j # i
    <3>1. sockets[j] \in Objects /\ sockets[j] # o
      BY <1>3, <2>2
    <3>2. pfds'[j] = pfds[j] /\ unsent'[sockets[j]] = unsent[sockets[j]]
      BY <1>5, <1>6, <2>2, <3>1
    <3> QED
      BY <3>2 DEF Consistent, RequestsMatch
  <2> QED
    BY <2>1, <2>2
<1>9. /\ held' \in [Objects -> 0..RxBufCount] /\ inbound' \in [Objects -> 0..MaxArrivals]
      /\ \A p \in Objects : inbound'[p] <= inbound[p]
  BY <1>2, Untouched DEF Consistent, TypeOK
<1> QED
  BY <1>1, <1>2, <1>5, <1>6, <1>7, <1>8, <1>9, ServedInPlace

LEMMA AcceptStep == ASSUME Consistent, NEW i \in DOMAIN sockets, Accept(i) PROVE Consistent'
<1> DEFINE o == sockets[i]
<1>1. /\ o \in Objects /\ driver' \in {"out", "callback"} \cup Tcp /\ driver' # "ready"
      /\ revents' \in Seq(SUBSET Events) /\ inbound[o] > 0
  BY Served DEF Accept, Readable
<1>2. /\ UNCHANGED <<sockets, pfds, unsent, sends, held, arrived, peer>>
      /\ inbound' = [inbound EXCEPT ![o] = @ - 1]
  BY DEF Accept, user
<1> HIDE DEF o
<1>3. inbound' \in [Objects -> 0..MaxArrivals] /\ \A p \in Objects : inbound'[p] <= inbound[p]
  <2>1. inbound \in [Objects -> 0..MaxArrivals]
    BY DEF Consistent, TypeOK
  <2> QED
    BY <1>1, <1>2, <2>1, OneLess
<1>4. /\ pfds' \in Seq(Pollfds) /\ unsent' \in [Objects -> 0..MaxSends]
      /\ held' \in [Objects -> 0..RxBufCount] /\ RequestsMatch'
      /\ \A p \in Objects : unsent'[p] <= unsent[p]
  BY <1>2, Untouched DEF Consistent, TypeOK, Pollfds, RequestsMatch
<1>5. CASE UNCHANGED life
  BY <1>1, <1>2, <1>3, <1>4, <1>5, ServedInPlace DEF life
<1>6. ASSUME NEW t \in Tcp, stage[t] = "new", Opened(t)
      PROVE  Consistent'
  <2>1. /\ Descriptors' /\ Aligned' /\ LiveIffRegistered'
        /\ stage' \in [Objects -> Stages] /\ fd' \in [Objects -> Fds \cup {NoFd}]
        /\ \A p \in Objects : stage'[p] \in {"new", "open"} <=> stage[p] \in {"new", "open"}
    BY <1>2, <1>6, OpenedKeeps DEF Objects
  <2>2. TypeOK'
    BY <1>1, <1>2, <1>3, <1>4, <2>1 DEF Consistent, TypeOK, Pollfds, Events
  <2>3. Traffic'
    <3> SUFFICES ASSUME NEW p \in Objects
                 PROVE  /\ unsent[p] <= sends
                        /\ inbound'[p] <= arrived
                        /\ stage'[p] \in {"new", "open"} => unsent[p] = 0
                        /\ p \notin Tcp => peer[p] # "closed"
      BY <1>2 DEF Traffic
    <3>1. inbound'[p] \in Nat /\ inbound[p] \in Nat /\ arrived \in Nat
      BY <1>3 DEF Consistent, TypeOK
    <3> QED
      BY <1>3, <2>1, <3>1 DEF Consistent, Traffic
  <2> QED
    BY <1>1, <1>4, <2>1, <2>2, <2>3 DEF Consistent, Reported, NeverUnhandled
<1> QED
  BY <1>5, <1>6 DEF Accept

LEMMA AcceptFailsStep ==
  ASSUME Consistent, NEW i \in DOMAIN sockets, AcceptFails(i) PROVE Consistent'
<1> DEFINE o == sockets[i]
<1>1. /\ o \in Objects /\ driver' \in {"out", "callback"} \cup Tcp /\ driver' # "ready"
      /\ revents' \in Seq(SUBSET Events) /\ inbound[o] > 0
  BY Served DEF AcceptFails, Readable
<1>2. /\ UNCHANGED <<sockets, pfds, stage, fd, unsent, sends, held, arrived, peer>>
      /\ inbound' = inbound \/ inbound' = [inbound EXCEPT ![o] = @ - 1]
  BY DEF AcceptFails, life, user
<1> HIDE DEF o
<1>3. inbound' \in [Objects -> 0..MaxArrivals] /\ \A p \in Objects : inbound'[p] <= inbound[p]
  <2>1. inbound \in [Objects -> 0..MaxArrivals]
    BY DEF Consistent, TypeOK
  <2>2. CASE inbound' = inbound
    BY <2>1, <2>2
  <2>3. CASE inbound' = [inbound EXCEPT ![o] = @ - 1]
    BY <1>1, <2>1, <2>3, OneLess
  <2> QED
    BY <1>2, <2>2, <2>3
<1>4. /\ pfds' \in Seq(Pollfds) /\ unsent' \in [Objects -> 0..MaxSends]
      /\ held' \in [Objects -> 0..RxBufCount] /\ RequestsMatch'
      /\ \A p \in Objects : unsent'[p] <= unsent[p]
  BY <1>2, Untouched DEF Consistent, TypeOK, Pollfds, RequestsMatch
<1> QED
  BY <1>1, <1>2, <1>3, <1>4, ServedInPlace

LEMMA DiscardStep == ASSUME Consistent, NEW i \in DOMAIN sockets, Discard(i) PROVE Consistent'
<1>1. /\ driver' \in {"out", "callback"} \cup Tcp /\ driver' # "ready"
      /\ revents' \in Seq(SUBSET Events)
  BY Served DEF Discard
<1>2. UNCHANGED <<sockets, pfds, stage, fd, unsent, sends, held, inbound, arrived, peer>>
  BY DEF Discard, life, user, net
<1>3. /\ pfds' \in Seq(Pollfds) /\ unsent' \in [Objects -> 0..MaxSends]
      /\ held' \in [Objects -> 0..RxBufCount] /\ inbound' \in [Objects -> 0..MaxArrivals]
      /\ RequestsMatch'
      /\ \A p \in Objects : unsent'[p] <= unsent[p] /\ inbound'[p] <= inbound[p]
  BY <1>2, Untouched DEF Consistent, TypeOK, Pollfds, RequestsMatch
<1> QED
  BY <1>1, <1>2, <1>3, ServedInPlace

LEMMA DisconnectStep ==
  ASSUME Consistent, NEW i \in DOMAIN sockets, Disconnect(i) PROVE Consistent'
<1>1. /\ sockets[i] \in Objects /\ stage[sockets[i]] = "live"
      /\ driver' \in {"out", "callback"} \cup Tcp /\ driver' # "ready"
      /\ revents' \in Seq(SUBSET Events)
  BY Served DEF Disconnect
<1> QED
  BY <1>1, TakenAway DEF Disconnect

LEMMA HandlerThrowsStep == ASSUME Consistent, NEW o \in Tcp, HandlerThrows(o) PROVE Consistent'
<1>1. o \in Objects /\ revents' \in Seq(SUBSET Events)
  BY DEF Objects, HandlerThrows, Consistent, TypeOK, Events
<1> QED
  BY <1>1, TakenAway DEF HandlerThrows

LEMMA EndCallbackStep == ASSUME Consistent, EndCallback PROVE Consistent'
<1>1. /\ UNCHANGED <<sockets, pfds, revents, stage, fd, unsent, sends, held, inbound, arrived, peer>>
      /\ driver' = "out"
  BY DEF EndCallback, list, life, user, net
<1>2. TypeOK'
  BY <1>1 DEF Consistent, TypeOK
<1>3. Descriptors' /\ Traffic' /\ Aligned' /\ LiveIffRegistered' /\ RequestsMatch'
  BY <1>1 DEF Consistent, Descriptors, Traffic, Aligned, LiveIffRegistered, RequestsMatch
<1> QED
  BY <1>1, <1>2, <1>3 DEF Consistent, Reported, NeverUnhandled

\* Peers.
LEMMA ArriveStep == ASSUME Consistent, NEW o \in Objects, Arrive(o) PROVE Consistent'
<1>1. /\ UNCHANGED <<sockets, pfds, revents, stage, fd, unsent, sends, held, peer, driver>>
      /\ arrived < MaxArrivals /\ arrived' = arrived + 1
      /\ inbound' = [inbound EXCEPT ![o] = @ + 1]
  BY DEF Arrive, list, life, user
<1>2. /\ inbound \in [Objects -> 0..MaxArrivals] /\ arrived \in Nat
      /\ \A p \in Objects : inbound[p] \in Nat /\ inbound[p] <= arrived
  BY DEF Consistent, TypeOK, Traffic
<1>3. \A p \in Objects : inbound'[p] = IF p = o THEN inbound[o] + 1 ELSE inbound[p]
  BY <1>1, <1>2
<1>4. \A p \in Objects : inbound[p] <= inbound'[p] /\ inbound'[p] <= arrived'
  BY <1>1, <1>2, <1>3
<1>5. inbound' \in [Objects -> 0..MaxArrivals] /\ arrived' \in 0..MaxArrivals
  <2>1. inbound[o] < MaxArrivals
    BY <1>1, <1>2
  <2> QED
    BY <1>1, <1>2, <2>1, OneMore
<1>6. TypeOK'
  BY <1>1, <1>5 DEF Consistent, TypeOK
<1>7. Descriptors' /\ Aligned' /\ LiveIffRegistered' /\ RequestsMatch' /\ NeverUnhandled'
  BY <1>1 DEF Consistent, Descriptors, Aligned, LiveIffRegistered, RequestsMatch, NeverUnhandled
<1>8. Traffic'
  BY <1>1, <1>4 DEF Consistent, Traffic
<1>9. Reported'
  <2> SUFFICES ASSUME driver = "ready"
               PROVE  /\ Len(revents) = Len(sockets)
                      /\ \A i \in DOMAIN sockets :
                           /\ "POLLOUT" \in revents[i] => pfds[i].out
                           /\ sockets[i] \in Acceptors /\ "POLLIN" \in revents[i]
                                => inbound'[sockets[i]] > 0
    BY <1>1 DEF Reported
  <2>1. \A i \in DOMAIN sockets : sockets[i] \in Objects
    BY FoundOnce
  <2>2. \A i \in DOMAIN sockets : inbound[sockets[i]] > 0 => inbound'[sockets[i]] > 0
    BY <1>2, <1>3, <2>1
  <2> QED
    BY <2>2 DEF Consistent, Reported
<1> QED
  BY <1>6, <1>7, <1>8, <1>9 DEF Consistent

LEMMA PeerLeavesStep == ASSUME Consistent, NEW o \in Objects, PeerLeaves(o) PROVE Consistent'
<1>1. /\ UNCHANGED <<sockets, pfds, revents, stage, fd, unsent, sends, held, inbound, arrived, driver>>
      /\ o \in Tcp
  BY DEF PeerLeaves, list, life, user
<1>2. PICK how \in {"closed", "reset"} : peer' = [peer EXCEPT ![o] = how]
  BY DEF PeerLeaves
<1>3. /\ peer' \in [Objects -> {"open", "closed", "reset", "none"}]
      /\ \A p \in Objects : p \notin Tcp => peer'[p] = peer[p]
  BY <1>1, <1>2 DEF Consistent, TypeOK
<1>4. TypeOK'
  BY <1>1, <1>3 DEF Consistent, TypeOK
<1>5. Descriptors' /\ Aligned' /\ LiveIffRegistered' /\ RequestsMatch' /\ Reported' /\ NeverUnhandled'
  BY <1>1
  DEF Consistent, Descriptors, Aligned, LiveIffRegistered, RequestsMatch, Reported, NeverUnhandled
<1>6. Traffic'
  BY <1>1, <1>3 DEF Consistent, Traffic
<1> QED
  BY <1>4, <1>5, <1>6 DEF Consistent

LEMMA ListenStep == ASSUME Consistent, NEW o \in Objects, Listen(o) PROVE Consistent'
<1>1. /\ UNCHANGED <<sockets, pfds, revents, stage, fd, unsent, sends, held, inbound, arrived, driver>>
      /\ peer' = [peer EXCEPT ![o] = "open"]
  BY DEF Listen, list, life, user
<1>2. /\ peer' \in [Objects -> {"open", "closed", "reset", "none"}]
      /\ \A p \in Objects : peer'[p] = "closed" => peer[p] = "closed"
  BY <1>1 DEF Consistent, TypeOK
<1>3. TypeOK'
  BY <1>1, <1>2 DEF Consistent, TypeOK
<1>4. Descriptors' /\ Aligned' /\ LiveIffRegistered' /\ RequestsMatch' /\ Reported' /\ NeverUnhandled'
  BY <1>1
  DEF Consistent, Descriptors, Aligned, LiveIffRegistered, RequestsMatch, Reported, NeverUnhandled
<1>5. Traffic'
  BY <1>1, <1>2 DEF Consistent, Traffic
<1> QED
  BY <1>3, <1>4, <1>5 DEF Consistent

-------------------------------------------------------------------------------
(* The theorems. *)

LEMMA InitConsistent == Init => Consistent
<1> SUFFICES ASSUME Init PROVE Consistent
  OBVIOUS
<1>1. /\ sockets = <<>> /\ pfds = <<>> /\ revents = <<>> /\ driver = "out"
      /\ DOMAIN sockets = {} /\ Len(sockets) = Len(pfds)
  BY DEF Init
<1>2. sockets \in Seq(Objects) /\ pfds \in Seq(Pollfds) /\ revents \in Seq(SUBSET Events)
  BY <1>1, EmptySeq
<1>3. TypeOK
  BY <1>1, <1>2 DEF Init, TypeOK, Stages, Pollfds, Events
<1>4. Descriptors /\ Traffic
  BY DEF Init, Descriptors, Traffic, HasFd
<1>5. Aligned /\ LiveIffRegistered /\ RequestsMatch
  BY <1>1 DEF Init, Aligned, LiveIffRegistered, RequestsMatch
<1> QED
  BY <1>1, <1>3, <1>4, <1>5 DEF Consistent, Reported, NeverUnhandled

LEMMA NextConsistent == Consistent /\ [Next]_vars => Consistent'
<1> SUFFICES ASSUME Consistent, [Next]_vars PROVE Consistent'
  OBVIOUS
<1>1. CASE Poll
  BY <1>1, PollStep
<1>2. CASE Serve
  BY <1>2, ReceiveStep, AcceptStep, AcceptFailsStep, DisconnectStep, DiscardStep, WriteStep
  DEF Serve
<1>3. CASE EndCallback
  BY <1>3, EndCallbackStep
<1>4. CASE \E o \in Tcp : HandlerThrows(o)
  BY <1>4, HandlerThrowsStep
<1>5. CASE \E o \in Objects : \/ Open(o) \/ Register(o) \/ Listen(o) \/ Unregister(o) \/ Close(o)
                             \/ Send(o) \/ Drop(o) \/ Arrive(o) \/ PeerLeaves(o)
  BY <1>5, OpenStep, RegisterStep, ListenStep, UnregisterStep, CloseStep, SendStep, DropStep,
     ArriveStep, PeerLeavesStep
<1>6. CASE UNCHANGED vars
  <2>1. UNCHANGED <<sockets, pfds, revents, stage, fd, unsent, sends, held, inbound, arrived, peer,
                    driver>>
    BY <1>6 DEF vars, list, life, user, net
  <2> QED
    BY <2>1
    DEF Consistent, TypeOK, Descriptors, Traffic, Aligned, LiveIffRegistered, RequestsMatch,
        Reported, NeverUnhandled
<1> QED
  BY <1>1, <1>2, <1>3, <1>4, <1>5, <1>6 DEF Next

\* Every step leaves the vectors, the objects and the descriptors consistent.
THEOREM AlwaysConsistent == Spec => []Consistent
<1>1. Init => Consistent
  BY InitConsistent
<1>2. Consistent /\ [Next]_vars => Consistent'
  BY NextConsistent
<1> QED
  BY <1>1, <1>2, PTL DEF Spec

\* Every variable of the registry keeps its type: no counter leaves its bounds.
THEOREM TypeCorrect == Spec => []TypeOK
<1>1. Consistent => TypeOK
  BY DEF Consistent
<1> QED
  BY <1>1, AlwaysConsistent, PTL

\* The vectors sockets and pfds are aligned whenever the driver reads them: the
\* assertions of QuerySockets and DoOneSocketTask do not fail.
THEOREM VectorsAligned == Spec => []Aligned
<1>1. Consistent => Aligned
  BY DEF Consistent
<1> QED
  BY <1>1, AlwaysConsistent, PTL

\* The driver knows exactly the sockets that are connected, each once, however often
\* their destructors and their disconnects unregister a descriptor.
THEOREM RegistrationExact == Spec => []LiveIffRegistered
<1>1. Consistent => LiveIffRegistered
  BY DEF Consistent
<1> QED
  BY <1>1, AlwaysConsistent, PTL

\* Poll reports nothing that DoOneSocketTask passes over: "unhandled poll event" is
\* never thrown.
THEOREM EventsHandled == Spec => []NeverUnhandled
<1>1. Consistent => NeverUnhandled
  BY DEF Consistent
<1> QED
  BY <1>1, AlwaysConsistent, PTL

\* POLLOUT is requested of a socket exactly while it has something to send.
THEOREM RequestsExact == Spec => []RequestsMatch
<1>1. Consistent => RequestsMatch
  BY DEF Consistent
<1> QED
  BY <1>1, AlwaysConsistent, PTL
===============================================================================
