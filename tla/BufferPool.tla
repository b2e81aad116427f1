------------------------------ MODULE BufferPool ------------------------------
(***************************************************************************)
(* BufferPool: buffers are lent to threads as smart pointers that may be   *)
(* handed on (into a send queue, to a receive handler) and come back when  *)
(* the last holder drops them, on whichever thread that is.  Get() and     *)
(* Recycle() run under m_mtx, each is one step.                            *)
(***************************************************************************)
EXTENDS Integers, Sequences, FiniteSets

CONSTANTS
  Holders,   \* threads and queues that hold buffers
  Buffers,   \* buffers that can ever be allocated; bounds an unlimited pool
  Limits,    \* the limits that a pool may be created with, 0 for none
  Bits       \* width of size_t

ASSUME PoolAssumption == /\ Limits \subseteq 0..Cardinality(Buffers)
                         /\ Bits \in Nat \ {0}
                         /\ IsFiniteSet(Buffers)
                         /\ Cardinality(Buffers) < 2 ^ Bits

VARIABLES
  maxCount, \* the limit that the pool was created with
  idle,     \* m_idle, a stack, its top last
  busy,     \* m_busy; the order of the deque does not matter
  held,     \* the buffers each holder points to
  content,  \* whether a buffer is "clear" or holds "data"
  refused,  \* the holders whose last Get() threw "out of buffers"
  alive     \* whether the pool exists

vars == <<maxCount, idle, busy, held, content, refused, alive>>

Idle == {idle[i] : i \in DOMAIN idle}

\* Mutant: the limit itself.
LimitPlain == maxCount % 2 ^ Bits

\* m_maxCount: one less than the limit, in the arithmetic of size_t.
Limit == (maxCount - 1) % 2 ^ Bits

\* The buffers of a limit are allocated at once.
Init == /\ maxCount \in Limits
        /\ idle \in {q \in [1..maxCount -> Buffers] :
                       \A i, j \in 1..maxCount : q[i] = q[j] => i = j}
        /\ busy = {}
        /\ held = [h \in Holders |-> {}]
        /\ content = [b \in Buffers |-> "clear"]
        /\ refused = {}
        /\ alive = TRUE

-------------------------------------------------------------------------------
\* b is lent to h.
Lend(h, b) == /\ busy' = busy \cup {b}
              /\ held' = [held EXCEPT ![h] = @ \cup {b}]
              /\ refused' = refused \ {h}

\* Get(): the most recently returned buffer, its content cleared.
GetIdle(h) == /\ alive
              /\ idle # <<>>
              /\ LET b == idle[Len(idle)]
                 IN  Lend(h, b) /\ content' = [content EXCEPT ![b] = "clear"]
              /\ idle' = SubSeq(idle, 1, Len(idle) - 1)
              /\ UNCHANGED <<alive, maxCount>>

\* Get(): a new buffer.
GetNew(h) == /\ alive
             /\ idle = <<>>
             /\ Cardinality(busy) <= Limit
             /\ \E b \in Buffers \ busy : Lend(h, b)
             /\ UNCHANGED <<idle, content, alive, maxCount>>

\* Get() throws.
GetThrows(h) == /\ alive
                /\ idle = <<>>
                /\ Cardinality(busy) > Limit
                /\ refused' = refused \cup {h}
                /\ UNCHANGED <<idle, busy, held, content, alive, maxCount>>

\* The holder fills its buffer.
Fill(h, b) == /\ b \in held[h]
              /\ content' = [content EXCEPT ![b] = "data"]
              /\ UNCHANGED <<idle, busy, held, refused, alive, maxCount>>

\* The smart pointer is moved.
Hand(h, g, b) == /\ b \in held[h]
                 /\ held' = [[held EXCEPT ![h] = @ \ {b}] EXCEPT ![g] = @ \cup {b}]
                 /\ UNCHANGED <<idle, busy, content, refused, alive, maxCount>>

\* Mutant: the buffer stays among the busy ones.
RecycleKeepsBusy(h, b) == /\ b \in held[h]
                          /\ held' = [held EXCEPT ![h] = @ \ {b}]
                          /\ idle' = Append(idle, b)
                          /\ UNCHANGED <<busy, content, refused, alive, maxCount>>

\* The smart pointer is dropped: Recycle().  That the buffer is found among the busy
\* ones, lest the exception leaves a deleter, is Partition.
Recycle(h, b) == /\ b \in held[h]
                 /\ held' = [held EXCEPT ![h] = @ \ {b}]
                 /\ idle' = Append(idle, b)
                 /\ busy' = busy \ {b}
                 /\ UNCHANGED <<content, refused, alive, maxCount>>

\* ~BufferPool, which the user calls when nobody holds a buffer.
Destroy == /\ alive
           /\ \A h \in Holders : held[h] = {}
           /\ alive' = FALSE
           /\ UNCHANGED <<idle, busy, held, content, refused, maxCount>>

Next == \/ \E h \in Holders : \/ GetIdle(h) \/ GetNew(h) \/ GetThrows(h)
                              \/ \E b \in Buffers : \/ Fill(h, b) \/ Recycle(h, b)
                                                    \/ \E g \in Holders : Hand(h, g, b)
        \/ Destroy

Spec == Init /\ [][Next]_vars

-------------------------------------------------------------------------------
(* Invariants. *)

TypeOK == /\ maxCount \in Limits
          /\ idle \in Seq(Buffers)
          /\ busy \subseteq Buffers
          /\ held \in [Holders -> SUBSET Buffers]
          /\ content \in [Buffers -> {"clear", "data"}]
          /\ refused \subseteq Holders
          /\ alive \in BOOLEAN

\* Every allocated buffer is in one of the two lists and once; the busy ones are
\* exactly those that somebody holds, each in one hand.
Partition ==
  /\ busy = UNION {held[h] : h \in Holders}
  /\ \A g, h \in Holders : \A b \in held[g] : b \in held[h] => g = h
  /\ busy \cap Idle = {}
  /\ \A i, j \in DOMAIN idle : idle[i] = idle[j] => i = j

\* A pool refuses exactly when its limit is lent: a limited one never allocates, what
\* it lends and what it keeps is the limit; one without a limit, whose m_maxCount has
\* wrapped around, never refuses.
LimitExact ==
  IF maxCount = 0
    THEN refused = {}
    ELSE /\ Cardinality(busy) + Len(idle) = maxCount
         /\ idle = <<>> <=> Cardinality(busy) > Limit
===============================================================================
