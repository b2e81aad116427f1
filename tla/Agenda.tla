-------------------------------- MODULE Agenda --------------------------------
(***************************************************************************)
(* What ToDos promise: a task that is due, and was neither cancelled nor   *)
(* shifted, is executed; never early; the one that has been due longest    *)
(* first; of those due at the same time the one scheduled first.           *)
(* Scheduler implements this specification.                                *)
(***************************************************************************)
EXTENDS Integers, Sequences

CONSTANTS Tasks, MaxTime

VARIABLES
  now,      \* the time
  due,      \* when each task is to be executed
  order,    \* the scheduled tasks, in the order they were scheduled
  running   \* the tasks being executed: none or one

vars == <<now, due, order, running>>

Scheduled == {order[i] : i \in DOMAIN order}

\* The others, in the same order.
Without(t) ==
  IF \A i \in DOMAIN order : order[i] # t THEN order
  ELSE LET p == CHOOSE i \in DOMAIN order : order[i] = t /\ \A j \in 1..i - 1 : order[j] # t
       IN  SubSeq(order, 1, p - 1) \o SubSeq(order, p + 1, Len(order))

\* t was scheduled before u.
Earlier(t, u) == \E i, j \in DOMAIN order : i <= j /\ order[i] = t /\ order[j] = u

Init == /\ now = 0
        /\ due \in [Tasks -> 0..MaxTime]
        /\ order = <<>>
        /\ running = {}

Tick == /\ now < MaxTime
        /\ now' = now + 1
        /\ UNCHANGED <<due, order, running>>

Schedule(t) == /\ order' = Append(Without(t), t)
               /\ \E w \in 0..MaxTime : due' = [due EXCEPT ![t] = w]
               /\ UNCHANGED <<now, running>>

Cancel(t) == /\ order' = Without(t)
             /\ UNCHANGED <<now, due, running>>

Start(t) == /\ running = {}
            /\ t \in Scheduled
            /\ due[t] <= now
            /\ \A u \in Scheduled : due[t] < due[u] \/ (due[t] = due[u] /\ Earlier(t, u))
            /\ order' = Without(t)
            /\ running' = {t}
            /\ UNCHANGED <<now, due>>

Finish == /\ running # {}
          /\ running' = {}
          /\ UNCHANGED <<now, due, order>>

Next == Tick \/ Finish \/ \E t \in Tasks : Schedule(t) \/ Cancel(t) \/ Start(t)

Spec == Init /\ [][Next]_vars
===============================================================================
