------------------------------- MODULE Scheduler -------------------------------
(***************************************************************************)
(* Scheduled tasks (ToDo) and how Driver::DriverImpl::Step executes them   *)
(* and computes the timeout of its poll from them.  Time is counted in     *)
(* ticks, several to the millisecond, since the clock is finer than the    *)
(* Duration of the interface and than the int that poll takes.             *)
(*                                                                         *)
(* ToDo objects are shifted and cancelled by other threads between steps   *)
(* (Contract) and by tasks on the driver's thread.  The state inside one   *)
(* call of StepTodos (its deadline, its reading of the clock) is explicit: *)
(* time passes while tasks run.                                            *)
(***************************************************************************)
EXTENDS Integers, Sequences, FiniteSets

CONSTANTS
  Tasks,       \* ToDo objects
  Timeouts,    \* timeouts that Step() is called with, in ms; negative: unlimited
  TicksPerMs,  \* resolution of the clock
  IntBits,     \* width of the int that poll takes
  MaxTime,     \* bound: the clock stops there
  MaxWhen      \* bound: ToDos are scheduled for no later time

ASSUME TimeAssumption    == /\ TicksPerMs \in Nat \ {0}
                            /\ IntBits \in Nat \ {0, 1}
                            /\ MaxTime \in Nat
                            /\ MaxWhen \in 0..MaxTime
ASSUME TimeoutAssumption == Timeouts \subseteq Int

\* When a poll without timeout ends: after any poll with one.
Forever == MaxTime + TicksPerMs * 2 ^ IntBits

VARIABLES
  now,       \* Clock::now()
  todos,     \* the scheduled ToDos, sorted
  when,      \* when each ToDo is to be executed
  driver,    \* "out" of Step(), in "todos" (StepTodos), in a "task" or in "poll"
  current,   \* the tasks being executed: none or one
  deadline,  \* what StepTodos keeps: its kind, its reading of the clock, its end
  pollEnd,   \* when poll times out
  order      \* the scheduled ToDos, in the order they were scheduled (no code reads it)

list == <<todos, when, order>>
step == <<driver, current, deadline, pollEnd>>
vars == <<now, list, step>>

Init == /\ now = 0
        /\ todos = <<>>
        /\ when = [t \in Tasks |-> 0]
        /\ driver = "out"
        /\ current = {}
        /\ deadline = [kind |-> "zero", now |-> 0, end |-> 0]
        /\ pollEnd = 0
        /\ order = <<>>

-------------------------------------------------------------------------------
(* The sorted list. *)

\* Mutant: of equal times the newest comes first.
WhereNotAfter(q, w) == CHOOSE i \in 1..Len(q) + 1 :
                         /\ \A j \in 1..i - 1 : when[q[j]] < w
                         /\ i <= Len(q) => w <= when[q[i]]

\* The first ToDo due after w, or the end: Find(WhenBefore{w}).
Where(q, w) == CHOOSE i \in 1..Len(q) + 1 :
                 /\ \A j \in 1..i - 1 : ~(w < when[q[j]])
                 /\ i <= Len(q) => w < when[q[i]]

Inserted(q, t, w) == LET p == Where(q, w)
                     IN  SubSeq(q, 1, p - 1) \o <<t>> \o SubSeq(q, p, Len(q))

\* The first place of t is found and erased, if there is one.
Removed(q, t) ==
  IF \A i \in DOMAIN q : q[i] # t THEN q
  ELSE LET p == CHOOSE i \in DOMAIN q : q[i] = t /\ \A j \in 1..i - 1 : q[j] # t
       IN  SubSeq(q, 1, p - 1) \o SubSeq(q, p + 1, Len(q))

\* Mutant: Move without Remove.
ShiftKeeps(t, w) == /\ todos' = Inserted(todos, t, w)
                    /\ when' = [when EXCEPT ![t] = w]
                    /\ order' = Append(Removed(order, t), t)

\* ToDoInsert of a new ToDo and ToDoMove of an old one: remove it if it is there,
\* insert it where it belongs.
Shift(t, w) == /\ todos' = Inserted(Removed(todos, t), t, w)
               /\ when' = [when EXCEPT ![t] = w]
               /\ order' = Append(Removed(order, t), t)

\* ToDoRemove; the ToDo may have been executed or cancelled already.
Cancel(t) == /\ todos' = Removed(todos, t)
             /\ order' = Removed(order, t)
             /\ UNCHANGED when

-------------------------------------------------------------------------------
(* Durations. *)

\* Conversion of ticks to whole milliseconds truncates.
ToDuration(ticks) == ticks \div TicksPerMs

\* Mutant: a timeout that has passed is negative.
RemainingUnclamped(d) == CASE d.kind = "unlimited" -> -1
                           [] d.kind = "zero"      -> 0
                           [] d.kind = "limited"   -> ToDuration(d.end - d.now)

\* Deadline*::Remaining(): never negative unless unlimited.
Remaining(d) == CASE d.kind = "unlimited" -> -1
                  [] d.kind = "zero"      -> 0
                  [] d.kind = "limited"   -> IF d.end < d.now THEN 0
                                             ELSE ToDuration(d.end - d.now)

\* Deadline*::TimeLeft().
TimeLeft(d) == CASE d.kind = "unlimited" -> TRUE
                 [] d.kind = "zero"      -> FALSE
                 [] d.kind = "limited"   -> d.now < d.end

\* Mutant: negative durations are not special.
MinDurationPlain(a, b) == IF a < b THEN a ELSE b

\* MinDuration(): a negative duration is no limit.
MinDuration(a, b) == IF b < 0 \/ a < b THEN a ELSE b

\* ToMsec(): the conversion to int keeps the low bits.
ToMsec(ms) == LET low == ms % (2 ^ IntBits)
              IN  IF low < 2 ^ (IntBits - 1) THEN low ELSE low - 2 ^ IntBits

\* The deadline of a Step() that has ToDos to look at.
NewDeadline(timeout) ==
  [kind |-> IF timeout < 0 THEN "unlimited" ELSE IF timeout = 0 THEN "zero" ELSE "limited",
   now  |-> now,
   end  |-> now + timeout * TicksPerMs]

\* StepSockets: poll for that many milliseconds, for ever if negative.
PollFor(ms) == /\ driver' = "poll"
               /\ pollEnd' = IF ToMsec(ms) < 0 THEN Forever
                             ELSE now + ToMsec(ms) * TicksPerMs

-------------------------------------------------------------------------------
(* The driver's thread. *)

\* Without ToDos there is no deadline to keep; it is recorded all the same.
StepEmpty(timeout) == /\ driver = "out"
                      /\ todos = <<>>
                      /\ PollFor(timeout)
                      /\ deadline' = NewDeadline(timeout)
                      /\ UNCHANGED <<now, list, current>>

StepWithTodos(timeout) == /\ driver = "out"
                          /\ todos # <<>>
                          /\ driver' = "todos"
                          /\ deadline' = NewDeadline(timeout)
                          /\ UNCHANGED <<now, list, current, pollEnd>>

\* Mutant: the time until the first ToDo is due is rounded up.
FrontRoundsUp == /\ driver = "todos"
                 /\ LET until == when[Head(todos)] - deadline.now
                    IN  /\ until > 0
                        /\ PollFor(MinDuration(ToDuration(until) + 1, Remaining(deadline)))
                 /\ UNCHANGED <<now, list, current, deadline>>

\* StepTodos: the first ToDo is not due, poll until it is.
FrontNotDue == /\ driver = "todos"
               /\ LET until == when[Head(todos)] - deadline.now
                  IN  /\ until > 0
                      /\ PollFor(MinDuration(ToDuration(until), Remaining(deadline)))
               /\ UNCHANGED <<now, list, current, deadline>>

\* StepTodos: the first ToDo is due, it is taken from the list and executed.
RunFront == /\ driver = "todos"
            /\ when[Head(todos)] <= deadline.now
            /\ driver' = "task"
            /\ current' = {Head(todos)}
            /\ todos' = Tail(todos)
            /\ order' = Removed(order, Head(todos))
            /\ UNCHANGED <<now, when, deadline, pollEnd>>

\* A task shifts or cancels ToDos, itself included.
TaskShift(t, w) == /\ driver = "task"
                   /\ Shift(t, w)
                   /\ UNCHANGED <<now, step>>

TaskCancel(t) == /\ driver = "task"
                 /\ Cancel(t)
                 /\ UNCHANGED <<now, step>>

\* Mutant: the clock is not read.
TaskReturnsUnclocked ==
  /\ driver = "task"
  /\ current' = {}
  /\ IF todos # <<>> /\ TimeLeft(deadline)
       THEN driver' = "todos" /\ UNCHANGED pollEnd
       ELSE PollFor(IF todos = <<>> THEN Remaining(deadline) ELSE 0)
  /\ UNCHANGED <<now, list, deadline>>

\* The task returns: read the clock, go on while ToDos and time remain.
TaskReturns == /\ driver = "task"
               /\ current' = {}
               /\ deadline' = [deadline EXCEPT !.now = now]
               /\ IF todos # <<>> /\ TimeLeft(deadline')
                    THEN driver' = "todos" /\ UNCHANGED pollEnd
                    ELSE PollFor(IF todos = <<>> THEN Remaining(deadline') ELSE 0)
               /\ UNCHANGED <<now, list>>

\* The task throws: Step() is left.
TaskThrows == /\ driver = "task"
              /\ current' = {}
              /\ driver' = "out"
              /\ UNCHANGED <<now, list, deadline, pollEnd>>

\* A timeout passes; beyond the bound of the clock it is taken to.
PollTimeout == /\ driver = "poll"
               /\ pollEnd # Forever
               /\ now >= pollEnd \/ now = MaxTime
               /\ driver' = "out"
               /\ UNCHANGED <<now, list, current, deadline, pollEnd>>

\* A socket is ready, or another thread bumps.
PollWakes == /\ driver = "poll"
             /\ driver' = "out"
             /\ UNCHANGED <<now, list, current, deadline, pollEnd>>

-------------------------------------------------------------------------------
(* Other threads, between steps. *)

UserShift(t, w) == /\ driver = "out"
                   /\ Shift(t, w)
                   /\ UNCHANGED <<now, step>>

UserCancel(t) == /\ driver = "out"
                 /\ Cancel(t)
                 /\ UNCHANGED <<now, step>>

Tick == /\ now < MaxTime
        /\ now' = now + 1
        /\ UNCHANGED <<list, step>>

-------------------------------------------------------------------------------
Step == \E timeout \in Timeouts : StepEmpty(timeout) \/ StepWithTodos(timeout)

StepTodos == FrontNotDue \/ RunFront

Next == \/ Step \/ StepTodos \/ TaskReturns \/ TaskThrows \/ PollTimeout \/ PollWakes
        \/ \E t \in Tasks : \/ TaskCancel(t) \/ UserCancel(t)
                            \/ \E w \in 0..MaxWhen : TaskShift(t, w) \/ UserShift(t, w)
        \/ Tick

Spec == Init /\ [][Next]_vars

\* The driver keeps stepping, tasks return, time passes.
FairSpec == /\ Spec
            /\ WF_vars(Step)
            /\ WF_vars(StepTodos)
            /\ WF_vars(TaskReturns)
            /\ WF_vars(PollTimeout)
            /\ WF_vars(Tick)

-------------------------------------------------------------------------------
(* Invariants. *)

Scheduled == {todos[i] : i \in DOMAIN todos}

TypeOK == /\ now \in 0..MaxTime
          /\ todos \in Seq(Tasks)
          /\ when \in [Tasks -> 0..MaxTime]
          /\ driver \in {"out", "todos", "task", "poll"}
          /\ IF driver = "task" THEN \E t \in Tasks : current = {t} ELSE current = {}
          /\ deadline.kind \in {"unlimited", "zero", "limited"}
          /\ deadline.now \in 0..now
          /\ pollEnd \in Nat
          /\ order \in Seq(Tasks)

\* t was scheduled before u.
Earlier(t, u) == \E i, j \in DOMAIN order : i < j /\ order[i] = t /\ order[j] = u

\* The list is sorted by time, ToDos of the same time in the order they were
\* scheduled, after any sequence of Insert, Move, Remove and execution; no ToDo is
\* in it twice.
SortedStable ==
  \A i, j \in DOMAIN todos : i < j =>
    \/ when[todos[i]] < when[todos[j]]
    \/ when[todos[i]] = when[todos[j]] /\ Earlier(todos[i], todos[j])

\* A poll never sleeps past the time of a ToDo, up to what passed between the
\* reading of the clock and the poll.
NeverOversleeps ==
  driver = "poll" =>
    \A t \in Scheduled : pollEnd <= now \/ pollEnd - when[t] <= now - deadline.now

\* A Step() with a timeout never blocks beyond it, up to the same delay: what remains
\* of a timeout that has passed is zero and not negative, which would be for ever.
StepWithinTimeout ==
  driver = "poll" =>
    \/ deadline.kind = "unlimited"
    \/ pollEnd <= now
    \/ deadline.kind = "limited" /\ pollEnd - deadline.end <= now - deadline.now

-------------------------------------------------------------------------------
(* What ToDos promise. *)

Promise == INSTANCE Agenda WITH
             due     <- when,
             running <- current

\* Cancelled tasks do not run, others not early, earliest first, oldest first.
ImplementsAgenda == Promise!Spec

-------------------------------------------------------------------------------
(* Liveness. *)

SomethingDue == \E t \in Scheduled : when[t] <= now

\* While some ToDo is due, tasks are executed.
DueTasksRun == SomethingDue ~> driver = "task" \/ ~SomethingDue

\* The time that StepTodos has ends, at a time that the bound of the clock allows.
TimeEnds == deadline.kind = "zero" \/ (deadline.kind = "limited" /\ deadline.end <= MaxTime)

\* StepTodos comes to an end and lets the sockets be polled when its time is up, although
\* tasks may go on scheduling what is due at once.  It never need without a timeout.
StepTodosEnds == driver = "todos" /\ TimeEnds ~> driver \in {"poll", "out"}

===============================================================================
