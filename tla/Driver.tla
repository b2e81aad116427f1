-------------------------------- MODULE Driver --------------------------------
(***************************************************************************)
(* The event loop of sockpuppet (Driver::DriverImpl): one thread, the      *)
(* Stepper, calls Step() or Run(); any number of client threads register   *)
(* and unregister sockets and ToDos, call Stop() or destroy the driver.    *)
(*                                                                         *)
(* This module models the part every other component relies on: the        *)
(* two-mutex handshake that makes a blocking Step() yield to a client, the *)
(* signalling pipe that ends its poll, and the flag that ends Run().  What *)
(* stepMtx guards (todos, sockets, pfds) is abstracted to the set of       *)
(* clients whose socket is registered.  A nested PauseGuard of a task that *)
(* runs on the Stepper's own thread succeeds at once, stepMtx being        *)
(* recursive, and nobody can observe it: TaskWatch is a single step.       *)
(***************************************************************************)
EXTENDS Naturals, FiniteSets

CONSTANTS Clients,    \* threads that use sockets and ToDos of the driver
          Stepper,    \* the thread that calls Step() or Run()
          NoThread,   \* owner of a free mutex
          PipeCap,    \* datagrams the receive buffer of the pipe can hold
          MaxCalls,   \* bound: calls the clients and tasks make in a behaviour
          MayDestroy  \* whether the driver may be destroyed

ASSUME ThreadsAssumption == /\ Stepper \notin Clients
                            /\ NoThread \notin Clients \cup {Stepper}
ASSUME BoundsAssumption  == /\ PipeCap \in Nat \ {0}
                            /\ MaxCalls \in Nat
ASSUME DestroyAssumption == MayDestroy \in BOOLEAN

VARIABLES
  stepMtx,     \* owner of stepMtx
  pauseMtx,    \* owner of pauseMtx
  pipe,        \* datagrams waiting in the signalling pipe
  shouldStop,  \* the flag that ends Run(); uninitialised before the first Run()
  running,     \* whether the Stepper is inside Run() rather than a lone Step()
  sockets,     \* clients whose socket is registered; guarded by stepMtx
  polled,      \* the registrations handed to a poll that is blocking
  calls,       \* calls made so far
  lifetime,    \* "alive", "closing" inside ~DriverImpl, "gone" after it
  pc           \* where each thread is

locks == <<stepMtx, pauseMtx>>
vars  == <<stepMtx, pauseMtx, pipe, shouldStop, running, sockets, polled,
           calls, lifetime, pc>>

Threads == Clients \cup {Stepper}

StepperLabels == {"idle", "runStart", "runCheck", "stepLock", "todos", "poll",
                  "callback", "stepUnlock", "pauseLock", "pauseUnlock"}
ClientLabels  == {"idle", "tryLock", "pauseLock", "bump", "waitStep",
                  "pauseUnlock", "critical", "release", "stopFlag", "stopBump"}

\* The Stepper uses what stepMtx guards.
InStep == pc[Stepper] \in {"todos", "poll", "callback"}

Init == /\ stepMtx = NoThread
        /\ pauseMtx = NoThread
        /\ pipe = 0
        /\ shouldStop \in BOOLEAN
        /\ running = FALSE
        /\ sockets = {}
        /\ polled = {}
        /\ calls = 0
        /\ lifetime = "alive"
        /\ pc = [t \in Threads |-> "idle"]

-------------------------------------------------------------------------------
(* Moves of a program counter, and the two ends of the signalling pipe.  Once *)
(* the driver is gone, what a thread still does to it is undefined: the model  *)
(* stops there.                                                                *)

Go(t, from, to) == /\ lifetime # "gone"
                   /\ pc[t] = from
                   /\ pc' = [pc EXCEPT ![t] = to]

\* A new call, within the bound.
Call == /\ calls < MaxCalls
        /\ lifetime = "alive"
        /\ calls' = calls + 1

\* Bump() sends one datagram over loopback; the kernel drops it silently when
\* the receive buffer is full.
Bumped(p) == IF p < PipeCap THEN p + 1 ELSE p

\* Unbump() receives one datagram.
Unbumped(p) == p - 1

-------------------------------------------------------------------------------
(* The Stepper. *)

CallStep == /\ lifetime = "alive"
            /\ Go(Stepper, "idle", "stepLock")
            /\ running' = FALSE
            /\ UNCHANGED <<locks, pipe, shouldStop, sockets, polled, calls, lifetime>>

CallRun == /\ lifetime = "alive"
           /\ Go(Stepper, "idle", "runStart")
           /\ running' = TRUE
           /\ UNCHANGED <<locks, pipe, shouldStop, sockets, polled, calls, lifetime>>

RunStart == /\ Go(Stepper, "runStart", "runCheck")
            /\ shouldStop' = FALSE
            /\ UNCHANGED <<locks, pipe, running, sockets, polled, calls, lifetime>>

RunAgain == /\ ~shouldStop
            /\ Go(Stepper, "runCheck", "stepLock")
            /\ UNCHANGED <<locks, pipe, shouldStop, running, sockets, polled, calls, lifetime>>

RunReturn == /\ shouldStop
             /\ Go(Stepper, "runCheck", "idle")
             /\ running' = FALSE
             /\ UNCHANGED <<locks, pipe, shouldStop, sockets, polled, calls, lifetime>>

\* StepGuard's constructor.
StepLock == /\ stepMtx = NoThread
            /\ Go(Stepper, "stepLock", "todos")
            /\ stepMtx' = Stepper
            /\ UNCHANGED <<pauseMtx, pipe, shouldStop, running, sockets, polled, calls, lifetime>>

\* A user task, due ToDo or socket callback, registers or unregisters a socket.
TaskWatch == /\ pc[Stepper] \in {"todos", "callback"}
             /\ Call
             /\ \E c \in Clients : sockets' \in {sockets \cup {c}, sockets \ {c}}
             /\ UNCHANGED <<locks, pipe, shouldStop, running, polled, lifetime, pc>>

\* Mutant: Stop() from a task does not bump.
TaskStopSilent == /\ pc[Stepper] \in {"todos", "callback"}
                  /\ Call
                  /\ shouldStop' = TRUE
                  /\ UNCHANGED <<locks, pipe, running, sockets, polled, lifetime, pc>>

\* A user task calls Stop(); only the Stepper itself reads the flag and the pipe.
TaskStop == /\ pc[Stepper] \in {"todos", "callback"}
            /\ Call
            /\ shouldStop' = TRUE
            /\ pipe' = Bumped(pipe)
            /\ UNCHANGED <<locks, running, sockets, polled, lifetime, pc>>

\* StepTodos returns, StepSockets polls.
EnterPoll == /\ Go(Stepper, "todos", "poll")
             /\ polled' = sockets
             /\ UNCHANGED <<locks, pipe, shouldStop, running, sockets, calls, lifetime>>

LeavePoll(to) == /\ Go(Stepper, "poll", to)
                 /\ polled' = {}

PollPipe == /\ pipe > 0
            /\ LeavePoll("stepUnlock")
            /\ pipe' = Unbumped(pipe)
            /\ UNCHANGED <<locks, shouldStop, running, sockets, calls, lifetime>>

\* The pipe is looked at first: sockets are served only when it is empty.
PollSocket == /\ pipe = 0
              /\ polled # {}
              /\ LeavePoll("callback")
              /\ UNCHANGED <<locks, pipe, shouldStop, running, sockets, calls, lifetime>>

PollTimeout == /\ pipe = 0
               /\ LeavePoll("stepUnlock")
               /\ UNCHANGED <<locks, pipe, shouldStop, running, sockets, calls, lifetime>>

EndCallback == /\ Go(Stepper, "callback", "stepUnlock")
               /\ UNCHANGED <<locks, pipe, shouldStop, running, sockets, polled, calls, lifetime>>

\* poll fails (EINTR included) or a user task throws: StepGuard is unwound and
\* the exception leaves Step() and Run().
StepThrows == /\ lifetime # "gone"
              /\ InStep
              /\ pc' = [pc EXCEPT ![Stepper] = "stepUnlock"]
              /\ running' = FALSE
              /\ polled' = {}
              /\ UNCHANGED <<locks, pipe, shouldStop, sockets, calls, lifetime>>

\* Mutant: StepGuard's destructor does not wait for pauseMtx.
StepUnlockOnly == /\ Go(Stepper, "stepUnlock", IF running THEN "runCheck" ELSE "idle")
                  /\ stepMtx' = NoThread
                  /\ UNCHANGED <<pauseMtx, pipe, shouldStop, running, sockets, polled, calls, lifetime>>

\* Mutant: it waits for pauseMtx with stepMtx in its hand.
StepUnlockLate == /\ Go(Stepper, "stepUnlock", "pauseLock")
                  /\ UNCHANGED <<locks, pipe, shouldStop, running, sockets, polled, calls, lifetime>>

\* StepGuard's destructor: release stepMtx, then acquire and release pauseMtx.
StepUnlock == /\ Go(Stepper, "stepUnlock", "pauseLock")
              /\ stepMtx' = NoThread
              /\ UNCHANGED <<pauseMtx, pipe, shouldStop, running, sockets, polled, calls, lifetime>>

StepPauseLock == /\ pauseMtx = NoThread
                 /\ Go(Stepper, "pauseLock", "pauseUnlock")
                 /\ pauseMtx' = Stepper
                 /\ UNCHANGED <<stepMtx, pipe, shouldStop, running, sockets, polled, calls, lifetime>>

StepPauseUnlock == /\ Go(Stepper, "pauseUnlock", IF running THEN "runCheck" ELSE "idle")
                   /\ pauseMtx' = NoThread
                   /\ UNCHANGED <<stepMtx, pipe, shouldStop, running, sockets, polled, calls, lifetime>>

-------------------------------------------------------------------------------
(* A client c. *)

\* Any operation that takes a PauseGuard.
CallPause(c) == /\ Call
                /\ Go(c, "idle", "tryLock")
                /\ UNCHANGED <<locks, pipe, shouldStop, running, sockets, polled, lifetime>>

\* Mutant: the result of try_lock is ignored.
TryLockIgnored(c) == /\ Go(c, "tryLock", "critical")
                     /\ UNCHANGED <<locks, pipe, shouldStop, running, sockets, polled, calls, lifetime>>

\* PauseGuard's constructor: try_lock, and on failure the handshake.
TryLock(c) == /\ stepMtx = NoThread
              /\ Go(c, "tryLock", "critical")
              /\ stepMtx' = c
              /\ UNCHANGED <<pauseMtx, pipe, shouldStop, running, sockets, polled, calls, lifetime>>

TryLockFails(c) == /\ stepMtx # NoThread
                   /\ Go(c, "tryLock", "pauseLock")
                   /\ UNCHANGED <<locks, pipe, shouldStop, running, sockets, polled, calls, lifetime>>

PauseLock(c) == /\ pauseMtx = NoThread
                /\ Go(c, "pauseLock", "bump")
                /\ pauseMtx' = c
                /\ UNCHANGED <<stepMtx, pipe, shouldStop, running, sockets, polled, calls, lifetime>>

\* Mutant: the handshake without waking the poll.
PauseNoBump(c) == /\ Go(c, "bump", "waitStep")
                  /\ UNCHANGED <<locks, pipe, shouldStop, running, sockets, polled, calls, lifetime>>

PauseBump(c) == /\ Go(c, "bump", "waitStep")
                /\ pipe' = Bumped(pipe)
                /\ UNCHANGED <<locks, shouldStop, running, sockets, polled, calls, lifetime>>

WaitStep(c) == /\ stepMtx = NoThread
               /\ Go(c, "waitStep", "pauseUnlock")
               /\ stepMtx' = c
               /\ UNCHANGED <<pauseMtx, pipe, shouldStop, running, sockets, polled, calls, lifetime>>

PauseUnlock(c) == /\ Go(c, "pauseUnlock", "critical")
                  /\ pauseMtx' = NoThread
                  /\ UNCHANGED <<stepMtx, pipe, shouldStop, running, sockets, polled, calls, lifetime>>

\* AsyncRegister, AsyncUnregister, or an operation on the ToDos or on a pollfd;
\* the destructor's PauseGuard guards nothing.
Critical(c) == /\ Go(c, "critical", "release")
               /\ sockets' \in IF lifetime = "alive"
                                 THEN {sockets \cup {c}, sockets \ {c}}
                                 ELSE {sockets}
               /\ UNCHANGED <<locks, pipe, shouldStop, running, polled, calls, lifetime>>

\* PauseGuard's destructor; at the end of ~DriverImpl the members go with it.
Release(c) == /\ Go(c, "release", "idle")
              /\ stepMtx' = NoThread
              /\ lifetime' = IF lifetime = "closing" THEN "gone" ELSE lifetime
              /\ UNCHANGED <<pauseMtx, pipe, shouldStop, running, sockets, polled, calls>>

CallStop(c) == /\ Call
               /\ Go(c, "idle", "stopFlag")
               /\ UNCHANGED <<locks, pipe, shouldStop, running, sockets, polled, lifetime>>

StopFlag(c) == /\ Go(c, "stopFlag", "stopBump")
               /\ shouldStop' = TRUE
               /\ UNCHANGED <<locks, pipe, running, sockets, polled, calls, lifetime>>

\* Mutant: Stop() only sets the flag.
StopNoBump(c) == /\ Go(c, "stopBump", "idle")
                 /\ UNCHANGED <<locks, pipe, shouldStop, running, sockets, polled, calls, lifetime>>

StopBump(c) == /\ Go(c, "stopBump", "idle")
               /\ pipe' = Bumped(pipe)
               /\ UNCHANGED <<locks, shouldStop, running, sockets, polled, calls, lifetime>>

\* Mutant: a destructor without PauseGuard.
DestroyUnguarded(c) == /\ MayDestroy
                       /\ \A d \in Clients : pc[d] = "idle"
                       /\ Call
                       /\ Go(c, "idle", "release")
                       /\ lifetime' = "closing"
                       /\ shouldStop' = TRUE
                       /\ UNCHANGED <<locks, pipe, running, sockets, polled>>

\* ~DriverImpl starts when the last shared_ptr is dropped: a client that is
\* inside an operation holds one.
Destroy(c) == /\ MayDestroy
              /\ \A d \in Clients : pc[d] = "idle"
              /\ Call
              /\ Go(c, "idle", "tryLock")
              /\ lifetime' = "closing"
              /\ shouldStop' = TRUE
              /\ UNCHANGED <<locks, pipe, running, sockets, polled>>

-------------------------------------------------------------------------------
StepperNext == \/ CallStep \/ CallRun \/ RunStart \/ RunAgain \/ RunReturn
               \/ StepLock \/ TaskWatch \/ TaskStop \/ EnterPoll
               \/ PollPipe \/ PollSocket \/ PollTimeout \/ EndCallback \/ StepThrows
               \/ StepUnlock \/ StepPauseLock \/ StepPauseUnlock

ClientNext(c) == \/ CallPause(c) \/ TryLock(c) \/ TryLockFails(c)
                 \/ PauseLock(c) \/ PauseBump(c) \/ WaitStep(c) \/ PauseUnlock(c)
                 \/ Critical(c) \/ Release(c)
                 \/ CallStop(c) \/ StopFlag(c) \/ StopBump(c)
                 \/ Destroy(c)

Next == StepperNext \/ \E c \in Clients : ClientNext(c)

Spec == Init /\ [][Next]_vars

\* Threads that can move do; nobody has to call anything, no socket has to
\* become ready, no timeout has to be set and nothing has to fail.
StepperProgress == \/ RunStart \/ RunAgain \/ RunReturn
                   \/ StepLock \/ EnterPoll \/ PollPipe \/ EndCallback
                   \/ StepUnlock \/ StepPauseLock \/ StepPauseUnlock

ClientProgress(c) == \/ TryLock(c) \/ TryLockFails(c) \/ PauseBump(c) \/ WaitStep(c)
                     \/ PauseUnlock(c) \/ Critical(c) \/ Release(c)
                     \/ StopFlag(c) \/ StopBump(c)

Fairness == /\ WF_vars(StepperProgress)
            /\ \A c \in Clients : WF_vars(ClientProgress(c))

\* A mutex that is free again and again is obtained at last.
MutexFairness == \A c \in Clients : SF_vars(PauseLock(c))

FairSpec == Spec /\ Fairness /\ MutexFairness

-------------------------------------------------------------------------------
(* Invariants. *)

TypeOK == /\ stepMtx \in Threads \cup {NoThread}
          /\ pauseMtx \in Threads \cup {NoThread}
          /\ pipe \in 0..PipeCap
          /\ shouldStop \in BOOLEAN
          /\ running \in BOOLEAN
          /\ sockets \subseteq Clients
          /\ polled \subseteq Clients
          /\ calls \in 0..MaxCalls
          /\ lifetime \in {"alive", "closing", "gone"}
          /\ pc \in [Threads -> StepperLabels \cup ClientLabels]
          /\ pc[Stepper] \in StepperLabels
          /\ \A c \in Clients : pc[c] \in ClientLabels

\* Who owns stepMtx and pauseMtx at each label.
HasStepMtx(t)  == \/ t = Stepper /\ pc[t] \in {"todos", "poll", "callback", "stepUnlock"}
                  \/ t \in Clients /\ pc[t] \in {"pauseUnlock", "critical", "release"}
HasPauseMtx(t) == \/ t = Stepper /\ pc[t] = "pauseUnlock"
                  \/ t \in Clients /\ pc[t] \in {"bump", "waitStep", "pauseUnlock"}

\* Mutual exclusion, through whichever of the two paths of PauseGuard a client
\* came: what stepMtx guards is used by one thread at a time, and so is the
\* handshake (the comments "guarded by stepMtx" of driver_impl.h).
MutualExclusion ==
  \A t, u \in Threads :
     /\ HasStepMtx(t) /\ HasStepMtx(u) => t = u
     /\ HasPauseMtx(t) /\ HasPauseMtx(u) => t = u

\* The lock words agree with the program counters.
LocksOwned == \A t \in Threads : /\ stepMtx = t <=> HasStepMtx(t)
                                 /\ pauseMtx = t <=> HasPauseMtx(t)

\* Labels at which the Stepper has yet to consume a wake-up before it next
\* waits for pauseMtx.
BeforeWakeup == pc[Stepper] \in {"idle", "runStart", "runCheck", "stepLock", "todos", "poll"}

\* No lost wake-up: while a client waits for stepMtx with pauseMtx in its hand,
\* the Stepper either finds a datagram in the pipe when it polls or is already on
\* its way to pauseMtx, where it lets the client pass.  The client relies on it in
\* PauseGuard's constructor, where it blocks without looking again.
NoLostWakeup ==
  \A c \in Clients : pc[c] = "waitStep" /\ BeforeWakeup => pipe > 0

\* No lost Stop: once the flag is set, a Run() that got past its check of the
\* flag will not sleep in poll; the datagram is in the pipe or about to be.
\* (~DriverImpl sets the flag as well but wakes the poll through its PauseGuard.)
StopWakes ==
  /\ running
  /\ shouldStop
  /\ lifetime = "alive"
  /\ pc[Stepper] \in {"stepLock", "todos", "poll"}
  => pipe > 0 \/ \E c \in Clients : pc[c] = "stopBump"

\* What a blocking poll watches is what is registered: no client changes pfds
\* under a poll, and none is served an event of a socket it unregistered.
PollSetCurrent == polled = IF pc[Stepper] = "poll" THEN sockets ELSE {}

\* A thread waits for a mutex that another one has, or for a datagram, when no
\* socket becomes ready and no ToDo falls due.
Blocked(t) == \/ pc[t] \in {"stepLock", "waitStep"} /\ stepMtx # NoThread
              \/ pc[t] = "pauseLock" /\ pauseMtx # NoThread
              \/ pc[t] = "poll" /\ pipe = 0

\* No deadlock: while a client is inside a call, some thread inside a call can move.
\* The two guards take the two mutexes in opposite orders (PauseGuard pauseMtx, then
\* stepMtx; StepGuard stepMtx, then pauseMtx), and the poll waits with stepMtx held.
NeverStuck ==
  lifetime # "gone" /\ (\E c \in Clients : pc[c] # "idle")
    => \E t \in Threads : pc[t] # "idle" /\ ~Blocked(t)

-------------------------------------------------------------------------------
(* Action properties. *)

\* ~DriverImpl never completes while the Stepper runs tasks or polls: it blocks
\* in its PauseGuard until the step is over.
DestroyOutsideStep == [][lifetime' = "gone" /\ lifetime # "gone" => ~InStep]_vars

-------------------------------------------------------------------------------
(* What the driver promises its users. *)

\* Where a client is between asking for an operation and having performed it.
Requesting == {"tryLock", "pauseLock", "bump", "waitStep", "pauseUnlock", "critical"}

Promise == INSTANCE Contract WITH
             phase    <- CASE pc[Stepper] \in {"todos", "callback"} -> "tasks"
                           [] pc[Stepper] = "poll" -> "polling"
                           [] OTHER -> "out",
             requests <- {c \in Clients : pc[c] \in Requesting}

\* Seen from outside, operations of clients are atomic and fall between steps.
ImplementsContract == Promise!Spec

-------------------------------------------------------------------------------
(* Liveness. *)

\* A destroyed driver answers nobody: whoever still calls it is beyond its promises.
Gone == lifetime = "gone"

\* Every operation on the driver is performed, given that mutexes are granted.
RequestsAnswered ==
  \A c \in Clients : pc[c] \in Requesting ~> pc[c] \notin Requesting \/ Gone

\* A Run() that sees a set flag, or blocks while it is set, returns.
RunReturns ==
  running /\ shouldStop /\ pc[Stepper] # "runStart" ~> pc[Stepper] = "idle" \/ Gone

-------------------------------------------------------------------------------
(* A claim of the comments that the code does not keep. *)

\* "Cancel the continuously running Run() method" (socket_async.h): a Stop() that
\* sets the flag after Run() was called ends that Run().
StopEndsRun == \A c \in Clients : running /\ pc[c] = "stopBump" ~> ~running
===============================================================================
