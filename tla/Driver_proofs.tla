---------------------------- MODULE Driver_proofs ----------------------------
(***************************************************************************)
(* Proofs about Driver, for any set of clients, any capacity of the pipe   *)
(* and any number of calls.  LocksOwned, which ties the two mutexes to the *)
(* program counters, is the strengthening everything else rests on: it is  *)
(* inductive together with TypeOK, and each of the other invariants is     *)
(* inductive relative to the two.                                          *)
(***************************************************************************)
EXTENDS Driver, TLAPS

USE ThreadsAssumption, BoundsAssumption, DestroyAssumption
DEF ThreadsAssumption, BoundsAssumption, DestroyAssumption

-------------------------------------------------------------------------------
(* One lemma per invariant: every step keeps it. *)

\* Every action keeps the variables in their types: the pipe never holds more than
\* its buffer, and is never drained when empty.
LEMMA TypeStep == TypeOK /\ [Next]_vars => TypeOK'
<1> SUFFICES ASSUME TypeOK, [Next]_vars PROVE TypeOK'
  OBVIOUS
<1> USE DEF TypeOK, Threads, StepperLabels, ClientLabels, Go, Call, locks
<1>1. CASE CallStep
  BY <1>1 DEF CallStep
<1>2. CASE CallRun
  BY <1>2 DEF CallRun
<1>3. CASE RunStart
  BY <1>3 DEF RunStart
<1>4. CASE RunAgain
  BY <1>4 DEF RunAgain
<1>5. CASE RunReturn
  BY <1>5 DEF RunReturn
<1>6. CASE StepLock
  BY <1>6 DEF StepLock
<1>7. CASE TaskWatch
  BY <1>7 DEF TaskWatch
<1>8. CASE TaskStop
  BY <1>8 DEF TaskStop, Bumped
<1>9. CASE EnterPoll
  BY <1>9 DEF EnterPoll
<1>10. CASE PollPipe
  BY <1>10 DEF PollPipe, LeavePoll, Unbumped
<1>11. CASE PollSocket
  BY <1>11 DEF PollSocket, LeavePoll
<1>12. CASE PollTimeout
  BY <1>12 DEF PollTimeout, LeavePoll
<1>13. CASE EndCallback
  BY <1>13 DEF EndCallback
<1>14. CASE StepThrows
  BY <1>14 DEF StepThrows, InStep
<1>15. CASE StepUnlock
  BY <1>15 DEF StepUnlock
<1>16. CASE StepPauseLock
  BY <1>16 DEF StepPauseLock
<1>17. CASE StepPauseUnlock
  BY <1>17 DEF StepPauseUnlock
<1>18. ASSUME NEW c \in Clients, CallPause(c) PROVE TypeOK'
  BY <1>18 DEF CallPause
<1>19. ASSUME NEW c \in Clients, TryLock(c) PROVE TypeOK'
  BY <1>19 DEF TryLock
<1>20. ASSUME NEW c \in Clients, TryLockFails(c) PROVE TypeOK'
  BY <1>20 DEF TryLockFails
<1>21. ASSUME NEW c \in Clients, PauseLock(c) PROVE TypeOK'
  BY <1>21 DEF PauseLock
<1>22. ASSUME NEW c \in Clients, PauseBump(c) PROVE TypeOK'
  BY <1>22 DEF PauseBump, Bumped
<1>23. ASSUME NEW c \in Clients, WaitStep(c) PROVE TypeOK'
  BY <1>23 DEF WaitStep
<1>24. ASSUME NEW c \in Clients, PauseUnlock(c) PROVE TypeOK'
  BY <1>24 DEF PauseUnlock
<1>25. ASSUME NEW c \in Clients, Critical(c) PROVE TypeOK'
  BY <1>25 DEF Critical
<1>26. ASSUME NEW c \in Clients, Release(c) PROVE TypeOK'
  BY <1>26 DEF Release
<1>27. ASSUME NEW c \in Clients, CallStop(c) PROVE TypeOK'
  BY <1>27 DEF CallStop
<1>28. ASSUME NEW c \in Clients, StopFlag(c) PROVE TypeOK'
  BY <1>28 DEF StopFlag
<1>29. ASSUME NEW c \in Clients, StopBump(c) PROVE TypeOK'
  BY <1>29 DEF StopBump, Bumped
<1>30. ASSUME NEW c \in Clients, Destroy(c) PROVE TypeOK'
  BY <1>30 DEF Destroy
<1>31. CASE UNCHANGED vars
  BY <1>31 DEF vars
<1> QED
  BY <1>1, <1>2, <1>3, <1>4, <1>5, <1>6, <1>7, <1>8, <1>9, <1>10, <1>11, <1>12, <1>13,
     <1>14, <1>15, <1>16, <1>17, <1>18, <1>19, <1>20, <1>21, <1>22, <1>23, <1>24,
     <1>25, <1>26, <1>27, <1>28, <1>29, <1>30, <1>31 DEF Next, StepperNext, ClientNext

\* A mutex is taken only when free and released only by the thread whose label
\* says it holds it, on either path through PauseGuard.
LEMMA LocksStep == TypeOK /\ LocksOwned /\ [Next]_vars => LocksOwned'
<1> SUFFICES ASSUME TypeOK, LocksOwned, [Next]_vars PROVE LocksOwned'
  OBVIOUS
<1> USE DEF TypeOK, Threads, StepperLabels, ClientLabels, Go, Call, locks, LocksOwned,
   HasStepMtx, HasPauseMtx
<1>1. CASE CallStep
  BY <1>1 DEF CallStep
<1>2. CASE CallRun
  BY <1>2 DEF CallRun
<1>3. CASE RunStart
  BY <1>3 DEF RunStart
<1>4. CASE RunAgain
  BY <1>4 DEF RunAgain
<1>5. CASE RunReturn
  BY <1>5 DEF RunReturn
<1>6. CASE StepLock
  BY <1>6 DEF StepLock
<1>7. CASE TaskWatch
  BY <1>7 DEF TaskWatch
<1>8. CASE TaskStop
  BY <1>8 DEF TaskStop, Bumped
<1>9. CASE EnterPoll
  BY <1>9 DEF EnterPoll
<1>10. CASE PollPipe
  BY <1>10 DEF PollPipe, LeavePoll, Unbumped
<1>11. CASE PollSocket
  BY <1>11 DEF PollSocket, LeavePoll
<1>12. CASE PollTimeout
  BY <1>12 DEF PollTimeout, LeavePoll
<1>13. CASE EndCallback
  BY <1>13 DEF EndCallback
<1>14. CASE StepThrows
  BY <1>14 DEF StepThrows, InStep
<1>15. CASE StepUnlock
  BY <1>15 DEF StepUnlock
<1>16. CASE StepPauseLock
  BY <1>16 DEF StepPauseLock
<1>17. CASE StepPauseUnlock
  BY <1>17 DEF StepPauseUnlock
<1>18. ASSUME NEW c \in Clients, CallPause(c) PROVE LocksOwned'
  BY <1>18 DEF CallPause
<1>19. ASSUME NEW c \in Clients, TryLock(c) PROVE LocksOwned'
  BY <1>19 DEF TryLock
<1>20. ASSUME NEW c \in Clients, TryLockFails(c) PROVE LocksOwned'
  BY <1>20 DEF TryLockFails
<1>21. ASSUME NEW c \in Clients, PauseLock(c) PROVE LocksOwned'
  BY <1>21 DEF PauseLock
<1>22. ASSUME NEW c \in Clients, PauseBump(c) PROVE LocksOwned'
  BY <1>22 DEF PauseBump, Bumped
<1>23. ASSUME NEW c \in Clients, WaitStep(c) PROVE LocksOwned'
  BY <1>23 DEF WaitStep
<1>24. ASSUME NEW c \in Clients, PauseUnlock(c) PROVE LocksOwned'
  BY <1>24 DEF PauseUnlock
<1>25. ASSUME NEW c \in Clients, Critical(c) PROVE LocksOwned'
  BY <1>25 DEF Critical
<1>26. ASSUME NEW c \in Clients, Release(c) PROVE LocksOwned'
  BY <1>26 DEF Release
<1>27. ASSUME NEW c \in Clients, CallStop(c) PROVE LocksOwned'
  BY <1>27 DEF CallStop
<1>28. ASSUME NEW c \in Clients, StopFlag(c) PROVE LocksOwned'
  BY <1>28 DEF StopFlag
<1>29. ASSUME NEW c \in Clients, StopBump(c) PROVE LocksOwned'
  BY <1>29 DEF StopBump, Bumped
<1>30. ASSUME NEW c \in Clients, Destroy(c) PROVE LocksOwned'
  BY <1>30 DEF Destroy
<1>31. CASE UNCHANGED vars
  BY <1>31 DEF vars
<1> QED
  BY <1>1, <1>2, <1>3, <1>4, <1>5, <1>6, <1>7, <1>8, <1>9, <1>10, <1>11, <1>12, <1>13,
     <1>14, <1>15, <1>16, <1>17, <1>18, <1>19, <1>20, <1>21, <1>22, <1>23, <1>24,
     <1>25, <1>26, <1>27, <1>28, <1>29, <1>30, <1>31 DEF Next, StepperNext, ClientNext

\* Only the owner of stepMtx changes the registrations, and that is the Stepper
\* while it polls.
LEMMA PollStep == TypeOK /\ LocksOwned /\ PollSetCurrent /\ [Next]_vars => PollSetCurrent'
<1> SUFFICES ASSUME TypeOK, LocksOwned, PollSetCurrent, [Next]_vars PROVE PollSetCurrent'
  OBVIOUS
<1> USE DEF TypeOK, Threads, StepperLabels, ClientLabels, Go, Call, locks, LocksOwned,
   HasStepMtx, HasPauseMtx, PollSetCurrent
<1>1. CASE CallStep
  BY <1>1 DEF CallStep
<1>2. CASE CallRun
  BY <1>2 DEF CallRun
<1>3. CASE RunStart
  BY <1>3 DEF RunStart
<1>4. CASE RunAgain
  BY <1>4 DEF RunAgain
<1>5. CASE RunReturn
  BY <1>5 DEF RunReturn
<1>6. CASE StepLock
  BY <1>6 DEF StepLock
<1>7. CASE TaskWatch
  BY <1>7 DEF TaskWatch
<1>8. CASE TaskStop
  BY <1>8 DEF TaskStop, Bumped
<1>9. CASE EnterPoll
  BY <1>9 DEF EnterPoll
<1>10. CASE PollPipe
  BY <1>10 DEF PollPipe, LeavePoll, Unbumped
<1>11. CASE PollSocket
  BY <1>11 DEF PollSocket, LeavePoll
<1>12. CASE PollTimeout
  BY <1>12 DEF PollTimeout, LeavePoll
<1>13. CASE EndCallback
  BY <1>13 DEF EndCallback
<1>14. CASE StepThrows
  BY <1>14 DEF StepThrows, InStep
<1>15. CASE StepUnlock
  BY <1>15 DEF StepUnlock
<1>16. CASE StepPauseLock
  BY <1>16 DEF StepPauseLock
<1>17. CASE StepPauseUnlock
  BY <1>17 DEF StepPauseUnlock
<1>18. ASSUME NEW c \in Clients, CallPause(c) PROVE PollSetCurrent'
  BY <1>18 DEF CallPause
<1>19. ASSUME NEW c \in Clients, TryLock(c) PROVE PollSetCurrent'
  BY <1>19 DEF TryLock
<1>20. ASSUME NEW c \in Clients, TryLockFails(c) PROVE PollSetCurrent'
  BY <1>20 DEF TryLockFails
<1>21. ASSUME NEW c \in Clients, PauseLock(c) PROVE PollSetCurrent'
  BY <1>21 DEF PauseLock
<1>22. ASSUME NEW c \in Clients, PauseBump(c) PROVE PollSetCurrent'
  BY <1>22 DEF PauseBump, Bumped
<1>23. ASSUME NEW c \in Clients, WaitStep(c) PROVE PollSetCurrent'
  BY <1>23 DEF WaitStep
<1>24. ASSUME NEW c \in Clients, PauseUnlock(c) PROVE PollSetCurrent'
  BY <1>24 DEF PauseUnlock
<1>25. ASSUME NEW c \in Clients, Critical(c) PROVE PollSetCurrent'
  BY <1>25 DEF Critical
<1>26. ASSUME NEW c \in Clients, Release(c) PROVE PollSetCurrent'
  BY <1>26 DEF Release
<1>27. ASSUME NEW c \in Clients, CallStop(c) PROVE PollSetCurrent'
  BY <1>27 DEF CallStop
<1>28. ASSUME NEW c \in Clients, StopFlag(c) PROVE PollSetCurrent'
  BY <1>28 DEF StopFlag
<1>29. ASSUME NEW c \in Clients, StopBump(c) PROVE PollSetCurrent'
  BY <1>29 DEF StopBump, Bumped
<1>30. ASSUME NEW c \in Clients, Destroy(c) PROVE PollSetCurrent'
  BY <1>30 DEF Destroy
<1>31. CASE UNCHANGED vars
  BY <1>31 DEF vars
<1> QED
  BY <1>1, <1>2, <1>3, <1>4, <1>5, <1>6, <1>7, <1>8, <1>9, <1>10, <1>11, <1>12, <1>13,
     <1>14, <1>15, <1>16, <1>17, <1>18, <1>19, <1>20, <1>21, <1>22, <1>23, <1>24,
     <1>25, <1>26, <1>27, <1>28, <1>29, <1>30, <1>31 DEF Next, StepperNext, ClientNext

\* The datagram of the client that holds pauseMtx is consumed only by the poll
\* that leads the Stepper to pauseMtx; before the client bumps it is not waiting.
LEMMA WakeupStep == TypeOK /\ LocksOwned /\ NoLostWakeup /\ [Next]_vars => NoLostWakeup'
<1> SUFFICES ASSUME TypeOK, LocksOwned, NoLostWakeup, [Next]_vars PROVE NoLostWakeup'
  OBVIOUS
<1> USE DEF TypeOK, Threads, StepperLabels, ClientLabels, Go, Call, locks, LocksOwned,
   HasStepMtx, HasPauseMtx, NoLostWakeup, BeforeWakeup
<1>1. CASE CallStep
  BY <1>1 DEF CallStep
<1>2. CASE CallRun
  BY <1>2 DEF CallRun
<1>3. CASE RunStart
  BY <1>3 DEF RunStart
<1>4. CASE RunAgain
  BY <1>4 DEF RunAgain
<1>5. CASE RunReturn
  BY <1>5 DEF RunReturn
<1>6. CASE StepLock
  BY <1>6 DEF StepLock
<1>7. CASE TaskWatch
  BY <1>7 DEF TaskWatch
<1>8. CASE TaskStop
  BY <1>8 DEF TaskStop, Bumped
<1>9. CASE EnterPoll
  BY <1>9 DEF EnterPoll
<1>10. CASE PollPipe
  BY <1>10 DEF PollPipe, LeavePoll, Unbumped
<1>11. CASE PollSocket
  BY <1>11 DEF PollSocket, LeavePoll
<1>12. CASE PollTimeout
  BY <1>12 DEF PollTimeout, LeavePoll
<1>13. CASE EndCallback
  BY <1>13 DEF EndCallback
<1>14. CASE StepThrows
  BY <1>14 DEF StepThrows, InStep
<1>15. CASE StepUnlock
  BY <1>15 DEF StepUnlock
<1>16. CASE StepPauseLock
  BY <1>16 DEF StepPauseLock
<1>17. CASE StepPauseUnlock
  BY <1>17 DEF StepPauseUnlock
<1>18. ASSUME NEW c \in Clients, CallPause(c) PROVE NoLostWakeup'
  BY <1>18 DEF CallPause
<1>19. ASSUME NEW c \in Clients, TryLock(c) PROVE NoLostWakeup'
  BY <1>19 DEF TryLock
<1>20. ASSUME NEW c \in Clients, TryLockFails(c) PROVE NoLostWakeup'
  BY <1>20 DEF TryLockFails
<1>21. ASSUME NEW c \in Clients, PauseLock(c) PROVE NoLostWakeup'
  BY <1>21 DEF PauseLock
<1>22. ASSUME NEW c \in Clients, PauseBump(c) PROVE NoLostWakeup'
  BY <1>22 DEF PauseBump, Bumped
<1>23. ASSUME NEW c \in Clients, WaitStep(c) PROVE NoLostWakeup'
  BY <1>23 DEF WaitStep
<1>24. ASSUME NEW c \in Clients, PauseUnlock(c) PROVE NoLostWakeup'
  BY <1>24 DEF PauseUnlock
<1>25. ASSUME NEW c \in Clients, Critical(c) PROVE NoLostWakeup'
  BY <1>25 DEF Critical
<1>26. ASSUME NEW c \in Clients, Release(c) PROVE NoLostWakeup'
  BY <1>26 DEF Release
<1>27. ASSUME NEW c \in Clients, CallStop(c) PROVE NoLostWakeup'
  BY <1>27 DEF CallStop
<1>28. ASSUME NEW c \in Clients, StopFlag(c) PROVE NoLostWakeup'
  BY <1>28 DEF StopFlag
<1>29. ASSUME NEW c \in Clients, StopBump(c) PROVE NoLostWakeup'
  BY <1>29 DEF StopBump, Bumped
<1>30. ASSUME NEW c \in Clients, Destroy(c) PROVE NoLostWakeup'
  BY <1>30 DEF Destroy
<1>31. CASE UNCHANGED vars
  BY <1>31 DEF vars
<1> QED
  BY <1>1, <1>2, <1>3, <1>4, <1>5, <1>6, <1>7, <1>8, <1>9, <1>10, <1>11, <1>12, <1>13,
     <1>14, <1>15, <1>16, <1>17, <1>18, <1>19, <1>20, <1>21, <1>22, <1>23, <1>24,
     <1>25, <1>26, <1>27, <1>28, <1>29, <1>30, <1>31 DEF Next, StepperNext, ClientNext

\* The flag is raised before the datagram is sent, and the Stepper reads the flag
\* between consuming a datagram and polling again.
LEMMA StopStep == TypeOK /\ LocksOwned /\ StopWakes /\ [Next]_vars => StopWakes'
<1> SUFFICES ASSUME TypeOK, LocksOwned, StopWakes, [Next]_vars PROVE StopWakes'
  OBVIOUS
<1> USE DEF TypeOK, Threads, StepperLabels, ClientLabels, Go, Call, locks, LocksOwned,
   HasStepMtx, HasPauseMtx, StopWakes
<1>1. CASE CallStep
  BY <1>1 DEF CallStep
<1>2. CASE CallRun
  BY <1>2 DEF CallRun
<1>3. CASE RunStart
  BY <1>3 DEF RunStart
<1>4. CASE RunAgain
  BY <1>4 DEF RunAgain
<1>5. CASE RunReturn
  BY <1>5 DEF RunReturn
<1>6. CASE StepLock
  BY <1>6 DEF StepLock
<1>7. CASE TaskWatch
  BY <1>7 DEF TaskWatch
<1>8. CASE TaskStop
  BY <1>8 DEF TaskStop, Bumped
<1>9. CASE EnterPoll
  BY <1>9 DEF EnterPoll
<1>10. CASE PollPipe
  BY <1>10 DEF PollPipe, LeavePoll, Unbumped
<1>11. CASE PollSocket
  BY <1>11 DEF PollSocket, LeavePoll
<1>12. CASE PollTimeout
  BY <1>12 DEF PollTimeout, LeavePoll
<1>13. CASE EndCallback
  BY <1>13 DEF EndCallback
<1>14. CASE StepThrows
  BY <1>14 DEF StepThrows, InStep
<1>15. CASE StepUnlock
  BY <1>15 DEF StepUnlock
<1>16. CASE StepPauseLock
  BY <1>16 DEF StepPauseLock
<1>17. CASE StepPauseUnlock
  BY <1>17 DEF StepPauseUnlock
<1>18. ASSUME NEW c \in Clients, CallPause(c) PROVE StopWakes'
  BY <1>18 DEF CallPause
<1>19. ASSUME NEW c \in Clients, TryLock(c) PROVE StopWakes'
  BY <1>19 DEF TryLock
<1>20. ASSUME NEW c \in Clients, TryLockFails(c) PROVE StopWakes'
  BY <1>20 DEF TryLockFails
<1>21. ASSUME NEW c \in Clients, PauseLock(c) PROVE StopWakes'
  BY <1>21 DEF PauseLock
<1>22. ASSUME NEW c \in Clients, PauseBump(c) PROVE StopWakes'
  BY <1>22 DEF PauseBump, Bumped
<1>23. ASSUME NEW c \in Clients, WaitStep(c) PROVE StopWakes'
  BY <1>23 DEF WaitStep
<1>24. ASSUME NEW c \in Clients, PauseUnlock(c) PROVE StopWakes'
  BY <1>24 DEF PauseUnlock
<1>25. ASSUME NEW c \in Clients, Critical(c) PROVE StopWakes'
  BY <1>25 DEF Critical
<1>26. ASSUME NEW c \in Clients, Release(c) PROVE StopWakes'
  BY <1>26 DEF Release
<1>27. ASSUME NEW c \in Clients, CallStop(c) PROVE StopWakes'
  BY <1>27 DEF CallStop
<1>28. ASSUME NEW c \in Clients, StopFlag(c) PROVE StopWakes'
  BY <1>28 DEF StopFlag
<1>29. ASSUME NEW c \in Clients, StopBump(c) PROVE StopWakes'
  BY <1>29 DEF StopBump, Bumped
<1>30. ASSUME NEW c \in Clients, Destroy(c) PROVE StopWakes'
  BY <1>30 DEF Destroy
<1>31. CASE UNCHANGED vars
  BY <1>31 DEF vars
<1> QED
  BY <1>1, <1>2, <1>3, <1>4, <1>5, <1>6, <1>7, <1>8, <1>9, <1>10, <1>11, <1>12, <1>13,
     <1>14, <1>15, <1>16, <1>17, <1>18, <1>19, <1>20, <1>21, <1>22, <1>23, <1>24,
     <1>25, <1>26, <1>27, <1>28, <1>29, <1>30, <1>31 DEF Next, StepperNext, ClientNext

-------------------------------------------------------------------------------
(* The invariants of the specification. *)

\* The variables keep their types.
THEOREM TypeCorrect == Spec => []TypeOK
<1>1. ASSUME Init PROVE TypeOK
  <2>1. pc \in [Threads -> StepperLabels \cup ClientLabels]
    BY <1>1 DEF Init, StepperLabels, ClientLabels
  <2>2. \A t \in Threads : pc[t] = "idle"
    BY <1>1 DEF Init
  <2>3. /\ pc[Stepper] \in StepperLabels
        /\ \A c \in Clients : pc[c] \in ClientLabels
    BY <2>2 DEF Threads, StepperLabels, ClientLabels
  <2>4. pipe \in 0..PipeCap /\ calls \in 0..MaxCalls
    BY <1>1 DEF Init
  <2> QED
    BY <1>1, <2>1, <2>3, <2>4 DEF Init, TypeOK
<1> QED
  BY <1>1, TypeStep, PTL DEF Spec

\* The owners of the two mutexes are the threads whose labels say so.
THEOREM LocksCorrect == Spec => []LocksOwned
<1>1. Init => LocksOwned
  BY DEF Init, LocksOwned, HasStepMtx, HasPauseMtx, Threads
<1> QED
  BY <1>1, TypeCorrect, LocksStep, PTL DEF Spec

\* stepMtx and pauseMtx each exclude: at most one thread is where what they
\* guard may be used.
THEOREM Exclusion == Spec => []MutualExclusion
<1>1. LocksOwned => MutualExclusion
  BY DEF LocksOwned, MutualExclusion
<1> QED
  BY <1>1, LocksCorrect, PTL

\* The set a blocking poll watches is the set of registered sockets.
THEOREM PollCorrect == Spec => []PollSetCurrent
<1>1. Init => PollSetCurrent
  BY DEF Init, PollSetCurrent, Threads
<1> QED
  BY <1>1, TypeCorrect, LocksCorrect, PollStep, PTL DEF Spec

\* No wake-up is lost: a client blocked on stepMtx in PauseGuard's constructor has
\* a datagram in the pipe as long as the Stepper might go to sleep.
THEOREM WakeupCorrect == Spec => []NoLostWakeup
<1>1. Init => NoLostWakeup
  BY DEF Init, NoLostWakeup, Threads
<1> QED
  BY <1>1, TypeCorrect, LocksCorrect, WakeupStep, PTL DEF Spec

\* Whoever has stepMtx can move: if it is the Stepper that polls, the client that
\* waits for stepMtx has left a datagram.
LEMMA StepMtxMoves ==
  ASSUME TypeOK, LocksOwned, NoLostWakeup, stepMtx # NoThread,
         \E c \in Clients : pc[c] = "waitStep"
  PROVE  \E t \in Threads : pc[t] # "idle" /\ ~Blocked(t)
<1> DEFINE t == stepMtx
<1>1. t \in Threads /\ HasStepMtx(t)
  BY DEF TypeOK, LocksOwned
<1>2. CASE t \in Clients
  BY <1>1, <1>2, ThreadsAssumption DEF ThreadsAssumption, HasStepMtx, Blocked
<1>3. CASE t = Stepper
  <2>1. pc[t] \in {"todos", "poll", "callback", "stepUnlock"}
    BY <1>1, <1>3, ThreadsAssumption DEF ThreadsAssumption, HasStepMtx
  <2>2. pc[t] = "poll" => pipe # 0
    BY <1>3 DEF TypeOK, NoLostWakeup, BeforeWakeup
  <2> QED
    BY <1>1, <2>1, <2>2 DEF Blocked
<1> QED
  BY <1>1, <1>2, <1>3 DEF Threads

\* So can whoever has pauseMtx, or else it waits for stepMtx.
LEMMA PauseMtxMoves ==
  ASSUME TypeOK, LocksOwned, NoLostWakeup, pauseMtx # NoThread
  PROVE  \E t \in Threads : pc[t] # "idle" /\ ~Blocked(t)
<1> DEFINE t == pauseMtx
<1>1. t \in Threads /\ HasPauseMtx(t)
  BY DEF TypeOK, LocksOwned
<1>2. CASE pc[t] = "waitStep" /\ stepMtx # NoThread
  <2>1. t \in Clients
    BY <1>1, <1>2 DEF HasPauseMtx
  <2> QED
    BY <1>2, <2>1, StepMtxMoves
<1>3. CASE ~(pc[t] = "waitStep" /\ stepMtx # NoThread)
  <2>1. pc[t] \in {"bump", "waitStep", "pauseUnlock"}
    BY <1>1 DEF HasPauseMtx
  <2> QED
    BY <1>1, <1>3, <2>1 DEF Blocked
<1> QED
  BY <1>2, <1>3

\* No client is ever stuck in a call with every other thread: the two mutexes are taken
\* in opposite orders, but neither guard waits for the second with the first in its hand
\* unless the other is about to let it go.
THEOREM DeadlockFree == Spec => []NeverStuck
<1>1. TypeOK /\ LocksOwned /\ NoLostWakeup => NeverStuck
  <2> SUFFICES ASSUME TypeOK, LocksOwned, NoLostWakeup,
                      NEW c \in Clients, pc[c] # "idle"
               PROVE  \E t \in Threads : pc[t] # "idle" /\ ~Blocked(t)
    BY DEF NeverStuck
  <2>1. CASE pc[c] = "waitStep" /\ stepMtx # NoThread
    BY <2>1, StepMtxMoves
  <2>2. CASE pc[c] = "pauseLock" /\ pauseMtx # NoThread
    BY <2>2, PauseMtxMoves
  <2>3. CASE /\ ~(pc[c] = "waitStep" /\ stepMtx # NoThread)
             /\ ~(pc[c] = "pauseLock" /\ pauseMtx # NoThread)
    <3>1. pc[c] \in ClientLabels /\ c \in Threads
      BY DEF TypeOK, Threads
    <3>2. pc[c] # "poll" /\ pc[c] # "stepLock"
      BY <3>1 DEF ClientLabels
    <3> QED
      BY <2>3, <3>1, <3>2 DEF Blocked
  <2> QED
    BY <2>1, <2>2, <2>3
<1> QED
  BY <1>1, TypeCorrect, LocksCorrect, WakeupCorrect, PTL

\* No Stop() is lost once Run() has passed its first check: the flag is never up
\* while Run() may sleep without a datagram on its way.
THEOREM StopCorrect == Spec => []StopWakes
<1>1. Init => StopWakes
  BY DEF Init, StopWakes
<1> QED
  BY <1>1, TypeCorrect, LocksCorrect, StopStep, PTL DEF Spec

\* The destructor completes only outside of a step.
THEOREM DestroyCorrect == Spec => DestroyOutsideStep
<1>1. TypeOK /\ LocksOwned /\ [Next]_vars
        => [lifetime' = "gone" /\ lifetime # "gone" => ~InStep]_vars
  <2> SUFFICES ASSUME TypeOK, LocksOwned, [Next]_vars,
                      lifetime' = "gone", lifetime # "gone"
               PROVE  ~InStep
    OBVIOUS
  <2>1. \E c \in Clients : Release(c)
    BY DEF Next, StepperNext, ClientNext, vars, Go, Call, locks, LeavePoll,
           CallStep, CallRun, RunStart, RunAgain, RunReturn, StepLock, TaskWatch,
           TaskStop, EnterPoll, PollPipe, PollSocket, PollTimeout, EndCallback,
           StepThrows, StepUnlock, StepPauseLock, StepPauseUnlock, CallPause,
           TryLock, TryLockFails, PauseLock, PauseBump, WaitStep, PauseUnlock,
           Critical, CallStop, StopFlag, StopBump, Destroy
  <2>2. PICK c \in Clients : Release(c)
    BY <2>1
  <2>3. stepMtx = c
    BY <2>2 DEF Release, Go, LocksOwned, HasStepMtx, Threads
  <2> QED
    BY <2>3 DEF InStep, LocksOwned, HasStepMtx, Threads
<1> QED
  BY <1>1, TypeCorrect, LocksCorrect, PTL DEF Spec, DestroyOutsideStep

-------------------------------------------------------------------------------
(* Driver implements Contract. *)

\* Every step of the driver is a step of the contract or invisible to it.
LEMMA ContractStep ==
  TypeOK /\ LocksOwned /\ PollSetCurrent /\ [Next]_vars => [Promise!Next]_(Promise!vars)
<1> SUFFICES ASSUME TypeOK, LocksOwned, PollSetCurrent, [Next]_vars
             PROVE  [Promise!Next]_(Promise!vars)
  OBVIOUS
<1> USE DEF TypeOK, Threads, StepperLabels, ClientLabels, Requesting, Go, Call, locks
<1>1. CASE CallStep
  BY <1>1 DEF CallStep, Promise!vars
<1>2. CASE CallRun
  BY <1>2 DEF CallRun, Promise!vars
<1>3. CASE RunStart
  BY <1>3 DEF RunStart, Promise!vars
<1>4. CASE RunAgain
  BY <1>4 DEF RunAgain, Promise!vars
<1>5. CASE RunReturn
  BY <1>5 DEF RunReturn, Promise!vars
<1>6. CASE StepLock
  <2>1. Promise!BeginStep
    BY <1>6 DEF StepLock, Promise!BeginStep
  <2> QED
    BY <2>1 DEF Promise!Next
<1>7. CASE TaskWatch
  <2>1. Promise!Task
    BY <1>7 DEF TaskWatch, Promise!Task, Promise!Change
  <2> QED
    BY <2>1 DEF Promise!Next
<1>8. CASE TaskStop
  BY <1>8 DEF TaskStop, Bumped, Promise!vars
<1>9. CASE EnterPoll
  <2>1. Promise!Poll
    BY <1>9 DEF EnterPoll, Promise!Poll
  <2> QED
    BY <2>1 DEF Promise!Next
<1>10. CASE PollPipe
  <2>1. Promise!EndStep
    BY <1>10 DEF PollPipe, LeavePoll, Unbumped, Promise!EndStep
  <2> QED
    BY <2>1 DEF Promise!Next
<1>11. CASE PollSocket
  <2>1. Promise!Serve
    BY <1>11 DEF PollSocket, LeavePoll, Promise!Serve
  <2> QED
    BY <2>1 DEF Promise!Next
<1>12. CASE PollTimeout
  <2>1. Promise!EndStep
    BY <1>12 DEF PollTimeout, LeavePoll, Promise!EndStep
  <2> QED
    BY <2>1 DEF Promise!Next
<1>13. CASE EndCallback
  <2>1. Promise!EndStep
    BY <1>13 DEF EndCallback, Promise!EndStep, PollSetCurrent
  <2> QED
    BY <2>1 DEF Promise!Next
<1>14. CASE StepThrows
  <2>1. Promise!EndStep
    BY <1>14 DEF StepThrows, InStep, Promise!EndStep, PollSetCurrent
  <2> QED
    BY <2>1 DEF Promise!Next
<1>15. CASE StepUnlock
  BY <1>15 DEF StepUnlock, Promise!vars
<1>16. CASE StepPauseLock
  BY <1>16 DEF StepPauseLock, Promise!vars
<1>17. CASE StepPauseUnlock
  BY <1>17 DEF StepPauseUnlock, Promise!vars
<1>18. ASSUME NEW c \in Clients, CallPause(c) PROVE [Promise!Next]_(Promise!vars)
  <2>1. Promise!Request(c)
    BY <1>18 DEF CallPause, Promise!Request
  <2> QED
    BY <2>1 DEF Promise!Next
<1>19. ASSUME NEW c \in Clients, TryLock(c) PROVE [Promise!Next]_(Promise!vars)
  BY <1>19 DEF TryLock, Promise!vars
<1>20. ASSUME NEW c \in Clients, TryLockFails(c) PROVE [Promise!Next]_(Promise!vars)
  BY <1>20 DEF TryLockFails, Promise!vars
<1>21. ASSUME NEW c \in Clients, PauseLock(c) PROVE [Promise!Next]_(Promise!vars)
  BY <1>21 DEF PauseLock, Promise!vars
<1>22. ASSUME NEW c \in Clients, PauseBump(c) PROVE [Promise!Next]_(Promise!vars)
  BY <1>22 DEF PauseBump, Bumped, Promise!vars
<1>23. ASSUME NEW c \in Clients, WaitStep(c) PROVE [Promise!Next]_(Promise!vars)
  BY <1>23 DEF WaitStep, Promise!vars
<1>24. ASSUME NEW c \in Clients, PauseUnlock(c) PROVE [Promise!Next]_(Promise!vars)
  BY <1>24 DEF PauseUnlock, Promise!vars
<1>25. ASSUME NEW c \in Clients, Critical(c) PROVE [Promise!Next]_(Promise!vars)
  <2>1. Promise!Perform(c)
    BY <1>25 DEF Critical, Promise!Perform, Promise!Change, LocksOwned, HasStepMtx
  <2> QED
    BY <2>1 DEF Promise!Next
<1>26. ASSUME NEW c \in Clients, Release(c) PROVE [Promise!Next]_(Promise!vars)
  BY <1>26 DEF Release, Promise!vars
<1>27. ASSUME NEW c \in Clients, CallStop(c) PROVE [Promise!Next]_(Promise!vars)
  BY <1>27 DEF CallStop, Promise!vars
<1>28. ASSUME NEW c \in Clients, StopFlag(c) PROVE [Promise!Next]_(Promise!vars)
  BY <1>28 DEF StopFlag, Promise!vars
<1>29. ASSUME NEW c \in Clients, StopBump(c) PROVE [Promise!Next]_(Promise!vars)
  BY <1>29 DEF StopBump, Bumped, Promise!vars
<1>30. ASSUME NEW c \in Clients, Destroy(c) PROVE [Promise!Next]_(Promise!vars)
  <2>1. Promise!Request(c)
    BY <1>30 DEF Destroy, Promise!Request
  <2> QED
    BY <2>1 DEF Promise!Next
<1>31. CASE UNCHANGED vars
  BY <1>31 DEF vars, Promise!vars
<1> QED
  BY <1>1, <1>2, <1>3, <1>4, <1>5, <1>6, <1>7, <1>8, <1>9, <1>10, <1>11, <1>12, <1>13,
     <1>14, <1>15, <1>16, <1>17, <1>18, <1>19, <1>20, <1>21, <1>22, <1>23, <1>24,
     <1>25, <1>26, <1>27, <1>28, <1>29, <1>30, <1>31 DEF Next, StepperNext, ClientNext

\* Seen from outside, clients' operations are atomic and fall between steps.
THEOREM Implements == Spec => ImplementsContract
<1>1. Init => Promise!Init
  BY DEF Init, Promise!Init, Threads, Requesting
<1> QED
  BY <1>1, TypeCorrect, LocksCorrect, PollCorrect, ContractStep, PTL
     DEF Spec, ImplementsContract, Promise!Spec
===============================================================================
