SPECIFICATION FairSpec
CONSTANTS
  Clients = {c1, c2, c3}
  Stepper = stepper
  NoThread = none
  PipeCap = 1
  MaxCalls = 3
  MayDestroy = TRUE
INVARIANTS MutualExclusion NoLostWakeup StopWakes PollSetCurrent NeverStuck
PROPERTIES DestroyOutsideStep ImplementsContract RequestsAnswered RunReturns
CHECK_DEADLOCK FALSE
