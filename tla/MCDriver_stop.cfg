SPECIFICATION FairSpec
CONSTANTS
  Clients = {c1}
  Stepper = stepper
  NoThread = none
  PipeCap = 2
  MaxCalls = 2
  MayDestroy = FALSE
PROPERTY StopEndsRun
