SPECIFICATION FairSpec
CONSTANTS
  Tasks = {t1, t2, t3}
  Timeouts <- AllTimeouts
  TicksPerMs = 2
  IntBits = 8
  MaxTime = 3
  MaxWhen = 2
INVARIANTS SortedStable NeverOversleeps StepWithinTimeout
PROPERTIES ImplementsAgenda DueTasksRun StepTodosEnds
