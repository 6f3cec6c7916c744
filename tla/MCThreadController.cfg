SPECIFICATION Spec
CONSTANTS
  t1 = t1  t2 = t2  t3 = t3
  Controller = controller
  NoThread = none
  Threads <- MCThreads
  Intervals <- MCIntervals
  NullReads <- MCNull
  MaxThreads = 2
  Longs = 16
  MaxTime = 1
  MaxEdits = 1
INVARIANTS
  SlotsSound
  RunsAllDue
PROPERTY DueThreadRuns
