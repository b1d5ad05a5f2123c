SPECIFICATION Spec
CONSTANTS
  NR_TASKS = 3
  Tasks = {init, t1, t2, t3}
  InitTask = init
  NoTask = NoTask
  ClockRange = 6
  SleepTimes = {2}
  MaxCreates = 2
INVARIANTS  StructuresAccounted 
PROPERTIES NoDeadTaskRuns NeverEarly
SYMMETRY Symmetry
