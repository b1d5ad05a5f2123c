SPECIFICATION FairSpec
CONSTANTS
  NR_TASKS = 4
  Tasks = {init, t1, t2, t3}
  InitTask = init
  NoTask = NoTask
  ClockRange = 6
  SleepTimes = {1}
  MaxCreates = 2
INVARIANTS WakesWithinARound
 
