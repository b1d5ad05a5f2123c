--------------------------- MODULE SchedulerProofs ---------------------------
(***************************************************************************)
(* Proofs about scheduler.c and fork.c for any table size, any set of task *)
(* structures and any interleaving of ticks and calls.                     *)
(***************************************************************************)
EXTENDS Scheduler, TLAPS

\* _schedule picks a task of the table, or reads past the table.
LEMMA ScheduleFacts ==
  ASSUME TypeOK, NEW resume, NEW now, Schedule(resume, now)
  PROVE  \/ /\ nextPid' \in Nat /\ nextPid' > NR_TASKS /\ nextPid' < nr_tasks
            /\ UNCHANGED <<current, state, preempt_count, pc, inSched>>
         \/ /\ nextPid' \in Slots /\ nextPid' < nr_tasks
            /\ TASKS[nextPid'] \in Tasks
            /\ SwitchTo(TASKS[nextPid'], resume)
<1> USE SchedulerConstants
<1>1. PICK ghosts \in SUBSET (NR_TASKS..(nr_tasks - 1)) :
        \E n \in Candidates(ghosts, now) :
          /\ nextPid' = n
          /\ n # NR_TASKS
          /\ IF n > NR_TASKS
               THEN UNCHANGED <<current, state, preempt_count, pc, inSched>>
               ELSE SwitchTo(TASKS[n], resume)
  BY DEF Schedule
<1>2. PICK n \in Candidates(ghosts, now) :
          /\ nextPid' = n
          /\ n # NR_TASKS
          /\ IF n > NR_TASKS
               THEN UNCHANGED <<current, state, preempt_count, pc, inSched>>
               ELSE SwitchTo(TASKS[n], resume)
  BY <1>1
<1>3. n \in 0..(nr_tasks - 1) /\ (n < NR_TASKS => TASKS[n] # NoTask)
  BY DEF Candidates
<1>4. n \in Nat /\ n < nr_tasks
  BY <1>3 DEF TypeOK
<1>5. CASE n > NR_TASKS
  BY <1>2, <1>4, <1>5
<1>6. CASE n < NR_TASKS
  BY <1>2, <1>3, <1>4, <1>6 DEF TypeOK, Slots
<1> QED
  BY <1>2, <1>4, <1>5, <1>6

\* A task switch keeps the invariant.
LEMMA SwitchKeepsInv ==
  ASSUME SchedulerInv, NEW resume \in PcValues,
         pc[current] \in {"run", "sched"} => resume \in {"run", "sched"},
         NEW now, Schedule(resume, now), UNCHANGED tableVars,
         clock' \in 0..(ClockRange - 1), due' \in [Tasks -> Int],
         UNCHANGED <<wake_ticks, leaks>>
  PROVE  SchedulerInv'
<1> USE SchedulerConstants
<1>0. TypeOK /\ UNCHANGED <<TASKS, nr_tasks, pid, live, creates>>
  BY DEF SchedulerInv, tableVars
<1>1. CASE /\ nextPid' \in Nat /\ nextPid' > NR_TASKS
           /\ UNCHANGED <<current, state, preempt_count, pc, inSched>>
  BY <1>0, <1>1 DEF SchedulerInv, TypeOK, SlotsCovered, SlotIsPid, NrTasksBounded,
       PreemptBalance, InitReady, CurrentInv, TableInv, InTable
<1>2. CASE /\ nextPid' \in Slots /\ TASKS[nextPid'] \in Tasks
           /\ SwitchTo(TASKS[nextPid'], resume)
  <2> DEFINE next == TASKS[nextPid']
  <2>1. /\ next \in Tasks /\ next # NoTask /\ next \in InTable /\ current' = next
        /\ state' = [state EXCEPT ![next] = "ready"]
        /\ pc' = [pc EXCEPT ![current] = resume]
    BY <1>2 DEF SwitchTo, InTable
  <2>2. InTable' = InTable
    BY <1>0 DEF InTable
  <2>3. /\ pc[next] \in {"run", "sched"} /\ next \in live
    BY <2>1, <1>2 DEF SchedulerInv, TableInv
  <2>4. next = current => pc'[next] \in {"run", "sched"}
    BY <1>0, <2>1, <2>3 DEF TypeOK
  <2>t. /\ nextPid' \in Nat
        /\ state' \in [Tasks -> {"ready", "blocked", "sleeping"}]
        /\ pc' \in [Tasks -> PcValues]
    <3>1. nextPid' \in Nat
      BY <1>2 DEF Slots
    <3>2. state' \in [Tasks -> {"ready", "blocked", "sleeping"}]
      BY <1>0, <2>1 DEF TypeOK
    <3>3. pc' \in [Tasks -> PcValues]
      BY <1>0, <2>1 DEF TypeOK
    <3> QED
      BY <3>1, <3>2, <3>3
  <2>5. TypeOK'
    <3>1. CASE next = current
      BY <1>0, <1>2, <2>1, <2>t, <3>1 DEF TypeOK, SwitchTo
    <3>2. CASE next # current
      <4>1. preempt_count' \in [Tasks -> Int]
        BY <1>0, <1>2, <2>1, <3>2 DEF TypeOK, SwitchTo, Resumed
      <4>2. inSched' \in SUBSET Tasks
        BY <1>0, <1>2, <2>1, <3>2 DEF TypeOK, SwitchTo
      <4> QED
        BY <1>0, <2>1, <2>t, <4>1, <4>2 DEF TypeOK
    <3> QED
      BY <3>1, <3>2
  <2>6. SlotsCovered' /\ SlotIsPid' /\ NrTasksBounded'
    BY <1>0 DEF SchedulerInv, SlotsCovered, SlotIsPid, NrTasksBounded
  <2>7. PreemptBalance'
    <3>1. CASE next = current
      BY <1>2, <2>2, <3>1 DEF SchedulerInv, PreemptBalance, SwitchTo
    <3>2. CASE next # current
      <4> SUFFICES ASSUME NEW t \in InTable
                   PROVE preempt_count'[t] = leaks[t] + (IF t \in inSched' THEN 1 ELSE 0)
        BY <2>2 DEF PreemptBalance
      <4>0. t \in Tasks
        BY <1>0 DEF InTable, TypeOK
      <4>1. preempt_count[t] = leaks[t] + (IF t \in inSched THEN 1 ELSE 0)
        BY DEF SchedulerInv, PreemptBalance
      <4>2. /\ preempt_count' = [preempt_count EXCEPT ![current] = @ + 1, ![next] = Resumed(next)]
            /\ inSched' = (inSched \cup {current}) \ {next}
        BY <1>2, <3>2 DEF SwitchTo
      <4>3. current \notin inSched
        BY DEF SchedulerInv, CurrentInv
      <4> QED
        BY <1>0, <2>1, <3>2, <4>0, <4>1, <4>2, <4>3 DEF TypeOK, Resumed
    <3> QED
      BY <3>1, <3>2
  <2>8. InitReady'
    BY <1>0, <2>1 DEF SchedulerInv, InitReady, TypeOK
  <2>9. CurrentInv'
    <3>1. current' \notin inSched'
      BY <1>2, <2>1 DEF SwitchTo, SchedulerInv, CurrentInv
    <3>2. pc'[current'] \in {"run", "sched"}
      BY <1>0, <2>1, <2>3, <2>4 DEF TypeOK
    <3> QED
      BY <2>1, <2>2, <3>1, <3>2 DEF CurrentInv
  <2>10. TableInv'
    <3> SUFFICES ASSUME NEW s \in Slots, TASKS[s] # NoTask
                 PROVE  TASKS[s] \in live /\ pc'[TASKS[s]] \in {"run", "sched"}
      BY <1>0 DEF TableInv
    <3>1. /\ TASKS[s] \in live /\ TASKS[s] \in Tasks
          /\ pc[TASKS[s]] \in {"run", "sched"}
      BY <1>0 DEF SchedulerInv, TableInv, TypeOK
    <3> QED
      BY <1>0, <2>1, <3>1 DEF TypeOK
  <2> QED
    BY <2>5, <2>6, <2>7, <2>8, <2>9, <2>10 DEF SchedulerInv
<1> QED
  BY <1>0, <1>1, <1>2, ScheduleFacts

\* Every step keeps the invariant.
LEMMA InvStep == SchedulerInv /\ [Next]_vars => SchedulerInv'
<1> SUFFICES ASSUME SchedulerInv, [Next]_vars PROVE SchedulerInv'
  OBVIOUS
<1> USE SchedulerConstants
<1>0. /\ TypeOK /\ SlotsCovered /\ SlotIsPid /\ NrTasksBounded
      /\ PreemptBalance /\ InitReady /\ CurrentInv /\ TableInv
  BY DEF SchedulerInv
<1>1. CASE Tick
  <2>1. /\ clock' \in 0..(ClockRange - 1)
    BY <1>0, <1>1 DEF Tick, TypeOK
  <2>2. due' \in [Tasks -> Int]
    BY <1>0, <1>1 DEF Tick, TypeOK
  <2>3. UNCHANGED tableVars /\ UNCHANGED <<wake_ticks, leaks>>
    BY <1>1 DEF Tick
  <2>4. CASE preempt_count[current] > 0
    <3>1. UNCHANGED <<current, state, preempt_count, pc, inSched, nextPid>>
      BY <1>1, <2>4 DEF Tick
    <3> QED
      BY <1>0, <2>1, <2>2, <2>3, <3>1 DEF SchedulerInv, TypeOK, SlotsCovered, SlotIsPid,
         NrTasksBounded, PreemptBalance, InitReady, CurrentInv, TableInv, InTable, tableVars
  <2>5. CASE ~(preempt_count[current] > 0)
    <3>1. Schedule(pc[current], (clock + 1) % ClockRange)
      BY <1>1, <2>5 DEF Tick
    <3>2. pc[current] \in PcValues
      BY <1>0 DEF TypeOK
    <3> QED
      BY <2>1, <2>2, <2>3, <3>1, <3>2, SwitchKeepsInv
  <2> QED
    BY <2>4, <2>5
<1>2. CASE Yield
  <2> DEFINE resume == IF pc[current] = "dead" THEN "dead" ELSE "run"
  <2>1. Schedule(resume, clock)
    BY <1>2 DEF Yield
  <2>2. /\ UNCHANGED tableVars /\ UNCHANGED <<wake_ticks, leaks>>
        /\ clock' \in 0..(ClockRange - 1) /\ due' \in [Tasks -> Int]
    BY <1>0, <1>2 DEF Yield, TypeOK
  <2>3. /\ resume \in PcValues
        /\ pc[current] \in {"run", "sched"} => resume \in {"run", "sched"}
    BY DEF PcValues
  <2> HIDE DEF resume
  <2> QED
    BY <2>1, <2>2, <2>3, SwitchKeepsInv
<1>3. CASE Block
  <2>u. /\ UNCHANGED <<TASKS, nr_tasks, pid, live, creates, current, preempt_count, inSched, leaks>>
        /\ InTable' = InTable
    BY <1>3 DEF Block, tableVars, InTable
  <2>1. TypeOK'
    BY <1>0, <1>3 DEF TypeOK, Block, tableVars, PcValues
  <2>2. SlotsCovered' /\ SlotIsPid' /\ NrTasksBounded' /\ PreemptBalance'
    BY <1>0, <2>u DEF SlotsCovered, SlotIsPid, NrTasksBounded, PreemptBalance
  <2>3. InitReady'
    BY <1>0, <2>u, <1>3 DEF TypeOK, InitReady, Block
  <2>4. CurrentInv'
    BY <1>0, <2>u, <1>3 DEF TypeOK, CurrentInv, Block, Running
  <2>5. TableInv'
    BY <1>0, <2>u, <1>3 DEF TypeOK, TableInv, Block
  <2> QED
    BY <2>1, <2>2, <2>3, <2>4, <2>5 DEF SchedulerInv
<1>4. CASE \E n \in SleepTimes : UsSleep(n)
  <2>p. PICK n \in SleepTimes : UsSleep(n)
    BY <1>4
  <2>u. /\ UNCHANGED <<TASKS, nr_tasks, pid, live, creates, current, preempt_count, inSched, leaks>>
        /\ InTable' = InTable
    BY <2>p DEF UsSleep, tableVars, InTable
  <2>w. (clock + n) % ClockRange \in 0..(ClockRange - 1) /\ n \in Int
    BY <1>0 DEF TypeOK
  <2>1. TypeOK'
    BY <1>0, <2>p, <2>w DEF TypeOK, UsSleep, tableVars, PcValues
  <2>2. SlotsCovered' /\ SlotIsPid' /\ NrTasksBounded' /\ PreemptBalance'
    BY <1>0, <2>u DEF SlotsCovered, SlotIsPid, NrTasksBounded, PreemptBalance
  <2>3. InitReady'
    BY <1>0, <2>u, <2>p DEF TypeOK, InitReady, UsSleep
  <2>4. CurrentInv'
    BY <1>0, <2>u, <2>p DEF TypeOK, CurrentInv, UsSleep, Running
  <2>5. TableInv'
    BY <1>0, <2>u, <2>p DEF TypeOK, TableInv, UsSleep
  <2> QED
    BY <2>1, <2>2, <2>3, <2>4, <2>5 DEF SchedulerInv
<1>5. CASE \E t \in Tasks : Wake(t)
  <2>p. PICK t \in Tasks : Wake(t)
    BY <1>5
  <2>u. /\ UNCHANGED <<TASKS, nr_tasks, pid, live, creates, current, preempt_count, inSched, leaks>>
        /\ InTable' = InTable
    BY <2>p DEF Wake, tableVars, InTable
  <2>1. TypeOK'
    BY <1>0, <2>p DEF TypeOK, Wake, tableVars, PcValues
  <2>2. SlotsCovered' /\ SlotIsPid' /\ NrTasksBounded' /\ PreemptBalance'
    BY <1>0, <2>u DEF SlotsCovered, SlotIsPid, NrTasksBounded, PreemptBalance
  <2>3. InitReady'
    BY <1>0, <2>u, <2>p DEF TypeOK, InitReady, Wake
  <2>4. CurrentInv'
    BY <1>0, <2>u, <2>p DEF TypeOK, CurrentInv, Wake, Running
  <2>5. TableInv'
    BY <1>0, <2>u, <2>p DEF TypeOK, TableInv, Wake
  <2> QED
    BY <2>1, <2>2, <2>3, <2>4, <2>5 DEF SchedulerInv
<1>6. CASE CreateNoMemory
  <2>u. /\ UNCHANGED <<TASKS, nr_tasks, pid, live, creates, current, state, pc, inSched>>
        /\ InTable' = InTable
    BY <1>6 DEF CreateNoMemory, tableVars, InTable
  <2>c. /\ preempt_count' = [preempt_count EXCEPT ![current] = @ + 1]
        /\ leaks' = [leaks EXCEPT ![current] = @ + 1]
        /\ current \in Tasks /\ preempt_count \in [Tasks -> Int] /\ leaks \in [Tasks -> Nat]
    BY <1>0, <1>6 DEF CreateNoMemory, TypeOK
  <2>1. TypeOK'
    <3>1. preempt_count' \in [Tasks -> Int] /\ leaks' \in [Tasks -> Nat]
      BY <2>c
    <3> QED
      BY <1>0, <2>u, <3>1, <1>6 DEF TypeOK, CreateNoMemory
  <2>2. SlotsCovered' /\ SlotIsPid' /\ NrTasksBounded' /\ InitReady' /\ CurrentInv' /\ TableInv'
    BY <1>0, <2>u DEF SlotsCovered, SlotIsPid, NrTasksBounded, InitReady, CurrentInv, TableInv
  <2>3. PreemptBalance'
    <3> SUFFICES ASSUME NEW t \in InTable
                 PROVE  preempt_count'[t] = leaks'[t] + (IF t \in inSched THEN 1 ELSE 0)
      BY <2>u DEF PreemptBalance
    <3>1. t \in Tasks
      BY <1>0 DEF InTable, TypeOK
    <3>2. preempt_count[t] = leaks[t] + (IF t \in inSched THEN 1 ELSE 0)
      BY <1>0 DEF PreemptBalance
    <3> QED
      BY <2>c, <3>1, <3>2
  <2> QED
    BY <2>1, <2>2, <2>3 DEF SchedulerInv
<1>7. CASE TerminateUnlink
  <2>p. PICK s \in Slots : /\ TASKS[s] = current
                          /\ TASKS' = [TASKS EXCEPT ![s] = NoTask]
    BY <1>7 DEF TerminateUnlink
  <2>u. /\ UNCHANGED <<nr_tasks, pid, live, creates, current, state, preempt_count, inSched, leaks>>
        /\ pc' = [pc EXCEPT ![current] = "unlinked"]
        /\ pid[current] # 0 /\ current \in Tasks
    BY <1>0, <1>7 DEF TerminateUnlink, TypeOK
  <2>s. s = pid[current] /\ s # 0
    BY <1>0, <2>p, <2>u DEF SlotIsPid
  <2>t. /\ \A r \in Slots : TASKS'[r] # NoTask => r # s /\ TASKS'[r] = TASKS[r]
        /\ \A r \in Slots : r # s => TASKS'[r] = TASKS[r]
        /\ TASKS'[s] = NoTask
    BY <1>0, <2>p DEF TypeOK
  <2>i. InTable' \subseteq InTable
    BY <2>t DEF InTable
  <2>1. TypeOK'
    BY <1>0, <2>p, <2>u, <1>7 DEF TypeOK, TerminateUnlink, PcValues
  <2>2. SlotsCovered' /\ SlotIsPid' /\ NrTasksBounded'
    BY <1>0, <2>u, <2>t DEF SlotsCovered, SlotIsPid, NrTasksBounded
  <2>3. PreemptBalance'
    BY <1>0, <2>u, <2>i DEF PreemptBalance
  <2>4. InitReady'
    BY <1>0, <2>u, <2>s, <2>t DEF InitReady, Slots
  <2>5. CurrentInv'
    BY <1>0, <2>u, <2>s, <2>t DEF CurrentInv, TypeOK
  <2>6. TableInv'
    <3> SUFFICES ASSUME NEW r \in Slots, TASKS'[r] # NoTask
                 PROVE  TASKS'[r] \in live /\ pc'[TASKS'[r]] \in {"run", "sched"}
      BY <2>u DEF TableInv
    <3>1. r # s /\ TASKS'[r] = TASKS[r] /\ TASKS[r] \in Tasks
      BY <1>0, <2>t DEF TypeOK
    <3>2. TASKS[r] # current
      BY <1>0, <2>s, <3>1 DEF SlotIsPid
    <3> QED
      BY <1>0, <2>u, <3>1, <3>2 DEF TableInv, TypeOK
  <2> QED
    BY <2>1, <2>2, <2>3, <2>4, <2>5, <2>6 DEF SchedulerInv
<1>8. CASE TerminateShrink
  <2>u. /\ UNCHANGED <<TASKS, pid, live, creates, current, state, preempt_count, inSched, leaks>>
        /\ pc' = [pc EXCEPT ![current] = "shrunk"] /\ pc[current] = "unlinked"
        /\ nr_tasks' = IF pid[current] = nr_tasks - 1 THEN nr_tasks - 1 ELSE nr_tasks
        /\ InTable' = InTable
    BY <1>8 DEF TerminateShrink, Running, InTable
  <2>g. pid[current] \in Slots /\ pid[current] # 0 /\ TASKS[pid[current]] = NoTask
    BY <1>0, <2>u DEF CurrentInv, TypeOK
  <2>n. /\ nr_tasks \in Nat /\ nr_tasks' \in Nat /\ nr_tasks' >= 1 /\ nr_tasks' <= nr_tasks
        /\ \A s \in Slots : s < nr_tasks => s < nr_tasks' \/ s = pid[current]
    BY <1>0, <2>u, <2>g DEF NrTasksBounded, TypeOK, Slots
  <2>1. TypeOK'
    BY <1>0, <2>u, <2>n, <1>8 DEF TypeOK, TerminateShrink, PcValues
  <2>2. SlotsCovered'
    BY <1>0, <2>u, <2>g, <2>n DEF SlotsCovered
  <2>3. SlotIsPid' /\ PreemptBalance' /\ InitReady'
    BY <1>0, <2>u DEF SlotIsPid, PreemptBalance, InitReady
  <2>4. NrTasksBounded'
    BY <1>0, <2>u, <2>n DEF NrTasksBounded, TypeOK
  <2>5. CurrentInv'
    BY <1>0, <2>u DEF CurrentInv, TypeOK
  <2>6. TableInv'
    BY <1>0, <2>u DEF TableInv, TypeOK
  <2> QED
    BY <2>1, <2>2, <2>3, <2>4, <2>5, <2>6 DEF SchedulerInv
<1>9. CASE TerminateDelete
  <2>u. /\ UNCHANGED <<TASKS, nr_tasks, pid, creates, current, state, preempt_count, inSched, leaks>>
        /\ pc' = [pc EXCEPT ![current] = "dead"] /\ pc[current] = "shrunk"
        /\ live' = live \ {current}
        /\ InTable' = InTable
    BY <1>9 DEF TerminateDelete, Running, InTable
  <2>1. TypeOK'
    BY <1>0, <2>u, <1>9 DEF TypeOK, TerminateDelete, PcValues
  <2>2. SlotsCovered' /\ SlotIsPid' /\ NrTasksBounded' /\ PreemptBalance' /\ InitReady'
    BY <1>0, <2>u DEF SlotsCovered, SlotIsPid, NrTasksBounded, PreemptBalance, InitReady
  <2>3. CurrentInv'
    BY <1>0, <2>u DEF CurrentInv, TypeOK
  <2>4. TableInv'
    BY <1>0, <2>u DEF TableInv, TypeOK
  <2> QED
    BY <2>1, <2>2, <2>3, <2>4 DEF SchedulerInv
<1>10. CASE \E t \in Tasks : Create(t)
  <2>p. PICK t \in Tasks : Create(t)
    BY <1>10
  <2>s. PICK s \in FreeSlots : /\ \A r \in FreeSlots : s <= r
                              /\ TASKS' = [TASKS EXCEPT ![s] = t]
                              /\ pid' = [pid EXCEPT ![t] = s]
    BY <2>p DEF Create
  <2>u. /\ UNCHANGED <<current, wake_ticks, clock, nextPid, due>>
        /\ nr_tasks' = nr_tasks + 1 /\ creates' = creates + 1 /\ creates < MaxCreates
        /\ live' = live \cup {t} /\ t \notin live
        /\ state' = [state EXCEPT ![t] = "ready"]
        /\ preempt_count' = [preempt_count EXCEPT ![t] = 0]
        /\ pc' = [pc EXCEPT ![t] = "run"] /\ pc[current] = "run"
        /\ leaks' = [leaks EXCEPT ![t] = 0]
        /\ inSched' = inSched \ {t}
    BY <2>p DEF Create, Running
  <2>f. s \in Slots /\ s # 0 /\ s \in Nat /\ TASKS[s] = NoTask
    BY DEF FreeSlots, Slots
  <2>t. /\ TASKS'[s] = t /\ t # NoTask
        /\ \A r \in Slots : r # s => TASKS'[r] = TASKS[r]
    BY <1>0, <2>s, <2>f DEF TypeOK
  <2>n. /\ \A r \in Slots : TASKS[r] # t
        /\ current \in InTable /\ current # t /\ InitTask # t
    <3>1. \A r \in Slots : TASKS[r] # t
      BY <1>0, <2>u, <2>t DEF TableInv
    <3>2. current \in InTable
      BY <1>0, <2>u DEF CurrentInv
    <3>3. InitTask # t
      BY <1>0, <3>1 DEF InitReady, Slots
    <3> QED
      BY <3>1, <3>2, <3>3 DEF InTable
  <2>i. InTable' = InTable \cup {t}
    BY <1>0, <2>t, <2>f DEF InTable
  <2>1. TypeOK'
    <3>1. TASKS' \in [Slots -> Tasks \cup {NoTask}] /\ pid' \in [Tasks -> Slots]
      BY <1>0, <2>s, <2>f DEF TypeOK
    <3>2. /\ nr_tasks' \in Nat /\ creates' \in 0..MaxCreates
          /\ state' \in [Tasks -> {"ready", "blocked", "sleeping"}]
          /\ preempt_count' \in [Tasks -> Int] /\ leaks' \in [Tasks -> Nat]
          /\ pc' \in [Tasks -> PcValues]
      BY <1>0, <2>u DEF TypeOK, PcValues
    <3>3. inSched' \in SUBSET Tasks /\ live' \in SUBSET Tasks
      BY <1>0, <2>u DEF TypeOK
    <3> QED
      BY <1>0, <2>u, <3>1, <3>2, <3>3 DEF TypeOK
  <2>2. SlotsCovered'
    <3> SUFFICES ASSUME NEW r \in Slots, TASKS'[r] # NoTask PROVE r < nr_tasks'
      BY DEF SlotsCovered
    <3>1. CASE r # s
      BY <1>0, <2>t, <2>u, <3>1 DEF SlotsCovered, TypeOK, Slots
    <3>2. CASE r = s /\ s <= nr_tasks
      BY <1>0, <2>u, <2>f, <3>2 DEF TypeOK
    <3>3. CASE r = s /\ s > nr_tasks
      \* nr_tasks is itself a free slot below s
      <4>1. nr_tasks \in Slots /\ nr_tasks >= 1 /\ nr_tasks \in Nat
        BY <1>0, <2>f, <3>3 DEF NrTasksBounded, TypeOK, Slots
      <4>2. TASKS[nr_tasks] = NoTask
        BY <1>0, <4>1 DEF SlotsCovered
      <4>3. nr_tasks \in FreeSlots
        BY <4>1, <4>2 DEF FreeSlots, Slots
      <4> QED
        BY <2>s, <2>f, <3>3, <4>1, <4>3
    <3> QED
      BY <1>0, <2>f, <3>1, <3>2, <3>3 DEF TypeOK
  <2>3. SlotIsPid'
    <3> SUFFICES ASSUME NEW r \in Slots, TASKS'[r] # NoTask PROVE pid'[TASKS'[r]] = r
      BY DEF SlotIsPid
    <3>1. CASE r = s
      BY <1>0, <2>s, <2>t, <3>1 DEF TypeOK
    <3>2. CASE r # s
      BY <1>0, <2>s, <2>t, <2>n, <3>2 DEF SlotIsPid, TypeOK
    <3> QED
      BY <3>1, <3>2
  <2>4. NrTasksBounded'
    BY <1>0, <2>u DEF NrTasksBounded, TypeOK
  <2>5. PreemptBalance'
    <3> SUFFICES ASSUME NEW v \in InTable \cup {t}
                 PROVE  preempt_count'[v] = leaks'[v] + (IF v \in inSched' THEN 1 ELSE 0)
      BY <2>i DEF PreemptBalance
    <3>1. v \in Tasks
      BY <1>0 DEF InTable, TypeOK
    <3>2. CASE v = t
      BY <1>0, <2>u, <3>2 DEF TypeOK
    <3>3. CASE v # t
      <4>1. preempt_count[v] = leaks[v] + (IF v \in inSched THEN 1 ELSE 0)
        BY <1>0, <3>3 DEF PreemptBalance
      <4> QED
        BY <1>0, <2>u, <3>1, <3>3, <4>1 DEF TypeOK
    <3> QED
      BY <3>2, <3>3
  <2>6. InitReady'
    BY <1>0, <2>s, <2>t, <2>f, <2>u, <2>n DEF InitReady, TypeOK, Slots
  <2>7. CurrentInv'
    BY <1>0, <2>u, <2>n, <2>i DEF CurrentInv, TypeOK
  <2>8. TableInv'
    <3> SUFFICES ASSUME NEW r \in Slots, TASKS'[r] # NoTask
                 PROVE  TASKS'[r] \in live' /\ pc'[TASKS'[r]] \in {"run", "sched"}
      BY DEF TableInv
    <3>1. CASE r = s
      BY <1>0, <2>t, <2>u, <3>1 DEF TypeOK
    <3>2. CASE r # s
      BY <1>0, <2>t, <2>u, <2>n, <3>2 DEF TableInv, TypeOK
    <3> QED
      BY <3>1, <3>2
  <2> QED
    BY <2>1, <2>2, <2>3, <2>4, <2>5, <2>6, <2>7, <2>8 DEF SchedulerInv
<1>11. CASE \E t \in Tasks : CreateNoSlot(t)
  <2>p. PICK t \in Tasks : CreateNoSlot(t)
    BY <1>11
  <2>u. /\ UNCHANGED <<TASKS, nr_tasks, pid, creates, current, state, preempt_count, inSched, leaks>>
        /\ live' = live \cup {t} /\ t \notin live
        /\ pc' = [pc EXCEPT ![t] = "orphan"] /\ pc[current] = "run"
        /\ InTable' = InTable
    BY <2>p DEF CreateNoSlot, Running, InTable
  <2>n. current # t
    BY <1>0, <2>u DEF CurrentInv, TableInv, InTable
  <2>1. TypeOK'
    BY <1>0, <2>u, <2>p DEF TypeOK, CreateNoSlot, PcValues
  <2>2. SlotsCovered' /\ SlotIsPid' /\ NrTasksBounded' /\ PreemptBalance' /\ InitReady'
    BY <1>0, <2>u DEF SlotsCovered, SlotIsPid, NrTasksBounded, PreemptBalance, InitReady
  <2>3. CurrentInv'
    BY <1>0, <2>u, <2>n DEF CurrentInv, TypeOK
  <2>4. TableInv'
    BY <1>0, <2>u DEF TableInv, TypeOK
  <2> QED
    BY <2>1, <2>2, <2>3, <2>4 DEF SchedulerInv
<1>12. CASE UNCHANGED vars
  BY <1>0, <1>12 DEF SchedulerInv, TypeOK, SlotsCovered, SlotIsPid, NrTasksBounded, PreemptBalance,
     InitReady, CurrentInv, TableInv, InTable, vars, tableVars
<1> QED
  BY <1>1, <1>2, <1>3, <1>4, <1>5, <1>6, <1>7, <1>8, <1>9, <1>10, <1>11, <1>12 DEF Next

\* The invariant of the scheduler: in every reachable state each task lies
\* in a slot the round-robin scan reaches, under its own pid, preempt_count is
\* balanced, and init_task is there to be picked.
THEOREM SchedulerInvariant == Spec => []SchedulerInv
<1>1. Init => SchedulerInv
  <2> SUFFICES ASSUME Init PROVE SchedulerInv
    OBVIOUS
  <2> USE SchedulerConstants
  <2>1. TypeOK
    BY DEF Init, TypeOK, Slots, PcValues
  <2>2. InTable = {InitTask}
    BY DEF Init, InTable, Slots
  <2>3. \A s \in Slots : TASKS[s] # NoTask => s = 0 /\ TASKS[s] = InitTask
    BY DEF Init
  <2> QED
    BY <2>1, <2>2, <2>3 DEF Init, SchedulerInv, SlotsCovered, SlotIsPid, NrTasksBounded,
       PreemptBalance, InitReady, CurrentInv, TableInv, Slots
<1> QED
  BY <1>1, InvStep, PTL DEF Spec

\* A system that creates fewer than NR_TASKS tasks in its life never reads
\* past TASKS: get_next_task's answer stays below NR_TASKS.
THEOREM FewTasksStayInTable ==
  ASSUME MaxCreates < NR_TASKS
  PROVE  Spec => []NextPidInTable
<1> USE SchedulerConstants
<1>1. Init => NextPidInTable
  BY DEF Init, NextPidInTable
<1>2. SchedulerInv /\ NextPidInTable /\ [Next]_vars => NextPidInTable'
  <2> SUFFICES ASSUME SchedulerInv, NextPidInTable, [Next]_vars PROVE NextPidInTable'
    OBVIOUS
  <2>1. TypeOK /\ nr_tasks <= NR_TASKS /\ nr_tasks \in Nat
    BY DEF SchedulerInv, NrTasksBounded, TypeOK
  <2>2. ASSUME NEW resume, NEW now, Schedule(resume, now) PROVE NextPidInTable'
    BY <2>1, <2>2, ScheduleFacts DEF NextPidInTable, Slots
  <2>3. CASE Tick
    BY <2>2, <2>3 DEF Tick, NextPidInTable
  <2>4. CASE Yield
    BY <2>2, <2>4 DEF Yield
  <2>5. CASE ~(Tick \/ Yield)
    BY <2>5 DEF Next, Block, CreateNoMemory, TerminateUnlink, TerminateShrink,
       TerminateDelete, UsSleep, Wake, Create, CreateNoSlot, vars, NextPidInTable
  <2> QED
    BY <2>3, <2>4, <2>5
<1> QED
  BY <1>1, <1>2, SchedulerInvariant, PTL DEF Spec

\* A task whose structure delete_task has freed never gets the processor
\* back, although it is still running when it is freed.
THEOREM DeadTasksStayOff == Spec => NoDeadTaskRuns
<1>1. SchedulerInv /\ [Next]_vars => (current' # current => current' \in live)
  <2> SUFFICES ASSUME SchedulerInv, [Next]_vars, current' # current
               PROVE  current' \in live
    OBVIOUS
  <2>1. ASSUME NEW resume, NEW now, Schedule(resume, now) PROVE current' \in live
    <3>1. TypeOK
      BY DEF SchedulerInv
    <3>2. nextPid' \in Slots /\ TASKS[nextPid'] \in Tasks /\ current' = TASKS[nextPid']
      BY <2>1, <3>1, ScheduleFacts DEF SwitchTo
    <3> QED
      BY <3>2, SchedulerConstants DEF SchedulerInv, TableInv
  <2>2. CASE Tick
    BY <2>1, <2>2 DEF Tick
  <2>3. CASE Yield
    BY <2>1, <2>3 DEF Yield
  <2>4. CASE ~(Tick \/ Yield)
    BY <2>4 DEF Next, Block, CreateNoMemory, TerminateUnlink, TerminateShrink,
       TerminateDelete, UsSleep, Wake, Create, CreateNoSlot, vars
  <2> QED
    BY <2>2, <2>3, <2>4
<1> QED
  BY <1>1, SchedulerInvariant, PTL DEF Spec, NoDeadTaskRuns

-----------------------------------------------------------------------------
\* A task switch keeps the accounting of the task structures.
LEMMA SwitchKeepsAccount ==
  ASSUME SchedulerInv, StructuresAccounted, NEW resume \in PcValues,
         resume # pc[current] => pc[current] \in {"run", "sched"},
         NEW now, Schedule(resume, now), UNCHANGED tableVars
  PROVE  StructuresAccounted'
<1>0. TypeOK /\ CurrentInv /\ live' = live /\ InTable' = InTable
  BY DEF SchedulerInv, tableVars, InTable
<1>1. pc' = pc \/ pc' = [pc EXCEPT ![current] = resume]
  BY <1>0, ScheduleFacts DEF SwitchTo
<1> SUFFICES ASSUME NEW t \in live, t \notin InTable
             PROVE  pc'[t] \in {"orphan", "unlinked", "shrunk"}
  BY <1>0 DEF StructuresAccounted
<1>2. pc[t] \in {"orphan", "unlinked", "shrunk"} /\ t \in Tasks
  BY <1>0 DEF StructuresAccounted, TypeOK
<1>3. t = current => resume = pc[current]
  BY <1>0 DEF CurrentInv
<1> QED
  BY <1>0, <1>1, <1>2, <1>3 DEF TypeOK

\* Every task structure that alloc_contiguous_frames handed out is in the
\* table, belongs to a task in the middle of terminate_this_task, or is the
\* one that create_task keeps when the table is full.
THEOREM StructuresStayAccounted == Spec => []StructuresAccounted
<1>1. Init => StructuresAccounted
  BY SchedulerConstants DEF Init, StructuresAccounted, InTable, Slots
<1>2. SchedulerInv /\ StructuresAccounted /\ [Next]_vars => StructuresAccounted'
  <2> SUFFICES ASSUME SchedulerInv, StructuresAccounted, [Next]_vars
               PROVE  StructuresAccounted'
    OBVIOUS
  <2>0. TypeOK /\ CurrentInv /\ TableInv
    BY DEF SchedulerInv
  <2>1. CASE Tick
    <3>1. UNCHANGED tableVars /\ pc[current] \in PcValues
      BY <2>0, <2>1 DEF Tick, TypeOK
    <3>2. CASE Schedule(pc[current], (clock + 1) % ClockRange)
      BY <3>1, <3>2, SwitchKeepsAccount
    <3>3. CASE pc' = pc
      BY <3>1, <3>3 DEF tableVars, StructuresAccounted, InTable
    <3> QED
      BY <2>1, <3>2, <3>3 DEF Tick
  <2>2. CASE Yield
    <3> DEFINE resume == IF pc[current] = "dead" THEN "dead" ELSE "run"
    <3>1. /\ Schedule(resume, clock) /\ UNCHANGED tableVars /\ resume \in PcValues
          /\ resume # pc[current] => pc[current] \in {"run", "sched"}
      BY <2>2 DEF Yield, Running, PcValues
    <3> HIDE DEF resume
    <3> QED
      BY <3>1, SwitchKeepsAccount
  <2>3. CASE Block \/ \E n \in SleepTimes : UsSleep(n)
    <3>1. /\ pc' = [pc EXCEPT ![current] = "sched"] /\ pc[current] = "run"
          /\ live' = live /\ InTable' = InTable
      BY <2>3 DEF Block, UsSleep, Running, tableVars, InTable
    <3> QED
      BY <2>0, <3>1 DEF StructuresAccounted, CurrentInv, TypeOK
  <2>4. CASE CreateNoMemory \/ (\E t \in Tasks : Wake(t)) \/ UNCHANGED vars
    <3>1. pc' = pc /\ live' = live /\ InTable' = InTable
      BY <2>4 DEF CreateNoMemory, Wake, vars, tableVars, InTable
    <3> QED
      BY <3>1 DEF StructuresAccounted
  <2>5. CASE TerminateUnlink
    <3>1. PICK s \in Slots : TASKS[s] = current /\ TASKS' = [TASKS EXCEPT ![s] = NoTask]
      BY <2>5 DEF TerminateUnlink
    <3>2. live' = live /\ pc' = [pc EXCEPT ![current] = "unlinked"]
      BY <2>5 DEF TerminateUnlink
    <3>3. \A t \in InTable : t # current => t \in InTable'
      BY <2>0, <3>1 DEF InTable, TypeOK
    <3> QED
      BY <2>0, <3>2, <3>3 DEF StructuresAccounted, TypeOK
  <2>6. CASE TerminateShrink \/ TerminateDelete
    <3>1. /\ InTable' = InTable
          /\ \/ live' = live /\ pc' = [pc EXCEPT ![current] = "shrunk"]
             \/ live' = live \ {current} /\ pc' = [pc EXCEPT ![current] = "dead"]
      BY <2>6 DEF TerminateShrink, TerminateDelete, InTable
    <3> QED
      BY <2>0, <3>1 DEF StructuresAccounted, TypeOK
  <2>7. CASE \E t \in Tasks : Create(t)
    <3>1. PICK t \in Tasks : Create(t)
      BY <2>7
    <3>2. PICK s \in FreeSlots : TASKS' = [TASKS EXCEPT ![s] = t]
      BY <3>1 DEF Create
    <3>3. live' = live \cup {t} /\ pc' = [pc EXCEPT ![t] = "run"]
      BY <3>1 DEF Create
    <3>4. s \in Slots /\ TASKS[s] = NoTask /\ t # NoTask
      BY SchedulerConstants DEF FreeSlots, Slots
    <3>5. InTable' = InTable \cup {t}
      BY <2>0, <3>2, <3>4 DEF InTable, TypeOK
    <3> QED
      BY <2>0, <3>3, <3>5 DEF StructuresAccounted, TypeOK
  <2>8. CASE \E t \in Tasks : CreateNoSlot(t)
    <3>1. PICK t \in Tasks : CreateNoSlot(t)
      BY <2>8
    <3>2. live' = live \cup {t} /\ pc' = [pc EXCEPT ![t] = "orphan"] /\ InTable' = InTable
      BY <3>1 DEF CreateNoSlot, InTable
    <3> QED
      BY <2>0, <3>2 DEF StructuresAccounted, TypeOK
  <2> QED
    BY <2>1, <2>2, <2>3, <2>4, <2>5, <2>6, <2>7, <2>8 DEF Next
<1> QED
  BY <1>1, <1>2, SchedulerInvariant, PTL DEF Spec

-----------------------------------------------------------------------------
(* Sleeping: wake_ticks, the counter that wraps and the round-robin scan. *)

\* The difference of two counter values wraps at most once.
LEMMA ModWraps ==
  ASSUME NEW R \in Nat \ {0}, NEW x \in Int, -R <= x, x < 2 * R
  PROVE  x % R = IF x < 0 THEN x + R ELSE IF x < R THEN x ELSE x - R
OBVIOUS

\* One tick brings the clock one period closer to a wake time.
LEMMA TickCloser ==
  ASSUME NEW R \in Nat \ {0}, NEW w \in 0..(R - 1), NEW c \in 0..(R - 1)
  PROVE  (w - ((c + 1) % R)) % R =
           IF (w - c) % R = 0 THEN R - 1 ELSE ((w - c) % R) - 1
<1>1. PICK x \in Int : x = w - c
  OBVIOUS
<1>2. PICK y \in Int : y = c + 1
  OBVIOUS
<1>3. x % R = IF x < 0 THEN x + R ELSE x
  <2>1. -R <= x /\ x < R /\ x < 2 * R
    BY <1>1
  <2> QED
    BY ONLY R \in Nat \ {0}, x \in Int, <2>1, ModWraps
<1>4. PICK e \in 0..(R - 1) : e = y % R /\ e = IF c + 1 < R THEN c + 1 ELSE 0
  <2>1. -R <= y /\ 0 <= y /\ y < 2 * R
    BY <1>2
  <2>2. y % R = IF y < 0 THEN y + R ELSE IF y < R THEN y ELSE y - R
    BY ONLY R \in Nat \ {0}, y \in Int, <2>1, ModWraps
  <2> QED
    BY <1>2, <2>2
<1>5. PICK z \in Int : z = w - e
  OBVIOUS
<1>6. z % R = IF z < 0 THEN z + R ELSE z
  <2>1. -R <= z /\ z < R /\ z < 2 * R
    BY <1>5
  <2> QED
    BY ONLY R \in Nat \ {0}, z \in Int, <2>1, ModWraps
<1>7. z % R = IF x % R = 0 THEN R - 1 ELSE (x % R) - 1
  BY <1>1, <1>3, <1>4, <1>5, <1>6
<1> QED
  BY <1>1, <1>2, <1>4, <1>5, <1>7

\* task_us_sleep(k) puts the wake time k periods ahead.
LEMMA SleepAhead ==
  ASSUME NEW R \in Nat \ {0}, NEW c \in 0..(R - 1), NEW k \in 0..(R - 1)
  PROVE  (((c + k) % R) - c) % R = k
<1>1. PICK x \in Int : x = c + k
  OBVIOUS
<1>2. x % R = IF x < R THEN x ELSE x - R
  <2>1. -R <= x /\ x < 2 * R
    BY <1>1
  <2>2. x % R = IF x < 0 THEN x + R ELSE IF x < R THEN x ELSE x - R
    BY ONLY R \in Nat \ {0}, x \in Int, <2>1, ModWraps
  <2> QED
    BY <1>1, <2>2
<1>3. PICK y \in Int : y = (x % R) - c
  BY <1>1, <1>2
<1>4. y % R = IF y < 0 THEN y + R ELSE y
  <2>1. -R <= y /\ y < R /\ y < 2 * R
    BY <1>1, <1>2, <1>3
  <2> QED
    BY ONLY R \in Nat \ {0}, y \in Int, <2>1, ModWraps
<1>5. y % R = k
  BY <1>1, <1>2, <1>3, <1>4
<1> QED
  BY <1>1, <1>3, <1>5

\* Half the range is where the sign bit of a difference begins.
LEMMA HalfRange == ClockRange \div 2 \in Nat /\ 2 * (ClockRange \div 2) <= ClockRange
BY SchedulerConstants

\* The task get_next_task stops at is runnable, and no runnable task is
\* nearer.
LEMMA PickFacts ==
  ASSUME TypeOK, NEW resume, NEW now, Schedule(resume, now), nextPid' \in Slots
  PROVE  /\ TASKS[nextPid'] # NoTask /\ Runnable(TASKS[nextPid'], now)
         /\ \A s \in Slots :
              (s < nr_tasks /\ Distance(s) <= NR_TASKS /\ TASKS[s] # NoTask
               /\ Runnable(TASKS[s], now)) => Distance(nextPid') <= Distance(s)
<1> USE SchedulerConstants
<1>1. PICK ghosts \in SUBSET (NR_TASKS..(nr_tasks - 1)) :
        /\ nextPid' \in Candidates(ghosts, now)
        /\ \A r \in Candidates(ghosts, now) : Distance(nextPid') <= Distance(r)
  BY DEF Schedule
<1>2. nextPid' < NR_TASKS
  BY DEF Slots
<1>3. TASKS[nextPid'] # NoTask /\ Runnable(TASKS[nextPid'], now)
  BY <1>1, <1>2 DEF Candidates
<1>4. ASSUME NEW s \in Slots, s < nr_tasks, Distance(s) <= NR_TASKS,
             TASKS[s] # NoTask, Runnable(TASKS[s], now)
      PROVE  s \in Candidates(ghosts, now)
  BY <1>4 DEF Candidates, TypeOK, Slots
<1>5. ASSUME NEW s \in Slots, s < nr_tasks, Distance(s) <= NR_TASKS,
             TASKS[s] # NoTask, Runnable(TASKS[s], now)
      PROVE  Distance(nextPid') <= Distance(s)
  BY <1>1, <1>4, <1>5, Zenon
<1> QED
  BY <1>3, <1>5, Zenon

\* While a sleeper is not due, its wake time is `due' periods ahead of the
\* clock and less than half the range, where the sign bit would be set.
Ahead == \A t \in Tasks : state[t] = "sleeping" /\ due[t] > 0 =>
            due[t] < ClockRange \div 2 /\ (wake_ticks[t] - clock) % ClockRange = due[t]

\* A task that has marked itself sleeping is about to call schedule(), unless
\* the processor has left the table.
SleeperYields == state[current] = "sleeping" /\ nextPid < NR_TASKS => pc[current] = "sched"

\* A step that leaves the clock and the sleep of every task alone, or
\* only ends sleeps, keeps Ahead.
LEMMA AheadKept ==
  ASSUME Ahead, UNCHANGED <<wake_ticks, clock, due>>,
         \A t \in Tasks : state'[t] = "sleeping" => state[t] = "sleeping"
  PROVE  Ahead'
BY DEF Ahead

\* A task switch makes tasks ready only.
LEMMA SwitchWakes ==
  ASSUME TypeOK, NEW resume, NEW now, Schedule(resume, now)
  PROVE  /\ \A t \in Tasks : state'[t] = "sleeping" => state[t] = "sleeping"
         /\ nextPid' < NR_TASKS => state'[current'] = "ready"
<1> USE SchedulerConstants
<1>1. CASE /\ nextPid' \in Nat /\ nextPid' > NR_TASKS
           /\ UNCHANGED <<current, state, preempt_count, pc, inSched>>
  BY <1>1 DEF TypeOK
<1>2. CASE TASKS[nextPid'] \in Tasks /\ SwitchTo(TASKS[nextPid'], resume)
  BY <1>2 DEF SwitchTo, TypeOK
<1> QED
  BY <1>1, <1>2, ScheduleFacts

\* What a step other than a task switch or a tick does to sleeping tasks: a
\* task still asleep was asleep before, or has just called task_us_sleep.
LEMMA QuietSteps ==
  ASSUME SchedulerInv, [Next]_vars, ~Tick, ~Yield
  PROVE  /\ UNCHANGED <<current, clock, nextPid>> /\ pid'[current] = pid[current]
         /\ \A t \in Tasks : state'[t] = "sleeping" =>
              \/ /\ state[t] = "sleeping" /\ due'[t] = due[t]
                 /\ wake_ticks'[t] = wake_ticks[t]
                 /\ t \in InTable' => t \in InTable /\ pid'[t] = pid[t]
              \/ \E k \in SleepTimes : /\ due'[t] = k
                                       /\ wake_ticks'[t] = (clock + k) % ClockRange
<1>0. TypeOK /\ CurrentInv /\ TableInv
  BY DEF SchedulerInv
<1>1. CASE \E k \in SleepTimes : UsSleep(k)
  <2>1. PICK k \in SleepTimes : UsSleep(k)
    BY <1>1
  <2>2. /\ UNCHANGED <<current, clock, nextPid, pid>> /\ InTable' = InTable
        /\ state' = [state EXCEPT ![current] = "sleeping"]
        /\ due' = [due EXCEPT ![current] = k]
        /\ wake_ticks' = [wake_ticks EXCEPT ![current] = (clock + k) % ClockRange]
    BY <2>1 DEF UsSleep, tableVars, InTable
  <2> QED
    BY <1>0, <2>2 DEF TypeOK
<1>2. CASE Block \/ CreateNoMemory \/ TerminateShrink \/ TerminateDelete
           \/ (\E t \in Tasks : Wake(t) \/ CreateNoSlot(t)) \/ UNCHANGED vars
  <2>1. /\ UNCHANGED <<current, clock, nextPid, pid, due, wake_ticks>> /\ InTable' = InTable
        /\ \/ UNCHANGED state \/ state' = [state EXCEPT ![current] = "blocked"]
           \/ \E t \in Tasks : state' = [state EXCEPT ![t] = "ready"]
    BY <1>2 DEF Block, CreateNoMemory, TerminateShrink, TerminateDelete, Wake,
       CreateNoSlot, vars, tableVars, InTable
  <2>2. \A t \in Tasks : state'[t] = "sleeping" => state[t] = "sleeping"
    BY <1>0, <2>1 DEF TypeOK
  <2> QED
    BY <2>1, <2>2
<1>3. CASE TerminateUnlink
  <2>1. PICK s \in Slots : TASKS' = [TASKS EXCEPT ![s] = NoTask]
    BY <1>3 DEF TerminateUnlink
  <2>2. UNCHANGED <<current, clock, nextPid, pid, due, wake_ticks, state>>
    BY <1>3 DEF TerminateUnlink
  <2>3. InTable' \subseteq InTable
    BY <1>0, <2>1 DEF InTable, TypeOK
  <2> QED
    BY <2>2, <2>3
<1>4. CASE \E t \in Tasks : Create(t)
  <2>1. PICK t \in Tasks : Create(t)
    BY <1>4
  <2>2. PICK s \in FreeSlots : /\ TASKS' = [TASKS EXCEPT ![s] = t]
                              /\ pid' = [pid EXCEPT ![t] = s]
    BY <2>1 DEF Create
  <2>3. /\ UNCHANGED <<current, clock, nextPid, due, wake_ticks>>
        /\ state' = [state EXCEPT ![t] = "ready"]
        /\ t \notin live /\ pc[current] = "run"
    BY <2>1 DEF Create, Running
  <2>4. InTable' \subseteq InTable \cup {t}
    BY <1>0, <2>2 DEF InTable, TypeOK
  <2>5. current # t /\ current \in Tasks
    BY <1>0, <2>3 DEF CurrentInv, TableInv, InTable, TypeOK
  <2>6. pid'[current] = pid[current]
    BY <1>0, <2>2, <2>5 DEF TypeOK
  <2>7. ASSUME NEW v \in Tasks, state'[v] = "sleeping"
        PROVE  state[v] = "sleeping" /\ v # t /\ pid'[v] = pid[v]
    BY <1>0, <2>2, <2>3, <2>7 DEF TypeOK
  <2> QED
    BY <2>3, <2>4, <2>6, <2>7
<1> QED
  BY <1>1, <1>2, <1>3, <1>4 DEF Next

\* A tick counts `due' down and brings the clock closer to the wake time.
LEMMA TickFacts ==
  ASSUME TypeOK, Tick, NEW t \in Tasks, state'[t] = "sleeping" \/ state[t] = "sleeping"
  PROVE  /\ state[t] = "sleeping"
         /\ due'[t] = IF due[t] > -NR_TASKS THEN due[t] - 1 ELSE due[t]
         /\ (wake_ticks'[t] - clock') % ClockRange =
              IF (wake_ticks[t] - clock) % ClockRange = 0
                THEN ClockRange - 1 ELSE ((wake_ticks[t] - clock) % ClockRange) - 1
<1> USE SchedulerConstants
<1>1. state[t] = "sleeping"
  <2>1. CASE UNCHANGED state
    BY <2>1
  <2>2. CASE Schedule(pc[current], (clock + 1) % ClockRange)
    BY <2>2, SwitchWakes
  <2> QED
    BY <2>1, <2>2 DEF Tick
<1>2. due'[t] = IF due[t] > -NR_TASKS THEN due[t] - 1 ELSE due[t]
  BY <1>1 DEF Tick, TypeOK
<1>3. /\ wake_ticks' = wake_ticks /\ clock' = (clock + 1) % ClockRange
      /\ wake_ticks[t] \in 0..(ClockRange - 1) /\ clock \in 0..(ClockRange - 1)
  BY DEF Tick, TypeOK
<1>4. (wake_ticks[t] - ((clock + 1) % ClockRange)) % ClockRange =
        IF (wake_ticks[t] - clock) % ClockRange = 0
          THEN ClockRange - 1 ELSE ((wake_ticks[t] - clock) % ClockRange) - 1
  BY <1>3, TickCloser
<1> QED
  BY <1>1, <1>2, <1>3, <1>4

\* A sleeper's wake time stays ahead of the clock until it is due.
LEMMA SleepInvStep ==
  ASSUME SchedulerInv, Ahead, SleeperYields, [Next]_vars
  PROVE  Ahead' /\ SleeperYields'
<1> USE SchedulerConstants
<1>0. TypeOK /\ CurrentInv /\ TableInv
  BY DEF SchedulerInv
<1>1. CASE Tick
  <2>1. Ahead'
    <3> SUFFICES ASSUME NEW t \in Tasks, state'[t] = "sleeping", due'[t] > 0
                 PROVE  /\ due'[t] < ClockRange \div 2
                        /\ (wake_ticks'[t] - clock') % ClockRange = due'[t]
      BY DEF Ahead
    <3>1. /\ state[t] = "sleeping"
          /\ due'[t] = IF due[t] > -NR_TASKS THEN due[t] - 1 ELSE due[t]
          /\ (wake_ticks'[t] - clock') % ClockRange =
               IF (wake_ticks[t] - clock) % ClockRange = 0
                 THEN ClockRange - 1 ELSE ((wake_ticks[t] - clock) % ClockRange) - 1
      BY <1>0, <1>1, TickFacts
    <3>2. due[t] \in Int
      BY <1>0 DEF TypeOK
    <3>3. due[t] > 1 /\ due'[t] = due[t] - 1
      BY <3>1, <3>2
    <3>4. due[t] < ClockRange \div 2 /\ (wake_ticks[t] - clock) % ClockRange = due[t]
      BY <3>1, <3>2, <3>3 DEF Ahead
    <3> QED
      BY <3>1, <3>2, <3>3, <3>4, HalfRange
  <2>2. CASE UNCHANGED <<current, state, pc, nextPid>>
    BY <2>1, <2>2 DEF SleeperYields
  <2>3. CASE Schedule(pc[current], (clock + 1) % ClockRange)
    BY <1>0, <2>1, <2>3, SwitchWakes DEF SleeperYields
  <2> QED
    BY <1>1, <2>2, <2>3 DEF Tick
<1>2. CASE Yield
  <2>1. PICK resume : Schedule(resume, clock)
    BY <1>2 DEF Yield
  <2>2. SleeperYields'
    BY <1>0, <2>1, SwitchWakes DEF SleeperYields
  <2> QED
    BY <1>0, <1>2, <2>1, <2>2, SwitchWakes, AheadKept DEF Yield
<1>3. CASE ~Tick /\ ~Yield
  <2>1. Ahead'
    <3> SUFFICES ASSUME NEW t \in Tasks, state'[t] = "sleeping", due'[t] > 0
                 PROVE  /\ due'[t] < ClockRange \div 2
                        /\ (wake_ticks'[t] - clock') % ClockRange = due'[t]
      BY DEF Ahead
    <3>1. clock' = clock
      BY <1>3, QuietSteps
    <3>2. CASE state[t] = "sleeping" /\ due'[t] = due[t] /\ wake_ticks'[t] = wake_ticks[t]
      BY <3>1, <3>2 DEF Ahead
    <3>3. CASE \E k \in SleepTimes : due'[t] = k /\ wake_ticks'[t] = (clock + k) % ClockRange
      <4>1. PICK k \in SleepTimes : due'[t] = k /\ wake_ticks'[t] = (clock + k) % ClockRange
        BY <3>3
      <4>2. k \in 0..(ClockRange - 1) /\ k < ClockRange \div 2 /\ clock \in 0..(ClockRange - 1)
        BY <1>0, HalfRange DEF TypeOK
      <4>3. (((clock + k) % ClockRange) - clock) % ClockRange = k
        BY <4>2, SleepAhead
      <4> QED
        BY <3>1, <4>1, <4>2, <4>3
    <3> QED
      BY <1>3, <3>2, <3>3, QuietSteps
  <2>2. SleeperYields'
    <3>1. current' = current /\ nextPid' = nextPid /\ current \in Tasks
      BY <1>0, <1>3, QuietSteps DEF TypeOK
    <3> SUFFICES ASSUME state'[current] = "sleeping", nextPid < NR_TASKS
                 PROVE  pc'[current] = "sched"
      BY <3>1 DEF SleeperYields
    <3>2. CASE Block \/ \E k \in SleepTimes : UsSleep(k)
      BY <1>0, <3>2 DEF Block, UsSleep, TypeOK
    <3>3. CASE CreateNoMemory \/ (\E t \in Tasks : Wake(t)) \/ UNCHANGED vars
      <4>1. pc' = pc /\ (state' = state \/ \E t \in Tasks : state' = [state EXCEPT ![t] = "ready"])
        BY <3>3 DEF CreateNoMemory, Wake, vars
      <4> QED
        BY <1>0, <3>1, <4>1 DEF SleeperYields, TypeOK
    <3>4. CASE TerminateUnlink \/ TerminateShrink \/ TerminateDelete
      BY <3>4 DEF TerminateUnlink, TerminateShrink, TerminateDelete, Running, SleeperYields
    <3>5. CASE \E t \in Tasks : Create(t) \/ CreateNoSlot(t)
      <4>1. /\ pc[current] = "run"
            /\ (state' = state \/ \E t \in Tasks : state' = [state EXCEPT ![t] = "ready"])
        BY <3>5 DEF Create, CreateNoSlot, Running
      <4> QED
        BY <1>0, <3>1, <4>1 DEF SleeperYields, TypeOK
    <3> QED
      BY <1>3, <3>2, <3>3, <3>4, <3>5 DEF Next
  <2> QED
    BY <2>1, <2>2
<1> QED
  BY <1>1, <1>2, <1>3

\* A switch that wakes a sleeper found it due.
LEMMA WokenWasDue ==
  ASSUME TypeOK, NEW resume, NEW now, Schedule(resume, now), NEW t \in Tasks,
         state[t] = "sleeping", state'[t] = "ready", current' = t
  PROVE  Due(t, now)
<1> USE SchedulerConstants
<1>1. nextPid' \in Slots /\ SwitchTo(TASKS[nextPid'], resume)
  BY ScheduleFacts
<1>2. t = TASKS[nextPid']
  BY <1>1 DEF SwitchTo
<1>3. Runnable(t, now)
  BY <1>1, <1>2, PickFacts
<1> QED
  BY <1>3 DEF Runnable

\* task_us_sleep never returns before its time has passed, wherever the
\* 32-bit counter wraps around: for sleeps shorter than half its range.
THEOREM SleepsAreNotShort == Spec => NeverEarly
<1> USE SchedulerConstants
<1>1. Init => Ahead /\ SleeperYields
  BY DEF Init, Ahead, SleeperYields
<1>2. SchedulerInv /\ Ahead /\ SleeperYields /\ [Next]_vars =>
        \A t \in Tasks : state[t] = "sleeping" /\ state'[t] = "ready" /\ current' = t
                           => due'[t] <= 0
  <2> SUFFICES ASSUME SchedulerInv, Ahead, SleeperYields, [Next]_vars, NEW t \in Tasks,
                      state[t] = "sleeping", state'[t] = "ready", current' = t
               PROVE  due'[t] <= 0
    OBVIOUS
  <2>0. TypeOK /\ due[t] \in Int
    BY DEF SchedulerInv, TypeOK
  <2>1. due[t] > 0 => due[t] < ClockRange \div 2
                      /\ (wake_ticks[t] - clock) % ClockRange = due[t]
    BY DEF Ahead
  <2>2. CASE Tick
    <3>1. /\ due'[t] = IF due[t] > -NR_TASKS THEN due[t] - 1 ELSE due[t]
          /\ (wake_ticks'[t] - clock') % ClockRange =
               IF (wake_ticks[t] - clock) % ClockRange = 0
                 THEN ClockRange - 1 ELSE ((wake_ticks[t] - clock) % ClockRange) - 1
      BY <2>0, <2>2, TickFacts
    <3>2. /\ Schedule(pc[current], (clock + 1) % ClockRange)
          /\ wake_ticks' = wake_ticks /\ clock' = (clock + 1) % ClockRange
      BY <2>2 DEF Tick
    <3>3. Due(t, (clock + 1) % ClockRange)
      BY <2>0, <3>2, WokenWasDue
    <3>4. \/ (wake_ticks'[t] - clock') % ClockRange = 0
          \/ (wake_ticks'[t] - clock') % ClockRange >= ClockRange \div 2
      BY <3>2, <3>3 DEF Due
    <3>5. CASE due[t] <= 0
      BY <2>0, <3>1, <3>5
    <3>6. CASE due[t] > 0
      BY <2>0, <2>1, <3>1, <3>4, <3>6, HalfRange
    <3> QED
      BY <2>0, <3>5, <3>6
  <2>3. CASE Yield
    <3>1. PICK resume : Schedule(resume, clock)
      BY <2>3 DEF Yield
    <3>2. Due(t, clock) /\ due' = due
      BY <2>0, <2>3, <3>1, WokenWasDue DEF Yield
    <3> QED
      BY <2>0, <2>1, <3>2, HalfRange DEF Due
  <2>4. CASE ~Tick /\ ~Yield
    <3>1. current = t
      BY <2>4, QuietSteps
    <3>2. pc[current] # "run" \/ ~(nextPid < NR_TASKS)
      BY <3>1 DEF SleeperYields
    <3> QED
      BY <2>0, <2>4, <3>1, <3>2 DEF Next, Block, CreateNoMemory, TerminateUnlink, TerminateShrink,
         TerminateDelete, UsSleep, Wake, Create, CreateNoSlot, Running, vars
  <2> QED
    BY <2>2, <2>3, <2>4
<1> QED
  BY <1>1, <1>2, SleepInvStep, SchedulerInvariant, PTL DEF Spec, NeverEarly

-----------------------------------------------------------------------------
\* How many slots the scan passes from slot p to slot s in a full table.
Round(p, s) == IF s > p THEN s - p ELSE s + NR_TASKS - p

\* A due sleeper has `due' (a negative number) switches behind it, each of
\* which brought the scan closer to its slot, and its wake time is that far
\* behind the clock.
Closing == ~failed => \A t \in InTable : state[t] = "sleeping" /\ due[t] <= 0 =>
    /\ Round(pid[current], pid[t]) <= NR_TASKS - 1 + due[t]
    /\ (wake_ticks[t] - clock) % ClockRange = IF due[t] = 0 THEN 0 ELSE ClockRange + due[t]

\* Preemption is off in the running task only after a failed create_task.
PreemptionOn == /\ preempt_count[current] = leaks[current]
                /\ ~failed => \A t \in Tasks : leaks[t] = 0

\* A switch wakes a due sleeper, or passes at least one slot on the way to it.
LEMMA SwitchCloses ==
  ASSUME SchedulerInv, MaxCreates < NR_TASKS, NEW resume, NEW now, Schedule(resume, now),
         NEW t \in InTable, state[t] = "sleeping", Due(t, now)
  PROVE  \/ state'[t] = "ready"
         \/ Round(pid[current'], pid[t]) < Round(pid[current], pid[t])
<1> USE SchedulerConstants
<1> DEFINE p == pid[current]
           s == pid[t]
           m == nextPid'
<1>0. TypeOK /\ nr_tasks <= NR_TASKS /\ nr_tasks \in Nat /\ t \in Tasks
  BY DEF SchedulerInv, NrTasksBounded, TypeOK, InTable
<1>1. s \in Slots /\ TASKS[s] = t /\ s < nr_tasks /\ t # NoTask
  BY DEF SchedulerInv, SlotIsPid, SlotsCovered, InTable
<1>2. m \in Slots /\ m < nr_tasks /\ TASKS[m] \in Tasks /\ SwitchTo(TASKS[m], resume)
  BY <1>0, ScheduleFacts
<1>3. p \in Slots
  BY <1>0 DEF TypeOK
<1>4. ASSUME NEW r \in Slots, r < nr_tasks
      PROVE  Distance(r) = IF r > p THEN r - p
                           ELSE r + (IF p + 1 >= nr_tasks THEN p + 1 ELSE nr_tasks) - p
  BY <1>3 DEF Distance, Slots
<1>5. Distance(s) <= NR_TASKS
  BY <1>0, <1>1, <1>3, <1>4 DEF Slots
<1>6. Distance(m) <= Distance(s)
  BY <1>0, <1>1, <1>2, <1>5, PickFacts DEF Runnable
<1>7. CASE m = s
  BY <1>0, <1>1, <1>2, <1>7 DEF SwitchTo, TypeOK
<1>8. CASE m # s
  <2>1. current' = TASKS[m] /\ pid[current'] = m
    BY <1>2 DEF SwitchTo, SchedulerInv, SlotIsPid
  <2>2. Round(m, s) < Round(p, s)
    BY <1>0, <1>1, <1>2, <1>3, <1>4, <1>6, <1>8 DEF Round, Slots
  <2> QED
    BY <2>1, <2>2
<1> QED
  BY <1>7, <1>8

\* Every step keeps preempt_count of the running task at its failed
\* allocations.
LEMMA PreemptionStep ==
  ASSUME SchedulerInv, SchedulerInv', PreemptionOn, [Next]_vars
  PROVE  PreemptionOn'
<1>0. TypeOK /\ CurrentInv /\ TableInv
  BY DEF SchedulerInv
<1>1. CASE Tick \/ Yield
  <2>1. leaks' = leaks /\ failed' = failed
    BY <1>1 DEF Tick, Yield
  <2>2. CASE UNCHANGED <<current, preempt_count>>
    BY <2>1, <2>2 DEF PreemptionOn
  <2>3. CASE \E resume, now : Schedule(resume, now) /\ ~UNCHANGED <<current, preempt_count>>
    <3>1. PICK resume, now : Schedule(resume, now) /\ ~UNCHANGED <<current, preempt_count>>
      BY <2>3
    <3>2. nextPid' \in Slots /\ TASKS[nextPid'] \in Tasks /\ current' = TASKS[nextPid']
      BY <1>0, <3>1, ScheduleFacts DEF SwitchTo
    <3>3. current' \in InTable'
      BY <1>1, <3>2, SchedulerConstants DEF InTable, Tick, Yield, tableVars
    <3>4. preempt_count'[current'] = leaks'[current']
      <4>1. current' \notin inSched'
        BY DEF SchedulerInv, CurrentInv
      <4>2. leaks'[current'] \in Nat
        BY DEF SchedulerInv, TypeOK
      <4> QED
        BY <3>3, <4>1, <4>2 DEF SchedulerInv, PreemptBalance
    <3> QED
      BY <2>1, <3>4 DEF PreemptionOn
  <2> QED
    BY <1>1, <2>2, <2>3 DEF Tick, Yield
<1>2. CASE CreateNoMemory
  BY <1>0, <1>2 DEF CreateNoMemory, PreemptionOn, TypeOK
<1>3. CASE \E t \in Tasks : Create(t)
  <2>1. PICK t \in Tasks : Create(t)
    BY <1>3
  <2>2. /\ UNCHANGED <<current, failed>> /\ t \notin live /\ pc[current] = "run"
        /\ preempt_count' = [preempt_count EXCEPT ![t] = 0]
        /\ leaks' = [leaks EXCEPT ![t] = 0]
    BY <2>1 DEF Create, Running
  <2>3. current # t
    BY <1>0, <2>2 DEF CurrentInv, TableInv, InTable
  <2> QED
    BY <1>0, <2>2, <2>3 DEF PreemptionOn, TypeOK
<1>4. CASE ~(Tick \/ Yield \/ CreateNoMemory \/ \E t \in Tasks : Create(t))
  <2>1. UNCHANGED <<current, preempt_count, leaks, failed>>
    BY <1>4 DEF Next, Block, TerminateUnlink, TerminateShrink, TerminateDelete,
       UsSleep, Wake, CreateNoSlot, vars
  <2> QED
    BY <2>1 DEF PreemptionOn
<1> QED
  BY <1>1, <1>2, <1>3, <1>4

\* Every switch passes at least one slot on the way to each due sleeper.
LEMMA ClosingStep ==
  ASSUME SchedulerInv, Ahead, PreemptionOn, Closing, [Next]_vars,
         MaxCreates < NR_TASKS, NR_TASKS - 1 <= ClockRange \div 2
  PROVE  Closing'
<1> USE SchedulerConstants
<1>0. TypeOK
  BY DEF SchedulerInv
<1> SUFFICES ASSUME ~failed', NEW t \in InTable', state'[t] = "sleeping", due'[t] <= 0
             PROVE  /\ Round(pid'[current'], pid'[t]) <= NR_TASKS - 1 + due'[t]
                    /\ (wake_ticks'[t] - clock') % ClockRange =
                         IF due'[t] = 0 THEN 0 ELSE ClockRange + due'[t]
  BY DEF Closing
<1>f. ~failed
  BY DEF Next, Tick, Yield, Block, CreateNoMemory, TerminateUnlink, TerminateShrink,
     TerminateDelete, UsSleep, Wake, Create, CreateNoSlot, vars
<1>t. t \in Tasks
  <2>1. SchedulerInv'
    BY InvStep
  <2> QED
    BY <2>1 DEF SchedulerInv, TypeOK, InTable
<1>d. due[t] \in Int /\ pid[t] \in Slots /\ pid[current] \in Slots
  BY <1>0, <1>t DEF TypeOK
<1>r. Round(pid[current], pid[t]) \in 1..NR_TASKS
  BY <1>d DEF Round, Slots
<1>1. CASE Tick
  <2>1. /\ state[t] = "sleeping"
        /\ due'[t] = IF due[t] > -NR_TASKS THEN due[t] - 1 ELSE due[t]
        /\ (wake_ticks'[t] - clock') % ClockRange =
             IF (wake_ticks[t] - clock) % ClockRange = 0
               THEN ClockRange - 1 ELSE ((wake_ticks[t] - clock) % ClockRange) - 1
    BY <1>0, <1>1, <1>t, TickFacts
  <2>2. /\ UNCHANGED <<TASKS, pid, wake_ticks>> /\ t \in InTable
        /\ clock' = (clock + 1) % ClockRange
    BY <1>1 DEF Tick, tableVars, InTable
  <2>3. Schedule(pc[current], (clock + 1) % ClockRange)
    <3>1. preempt_count[current] = 0
      BY <1>0, <1>f DEF PreemptionOn, TypeOK
    <3> QED
      BY <1>1, <3>1 DEF Tick
  <2>4. due[t] <= 0 => /\ Round(pid[current], pid[t]) <= NR_TASKS - 1 + due[t]
                       /\ (wake_ticks[t] - clock) % ClockRange =
                            IF due[t] = 0 THEN 0 ELSE ClockRange + due[t]
    BY <1>f, <2>1, <2>2 DEF Closing
  <2>5. due[t] > 0 => (wake_ticks[t] - clock) % ClockRange = due[t]
    BY <1>t, <2>1 DEF Ahead
  <2>6. due[t] <= 1 /\ due[t] >= 2 - NR_TASKS /\ due'[t] = due[t] - 1
    BY <1>d, <1>r, <2>1, <2>4
  <2>7. (wake_ticks'[t] - clock') % ClockRange = IF due'[t] = 0 THEN 0 ELSE ClockRange + due'[t]
    BY <1>d, <2>1, <2>4, <2>5, <2>6
  <2>8. Due(t, (clock + 1) % ClockRange)
    <3>1. \/ (wake_ticks'[t] - clock') % ClockRange = 0
          \/ (wake_ticks'[t] - clock') % ClockRange >= ClockRange \div 2
      BY <1>d, <2>6, <2>7, HalfRange
    <3> QED
      BY <2>2, <3>1 DEF Due
  <2>9. Round(pid[current'], pid[t]) < Round(pid[current], pid[t])
    BY <2>1, <2>2, <2>3, <2>8, SwitchCloses
  <2>10. Round(pid[current'], pid[t]) <= NR_TASKS - 1 + due'[t]
    <3>1. Round(pid[current'], pid[t]) \in Int
      <4>1. SchedulerInv'
        BY InvStep
      <4>2. pid'[current'] \in Slots
        BY <4>1 DEF SchedulerInv, TypeOK
      <4> QED
        BY <1>d, <2>2, <4>2 DEF Round, Slots
    <3> QED
      BY <1>d, <1>r, <2>4, <2>6, <2>9, <3>1
  <2> QED
    BY <2>2, <2>7, <2>10
<1>2. CASE Yield
  <2>1. PICK resume : Schedule(resume, clock)
    BY <1>2 DEF Yield
  <2>2. UNCHANGED <<TASKS, pid, wake_ticks, clock, due>> /\ t \in InTable
    BY <1>2 DEF Yield, tableVars, InTable
  <2>3. state[t] = "sleeping"
    BY <1>0, <1>t, <2>1, SwitchWakes
  <2>4. /\ Round(pid[current], pid[t]) <= NR_TASKS - 1 + due[t]
        /\ (wake_ticks[t] - clock) % ClockRange = IF due[t] = 0 THEN 0 ELSE ClockRange + due[t]
    BY <1>f, <2>2, <2>3 DEF Closing
  <2>5. Due(t, clock)
    BY <1>d, <1>r, <2>2, <2>4, HalfRange DEF Due
  <2>6. Round(pid[current'], pid[t]) < Round(pid[current], pid[t])
    BY <2>1, <2>2, <2>3, <2>5, SwitchCloses
  <2>7. Round(pid[current'], pid[t]) \in Int
    <3>1. SchedulerInv'
      BY InvStep
    <3>2. pid'[current'] \in Slots
      BY <3>1 DEF SchedulerInv, TypeOK
    <3> QED
      BY <1>d, <2>2, <3>2 DEF Round, Slots
  <2>8. Round(pid[current'], pid[t]) <= NR_TASKS - 1 + due[t]
    BY <1>d, <1>r, <2>4, <2>6, <2>7
  <2> QED
    BY <2>2, <2>4, <2>8
<1>3. CASE ~Tick /\ ~Yield
  <2>1. UNCHANGED <<current, clock>> /\ pid'[current] = pid[current]
    BY <1>3, QuietSteps
  <2>2. CASE /\ state[t] = "sleeping" /\ due'[t] = due[t]
             /\ wake_ticks'[t] = wake_ticks[t] /\ t \in InTable /\ pid'[t] = pid[t]
    BY <1>f, <2>1, <2>2 DEF Closing
  <2>3. CASE \E k \in SleepTimes : due'[t] = k
    BY <2>3, HalfRange
  <2> QED
    BY <1>3, <1>t, <2>2, <2>3, QuietSteps
<1> QED
  BY <1>1, <1>2, <1>3

\* As long as no create_task has run out of memory, a sleeper that is due gets
\* the processor before the scan has gone once around the table, in a system
\* that creates fewer than NR_TASKS tasks and whose counter does not wrap
\* within a round.
THEOREM SleepersWakeInTime ==
  ASSUME MaxCreates < NR_TASKS, NR_TASKS - 1 <= ClockRange \div 2
  PROVE  Spec => []WakesWithinARound
<1> USE SchedulerConstants
<1>1. Init => Ahead /\ SleeperYields /\ PreemptionOn /\ Closing
  <2> SUFFICES ASSUME Init PROVE Ahead /\ SleeperYields /\ PreemptionOn /\ Closing
    OBVIOUS
  <2>1. \A t \in Tasks \cup {NoTask} : t \in InTable => t \in Tasks /\ state[t] = "ready"
    BY DEF Init, InTable
  <2>2. InTable \subseteq Tasks
    BY DEF Init, InTable, Slots
  <2> QED
    BY <2>1, <2>2 DEF Init, Ahead, SleeperYields, PreemptionOn, Closing
<1>2. SchedulerInv /\ Ahead /\ SleeperYields /\ PreemptionOn /\ Closing /\ [Next]_vars
        => Ahead' /\ SleeperYields' /\ PreemptionOn' /\ Closing'
  BY InvStep, SleepInvStep, PreemptionStep, ClosingStep
<1>3. SchedulerInv /\ Closing => WakesWithinARound
  <2> SUFFICES ASSUME SchedulerInv, Closing, NEW t \in InTable, state[t] = "sleeping", ~failed
               PROVE  due[t] > -NR_TASKS
    BY DEF WakesWithinARound
  <2>1. due[t] \in Int /\ pid[t] \in Slots /\ pid[current] \in Slots
    BY DEF SchedulerInv, TypeOK, InTable
  <2>2. Round(pid[current], pid[t]) \in 1..NR_TASKS
    BY <2>1 DEF Round, Slots
  <2>3. due[t] <= 0 => Round(pid[current], pid[t]) <= NR_TASKS - 1 + due[t]
    BY DEF Closing
  <2> QED
    BY <2>1, <2>2, <2>3
<1> QED
  BY <1>1, <1>2, <1>3, SchedulerInvariant, PTL DEF Spec
=============================================================================
