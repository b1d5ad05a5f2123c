------------------------------ MODULE Scheduler ------------------------------
(***************************************************************************)
(* src/scheduler.c and src/fork.c: the round-robin scheduler, preempted by *)
(* the system timer (src/systimer.c, src/rpi-interrupts.c).                *)
(*                                                                         *)
(* One core runs one task, `current'.  Each action is what the running     *)
(* task does between two points where the timer interrupt can take the     *)
(* processor away from it; _schedule itself runs with preempt_count > 0,   *)
(* where schedule_tick returns at once, so it is one step.                 *)
(*                                                                         *)
(* Time is counted in timer periods, and the 32-bit microsecond counter    *)
(* that wake_ticks is compared with is a counter modulo ClockRange.        *)
(***************************************************************************)
EXTENDS Integers, FiniteSets

CONSTANTS NR_TASKS,    \* slots of TASKS
          Tasks,       \* task_struct_t addresses, init_task included
          InitTask,    \* init_task
          NoTask,      \* the null pointer
          ClockRange,  \* the clock counts modulo this even number
          SleepTimes,  \* arguments of task_us_sleep that are tried
          MaxCreates   \* bound: successful calls of create_task

ASSUME SchedulerConstants ==
    /\ NR_TASKS \in Nat \ {0} /\ MaxCreates \in Nat
    /\ InitTask \in Tasks /\ NoTask \notin Tasks
    /\ ClockRange \in Nat \ {0} /\ SleepTimes \subseteq 1..((ClockRange \div 2) - 1)

VARIABLES TASKS,     \* the slots
          nr_tasks,  \* one more than the last slot the scan looks at
          current,
          state, pid, wake_ticks, preempt_count,  \* fields of task_struct_t
          pc,        \* where each task goes on when it has the processor
          inSched,   \* tasks that gave the processor away inside _schedule
          live,      \* task structures allocated from the frame allocator
          clock,     \* timer_getTickCount32
          nextPid,   \* the slot get_next_task returned last
          creates,   \* tasks added so far
          leaks,     \* auxiliary: failed allocations of create_task, per task
          failed,    \* auxiliary: some create_task found no memory
          due        \* auxiliary: periods until a sleeper should wake, not counted
                     \* below -NR_TASKS

tableVars == <<TASKS, nr_tasks, pid, live, creates>>
vars == <<tableVars, current, state, wake_ticks, preempt_count, pc, inSched,
          clock, nextPid, leaks, failed, due>>

Slots == 0..(NR_TASKS - 1)

-----------------------------------------------------------------------------
\* INIT_TASK and init_scheduler: only init_task, in slot 0.
Init == /\ TASKS = [s \in Slots |-> IF s = 0 THEN InitTask ELSE NoTask]
        /\ nr_tasks = 1 /\ current = InitTask
        /\ state = [t \in Tasks |-> "ready"]
        /\ pid = [t \in Tasks |-> 0]
        /\ wake_ticks = [t \in Tasks |-> 0]
        /\ preempt_count = [t \in Tasks |-> 0]
        /\ pc = [t \in Tasks |-> "run"]
        /\ inSched = {} /\ live = {InitTask}
        /\ clock = 0 /\ nextPid = 0 /\ creates = 0
        /\ leaks = [t \in Tasks |-> 0] /\ failed = FALSE
        /\ due = [t \in Tasks |-> 0]

\* (int) (wake_ticks - nTicks) > 0 is false: the difference is zero or has
\* its sign bit set.  The unsigned form is what a plain comparison would do.
DueUnsigned(t, now) == wake_ticks[t] <= now
Due(t, now) == LET d == (wake_ticks[t] - now) % ClockRange
               IN  d = 0 \/ d >= ClockRange \div 2

Runnable(t, now) == state[t] = "ready" \/ (state[t] = "sleeping" /\ Due(t, now))

\* A scan that starts at slot 0 every time.
DistanceFromZero(s) == s

\* How many increments of nTask the scan of get_next_task takes from the
\* running task's pid to slot s, wrapping to 0 at nr_tasks.
Distance(s) ==
    LET p == IF pid[current] < NR_TASKS THEN pid[current] ELSE 0
        wrap == IF p + 1 >= nr_tasks THEN p + 1 ELSE nr_tasks
    IN  IF s > p THEN s - p ELSE s + wrap - p

\* The slots at which get_next_task would stop.  The scan is bounded by
\* nr_tasks, not by NR_TASKS: past the table it reads whatever follows it in
\* memory, which may (ghosts) or may not look like a ready task.
Candidates(ghosts, now) ==
    {s \in 0..(nr_tasks - 1) :
        /\ Distance(s) <= NR_TASKS
        /\ IF s < NR_TASKS THEN TASKS[s] # NoTask /\ Runnable(TASKS[s], now)
                           ELSE s \in ghosts}

\* The preempt_enable at the end of _schedule forgotten.
ResumedDisabled(t) == preempt_count[t]

\* preempt_count of a task that gets the processor back inside _schedule is
\* decremented; a new task starts at its function and never was there.
Resumed(t) == IF t \in inSched THEN preempt_count[t] - 1 ELSE preempt_count[t]

\* switch_to, and the preempt_enable that follows it in the task it resumes.
SwitchTo(next, resume) ==
    /\ state' = [state EXCEPT ![next] = "ready"]
    /\ pc' = [pc EXCEPT ![current] = resume]
    /\ current' = next
    /\ IF next = current
         THEN UNCHANGED <<preempt_count, inSched>>
         ELSE /\ preempt_count' = [preempt_count EXCEPT ![current] = @ + 1,
                                                        ![next] = Resumed(next)]
              /\ inSched' = (inSched \cup {current}) \ {next}

\* _schedule: pick the next task and give it the processor; the task that
\* called it goes on at `resume' when it is picked again.
Schedule(resume, now) ==
    \E ghosts \in SUBSET (NR_TASKS..(nr_tasks - 1)) :
      \E n \in Candidates(ghosts, now) :
       /\ \A r \in Candidates(ghosts, now) : Distance(n) <= Distance(r)
       /\ nextPid' = n
       /\ n # NR_TASKS          \* NR_TASKS means `none': the loop goes on
       /\ IF n > NR_TASKS       \* a wild pointer is taken for a task
            THEN UNCHANGED <<current, state, preempt_count, pc, inSched>>
            ELSE SwitchTo(TASKS[n], resume)

\* The processor executes the running task's code.
Running(p) == pc[current] = p /\ nextPid < NR_TASKS

-----------------------------------------------------------------------------
\* The timer interrupt.  irq_handler clears it and calls schedule_tick, which
\* leaves at once when preemption is disabled.
Tick ==
    /\ nextPid < NR_TASKS
    /\ clock' = (clock + 1) % ClockRange
    /\ IF preempt_count[current] > 0
         THEN UNCHANGED <<current, state, preempt_count, pc, inSched, nextPid>>
         ELSE Schedule(pc[current], (clock + 1) % ClockRange)
    /\ due' = [t \in Tasks |-> IF state[t] = "sleeping" /\ due[t] > -NR_TASKS
                                 THEN due[t] - 1
                                 ELSE IF state[t] = "sleeping" THEN due[t] ELSE 0]
    /\ UNCHANGED <<tableVars, wake_ticks, leaks, failed>>

\* schedule(), called by the loops of sleep, tsleep, mutex_acquire and
\* kernel_main, and at the end of the operations below.
Yield ==
    /\ \E p \in {"run", "sched", "dead"} : Running(p)
    /\ Schedule(IF pc[current] = "dead" THEN "dead" ELSE "run", clock)
    /\ UNCHANGED <<tableVars, wake_ticks, clock, leaks, failed, due>>

\* block_this_task and task_us_sleep set the state and then call schedule();
\* the timer may take the processor in between.  init_task does neither.
Block ==
    /\ Running("run") /\ pid[current] # 0
    /\ state' = [state EXCEPT ![current] = "blocked"]
    /\ pc' = [pc EXCEPT ![current] = "sched"]
    /\ UNCHANGED <<tableVars, current, wake_ticks, preempt_count, inSched, clock,
                   nextPid, leaks, failed, due>>

UsSleep(n) ==
    /\ Running("run") /\ pid[current] # 0
    /\ wake_ticks' = [wake_ticks EXCEPT ![current] = (clock + n) % ClockRange]
    /\ state' = [state EXCEPT ![current] = "sleeping"]
    /\ pc' = [pc EXCEPT ![current] = "sched"]
    /\ due' = [due EXCEPT ![current] = n]
    /\ UNCHANGED <<tableVars, current, preempt_count, inSched, clock, nextPid, leaks, failed>>

\* wake_task makes any task but init_task ready, whatever it waits for.
Wake(t) ==
    /\ Running("run") /\ t \in {TASKS[s] : s \in Slots} \ {NoTask}
    /\ pid[t] # 0
    /\ state' = [state EXCEPT ![t] = "ready"]
    /\ UNCHANGED <<tableVars, current, wake_ticks, preempt_count, pc, inSched, clock,
                   nextPid, leaks, failed, due>>

\* create_task when alloc_contiguous_frames has no memory: it returns without
\* the preempt_enable that matches its preempt_disable.
CreateNoMemory ==
    /\ Running("run") /\ live = Tasks
    /\ preempt_count' = [preempt_count EXCEPT ![current] = @ + 1]
    /\ leaks' = [leaks EXCEPT ![current] = @ + 1] /\ failed' = TRUE
    /\ leaks[current] = 0            \* bound: the second failure adds nothing new
    /\ UNCHANGED <<tableVars, current, state, wake_ticks, pc, inSched, clock,
                   nextPid, due>>

FreeSlots == {s \in 1..(NR_TASKS - 1) : TASKS[s] = NoTask}

\* nr_tasks incremented by create_task and again by add_task.
CreateTwice(t) ==
    /\ Running("run") /\ t \in Tasks \ live /\ creates < MaxCreates
    /\ \E s \in FreeSlots : /\ \A r \in FreeSlots : s <= r
                            /\ TASKS' = [TASKS EXCEPT ![s] = t]
                            /\ pid' = [pid EXCEPT ![t] = s]
    /\ nr_tasks' = nr_tasks + 2
    /\ live' = live \cup {t} /\ creates' = creates + 1
    /\ state' = [state EXCEPT ![t] = "ready"]
    /\ preempt_count' = [preempt_count EXCEPT ![t] = 0]
    /\ pc' = [pc EXCEPT ![t] = "run"]
    /\ leaks' = [leaks EXCEPT ![t] = 0]
    /\ inSched' = inSched \ {t}
    /\ UNCHANGED <<current, wake_ticks, clock, nextPid, failed, due>>

\* create_task and add_task: the lowest free slot, and one more task.
Create(t) ==
    /\ Running("run") /\ t \in Tasks \ live /\ creates < MaxCreates
    /\ \E s \in FreeSlots : /\ \A r \in FreeSlots : s <= r
                            /\ TASKS' = [TASKS EXCEPT ![s] = t]
                            /\ pid' = [pid EXCEPT ![t] = s]
    /\ nr_tasks' = nr_tasks + 1
    /\ live' = live \cup {t} /\ creates' = creates + 1
    /\ state' = [state EXCEPT ![t] = "ready"]
    /\ preempt_count' = [preempt_count EXCEPT ![t] = 0]
    /\ pc' = [pc EXCEPT ![t] = "run"]
    /\ leaks' = [leaks EXCEPT ![t] = 0]
    /\ inSched' = inSched \ {t}
    /\ UNCHANGED <<current, wake_ticks, clock, nextPid, failed, due>>

\* `System limit of tasks exceeded': pid 0 is returned, the memory is kept.
CreateNoSlot(t) ==
    /\ Running("run") /\ t \in Tasks \ live /\ FreeSlots = {}
    /\ live' = live \cup {t}
    /\ pc' = [pc EXCEPT ![t] = "orphan"]
    /\ UNCHANGED <<TASKS, nr_tasks, pid, creates, current, state, wake_ticks,
                   preempt_count, inSched, clock, nextPid, leaks, failed, due>>

\* remove_task leaving the slot as it is.
UnlinkNothing ==
    /\ Running("run") /\ pid[current] # 0
    /\ pc' = [pc EXCEPT ![current] = "unlinked"]
    /\ UNCHANGED <<tableVars, current, state, wake_ticks, preempt_count, inSched,
                   clock, nextPid, leaks, failed, due>>

\* terminate_this_task, first part: remove_task looks for the task in the
\* first nr_tasks slots and clears its slot.
TerminateUnlink ==
    /\ Running("run") /\ pid[current] # 0
    /\ \E s \in Slots \cap 0..(nr_tasks - 1) :
          /\ TASKS[s] = current
          /\ TASKS' = [TASKS EXCEPT ![s] = NoTask]
    /\ pc' = [pc EXCEPT ![current] = "unlinked"]
    /\ UNCHANGED <<nr_tasks, pid, live, creates, current, state, wake_ticks,
                   preempt_count, inSched, clock, nextPid, leaks, failed, due>>

\* remove_task, second part: only the last slot shrinks nr_tasks.
TerminateShrink ==
    /\ Running("unlinked")
    /\ nr_tasks' = IF pid[current] = nr_tasks - 1 THEN nr_tasks - 1 ELSE nr_tasks
    /\ pc' = [pc EXCEPT ![current] = "shrunk"]
    /\ UNCHANGED <<TASKS, pid, live, creates, current, state, wake_ticks,
                   preempt_count, inSched, clock, nextPid, leaks, failed, due>>

\* terminate_this_task without its delete_task.
DeleteNothing ==
    /\ Running("shrunk")
    /\ pc' = [pc EXCEPT ![current] = "dead"]
    /\ UNCHANGED <<tableVars, current, state, wake_ticks, preempt_count, inSched,
                   clock, nextPid, leaks, failed, due>>

\* delete_task frees the structure the processor still runs on; schedule()
\* follows (Yield).
TerminateDelete ==
    /\ Running("shrunk")
    /\ live' = live \ {current}
    /\ pc' = [pc EXCEPT ![current] = "dead"]
    /\ UNCHANGED <<TASKS, nr_tasks, pid, creates, current, state, wake_ticks,
                   preempt_count, inSched, clock, nextPid, leaks, failed, due>>

-----------------------------------------------------------------------------
Next == \/ Tick \/ Yield \/ Block \/ CreateNoMemory
        \/ TerminateUnlink \/ TerminateShrink \/ TerminateDelete
        \/ \E n \in SleepTimes : UsSleep(n)
        \/ \E t \in Tasks : Wake(t) \/ Create(t) \/ CreateNoSlot(t)

Spec == Init /\ [][Next]_vars

\* The system timer is re-armed by every interrupt (repeat_on_time_out), so
\* ticks never stop coming.  Tick is enabled in every state, so this is its
\* weak fairness; only Tick moves the clock.
FairSpec == Spec /\ []<><<clock' # clock>>_vars

-----------------------------------------------------------------------------
(* Properties.                                                             *)

InTable == {TASKS[s] : s \in Slots} \ {NoTask}

PcValues == {"run", "sched", "unlinked", "shrunk", "dead", "orphan"}

TypeOK == /\ TASKS \in [Slots -> Tasks \cup {NoTask}]
          /\ nr_tasks \in Nat /\ creates \in 0..MaxCreates
          /\ current \in Tasks
          /\ state \in [Tasks -> {"ready", "blocked", "sleeping"}]
          /\ pid \in [Tasks -> Slots]
          /\ wake_ticks \in [Tasks -> 0..(ClockRange - 1)]
          /\ preempt_count \in [Tasks -> Int] /\ leaks \in [Tasks -> Nat]
          /\ pc \in [Tasks -> PcValues]
          /\ inSched \in SUBSET Tasks /\ live \in SUBSET Tasks
          /\ clock \in 0..(ClockRange - 1) /\ nextPid \in Nat
          /\ due \in [Tasks -> Int]

\* Every task is in a slot the round-robin scan reaches: a gap left by a
\* terminated task never hides a task behind nr_tasks.
SlotsCovered == \A s \in Slots : TASKS[s] # NoTask => s < nr_tasks

\* A task sits in the slot its pid names, so remove_task finds it and the
\* scan continues from the right place.
SlotIsPid == \A s \in Slots : TASKS[s] # NoTask => pid[TASKS[s]] = s

\* nr_tasks never exceeds the number of tasks ever added plus one.  It is
\* not the number of tasks: a gap that is filled again counts twice.
NrTasksBounded == nr_tasks >= 1 /\ nr_tasks <= creates + 1

\* preempt_disable and preempt_enable balance: whenever a task executes its
\* own code its preempt_count is the number of create_task calls of it that
\* ran out of memory; one more while it waits inside _schedule.
PreemptBalance ==
    \A t \in InTable : preempt_count[t] = leaks[t] + (IF t \in inSched THEN 1 ELSE 0)

\* init_task stays in slot 0 and is ready: the scan always finds a task.
InitReady == TASKS[0] = InitTask /\ pid[InitTask] = 0 /\ state[InitTask] = "ready"

\* What else the running task and the tasks in the table satisfy, which makes
\* the conjunction inductive.
CurrentInv ==
    /\ current \notin inSched
    /\ pc[current] \in {"run", "sched"} => current \in InTable
    /\ pc[current] # "orphan"
    /\ pc[current] = "unlinked" => pid[current] # 0 /\ TASKS[pid[current]] = NoTask

TableInv == \A s \in Slots : TASKS[s] # NoTask => /\ TASKS[s] \in live
                                                  /\ pc[TASKS[s]] \in {"run", "sched"}

SchedulerInv == /\ TypeOK /\ SlotsCovered /\ SlotIsPid /\ NrTasksBounded
                /\ PreemptBalance /\ InitReady /\ CurrentInv /\ TableInv

\* Every allocated task structure is in the table, is an orphan of a full
\* table, or belongs to a task that lost the processor inside remove_task.
StructuresAccounted ==
    \A t \in live : \/ t \in InTable
                    \/ pc[t] \in {"orphan", "unlinked", "shrunk"}

\* A task whose structure has been freed never gets the processor again.
NoDeadTaskRuns == [][current' # current => current' \in live]_vars

\* task_us_sleep never returns early, although wake_ticks wraps around.
NeverEarly ==
    [][\A t \in Tasks : state[t] = "sleeping" /\ state'[t] = "ready" /\ current' = t
                           => due'[t] <= 0]_vars

\* A due sleeper is picked before the scan has gone once around the table, as
\* long as no create_task has found no memory: one that did leaves preemption
\* off, and sleepers wait for the task to yield or to terminate.
WakesWithinARound ==
    \A t \in InTable : state[t] = "sleeping" => due[t] > -NR_TASKS \/ failed

\* The asserted bound of scheduler.c:214, assert (m_nCurrent < MAX_TASKS).
NextPidInTable == nextPid < NR_TASKS

\* Every ready task gets the processor ("What happens when all the tasks want
\* to run indefinitely", scheduler.c:156), unless a create_task that found no
\* memory has left preemption off in the running task.
ReadyRuns == \A t \in Tasks :
    (t \in InTable /\ state[t] = "ready")
       ~> (current = t \/ t \notin InTable \/ leaks[current] > 0)
=============================================================================
