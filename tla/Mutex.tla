------------------------------- MODULE Mutex -------------------------------
(***************************************************************************)
(* src/lock.c: mutex_t and spin_lock_t.                                    *)
(*                                                                         *)
(* Neither uses an atomic instruction: the lock word is tested, and then   *)
(* set.  The tasks run on one core in round-robin order (module            *)
(* Scheduler); schedule() gives the processor to the next task, and so may *)
(* the timer interrupt between any two steps below.                        *)
(***************************************************************************)
EXTENDS Naturals, FiniteSets

CONSTANTS N,        \* tasks 1..N use the lock
          Mutex,    \* TRUE: mutex_t, which calls schedule(); FALSE: spin_lock_t
          MaxRaces  \* bound: interrupts between a test and its set

ASSUME MutexConstants == N \in Nat \ {0} /\ Mutex \in BOOLEAN /\ MaxRaces \in Nat

Tasks == 1..N

VARIABLES lock,   \* the lock word
          cur,    \* the running task
          pc,     \* where each task is
          stale,  \* auxiliary: tasks interrupted between their test and their set
          races,  \* auxiliary: how often that happened
          beat    \* auxiliary: changed by every timer interrupt

vars == <<lock, cur, pc, stale, races, beat>>

\* mutex_init, spinlock_init.
Init == /\ lock = 0 /\ cur = 1
        /\ pc = [t \in Tasks |-> "out"]
        /\ stale = {} /\ races = 0 /\ beat = FALSE

Successor(t) == IF t = N THEN 1 ELSE t + 1

\* schedule() in the middle of mutex code; a spin lock goes on at once.
Continue(t) == cur' = IF Mutex THEN Successor(t) ELSE t

At(t, l)   == cur = t /\ pc[t] = l
Goto(t, l) == pc' = [pc EXCEPT ![t] = l]

-----------------------------------------------------------------------------
\* mutex_acquire begins with schedule().
Acquire(t) ==
    /\ At(t, "out")
    /\ Goto(t, "test") /\ Continue(t)
    /\ UNCHANGED <<lock, stale, races, beat>>

\* The lock word not looked at.
TestNothing(t) ==
    /\ At(t, "test") /\ Goto(t, "set")
    /\ UNCHANGED <<lock, cur, stale, races, beat>>

\* while (*val == 1): look again later, or go on to take the lock.
Test(t) ==
    /\ At(t, "test")
    /\ IF lock = 1 THEN Continue(t) /\ UNCHANGED pc
                   ELSE Goto(t, "set") /\ UNCHANGED cur
    /\ UNCHANGED <<lock, stale, races, beat>>

\* *val = 1, whatever it is by now.
Set(t) ==
    /\ At(t, "set")
    /\ lock' = 1 /\ stale' = stale \ {t}
    /\ Goto(t, "in")
    /\ UNCHANGED <<cur, races, beat>>

\* The lock word left alone.
ReleaseNothing(t) ==
    /\ At(t, "in")
    /\ Goto(t, "rel")
    /\ UNCHANGED <<lock, cur, stale, races, beat>>

\* *val = 0, and mutex_release ends with schedule().
Release(t) ==
    /\ At(t, "in")
    /\ lock' = 0 /\ Goto(t, "rel")
    /\ UNCHANGED <<cur, stale, races, beat>>

Released(t) ==
    /\ At(t, "rel")
    /\ Goto(t, "out") /\ Continue(t)
    /\ UNCHANGED <<lock, stale, races, beat>>

\* A task that holds the lock sleeps (the driver does, in sleep() under
\* cmdlock), and one that does not want it calls schedule().
Yield(t) ==
    /\ cur = t /\ pc[t] \in {"in", "out"}
    /\ cur' = Successor(t)
    /\ UNCHANGED <<lock, pc, stale, races, beat>>

\* The timer interrupt.
Tick ==
    /\ cur' = Successor(cur)
    /\ IF pc[cur] = "set" /\ cur \notin stale
         THEN /\ races < MaxRaces
              /\ stale' = stale \cup {cur} /\ races' = races + 1
         ELSE UNCHANGED <<stale, races>>
    /\ beat' = ~beat
    /\ UNCHANGED <<lock, pc>>

Step(t) == \/ Acquire(t) \/ Test(t) \/ Set(t) \/ Release(t) \/ Released(t)
           \/ Yield(t)
Next == Tick \/ \E t \in Tasks : Step(t)

Spec == Init /\ [][Next]_vars

\* Every task runs again and again and comes to an end of its section.
Fairness == \A t \in Tasks : /\ SF_vars(Test(t) \/ Set(t) \/ Released(t))
                             /\ SF_vars(Release(t))
                             /\ SF_vars(Yield(t) \/ Acquire(t))
FairSpec == Spec /\ Fairness

-----------------------------------------------------------------------------
(* Properties.                                                             *)

TypeOK == /\ lock \in {0, 1} /\ cur \in Tasks
          /\ pc \in [Tasks -> {"out", "test", "set", "in", "rel"}]
          /\ stale \in SUBSET Tasks /\ races \in 0..MaxRaces /\ beat \in BOOLEAN

Holders == {t \in Tasks : pc[t] = "in"}

\* What the lock is for: the "critical Section" of process1 to process3
\* (kernel.c:57) is executed by one task at a time.
MutualExclusion == Cardinality(Holders) <= 1

\* What it does give: every interrupt between a test and its set lets at most
\* one task too many into the section, and a section already shared by two
\* tasks, whose releases clear each other's lock word, lets in no more.
ExclusionBound == Cardinality(Holders) <= 1 + races

\* The inductive invariant: a task that was not interrupted since its test
\* sets a lock word that is still 0; every holder and every interrupted
\* setter is paid for by the lock word or by an interrupt.
SetterInv == /\ \A t \in stale : pc[t] = "set"
             /\ \A t \in Tasks \ stale : pc[t] = "set" => t = cur /\ lock = 0
CountInv == Cardinality(Holders) + Cardinality(stale) <= races + lock
MutexInv == TypeOK /\ SetterInv /\ CountInv

\* A waiting task gets the lock if the timer interrupt eventually stops
\* taking the processor from the tasks that use it: mutex_acquire has no
\* queue, but schedule() passes the turn round after every release.
Quiet == <>[][beat' = beat]_vars
NoStarvation == Quiet => \A t \in Tasks : (pc[t] = "test") ~> (pc[t] = "in")
=============================================================================
