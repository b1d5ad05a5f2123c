---------------------------- MODULE MutexProofs ----------------------------
(* Proofs about module Mutex, for every number of tasks and for both kinds *)
(* of lock: the inductive invariant MutexInv, and what it bounds.          *)
EXTENDS Mutex, FiniteSetTheorems, TLAPS

\* Sets of tasks are finite and their sizes are natural numbers.
LEMMA TaskSets ==
    ASSUME NEW S \in SUBSET Tasks
    PROVE  IsFiniteSet(S) /\ Cardinality(S) \in Nat
<1>1. IsFiniteSet(Tasks)
  BY MutexConstants, FS_Interval DEF Tasks
<1> QED BY <1>1, FS_Subset, FS_CardinalityType

\* One task more, or one less, changes the size of a set of tasks by one.
LEMMA OneMore ==
    ASSUME NEW S \in SUBSET Tasks, NEW t \in Tasks
    PROVE  /\ t \notin S => Cardinality(S \cup {t}) = Cardinality(S) + 1
           /\ t \in S => Cardinality(S \ {t}) = Cardinality(S) - 1
BY TaskSets, FS_AddElement, FS_RemoveElement

\* The round-robin successor of a task is a task.
LEMMA SuccessorType == \A t \in Tasks : Successor(t) \in Tasks
BY MutexConstants DEF Successor, Tasks

LEMMA InitInv == Init => MutexInv
<1> SUFFICES ASSUME Init PROVE MutexInv
  OBVIOUS
<1>0. beat \in BOOLEAN
  BY Zenon DEF Init
<1>1. TypeOK /\ SetterInv
  BY <1>0, MutexConstants DEF Init, TypeOK, SetterInv, Tasks
<1>2. Holders = {} /\ stale = {}
  BY DEF Init, Holders
<1>3. CountInv
  BY <1>2, FS_EmptySet DEF Init, CountInv
<1> QED BY <1>1, <1>3 DEF MutexInv

\* No action breaks the invariant.  Only Set, Release and an interrupt
\* between a test and its set change the two sets it counts.
LEMMA NextInv == MutexInv /\ [Next]_vars => MutexInv'
<1> SUFFICES ASSUME MutexInv, [Next]_vars PROVE MutexInv'
  OBVIOUS
<1> USE DEF MutexInv
<1>0. Holders \in SUBSET Tasks /\ stale \in SUBSET Tasks
      /\ Cardinality(Holders) \in Nat /\ Cardinality(stale) \in Nat
      /\ races \in Nat /\ lock \in {0, 1}
  BY TaskSets DEF Holders, TypeOK
\* Actions that leave both sets and the lock word alone.
<1> DEFINE Same == Holders' = Holders /\ UNCHANGED <<lock, stale, races>>
<1>same. Same => CountInv'
  BY DEF CountInv
<1>1. ASSUME NEW t \in Tasks, Acquire(t) PROVE MutexInv'
  <2>1. TypeOK' /\ SetterInv'
    BY <1>1, SuccessorType DEF Acquire, TypeOK, SetterInv, At, Goto, Continue
  <2>2. Same
    BY <1>1 DEF Acquire, At, Goto, Holders, TypeOK
  <2> QED BY <2>1, <2>2, <1>same
<1>2. ASSUME NEW t \in Tasks, Test(t) PROVE MutexInv'
  <2>1. TypeOK' /\ SetterInv'
    BY <1>2, SuccessorType DEF Test, TypeOK, SetterInv, At, Goto, Continue
  <2>2. Same
    BY <1>2 DEF Test, At, Goto, Holders, TypeOK
  <2> QED BY <2>1, <2>2, <1>same
<1>3. ASSUME NEW t \in Tasks, Set(t) PROVE MutexInv'
  <2>1. TypeOK' /\ SetterInv'
    BY <1>3 DEF Set, TypeOK, SetterInv, At, Goto
  <2>2. Holders' = Holders \cup {t} /\ t \notin Holders
    BY <1>3 DEF Set, At, Goto, Holders, TypeOK
  <2>3. Cardinality(Holders') = Cardinality(Holders) + 1
    BY <1>0, <2>2, OneMore
  <2>4. CASE t \in stale
    <3>1. stale' = stale \ {t}
      BY <1>3 DEF Set
    <3>2. Cardinality(stale') = Cardinality(stale) - 1
      BY <1>0, <2>4, <3>1, OneMore
    <3> QED BY <1>0, <1>3, <2>1, <2>3, <3>2 DEF Set, CountInv
  <2>5. CASE t \notin stale
    <3>1. stale' = stale /\ lock = 0 /\ lock' = 1 /\ races' = races
      BY <1>3, <2>5 DEF Set, SetterInv, At
    <3> QED BY <1>0, <2>1, <2>3, <3>1 DEF CountInv
  <2> QED BY <2>4, <2>5
<1>4. ASSUME NEW t \in Tasks, Release(t) PROVE MutexInv'
  <2>1. TypeOK' /\ SetterInv'
    BY <1>4 DEF Release, TypeOK, SetterInv, At, Goto
  <2>2. Holders' = Holders \ {t} /\ t \in Holders
    BY <1>4 DEF Release, At, Goto, Holders, TypeOK
  <2>3. Cardinality(Holders') = Cardinality(Holders) - 1
    BY <1>0, <2>2, OneMore
  <2> QED BY <1>0, <1>4, <2>1, <2>3 DEF Release, CountInv
<1>5. ASSUME NEW t \in Tasks, Released(t) PROVE MutexInv'
  <2>1. TypeOK' /\ SetterInv'
    BY <1>5, SuccessorType DEF Released, TypeOK, SetterInv, At, Goto, Continue
  <2>2. Same
    BY <1>5 DEF Released, At, Goto, Holders, TypeOK
  <2> QED BY <2>1, <2>2, <1>same
<1>6. ASSUME NEW t \in Tasks, Yield(t) PROVE MutexInv'
  <2>1. TypeOK' /\ SetterInv'
    BY <1>6, SuccessorType DEF Yield, TypeOK, SetterInv
  <2>2. Same
    BY <1>6 DEF Yield, Holders
  <2> QED BY <2>1, <2>2, <1>same
<1>7. CASE Tick
  <2>1. cur \in Tasks /\ Holders' = Holders /\ lock' = lock
    BY <1>7 DEF Tick, Holders, TypeOK
  <2>2. CASE pc[cur] = "set" /\ cur \notin stale
    <3>1. stale' = stale \cup {cur} /\ races' = races + 1 /\ races < MaxRaces
      BY <1>7, <2>2 DEF Tick
    <3>2. Cardinality(stale') = Cardinality(stale) + 1
      BY <1>0, <2>1, <2>2, <3>1, OneMore
    <3>3. TypeOK' /\ SetterInv'
      BY <1>7, <2>1, <2>2, <3>1, SuccessorType, MutexConstants
         DEF Tick, TypeOK, SetterInv
    <3> QED BY <1>0, <2>1, <3>1, <3>2, <3>3 DEF CountInv
  <2>3. CASE ~(pc[cur] = "set" /\ cur \notin stale)
    <3>1. TypeOK' /\ SetterInv'
      BY <1>7, <2>3, SuccessorType DEF Tick, TypeOK, SetterInv
    <3>2. Same
      BY <1>7, <2>1, <2>3 DEF Tick
    <3> QED BY <3>1, <3>2, <1>same
  <2> QED BY <2>2, <2>3
<1>8. CASE UNCHANGED vars
  BY <1>8, <1>same DEF vars, TypeOK, SetterInv, Holders
<1> QED BY <1>1, <1>2, <1>3, <1>4, <1>5, <1>6, <1>7, <1>8 DEF Next, Step

\* The invariant holds of mutex_acquire, mutex_release and the spin lock
\* functions, however the timer interrupts them.
THEOREM MutexInvariant == Spec => []MutexInv
<1>1. QED BY InitInv, NextInv, PTL DEF Spec

\* Every interrupt between a test and its set lets at most one task too many
\* into a section guarded by mutex_acquire and mutex_release.
THEOREM ExclusionLossBounded == Spec => []ExclusionBound
<1>1. MutexInv => ExclusionBound
  BY TaskSets DEF MutexInv, TypeOK, CountInv, ExclusionBound, Holders
<1> QED BY <1>1, MutexInvariant, PTL

\* With no such interrupt the lock is a lock: sections under it exclude each
\* other, although it has no atomic instruction.
THEOREM ExclusionWithoutRaces ==
    ASSUME MaxRaces = 0
    PROVE  Spec => []MutualExclusion
<1>1. MutexInv => MutualExclusion
  BY TaskSets DEF MutexInv, TypeOK, CountInv, MutualExclusion, Holders
<1> QED BY <1>1, MutexInvariant, PTL
=============================================================================
