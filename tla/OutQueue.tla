------------------------------ MODULE OutQueue ------------------------------
(***************************************************************************)
(* src/etherif.c: qpass and qget on edev->oq, the queue of frames to send. *)
(*                                                                         *)
(* The sending task calls qpass and then txstart, which empties the queue  *)
(* with qget; rproc calls txstart too when credit returns.  qget runs      *)
(* under tlock, qpass under no lock, and neither masks interrupts, so each *)
(* action is one access to the queue.  Frames are numbered in the order in *)
(* which they are passed.                                                  *)
(***************************************************************************)
EXTENDS Naturals, Sequences

CONSTANTS Sender, Reader,  \* the two tasks
          NoTask,
          MaxFrames        \* bound: frames sent

OutQueueConstants == /\ MaxFrames \in Nat /\ Sender # Reader
                            /\ NoTask \notin {Sender, Reader}

Callers  == {Sender, Reader}
Frames == 1..MaxFrames
NoBlock   == 0

VARIABLES first, last, nelem, next,  \* Queue, and Block.next of every frame
          tlock,        \* the task inside txstart's loop
          pc, b, n, cnt,  \* per task: where it is, its locals, nelem as it was read
          passed,       \* number of the frame passed last
          out,          \* the frames qget returned, in order
          dropped,      \* auxiliary: frames qget took off the list and did not return
          stray,        \* auxiliary: frames linked where no list reaches them
          overlap       \* auxiliary: a qpass and a qget were under way together

queueVars == <<first, last, nelem, next>>
auxVars   == <<out, dropped, stray>>
vars == <<queueVars, tlock, pc, b, n, cnt, passed, auxVars, overlap>>

Init == /\ first = NoBlock /\ last = NoBlock /\ nelem = 0
        /\ next = [f \in Frames |-> NoBlock]
        /\ tlock = NoTask /\ pc = [t \in Callers |-> "idle"]
        /\ b = [t \in Callers |-> NoBlock] /\ n = [t \in Callers |-> NoBlock]
        /\ cnt = [t \in Callers |-> 0]
        /\ passed = 0 /\ out = <<>> /\ dropped = {} /\ stray = {}
        /\ overlap = FALSE

At(t, l) == pc[t] = l
InPass == {"plink", "pfirst", "plast", "pcount", "pstore"}
InGet  == {"gadvance", "glast", "gclear", "gcount", "gstore"}

\* Each step notes whether it leaves the two operations under way together.
Goto(t, l) == /\ pc' = [pc EXCEPT ![t] = l]
              /\ overlap' = (overlap \/ \E s, r \in Callers : pc'[s] \in InPass /\ pc'[r] \in InGet)

-----------------------------------------------------------------------------
(* qpass, called by send_frame.                                            *)

\* b->next = 0 and the test of q->first.
Pass ==
    /\ At(Sender, "idle") /\ passed < MaxFrames
    /\ passed' = passed + 1
    /\ next' = [next EXCEPT ![passed + 1] = NoBlock]
    /\ Goto(Sender, IF first = NoBlock THEN "pfirst" ELSE "plink")
    /\ UNCHANGED <<first, last, nelem, tlock, b, n, cnt, auxVars>>

PassFirst ==
    /\ At(Sender, "pfirst")
    /\ first' = passed /\ Goto(Sender, "plast")
    /\ UNCHANGED <<last, nelem, next, tlock, b, n, cnt, passed, auxVars>>

\* q->last->next = b.  A null q->last makes it a write to low memory.
PassLink ==
    /\ At(Sender, "plink")
    /\ next' = IF last = NoBlock THEN next ELSE [next EXCEPT ![last] = passed]
    /\ stray' = IF last = NoBlock THEN stray \cup {passed} ELSE stray
    /\ Goto(Sender, "plast")
    /\ UNCHANGED <<first, last, nelem, tlock, b, n, cnt, passed, out, dropped>>

\* q->last left where it was.
PassLastKept ==
    /\ At(Sender, "plast")
    /\ last' = IF last = NoBlock THEN passed ELSE last
    /\ Goto(Sender, "pcount")
    /\ UNCHANGED <<first, nelem, next, tlock, b, n, cnt, passed, auxVars>>

PassLast ==
    /\ At(Sender, "plast")
    /\ last' = passed /\ Goto(Sender, "pcount")
    /\ UNCHANGED <<first, nelem, next, tlock, b, n, cnt, passed, auxVars>>

\* q->nelem++ is a load and a store.
PassCount ==
    /\ At(Sender, "pcount")
    /\ cnt' = [cnt EXCEPT ![Sender] = nelem] /\ Goto(Sender, "pstore")
    /\ UNCHANGED <<queueVars, tlock, b, n, passed, auxVars>>

PassStore ==
    /\ At(Sender, "pstore")
    /\ nelem' = cnt[Sender] + 1 /\ Goto(Sender, "want")
    /\ UNCHANGED <<first, last, next, tlock, b, n, cnt, passed, auxVars>>

-----------------------------------------------------------------------------
(* txstart: the loop around qget (module WifiDriver has its other steps).  *)

\* rproc calls txstart when flowstart is set, which may be at any time here.
Want == /\ At(Reader, "idle") /\ Goto(Reader, "want")
        /\ UNCHANGED <<queueVars, tlock, b, n, cnt, passed, auxVars>>

Acquire(t) ==
    /\ At(t, "want") /\ tlock = NoTask
    /\ tlock' = t /\ Goto(t, "gtest")
    /\ UNCHANGED <<queueVars, b, n, cnt, passed, auxVars>>

\* The loop ends when it is out of credit, whatever the queue holds.
OutOfCredit(t) ==
    /\ At(t, "gtest")
    /\ tlock' = NoTask /\ Goto(t, "idle")
    /\ UNCHANGED <<queueVars, b, n, cnt, passed, auxVars>>

\* qget returns null: txstart leaves its loop.
GetNothing(t) ==
    /\ tlock' = NoTask /\ Goto(t, "idle") /\ b' = [b EXCEPT ![t] = NoBlock]

Get(t) ==
    /\ At(t, "gtest")
    /\ IF first = NoBlock
         THEN GetNothing(t)
         ELSE b' = [b EXCEPT ![t] = first] /\ Goto(t, "gadvance") /\ UNCHANGED tlock
    /\ UNCHANGED <<queueVars, n, cnt, passed, auxVars>>

\* q->first not moved on.
AdvanceNothing(t) ==
    /\ At(t, "gadvance")
    /\ n' = [n EXCEPT ![t] = next[b[t]]] /\ Goto(t, "glast")
    /\ UNCHANGED <<queueVars, tlock, b, cnt, passed, auxVars>>

\* q->first = b->next.
GetAdvance(t) ==
    /\ At(t, "gadvance")
    /\ first' = next[b[t]] /\ n' = [n EXCEPT ![t] = next[b[t]]]
    /\ Goto(t, "glast")
    /\ UNCHANGED <<last, nelem, next, tlock, b, cnt, passed, auxVars>>

\* q->first == 0, from the register or read again, and then q->last != b:
\* the frame is not returned.
GetLast(t) ==
    /\ At(t, "glast")
    /\ \E f \in {n[t], first} :
         IF f # NoBlock THEN /\ Goto(t, "gcount") /\ UNCHANGED <<tlock, b, dropped>>
         ELSE IF last # b[t] THEN /\ dropped' = dropped \cup {b[t]} /\ GetNothing(t)
         ELSE /\ Goto(t, "gclear") /\ UNCHANGED <<tlock, b, dropped>>
    /\ UNCHANGED <<queueVars, n, cnt, passed, out, stray>>

GetClear(t) ==
    /\ At(t, "gclear")
    /\ last' = NoBlock /\ Goto(t, "gcount")
    /\ UNCHANGED <<first, nelem, next, tlock, b, n, cnt, passed, auxVars>>

GetCount(t) ==
    /\ At(t, "gcount")
    /\ IF nelem = 0 THEN /\ dropped' = dropped \cup {b[t]} /\ GetNothing(t) /\ UNCHANGED cnt
                    ELSE /\ cnt' = [cnt EXCEPT ![t] = nelem] /\ Goto(t, "gstore")
                         /\ UNCHANGED <<tlock, b, dropped>>
    /\ UNCHANGED <<queueVars, n, passed, out, stray>>

\* q->nelem--, and txstart sends the frame.
GetStore(t) ==
    /\ At(t, "gstore")
    /\ nelem' = cnt[t] - 1
    /\ out' = Append(out, b[t])
    /\ b' = [b EXCEPT ![t] = NoBlock] /\ n' = [n EXCEPT ![t] = NoBlock]
    /\ Goto(t, "gtest")
    /\ UNCHANGED <<first, last, next, tlock, cnt, passed, dropped, stray>>

-----------------------------------------------------------------------------
QPass == Pass \/ PassFirst \/ PassLink \/ PassLast \/ PassCount \/ PassStore
QGet(t) == Get(t) \/ GetAdvance(t) \/ GetLast(t) \/ GetClear(t) \/ GetCount(t) \/ GetStore(t)
Next == \/ QPass \/ Want
        \/ \E t \in Callers : Acquire(t) \/ OutOfCredit(t) \/ QGet(t)

Spec == Init /\ [][Next]_vars

-----------------------------------------------------------------------------
(* Properties.                                                             *)

\* Frames leave in the order they were passed and none leaves twice, however
\* qpass and qget are interleaved: what the races lose, they lose for good.
InOrder == \A i, j \in 1..Len(out) : i < j => out[i] < out[j]

\* The frames the list holds, from frame f on: passed later than f, each one
\* the next of the one before.
Chain(f) == {g \in Frames : f # NoBlock /\ g >= f /\ \A h \in f..(g - 1) : next[h] = h + 1}

\* With no overlap the queue is exact: between two operations it holds the
\* frames passed and not yet taken, and nelem is their number.
Idle == \A t \in Callers : pc[t] \in {"idle", "want", "gtest"}
ExactUnlessOverlapped ==
    Idle /\ ~overlap =>
       /\ Chain(first) = {f \in Frames : f <= passed /\ f > Len(out)}
       /\ nelem = passed - Len(out)
       /\ last = IF first = NoBlock THEN NoBlock ELSE passed
       /\ dropped = {} /\ stray = {}
=============================================================================
