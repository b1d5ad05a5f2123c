--------------------------- MODULE PlatformProofs ---------------------------
(***************************************************************************)
(* The platform's parts, for every value of their constants.  A behaviour  *)
(* of PlatformSpec belongs to one unit, so each part has an inductive      *)
(* invariant of its own that holds when the unit is that part: the steps   *)
(* of the others leave its variables alone.                                *)
(*                                                                         *)
(*   IrqInv     Interrupts: an irq_handler that is not at its handler is   *)
(*              the innermost one and masked;                              *)
(*   TimerInv   SysTimer: the counter at the time its low word was read,   *)
(*              the second of a time, the distance to the compare register;*)
(*   QueueInv   OutQueue: where each link leads, who may find the queue    *)
(*              empty, and the exact list while nothing overlaps;          *)
(*   LinkInv    LinkLayer: the frames on their way stand in line;          *)
(*   FrameInv   FrameAlloc: who has a frame has it alone, its bit set;     *)
(*   HeapInv    KernelAlloc: below, the heap stays inside its frames for a *)
(*              sane size, whatever calls interrupt each other; and SoloInv *)
(*              keeps the free lists exact as long as none does;           *)
(*   ListInv    LinkedList: the nodes in order and the links between them; *)
(*   BoxInv     Mailbox: where each tag of the request lies, what its      *)
(*              words are, and which ones the firmware has answered.       *)
(***************************************************************************)
EXTENDS MCPlatform, WellFoundedInduction, FiniteSetTheorems, SequenceTheorems, TLAPS

-----------------------------------------------------------------------------
(* KernelAlloc.                                                            *)

\* Pointer arithmetic that wraps at most once.
LEMMA ModOnce ==
    ASSUME NEW A \in Nat \ {0}, NEW x \in Nat, x < 2 * A
    PROVE  x % A = IF x < A THEN x ELSE x - A
BY SMT

LEMMA ModSmall == ASSUME NEW A \in Nat \ {0}, NEW x \in Nat, x < A PROVE x % A = x
BY SMT

LEMMA ModNat == ASSUME NEW A \in Nat \ {0}, NEW x \in Int PROVE x % A \in Nat
BY SMT

\* A set of buckets that are large enough has a smallest one.
LEMMA SmallestExists ==
    ASSUME NEW S \in SUBSET Nat, S # {}
    PROVE  \E bk \in S : \A c \in S : bk <= c
<1> DEFINE less == {p \in Nat \X Nat : p[1] < p[2]}
<1>1. IsWellFoundedOn(less, Nat)
  BY NatLessThanWellFounded DEF OpToRel
<1> HIDE DEF less
<1>2. PICK bk \in S : \A c \in S : ~(<<c, bk>> \in less)
  BY <1>1, WFMin
<1> USE DEF less
<1>3. ASSUME NEW c \in S PROVE bk <= c
  <2>1. ~(c < bk)
    BY <1>2
  <2> QED BY <2>1
<1> QED BY <1>3

\* kernel_allocate rounds a request up to a bucket or leaves it as it is.
LEMMA RoundedType == \A nb \in Requests : Rounded(nb) \in Sizes
<1> SUFFICES ASSUME NEW nb \in Requests PROVE Rounded(nb) \in Sizes
  OBVIOUS
<1> DEFINE fits == {bk \in Buckets : nb <= bk}
<1>1. CASE fits = {}
  BY <1>1 DEF Rounded, Sizes
<1>2. CASE fits # {}
  <2>1. fits \in SUBSET Nat
    BY HeapConstants
  <2>2. \E bk \in fits : \A c \in fits : bk <= c
    BY <1>2, <2>1, SmallestExists
  <2>3. (CHOOSE bk \in fits : \A c \in fits : bk <= c) \in fits
    BY <2>2
  <2> QED BY <1>2, <2>3 DEF Rounded, Sizes
<1> QED BY <1>1, <1>2

-----------------------------------------------------------------------------
(* HeapInv is inductive when SaneHeap holds.                               *)

LEMMA InitHeapInv == ASSUME SaneHeap PROVE Init => HeapInv
<1> SUFFICES ASSUME Init PROVE HeapInv
  OBVIOUS
<1> USE HeapConstants
<1> DEFINE x == Size - PageReserve
<1>1. x \in Nat /\ x < AddrSpace /\ Base + x \in Nat /\ Base + x < AddrSpace
  BY DEF SaneHeap
<1>2. s_pBlockLimit = Base + Size - PageReserve
  <2> DEFINE y == Base + x
  <2> HIDE DEF x, y
  <2>1. x % AddrSpace = x
    BY <1>1, ModSmall
  <2>2. y \in Nat /\ y < AddrSpace
    BY <1>1 DEF y
  <2>3. y % AddrSpace = y
    BY <2>2, ModSmall
  <2>4. s_pBlockLimit = Base + x
    BY <2>1, <2>3 DEF Init, x, y
  <2> QED BY <2>4 DEF x
<1>3. Blocks = {} /\ hdr \in [Blocks -> [size : Sizes, next : Blocks \cup {Null}]]
  BY DEF Init, Blocks
<1>4. TypeOK
  BY <1>2, <1>3 DEF Init, TypeOK, SaneHeap
<1>5. LimitInv
  BY <1>2 DEF Init, LimitInv, SaneHeap
<1>6. BlockInv /\ CallInv
  BY <1>3 DEF Init, BlockInv, CallInv
<1> QED BY <1>4, <1>5, <1>6 DEF HeapInv

\* Where a new block may end: what Carve computes without wrapping around.
LEMMA CarveBound ==
    ASSUME SaneHeap, HeapInv, NEW nb \in Sizes,
           LET new == (s_pNextBlock + Header + nb) % AddrSpace
           IN  /\ new > s_pNextBlock
               /\ new <= (s_pBlockLimit - s_nBlockReserve) % AddrSpace
    PROVE  /\ (s_pNextBlock + Header + nb) % AddrSpace = s_pNextBlock + Header + nb
           /\ s_pNextBlock + Header + nb <= s_pBlockLimit
<1> DEFINE x == s_pNextBlock + Header + nb
           y == s_pBlockLimit - s_nBlockReserve
<1> USE HeapConstants
<1>1. nb \in Nat \ {0}
  BY DEF Sizes
<1>2. /\ s_pNextBlock \in Nat /\ s_pBlockLimit \in Nat /\ s_nBlockReserve \in Nat
      /\ s_pBlockLimit = Base + Size - PageReserve
      /\ s_nBlockReserve <= BlockReserve /\ s_pNextBlock <= s_pBlockLimit
  BY DEF HeapInv, TypeOK, LimitInv
<1>3. s_pBlockLimit < AddrSpace /\ Header + nb < AddrSpace /\ y \in Nat /\ y < AddrSpace
  BY <1>2 DEF SaneHeap
<1>4. y % AddrSpace = y
  BY <1>3, ModOnce
<1>5. x \in Nat /\ x < 2 * AddrSpace
  BY <1>1, <1>2, <1>3
<1>6. x % AddrSpace = IF x < AddrSpace THEN x ELSE x - AddrSpace
  BY <1>5, ModOnce
<1>7. x < AddrSpace
  BY <1>1, <1>2, <1>3, <1>6
<1> QED BY <1>1, <1>2, <1>4, <1>6, <1>7

LEMMA NextHeapInv == ASSUME SaneHeap, HeapInv, [Next]_vars PROVE HeapInv'
<1> USE HeapConstants
<1>1. CASE UNCHANGED vars
  BY <1>1 DEF vars, heapVars, taskVars, HeapInv, TypeOK, LimitInv, BlockInv, CallInv, Blocks, End
<1>2. ASSUME NEW t \in Tasks, NEW nb \in Requests, Call(t, nb) PROVE HeapInv'
  <2>1. Rounded(nb) \in Sizes
    BY RoundedType
  <2>2. UNCHANGED <<heapVars, hdr, Blocks, free_list, h, to, owned>>
    BY <1>2 DEF Call, Blocks
  <2>3. /\ pc' = [pc EXCEPT ![t] = "look"]
        /\ size' = [size EXCEPT ![t] = Rounded(nb)]
    BY <1>2 DEF Call, Goto
  <2>4. pc[t] = "idle"
    BY <1>2 DEF Call, Enter
  <2> QED
    BY <2>1, <2>2, <2>3, <2>4
    DEF HeapInv, TypeOK, LimitInv, BlockInv, CallInv, Blocks, End, heapVars
<1>3. ASSUME NEW t \in Tasks, Look(t) PROVE HeapInv'
  BY <1>3 DEF Look, At, Goto, heapVars, HeapInv, TypeOK, LimitInv, BlockInv, CallInv, Blocks, End
<1>4. ASSUME NEW t \in Tasks, Pop(t) PROVE HeapInv'
  <2>1. hdr[h[t]].next \in Blocks \cup {Null}
    BY <1>4 DEF Pop, At, HeapInv, TypeOK, CallInv
  <2> QED
    BY <1>4, <2>1
    DEF Pop, At, Goto, heapVars, HeapInv, TypeOK, LimitInv, BlockInv, CallInv, Blocks, End
<1>5. ASSUME NEW t \in Tasks, Carve(t) PROVE HeapInv'
  <2> DEFINE new == (s_pNextBlock + Header + size[t]) % AddrSpace
  <2>1. size[t] \in Sizes
    BY <1>5 DEF Carve, At, HeapInv, CallInv
  <2>2. UNCHANGED <<s_pNextBlock, s_pBlockLimit, hdr, Blocks, free_list, size, owned>>
    BY <1>5 DEF Carve, Blocks
  <2>3. CASE new <= s_pNextBlock \/ new > (s_pBlockLimit - s_nBlockReserve) % AddrSpace
    BY <1>5, <2>2, <2>3
    DEF Carve, At, Goto, HeapInv, TypeOK, LimitInv, BlockInv, CallInv, Blocks, End
  <2>4. CASE ~(new <= s_pNextBlock \/ new > (s_pBlockLimit - s_nBlockReserve) % AddrSpace)
    <3>1. /\ size[t] \in Nat /\ s_pNextBlock \in Nat
          /\ s_pBlockLimit \in Nat /\ s_nBlockReserve \in Nat
      BY <2>1 DEF HeapInv, TypeOK, Sizes
    <3>2. new \in Nat /\ (s_pBlockLimit - s_nBlockReserve) % AddrSpace \in Nat
      BY <3>1, ModNat
    <3>3. new = s_pNextBlock + Header + size[t] /\ new <= s_pBlockLimit
      BY <2>1, <2>4, <3>1, <3>2, CarveBound
    <3>4. /\ h' = [h EXCEPT ![t] = s_pNextBlock] /\ to' = [to EXCEPT ![t] = new]
          /\ pc' = [pc EXCEPT ![t] = "advance"] /\ s_nBlockReserve' = s_nBlockReserve
      BY <1>5, <2>4 DEF Carve, Goto
    <3> HIDE DEF new
    <3> QED
      BY <2>1, <2>2, <3>1, <3>2, <3>3, <3>4
      DEF HeapInv, TypeOK, LimitInv, BlockInv, CallInv, Blocks, End
  <2> QED BY <2>3, <2>4
<1>6. ASSUME NEW t \in Tasks, Advance(t) PROVE HeapInv'
  <2>1. /\ size[t] \in Sizes /\ size[t] \in Nat /\ h[t] \in Nat /\ Base <= h[t]
        /\ to[t] = h[t] + Header + size[t] /\ to[t] <= s_pBlockLimit
    BY <1>6 DEF Advance, At, HeapInv, CallInv, Sizes
  <2>2. UNCHANGED <<s_pBlockLimit, s_nBlockReserve, free_list, h, size, to, owned>>
        /\ s_pNextBlock' = to[t] /\ pc' = [pc EXCEPT ![t] = "finish"]
    BY <1>6 DEF Advance, Goto
  <2>3. /\ Blocks' = Blocks \cup {h[t]}
        /\ \A a \in Blocks' : hdr'[a] = IF a = h[t] THEN [size |-> size[t], next |-> Null] ELSE hdr[a]
        /\ hdr' = [a \in Blocks' |-> hdr'[a]]
    BY <1>6 DEF Advance, Blocks
  <2>4. hdr' \in [Blocks' -> [size : Sizes, next : Blocks' \cup {Null}]]
    BY <2>1, <2>3 DEF HeapInv, TypeOK
  <2>5. TypeOK'
    BY <2>1, <2>2, <2>3, <2>4 DEF HeapInv, TypeOK
  <2>6. LimitInv'
    BY <2>1, <2>2 DEF HeapInv, LimitInv
  <2>7. BlockInv'
    BY <2>1, <2>2, <2>3 DEF HeapInv, BlockInv, End
  <2>8. CallInv'
    BY <2>1, <2>2, <2>3 DEF HeapInv, TypeOK, CallInv
  <2> QED BY <2>5, <2>6, <2>7, <2>8 DEF HeapInv
<1>7. ASSUME NEW t \in Tasks, Finish(t) PROVE HeapInv'
  <2>1. h[t] \in Blocks
    BY <1>7 DEF Finish, At, HeapInv, CallInv
  <2>2. Blocks' = Blocks /\ hdr' \in [Blocks -> [size : Sizes, next : Blocks \cup {Null}]]
        /\ \A a \in Blocks : hdr'[a].size = hdr[a].size
    BY <1>7, <2>1 DEF Finish, HeapInv, TypeOK, Blocks
  <2> QED
    BY <1>7, <2>1, <2>2
    DEF Finish, At, Goto, heapVars, HeapInv, TypeOK, LimitInv, BlockInv, CallInv, End
<1>8. ASSUME NEW t \in Tasks, NEW a \in owned[t], Free(t, a) PROVE HeapInv'
  <2>1. a \in Blocks
    BY DEF HeapInv, TypeOK
  <2>2. CASE hdr[a].size \in Buckets
    <3>1. free_list[hdr[a].size] \in Blocks \cup {Null}
      BY <2>2 DEF HeapInv, TypeOK
    <3>2. Blocks' = Blocks /\ hdr' \in [Blocks -> [size : Sizes, next : Blocks \cup {Null}]]
          /\ \A c \in Blocks : hdr'[c].size = hdr[c].size
      BY <1>8, <2>1, <2>2, <3>1 DEF Free, HeapInv, TypeOK, Blocks
    <3>3. /\ UNCHANGED <<heapVars, free_list, to>>
          /\ owned' = [owned EXCEPT ![t] = @ \ {a}]
          /\ h' = [h EXCEPT ![t] = a] /\ size' = [size EXCEPT ![t] = hdr[a].size]
          /\ pc' = [pc EXCEPT ![t] = "link"]
      BY <1>8, <2>2 DEF Free, Goto
    <3>4. hdr[a].size \in Sizes
      BY <2>2 DEF Sizes
    <3> QED
      BY <2>1, <3>2, <3>3, <3>4
      DEF heapVars, HeapInv, TypeOK, LimitInv, BlockInv, CallInv, End
  <2>3. CASE hdr[a].size \notin Buckets
    BY <1>8, <2>3
    DEF Free, heapVars, HeapInv, TypeOK, LimitInv, BlockInv, CallInv, Blocks, End
  <2> QED BY <2>2, <2>3
<1>9. ASSUME NEW t \in Tasks, FreeLink(t) PROVE HeapInv'
  BY <1>9
  DEF FreeLink, At, Goto, heapVars, HeapInv, TypeOK, LimitInv, BlockInv, CallInv, Blocks, End
<1> QED BY <1>1, <1>2, <1>3, <1>4, <1>5, <1>6, <1>7, <1>8, <1>9 DEF Next

\* If the heap is larger than its reserves and does not reach the end of the
\* address space, then the limit kernel_alloc_init sets is kept by whatever
\* interleaving of kernel_allocate and kernel_deallocate, reads of a stale
\* s_pNextBlock included.
THEOREM HeapInvariant == ASSUME SaneHeap PROVE Spec => []HeapInv
<1>1. Init => HeapInv
  BY InitHeapInv
<1>2. HeapInv /\ [Next]_vars => HeapInv'
  BY NextHeapInv
<1> QED BY <1>1, <1>2, PTL DEF Spec

\* For such a heap no block ever reaches outside the frames it was given.
THEOREM HeapStaysInside == ASSUME SaneHeap PROVE Spec => []HeapContained
<1>1. HeapInv => HeapContained
  <2> SUFFICES ASSUME HeapInv, NEW a \in Blocks PROVE Base <= a /\ End(a) <= Base + Size
    BY DEF HeapContained
  <2>1. a \in Nat /\ hdr[a].size \in Nat
    BY HeapConstants DEF HeapInv, TypeOK, Sizes
  <2>2. Base <= a /\ End(a) <= s_pBlockLimit
    BY DEF HeapInv, BlockInv
  <2>3. s_pBlockLimit = Base + Size - PageReserve
    BY DEF HeapInv, LimitInv
  <2> QED BY <2>1, <2>2, <2>3, HeapConstants DEF End
<1> QED BY <1>1, HeapInvariant, PTL

-----------------------------------------------------------------------------
(* The heap while calls are not mixed: SoloInv, by induction over HeapInv. *)

OnList(a) == \E bk \in Buckets : \E i \in 1..Len(stack[bk]) : stack[bk][i] = a
Holding(t, a) == pc[t] \in {"finish", "link"} /\ h[t] = a

\* One call at a time, and what it has between two steps.
OneCall ==
    /\ \A t, u \in Tasks : pc[t] # "idle" /\ pc[u] # "idle" => t = u
    /\ \A t \in Tasks :
         /\ pc[t] = "pop" => /\ size[t] \in Buckets /\ Len(stack[size[t]]) > 0
                             /\ h[t] = stack[size[t]][1]
         /\ pc[t] = "link" => /\ size[t] \in Buckets
                              /\ hdr[h[t]] = [size |-> size[t], next |-> free_list[size[t]]]
         /\ pc[t] = "advance" => h[t] = s_pNextBlock

\* The free lists are the stacks of the blocks freed, and no block is on one twice.
ListShape ==
    /\ stack \in [Buckets -> Seq(Blocks)]
    /\ \A bk \in Buckets :
         /\ free_list[bk] = IF Len(stack[bk]) = 0 THEN Null ELSE stack[bk][1]
         /\ \A i \in 1..Len(stack[bk]) :
              hdr[stack[bk][i]] = [size |-> bk, next |-> IF i = Len(stack[bk]) THEN Null ELSE stack[bk][i + 1]]
         /\ \A i, j \in 1..Len(stack[bk]) : stack[bk][i] = stack[bk][j] => i = j

\* A block is in one place: with a task, in a call, on a list or given up.
OnePlace ==
    /\ lost \subseteq Blocks
    /\ \A a \in Blocks :
         /\ a \in lost \/ OnList(a) \/ \E t \in Tasks : a \in owned[t] \/ Holding(t, a)
         /\ \A t, u \in Tasks : a \in owned[t] /\ a \in owned[u] => t = u
         /\ \A t \in Tasks : a \in owned[t] \/ Holding(t, a) => a \notin lost /\ ~OnList(a)
         /\ \A t, u \in Tasks : ~(a \in owned[t] /\ Holding(u, a))
         /\ a \in lost => ~OnList(a)

\* Blocks follow each other up to s_pNextBlock.
InRow == /\ \A a \in Blocks : End(a) <= s_pNextBlock
         /\ \A a, bk \in Blocks : a < bk => End(a) <= bk

SoloInv == OneCall /\ ListShape /\ OnePlace /\ InRow

\* A sequence of blocks is one of more blocks.
LEMMA SeqWider == ASSUME NEW S, NEW TT, S \subseteq TT PROVE Seq(S) \subseteq Seq(TT)
<1> SUFFICES ASSUME NEW s \in Seq(S) PROVE s \in Seq(TT)
  OBVIOUS
<1>1. Len(s) \in Nat /\ \A i \in 1..Len(s) : s[i] \in TT
  OBVIOUS
<1>2. s = [i \in 1..Len(s) |-> s[i]]
  OBVIOUS
<1> QED BY <1>1, <1>2

-----------------------------------------------------------------------------
(* Steps preserve it.                                                      *)

\* A call that is not mixed begins when every task is outside the heap.
LEMMA AloneFromIdle ==
    ASSUME NEW t \in Tasks, Enter(t), ~mixed'
    PROVE  ~mixed /\ \A u \in Tasks : pc[u] = "idle"
BY Zenon DEF Enter

\* SoloInv depends on what it names only.
LEMMA SoloFrame ==
    ASSUME SoloInv, UNCHANGED <<s_pNextBlock, hdr, free_list, pc, h, size, owned, lost, stack>>
    PROVE  SoloInv'
<1>1. OneCall' /\ ListShape' BY DEF SoloInv, OneCall, ListShape, Blocks
<1>2. OnePlace' BY DEF SoloInv, OnePlace, OnList, Holding, Blocks
<1>3. InRow' BY DEF SoloInv, InRow, Blocks, End
<1> QED BY <1>1, <1>2, <1>3 DEF SoloInv

\* Steps that leave the blocks where they are.
LEMMA SoloStill ==
    ASSUME HeapInv, SoloInv, NEW t \in Tasks,
           UNCHANGED <<s_pNextBlock, hdr, free_list, owned, lost, stack>>,
           \A x \in Blocks : \A u \in Tasks : Holding(u, x)' <=> Holding(u, x)
    PROVE  (ListShape /\ OnePlace /\ InRow)'
<1> UNCHANGED Blocks
  BY DEF Blocks
<1>1. \A x \in Blocks : OnList(x)' <=> OnList(x)
  BY DEF OnList
<1>2. \A x \in Blocks : End(x)' = End(x)
  BY DEF End
<1>3. ListShape'
  BY DEF SoloInv, ListShape
<1>4. OnePlace'
  BY <1>1 DEF SoloInv, OnePlace
<1>5. InRow'
  BY <1>2 DEF SoloInv, InRow
<1> QED BY <1>3, <1>4, <1>5

\* Each step of kernel_allocate and kernel_deallocate in turn: rounding,
LEMMA SoloCall ==
    ASSUME HeapInv, SoloInv, NEW t \in Tasks, NEW nb \in Requests, Call(t, nb),
           \A u \in Tasks : pc[u] = "idle"
    PROVE  SoloInv'
<1>1. /\ pc' = [pc EXCEPT ![t] = "look"]
      /\ size' = [size EXCEPT ![t] = Rounded(nb)]
      /\ UNCHANGED <<s_pNextBlock, hdr, free_list, h, owned, lost, stack>>
  BY DEF Call, Goto, heapVars
<1>2. pc \in [Tasks -> {"idle", "look", "pop", "carve", "advance", "finish", "link"}]
  BY DEF HeapInv, TypeOK
<1>3. OneCall'
  BY <1>1, <1>2 DEF OneCall
<1>4. \A x \in Blocks : \A u \in Tasks : Holding(u, x)' <=> Holding(u, x)
  BY <1>1, <1>2 DEF Holding
<1> QED BY <1>1, <1>3, <1>4, SoloStill DEF SoloInv

\* the look at the free list,
LEMMA SoloLook ==
    ASSUME HeapInv, SoloInv, NEW t \in Tasks, Look(t)
    PROVE  SoloInv'
<1>1. UNCHANGED <<s_pNextBlock, hdr, free_list, size, owned, lost, stack>>
  BY DEF Look, heapVars
<1>2. /\ pc \in [Tasks -> {"idle", "look", "pop", "carve", "advance", "finish", "link"}]
      /\ h \in [Tasks -> Nat \cup {Null}]
      /\ pc[t] = "look"
  BY DEF HeapInv, TypeOK, Look, At
<1>3. \/ /\ size[t] \in Buckets /\ free_list[size[t]] # Null
         /\ h' = [h EXCEPT ![t] = free_list[size[t]]]
         /\ pc' = [pc EXCEPT ![t] = "pop"]
      \/ pc' = [pc EXCEPT ![t] = "carve"] /\ h' = h
  BY DEF Look, Goto
<1>4. size[t] \in Buckets /\ free_list[size[t]] # Null
        => Len(stack[size[t]]) > 0 /\ free_list[size[t]] = stack[size[t]][1]
  <2>1. \A bk \in Buckets : /\ stack[bk] \in Seq(Blocks)
                           /\ free_list[bk] = IF Len(stack[bk]) = 0 THEN Null ELSE stack[bk][1]
    BY DEF SoloInv, ListShape
  <2> QED BY <2>1
<1>5. OneCall'
  <2>1. OneCall
    BY DEF SoloInv
  <2>2. \A u \in Tasks : u # t => pc[u] = "idle" /\ pc'[u] = "idle"
    BY <2>1, <1>2, <1>3 DEF OneCall
  <2>3. pc'[t] = "pop" => /\ size[t] \in Buckets /\ Len(stack[size[t]]) > 0
                          /\ h'[t] = stack[size[t]][1]
    BY <1>2, <1>3, <1>4
  <2>4. pc'[t] \in {"pop", "carve"}
    BY <1>2, <1>3
  <2> QED BY <1>1, <2>2, <2>3, <2>4 DEF OneCall
<1>6. \A x \in Blocks : \A u \in Tasks : Holding(u, x)' <=> Holding(u, x)
  BY <1>2, <1>3 DEF Holding
<1> QED BY <1>1, <1>5, <1>6, SoloStill DEF SoloInv

\* the end of the region,
LEMMA SoloCarve ==
    ASSUME HeapInv, SoloInv, NEW t \in Tasks, Carve(t)
    PROVE  SoloInv'
<1>1. UNCHANGED <<s_pNextBlock, hdr, free_list, size, owned, lost, stack>>
  BY DEF Carve
<1>2. /\ pc \in [Tasks -> {"idle", "look", "pop", "carve", "advance", "finish", "link"}]
      /\ h \in [Tasks -> Nat \cup {Null}]
      /\ pc[t] = "carve"
  BY DEF HeapInv, TypeOK, Carve, At
<1>3. \/ pc' = [pc EXCEPT ![t] = "idle"] /\ h' = h
      \/ pc' = [pc EXCEPT ![t] = "advance"] /\ h' = [h EXCEPT ![t] = s_pNextBlock]
  BY DEF Carve, Goto
<1>4. OneCall'
  <2>1. OneCall
    BY DEF SoloInv
  <2>2. \A u \in Tasks : u # t => pc[u] = "idle" /\ pc'[u] = "idle"
    BY <2>1, <1>2, <1>3 DEF OneCall
  <2>3. /\ pc'[t] \in {"idle", "advance"}
        /\ pc'[t] = "advance" => h'[t] = s_pNextBlock
    BY <1>2, <1>3
  <2> QED BY <1>1, <2>2, <2>3 DEF OneCall
<1>5. \A x \in Blocks : \A u \in Tasks : Holding(u, x)' <=> Holding(u, x)
  BY <1>2, <1>3 DEF Holding
<1> QED BY <1>1, <1>4, <1>5, SoloStill DEF SoloInv

\* What the stacks, the headers and the free lists are, for SMT.
LEMMA ListFacts ==
    ASSUME HeapInv, SoloInv, NEW bk \in Buckets
    PROVE  /\ stack[bk] \in Seq(Blocks) /\ Len(stack[bk]) \in Nat
           /\ free_list[bk] = IF Len(stack[bk]) = 0 THEN Null ELSE stack[bk][1]
           /\ \A i \in 1..Len(stack[bk]) :
                /\ stack[bk][i] \in Blocks /\ stack[bk][i] # Null
                /\ hdr[stack[bk][i]].size = bk
                /\ hdr[stack[bk][i]].next = IF i = Len(stack[bk]) THEN Null ELSE stack[bk][i + 1]
                /\ hdr[stack[bk][i]] = [size |-> bk, next |-> IF i = Len(stack[bk]) THEN Null ELSE stack[bk][i + 1]]
           /\ \A i, j \in 1..Len(stack[bk]) : stack[bk][i] = stack[bk][j] => i = j
<1>1. Null \notin Blocks
  BY HeapConstants DEF HeapInv, TypeOK
<1>2. stack[bk] \in Seq(Blocks)
  BY DEF SoloInv, ListShape
<1>3. \A i \in 1..Len(stack[bk]) : stack[bk][i] \in Blocks
  BY <1>2
<1> QED BY <1>1, <1>2, <1>3 DEF SoloInv, ListShape

\* the block taken from the list, which no other list has,
LEMMA SoloPop ==
    ASSUME HeapInv, SoloInv, NEW t \in Tasks, Pop(t)
    PROVE  SoloInv'
<1> DEFINE k == size[t]
           s == stack[k]
<1>1. /\ UNCHANGED <<s_pNextBlock, hdr, h, size, owned, lost, Blocks>>
      /\ pc' = [pc EXCEPT ![t] = "finish"]
      /\ free_list' = [free_list EXCEPT ![k] = hdr[h[t]].next]
      /\ stack' = [stack EXCEPT ![k] = IF s = <<>> THEN s ELSE Tail(s)]
  BY DEF Pop, Goto, heapVars, Blocks
<1>2. /\ pc \in [Tasks -> {"idle", "look", "pop", "carve", "advance", "finish", "link"}]
      /\ h \in [Tasks -> Nat \cup {Null}] /\ pc[t] = "pop"
      /\ free_list \in [Buckets -> Blocks \cup {Null}]
      /\ stack \in [Buckets -> Seq(Blocks)]
      /\ DOMAIN hdr = Blocks
  BY DEF HeapInv, TypeOK, Pop, At, SoloInv, ListShape, Blocks
<1>3. /\ k \in Buckets /\ Len(s) > 0 /\ h[t] = s[1]
      /\ \A u \in Tasks : u # t => pc[u] = "idle"
  BY <1>2 DEF SoloInv, OneCall
<1> HIDE DEF k
<1>4. /\ s \in Seq(Blocks) /\ Len(s) \in Nat /\ s # <<>>
      /\ Tail(s) \in Seq(Blocks) /\ Len(Tail(s)) = Len(s) - 1
      /\ \A i \in 1..(Len(s) - 1) : Tail(s)[i] = s[i + 1]
  BY <1>2, <1>3
<1>5. /\ stack'[k] = Tail(s) /\ \A bk \in Buckets : bk # k => stack'[bk] = stack[bk]
      /\ stack' \in [Buckets -> Seq(Blocks)]
  BY <1>1, <1>2, <1>3, <1>4
<1>6. /\ h[t] \in Blocks /\ hdr[h[t]].size = k
      /\ hdr[h[t]].next = IF Len(s) = 1 THEN Null ELSE s[2]
      /\ \A i \in 1..Len(s) : s[i] = h[t] => i = 1
  <2>1. 1 \in 1..Len(s)
    BY <1>3, <1>4
  <2>2. /\ s[1] \in Blocks /\ hdr[s[1]].size = k
        /\ hdr[s[1]].next = IF 1 = Len(s) THEN Null ELSE s[1 + 1]
        /\ \A i \in 1..Len(s) : s[i] = s[1] => i = 1
    BY <2>1, <1>3, ListFacts
  <2> QED BY <2>2, <1>3, <1>4
<1>7. /\ free_list'[k] = IF Len(s) = 1 THEN Null ELSE s[2]
      /\ \A bk \in Buckets : bk # k => free_list'[bk] = free_list[bk]
  BY <1>1, <1>2, <1>3, <1>6
<1>8. \A x \in Blocks : OnList(x)' <=> OnList(x) /\ x # h[t]
  <2> SUFFICES ASSUME NEW x \in Blocks PROVE OnList(x)' <=> OnList(x) /\ x # h[t]
    OBVIOUS
  <2>1. ASSUME OnList(x)' PROVE OnList(x) /\ x # h[t]
    <3>1. PICK bk \in Buckets : \E i \in 1..Len(stack'[bk]) : stack'[bk][i] = x
      BY <2>1 DEF OnList
    <3>2. PICK i \in 1..Len(stack'[bk]) : stack'[bk][i] = x
      BY <3>1
    <3>3. CASE bk = k
      <4>1. i + 1 \in 1..Len(s) /\ s[i + 1] = x /\ i + 1 # 1
        BY <3>2, <3>3, <1>4, <1>5
      <4> QED BY <4>1, <1>3, <1>6 DEF OnList
    <3>4. CASE bk # k
      <4>1. i \in 1..Len(stack[bk]) /\ stack[bk][i] = x
        BY <3>2, <3>4, <1>5
      <4>2. hdr[x].size = bk
        BY <4>1, ListFacts
      <4> QED BY <4>1, <4>2, <3>4, <1>6 DEF OnList
    <3> QED BY <3>3, <3>4
  <2>2. ASSUME OnList(x), x # h[t] PROVE OnList(x)'
    <3>1. PICK bk \in Buckets : \E i \in 1..Len(stack[bk]) : stack[bk][i] = x
      BY <2>2 DEF OnList
    <3>2. PICK i \in 1..Len(stack[bk]) : stack[bk][i] = x
      BY <3>1
    <3>3. CASE bk = k
      <4>1. i # 1
        BY <3>2, <3>3, <2>2, <1>3
      <4>2. i - 1 \in 1..Len(stack'[k]) /\ stack'[k][i - 1] = x
        BY <4>1, <3>2, <3>3, <1>4, <1>5
      <4> QED BY <4>2, <1>3 DEF OnList
    <3>4. CASE bk # k
      BY <3>2, <3>4, <1>5 DEF OnList
    <3> QED BY <3>3, <3>4
  <2> QED BY <2>1, <2>2
<1>9. \A x \in Blocks : \A u \in Tasks : Holding(u, x)' <=> u = t /\ x = h[t]
  BY <1>1, <1>2, <1>3 DEF Holding
<1>10. OneCall'
  BY <1>1, <1>2, <1>3 DEF OneCall
<1>11. ListShape'
  <2>1. ASSUME NEW bk \in Buckets
        PROVE  /\ free_list'[bk] = IF Len(stack'[bk]) = 0 THEN Null ELSE stack'[bk][1]
               /\ \A i \in 1..Len(stack'[bk]) :
                    hdr[stack'[bk][i]] = [size |-> bk, next |-> IF i = Len(stack'[bk]) THEN Null ELSE stack'[bk][i + 1]]
               /\ \A i, j \in 1..Len(stack'[bk]) : stack'[bk][i] = stack'[bk][j] => i = j
    <3>1. CASE bk # k
      BY <3>1, <1>5, <1>7, ListFacts
    <3>2. CASE bk = k
      <4>1. free_list'[k] = IF Len(Tail(s)) = 0 THEN Null ELSE Tail(s)[1]
        <5> DEFINE l == Len(s)
        <5>0. l \in Nat /\ l > 0
          BY <1>3, <1>4
        <5> HIDE DEF l
        <5>1. l # 1 => 1 \in 1..(l - 1)
          BY <5>0
        <5>3. l # 1 => Tail(s)[1] = s[1 + 1]
          BY <5>1, <1>4 DEF l
        <5>4. 1 + 1 = 2
          OBVIOUS
        <5>5. Len(s) # 1 => Tail(s)[1] = s[2]
          BY <5>3, <5>4 DEF l
        <5>2. Len(s) = 1 <=> Len(Tail(s)) = 0
          BY <1>4
        <5> QED BY <5>2, <5>5, <1>7
      <4>2. ASSUME NEW i \in 1..Len(Tail(s))
            PROVE  hdr[Tail(s)[i]] = [size |-> k, next |-> IF i = Len(Tail(s)) THEN Null ELSE Tail(s)[i + 1]]
        <5>1. i + 1 \in 1..Len(s) /\ Tail(s)[i] = s[i + 1]
          BY <1>4
        <5>2. hdr[s[i + 1]] = [size |-> k, next |-> IF i + 1 = Len(s) THEN Null ELSE s[i + 1 + 1]]
          BY <5>1, <1>3, ListFacts
        <5>3. i # Len(Tail(s)) => Tail(s)[i + 1] = s[i + 1 + 1]
          BY <1>4
        <5>4. i + 1 = Len(s) <=> i = Len(Tail(s))
          BY <1>4
        <5> QED BY <5>1, <5>2, <5>3, <5>4
      <4>3. ASSUME NEW i \in 1..Len(Tail(s)), NEW j \in 1..Len(Tail(s)), Tail(s)[i] = Tail(s)[j]
            PROVE  i = j
        <5>1. i + 1 \in 1..Len(s) /\ j + 1 \in 1..Len(s) /\ s[i + 1] = s[j + 1]
          BY <4>3, <1>4
        <5>2. i + 1 = j + 1
          BY <5>1, <1>3, ListFacts
        <5> QED BY <5>2
      <4>4. stack'[bk] = Tail(s) /\ bk = k BY <3>2, <1>5
      <4>5. free_list'[bk] = IF Len(stack'[bk]) = 0 THEN Null ELSE stack'[bk][1] BY <4>1, <4>4
      <4>6. \A i \in 1..Len(stack'[bk]) :
              hdr[stack'[bk][i]] = [size |-> bk, next |-> IF i = Len(stack'[bk]) THEN Null ELSE stack'[bk][i + 1]]
        BY <4>2, <4>4
      <4>7. \A i, j \in 1..Len(stack'[bk]) : stack'[bk][i] = stack'[bk][j] => i = j BY <4>3, <4>4
      <4> QED BY <4>5, <4>6, <4>7
    <3> QED BY <3>1, <3>2
  <2>2. hdr' = hdr /\ Blocks' = Blocks /\ stack' \in [Buckets -> Seq(Blocks)]
    BY <1>1, <1>5
  <2> QED BY <2>1, <2>2 DEF ListShape
<1>12. OnePlace'
  <2>1. OnePlace /\ OnList(h[t])
    BY <1>3, <1>4 DEF SoloInv, OnList
  <2>2. \A x \in Blocks : \A u \in Tasks : ~Holding(u, x)
    BY <1>2, <1>3 DEF Holding
  <2> QED BY <2>1, <2>2, <1>1, <1>6, <1>8, <1>9 DEF OnePlace
<1>13. InRow'
  BY <1>1 DEF SoloInv, InRow, End
<1> QED BY <1>10, <1>11, <1>12, <1>13 DEF SoloInv

\* the new block, which lies after all others,
LEMMA SoloAdvance ==
    ASSUME HeapInv, SoloInv, NEW t \in Tasks, Advance(t)
    PROVE  SoloInv'
<1> USE HeapConstants
<1>1. /\ UNCHANGED <<free_list, h, size, owned, lost, stack>>
      /\ pc' = [pc EXCEPT ![t] = "finish"]
      /\ s_pNextBlock' = to[t]
      /\ hdr' = [a \in Blocks \cup {h[t]} |->
                   IF a = h[t] THEN [size |-> size[t], next |-> Null] ELSE hdr[a]]
      /\ Blocks' = Blocks \cup {h[t]}
  BY DEF Advance, Goto, Blocks
<1>2. /\ pc \in [Tasks -> {"idle", "look", "pop", "carve", "advance", "finish", "link"}]
      /\ h \in [Tasks -> Nat \cup {Null}] /\ pc[t] = "advance"
      /\ Blocks \subseteq Nat
      /\ \A a \in Blocks : hdr[a].size \in Nat
  BY DEF HeapInv, TypeOK, Advance, At, Sizes
<1>3. /\ h[t] = s_pNextBlock
      /\ \A u \in Tasks : u # t => pc[u] = "idle"
  BY <1>2 DEF SoloInv, OneCall
<1>4. /\ h[t] \in Nat /\ to[t] = h[t] + Header + size[t] /\ size[t] \in Nat
  BY <1>2 DEF HeapInv, CallInv, Sizes
<1>5. \A a \in Blocks : a + Header + hdr[a].size <= h[t] /\ a # h[t]
  BY <1>2, <1>3, <1>4 DEF SoloInv, InRow, End
<1>6. /\ \A a \in Blocks : hdr'[a] = hdr[a] /\ End(a)' = End(a)
      /\ hdr'[h[t]] = [size |-> size[t], next |-> Null] /\ End(h[t])' = to[t]
  BY <1>1, <1>4, <1>5 DEF End
<1>7. \A x \in Blocks' : OnList(x)' <=> OnList(x)
  BY <1>1 DEF OnList
<1>8. ~OnList(h[t])
  <2> SUFFICES ASSUME OnList(h[t]) PROVE FALSE
    OBVIOUS
  <2>1. PICK bk \in Buckets : \E i \in 1..Len(stack[bk]) : stack[bk][i] = h[t]
    BY DEF OnList
  <2> QED BY <2>1, <1>5, ListFacts
<1>9. \A x \in Blocks' : \A u \in Tasks : Holding(u, x)' <=> u = t /\ x = h[t]
  BY <1>1, <1>2, <1>3 DEF Holding
<1>10. OneCall'
  BY <1>1, <1>2, <1>3 DEF OneCall
<1>11. ListShape'
  <2>1. stack' \in [Buckets -> Seq(Blocks')]
    BY <1>1, SeqWider DEF SoloInv, ListShape
  <2>2. ASSUME NEW bk \in Buckets, NEW i \in 1..Len(stack[bk])
        PROVE  hdr'[stack[bk][i]] = hdr[stack[bk][i]]
    BY <1>6, ListFacts
  <2>3. ASSUME NEW bk \in Buckets
        PROVE  /\ free_list'[bk] = IF Len(stack'[bk]) = 0 THEN Null ELSE stack'[bk][1]
               /\ \A i \in 1..Len(stack'[bk]) :
                    hdr'[stack'[bk][i]] = [size |-> bk, next |-> IF i = Len(stack'[bk]) THEN Null ELSE stack'[bk][i + 1]]
               /\ \A i, j \in 1..Len(stack'[bk]) : stack'[bk][i] = stack'[bk][j] => i = j
    <3>1. stack'[bk] = stack[bk] /\ free_list'[bk] = free_list[bk]
      BY <1>1
    <3>2. \A i \in 1..Len(stack[bk]) :
             hdr'[stack[bk][i]] = [size |-> bk, next |-> IF i = Len(stack[bk]) THEN Null ELSE stack[bk][i + 1]]
      <4> SUFFICES ASSUME NEW i \in 1..Len(stack[bk])
                   PROVE  hdr'[stack[bk][i]] = [size |-> bk, next |-> IF i = Len(stack[bk]) THEN Null ELSE stack[bk][i + 1]]
        OBVIOUS
      <4>1. hdr[stack[bk][i]] = [size |-> bk, next |-> IF i = Len(stack[bk]) THEN Null ELSE stack[bk][i + 1]]
        BY DEF SoloInv, ListShape
      <4> QED BY <2>2, <4>1
    <3> QED BY <3>1, <3>2, ListFacts
  <2> QED BY <2>1, <2>3 DEF ListShape
<1>12. OnePlace'
  <2>1. OnePlace
    BY DEF SoloInv
  <2>2. \A x \in Blocks : \A u \in Tasks : ~Holding(u, x)
    BY <1>2, <1>3 DEF Holding
  <2>3. \A u \in Tasks : h[t] \notin owned[u]
    BY <1>5 DEF HeapInv, TypeOK
  <2>4. h[t] \notin lost
    BY <1>5, <2>1 DEF OnePlace
  <2>5. lost' \subseteq Blocks'
    BY <1>1, <2>1 DEF OnePlace
  <2>6. ASSUME NEW a \in Blocks PROVE
         /\ (a \in lost \/ OnList(a) \/ \E u \in Tasks : a \in owned[u] \/ Holding(u, a))'
         /\ (\A v, u \in Tasks : a \in owned[v] /\ a \in owned[u] => v = u)'
         /\ (\A u \in Tasks : a \in owned[u] \/ Holding(u, a) => a \notin lost /\ ~OnList(a))'
         /\ (\A v, u \in Tasks : ~(a \in owned[v] /\ Holding(u, a)))'
         /\ (a \in lost => ~OnList(a))'
    BY <2>1, <2>2, <1>1, <1>5, <1>7, <1>9 DEF OnePlace
  <2> QED BY <2>3, <2>4, <2>5, <2>6, <1>1, <1>7, <1>8, <1>9 DEF OnePlace
<1>13. InRow'
  <2>1. InRow
    BY DEF SoloInv
  <2>2. ASSUME NEW a \in Blocks PROVE End(a)' <= h[t] /\ End(a) = a + Header + hdr[a].size /\ a < h[t]
    BY <1>2, <1>4, <1>5, <1>6 DEF End
  <2>3. to[t] \in Nat /\ h[t] <= to[t]
    BY <1>4
  <2>4. ASSUME NEW a \in Blocks' PROVE End(a)' <= s_pNextBlock'
    <3>1. a = h[t] => End(a)' = s_pNextBlock'
      BY <1>1, <1>6
    <3>2. a \in Blocks => End(a)' \in Nat /\ End(a)' <= h[t]
      BY <2>2, <1>2, <1>6
    <3> QED BY <1>1, <2>3, <3>1, <3>2, <1>4
  <2>5. ASSUME NEW a \in Blocks', NEW bk \in Blocks', a < bk PROVE End(a)' <= bk
    <3>1. CASE bk = h[t]
      BY <3>1, <2>5, <2>2, <1>1, <1>4
    <3>2. CASE bk \in Blocks /\ a = h[t]
      BY <3>2, <2>5, <2>2, <1>2, <1>4
    <3>3. CASE a \in Blocks /\ bk \in Blocks
      BY <3>3, <2>5, <2>1, <1>6 DEF InRow
    <3> QED BY <3>1, <3>2, <3>3, <1>1
  <2> QED BY <2>4, <2>5 DEF InRow
<1> QED BY <1>10, <1>11, <1>12, <1>13 DEF SoloInv

\* the block handed out, which is on no list,
LEMMA SoloFinish ==
    ASSUME HeapInv, SoloInv, NEW t \in Tasks, Finish(t)
    PROVE  SoloInv'
<1>1. /\ UNCHANGED <<s_pNextBlock, free_list, size, lost, stack>>
      /\ pc' = [pc EXCEPT ![t] = "idle"]
      /\ hdr' = [hdr EXCEPT ![h[t]].next = Null]
      /\ owned' = [owned EXCEPT ![t] = owned[t] \cup {h[t]}]
      /\ h' = [h EXCEPT ![t] = Null]
      /\ Blocks' = Blocks
  BY DEF Finish, Goto, heapVars, Blocks
<1>2. /\ pc \in [Tasks -> {"idle", "look", "pop", "carve", "advance", "finish", "link"}]
      /\ h \in [Tasks -> Nat \cup {Null}] /\ pc[t] = "finish"
      /\ owned \in [Tasks -> SUBSET Blocks]
      /\ hdr \in [Blocks -> [size : Sizes, next : Blocks \cup {Null}]]
      /\ h[t] \in Blocks
  BY DEF HeapInv, TypeOK, CallInv, Finish, At
<1>3. \A u \in Tasks : u # t => pc[u] = "idle"
  BY <1>2 DEF SoloInv, OneCall
<1>4. /\ \A a \in Blocks : a # h[t] => hdr'[a] = hdr[a]
      /\ \A a \in Blocks : hdr'[a].size = hdr[a].size
  BY <1>1, <1>2
<1>5. Holding(t, h[t]) /\ \A x \in Blocks : \A u \in Tasks : Holding(u, x) => u = t /\ x = h[t]
  BY <1>2, <1>3 DEF Holding
<1>6. ~OnList(h[t]) /\ h[t] \notin lost /\ \A u \in Tasks : h[t] \notin owned[u]
  BY <1>2, <1>5 DEF SoloInv, OnePlace
<1>7. \A x \in Blocks : OnList(x)' <=> OnList(x)
  BY <1>1 DEF OnList
<1>8. \A x \in Blocks : \A u \in Tasks : ~Holding(u, x)'
  BY <1>1, <1>2, <1>3 DEF Holding
<1>9. OneCall'
  BY <1>1, <1>2, <1>3 DEF OneCall
<1>10. ListShape'
  <2>1. stack' \in [Buckets -> Seq(Blocks')]
    BY <1>1 DEF SoloInv, ListShape
  <2>2. ASSUME NEW bk \in Buckets, NEW i \in 1..Len(stack[bk])
        PROVE  hdr'[stack[bk][i]] = hdr[stack[bk][i]]
    <3>1. stack[bk][i] # h[t]
      BY <1>6 DEF OnList
    <3> QED BY <3>1, <1>4, ListFacts
  <2>3. ASSUME NEW bk \in Buckets
        PROVE  /\ free_list'[bk] = IF Len(stack'[bk]) = 0 THEN Null ELSE stack'[bk][1]
               /\ \A i \in 1..Len(stack'[bk]) :
                    hdr'[stack'[bk][i]] = [size |-> bk, next |-> IF i = Len(stack'[bk]) THEN Null ELSE stack'[bk][i + 1]]
               /\ \A i, j \in 1..Len(stack'[bk]) : stack'[bk][i] = stack'[bk][j] => i = j
    <3>1. stack'[bk] = stack[bk] /\ free_list'[bk] = free_list[bk]
      BY <1>1
    <3>2. \A i \in 1..Len(stack[bk]) :
             hdr'[stack[bk][i]] = [size |-> bk, next |-> IF i = Len(stack[bk]) THEN Null ELSE stack[bk][i + 1]]
      <4> SUFFICES ASSUME NEW i \in 1..Len(stack[bk])
                   PROVE  hdr'[stack[bk][i]] = [size |-> bk, next |-> IF i = Len(stack[bk]) THEN Null ELSE stack[bk][i + 1]]
        OBVIOUS
      <4>1. hdr'[stack[bk][i]] = hdr[stack[bk][i]] BY <2>2
      <4>2. hdr[stack[bk][i]] = [size |-> bk, next |-> IF i = Len(stack[bk]) THEN Null ELSE stack[bk][i + 1]]
        BY ListFacts
      <4> QED BY <4>1, <4>2
    <3>3. free_list[bk] = IF Len(stack[bk]) = 0 THEN Null ELSE stack[bk][1] BY ListFacts
    <3>4. \A i, j \in 1..Len(stack[bk]) : stack[bk][i] = stack[bk][j] => i = j BY ListFacts
    <3> QED BY <3>1, <3>2, <3>3, <3>4
  <2> QED BY <2>1, <2>3 DEF ListShape
<1>11. OnePlace'
  <2>1. OnePlace
    BY DEF SoloInv
  <2>2. /\ owned'[t] = owned[t] \cup {h[t]}
        /\ \A u \in Tasks : u # t => owned'[u] = owned[u]
    BY <1>1, <1>2
  <2>3. lost' = lost /\ lost' \subseteq Blocks'
    BY <1>1, <2>1 DEF OnePlace
  <2>4. ASSUME NEW a \in Blocks PROVE
         /\ (a \in lost \/ OnList(a) \/ \E u \in Tasks : a \in owned[u] \/ Holding(u, a))'
         /\ (\A v, u \in Tasks : a \in owned[v] /\ a \in owned[u] => v = u)'
         /\ (\A u \in Tasks : a \in owned[u] \/ Holding(u, a) => a \notin lost /\ ~OnList(a))'
    <3>1. CASE a = h[t]
      BY <3>1, <2>2, <2>3, <1>6, <1>7, <1>8
    <3>2. CASE a # h[t]
      <4>1. \A u \in Tasks : a \in owned'[u] <=> a \in owned[u]
        BY <3>2, <2>2
      <4>2. \A u \in Tasks : ~Holding(u, a)
        BY <3>2, <1>5
      <4> QED BY <4>1, <4>2, <2>1, <2>3, <1>7, <1>8 DEF OnePlace
    <3> QED BY <3>1, <3>2
  <2>5. \A a \in Blocks : (a \in lost => ~OnList(a))'
    BY <2>1, <2>3, <1>7 DEF OnePlace
  <2> QED BY <2>3, <2>4, <2>5, <1>1, <1>8 DEF OnePlace
<1>12. InRow'
  BY <1>1, <1>4 DEF SoloInv, InRow, End
<1> QED BY <1>9, <1>10, <1>11, <1>12 DEF SoloInv

\* the block given back, whose header no list leads through,
LEMMA SoloFree ==
    ASSUME HeapInv, SoloInv, NEW t \in Tasks, NEW a \in owned[t], Free(t, a),
           \A u \in Tasks : pc[u] = "idle"
    PROVE  SoloInv'
<1>1. /\ UNCHANGED <<s_pNextBlock, free_list, stack>>
      /\ owned' = [owned EXCEPT ![t] = owned[t] \ {a}]
  BY DEF Free, heapVars
<1>2. /\ pc \in [Tasks -> {"idle", "look", "pop", "carve", "advance", "finish", "link"}]
      /\ h \in [Tasks -> Nat \cup {Null}]
      /\ owned \in [Tasks -> SUBSET Blocks]
      /\ hdr \in [Blocks -> [size : Sizes, next : Blocks \cup {Null}]]
      /\ size \in [Tasks -> Sizes \cup {0}]
      /\ a \in Blocks
  BY DEF HeapInv, TypeOK
<1>3. \/ /\ hdr[a].size \in Buckets
         /\ hdr' = [hdr EXCEPT ![a].next = free_list[hdr[a].size]]
         /\ h' = [h EXCEPT ![t] = a]
         /\ size' = [size EXCEPT ![t] = hdr[a].size]
         /\ pc' = [pc EXCEPT ![t] = "link"]
         /\ lost' = lost
      \/ /\ lost' = lost \cup {a}
         /\ UNCHANGED <<hdr, h, size, pc>>
  BY DEF Free, Goto
<1>4. Blocks' = Blocks
  BY <1>2, <1>3 DEF Blocks
<1>5. OnePlace
  BY DEF SoloInv
<1>6. ~OnList(a) /\ a \notin lost /\ \A u \in Tasks : a \in owned[u] => u = t
  BY <1>2, <1>5 DEF OnePlace
<1>7. /\ \A x \in Blocks : x # a => hdr'[x] = hdr[x]
      /\ \A x \in Blocks : hdr'[x].size = hdr[x].size
  BY <1>2, <1>3
<1>8. \A x \in Blocks : OnList(x)' <=> OnList(x)
  BY <1>1 DEF OnList
<1>9. /\ \A x \in Blocks : \A u \in Tasks : ~Holding(u, x)
      /\ \A x \in Blocks : \A u \in Tasks : Holding(u, x)' => u = t /\ x = a
      /\ a \in lost' <=> ~Holding(t, a)'
      /\ \A x \in Blocks : x # a => (x \in lost' <=> x \in lost)
  BY <1>2, <1>3, <1>6 DEF Holding
<1>10. OneCall'
  <2>1. CASE lost' = lost \cup {a} /\ UNCHANGED <<hdr, h, size, pc>>
    BY <2>1 DEF OneCall
  <2>2. CASE /\ hdr[a].size \in Buckets
             /\ hdr' = [hdr EXCEPT ![a].next = free_list[hdr[a].size]]
             /\ h' = [h EXCEPT ![t] = a]
             /\ size' = [size EXCEPT ![t] = hdr[a].size]
             /\ pc' = [pc EXCEPT ![t] = "link"]
    <3>1. /\ pc'[t] = "link" /\ \A u \in Tasks : u # t => pc'[u] = "idle"
          /\ h'[t] = a /\ size'[t] = hdr[a].size
      BY <2>2, <1>2
    <3>2. hdr'[a] = [size |-> hdr[a].size, next |-> free_list[hdr[a].size]]
      BY <2>2, <1>2
    <3> QED BY <3>1, <3>2, <2>2, <1>1 DEF OneCall
  <2> QED BY <1>3, <2>1, <2>2
<1>11. ListShape'
  <2>1. stack' \in [Buckets -> Seq(Blocks')]
    BY <1>1, <1>4 DEF SoloInv, ListShape
  <2>2. ASSUME NEW bk \in Buckets, NEW i \in 1..Len(stack[bk])
        PROVE  hdr'[stack[bk][i]] = hdr[stack[bk][i]]
    <3>1. stack[bk][i] # a
      BY <1>6 DEF OnList
    <3> QED BY <3>1, <1>7, ListFacts
  <2>3. ASSUME NEW bk \in Buckets
        PROVE  /\ free_list'[bk] = IF Len(stack'[bk]) = 0 THEN Null ELSE stack'[bk][1]
               /\ \A i \in 1..Len(stack'[bk]) :
                    hdr'[stack'[bk][i]] = [size |-> bk, next |-> IF i = Len(stack'[bk]) THEN Null ELSE stack'[bk][i + 1]]
               /\ \A i, j \in 1..Len(stack'[bk]) : stack'[bk][i] = stack'[bk][j] => i = j
    <3>1. stack'[bk] = stack[bk] /\ free_list'[bk] = free_list[bk]
      BY <1>1
    <3>2. \A i \in 1..Len(stack[bk]) :
             hdr'[stack[bk][i]] = [size |-> bk, next |-> IF i = Len(stack[bk]) THEN Null ELSE stack[bk][i + 1]]
      BY <2>2, ListFacts
    <3> QED BY <3>1, <3>2, ListFacts
  <2> QED BY <2>1, <2>3 DEF ListShape
<1>12. OnePlace'
  <2>1. /\ owned'[t] = owned[t] \ {a}
        /\ \A u \in Tasks : u # t => owned'[u] = owned[u]
    BY <1>1, <1>2
  <2>2. lost' \subseteq Blocks
    BY <1>2, <1>3, <1>5 DEF OnePlace
  <2>3. \A u \in Tasks : a \notin owned'[u]
    BY <2>1, <1>6
  <2>4. ASSUME NEW x \in Blocks PROVE
         /\ (x \in lost \/ OnList(x) \/ \E u \in Tasks : x \in owned[u] \/ Holding(u, x))'
         /\ (\A v, u \in Tasks : x \in owned[v] /\ x \in owned[u] => v = u)'
         /\ (\A u \in Tasks : x \in owned[u] \/ Holding(u, x) => x \notin lost /\ ~OnList(x))'
         /\ (\A v, u \in Tasks : ~(x \in owned[v] /\ Holding(u, x)))'
         /\ (x \in lost => ~OnList(x))'
    <3>1. CASE x = a
      BY <3>1, <2>3, <1>6, <1>8, <1>9
    <3>2. CASE x # a
      <4>1. \A u \in Tasks : x \in owned'[u] <=> x \in owned[u]
        BY <3>2, <2>1
      <4>2. \A u \in Tasks : ~Holding(u, x) /\ ~Holding(u, x)'
        BY <3>2, <1>9
      <4>3. x \in lost' <=> x \in lost
        BY <3>2, <1>9
      <4> QED BY <4>1, <4>2, <4>3, <1>5, <1>8 DEF OnePlace
    <3> QED BY <3>1, <3>2
  <2> QED BY <2>2, <2>4, <1>4 DEF OnePlace
<1>13. InRow'
  BY <1>1, <1>4, <1>7 DEF SoloInv, InRow, End
<1> QED BY <1>10, <1>11, <1>12, <1>13 DEF SoloInv

\* the block put in front of its list.
LEMMA SoloFreeLink ==
    ASSUME HeapInv, SoloInv, NEW t \in Tasks, FreeLink(t)
    PROVE  SoloInv'
<1> DEFINE k == size[t]
           s == stack[k]
           x == h[t]
           z == <<x>> \o s
<1>1. /\ UNCHANGED <<s_pNextBlock, hdr, size, owned, lost, Blocks>>
      /\ pc' = [pc EXCEPT ![t] = "idle"]
      /\ free_list' = [free_list EXCEPT ![k] = x]
      /\ stack' = [stack EXCEPT ![k] = z]
      /\ h' = [h EXCEPT ![t] = Null]
  BY DEF FreeLink, Goto, heapVars, Blocks
<1>2. /\ pc \in [Tasks -> {"idle", "look", "pop", "carve", "advance", "finish", "link"}]
      /\ h \in [Tasks -> Nat \cup {Null}] /\ pc[t] = "link"
      /\ free_list \in [Buckets -> Blocks \cup {Null}]
      /\ stack \in [Buckets -> Seq(Blocks)]
      /\ x \in Blocks
  BY DEF HeapInv, TypeOK, CallInv, FreeLink, At, SoloInv, ListShape
<1>3. /\ k \in Buckets /\ hdr[x] = [size |-> k, next |-> free_list[k]]
      /\ \A u \in Tasks : u # t => pc[u] = "idle"
  BY <1>2 DEF SoloInv, OneCall
<1>4. /\ s \in Seq(Blocks) /\ Len(s) \in Nat
  BY <1>2, <1>3
<1>5. OnePlace
  BY DEF SoloInv
<1>6. Holding(t, x) /\ \A y \in Blocks : \A u \in Tasks : Holding(u, y) => u = t /\ y = x
  BY <1>2, <1>3 DEF Holding
<1>7. ~OnList(x) /\ x \notin lost /\ \A u \in Tasks : x \notin owned[u]
  BY <1>2, <1>5, <1>6 DEF OnePlace
<1>8. \A y \in Blocks : \A u \in Tasks : ~Holding(u, y)'
  BY <1>1, <1>2, <1>3 DEF Holding
<1>9. \A i \in 1..Len(s) : s[i] # x
  BY <1>3, <1>7 DEF OnList
<1>10. OneCall'
  BY <1>1, <1>2, <1>3 DEF OneCall
<1>11. InRow'
  BY <1>1 DEF SoloInv, InRow, End
<1> HIDE DEF k, x
<1>12. /\ z \in Seq(Blocks) /\ Len(z) = Len(s) + 1 /\ z[1] = x
       /\ \A i \in 2..(Len(s) + 1) : z[i] = s[i - 1]
  BY <1>2, <1>4
<1> HIDE DEF z
<1>13. /\ stack'[k] = z /\ \A bk \in Buckets : bk # k => stack'[bk] = stack[bk]
       /\ stack' \in [Buckets -> Seq(Blocks)]
       /\ free_list'[k] = x /\ \A bk \in Buckets : bk # k => free_list'[bk] = free_list[bk]
  BY <1>1, <1>2, <1>3, <1>12
<1>14. ListShape'
  <2>1. ASSUME NEW bk \in Buckets
        PROVE  /\ free_list'[bk] = IF Len(stack'[bk]) = 0 THEN Null ELSE stack'[bk][1]
               /\ \A i \in 1..Len(stack'[bk]) :
                    hdr[stack'[bk][i]] = [size |-> bk, next |-> IF i = Len(stack'[bk]) THEN Null ELSE stack'[bk][i + 1]]
               /\ \A i, j \in 1..Len(stack'[bk]) : stack'[bk][i] = stack'[bk][j] => i = j
    <3>1. CASE bk # k
      <4>1. stack'[bk] = stack[bk] /\ free_list'[bk] = free_list[bk]
        BY <3>1, <1>13
      <4> QED BY <4>1, ListFacts
    <3>2. CASE bk = k
      <4>1. free_list'[k] = IF Len(z) = 0 THEN Null ELSE z[1]
        BY <1>4, <1>12, <1>13
      <4>2. ASSUME NEW i \in 1..Len(z)
            PROVE  hdr[z[i]] = [size |-> k, next |-> IF i = Len(z) THEN Null ELSE z[i + 1]]
        <5>1. CASE i = 1
          <6>1. free_list[k] = IF Len(s) = 0 THEN Null ELSE s[1]
            BY <1>3, ListFacts
          <6>2. 1 = Len(z) <=> Len(s) = 0
            BY <1>4, <1>12
          <6>3. Len(s) # 0 => z[1 + 1] = s[1]
            <7>1. Len(s) # 0 => 2 \in 2..(Len(s) + 1)
              BY <1>4
            <7>2. Len(s) # 0 => z[2] = s[2 - 1]
              BY <7>1, <1>12
            <7>3. 1 + 1 = 2 /\ 2 - 1 = 1
              OBVIOUS
            <7> QED BY <7>2, <7>3
          <6>4. hdr[z[1]] = [size |-> k, next |-> free_list[k]]
            BY <1>3, <1>12
          <6> QED BY <5>1, <6>1, <6>2, <6>3, <6>4
        <5>2. CASE i # 1
          <6>1. i - 1 \in 1..Len(s) /\ i \in 2..(Len(s) + 1) /\ z[i] = s[i - 1]
            BY <5>2, <1>4, <1>12
          <6>2. hdr[s[i - 1]] = [size |-> k, next |-> IF i - 1 = Len(s) THEN Null ELSE s[i - 1 + 1]]
            BY <6>1, <1>3, ListFacts
          <6>3. i - 1 = Len(s) <=> i = Len(z)
            BY <6>1, <1>4, <1>12
          <6>4. i # Len(z) => z[i + 1] = s[i - 1 + 1]
            <7>1. i # Len(z) => i + 1 \in 2..(Len(s) + 1)
              BY <6>1, <1>4, <1>12
            <7>2. i + 1 - 1 = i - 1 + 1
              BY <6>1
            <7> QED BY <7>1, <7>2, <1>12
          <6> QED BY <6>1, <6>2, <6>3, <6>4
        <5> QED BY <5>1, <5>2
      <4>3. ASSUME NEW i \in 1..Len(z), NEW j \in 1..Len(z), z[i] = z[j]
            PROVE  i = j
        <5>1. \A nb \in 1..Len(z) : nb # 1 => nb - 1 \in 1..Len(s) /\ z[nb] = s[nb - 1] /\ z[nb] # x
          <6> SUFFICES ASSUME NEW nb \in 1..Len(z), nb # 1
                       PROVE  nb - 1 \in 1..Len(s) /\ z[nb] = s[nb - 1] /\ z[nb] # x
            OBVIOUS
          <6>1. nb - 1 \in 1..Len(s) /\ nb \in 2..(Len(s) + 1)
            BY <1>4, <1>12
          <6>2. z[nb] = s[nb - 1]
            BY <6>1, <1>12
          <6> QED BY <6>1, <6>2, <1>9
        <5>2. CASE i = 1 \/ j = 1
          BY <5>1, <5>2, <4>3, <1>12
        <5>3. CASE i # 1 /\ j # 1
          <6>1. /\ i - 1 \in 1..Len(s) /\ j - 1 \in 1..Len(s) /\ s[i - 1] = s[j - 1]
            BY <5>1, <5>3, <4>3
          <6>2. i - 1 = j - 1
            BY <6>1, <1>3, ListFacts
          <6> QED BY <6>2
        <5> QED BY <5>2, <5>3
      <4> QED BY <3>2, <4>1, <4>2, <4>3, <1>13
    <3> QED BY <3>1, <3>2
  <2> QED BY <2>1, <1>1, <1>13 DEF ListShape
<1>15. \A y \in Blocks : OnList(y)' <=> OnList(y) \/ y = x
  <2> SUFFICES ASSUME NEW y \in Blocks PROVE OnList(y)' <=> OnList(y) \/ y = x
    OBVIOUS
  <2>1. ASSUME OnList(y)', y # x PROVE OnList(y)
    <3>1. PICK bk \in Buckets : \E i \in 1..Len(stack'[bk]) : stack'[bk][i] = y
      BY <2>1 DEF OnList
    <3>2. PICK i \in 1..Len(stack'[bk]) : stack'[bk][i] = y
      BY <3>1
    <3>3. CASE bk = k
      <4>1. i # 1
        BY <3>2, <3>3, <2>1, <1>12, <1>13
      <4>2. i - 1 \in 1..Len(s) /\ i \in 2..(Len(s) + 1)
        BY <4>1, <3>3, <1>4, <1>12, <1>13
      <4>3. s[i - 1] = y
        BY <4>2, <3>2, <3>3, <1>12, <1>13
      <4> QED BY <4>2, <4>3, <1>3 DEF OnList
    <3>4. CASE bk # k
      BY <3>2, <3>4, <1>13 DEF OnList
    <3> QED BY <3>3, <3>4
  <2>2. ASSUME y = x PROVE OnList(y)'
    <3>1. 1 \in 1..Len(stack'[k]) /\ stack'[k][1] = y
      BY <2>2, <1>4, <1>12, <1>13
    <3> QED BY <3>1, <1>3 DEF OnList
  <2>3. ASSUME OnList(y) PROVE OnList(y)'
    <3>1. PICK bk \in Buckets : \E i \in 1..Len(stack[bk]) : stack[bk][i] = y
      BY <2>3 DEF OnList
    <3>2. PICK i \in 1..Len(stack[bk]) : stack[bk][i] = y
      BY <3>1
    <3>3. CASE bk = k
      <4>1. i + 1 \in 1..Len(z) /\ i + 1 \in 2..(Len(s) + 1) /\ i + 1 - 1 = i
        BY <3>2, <3>3, <1>4, <1>12
      <4>2. z[i + 1] = y
        BY <4>1, <3>2, <3>3, <1>12
      <4> QED BY <4>1, <4>2, <1>3, <1>13 DEF OnList
    <3>4. CASE bk # k
      BY <3>2, <3>4, <1>13 DEF OnList
    <3> QED BY <3>3, <3>4
  <2> QED BY <2>1, <2>2, <2>3
<1>16. OnePlace'
  <2>1. ASSUME NEW y \in Blocks PROVE
         /\ (y \in lost \/ OnList(y) \/ \E u \in Tasks : y \in owned[u] \/ Holding(u, y))'
         /\ (\A v, u \in Tasks : y \in owned[v] /\ y \in owned[u] => v = u)'
         /\ (\A u \in Tasks : y \in owned[u] \/ Holding(u, y) => y \notin lost /\ ~OnList(y))'
         /\ (\A v, u \in Tasks : ~(y \in owned[v] /\ Holding(u, y)))'
         /\ (y \in lost => ~OnList(y))'
    <3>1. CASE y = x
      BY <3>1, <1>1, <1>7, <1>8, <1>15
    <3>2. CASE y # x
      BY <3>2, <1>1, <1>5, <1>6, <1>8, <1>15 DEF OnePlace
    <3> QED BY <3>1, <3>2
  <2> QED BY <2>1, <1>1, <1>5 DEF OnePlace
<1> QED BY <1>10, <1>11, <1>14, <1>16 DEF SoloInv

\* Outside mixed calls every step keeps the heap in shape.
LEMMA SoloStep ==
    ASSUME HeapInv, ~mixed => SoloInv, [Next]_vars
    PROVE  ~mixed' => SoloInv'
<1> SUFFICES ASSUME ~mixed' PROVE SoloInv'
  OBVIOUS
<1>1. CASE UNCHANGED vars
  <2>1. ~mixed
    BY <1>1, Zenon DEF vars
  <2> QED BY <2>1, <1>1, SoloFrame DEF vars, heapVars, taskVars
<1>2. ASSUME NEW t \in Tasks, NEW nb \in Requests, Call(t, nb) PROVE SoloInv'
  <2>1. ~mixed /\ \A u \in Tasks : pc[u] = "idle"
    BY <1>2, AloneFromIdle DEF Call
  <2> QED BY <2>1, <1>2, SoloCall
<1>3. ASSUME NEW t \in Tasks, NEW a \in owned[t], Free(t, a) PROVE SoloInv'
  <2>1. ~mixed /\ \A u \in Tasks : pc[u] = "idle"
    BY <1>3, AloneFromIdle DEF Free
  <2> QED BY <2>1, <1>3, SoloFree
<1>4. ASSUME NEW t \in Tasks, Look(t) PROVE SoloInv'
  <2>1. ~mixed
    BY <1>4, Zenon DEF Look
  <2> QED BY <2>1, <1>4, SoloLook
<1>5. ASSUME NEW t \in Tasks, Pop(t) PROVE SoloInv'
  <2>1. ~mixed
    BY <1>5, Zenon DEF Pop
  <2> QED BY <2>1, <1>5, SoloPop
<1>6. ASSUME NEW t \in Tasks, Carve(t) PROVE SoloInv'
  <2>1. ~mixed
    BY <1>6, Zenon DEF Carve
  <2> QED BY <2>1, <1>6, SoloCarve
<1>7. ASSUME NEW t \in Tasks, Advance(t) PROVE SoloInv'
  <2>1. ~mixed
    BY <1>7, Zenon DEF Advance
  <2> QED BY <2>1, <1>7, SoloAdvance
<1>8. ASSUME NEW t \in Tasks, Finish(t) PROVE SoloInv'
  <2>1. ~mixed
    BY <1>8, Zenon DEF Finish
  <2> QED BY <2>1, <1>8, SoloFinish
<1>9. ASSUME NEW t \in Tasks, FreeLink(t) PROVE SoloInv'
  <2>1. ~mixed
    BY <1>9, Zenon DEF FreeLink
  <2> QED BY <2>1, <1>9, SoloFreeLink
<1> QED BY <1>1, <1>2, <1>3, <1>4, <1>5, <1>6, <1>7, <1>8, <1>9 DEF Next

\* The empty heap is in shape.
LEMMA SoloInit == Init => SoloInv
<1> SUFFICES ASSUME Init PROVE SoloInv
  OBVIOUS
<1>1. Blocks = {} /\ lost = {} /\ \A bk \in Buckets : stack[bk] = <<>> /\ free_list[bk] = Null
  BY DEF Init, Blocks
<1>2. OneCall
  BY DEF Init, OneCall
<1>3. ListShape
  BY <1>1 DEF Init, ListShape
<1>4. OnePlace /\ InRow
  BY <1>1 DEF OnePlace, InRow
<1> QED BY <1>2, <1>3, <1>4 DEF SoloInv

\* Between two steps of a call that met no other the free lists are stacks of
\* the blocks freed and every block is in one place.
THEOREM HeapIsTidy == ASSUME SaneHeap PROVE Spec => [](~mixed => SoloInv)
<1>1. Init => (~mixed => SoloInv)
  BY SoloInit
<1>2. HeapInv /\ (~mixed => SoloInv) /\ [Next]_vars => (~mixed => SoloInv)'
  BY SoloStep
<1> QED BY <1>1, <1>2, HeapInvariant, PTL DEF Spec

-----------------------------------------------------------------------------
(* What it says of the blocks.                                             *)

\* Counting a set that may have one member, and it has.
LEMMA CountOne ==
    ASSUME NEW S, NEW x \in S, \A y \in S : y = x
    PROVE  Cardinality(S) = 1
<1>1. S = {x}
  OBVIOUS
<1> QED BY <1>1, FS_Singleton

LEMMA CountNone ==
    ASSUME NEW S, \A y \in S : FALSE
    PROVE  Cardinality(S) = 0
<1>1. S = {}
  OBVIOUS
<1> QED BY <1>1, FS_EmptySet

\* The counts of Holders add up to one.
LEMMA OneHolder ==
    ASSUME HeapInv, SoloInv, NEW a \in Blocks
    PROVE  Holders(a) = 1
<1> DEFINE A == {t \in Tasks : a \in owned[t]}
           B == {t \in Tasks : pc[t] \in {"finish", "link"} /\ h[t] = a}
           C == {p \in UNION {{bk} \X DOMAIN stack[bk] : bk \in Buckets} : stack[p[1]][p[2]] = a}
           D == IF a \in lost THEN 1 ELSE 0
<1>1. OnePlace
  BY DEF SoloInv
<1>2. \A t \in Tasks : t \in B <=> Holding(t, a)
  BY DEF Holding
<1>3. \A p \in C : \E bk \in Buckets : \E i \in 1..Len(stack[bk]) : p = <<bk, i>> /\ stack[bk][i] = a
  <2> SUFFICES ASSUME NEW p \in C
               PROVE  \E bk \in Buckets : \E i \in 1..Len(stack[bk]) : p = <<bk, i>> /\ stack[bk][i] = a
    OBVIOUS
  <2>1. PICK bk \in Buckets : p \in {bk} \X DOMAIN stack[bk]
    OBVIOUS
  <2>2. stack[bk] \in Seq(Blocks) /\ DOMAIN stack[bk] = 1..Len(stack[bk])
    BY ListFacts
  <2>3. PICK i \in 1..Len(stack[bk]) : p = <<bk, i>>
    BY <2>1, <2>2
  <2> QED BY <2>3
<1>4. \A bk \in Buckets : \A i \in 1..Len(stack[bk]) : stack[bk][i] = a => <<bk, i>> \in C
  <2> SUFFICES ASSUME NEW bk \in Buckets, NEW i \in 1..Len(stack[bk]), stack[bk][i] = a
               PROVE  <<bk, i>> \in C
    OBVIOUS
  <2>1. DOMAIN stack[bk] = 1..Len(stack[bk])
    BY ListFacts
  <2>2. <<bk, i>> \in {bk} \X DOMAIN stack[bk]
    BY <2>1
  <2> QED BY <2>2
<1>5. ~OnList(a) => Cardinality(C) = 0
  <2>1. ~OnList(a) => \A y \in C : FALSE
    BY <1>3 DEF OnList
  <2> HIDE DEF C
  <2> QED BY <2>1, CountNone
<1>6. OnList(a) => Cardinality(C) = 1
  <2> SUFFICES ASSUME OnList(a) PROVE Cardinality(C) = 1
    OBVIOUS
  <2>1. PICK bk \in Buckets : \E i \in 1..Len(stack[bk]) : stack[bk][i] = a
    BY DEF OnList
  <2>2. PICK i \in 1..Len(stack[bk]) : stack[bk][i] = a
    BY <2>1
  <2>3. <<bk, i>> \in C
    BY <2>2, <1>4
  <2>4. ASSUME NEW y \in C PROVE y = <<bk, i>>
    <3>1. PICK c \in Buckets : \E j \in 1..Len(stack[c]) : y = <<c, j>> /\ stack[c][j] = a
      BY <1>3
    <3>2. PICK j \in 1..Len(stack[c]) : y = <<c, j>> /\ stack[c][j] = a
      BY <3>1
    <3>3. hdr[a].size = bk
      BY <2>2, ListFacts
    <3>4. hdr[a].size = c
      BY <3>2, ListFacts
    <3>5. j = i
      BY <2>2, <3>2, <3>3, <3>4, ListFacts
    <3> QED BY <3>2, <3>3, <3>4, <3>5
  <2> HIDE DEF C
  <2> QED BY <2>3, <2>4, CountOne
<1>7. (\A t \in Tasks : a \notin owned[t]) => Cardinality(A) = 0
  BY CountNone
<1>8. (\A t \in Tasks : ~Holding(t, a)) => Cardinality(B) = 0
  <2>1. (\A t \in Tasks : ~Holding(t, a)) => \A y \in B : FALSE
    BY <1>2
  <2> HIDE DEF B
  <2> QED BY <2>1, CountNone
<1>9. ASSUME NEW t \in Tasks, a \in owned[t] PROVE Cardinality(A) = 1
  <2>1. t \in A /\ \A y \in A : y = t
    BY <1>1, <1>9 DEF OnePlace
  <2> HIDE DEF A
  <2> QED BY <2>1, CountOne
<1>10. ASSUME NEW t \in Tasks, Holding(t, a) PROVE Cardinality(B) = 1
  <2>1. t \in B /\ \A y \in B : Holding(y, a)
    BY <1>2, <1>10
  <2>2. \A y \in Tasks : Holding(y, a) => pc[y] # "idle"
    BY DEF Holding
  <2>3. \A y \in B : y = t
    BY <2>1, <2>2, <1>10 DEF SoloInv, OneCall
  <2> HIDE DEF B
  <2> QED BY <2>1, <2>3, CountOne
<1>11. Holders(a) = Cardinality(A) + Cardinality(B) + Cardinality(C) + D
  BY DEF Holders
<1>12. D = IF a \in lost THEN 1 ELSE 0
  OBVIOUS
<1> HIDE DEF A, B, C, D
<1>13. CASE \E t \in Tasks : a \in owned[t]
  <2>1. PICK t \in Tasks : a \in owned[t]
    BY <1>13
  <2>2. a \notin lost /\ ~OnList(a) /\ \A u \in Tasks : ~Holding(u, a)
    BY <2>1, <1>1 DEF OnePlace
  <2>3. Cardinality(A) = 1 /\ Cardinality(B) = 0 /\ Cardinality(C) = 0 /\ D = 0
    BY <2>1, <2>2, <1>5, <1>8, <1>9, <1>12
  <2> QED BY <2>3, <1>11
<1>14. CASE \E t \in Tasks : Holding(t, a)
  <2>1. PICK t \in Tasks : Holding(t, a)
    BY <1>14
  <2>2. a \notin lost /\ ~OnList(a) /\ \A u \in Tasks : a \notin owned[u]
    BY <2>1, <1>1 DEF OnePlace
  <2>3. Cardinality(A) = 0 /\ Cardinality(B) = 1 /\ Cardinality(C) = 0 /\ D = 0
    BY <2>1, <2>2, <1>5, <1>7, <1>10, <1>12
  <2> QED BY <2>3, <1>11
<1>15. CASE \A t \in Tasks : a \notin owned[t] /\ ~Holding(t, a)
  <2>1. Cardinality(A) = 0 /\ Cardinality(B) = 0
    BY <1>15, <1>7, <1>8
  <2>2. (a \in lost <=> ~OnList(a))
    BY <1>1, <1>15 DEF OnePlace
  <2>3. Cardinality(C) + D = 1 /\ Cardinality(C) \in Nat /\ D \in Nat
    BY <2>2, <1>5, <1>6, <1>12
  <2> QED BY <2>1, <2>3, <1>11
<1> QED BY <1>13, <1>14, <1>15

\* While no two calls are mixed the free lists are exact, no memory is handed
\* out twice and none is lost.
LEMMA TidyIsExact ==
    ASSUME HeapInv, ~mixed => SoloInv
    PROVE  FreeListShape /\ NothingSharedOrLost
<1>1. CASE mixed
  BY <1>1 DEF FreeListShape, NothingSharedOrLost
<1>2. CASE ~mixed
  <2>1. SoloInv
    BY <1>2
  <2>2. ASSUME NEW k \in Buckets
        PROVE  LET s == stack[k]
                   after(i) == IF i = Len(s) THEN Null ELSE s[i + 1]
               IN  /\ free_list[k] = after(0)
                   /\ \A i \in 1..Len(s) : hdr[s[i]] = [size |-> k, next |-> after(i)]
    <3>1. 0 + 1 = 1
      OBVIOUS
    <3>2. free_list[k] = IF 0 = Len(stack[k]) THEN Null ELSE stack[k][0 + 1]
      BY <2>1, <3>1, ListFacts
    <3> QED BY <2>1, <3>2, ListFacts
  <2>3. FreeListShape
    BY <2>2 DEF FreeListShape
  <2>4. \A a \in Blocks : Holders(a) = 1
    BY <2>1, OneHolder
  <2>5. \A a, bk \in Blocks : a < bk => End(a) <= bk
    BY <2>1 DEF SoloInv, InRow
  <2> QED BY <2>3, <2>4, <2>5 DEF NothingSharedOrLost
<1> QED BY <1>1, <1>2

-----------------------------------------------------------------------------
(* Interrupts.                                                             *)

IrqFrame == [pc : {"scan", "clear", "handle", "handling", "leave"}, j : Nat]

\* The innermost irq_handler is masked unless it is at a handler, and the ones
\* it interrupted are inside of theirs.
IrqInv == /\ frames \in Seq(IrqFrame) /\ masked \in BOOLEAN
          /\ I!Depth > 0 /\ I!Top.pc \notin {"handle", "handling"} => masked
          /\ I!OnlyInHandlers /\ I!NoneLost

\* Every step of irq_handler, of a device and of the task keeps IrqInv: a
\* line's handler is owed only while the line is up or the handler about to begin.
LEMMA IrqStep ==
    ASSUME IrqInv, I!Next
    PROVE  IrqInv'
<1> USE DEF I!Depth, I!Top
<1>0. /\ frames \in Seq(IrqFrame) /\ masked \in BOOLEAN /\ Len(frames) \in Nat
      /\ \A d \in 1..Len(frames) : frames[d] \in IrqFrame
  BY DEF IrqInv
<1>1. ASSUME NEW j \in I!Lines, I!Register(j) \/ I!Unregister(j) \/ I!Raise(j) PROVE IrqInv'
  BY <1>1 DEF I!Register, I!Unregister, I!Raise, IrqInv, I!NoneLost, I!OnlyInHandlers
<1>2. CASE I!Disable
  BY <1>2 DEF I!Disable, IrqInv, I!NoneLost, I!OnlyInHandlers
<1>3. CASE I!Enter
  BY <1>0, <1>3 DEF I!Enter, IrqInv, I!NoneLost, I!OnlyInHandlers, IrqFrame
\* The innermost irq_handler goes on: the others are where they were.
<1>4. ASSUME NEW f \in IrqFrame, Len(frames) > 0, I!SetTop(f)
      PROVE  /\ frames' \in Seq(IrqFrame) /\ Len(frames') = Len(frames)
             /\ frames'[Len(frames)] = f
             /\ \A d \in 1..(Len(frames) - 1) : frames'[d] = frames[d]
             /\ I!OnlyInHandlers'
  <2>1. frames' = [frames EXCEPT ![Len(frames)] = f]
    BY <1>4 DEF I!SetTop
  <2>2. /\ frames' \in Seq(IrqFrame) /\ Len(frames') = Len(frames)
        /\ frames'[Len(frames)] = f
        /\ \A d \in 1..(Len(frames) - 1) : frames'[d] = frames[d]
    BY <1>0, <1>4, <2>1
  <2> QED  BY <2>2 DEF IrqInv, I!OnlyInHandlers
<1>5. ASSUME Len(frames) > 0
      PROVE  /\ frames[Len(frames)] \in IrqFrame
             /\ \A p \in {"scan", "clear", "handle", "handling", "leave"} :
                  [frames[Len(frames)] EXCEPT !.pc = p] \in IrqFrame
             /\ [frames[Len(frames)] EXCEPT !.j = @ + 1] \in IrqFrame
  BY <1>0, <1>5 DEF IrqFrame
<1>6. CASE I!Scan
  <2> DEFINE top == frames[Len(frames)]
  <2>1. PICK f \in IrqFrame : I!SetTop(f) /\ f.pc \in {"leave", "clear", "scan"}
    <3> DEFINE g == IF top.j \notin I!Lines THEN [top EXCEPT !.pc = "leave"]
                    ELSE IF top.j \in line \cap handlers THEN [top EXCEPT !.pc = "clear"]
                    ELSE [top EXCEPT !.j = @ + 1]
    <3>1. I!SetTop(g)
      BY <1>6 DEF I!Scan
    <3>2. g \in IrqFrame
      BY <1>5, <1>6 DEF I!Scan
    <3>3. g.pc \in {"leave", "clear", "scan"}
      BY <1>5, <1>6 DEF I!Scan, IrqFrame
    <3> QED  BY <3>1, <3>2, <3>3
  <2>2. Len(frames) > 0 /\ top.pc = "scan" /\ UNCHANGED <<line, masked, owed>> /\ masked
    BY <1>0, <1>6 DEF I!Scan, IrqInv
  <2>3. /\ frames' \in Seq(IrqFrame) /\ Len(frames') = Len(frames)
        /\ frames'[Len(frames)] = f
        /\ \A d \in 1..(Len(frames) - 1) : frames'[d] = frames[d]
        /\ I!OnlyInHandlers'
    BY <1>4, <2>1, <2>2
  <2>4. I!NoneLost'
    <3> SUFFICES ASSUME NEW j \in owed, j \notin line
                 PROVE  \E d \in 1..Len(frames) : frames'[d] = [pc |-> "handle", j |-> j]
      BY <2>2, <2>3 DEF I!NoneLost
    <3>1. PICK d \in 1..Len(frames) : frames[d] = [pc |-> "handle", j |-> j]
      BY DEF IrqInv, I!NoneLost
    <3> QED  BY <1>0, <2>2, <2>3, <3>1
  <2> QED  BY <1>0, <2>2, <2>3, <2>4 DEF IrqInv
<1>7. CASE I!Clear
  <2> DEFINE top == frames[Len(frames)]
             f == [top EXCEPT !.pc = "handle"]
  <2>1. /\ Len(frames) > 0 /\ top.pc = "clear" /\ line' = line \ {top.j} /\ masked' = FALSE
        /\ owed' = owed /\ I!SetTop(f)
    BY <1>7 DEF I!Clear
  <2>2. f \in IrqFrame /\ f.pc = "handle" /\ f = [pc |-> "handle", j |-> top.j]
    BY <1>5, <2>1 DEF IrqFrame
  <2>3. /\ frames' \in Seq(IrqFrame) /\ Len(frames') = Len(frames)
        /\ frames'[Len(frames)] = f
        /\ \A d \in 1..(Len(frames) - 1) : frames'[d] = frames[d]
        /\ I!OnlyInHandlers'
    BY <1>4, <2>1, <2>2
  <2> HIDE DEF f
  <2>4. I!NoneLost'
    <3> SUFFICES ASSUME NEW j \in owed, j \notin line'
                 PROVE  \E d \in 1..Len(frames) : frames'[d] = [pc |-> "handle", j |-> j]
      BY <2>1, <2>3 DEF I!NoneLost
    <3>1. CASE j = top.j
      BY <1>0, <2>1, <2>2, <2>3, <3>1
    <3>2. CASE j # top.j
      <4>1. PICK d \in 1..Len(frames) : frames[d] = [pc |-> "handle", j |-> j]
        BY <2>1, <3>2 DEF IrqInv, I!NoneLost
      <4> QED  BY <1>0, <2>1, <2>3, <4>1
    <3> QED  BY <3>1, <3>2
  <2> QED  BY <1>0, <2>1, <2>2, <2>3, <2>4 DEF IrqInv
<1>8. CASE I!Handle
  <2> DEFINE top == frames[Len(frames)]
             f == [top EXCEPT !.pc = "handling"]
  <2>1. /\ Len(frames) > 0 /\ top.pc = "handle" /\ line' = line /\ masked' = masked
        /\ owed' = owed \ {top.j} /\ I!SetTop(f)
    BY <1>8 DEF I!Handle
  <2>2. f \in IrqFrame /\ f.pc = "handling"
    BY <1>5, <2>1 DEF IrqFrame
  <2>3. /\ frames' \in Seq(IrqFrame) /\ Len(frames') = Len(frames)
        /\ frames'[Len(frames)] = f
        /\ \A d \in 1..(Len(frames) - 1) : frames'[d] = frames[d]
        /\ I!OnlyInHandlers'
    BY <1>4, <2>1, <2>2
  <2> HIDE DEF f
  <2>4. I!NoneLost'
    <3> SUFFICES ASSUME NEW j \in owed, j # top.j, j \notin line
                 PROVE  \E d \in 1..Len(frames) : frames'[d] = [pc |-> "handle", j |-> j]
      BY <2>1, <2>3 DEF I!NoneLost
    <3>1. PICK d \in 1..Len(frames) : frames[d] = [pc |-> "handle", j |-> j]
      BY DEF IrqInv, I!NoneLost
    <3>2. d # Len(frames)
      BY <3>1
    <3> QED  BY <1>0, <2>3, <3>1, <3>2
  <2> QED  BY <1>0, <2>1, <2>2, <2>3, <2>4 DEF IrqInv
<1>9. CASE I!Handled
  <2> DEFINE top == frames[Len(frames)]
             f == [top EXCEPT !.pc = "leave"]
  <2>1. /\ Len(frames) > 0 /\ top.pc = "handling" /\ line' = line /\ masked' = TRUE
        /\ owed' = owed /\ I!SetTop(f)
    BY <1>9 DEF I!Handled
  <2>2. f \in IrqFrame
    BY <1>5, <2>1
  <2>3. /\ frames' \in Seq(IrqFrame) /\ Len(frames') = Len(frames)
        /\ frames'[Len(frames)] = f
        /\ \A d \in 1..(Len(frames) - 1) : frames'[d] = frames[d]
        /\ I!OnlyInHandlers'
    BY <1>4, <2>1, <2>2
  <2> HIDE DEF f
  <2>4. I!NoneLost'
    <3> SUFFICES ASSUME NEW j \in owed, j \notin line
                 PROVE  \E d \in 1..Len(frames) : frames'[d] = [pc |-> "handle", j |-> j]
      BY <2>1, <2>3 DEF I!NoneLost
    <3>1. PICK d \in 1..Len(frames) : frames[d] = [pc |-> "handle", j |-> j]
      BY DEF IrqInv, I!NoneLost
    <3> QED  BY <1>0, <2>1, <2>3, <3>1
  <2> QED  BY <1>0, <2>1, <2>3, <2>4 DEF IrqInv
\* The one that was interrupted is inside a handler: it may go on unmasked.
<1>10. CASE I!Leave
  <2>1. /\ Len(frames) > 0 /\ frames[Len(frames)].pc = "leave" /\ line' = line /\ masked' = FALSE
        /\ owed' = owed /\ frames' = SubSeq(frames, 1, Len(frames) - 1)
    BY <1>10 DEF I!Leave
  <2>2. /\ frames' \in Seq(IrqFrame) /\ Len(frames') = Len(frames) - 1
        /\ \A d \in 1..(Len(frames) - 1) : frames'[d] = frames[d]
    <3> DEFINE k == Len(frames) - 1
    <3>1. k \in Nat /\ k <= Len(frames)
      BY <1>0, <2>1
    <3>2. frames' = [d \in 1..k |-> frames[d]]
      BY <1>0, <2>1, <3>1
    <3> HIDE DEF k
    <3>3. frames' \in [1..k -> IrqFrame] /\ Len(frames') = k
      BY <1>0, <3>1, <3>2
    <3> QED  BY <3>1, <3>2, <3>3 DEF k
  <2>3. I!OnlyInHandlers'
    BY <1>0, <2>2 DEF IrqInv, I!OnlyInHandlers
  <2>4. I!NoneLost'
    <3> SUFFICES ASSUME NEW j \in owed, j \notin line
                 PROVE  \E d \in 1..(Len(frames) - 1) : frames'[d] = [pc |-> "handle", j |-> j]
      BY <2>1, <2>2 DEF I!NoneLost
    <3>1. PICK d \in 1..Len(frames) : frames[d] = [pc |-> "handle", j |-> j]
      BY DEF IrqInv, I!NoneLost
    <3> QED  BY <1>0, <2>1, <2>2, <3>1
  <2>5. Len(frames') > 0 => frames'[Len(frames')].pc \in {"handle", "handling"}
    BY <1>0, <2>2 DEF IrqInv, I!OnlyInHandlers
  <2> QED  BY <2>1, <2>2, <2>3, <2>4, <2>5 DEF IrqInv
<1> QED  BY <1>1, <1>2, <1>3, <1>6, <1>7, <1>8, <1>9, <1>10 DEF I!Next

\* Only the interrupt unit's own steps move its variables.
LEMMA IrqUnit ==
    ASSUME unit = "irq" => IrqInv, [PlatformNext]_all
    PROVE  (unit = "irq" => IrqInv)'
<1>1. CASE unit = "irq" /\ I!Next /\ unit' = unit
  BY <1>1, IrqStep
<1>2. CASE unit' = unit /\ UNCHANGED irqVars
  BY <1>2 DEF irqVars, IrqInv, I!Depth, I!Top, I!OnlyInHandlers, I!NoneLost
<1>3. \/ unit = "irq" /\ I!Next /\ unit' = unit
      \/ unit' = unit /\ UNCHANGED irqVars
  BY DEF PlatformNext, all
<1> QED  BY <1>1, <1>2, <1>3

\* No interrupt is lost and only handlers are interrupted, whatever the number
\* of lines and however deep irq_handler is entered while one of its handlers
\* runs (src/rpi-interrupts.c enables interrupts around every handler).
THEOREM InterruptsAreHandled == PlatformSpec => []IrqsHandled
<1>1. PlatformInit => (unit = "irq" => IrqInv)
  <2> SUFFICES ASSUME I!Init PROVE IrqInv
    BY DEF PlatformInit
  <2>1. frames = <<>> /\ masked = FALSE /\ owed = {}
    BY DEF I!Init
  <2>2. frames \in Seq(IrqFrame) /\ Len(frames) = 0
    BY <2>1
  <2>3. I!OnlyInHandlers /\ I!NoneLost
    BY <2>1, <2>2 DEF I!Depth, I!OnlyInHandlers, I!NoneLost
  <2>4. ~(I!Depth > 0)
    BY <2>2 DEF I!Depth
  <2>5. masked \in BOOLEAN
    BY <2>1, Zenon
  <2> QED  BY <2>2, <2>3, <2>4, <2>5 DEF IrqInv
<1>2. (unit = "irq" => IrqInv) /\ [PlatformNext]_all => (unit = "irq" => IrqInv)'
  BY IrqUnit
<1>3. (unit = "irq" => IrqInv) => IrqsHandled
  BY DEF IrqInv, IrqsHandled
<1> QED  BY <1>1, <1>2, <1>3, PTL DEF PlatformSpec

-----------------------------------------------------------------------------
(* SysTimer.                                                               *)

\* Quotient and remainder.
LEMMA DivMod ==
    ASSUME NEW W \in Nat \ {0}, NEW x \in Nat
    PROVE  x % W \in 0..(W - 1) /\ x \div W \in Nat /\ x = (x \div W) * W + (x % W)
BY SMT

\* Quotient and remainder are unique.
LEMMA DivUnique ==
    ASSUME NEW W \in Nat \ {0}, NEW x \in Nat, NEW q \in Nat, NEW r \in 0..(W - 1), x = q * W + r
    PROVE  x \div W = q /\ x % W = r
BY SMT

\* A larger number has no smaller quotient.
LEMMA DivMono ==
    ASSUME NEW W \in Nat \ {0}, NEW x \in Nat, NEW y \in Nat, x <= y
    PROVE  x \div W <= y \div W
BY SMT

\* A larger number has no smaller multiple.
LEMMA MulMono ==
    ASSUME NEW W \in Nat, NEW x \in Nat, NEW y \in Nat, x <= y
    PROVE  x * W <= y * W
BY SMT

\* The successor in both parts of a number: the low part counts on, or starts
\* again and carries.
LEMMA Carry ==
    ASSUME NEW W \in Nat \ {0}, NEW x \in Nat
    PROVE  IF x % W = W - 1 THEN (x + 1) % W = 0 /\ (x + 1) \div W = x \div W + 1
           ELSE (x + 1) % W = (x % W) + 1 /\ (x + 1) \div W = x \div W
<1> DEFINE q == x \div W
           r == x % W
<1>1. r \in 0..(W - 1) /\ q \in Nat /\ x = q * W + r
  BY DivMod
<1>2. (q + 1) * W = q * W + W
  BY <1>1
<1> HIDE DEF q, r
<1>3. CASE r = W - 1
  <2>1. x + 1 = (q + 1) * W + 0 /\ q + 1 \in Nat /\ 0 \in 0..(W - 1)
    BY <1>1, <1>2, <1>3
  <2>2. (x + 1) \div W = q + 1 /\ (x + 1) % W = 0
    BY <2>1, DivUnique
  <2> QED  BY <1>3, <2>2 DEF q, r
<1>4. CASE r # W - 1
  <2>1. x + 1 = q * W + (r + 1) /\ r + 1 \in 0..(W - 1)
    BY <1>1, <1>4
  <2>2. (x + 1) \div W = q /\ (x + 1) % W = r + 1
    BY <1>1, <2>1, DivUnique
  <2> QED  BY <1>4, <2>2 DEF q, r
<1> QED  BY <1>3, <1>4

\* A difference of two words, modulo the word.
LEMMA WordDifference ==
    ASSUME NEW W \in Nat \ {0}, NEW x \in 0..(W - 1), NEW y \in 0..(W - 1)
    PROVE  (x - y) % W = IF x >= y THEN x - y ELSE x - y + W
BY SMT

\* timer_getTickCount64: the low word was read when the counter was c, at which
\* time its high word was no less than the one read before.
ReadInv ==
    /\ at \in {"idle", "hi", "lo", "check", "done"} /\ call \in {"none", "read", "delay", "wait"}
    /\ \A v \in {count, hi, lo, from, until, start, res} : v \in Nat
    /\ at # "idle" => call # "none" /\ start <= count
    /\ at # "idle" /\ call = "wait" => start <= from
    /\ at \in {"lo", "check"} => hi <= count \div Word
    /\ at = "check" => \E c \in start..count : lo = c % Word /\ hi <= c \div Word
    /\ at = "done" => /\ call # "delay" /\ call = "read" => start <= res /\ res <= count
                      /\ call = "wait" => until <= count

\* Every step keeps what timer_getTickCount64 and MicroDelay rest on.
LEMMA ReadStep ==
    ASSUME ReadInv, T!Next
    PROVE  ReadInv'
<1>0. Word \in Nat \ {0} /\ Delays \subseteq Nat
  BY PlatformConstants DEF T!TimerConstants
<1> USE DEF ReadInv
<1>1. CASE T!Count
  <2>1. count' = count + 1 /\ UNCHANGED <<at, hi, lo, call, from, until, start, res>>
    BY <1>1 DEF T!Count, T!readVars
  <2>2. count \div Word <= count' \div Word
    BY <1>0, <2>1, DivMono
  <2>3. count \div Word \in Nat /\ count' \div Word \in Nat
    <3>1. count \in Nat /\ count' \in Nat
      BY <2>1
    <3> QED  BY <1>0, <3>1, DivMod
  <2>4. (at \in {"lo", "check"} => hi <= count \div Word)'
    BY <2>1, <2>2, <2>3
  <2>5. (at = "check" => \E c \in start..count : lo = c % Word /\ hi <= c \div Word)'
    BY <2>1
  <2> QED  BY <2>1, <2>4, <2>5
<1>2. CASE T!Read64
  BY <1>2 DEF T!Read64
<1>3. ASSUME NEW d \in Delays, T!MicroDelay(d) PROVE ReadInv'
  BY <1>0, <1>3 DEF T!MicroDelay
<1>4. CASE T!ReadHigh
  <2>1. count \div Word \in Nat
    BY <1>0, DivMod
  <2> QED  BY <1>4, <2>1 DEF T!ReadHigh, T!High
<1>5. CASE T!ReadLow
  <2>1. count % Word \in Nat
    BY <1>0, DivMod
  <2>2. start <= count /\ count \in start..count
    BY <1>5 DEF T!ReadLow
  <2> QED  BY <1>5, <2>1, <2>2 DEF T!ReadLow, T!Low
<1>6. CASE T!Check
  <2>1. PICK c \in start..count : lo = c % Word /\ hi <= c \div Word
    BY <1>6 DEF T!Check
  <2>2. /\ at = "check" /\ UNCHANGED <<count, hi, lo, start>>
    BY <1>6 DEF T!Check
  <2>3. CASE count \div Word = hi
    <3>1. c \in Nat /\ c <= count
      BY <2>1
    <3>2. c \div Word <= count \div Word
      BY <1>0, <3>1, DivMono
    <3>3. c \div Word \in Nat /\ c = (c \div Word) * Word + (c % Word)
      BY <1>0, <3>1, DivMod
    <3>4. c \div Word = hi
      <4>1. hi \in Nat /\ hi <= c \div Word /\ c \div Word <= hi
        BY <2>1, <2>3, <3>2
      <4> QED  BY <3>3, <4>1
    <3>5. hi * Word + lo = c
      BY <2>1, <3>3, <3>4
    <3>6. T!Back(c)
      BY <1>6, <2>3, <3>5 DEF T!Check, T!High
    <3>7. c \in Nat /\ start <= c /\ c <= count
      BY <2>1
    <3>8. CASE call = "read"
      BY <2>2, <3>6, <3>7, <3>8 DEF T!Back
    <3>9. CASE call = "delay"
      <4>1. res' = c /\ at' = "hi" /\ call' = "wait" /\ from' = c /\ until' = c + until
        BY <3>6, <3>9 DEF T!Back
      <4> QED  BY <2>2, <3>7, <4>1
    <3>10. CASE call = "wait"
      <4>1. /\ res' = c /\ at' = (IF c < until THEN "hi" ELSE "done")
            /\ UNCHANGED <<call, from, until>>
        BY <3>6, <3>10 DEF T!Back
      <4> QED  BY <2>2, <3>7, <3>10, <4>1
    <3> QED  BY <2>2, <3>8, <3>9, <3>10
  <2>4. CASE count \div Word # hi
    <3>1. at' = "hi" /\ UNCHANGED <<call, from, until, res>>
      BY <1>6, <2>4 DEF T!Check, T!High
    <3> QED  BY <2>2, <3>1
  <2> QED  BY <2>3, <2>4
<1>7. CASE T!Return
  BY <1>7 DEF T!Return
<1>8. CASE UNCHANGED <<count, T!readVars>>
  BY <1>8 DEF T!readVars
<1> QED
  BY <1>1, <1>2, <1>3, <1>4, <1>5, <1>6, <1>7, <1>8
  DEF T!Next, T!Reading, T!Arm, T!Repeat, T!Clearer, T!GetLocalTime, T!GetTicks, T!TimeReturn

\* get_local_time: nTime is the second of the time at which it was read.
ClockInv ==
    /\ ticks \in Nat /\ secs = ticks \div PerSecond
    /\ tpc \in {"idle", "ticks", "done"} /\ time \in [secs : Nat, start : Nat, now : Nat]
    /\ tpc = "ticks" => time.start <= ticks /\ time.secs = time.start \div PerSecond
    /\ tpc = "done" => time.now <= ticks /\ time.start - time.now < PerSecond

\* The time get_local_time is to return is the number of ticks.
LEMMA NowIsTicks ==
    ASSUME ClockInv
    PROVE  T!Now = ticks
<1>1. PerSecond \in Nat \ {0}
  BY PlatformConstants DEF T!TimerConstants
<1> QED  BY <1>1, DivMod DEF T!Now, ClockInv

\* Every step keeps m_nTime the seconds of m_nTicks, and get_local_time close.
LEMMA ClockStep ==
    ASSUME ClockInv, T!Next
    PROVE  ClockInv'
<1>0. PerSecond \in Nat \ {0}
  BY PlatformConstants DEF T!TimerConstants
\* timer_set keeps m_nTime the seconds of m_nTicks.
<1>1. ASSUME T!TimerSet, UNCHANGED <<tpc, time>> PROVE ClockInv'
  <2>1. ticks' = ticks + 1 /\ secs' = (IF (ticks + 1) % PerSecond = 0 THEN secs + 1 ELSE secs)
    BY <1>1 DEF T!TimerSet
  <2>2. ticks % PerSecond \in 0..(PerSecond - 1)
    BY <1>0, DivMod DEF ClockInv
  <2>3. IF ticks % PerSecond = PerSecond - 1
          THEN (ticks + 1) % PerSecond = 0 /\ (ticks + 1) \div PerSecond = ticks \div PerSecond + 1
          ELSE /\ (ticks + 1) % PerSecond = (ticks % PerSecond) + 1
               /\ (ticks + 1) \div PerSecond = ticks \div PerSecond
    BY <1>0, Carry DEF ClockInv
  <2>4. secs' = ticks' \div PerSecond
    BY <1>0, <2>1, <2>2, <2>3 DEF ClockInv
  <2> QED  BY <1>0, <1>1, <2>1, <2>4 DEF ClockInv
<1>2. CASE T!GetLocalTime
  <2>1. time' = [secs |-> secs, start |-> ticks, now |-> 0] /\ tpc' = "ticks" /\ UNCHANGED <<ticks, secs>>
    BY <1>2, NowIsTicks DEF T!GetLocalTime, T!tickVars
  <2>2. ticks \in Nat /\ secs \in Nat /\ secs = ticks \div PerSecond
    BY <1>0, DivMod DEF ClockInv
  <2> QED  BY <2>1, <2>2 DEF ClockInv
<1>3. CASE T!GetTicks
  <2> DEFINE t == time.secs * PerSecond + (ticks % PerSecond)
  <2>1. tpc' = "done" /\ time' = [time EXCEPT !.now = t] /\ UNCHANGED <<ticks, secs>>
    BY <1>3 DEF T!GetTicks, T!tickVars
  <2>2. /\ time.secs \in Nat /\ time.start \in Nat /\ ticks \in Nat
        /\ time.start <= ticks /\ time.secs = time.start \div PerSecond
    BY <1>3 DEF T!GetTicks, ClockInv
  <2>3. /\ time.start % PerSecond \in 0..(PerSecond - 1)
        /\ time.start = time.secs * PerSecond + (time.start % PerSecond)
    BY <1>0, <2>2, DivMod
  <2>4. /\ ticks % PerSecond \in 0..(PerSecond - 1) /\ ticks \div PerSecond \in Nat
        /\ ticks = (ticks \div PerSecond) * PerSecond + (ticks % PerSecond)
    BY <1>0, <2>2, DivMod
  <2>5. time.secs <= ticks \div PerSecond
    BY <1>0, <2>2, DivMono
  <2>6. /\ time.secs * PerSecond <= (ticks \div PerSecond) * PerSecond
        /\ time.secs * PerSecond \in Nat /\ (ticks \div PerSecond) * PerSecond \in Nat
    BY <1>0, <2>2, <2>4, <2>5, MulMono
  <2>7. t \in Nat /\ t <= ticks /\ time.start - t < PerSecond
    <3> DEFINE x == time.secs * PerSecond
               y == (ticks \div PerSecond) * PerSecond
               r == ticks % PerSecond
               s == time.start % PerSecond
    <3>1. /\ x \in Nat /\ y \in Nat /\ x <= y /\ r \in 0..(PerSecond - 1) /\ s \in 0..(PerSecond - 1)
          /\ ticks = y + r /\ time.start = x + s /\ t = x + r
      BY <2>3, <2>4, <2>6
    <3> HIDE DEF x, y, r, s, t
    <3> QED  BY <1>0, <3>1
  <2> HIDE DEF t
  <2>8. time' \in [secs : Nat, start : Nat, now : Nat] /\ time'.now = t /\ time'.start = time.start
    BY <2>1, <2>7 DEF ClockInv
  <2> QED  BY <2>1, <2>7, <2>8 DEF ClockInv
<1>4. CASE T!TimeReturn
  BY <1>4 DEF T!TimeReturn, T!tickVars, T!NoTime, ClockInv
<1>5. CASE UNCHANGED <<ticks, secs, tpc, time>>
  BY <1>5 DEF ClockInv
<1>6. CASE T!Count \/ T!Reading \/ T!Repeat
  <2>1. UNCHANGED <<ticks, secs, tpc, time>>
    BY <1>6 DEF T!Count, T!Reading, T!Read64, T!MicroDelay, T!ReadHigh, T!ReadLow, T!Check, T!Return,
           T!Repeat, T!tickVars, T!timeVars
  <2> QED  BY <1>5, <2>1
<1>7. CASE T!Arm \/ T!Clearer
  BY <1>1, <1>5, <1>7 DEF T!Arm, T!Clearer, T!timeVars
<1> QED  BY <1>2, <1>3, <1>4, <1>6, <1>7 DEF T!Next

\* The tick: from repeat_on_time_out's timer_set on the line is up or the timer
\* ahead of the counter, and the clearer sets it again once repeat is kept.
TickInv ==
    /\ matched \in BOOLEAN /\ count \in Nat
    /\ arm = "on" => repeat = Timeout
    /\ arm \in {"set", "on"} => /\ compare \in 0..(Word - 1)
                                /\ matched \/ (compare - T!Low) % Word \in 1..Timeout

\* Every step keeps the timer ahead of the counter or the line up.
LEMMA TickStep ==
    ASSUME TickInv, T!Next
    PROVE  TickInv'
<1>0. Word \in Nat \ {0} /\ Timeout \in 1..(Word - 1)
  BY PlatformConstants DEF T!TimerConstants
<1>a. T!Low \in 0..(Word - 1)
  BY <1>0, DivMod DEF TickInv, T!Low
<1>1. ASSUME compare' = (T!Low + Timeout) % Word, UNCHANGED count
      PROVE  compare' \in 0..(Word - 1) /\ (compare' - T!Low) % Word \in 1..Timeout
  <2> DEFINE x == T!Low
  <2>1. x \in 0..(Word - 1) /\ x + Timeout \in Nat
    BY <1>0, <1>a
  <2> HIDE DEF x
  <2>2. (x + Timeout) % Word = IF x + Timeout < Word THEN x + Timeout ELSE x + Timeout - Word
    BY <1>0, <2>1, SMT
  <2>3. compare' \in 0..(Word - 1)
    BY <1>0, <1>1, <2>1, <2>2 DEF x
  <2>4. (compare' - x) % Word = IF compare' >= x THEN compare' - x ELSE compare' - x + Word
    BY <1>0, <2>1, <2>3, WordDifference
  <2> QED  BY <1>0, <1>1, <2>1, <2>2, <2>3, <2>4 DEF x
<1>2. CASE T!Count
  <2>1. /\ count' = count + 1 /\ UNCHANGED <<arm, compare, repeat>>
        /\ matched' = (matched \/ compare = (count + 1) % Word)
    BY <1>2 DEF T!Count
  <2>2. matched' \in BOOLEAN
    BY <2>1, Zenon
  <2>3. ASSUME arm \in {"set", "on"}, ~matched'
        PROVE  (compare - T!Low') % Word \in 1..Timeout
    <3>1. ~matched /\ compare # (count + 1) % Word
      BY <2>1, <2>3, Zenon
    <3>2. compare \in 0..(Word - 1) /\ (compare - T!Low) % Word \in 1..Timeout
      BY <2>3, <3>1 DEF TickInv
    <3>3. T!Low' = (count + 1) % Word
      BY <2>1 DEF T!Low
    <3>4. T!Low' = IF T!Low = Word - 1 THEN 0 ELSE T!Low + 1
      BY <1>0, <3>3, Carry DEF TickInv, T!Low
    <3>5. T!Low' \in 0..(Word - 1)
      BY <1>0, <1>a, <3>4
    <3>6. (compare - T!Low) % Word = IF compare >= T!Low THEN compare - T!Low ELSE compare - T!Low + Word
      BY <1>0, <1>a, <3>2, WordDifference
    <3>7. (compare - T!Low') % Word = IF compare >= T!Low' THEN compare - T!Low' ELSE compare - T!Low' + Word
      BY <1>0, <3>2, <3>5, WordDifference
    <3>8. compare # T!Low'
      BY <3>1, <3>3
    <3> DEFINE x == T!Low
               y == T!Low'
               d == (compare - x) % Word
               e == (compare - y) % Word
    <3> HIDE DEF x, y, d, e
    <3>9. e \in 1..Timeout
      <4>1. /\ compare \in 0..(Word - 1) /\ x \in 0..(Word - 1) /\ y \in 0..(Word - 1) /\ compare # y
            /\ y = IF x = Word - 1 THEN 0 ELSE x + 1
            /\ d \in 1..Timeout /\ d = IF compare >= x THEN compare - x ELSE compare - x + Word
            /\ e = IF compare >= y THEN compare - y ELSE compare - y + Word
        BY <1>a, <3>2, <3>4, <3>5, <3>6, <3>7, <3>8 DEF x, y, d, e
      <4> QED  BY <1>0, <4>1
    <3> QED  BY <3>9 DEF e, y
  <2> QED  BY <2>1, <2>2, <2>3 DEF TickInv
<1>3. CASE T!Arm
  <2>1. compare' = (T!Low + Timeout) % Word /\ arm' = "set" /\ UNCHANGED <<count, matched>>
    BY <1>3 DEF T!Arm, T!TimerSet
  <2> QED  BY <1>1, <2>1 DEF TickInv, T!Low
<1>4. CASE T!Repeat
  <2>1. arm = "set" /\ arm' = "on" /\ repeat' = Timeout /\ UNCHANGED <<count, compare, matched>>
    BY <1>4 DEF T!Repeat
  <2> QED  BY <2>1 DEF TickInv, T!Low
<1>5. CASE T!Clearer
  <2>1. matched' = FALSE /\ UNCHANGED <<count, repeat>>
    BY <1>5 DEF T!Clearer
  <2>2. matched' \in BOOLEAN
    BY <2>1, Zenon
  <2>3. CASE repeat # 0
    <3>1. compare' = (T!Low + Timeout) % Word /\ arm' = arm
      BY <1>5, <2>3 DEF T!Clearer, T!TimerSet
    <3> QED  BY <1>1, <2>1, <2>2, <3>1 DEF TickInv, T!Low
  <2>4. CASE repeat = 0
    <3>1. arm' = "missed"
      BY <1>5, <2>4 DEF T!Clearer
    <3> QED  BY <2>1, <2>2, <3>1 DEF TickInv
  <2> QED  BY <2>3, <2>4
<1>6. CASE T!Reading \/ T!GetLocalTime \/ T!GetTicks \/ T!TimeReturn
  <2>1. UNCHANGED <<count, arm, compare, matched, repeat>>
    BY <1>6 DEF T!Reading, T!Read64, T!MicroDelay, T!ReadHigh, T!ReadLow, T!Check, T!Return,
           T!GetLocalTime, T!GetTicks, T!TimeReturn, T!tickVars
  <2> QED  BY <2>1 DEF TickInv, T!Low
<1> QED  BY <1>2, <1>3, <1>4, <1>5, <1>6 DEF T!Next

TimerInv == ReadInv /\ ClockInv /\ TickInv

\* Only the steps of the timer move its variables.
LEMMA TimerUnit ==
    ASSUME unit = "timer" => TimerInv, [PlatformNext]_all
    PROVE  (unit = "timer" => TimerInv)'
<1>1. CASE unit = "timer" /\ T!Next /\ unit' = unit
  BY <1>1, ReadStep, ClockStep, TickStep DEF TimerInv
<1>2. CASE unit' = unit /\ (unit = "timer" => UNCHANGED <<at, timerVars>>)
  BY <1>2 DEF timerVars, TimerInv, ReadInv, ClockInv, TickInv, T!Low
<1>3. \/ unit = "timer" /\ T!Next /\ unit' = unit
      \/ unit' = unit /\ (unit = "timer" => UNCHANGED <<at, timerVars>>)
  BY DEF PlatformNext, all
<1> QED  BY <1>1, <1>2, <1>3

\* tick_difference is the difference modulo the counter's word, at every value.
LEMMA Difference == T!DifferenceExact
<1>0. Word \in Nat \ {0}
  BY PlatformConstants DEF T!TimerConstants
<1> QED  BY <1>0, WordDifference DEF T!DifferenceExact, T!TickDifference

\* timer_getTickCount64 returns a value the counter had during the call, MicroDelay
\* does not return early, get_local_time is right to a second and the tick goes on,
\* for every word size, period, delay and interleaving (src/systimer.c).
THEOREM TimerIsExact == PlatformSpec => []TimerExact
<1>1. PlatformInit => (unit = "timer" => TimerInv)
  <2> SUFFICES ASSUME T!Init PROVE TimerInv
    BY DEF PlatformInit
  <2>1. ReadInv
    BY DEF T!Init, ReadInv
  <2>2. ClockInv
    <3>1. PerSecond \in Nat \ {0}
      BY PlatformConstants DEF T!TimerConstants
    <3>2. 0 \div PerSecond = 0
      BY <3>1, DivUnique
    <3> QED  BY <3>2 DEF T!Init, ClockInv, T!NoTime
  <2>3. TickInv
    BY DEF T!Init, TickInv
  <2> QED  BY <2>1, <2>2, <2>3 DEF TimerInv
<1>2. (unit = "timer" => TimerInv) /\ [PlatformNext]_all => (unit = "timer" => TimerInv)'
  BY TimerUnit
<1>3. (unit = "timer" => TimerInv) => TimerExact
  <2> SUFFICES ASSUME TimerInv
               PROVE  T!ReadsWithin /\ T!DifferenceExact /\ T!TimeClose /\ T!KeepsRepeating
    BY DEF TimerExact
  <2>1. T!ReadsWithin
    BY DEF T!ReadsWithin, TimerInv, ReadInv
  <2>2. T!TimeClose
    BY NowIsTicks DEF T!TimeClose, TimerInv, ClockInv
  <2>3. T!KeepsRepeating
    BY DEF T!KeepsRepeating, TimerInv, TickInv
  <2> QED  BY <2>1, <2>2, <2>3, Difference
<1> QED  BY <1>1, <1>2, <1>3, PTL DEF PlatformSpec

-----------------------------------------------------------------------------
(* OutQueue.                                                               *)

QueuePcs == {"idle", "want", "gtest"} \cup O!InPass \cup O!InGet

QueueTypes ==
    /\ passed \in 0..MaxFrames /\ first \in 0..passed /\ last \in 0..passed
    /\ next \in [O!Frames -> 0..passed] /\ at \in [O!Callers -> QueuePcs]
    /\ b \in [O!Callers -> 0..passed] /\ n \in [O!Callers -> 0..passed]
    /\ nelem \in Int /\ cnt \in [O!Callers -> Int] /\ out \in Seq(Nat)
    /\ at[Reader] \notin O!InPass /\ (at[Sender] \in O!InPass => passed > 0)
    /\ \A i \in 1..Len(out) : out[i] <= passed

\* qget runs under tlock.
QueueLock == \A t \in O!Callers : at[t] \in {"gtest"} \cup O!InGet => tlock = t

\* What keeps the order, whatever overlaps: a link leads to a later frame,
\* qpass finds the queue empty only when no qget is about to take from it, and
\* the frames that left are before the one in hand, and before the first.
OrderInv ==
    /\ \A f \in O!Frames : next[f] = 0 \/ next[f] > f
    /\ at[Sender] \in {"pfirst", "plink"} => last < passed
    /\ at[Sender] = "pfirst" => /\ first = 0 /\ \A i \in 1..Len(out) : out[i] < passed
                                /\ \A t \in O!Callers : b[t] < passed
    /\ \A t \in O!Callers :
         /\ at[t] = "gadvance" => first = b[t]
         /\ at[t] \in O!InGet => /\ b[t] # 0 /\ \A i \in 1..Len(out) : out[i] < b[t]
                                 /\ at[t] # "gadvance" => first = 0 \/ first > b[t]
    /\ first # 0 => \A i \in 1..Len(out) : out[i] < first
    /\ O!InOrder

\* The list of the frames l+1 to p.
Links(l, p) == \A f \in (l + 1)..p : next[f] = IF f = p THEN 0 ELSE f + 1
Holds(l, p) == /\ first = (IF l = p THEN 0 ELSE l + 1) /\ last = (IF l = p THEN 0 ELSE p)
               /\ nelem = p - l /\ Links(l, p)

\* The queue while nothing overlapped, at each step of qpass and qget.
ShapeInv ==
    LET l == Len(out)
        p == passed
    IN  /\ dropped = {} /\ stray = {} /\ l <= p
        /\ \A s, t \in O!Callers : ~(at[s] \in O!InPass /\ at[t] \in O!InGet)
        /\ O!Idle => Holds(l, p)
        /\ at[Sender] \in O!InPass => l < p /\ next[p] = 0
        /\ at[Sender] = "pfirst" => Holds(l, p - 1) /\ l = p - 1
        /\ at[Sender] = "plink" => Holds(l, p - 1) /\ l < p - 1
        /\ at[Sender] = "plast" => /\ first = l + 1 /\ nelem = p - 1 - l /\ Links(l, p)
        /\ at[Sender] \in {"pcount", "pstore"} =>
             first = l + 1 /\ last = p /\ nelem = p - 1 - l /\ Links(l, p)
        /\ at[Sender] = "pstore" => cnt[Sender] = nelem
        /\ \A t \in O!Callers :
             /\ at[t] \in O!InGet => l < p /\ b[t] = l + 1 /\ nelem = p - l /\ Links(l, p)
             /\ at[t] = "gadvance" => Holds(l, p)
             /\ at[t] \in {"glast", "gclear", "gcount", "gstore"} =>
                  first = IF l + 1 = p THEN 0 ELSE l + 2
             /\ at[t] = "glast" => n[t] = first /\ last = p
             /\ at[t] = "gclear" => l + 1 = p
             /\ at[t] \in {"gcount", "gstore"} => last = IF l + 1 = p THEN 0 ELSE p
             /\ at[t] = "gstore" => cnt[t] = nelem

QueueInv == QueueTypes /\ QueueLock /\ OrderInv /\ (overlap \in BOOLEAN /\ (~overlap => ShapeInv))

\* No access of qpass or qget leaves the frames passed so far.
LEMMA QueueTypesStep ==
    ASSUME QueueTypes, OrderInv, O!Next
    PROVE  QueueTypes'
<1> USE DEF O!At, O!Goto, O!GetNothing, O!queueVars, O!auxVars, O!NoBlock, O!Callers, O!Frames,
            O!InPass, O!InGet, QueueTypes, QueuePcs
<1>0. Sender # Reader /\ NoTask \notin {Sender, Reader} /\ MaxFrames \in Nat
  BY PlatformConstants DEF O!OutQueueConstants
<1>1. CASE O!Pass
  BY <1>0, <1>1, SMTT(30) DEF O!Pass
<1>2. CASE O!PassFirst
  BY <1>0, <1>2 DEF O!PassFirst
<1>3. CASE O!PassLink
  BY <1>0, <1>3 DEF O!PassLink
<1>4. CASE O!PassLast
  BY <1>0, <1>4 DEF O!PassLast
<1>5. CASE O!PassCount
  BY <1>0, <1>5 DEF O!PassCount
<1>6. CASE O!PassStore
  BY <1>0, <1>6 DEF O!PassStore
<1>7. CASE O!Want
  BY <1>0, <1>7 DEF O!Want
<1>8. ASSUME NEW t \in O!Callers, O!Acquire(t) PROVE QueueTypes'
  BY <1>0, <1>8 DEF O!Acquire
<1>9. ASSUME NEW t \in O!Callers, O!OutOfCredit(t) PROVE QueueTypes'
  BY <1>0, <1>9 DEF O!OutOfCredit
<1>10. ASSUME NEW t \in O!Callers, O!Get(t) PROVE QueueTypes'
  <2>1. CASE first = 0
    BY <1>0, <1>10, <2>1 DEF O!Get
  <2>2. CASE first # 0
    BY <1>0, <1>10, <2>2 DEF O!Get
  <2> QED  BY <2>1, <2>2
<1>11. ASSUME NEW t \in O!Callers, O!GetAdvance(t) PROVE QueueTypes'
  <2>1. b[t] \in O!Frames /\ next[b[t]] \in 0..passed
    BY <1>0, <1>11 DEF O!GetAdvance, OrderInv
  <2> QED  BY <1>0, <1>11, <2>1 DEF O!GetAdvance
<1>12. ASSUME NEW t \in O!Callers, O!GetLast(t) PROVE QueueTypes'
  <2>1. \/ at' = [at EXCEPT ![t] = "gcount"] /\ b' = b
        \/ at' = [at EXCEPT ![t] = "idle"] /\ b' = [b EXCEPT ![t] = 0]
        \/ at' = [at EXCEPT ![t] = "gclear"] /\ b' = b
    BY <1>12 DEF O!GetLast
  <2>2. UNCHANGED <<first, last, next, nelem, n, cnt, passed, out>>
    BY <1>12 DEF O!GetLast
  <2> QED  BY <1>0, <2>1, <2>2, SMTT(30)
<1>13. ASSUME NEW t \in O!Callers, O!GetClear(t) PROVE QueueTypes'
  BY <1>0, <1>13 DEF O!GetClear
<1>14. ASSUME NEW t \in O!Callers, O!GetCount(t) PROVE QueueTypes'
  BY <1>0, <1>14, SMTT(30) DEF O!GetCount
<1>15. ASSUME NEW t \in O!Callers, O!GetStore(t) PROVE QueueTypes'
  <2>1. b[t] \in 0..passed /\ cnt[t] - 1 \in Int
    OBVIOUS
  <2>2. /\ at' = [at EXCEPT ![t] = "gtest"] /\ out' = Append(out, b[t]) /\ nelem' = cnt[t] - 1
        /\ b' = [b EXCEPT ![t] = 0] /\ n' = [n EXCEPT ![t] = 0]
        /\ at[t] = "gstore" /\ UNCHANGED <<first, last, next, passed, cnt>>
    BY <1>15 DEF O!GetStore
  <2>3. out' \in Seq(Nat) /\ \A i \in 1..Len(out') : out'[i] <= passed
    BY <2>1, <2>2, SMTT(30)
  <2>4. at' \in [O!Callers -> QueuePcs] /\ at'[Reader] \notin O!InPass
    BY <1>0, <2>2
  <2>5. b' \in [O!Callers -> 0..passed] /\ n' \in [O!Callers -> 0..passed]
    BY <2>2
  <2>6. at'[Sender] \in O!InPass => passed > 0
    BY <2>2
  <2> QED  BY <1>0, <2>1, <2>2, <2>3, <2>4, <2>5, <2>6
<1> QED
  BY <1>1, <1>2, <1>3, <1>4, <1>5, <1>6, <1>7, <1>8, <1>9, <1>10, <1>11, <1>12, <1>13, <1>14, <1>15 DEF O!Next, O!QPass, O!QGet

\* Only the task that has tlock is inside txstart's loop.
LEMMA QueueLockStep ==
    ASSUME QueueTypes, QueueLock, O!Next
    PROVE  QueueLock'
<1> USE DEF O!At, O!Goto, O!GetNothing, O!queueVars, O!auxVars, O!NoBlock, O!Callers, O!Frames,
            O!InPass, O!InGet, QueueTypes, QueueLock, QueuePcs
<1>0. Sender # Reader /\ NoTask \notin {Sender, Reader} /\ MaxFrames \in Nat
  BY PlatformConstants DEF O!OutQueueConstants
<1>1. CASE O!Pass
  BY <1>0, <1>1 DEF O!Pass
<1>2. CASE O!PassFirst
  BY <1>0, <1>2 DEF O!PassFirst
<1>3. CASE O!PassLink
  BY <1>0, <1>3 DEF O!PassLink
<1>4. CASE O!PassLast
  BY <1>0, <1>4 DEF O!PassLast
<1>5. CASE O!PassCount
  BY <1>0, <1>5 DEF O!PassCount
<1>6. CASE O!PassStore
  BY <1>0, <1>6 DEF O!PassStore
<1>7. CASE O!Want
  BY <1>0, <1>7 DEF O!Want
<1>8. ASSUME NEW t \in O!Callers, O!Acquire(t) PROVE QueueLock'
  BY <1>0, <1>8 DEF O!Acquire
<1>9. ASSUME NEW t \in O!Callers, O!OutOfCredit(t) PROVE QueueLock'
  BY <1>0, <1>9 DEF O!OutOfCredit
<1>10. ASSUME NEW t \in O!Callers, O!Get(t) PROVE QueueLock'
  BY <1>0, <1>10 DEF O!Get
<1>11. ASSUME NEW t \in O!Callers, O!GetAdvance(t) PROVE QueueLock'
  BY <1>0, <1>11 DEF O!GetAdvance
<1>12. ASSUME NEW t \in O!Callers, O!GetLast(t) PROVE QueueLock'
  BY <1>0, <1>12 DEF O!GetLast
<1>13. ASSUME NEW t \in O!Callers, O!GetClear(t) PROVE QueueLock'
  BY <1>0, <1>13 DEF O!GetClear
<1>14. ASSUME NEW t \in O!Callers, O!GetCount(t) PROVE QueueLock'
  BY <1>0, <1>14 DEF O!GetCount
<1>15. ASSUME NEW t \in O!Callers, O!GetStore(t) PROVE QueueLock'
  BY <1>0, <1>15 DEF O!GetStore
<1> QED
  BY <1>1, <1>2, <1>3, <1>4, <1>5, <1>6, <1>7, <1>8, <1>9, <1>10, <1>11, <1>12, <1>13, <1>14, <1>15 DEF O!Next, O!QPass, O!QGet

\* Every step keeps the order, overlapping or not.
LEMMA OrderStep ==
    ASSUME QueueTypes, QueueLock, OrderInv, O!Next
    PROVE  OrderInv'
<1> USE DEF O!At, O!Goto, O!GetNothing, O!queueVars, O!auxVars, O!NoBlock, O!Callers, O!Frames,
            O!InPass, O!InGet, QueueTypes, QueueLock, OrderInv, O!InOrder, QueuePcs
<1>0. Sender # Reader /\ NoTask \notin {Sender, Reader} /\ MaxFrames \in Nat
  BY PlatformConstants DEF O!OutQueueConstants
<1>1. CASE O!Pass
  BY <1>0, <1>1, SMTT(30) DEF O!Pass
<1>2. CASE O!PassFirst
  BY <1>0, <1>2 DEF O!PassFirst
<1>3. CASE O!PassLink
  BY <1>0, <1>3 DEF O!PassLink
<1>4. CASE O!PassLast
  BY <1>0, <1>4 DEF O!PassLast
<1>5. CASE O!PassCount
  BY <1>0, <1>5 DEF O!PassCount
<1>6. CASE O!PassStore
  BY <1>0, <1>6 DEF O!PassStore
<1>7. CASE O!Want
  BY <1>0, <1>7 DEF O!Want
<1>8. ASSUME NEW t \in O!Callers, O!Acquire(t) PROVE OrderInv'
  BY <1>0, <1>8 DEF O!Acquire
<1>9. ASSUME NEW t \in O!Callers, O!OutOfCredit(t) PROVE OrderInv'
  BY <1>0, <1>9 DEF O!OutOfCredit
<1>10. ASSUME NEW t \in O!Callers, O!Get(t) PROVE OrderInv'
  BY <1>0, <1>10, SMTT(30) DEF O!Get
<1>11. ASSUME NEW t \in O!Callers, O!GetAdvance(t) PROVE OrderInv'
  <2>1. b[t] \in O!Frames /\ (next[b[t]] = 0 \/ next[b[t]] > b[t])
    BY <1>0, <1>11, SMTT(30) DEF O!GetAdvance
  <2>2. /\ at[t] = "gadvance" /\ first' = next[b[t]] /\ at' = [at EXCEPT ![t] = "glast"]
        /\ UNCHANGED <<last, next, b, passed, out>>
    BY <1>11 DEF O!GetAdvance
  <2>3. \A s \in O!Callers \ {t} : at[s] \notin O!InGet
    BY <1>0, <2>2
  <2>4. at[Sender] # "pfirst"
    BY <1>0, <2>1, <2>2
  <2>5. ASSUME first' # 0, NEW i \in 1..Len(out) PROVE out[i] < first'
    <3>1. out[i] < b[t] /\ out[i] \in Nat /\ b[t] \in Nat
      <4>1. b[t] \in Nat /\ out[i] \in Nat
        OBVIOUS
      <4>2. out[i] < b[t]
        BY <2>2
      <4> QED  BY <4>1, <4>2
    <3>2. first' \in Nat /\ b[t] < first'
      BY <1>0, <2>1, <2>2, <2>5
    <3> QED  BY <3>1, <3>2
  <2> QED  BY <1>0, <2>1, <2>2, <2>3, <2>4, <2>5
<1>12. ASSUME NEW t \in O!Callers, O!GetLast(t) PROVE OrderInv'
  BY <1>0, <1>12, SMTT(30) DEF O!GetLast
<1>13. ASSUME NEW t \in O!Callers, O!GetClear(t) PROVE OrderInv'
  BY <1>0, <1>13 DEF O!GetClear
<1>14. ASSUME NEW t \in O!Callers, O!GetCount(t) PROVE OrderInv'
  BY <1>0, <1>14, SMTT(30) DEF O!GetCount
<1>15. ASSUME NEW t \in O!Callers, O!GetStore(t) PROVE OrderInv'
  <2>1. /\ at[t] = "gstore" /\ at' = [at EXCEPT ![t] = "gtest"] /\ out' = Append(out, b[t])
        /\ b' = [b EXCEPT ![t] = 0] /\ UNCHANGED <<first, last, next, passed>>
    BY <1>15 DEF O!GetStore
  <2>2. b[t] \in Nat /\ b[t] # 0 /\ (\A i \in 1..Len(out) : out[i] < b[t]) /\ (first = 0 \/ first > b[t])
    BY <1>0, <2>1, SMTT(30)
  <2>3. /\ Len(out) \in Nat /\ Len(out') = Len(out) + 1 /\ out'[Len(out) + 1] = b[t]
        /\ \A i \in 1..Len(out) : out'[i] = out[i] /\ out[i] \in Nat
    BY <1>0, <2>1, <2>2, SMTT(30)
  <2>a. /\ \A i, j \in 1..Len(out) : i < j => out[i] < out[j]
        /\ first \in Nat /\ passed \in Nat /\ (first # 0 => \A i \in 1..Len(out) : out[i] < first)
        /\ at[Sender] = "pfirst" => b[t] < passed /\ \A i \in 1..Len(out) : out[i] < passed
    BY <1>0
  <2> HIDE DEF QueueTypes, QueueLock, OrderInv
  <2>4. O!InOrder'
    <3> SUFFICES ASSUME NEW i \in 1..Len(out'), NEW j \in 1..Len(out'), i < j
                 PROVE  out'[i] < out'[j]
      OBVIOUS
    <3>1. CASE j = Len(out) + 1
      BY <2>2, <2>3, <3>1
    <3>2. CASE j # Len(out) + 1
      <4>1. i \in 1..Len(out) /\ j \in 1..Len(out)
        BY <2>3, <3>2, SMTT(30)
      <4> QED  BY <2>a, <2>3, <4>1
    <3> QED  BY <3>1, <3>2
  <2>5. \A s \in O!Callers : at'[s] \notin O!InGet
    BY <1>0, <2>1 DEF QueueTypes, QueueLock
  <2>6. ASSUME first # 0, NEW i \in 1..Len(out') PROVE out'[i] < first
    <3>1. CASE i = Len(out) + 1
      BY <2>2, <2>3, <2>6, <3>1
    <3>2. CASE i # Len(out) + 1
      <4>1. i \in 1..Len(out)
        BY <2>3, <3>2
      <4> QED  BY <2>a, <2>3, <2>6, <4>1
    <3> QED  BY <3>1, <3>2
  <2>7. ASSUME at[Sender] = "pfirst", NEW i \in 1..Len(out') PROVE out'[i] < passed
    <3>1. CASE i = Len(out) + 1
      BY <2>a, <2>2, <2>3, <2>7, <3>1
    <3>2. CASE i # Len(out) + 1
      <4>1. i \in 1..Len(out)
        BY <2>3, <3>2
      <4> QED  BY <2>a, <2>3, <2>7, <4>1
    <3> QED  BY <3>1, <3>2
  <2> QED  BY <1>0, <2>1, <2>2, <2>4, <2>5, <2>6, <2>7 DEF QueueTypes, QueueLock, OrderInv
<1> QED
  BY <1>1, <1>2, <1>3, <1>4, <1>5, <1>6, <1>7, <1>8, <1>9, <1>10, <1>11, <1>12, <1>13, <1>14, <1>15 DEF O!Next, O!QPass, O!QGet

\* While nothing overlapped, qpass and qget are not under way together.
LEMMA Exclusion ==
    ASSUME overlap \in BOOLEAN, O!Next
    PROVE  /\ overlap' \in BOOLEAN
           /\ ~overlap' => /\ ~overlap
                           /\ \A s, t \in O!Callers : ~(at'[s] \in O!InPass /\ at'[t] \in O!InGet)
<1>1. ASSUME NEW t, NEW l, O!Goto(t, l)
      PROVE  /\ overlap' \in BOOLEAN
             /\ ~overlap' => /\ ~overlap
                             /\ \A s, r \in O!Callers : ~(at'[s] \in O!InPass /\ at'[r] \in O!InGet)
  BY <1>1, Zenon DEF O!Goto
<1>2. \E t, l : O!Goto(t, l)
  BY DEF O!Next, O!QPass, O!QGet, O!Pass, O!PassFirst, O!PassLink, O!PassLast, O!PassCount,
         O!PassStore, O!Want, O!Acquire, O!OutOfCredit, O!Get, O!GetAdvance, O!GetLast, O!GetClear,
         O!GetCount, O!GetStore, O!GetNothing
<1> QED  BY <1>1, <1>2

\* Every step that does not overlap with the other operation keeps the list exact.
LEMMA ShapeStep ==
    ASSUME QueueTypes, QueueLock, OrderInv, overlap \in BOOLEAN, ~overlap, ShapeInv, O!Next, ~overlap'
    PROVE  ShapeInv'
<1>b. \A s, t \in O!Callers : ~(at'[s] \in O!InPass /\ at'[t] \in O!InGet)
  BY Exclusion
<1> USE DEF O!At, O!GetNothing, O!queueVars, O!auxVars, O!NoBlock, O!Callers, O!Frames,
            O!InPass, O!InGet, QueueTypes, QueueLock, QueuePcs, O!Idle, Holds, Links, ShapeInv
<1>0. Sender # Reader /\ NoTask \notin {Sender, Reader} /\ MaxFrames \in Nat
  BY PlatformConstants DEF O!OutQueueConstants
<1>1. CASE O!Pass
  <2> DEFINE l == Len(out)
             p == passed
  <2>1. /\ at[Sender] = "idle" /\ passed' = p + 1 /\ p < MaxFrames /\ next' = [next EXCEPT ![p + 1] = 0]
        /\ at' = [at EXCEPT ![Sender] = IF first = 0 THEN "pfirst" ELSE "plink"]
        /\ UNCHANGED <<first, last, nelem, b, n, cnt, out, dropped, stray>>
    BY <1>1 DEF O!Pass, O!Goto
  <2>2. O!Idle /\ l \in Nat /\ l <= p
    BY <1>0, <1>b, <2>1
  <2>3. Holds(l, p)
    BY <2>2
  <2>a. p \in Nat /\ p + 1 \in O!Frames /\ next \in [O!Frames -> Nat]
    BY <1>0, <2>1
  <2>6. \A t \in O!Callers : at'[t] \notin O!InGet
    BY <1>0, <1>b, <2>1
  <2> HIDE DEF ShapeInv, QueueTypes, QueueLock
  <2>4. (\A f \in 1..p : next'[f] = next[f]) /\ next'[p + 1] = 0
    BY <1>0, <2>1, <2>a
  <2>5. Holds(Len(out), passed - 1)'
    <3>1. \A f \in (l + 1)..p : f \in 1..p /\ next[f] = IF f = p THEN 0 ELSE f + 1
      BY <2>a, <2>2, <2>3
    <3>2. Len(out') = l /\ passed' - 1 = p
      BY <2>1, <2>a
    <3>3. \A f \in (l + 1)..p : next'[f] = IF f = p THEN 0 ELSE f + 1
      BY <2>4, <3>1
    <3>4. /\ first' = (IF l = p THEN 0 ELSE l + 1) /\ last' = (IF l = p THEN 0 ELSE p)
          /\ nelem' = p - l
      BY <2>1, <2>3
    <3> QED  BY <3>2, <3>3, <3>4
  <2>7. at'[Sender] = IF l = p THEN "pfirst" ELSE "plink"
    <3>1. first = 0 <=> l = p
      BY <2>2, <2>3
    <3> QED  BY <2>1, <3>1 DEF QueueTypes
  <2>8. ~O!Idle'
    BY <2>1 DEF QueueTypes
  <2>9. passed' - 1 = p
    BY <2>1, <2>a
  <2>10. Len(out') = l /\ dropped' = {} /\ stray' = {}
    BY <2>1 DEF ShapeInv
  <2>11. CASE l = p
    <3>1. at'[Sender] = "pfirst" /\ Holds(Len(out), passed - 1)'
      BY <2>5, <2>7, <2>11
    <3> HIDE DEF Holds
    <3> QED  BY <1>b, <2>1, <2>a, <2>4, <2>6, <2>8, <2>9, <2>10, <2>11, <3>1 DEF ShapeInv
  <2>12. CASE l # p
    <3>1. at'[Sender] = "plink" /\ Holds(Len(out), passed - 1)'
      BY <2>5, <2>7, <2>12
    <3> HIDE DEF Holds
    <3> QED  BY <1>b, <2>1, <2>2, <2>a, <2>4, <2>6, <2>8, <2>9, <2>10, <2>12, <3>1 DEF ShapeInv
  <2> QED  BY <2>11, <2>12
<1>2. CASE O!PassFirst
  BY <1>0, <1>b, <1>2 DEF O!PassFirst, O!Goto
<1>3. CASE O!PassLink
  <2> DEFINE l == Len(out)
             p == passed
  <2>1. l \in Nat /\ l < p - 1 /\ next[p] = 0 /\ Holds(l, p - 1) /\ at[Sender] = "plink"
    BY <1>3 DEF O!PassLink
  <2>2. last = p - 1 /\ last # 0 /\ first = l + 1 /\ nelem = p - 1 - l
    BY <2>1
  <2>3. /\ next' = [next EXCEPT ![p - 1] = p] /\ at' = [at EXCEPT ![Sender] = "plast"]
        /\ UNCHANGED <<first, last, nelem, b, n, cnt, passed, out, dropped, stray>>
    BY <1>3, <2>2 DEF O!PassLink, O!Goto
  <2>a. p \in Nat /\ p \in O!Frames /\ p - 1 \in O!Frames /\ next \in [O!Frames -> Nat]
    BY <1>0, <2>1
  <2>4. ASSUME NEW f \in (l + 1)..p PROVE next'[f] = IF f = p THEN 0 ELSE f + 1
    <3> HIDE DEF ShapeInv, QueueTypes, QueueLock
    <3>1. f \in O!Frames
      BY <1>0, <2>1, <2>a
    <3>2. f \notin {p - 1, p} => next[f] = f + 1
      BY <2>1, <2>a
    <3> QED  BY <2>1, <2>3, <2>a, <3>1, <3>2
  <2>5. \A t \in O!Callers : at'[t] \notin O!InGet
    BY <1>0, <1>b, <2>3
  <2>6. ~O!Idle' /\ at'[Sender] = "plast"
    BY <2>3
  <2> QED  BY <1>b, <2>1, <2>2, <2>3, <2>4, <2>5, <2>6
<1>4. CASE O!PassLast
  BY <1>0, <1>b, <1>4 DEF O!PassLast, O!Goto
<1>5. CASE O!PassCount
  BY <1>0, <1>b, <1>5 DEF O!PassCount, O!Goto
<1>6. CASE O!PassStore
  BY <1>0, <1>b, <1>6 DEF O!PassStore, O!Goto
<1>7. CASE O!Want
  BY <1>0, <1>b, <1>7 DEF O!Want, O!Goto
<1>8. ASSUME NEW t \in O!Callers, O!Acquire(t) PROVE ShapeInv'
  BY <1>0, <1>b, <1>8 DEF O!Acquire, O!Goto
<1>9. ASSUME NEW t \in O!Callers, O!OutOfCredit(t) PROVE ShapeInv'
  BY <1>0, <1>b, <1>9, SMTT(30) DEF O!OutOfCredit, O!Goto
<1>10. ASSUME NEW t \in O!Callers, O!Get(t) PROVE ShapeInv'
  <2>1. \A s \in O!Callers \ {t} : at[s] \notin O!InGet
    BY <1>0, <1>b, <1>10 DEF O!Get, O!Goto
  <2>2. UNCHANGED <<first, last, nelem, next, n, cnt, passed, out, dropped, stray>> /\ at[t] = "gtest"
    BY <1>10 DEF O!Get
  <2>3. CASE first = 0
    <3>1. at' = [at EXCEPT ![t] = "idle"] /\ b' = [b EXCEPT ![t] = 0]
      BY <1>10, <2>3 DEF O!Get, O!Goto
    <3> QED  BY <1>0, <1>b, <2>1, <2>2, <3>1
  <2>4. CASE first # 0
    <3>1. at' = [at EXCEPT ![t] = "gadvance"] /\ b' = [b EXCEPT ![t] = first]
      BY <1>10, <2>4 DEF O!Get, O!Goto
    <3>2. at[Sender] \notin O!InPass
      BY <1>0, <1>b, <2>2, <3>1
    <3>3. O!Idle
      BY <1>0, <2>1, <2>2, <3>2
    <3>4. Holds(Len(out), passed) /\ Len(out) \in Nat /\ Len(out) < passed /\ first = Len(out) + 1
      BY <2>4, <3>3
    <3>5. ~O!Idle' /\ at'[Sender] \notin O!InPass
      BY <1>0, <2>2, <3>1, <3>2
    <3>6. Holds(Len(out), passed)' /\ Links(Len(out), passed)' /\ nelem' = passed' - Len(out')
      BY <2>2, <3>4
    <3>7. \A s \in O!Callers \ {t} : at'[s] \notin O!InGet
      BY <2>1, <3>1
    <3> HIDE DEF Holds, Links
    <3> QED  BY <1>0, <1>b, <2>2, <3>1, <3>4, <3>5, <3>6, <3>7
  <2> QED  BY <2>3, <2>4
<1>11. ASSUME NEW t \in O!Callers, O!GetAdvance(t) PROVE ShapeInv'
  <2> DEFINE l == Len(out)
             p == passed
  <2>1. /\ at[t] = "gadvance" /\ first' = next[b[t]] /\ n' = [n EXCEPT ![t] = next[b[t]]]
        /\ at' = [at EXCEPT ![t] = "glast"]
        /\ UNCHANGED <<last, nelem, next, b, cnt, passed, out, dropped, stray>>
    BY <1>11 DEF O!GetAdvance, O!Goto
  <2>2. l \in Nat /\ l < p /\ b[t] = l + 1 /\ Holds(l, p)
    BY <2>1
  <2>3. next[b[t]] = IF l + 1 = p THEN 0 ELSE l + 2
    BY <2>2
  <2>4. /\ first' = (IF l + 1 = p THEN 0 ELSE l + 2) /\ n'[t] = first' /\ last' = p
        /\ nelem' = p - l /\ Links(l, p)'
    BY <2>1, <2>2, <2>3
  <2>5. \A s \in O!Callers \ {t} : at'[s] \notin O!InGet
    BY <1>0, <2>1
  <2>6. ~O!Idle' /\ at'[Sender] \notin O!InPass /\ at'[t] = "glast"
    BY <1>0, <1>b, <2>1
  <2> HIDE DEF Holds, Links
  <2> QED  BY <1>0, <1>b, <2>1, <2>2, <2>4, <2>5, <2>6
<1>12. ASSUME NEW t \in O!Callers, O!GetLast(t) PROVE ShapeInv'
  <2> DEFINE l == Len(out)
             p == passed
  <2>1. /\ at[t] = "glast" /\ UNCHANGED <<first, last, nelem, next, n, cnt, passed, out, stray>>
    BY <1>12 DEF O!GetLast
  <2>2. /\ l \in Nat /\ l < p /\ b[t] = l + 1 /\ nelem = p - l /\ Links(l, p)
        /\ first = (IF l + 1 = p THEN 0 ELSE l + 2) /\ n[t] = first /\ last = p
    BY <2>1
  <2>3. \A s \in O!Callers \ {t} : at[s] \notin O!InGet
    BY <1>0, <2>1
  <2>4. at[Sender] \notin O!InPass
    BY <2>1
  <2>5. CASE l + 1 = p
    <3>1. at' = [at EXCEPT ![t] = "gclear"] /\ b' = b /\ dropped' = dropped
      BY <1>12, <2>2, <2>5 DEF O!GetLast, O!Goto
    <3> QED  BY <1>0, <1>b, <2>1, <2>2, <2>3, <2>4, <2>5, <3>1
  <2>6. CASE l + 1 # p
    <3>1. at' = [at EXCEPT ![t] = "gcount"] /\ b' = b /\ dropped' = dropped
      BY <1>12, <2>2, <2>6 DEF O!GetLast, O!Goto
    <3> QED  BY <1>0, <1>b, <2>1, <2>2, <2>3, <2>4, <2>6, <3>1
  <2> QED  BY <2>5, <2>6
<1>13. ASSUME NEW t \in O!Callers, O!GetClear(t) PROVE ShapeInv'
  BY <1>0, <1>b, <1>13 DEF O!GetClear, O!Goto
<1>14. ASSUME NEW t \in O!Callers, O!GetCount(t) PROVE ShapeInv'
  <2>1. at[t] = "gcount" /\ UNCHANGED <<first, last, nelem, next, n, passed, out, stray>>
    BY <1>14 DEF O!GetCount
  <2>2. nelem # 0
    BY <2>1
  <2>3. at' = [at EXCEPT ![t] = "gstore"] /\ cnt' = [cnt EXCEPT ![t] = nelem] /\ UNCHANGED <<b, dropped>>
    BY <1>14, <2>2 DEF O!GetCount, O!Goto
  <2>4. at[Sender] \notin O!InPass /\ \A s \in O!Callers \ {t} : at[s] \notin O!InGet
    BY <1>0, <2>1
  <2> QED  BY <1>0, <1>b, <2>1, <2>3, <2>4
<1>15. ASSUME NEW t \in O!Callers, O!GetStore(t) PROVE ShapeInv'
  <2> DEFINE l == Len(out)
             p == passed
  <2>1. /\ at[t] = "gstore" /\ at' = [at EXCEPT ![t] = "gtest"] /\ out' = Append(out, b[t])
        /\ nelem' = cnt[t] - 1 /\ UNCHANGED <<first, last, next, passed, dropped, stray>>
    BY <1>15 DEF O!GetStore, O!Goto
  <2>2. /\ l \in Nat /\ l < p /\ nelem = p - l /\ cnt[t] = nelem /\ Links(l, p)
        /\ first = (IF l + 1 = p THEN 0 ELSE l + 2) /\ last = (IF l + 1 = p THEN 0 ELSE p)
    BY <2>1
  <2>3. Len(out') = l + 1
    BY <2>1
  <2>4. l + 1 <= p /\ \A f \in (l + 2)..p : next'[f] = IF f = p THEN 0 ELSE f + 1
    BY <2>1, <2>2
  <2>5. Holds(Len(out), passed)'
    <3> HIDE DEF ShapeInv, QueueTypes, QueueLock
    <3>1. /\ first' = (IF l + 1 = p THEN 0 ELSE l + 2) /\ last' = (IF l + 1 = p THEN 0 ELSE p)
          /\ nelem' = p - (l + 1)
      BY <2>1, <2>2
    <3>2. /\ first' = (IF Len(out') = passed' THEN 0 ELSE Len(out') + 1)
          /\ last' = (IF Len(out') = passed' THEN 0 ELSE passed') /\ nelem' = passed' - Len(out')
      BY <2>1, <2>2, <2>3, <3>1
    <3>3. Links(Len(out), passed)'
      BY <2>1, <2>2, <2>3, <2>4
    <3> QED  BY <3>2, <3>3
  <2>6. \A s \in O!Callers : at'[s] \notin O!InGet /\ at'[s] \notin O!InPass
    BY <1>0, <2>1
  <2> HIDE DEF Holds, Links
  <2> QED  BY <1>0, <1>b, <2>1, <2>3, <2>4, <2>5, <2>6
<1> QED
  BY <1>1, <1>2, <1>3, <1>4, <1>5, <1>6, <1>7, <1>8, <1>9, <1>10, <1>11, <1>12, <1>13, <1>14, <1>15 DEF O!Next, O!QPass, O!QGet

\* Every step of qpass and qget keeps the invariant of the queue.
LEMMA QueueStep ==
    ASSUME QueueInv, O!Next
    PROVE  QueueInv'
<1>1. QueueTypes' /\ QueueLock' /\ OrderInv'
  BY QueueTypesStep, QueueLockStep, OrderStep DEF QueueInv
<1>2. overlap' \in BOOLEAN
  BY Exclusion DEF QueueInv
<1>3. ASSUME ~overlap' PROVE ShapeInv'
  <2>1. ~overlap
    BY <1>3, Exclusion DEF QueueInv
  <2> QED  BY <1>3, <2>1, ShapeStep DEF QueueInv
<1> QED  BY <1>1, <1>2, <1>3 DEF QueueInv

\* The invariant of the queue holds for the empty queue.
LEMMA QueueInit ==
    ASSUME O!Init
    PROVE  QueueInv
<1> USE DEF O!NoBlock, O!Callers, O!Frames, O!InPass, O!InGet
<1>0. Sender # Reader /\ MaxFrames \in Nat
  BY PlatformConstants DEF O!OutQueueConstants
<1>1. /\ first = 0 /\ last = 0 /\ nelem = 0 /\ passed = 0 /\ next = [f \in O!Frames |-> 0]
      /\ at = [t \in O!Callers |-> "idle"] /\ b = [t \in O!Callers |-> 0] /\ n = [t \in O!Callers |-> 0]
      /\ cnt = [t \in O!Callers |-> 0] /\ out = <<>> /\ dropped = {} /\ stray = {} /\ overlap = FALSE
  BY DEF O!Init
<1>2. out \in Seq(Nat) /\ Len(out) = 0
  BY <1>1
<1>3. QueueTypes
  BY <1>0, <1>1, <1>2 DEF QueueTypes, QueuePcs
<1>4. QueueLock
  BY <1>1 DEF QueueLock
<1>5. OrderInv
  BY <1>0, <1>1, <1>2 DEF OrderInv, O!InOrder
<1>6. ShapeInv
  <2>1. \A t \in O!Callers : at[t] = "idle"
    BY <1>1
  <2>2. Holds(Len(out), passed)
    <3>1. first = 0 /\ last = 0 /\ nelem = 0 /\ passed = 0 /\ Len(out) = 0
      BY <1>1, <1>2
    <3>2. Links(0, 0)
      BY DEF Links
    <3> QED  BY <3>1, <3>2 DEF Holds
  <2> QED  BY <1>1, <1>2, <2>1, <2>2 DEF ShapeInv
<1>7. overlap \in BOOLEAN
  BY <1>1, Zenon
<1> QED  BY <1>3, <1>4, <1>5, <1>6, <1>7 DEF QueueInv

\* What the list holds, in the words of OutQueue.
LEMMA ChainIsList ==
    ASSUME QueueTypes, NEW l \in 0..passed, first = (IF l = passed THEN 0 ELSE l + 1), Links(l, passed)
    PROVE  O!Chain(first) = {f \in O!Frames : f <= passed /\ f > l}
<1>0. MaxFrames \in Nat /\ passed \in 0..MaxFrames /\ l \in Nat /\ passed \in Nat
  BY PlatformConstants DEF O!OutQueueConstants, QueueTypes
<1>1. CASE l = passed
  BY <1>0, <1>1 DEF O!Chain, O!NoBlock, O!Frames
<1>2. CASE l < passed
  <2>1. first = l + 1 /\ first # 0
    BY <1>0, <1>2
  <2>2. ASSUME NEW g \in O!Frames, g <= passed, g > l PROVE g \in O!Chain(first)
    <3>1. g >= first /\ \A f \in first..(g - 1) : f \in (l + 1)..passed /\ f # passed
      BY <1>0, <2>1, <2>2 DEF O!Frames
    <3> QED  BY <2>1, <3>1 DEF O!Chain, O!NoBlock, Links
  <2>3. ASSUME NEW g \in O!Chain(first) PROVE g <= passed /\ g > l
    <3>1. g \in O!Frames /\ g >= first /\ \A f \in first..(g - 1) : next[f] = f + 1
      BY DEF O!Chain
    <3>2. passed \in (l + 1)..passed /\ next[passed] = 0
      BY <1>0, <1>2 DEF Links
    <3>3. ~(passed \in first..(g - 1))
      BY <1>0, <3>1, <3>2
    <3> QED  BY <1>0, <1>2, <2>1, <3>1, <3>3 DEF O!Frames
  <2> QED  BY <2>2, <2>3 DEF O!Chain
<1> QED  BY <1>0, <1>1, <1>2

\* Only the steps of the queue move its variables.
LEMMA QueueUnit ==
    ASSUME unit = "queue" => QueueInv, [PlatformNext]_all
    PROVE  (unit = "queue" => QueueInv)'
<1>1. CASE unit = "queue" /\ O!Next /\ unit' = unit
  BY <1>1, QueueStep
<1>2. CASE unit' = unit /\ (unit = "queue" => UNCHANGED <<at, queueVars>>)
  <2> SUFFICES ASSUME unit = "queue", QueueInv PROVE QueueInv'
    BY <1>2
  <2>1. /\ UNCHANGED <<first, last, nelem, next, tlock, b, n, cnt, passed, out, dropped, stray>>
        /\ UNCHANGED <<at, overlap>>
    BY <1>2 DEF queueVars
  <2>2. QueueTypes' /\ QueueLock' /\ OrderInv'
    BY <2>1 DEF QueueInv, QueueTypes, QueueLock, OrderInv, O!InOrder
  <2>3. ShapeInv <=> ShapeInv'
    BY <2>1 DEF ShapeInv, Holds, Links, O!Idle
  <2>4. overlap' \in BOOLEAN /\ (~overlap' => ShapeInv')
    BY <2>1, <2>3, Zenon DEF QueueInv
  <2> QED  BY <2>2, <2>4 DEF QueueInv
<1>3. \/ unit = "queue" /\ O!Next /\ unit' = unit
      \/ unit' = unit /\ (unit = "queue" => UNCHANGED <<at, queueVars>>)
  BY DEF PlatformNext, all
<1> QED  BY <1>1, <1>2, <1>3

\* Frames leave edev->oq in the order they were passed and none twice, however
\* qpass and qget are interleaved, and as long as they do not overlap the queue
\* is exact, for any number of frames (src/etherif.c).
THEOREM QueueIsExact == PlatformSpec => []QueueExact
<1>1. PlatformInit => (unit = "queue" => QueueInv)
  BY QueueInit DEF PlatformInit
<1>2. (unit = "queue" => QueueInv) /\ [PlatformNext]_all => (unit = "queue" => QueueInv)'
  BY QueueUnit
<1>3. (unit = "queue" => QueueInv) => QueueExact
  <2> SUFFICES ASSUME QueueInv PROVE O!InOrder /\ O!ExactUnlessOverlapped
    BY DEF QueueExact
  <2>1. O!InOrder
    BY DEF QueueInv, OrderInv
  <2>2. ASSUME O!Idle, ~overlap
        PROVE  /\ O!Chain(first) = {f \in O!Frames : f <= passed /\ f > Len(out)}
               /\ nelem = passed - Len(out) /\ last = (IF first = 0 THEN 0 ELSE passed)
               /\ dropped = {} /\ stray = {}
    <3>1. QueueTypes /\ Holds(Len(out), passed) /\ Len(out) <= passed /\ dropped = {} /\ stray = {}
      BY <2>2 DEF QueueInv, ShapeInv
    <3>2. Len(out) \in 0..passed
      BY <3>1 DEF QueueTypes
    <3>3. O!Chain(first) = {f \in O!Frames : f <= passed /\ f > Len(out)}
      BY <3>1, <3>2, ChainIsList DEF Holds
    <3> QED  BY <3>1, <3>2, <3>3 DEF Holds
  <2> QED  BY <2>1, <2>2 DEF O!ExactUnlessOverlapped, O!NoBlock
<1> QED  BY <1>1, <1>2, <1>3, PTL DEF PlatformSpec

-----------------------------------------------------------------------------
(* LinkLayer.                                                              *)

Stations == {"own", "all", "other"}
LinkFrame == [to : Stations, from : Stations, proto : {0, 1}, size : {"full", "long", "header", "none"},
              id : Nat]
RawFrame == [id : Nat, sender : Stations]

LinkTypes ==
    /\ pieces \in Int /\ scanq \in Seq(Nat) /\ raw \in {0, 1}
    /\ frq \in Seq(LinkFrame) /\ heard \in Seq(LinkFrame) /\ lbuf \in LinkFrame
    /\ rx \in Seq(RawFrame) /\ got \in Seq(RawFrame)
    /\ rblk.frame \in LinkFrame /\ lpc \in {"loop", "look", "pass"}
    /\ rpc \in {"idle", "got", "free", "wild"} /\ note \in [extra : Int, short : BOOLEAN, before : Nat]

\* The frames received are numbered in their order, and what is on its way is a
\* frame that was received: in the queue, in the buffer of the link layer task.
Numbered ==
    /\ \A i \in 1..Len(heard) : heard[i].id = i
    /\ rpc = "got" => rblk.frame.id = Len(heard) + 1
    /\ \A i \in 1..Len(frq) : frq[i].id \in 1..Len(heard) /\ frq[i] = heard[frq[i].id]
    /\ lpc # "loop" => lbuf.id \in 1..Len(heard) /\ lbuf = heard[lbuf.id]

\* The frames with the client, waiting for it, in the buffer and in the queue
\* follow each other in the order they were received.
InLine ==
    /\ \A i, j \in 1..Len(got) : i < j => got[i].id < got[j].id
    /\ \A i, j \in 1..Len(rx) : i < j => rx[i].id < rx[j].id
    /\ \A i, j \in 1..Len(frq) : i < j => frq[i].id < frq[j].id
    /\ \A i \in 1..Len(got), j \in 1..Len(rx) : got[i].id < rx[j].id
    /\ \A j \in 1..Len(frq) : /\ \A i \in 1..Len(got) : got[i].id < frq[j].id
                              /\ \A i \in 1..Len(rx) : rx[i].id < frq[j].id
    /\ lpc # "loop" => /\ \A i \in 1..Len(got) : got[i].id < lbuf.id
                       /\ \A i \in 1..Len(rx) : rx[i].id < lbuf.id
                       /\ \A j \in 1..Len(frq) : lbuf.id < frq[j].id

\* A frame the client may have.
Fit(f) == f.size = "full" /\ f.to \in {"own", "all"} /\ f.proto \in {raw, 0}
Passed(m) == m.id \in 1..Len(heard) /\ Fit(heard[m.id]) /\ heard[m.id].from = m.sender
FitOnly == /\ \A i \in 1..Len(got) : Passed(got[i])
           /\ \A i \in 1..Len(rx) : Passed(rx[i])
           /\ lpc = "pass" => Fit(lbuf)

\* A frame it asked for is on its way or with it, unless memory was short.
Wanted(f) == f.size = "full" /\ f.to \in {"own", "all"} /\ f.proto = raw /\ f.id > note.before
Kept(k) == \/ \E i \in 1..Len(got) : got[i].id = k
           \/ \E i \in 1..Len(rx) : rx[i].id = k
           \/ \E i \in 1..Len(frq) : frq[i].id = k
           \/ lpc # "loop" /\ lbuf.id = k
NoneMissing == raw # 0 /\ ~note.short => \A k \in 1..Len(heard) : Wanted(heard[k]) => Kept(k)

\* MemoryBooks, with its two cases named.
InHand == IF rpc \in {"got", "free"} THEN 2 ELSE 0
InPParam == IF lpc = "pass" THEN 1 ELSE 0
Books == pieces = InHand + Len(scanq) + Len(frq) + InPParam + 2 * Len(rx) + 2 * Len(heard) + Len(got)
                    + note.extra

LinkInv == LinkTypes /\ Books /\ Numbered /\ InLine /\ FitOnly /\ NoneMissing

\* What Append does to a queue.
LEMMA AppendFacts ==
    ASSUME NEW S, NEW q \in Seq(S), NEW e \in S
    PROVE  /\ Append(q, e) \in Seq(S) /\ Len(q) \in Nat /\ Len(Append(q, e)) = Len(q) + 1
           /\ \A i \in 1..Len(q) : Append(q, e)[i] = q[i]
           /\ Append(q, e)[Len(q) + 1] = e
OBVIOUS

\* The elements of a queue to which at most one element was added.
LEMMA Appended ==
    ASSUME NEW S, NEW q \in Seq(S), NEW e \in S, NEW r, r = q \/ r = Append(q, e), NEW i \in 1..Len(r)
    PROVE  \/ i \in 1..Len(q) /\ r[i] = q[i]
           \/ i = Len(q) + 1 /\ r[i] = e /\ r = Append(q, e)
<1>1. CASE r = q
  BY <1>1, Zenon
<1>2. CASE r = Append(q, e)
  <2>1. Len(q) \in Nat /\ Len(r) = Len(q) + 1 /\ (\A j \in 1..Len(q) : r[j] = q[j]) /\ r[Len(q) + 1] = e
    BY <1>2, AppendFacts
  <2>2. i \in 1..Len(q) \/ i = Len(q) + 1
    BY <2>1
  <2> QED  BY <1>2, <2>1, <2>2, Zenon
<1> QED  BY <1>1, <1>2

\* What Head and Tail do to a queue that is not empty.
LEMMA TailFacts ==
    ASSUME NEW S, NEW q \in Seq(S), q # <<>>
    PROVE  /\ Tail(q) \in Seq(S) /\ Len(q) \in Nat /\ Len(q) >= 1
           /\ Head(q) = q[1] /\ Head(q) \in S /\ Len(Tail(q)) = Len(q) - 1
           /\ \A i \in 1..(Len(q) - 1) : Tail(q)[i] = q[i + 1]
BY HeadTailProperties, EmptySeq

\* The steps, by what they do to the frames on their way.
Aside ==
    /\ UNCHANGED <<heard, frq, lbuf, lpc, rx, got, raw>> /\ note'.before = note.before
    /\ ~note'.short => ~note.short
    /\ rpc' = "got" => (rpc = "got" /\ rblk' = rblk) \/ rblk'.frame.id = Len(heard) + 1
Enabled ==
    /\ raw = 0 /\ note'.before = Len(heard) /\ UNCHANGED <<heard, frq, lbuf, lpc, rx, got, rpc, rblk>>
Received ==
    /\ rpc = "got" /\ rpc' = "idle" /\ heard' = Append(heard, rblk.frame)
    /\ UNCHANGED <<lbuf, lpc, rx, got, raw>> /\ note'.before = note.before /\ (~note'.short => ~note.short)
    /\ \/ frq' = Append(frq, rblk.frame)
       \/ frq' = frq /\ (~note'.short => rblk.frame.size = "long")
Taken ==
    /\ lpc = "loop" /\ lpc' = "look" /\ frq # <<>> /\ frq' = Tail(frq) /\ lbuf' = Head(frq)
    /\ UNCHANGED <<heard, rx, got, raw, note, rpc, rblk>>
Looked ==
    /\ lpc = "look" /\ UNCHANGED <<heard, frq, lbuf, rx, got, raw, rpc, rblk>>
    /\ note'.before = note.before /\ (~note'.short => ~note.short)
    /\ \/ lpc' = "pass" /\ lbuf.size = "full" /\ lbuf.to \in {"own", "all"} /\ lbuf.proto = raw
       \/ /\ lpc' = "loop"
          /\ ~note'.short => ~(lbuf.size = "full" /\ lbuf.to \in {"own", "all"} /\ lbuf.proto = raw)
PassedOn ==
    /\ lpc = "pass" /\ lpc' = "loop" /\ UNCHANGED <<heard, frq, lbuf, got, raw, rpc, rblk>>
    /\ note'.before = note.before /\ (~note'.short => ~note.short)
    /\ \/ rx' = Append(rx, [id |-> lbuf.id, sender |-> lbuf.from])
       \/ rx' = rx /\ note'.short
Fetched ==
    /\ rx # <<>> /\ rx' = Tail(rx) /\ got' = Append(got, Head(rx))
    /\ UNCHANGED <<heard, frq, lbuf, lpc, raw, note, rpc, rblk>>

\* Each action is one of these, and keeps the types and the books of memory.
LEMMA LinkMoves ==
    ASSUME LinkTypes, Books, E!Next
    PROVE  /\ LinkTypes' /\ Books'
           /\ Aside \/ Enabled \/ Received \/ Taken \/ Looked \/ PassedOn \/ Fetched
<1>n. /\ note.extra \in Int /\ note.before \in Nat /\ note.short \in BOOLEAN
      /\ DOMAIN note = {"extra", "short", "before"}
  BY DEF LinkTypes
<1>l. /\ Len(scanq) \in Nat /\ Len(frq) \in Nat /\ Len(rx) \in Nat /\ Len(heard) \in Nat /\ Len(got) \in Nat
  BY DEF LinkTypes
<1>m. pieces \in Int /\ note.extra \in Int
  BY <1>n DEF LinkTypes
<1>h. InHand \in Int /\ InPParam \in Int
  BY DEF InHand, InPParam
<1>1. CASE E!Allocate \/ E!Attach \/ E!InitializeLinkLayer \/ E!Dispatch
  <2>1. /\ UNCHANGED <<pieces, frq, scanq, rx, lpc, lbuf, raw, heard, got, note, rblk>>
        /\ \/ rpc' = rpc
           \/ rpc = "got" /\ rpc' = "free"
    BY <1>1 DEF E!Allocate, E!Attach, E!InitializeLinkLayer, E!Dispatch
  <2>2. LinkTypes'
    BY <2>1 DEF LinkTypes
  <2>3. Books'
    BY <2>1 DEF Books, InHand, InPParam
  <2>4. Aside
    BY <2>1 DEF Aside
  <2> QED  BY <2>2, <2>3, <2>4
<1>2. CASE E!EnableRaw
  <2>1. /\ raw = 0 /\ raw' \in {1} /\ note' = [note EXCEPT !.before = Len(heard)]
        /\ UNCHANGED <<pieces, rpc, rblk, frq, scanq, rx, lpc, lbuf, heard, got>>
    BY <1>2 DEF E!EnableRaw
  <2>2. note'.extra = note.extra /\ note'.before = Len(heard) /\ note' \in [extra : Int, short : BOOLEAN, before : Nat]
    BY <1>l, <2>1 DEF LinkTypes
  <2>3. LinkTypes'
    BY <2>1, <2>2 DEF LinkTypes
  <2>4. Books'
    BY <2>1, <2>2 DEF Books, InHand, InPParam
  <2>5. Enabled
    BY <2>1, <2>2 DEF Enabled
  <2> QED  BY <2>3, <2>4, <2>5
<1>3. CASE E!ReadPkt
  <2>1. UNCHANGED <<frq, scanq, rx, lpc, lbuf, raw, heard, got>> /\ rpc = "idle"
    BY <1>3 DEF E!ReadPkt
  <2>2. CASE /\ E!Fits(2) /\ pieces' = pieces + 2 /\ rpc' = "got" /\ note' = note
             /\ \E k \in E!Kinds, f \in E!Frames :
                  rblk' = [kind |-> k, frame |-> [to |-> f.to, from |-> f.from, proto |-> f.proto,
                                                  size |-> f.size, id |-> Len(heard) + 1]]
    <3>1. PICK k \in E!Kinds, f \in E!Frames :
                  rblk' = [kind |-> k, frame |-> [to |-> f.to, from |-> f.from, proto |-> f.proto,
                                                  size |-> f.size, id |-> Len(heard) + 1]]
      BY <2>2
    <3>2. /\ f.to \in Stations /\ f.from \in Stations /\ f.proto \in {0, 1}
          /\ f.size \in {"full", "long", "header", "none"}
      BY DEF E!Frames, Stations
    <3>3. rblk'.frame = [to |-> f.to, from |-> f.from, proto |-> f.proto, size |-> f.size, id |-> Len(heard) + 1]
      BY <3>1
    <3>4. rblk'.frame \in LinkFrame /\ rblk'.frame.id = Len(heard) + 1
      BY <1>l, <3>2, <3>3 DEF LinkFrame
    <3>5. LinkTypes'
      BY <2>1, <2>2, <3>4 DEF LinkTypes
    <3>6. Books'
      BY <1>l, <1>m, <1>h, <2>1, <2>2 DEF Books, InHand, InPParam
    <3>7. Aside
      BY <2>1, <2>2, <3>4 DEF Aside
    <3> QED  BY <3>5, <3>6, <3>7
  <2>3. CASE /\ pieces' = Heap /\ rpc' = "wild" /\ rblk' = rblk /\ ~E!Fits(2)
             /\ note' = [note EXCEPT !.short = TRUE, !.extra = @ + (Heap - pieces)]
    <3>1. /\ note'.extra = note.extra + (Heap - pieces) /\ note'.before = note.before /\ note'.short = TRUE
          /\ note' = [extra |-> note.extra + (Heap - pieces), short |-> TRUE, before |-> note.before]
      BY <2>3 DEF LinkTypes
    <3>2. Heap \in Nat
      BY PlatformConstants DEF E!LinkConstants
    <3>a. note' \in [extra : Int, short : BOOLEAN, before : Nat]
      BY <1>m, <1>n, <3>1, <3>2
    <3>3. LinkTypes'
      BY <2>1, <2>3, <3>a, <3>2 DEF LinkTypes
    <3>4. Books'
      BY <1>l, <1>m, <1>h, <2>1, <2>3, <3>1, <3>2 DEF Books, InHand, InPParam
    <3>5. Aside
      BY <2>1, <2>3, <3>1 DEF Aside
    <3> QED  BY <3>3, <3>4, <3>5
  <2> QED  BY <1>3, <2>2, <2>3 DEF E!ReadPkt
\* enqueue_nqueue and enqueue: what an allocation that fails leaves behind.
<1>s. ASSUME E!Short
      PROVE  /\ note' \in [extra : Int, short : BOOLEAN, before : Nat] /\ note'.extra = note.extra
             /\ note'.before = note.before /\ note'.short
  BY <1>s DEF E!Short, LinkTypes
<1>e. ASSUME note' = [note EXCEPT !.extra = @ + 1] \/ note' = [note EXCEPT !.short = TRUE, !.extra = @ + 1]
      PROVE  /\ note' \in [extra : Int, short : BOOLEAN, before : Nat] /\ note'.extra = note.extra + 1
             /\ note'.before = note.before
  <2>0. note \in [extra : Int, short : BOOLEAN, before : Nat] /\ note.extra + 1 \in Int
    BY <1>m DEF LinkTypes
  <2>1. CASE note' = [note EXCEPT !.extra = @ + 1]
    BY <2>0, <2>1
  <2>2. CASE note' = [note EXCEPT !.short = TRUE, !.extra = @ + 1]
    BY <2>0, <2>2
  <2> QED  BY <1>e, <2>1, <2>2
<1>4. CASE E!ScanResult
  <2>1. /\ rpc = "got" /\ rpc' = "free" /\ UNCHANGED <<rblk, frq, rx, lpc, lbuf, raw, heard, got>>
    BY <1>4 DEF E!ScanResult
  <2>2. CASE E!Fits(1)
    <3>1. scanq' = Append(scanq, rblk.frame.id) /\ pieces' = pieces + 1 /\ note' = note
      BY <1>4, <2>2 DEF E!ScanResult
    <3>2. rblk.frame.id \in Nat
      BY DEF LinkTypes, LinkFrame
    <3>3. scanq' \in Seq(Nat) /\ Len(scanq') = Len(scanq) + 1
      BY <3>1, <3>2, AppendFacts DEF LinkTypes
    <3>4. LinkTypes'
      BY <2>1, <3>1, <3>3 DEF LinkTypes
    <3>5. Books'
      BY <1>l, <1>m, <1>h, <2>1, <3>1, <3>3 DEF Books, InHand, InPParam
    <3>6. Aside
      BY <2>1, <3>1 DEF Aside
    <3> QED  BY <3>4, <3>5, <3>6
  <2>3. CASE ~E!Fits(1)
    <3>1. E!Short /\ UNCHANGED <<scanq, pieces>>
      BY <1>4, <2>3 DEF E!ScanResult
    <3>2. LinkTypes'
      BY <1>s, <2>1, <3>1 DEF LinkTypes
    <3>3. Books'
      BY <1>s, <2>1, <3>1 DEF Books, InHand, InPParam
    <3>4. Aside
      BY <1>s, <2>1, <3>1 DEF Aside
    <3> QED  BY <3>2, <3>3, <3>4
  <2> QED  BY <2>2, <2>3
<1>5. CASE E!Freeb
  <2>1. /\ rpc = "free" /\ rpc' = "idle" /\ pieces' = pieces - 2
        /\ UNCHANGED <<rblk, frq, scanq, rx, lpc, lbuf, raw, heard, got, note>>
    BY <1>5 DEF E!Freeb
  <2>2. LinkTypes'
    BY <2>1 DEF LinkTypes
  <2>3. Books'
    BY <1>l, <1>m, <1>h, <2>1 DEF Books, InHand, InPParam
  <2>4. Aside
    BY <2>1 DEF Aside
  <2> QED  BY <2>2, <2>3, <2>4
<1>6. CASE E!EtherIq
  <2>1. /\ rpc = "got" /\ rpc' = "idle" /\ heard' = Append(heard, rblk.frame)
        /\ UNCHANGED <<rblk, scanq, rx, lpc, lbuf, raw, got>>
    BY <1>6 DEF E!EtherIq
  <2>2. heard' \in Seq(LinkFrame) /\ Len(heard') = Len(heard) + 1
    BY <2>1, AppendFacts DEF LinkTypes
  <2>3. CASE ~E!Fits(1)
    <3>1. E!Short /\ UNCHANGED <<pieces, frq>>
      BY <1>6, <2>3 DEF E!EtherIq
    <3>2. LinkTypes'
      BY <1>s, <2>1, <2>2, <3>1 DEF LinkTypes
    <3>3. Books'
      BY <1>l, <1>m, <1>h, <1>s, <2>1, <2>2, <3>1 DEF Books, InHand, InPParam
    <3>4. Received
      BY <1>s, <2>1, <3>1 DEF Received
    <3> QED  BY <3>2, <3>3, <3>4
  <2>4. CASE E!Fits(1) /\ rblk.frame.size = "long"
    <3>1. pieces' = pieces + 1 /\ note' = [note EXCEPT !.extra = @ + 1] /\ frq' = frq
      BY <1>6, <2>4 DEF E!EtherIq
    <3>2. LinkTypes'
      BY <1>e, <2>1, <2>2, <3>1 DEF LinkTypes
    <3>3. Books'
      BY <1>l, <1>m, <1>h, <1>e, <2>1, <2>2, <3>1 DEF Books, InHand, InPParam
    <3>4. ~note'.short => ~note.short
      BY <1>n, <3>1
    <3>5. Received
      BY <1>e, <2>1, <2>4, <3>1, <3>4 DEF Received
    <3> QED  BY <3>2, <3>3, <3>5
  <2>5. CASE E!Fits(1) /\ rblk.frame.size # "long"
    <3>1. pieces' = pieces + 1 /\ frq' = Append(frq, rblk.frame) /\ note' = note
      BY <1>6, <2>5 DEF E!EtherIq
    <3>2. frq' \in Seq(LinkFrame) /\ Len(frq') = Len(frq) + 1
      BY <3>1, AppendFacts DEF LinkTypes
    <3>3. LinkTypes'
      BY <2>1, <2>2, <3>1, <3>2 DEF LinkTypes
    <3>4. Books'
      BY <1>l, <1>m, <1>h, <2>1, <2>2, <3>1, <3>2 DEF Books, InHand, InPParam
    <3>5. Received
      BY <2>1, <3>1 DEF Received
    <3> QED  BY <3>3, <3>4, <3>5
  <2> QED  BY <2>3, <2>4, <2>5
<1>7. CASE E!Take
  <2>1. /\ lpc = "loop" /\ lpc' = "look" /\ frq # <<>> /\ lbuf' = Head(frq) /\ frq' = Tail(frq)
        /\ pieces' = pieces - 1 /\ UNCHANGED <<rpc, rblk, scanq, rx, raw, heard, got, note>>
    BY <1>7 DEF E!Take
  <2>2. frq' \in Seq(LinkFrame) /\ lbuf' \in LinkFrame /\ Len(frq') = Len(frq) - 1
    BY <2>1, TailFacts DEF LinkTypes
  <2>3. LinkTypes'
    BY <2>1, <2>2 DEF LinkTypes
  <2>4. Books'
    <3>1. InHand' = InHand /\ InPParam' = InPParam
      BY <2>1 DEF InHand, InPParam
    <3> QED  BY <1>l, <1>m, <1>h, <2>1, <2>2, <3>1 DEF Books
  <2>5. Taken
    BY <2>1 DEF Taken
  <2> QED  BY <2>3, <2>4, <2>5
<1>8. CASE E!Look
  <2> DEFINE mine == lbuf.size = "full" /\ lbuf.to \in {"own", "all"} /\ lbuf.proto = raw
  <2>1. lpc = "look" /\ UNCHANGED <<rpc, rblk, frq, scanq, rx, lbuf, raw, heard, got>>
    BY <1>8 DEF E!Look
  <2>2. CASE mine /\ E!Fits(1)
    <3>1. pieces' = pieces + 1 /\ lpc' = "pass" /\ note' = note
      BY <1>8, <2>2 DEF E!Look, E!ForUs
    <3>2. LinkTypes'
      BY <2>1, <3>1 DEF LinkTypes
    <3>3. Books'
      <4>1. InHand' = InHand /\ InPParam' = InPParam + 1
        BY <2>1, <3>1 DEF InHand, InPParam
      <4> QED  BY <1>l, <1>m, <1>h, <2>1, <3>1, <4>1 DEF Books
    <3>4. Looked
      BY <2>1, <2>2, <3>1 DEF Looked
    <3> QED  BY <3>2, <3>3, <3>4
  <2>3. CASE mine /\ ~E!Fits(1)
    <3>1. E!Short /\ lpc' = "loop" /\ pieces' = pieces
      BY <1>8, <2>3 DEF E!Look, E!ForUs
    <3>2. LinkTypes'
      BY <1>s, <2>1, <3>1 DEF LinkTypes
    <3>3. Books'
      BY <1>s, <2>1, <3>1 DEF Books, InHand, InPParam
    <3>4. Looked
      BY <1>s, <2>1, <2>3, <3>1 DEF Looked
    <3> QED  BY <3>2, <3>3, <3>4
  <2>4. CASE ~mine
    <3>1. lpc' = "loop" /\ pieces' = pieces /\ note' = note
      BY <1>8, <2>4 DEF E!Look, E!ForUs
    <3>2. LinkTypes'
      BY <2>1, <3>1 DEF LinkTypes
    <3>3. Books'
      BY <2>1, <3>1 DEF Books, InHand, InPParam
    <3>4. Looked
      BY <2>1, <2>4, <3>1 DEF Looked
    <3> QED  BY <3>2, <3>3, <3>4
  <2> QED  BY <2>2, <2>3, <2>4
<1>9. CASE E!Pass
  <2> DEFINE m == [id |-> lbuf.id, sender |-> lbuf.from]
  <2>1. lpc = "pass" /\ lpc' = "loop" /\ UNCHANGED <<rpc, rblk, frq, scanq, lbuf, raw, heard, got>>
    BY <1>9 DEF E!Pass
  <2>2. CASE E!Fits(1)
    <3>1. pieces' = pieces + 1 /\ rx' = Append(rx, m) /\ note' = note
      BY <1>9, <2>2 DEF E!Pass
    <3>2. m \in RawFrame
      BY DEF LinkTypes, LinkFrame, RawFrame
    <3>3. rx' \in Seq(RawFrame) /\ Len(rx') = Len(rx) + 1
      BY <3>1, <3>2, AppendFacts DEF LinkTypes
    <3>4. LinkTypes'
      BY <2>1, <3>1, <3>3 DEF LinkTypes
    <3>5. Books'
      <4>1. InHand' = InHand /\ InPParam' = InPParam - 1
        BY <2>1, <3>1 DEF InHand, InPParam
      <4> QED  BY <1>l, <1>m, <1>h, <2>1, <3>1, <3>3, <4>1 DEF Books
    <3>6. PassedOn
      BY <2>1, <3>1 DEF PassedOn
    <3> QED  BY <3>4, <3>5, <3>6
  <2>3. CASE ~E!Fits(1)
    <3>1. note' = [note EXCEPT !.short = TRUE, !.extra = @ + 1] /\ UNCHANGED <<pieces, rx>>
      BY <1>9, <2>3 DEF E!Pass
    <3>2. note'.short
      BY <3>1 DEF LinkTypes
    <3>3. LinkTypes'
      BY <1>e, <2>1, <3>1 DEF LinkTypes
    <3>4. Books'
      <4>1. InHand' = InHand /\ InPParam' = InPParam - 1 /\ note'.extra = note.extra + 1
        BY <1>e, <2>1, <3>1 DEF InHand, InPParam
      <4>2. UNCHANGED <<pieces, rx, scanq, frq, heard, got>>
        BY <2>1, <3>1
      <4> QED  BY <1>l, <1>m, <1>h, <4>1, <4>2 DEF Books
    <3>5. PassedOn
      BY <1>e, <2>1, <3>1, <3>2 DEF PassedOn
    <3> QED  BY <3>3, <3>4, <3>5
  <2> QED  BY <2>2, <2>3
<1>10. CASE E!ReceiveRaw
  <2>1. /\ rx # <<>> /\ got' = Append(got, Head(rx)) /\ rx' = Tail(rx) /\ pieces' = pieces - 1
        /\ UNCHANGED <<rpc, rblk, frq, scanq, lpc, lbuf, raw, heard, note>>
    BY <1>10 DEF E!ReceiveRaw
  <2>2. Head(rx) \in RawFrame /\ rx' \in Seq(RawFrame) /\ Len(rx') = Len(rx) - 1
    BY <2>1, TailFacts DEF LinkTypes
  <2>3. got' \in Seq(RawFrame) /\ Len(got') = Len(got) + 1
    BY <2>1, <2>2, AppendFacts DEF LinkTypes
  <2>4. LinkTypes'
    BY <2>1, <2>2, <2>3 DEF LinkTypes
  <2>5. Books'
    <3>1. InHand' = InHand /\ InPParam' = InPParam
      BY <2>1 DEF InHand, InPParam
    <3> QED  BY <1>l, <1>m, <1>h, <2>1, <2>2, <2>3, <3>1 DEF Books
  <2>6. Fetched
    BY <2>1 DEF Fetched
  <2> QED  BY <2>4, <2>5, <2>6
<1>11. CASE E!ReceiveScanResults
  <2>1. /\ scanq # <<>> /\ scanq' = Tail(scanq) /\ pieces' = pieces - 1
        /\ UNCHANGED <<rpc, rblk, frq, rx, lpc, lbuf, raw, heard, got, note>>
    BY <1>11 DEF E!ReceiveScanResults
  <2>2. scanq' \in Seq(Nat) /\ Len(scanq') = Len(scanq) - 1
    BY <2>1, TailFacts DEF LinkTypes
  <2>3. LinkTypes'
    BY <2>1, <2>2 DEF LinkTypes
  <2>4. Books'
    <3>1. InHand' = InHand /\ InPParam' = InPParam
      BY <2>1 DEF InHand, InPParam
    <3> QED  BY <1>l, <1>m, <1>h, <2>1, <2>2, <3>1 DEF Books
  <2>5. Aside
    BY <2>1 DEF Aside
  <2> QED  BY <2>3, <2>4, <2>5
<1>12. E!Next => \/ E!Allocate \/ E!Attach \/ E!InitializeLinkLayer \/ E!Dispatch
                 \/ E!EnableRaw \/ E!ReadPkt \/ E!ScanResult \/ E!Freeb \/ E!EtherIq
                 \/ E!Take \/ E!Look \/ E!Pass \/ E!ReceiveRaw \/ E!ReceiveScanResults
  BY DEF E!Next, E!Rproc, E!LinkTask, E!Client
<1> QED
  BY <1>1, <1>2, <1>3, <1>4, <1>5, <1>6, <1>7, <1>8, <1>9, <1>10, <1>11, <1>12, Zenon

\* The numbers of the frames stay those of their order of arrival.
LEMMA NumberedStep ==
    ASSUME LinkTypes, Numbered,
           Aside \/ Enabled \/ Received \/ Taken \/ Looked \/ PassedOn \/ Fetched
    PROVE  Numbered'
<1>l. Len(heard) \in Nat /\ Len(frq) \in Nat
  BY DEF LinkTypes
<1>1. CASE Aside
  BY <1>1 DEF Aside, Numbered
<1>2. CASE Enabled
  BY <1>2 DEF Enabled, Numbered
<1>3. CASE Received
  <2>1. /\ rpc = "got" /\ rpc' = "idle" /\ heard' = Append(heard, rblk.frame) /\ UNCHANGED <<lbuf, lpc>>
        /\ frq' = frq \/ frq' = Append(frq, rblk.frame)
    BY <1>3 DEF Received
  <2>2. /\ Len(heard') = Len(heard) + 1 /\ heard'[Len(heard) + 1] = rblk.frame
        /\ \A i \in 1..Len(heard) : heard'[i] = heard[i]
    BY <2>1, AppendFacts DEF LinkTypes
  <2>3. rblk.frame.id = Len(heard) + 1
    BY <2>1 DEF Numbered
  <2>4. \A i \in 1..Len(heard') : heard'[i].id = i
    BY <1>l, <2>2, <2>3 DEF Numbered
  <2>5. ASSUME NEW i \in 1..Len(frq') PROVE frq'[i].id \in 1..Len(heard') /\ frq'[i] = heard'[frq'[i].id]
    <3>1. CASE i \in 1..Len(frq) /\ frq'[i] = frq[i]
      BY <1>l, <2>2, <3>1 DEF Numbered
    <3>2. CASE frq'[i] = rblk.frame
      BY <1>l, <2>2, <2>3, <3>2
    <3>3. rblk.frame \in LinkFrame /\ frq \in Seq(LinkFrame)
      BY DEF LinkTypes
    <3> QED  BY <2>1, <2>5, <3>1, <3>2, <3>3, Appended
  <2>6. lpc' # "loop" => lbuf'.id \in 1..Len(heard') /\ lbuf' = heard'[lbuf'.id]
    BY <1>l, <2>1, <2>2 DEF Numbered
  <2> QED  BY <2>1, <2>4, <2>5, <2>6 DEF Numbered
<1>4. CASE Taken
  <2>1. /\ frq # <<>> /\ frq' = Tail(frq) /\ lbuf' = Head(frq) /\ UNCHANGED <<heard, rpc, rblk>>
    BY <1>4 DEF Taken
  <2>2. /\ Len(frq') = Len(frq) - 1 /\ Len(frq) >= 1 /\ lbuf' = frq[1]
        /\ \A i \in 1..(Len(frq) - 1) : frq'[i] = frq[i + 1]
    BY <2>1, TailFacts DEF LinkTypes
  <2>3. \A i \in 1..Len(frq') : i + 1 \in 1..Len(frq) /\ frq'[i] = frq[i + 1]
    BY <1>l, <2>2
  <2>4. 1 \in 1..Len(frq)
    BY <1>l, <2>2
  <2> QED  BY <2>1, <2>2, <2>3, <2>4 DEF Numbered
<1>5. CASE Looked
  BY <1>5 DEF Looked, Numbered
<1>6. CASE PassedOn
  BY <1>6 DEF PassedOn, Numbered
<1>7. CASE Fetched
  BY <1>7 DEF Fetched, Numbered
<1> QED  BY <1>1, <1>2, <1>3, <1>4, <1>5, <1>6, <1>7

\* No step gives the client a frame that is not for it.
LEMMA FitStep ==
    ASSUME LinkTypes, Numbered, FitOnly, LinkTypes',
           Aside \/ Enabled \/ Received \/ Taken \/ Looked \/ PassedOn \/ Fetched
    PROVE  FitOnly'
<1>l. Len(heard) \in Nat /\ Len(rx) \in Nat /\ Len(got) \in Nat
  BY DEF LinkTypes
<1>1. CASE Aside
  BY <1>1 DEF Aside, FitOnly, Fit, Passed
<1>2. CASE Enabled
  BY <1>2 DEF Enabled, FitOnly, Fit, Passed
<1>3. CASE Received
  <2>1. /\ heard' = Append(heard, rblk.frame) /\ UNCHANGED <<lbuf, lpc, rx, got, raw>>
    BY <1>3 DEF Received
  <2>2. Len(heard') = Len(heard) + 1 /\ \A i \in 1..Len(heard) : heard'[i] = heard[i]
    BY <2>1, AppendFacts DEF LinkTypes
  <2> QED  BY <1>l, <2>1, <2>2 DEF FitOnly, Fit, Passed
<1>4. CASE Taken
  BY <1>4 DEF Taken, FitOnly, Fit, Passed
<1>5. CASE Looked
  BY <1>5 DEF Looked, FitOnly, Fit, Passed
<1>6. CASE PassedOn
  <2> DEFINE m == [id |-> lbuf.id, sender |-> lbuf.from]
  <2>1. /\ lpc = "pass" /\ lpc' = "loop" /\ UNCHANGED <<heard, lbuf, got, raw>>
        /\ rx' = rx \/ rx' = Append(rx, m)
    BY <1>6 DEF PassedOn
  <2>2. Passed(m)
    <3>1. m.id = lbuf.id /\ m.sender = lbuf.from
      OBVIOUS
    <3> QED  BY <2>1, <3>1 DEF Passed, FitOnly, Numbered
  <2>3. m \in RawFrame
    BY DEF LinkTypes, LinkFrame, RawFrame
  <2> HIDE DEF m
  <2>4. ASSUME NEW i \in 1..Len(rx') PROVE Passed(rx'[i])
    <3>1. CASE i \in 1..Len(rx) /\ rx'[i] = rx[i]
      BY <3>1 DEF FitOnly
    <3>2. CASE rx'[i] = m
      BY <2>2, <3>2
    <3>3. rx \in Seq(RawFrame)
      BY DEF LinkTypes
    <3> QED  BY <2>1, <2>3, <2>4, <3>1, <3>2, <3>3, Appended
  <2> QED  BY <2>1, <2>4 DEF FitOnly, Passed, Fit
<1>7. CASE Fetched
  <2>1. /\ rx # <<>> /\ rx' = Tail(rx) /\ got' = Append(got, Head(rx)) /\ UNCHANGED <<heard, lbuf, lpc, raw>>
    BY <1>7 DEF Fetched
  <2>2. /\ Len(rx') = Len(rx) - 1 /\ Len(rx) >= 1 /\ Head(rx) = rx[1] /\ Head(rx) \in RawFrame
        /\ \A i \in 1..(Len(rx) - 1) : rx'[i] = rx[i + 1]
    BY <2>1, TailFacts DEF LinkTypes
  <2>3. /\ Len(got') = Len(got) + 1 /\ got'[Len(got) + 1] = rx[1]
        /\ \A i \in 1..Len(got) : got'[i] = got[i]
    BY <2>1, <2>2, AppendFacts DEF LinkTypes
  <2>4. 1 \in 1..Len(rx) /\ \A i \in 1..Len(rx') : i + 1 \in 1..Len(rx) /\ rx'[i] = rx[i + 1]
    BY <1>l, <2>2
  <2>5. \A i \in 1..Len(rx') : Passed(rx'[i])
    BY <2>4 DEF FitOnly
  <2>6. \A i \in 1..Len(got') : Passed(got'[i])
    <3> SUFFICES ASSUME NEW i \in 1..Len(got') PROVE Passed(got'[i])
      OBVIOUS
    <3>1. i \in 1..Len(got) \/ i = Len(got) + 1
      BY <1>l, <2>3
    <3> QED  BY <2>3, <2>4, <3>1 DEF FitOnly
  <2> QED  BY <2>1, <2>5, <2>6 DEF FitOnly, Passed, Fit
<1> QED  BY <1>1, <1>2, <1>3, <1>4, <1>5, <1>6, <1>7

\* No step of rproc, the link layer task or the client changes the order.
LEMMA InLineStep ==
    ASSUME LinkTypes, Numbered, FitOnly, InLine,
           Aside \/ Enabled \/ Received \/ Taken \/ Looked \/ PassedOn \/ Fetched
    PROVE  InLine'
<1>l. /\ Len(heard) \in Nat /\ Len(rx) \in Nat /\ Len(got) \in Nat /\ Len(frq) \in Nat
      /\ \A i \in 1..Len(got) : got[i].id \in Nat
      /\ \A i \in 1..Len(rx) : rx[i].id \in Nat
      /\ \A i \in 1..Len(frq) : frq[i].id \in Nat
  <2>1. /\ got \in Seq(RawFrame) /\ rx \in Seq(RawFrame) /\ frq \in Seq(LinkFrame) /\ heard \in Seq(LinkFrame)
    BY DEF LinkTypes
  <2>2. /\ \A i \in 1..Len(got) : got[i] \in RawFrame
        /\ \A i \in 1..Len(rx) : rx[i] \in RawFrame
        /\ \A i \in 1..Len(frq) : frq[i] \in LinkFrame
    BY <2>1
  <2>3. (\A m \in RawFrame : m.id \in Nat) /\ (\A f \in LinkFrame : f.id \in Nat)
    BY DEF RawFrame, LinkFrame
  <2> QED  BY <2>1, <2>2, <2>3
<1>1. CASE UNCHANGED <<frq, lbuf, lpc, rx, got>>
  BY <1>1 DEF InLine
<1>2. CASE Received
  <2>1. /\ rpc = "got" /\ UNCHANGED <<lbuf, lpc, rx, got>>
        /\ frq' = frq \/ frq' = Append(frq, rblk.frame)
    BY <1>2 DEF Received
  <2>2. CASE frq' = frq
    BY <1>1, <2>1, <2>2
  <2>3. CASE frq' = Append(frq, rblk.frame)
    <3>1. /\ Len(frq') = Len(frq) + 1 /\ frq'[Len(frq) + 1] = rblk.frame
          /\ \A i \in 1..Len(frq) : frq'[i] = frq[i]
      BY <2>3, AppendFacts DEF LinkTypes
    <3>2. rblk.frame.id = Len(heard) + 1
      BY <2>1 DEF Numbered
    <3>3. ASSUME NEW j \in 1..Len(frq')
          PROVE  (j \in 1..Len(frq) /\ frq'[j] = frq[j]) \/ (j = Len(frq) + 1 /\ frq'[j].id = Len(heard) + 1)
      BY <1>l, <3>1, <3>2
    \* The frame that was read last has the largest number.
    <3>4. /\ \A i \in 1..Len(got) : got[i].id < Len(heard) + 1
          /\ \A i \in 1..Len(rx) : rx[i].id < Len(heard) + 1
          /\ \A i \in 1..Len(frq) : frq[i].id < Len(heard) + 1
          /\ lpc # "loop" => lbuf.id < Len(heard) + 1
      BY <1>l DEF FitOnly, Passed, Numbered
    <3>5. \A i, j \in 1..Len(frq') : i < j => frq'[i].id < frq'[j].id
      <4> SUFFICES ASSUME NEW i \in 1..Len(frq'), NEW j \in 1..Len(frq'), i < j
                   PROVE  frq'[i].id < frq'[j].id
        OBVIOUS
      <4>1. i \in 1..Len(frq) /\ frq'[i] = frq[i]
        BY <1>l, <3>1
      <4>2. CASE j \in 1..Len(frq) /\ frq'[j] = frq[j]
        BY <4>1, <4>2 DEF InLine
      <4>3. CASE frq'[j].id = Len(heard) + 1
        BY <3>4, <4>1, <4>3
      <4> QED  BY <3>3, <4>2, <4>3
    <3>6. ASSUME NEW j \in 1..Len(frq')
          PROVE  /\ \A i \in 1..Len(got) : got[i].id < frq'[j].id
                 /\ \A i \in 1..Len(rx) : rx[i].id < frq'[j].id
                 /\ lpc # "loop" => lbuf.id < frq'[j].id
      <4>1. CASE j \in 1..Len(frq) /\ frq'[j] = frq[j]
        BY <4>1 DEF InLine
      <4>2. CASE frq'[j].id = Len(heard) + 1
        BY <3>4, <4>2
      <4> QED  BY <3>3, <4>1, <4>2
    <3> QED  BY <2>1, <3>5, <3>6 DEF InLine
  <2> QED  BY <2>1, <2>2, <2>3
<1>3. CASE Taken
  <2>1. /\ frq # <<>> /\ frq' = Tail(frq) /\ lbuf' = Head(frq) /\ UNCHANGED <<rx, got>>
    BY <1>3 DEF Taken
  <2>2. /\ Len(frq') = Len(frq) - 1 /\ Len(frq) >= 1 /\ lbuf' = frq[1]
        /\ \A i \in 1..(Len(frq) - 1) : frq'[i] = frq[i + 1]
    BY <2>1, TailFacts DEF LinkTypes
  <2>3. 1 \in 1..Len(frq) /\ \A i \in 1..Len(frq') : i + 1 \in 1..Len(frq) /\ frq'[i] = frq[i + 1]
    BY <1>l, <2>2
  <2>4. \A i, j \in 1..Len(frq') : i < j => frq'[i].id < frq'[j].id
    <3> SUFFICES ASSUME NEW i \in 1..Len(frq'), NEW j \in 1..Len(frq'), i < j
                 PROVE  frq'[i].id < frq'[j].id
      OBVIOUS
    <3>1. i + 1 < j + 1 /\ i + 1 \in 1..Len(frq) /\ j + 1 \in 1..Len(frq)
      BY <2>3
    <3> QED  BY <2>3, <3>1 DEF InLine
  <2>5. \A j \in 1..Len(frq') : /\ \A i \in 1..Len(got) : got[i].id < frq'[j].id
                                /\ \A i \in 1..Len(rx) : rx[i].id < frq'[j].id
                                /\ frq[1].id < frq'[j].id
    <3> SUFFICES ASSUME NEW j \in 1..Len(frq')
                 PROVE  /\ \A i \in 1..Len(got) : got[i].id < frq'[j].id
                        /\ \A i \in 1..Len(rx) : rx[i].id < frq'[j].id
                        /\ frq[1].id < frq'[j].id
      OBVIOUS
    <3>1. j + 1 \in 1..Len(frq) /\ frq'[j] = frq[j + 1] /\ 1 < j + 1
      BY <1>l, <2>2, <2>3
    <3> QED  BY <2>3, <3>1 DEF InLine
  <2>6. /\ \A i \in 1..Len(got) : got[i].id < frq[1].id
        /\ \A i \in 1..Len(rx) : rx[i].id < frq[1].id
    BY <2>3 DEF InLine
  <2> QED  BY <2>1, <2>2, <2>4, <2>5, <2>6 DEF InLine
<1>4. CASE Looked
  BY <1>4 DEF Looked, InLine
<1>5. CASE PassedOn
  <2> DEFINE m == [id |-> lbuf.id, sender |-> lbuf.from]
  <2>1. /\ lpc = "pass" /\ lpc' = "loop" /\ UNCHANGED <<frq, lbuf, got>>
        /\ rx' = rx \/ rx' = Append(rx, m)
    BY <1>5 DEF PassedOn
  <2>2. m \in RawFrame /\ m.id = lbuf.id
    BY DEF LinkTypes, LinkFrame, RawFrame
  <2> HIDE DEF m
  <2>3. CASE rx' = rx
    BY <2>1, <2>3 DEF InLine
  <2>4. CASE rx' = Append(rx, m)
    <3>1. /\ Len(rx') = Len(rx) + 1 /\ rx'[Len(rx) + 1] = m
          /\ \A i \in 1..Len(rx) : rx'[i] = rx[i]
      BY <2>2, <2>4, AppendFacts DEF LinkTypes
    <3>2. \A j \in 1..Len(rx') : (j \in 1..Len(rx) /\ rx'[j] = rx[j]) \/ rx'[j].id = lbuf.id
      BY <1>l, <2>2, <3>1
    <3>3. /\ \A i \in 1..Len(got) : got[i].id < lbuf.id
          /\ \A i \in 1..Len(rx) : rx[i].id < lbuf.id
          /\ \A j \in 1..Len(frq) : lbuf.id < frq[j].id
      BY <2>1 DEF InLine
    <3>4. \A i, j \in 1..Len(rx') : i < j => rx'[i].id < rx'[j].id
      <4> SUFFICES ASSUME NEW i \in 1..Len(rx'), NEW j \in 1..Len(rx'), i < j
                   PROVE  rx'[i].id < rx'[j].id
        OBVIOUS
      <4>1. i \in 1..Len(rx) /\ rx'[i] = rx[i]
        BY <1>l, <3>1
      <4>2. CASE j \in 1..Len(rx) /\ rx'[j] = rx[j]
        BY <4>1, <4>2 DEF InLine
      <4>3. CASE rx'[j].id = lbuf.id
        BY <3>3, <4>1, <4>3
      <4> QED  BY <3>2, <4>2, <4>3
    <3>5. ASSUME NEW j \in 1..Len(rx')
          PROVE  /\ \A i \in 1..Len(got) : got[i].id < rx'[j].id
                 /\ \A k \in 1..Len(frq) : rx'[j].id < frq[k].id
      <4>1. CASE j \in 1..Len(rx) /\ rx'[j] = rx[j]
        BY <4>1 DEF InLine
      <4>2. CASE rx'[j].id = lbuf.id
        BY <3>3, <4>2
      <4> QED  BY <3>2, <4>1, <4>2
    <3> QED  BY <2>1, <3>4, <3>5 DEF InLine
  <2> QED  BY <2>1, <2>3, <2>4
<1>6. CASE Fetched
  <2>1. /\ rx # <<>> /\ rx' = Tail(rx) /\ got' = Append(got, Head(rx)) /\ UNCHANGED <<frq, lbuf, lpc>>
    BY <1>6 DEF Fetched
  <2>2. /\ Len(rx') = Len(rx) - 1 /\ Len(rx) >= 1 /\ Head(rx) = rx[1] /\ Head(rx) \in RawFrame
        /\ \A i \in 1..(Len(rx) - 1) : rx'[i] = rx[i + 1]
    BY <2>1, TailFacts DEF LinkTypes
  <2>3. /\ Len(got') = Len(got) + 1 /\ got'[Len(got) + 1] = rx[1]
        /\ \A i \in 1..Len(got) : got'[i] = got[i]
    BY <2>1, <2>2, AppendFacts DEF LinkTypes
  <2>4. 1 \in 1..Len(rx) /\ \A i \in 1..Len(rx') : i + 1 \in 1..Len(rx) /\ rx'[i] = rx[i + 1] /\ 1 < i + 1
    BY <1>l, <2>2
  <2>5. \A j \in 1..Len(got') : (j \in 1..Len(got) /\ got'[j] = got[j]) \/ got'[j] = rx[1]
    BY <1>l, <2>3, SMTT(30)
  <2>6. \A i, j \in 1..Len(got') : i < j => got'[i].id < got'[j].id
    <3> SUFFICES ASSUME NEW i \in 1..Len(got'), NEW j \in 1..Len(got'), i < j
                 PROVE  got'[i].id < got'[j].id
      OBVIOUS
    <3>1. i \in 1..Len(got) /\ got'[i] = got[i]
      BY <1>l, <2>3
    <3>2. CASE j \in 1..Len(got) /\ got'[j] = got[j]
      BY <3>1, <3>2 DEF InLine
    <3>3. CASE got'[j] = rx[1]
      BY <2>4, <3>1, <3>3 DEF InLine
    <3> QED  BY <2>5, <3>2, <3>3
  <2>7. \A i, j \in 1..Len(rx') : i < j => rx'[i].id < rx'[j].id
    <3> SUFFICES ASSUME NEW i \in 1..Len(rx'), NEW j \in 1..Len(rx'), i < j
                 PROVE  rx'[i].id < rx'[j].id
      OBVIOUS
    <3>1. i + 1 < j + 1 /\ i + 1 \in 1..Len(rx) /\ j + 1 \in 1..Len(rx)
      BY <2>4
    <3> QED  BY <2>4, <3>1 DEF InLine
  <2>8. \A i \in 1..Len(got'), j \in 1..Len(rx') : got'[i].id < rx'[j].id
    <3> SUFFICES ASSUME NEW i \in 1..Len(got'), NEW j \in 1..Len(rx') PROVE got'[i].id < rx'[j].id
      OBVIOUS
    <3>1. j + 1 \in 1..Len(rx) /\ rx'[j] = rx[j + 1] /\ 1 < j + 1
      BY <2>4
    <3>2. CASE i \in 1..Len(got) /\ got'[i] = got[i]
      BY <3>1, <3>2 DEF InLine
    <3>3. CASE got'[i] = rx[1]
      BY <2>4, <3>1, <3>3 DEF InLine
    <3> QED  BY <2>5, <3>2, <3>3
  <2>9. ASSUME NEW x, \A i \in 1..Len(got) : got[i].id < x, \A i \in 1..Len(rx) : rx[i].id < x
        PROVE  (\A i \in 1..Len(got') : got'[i].id < x) /\ (\A i \in 1..Len(rx') : rx'[i].id < x)
    <3>1. \A i \in 1..Len(got') : got'[i].id < x
      BY <2>4, <2>5, <2>9
    <3>2. \A i \in 1..Len(rx') : rx'[i].id < x
      BY <2>4, <2>9
    <3> QED  BY <3>1, <3>2
  <2>10. \A j \in 1..Len(frq) : /\ \A i \in 1..Len(got') : got'[i].id < frq[j].id
                                /\ \A i \in 1..Len(rx') : rx'[i].id < frq[j].id
    BY <2>9 DEF InLine
  <2>11. lpc # "loop" => /\ \A i \in 1..Len(got') : got'[i].id < lbuf.id
                         /\ \A i \in 1..Len(rx') : rx'[i].id < lbuf.id
                         /\ \A j \in 1..Len(frq) : lbuf.id < frq[j].id
    BY <2>9 DEF InLine
  <2>12. \A i, j \in 1..Len(frq) : i < j => frq[i].id < frq[j].id
    BY DEF InLine
  <2> QED  BY <2>1, <2>6, <2>7, <2>8, <2>10, <2>11, <2>12 DEF InLine
<1> QED  BY <1>1, <1>2, <1>3, <1>4, <1>5, <1>6 DEF Aside, Enabled

\* No step loses a frame that was asked for while memory lasts.
LEMMA MissingStep ==
    ASSUME LinkTypes, Numbered, NoneMissing,
           Aside \/ Enabled \/ Received \/ Taken \/ Looked \/ PassedOn \/ Fetched
    PROVE  NoneMissing'
<1>l. /\ Len(heard) \in Nat /\ Len(rx) \in Nat /\ Len(got) \in Nat /\ Len(frq) \in Nat
      /\ note.before \in Nat
  BY DEF LinkTypes
<1> SUFFICES ASSUME raw' # 0, ~note'.short, NEW k \in 1..Len(heard'), Wanted(heard[k])'
             PROVE  Kept(k)'
  BY DEF NoneMissing
<1>n. \A i \in 1..Len(heard) : heard[i].id = i
  BY DEF Numbered
\* A frame that was heard and not lost before.
<1>k. ASSUME raw # 0, ~note.short, k \in 1..Len(heard), Wanted(heard[k]) PROVE Kept(k)
  BY <1>k DEF NoneMissing
<1>1. CASE Aside
  <2>1. Kept(k)
    BY <1>1, <1>k DEF Aside, Wanted
  <2> QED  BY <1>1, <2>1 DEF Aside, Kept
<1>2. CASE Enabled
  <2>1. k \in 1..Len(heard) /\ heard'[k].id = k /\ note'.before = Len(heard) /\ heard'[k].id > note'.before
    BY <1>2, <1>n DEF Enabled, Wanted
  <2> QED  BY <1>l, <2>1
<1>3. CASE Received
  <2>1. /\ rpc = "got" /\ heard' = Append(heard, rblk.frame)
        /\ UNCHANGED <<lbuf, lpc, rx, got, raw>> /\ note'.before = note.before /\ ~note.short
        /\ \/ frq' = Append(frq, rblk.frame)
           \/ frq' = frq /\ rblk.frame.size = "long"
    BY <1>3 DEF Received
  <2>2. /\ Len(heard') = Len(heard) + 1 /\ heard'[Len(heard) + 1] = rblk.frame
        /\ \A i \in 1..Len(heard) : heard'[i] = heard[i]
    BY <2>1, AppendFacts DEF LinkTypes
  <2>3. CASE k \in 1..Len(heard)
    <3>1. Kept(k)
      BY <1>k, <2>1, <2>2, <2>3 DEF Wanted
    <3>2. \A i \in 1..Len(frq) : i \in 1..Len(frq') /\ frq'[i] = frq[i]
      <4>1. CASE frq' = frq
        BY <4>1
      <4>2. CASE frq' = Append(frq, rblk.frame)
        <5>1. Len(frq') = Len(frq) + 1 /\ \A i \in 1..Len(frq) : frq'[i] = frq[i]
          BY <4>2, AppendFacts DEF LinkTypes
        <5> QED  BY <1>l, <5>1
      <4> QED  BY <2>1, <4>1, <4>2
    <3> QED  BY <2>1, <3>1, <3>2 DEF Kept
  <2>4. CASE k = Len(heard) + 1
    <3>1. frq' = Append(frq, rblk.frame)
      BY <2>1, <2>2, <2>4 DEF Wanted
    <3>2. Len(frq) + 1 \in 1..Len(frq') /\ frq'[Len(frq) + 1] = rblk.frame
      BY <1>l, <3>1, AppendFacts DEF LinkTypes
    <3>3. rblk.frame.id = k
      BY <2>1, <2>4 DEF Numbered
    <3> QED  BY <3>2, <3>3 DEF Kept
  <2> QED  BY <1>l, <2>2, <2>3, <2>4
<1>4. CASE Taken
  <2>1. /\ lpc = "loop" /\ lpc' = "look" /\ frq # <<>> /\ frq' = Tail(frq) /\ lbuf' = Head(frq)
        /\ UNCHANGED <<heard, rx, got, raw, note>>
    BY <1>4 DEF Taken
  <2>2. /\ Len(frq') = Len(frq) - 1 /\ lbuf' = frq[1]
        /\ \A i \in 1..(Len(frq) - 1) : frq'[i] = frq[i + 1]
    BY <2>1, TailFacts DEF LinkTypes
  <2>3. Kept(k)
    BY <1>k, <2>1 DEF Wanted
  <2>4. ASSUME NEW i \in 1..Len(frq), frq[i].id = k PROVE Kept(k)'
    <3>1. CASE i = 1
      BY <2>1, <2>2, <2>4, <3>1 DEF Kept
    <3>2. CASE i # 1
      <4>1. i - 1 \in 1..Len(frq') /\ frq'[i - 1] = frq[i]
        BY <1>l, <2>2, <3>2
      <4> QED  BY <2>4, <4>1 DEF Kept
    <3> QED  BY <3>1, <3>2
  <2>5. \/ \E i \in 1..Len(got) : got[i].id = k
        \/ \E i \in 1..Len(rx) : rx[i].id = k
        \/ \E i \in 1..Len(frq) : frq[i].id = k
    BY <2>1, <2>3 DEF Kept
  <2>6. CASE (\E i \in 1..Len(got) : got[i].id = k) \/ (\E i \in 1..Len(rx) : rx[i].id = k)
    BY <2>1, <2>6 DEF Kept
  <2> QED  BY <2>4, <2>5, <2>6
<1>5. CASE Looked
  <2>1. /\ lpc = "look" /\ UNCHANGED <<heard, frq, lbuf, rx, got, raw>>
        /\ note'.before = note.before /\ ~note.short
        /\ \/ lpc' = "pass"
           \/ /\ lpc' = "loop"
              /\ ~(lbuf.size = "full" /\ lbuf.to \in {"own", "all"} /\ lbuf.proto = raw)
    BY <1>5 DEF Looked
  <2>2. Kept(k) /\ k \in 1..Len(heard) /\ Wanted(heard[k])
    BY <1>k, <2>1 DEF Wanted
  <2>3. lpc' = "loop" => lbuf.id # k
    BY <2>1, <2>2 DEF Numbered, Wanted
  <2> QED  BY <2>1, <2>2, <2>3 DEF Kept
<1>6. CASE PassedOn
  <2> DEFINE m == [id |-> lbuf.id, sender |-> lbuf.from]
  <2>1. /\ lpc = "pass" /\ lpc' = "loop" /\ UNCHANGED <<heard, frq, lbuf, got, raw>>
        /\ note'.before = note.before /\ ~note.short /\ rx' = Append(rx, m)
    BY <1>6 DEF PassedOn
  <2>2. m \in RawFrame /\ m.id = lbuf.id
    BY DEF LinkTypes, LinkFrame, RawFrame
  <2> HIDE DEF m
  <2>3. /\ Len(rx') = Len(rx) + 1 /\ rx'[Len(rx) + 1] = m
        /\ \A i \in 1..Len(rx) : rx'[i] = rx[i]
    BY <2>1, <2>2, AppendFacts DEF LinkTypes
  <2>4. Kept(k)
    BY <1>k, <2>1 DEF Wanted
  <2>5. Len(rx) + 1 \in 1..Len(rx') /\ rx'[Len(rx) + 1].id = lbuf.id
    BY <1>l, <2>2, <2>3
  <2>6. \A i \in 1..Len(rx) : i \in 1..Len(rx') /\ rx'[i] = rx[i]
    BY <1>l, <2>3
  <2> QED  BY <2>1, <2>4, <2>5, <2>6 DEF Kept
<1>7. CASE Fetched
  <2>1. /\ rx # <<>> /\ rx' = Tail(rx) /\ got' = Append(got, Head(rx))
        /\ UNCHANGED <<heard, frq, lbuf, lpc, raw, note>>
    BY <1>7 DEF Fetched
  <2>2. /\ Len(rx') = Len(rx) - 1 /\ Head(rx) = rx[1] /\ Head(rx) \in RawFrame
        /\ \A i \in 1..(Len(rx) - 1) : rx'[i] = rx[i + 1]
    BY <2>1, TailFacts DEF LinkTypes
  <2>3. /\ Len(got') = Len(got) + 1 /\ got'[Len(got) + 1] = rx[1]
        /\ \A i \in 1..Len(got) : got'[i] = got[i]
    BY <2>1, <2>2, AppendFacts DEF LinkTypes
  <2>4. Kept(k)
    BY <1>k, <2>1 DEF Wanted
  <2>5. ASSUME NEW i \in 1..Len(rx), rx[i].id = k PROVE Kept(k)'
    <3>1. CASE i = 1
      <4>1. Len(got) + 1 \in 1..Len(got') /\ got'[Len(got) + 1].id = k
        BY <1>l, <2>3, <2>5, <3>1
      <4> QED  BY <4>1 DEF Kept
    <3>2. CASE i # 1
      <4>1. i - 1 \in 1..Len(rx') /\ rx'[i - 1] = rx[i]
        BY <1>l, <2>2, <3>2
      <4> QED  BY <2>5, <4>1 DEF Kept
    <3> QED  BY <3>1, <3>2
  <2>6. ASSUME NEW i \in 1..Len(got), got[i].id = k PROVE Kept(k)'
    <3>1. i \in 1..Len(got') /\ got'[i].id = k
      BY <1>l, <2>3, <2>6
    <3> QED  BY <3>1 DEF Kept
  <2>7. CASE (\E i \in 1..Len(frq) : frq[i].id = k) \/ (lpc # "loop" /\ lbuf.id = k)
    BY <2>1, <2>7 DEF Kept
  <2> QED  BY <2>4, <2>5, <2>6, <2>7 DEF Kept
<1> QED  BY <1>1, <1>2, <1>3, <1>4, <1>5, <1>6, <1>7

\* Every step of the link layer keeps its invariant.
LEMMA LinkStep ==
    ASSUME LinkInv, E!Next
    PROVE  LinkInv'
<1>1. /\ LinkTypes' /\ Books'
      /\ Aside \/ Enabled \/ Received \/ Taken \/ Looked \/ PassedOn \/ Fetched
  BY LinkMoves DEF LinkInv
<1>2. Numbered' /\ FitOnly' /\ InLine' /\ NoneMissing'
  BY <1>1, NumberedStep, FitStep, InLineStep, MissingStep DEF LinkInv
<1> QED  BY <1>1, <1>2 DEF LinkInv

\* The invariant of the link layer holds when the device is set up.
LEMMA LinkInit ==
    ASSUME E!Init
    PROVE  LinkInv
<1>1. /\ pieces = 0 /\ rpc = "idle" /\ rblk = [kind |-> "none", frame |-> E!NoFrame]
      /\ frq = <<>> /\ scanq = <<>> /\ rx = <<>> /\ lpc = "loop" /\ lbuf = E!NoFrame
      /\ raw = 0 /\ heard = <<>> /\ got = <<>>
      /\ note = [extra |-> 0, short |-> FALSE, before |-> 0]
  BY DEF E!Init
<1>2. E!NoFrame \in LinkFrame
  BY DEF E!NoFrame, LinkFrame, Stations
<1>3. Len(frq) = 0 /\ Len(scanq) = 0 /\ Len(rx) = 0 /\ Len(heard) = 0 /\ Len(got) = 0
  BY <1>1
<1>4. LinkTypes
  BY <1>1, <1>2 DEF LinkTypes
<1>5. Books
  <2>1. pieces = 0 /\ InHand = 0 /\ InPParam = 0 /\ note.extra = 0
    BY <1>1 DEF InHand, InPParam
  <2> QED  BY <1>3, <2>1 DEF Books
<1>6. Numbered /\ InLine /\ FitOnly /\ NoneMissing
  <2>1. lpc = "loop" /\ rpc = "idle" /\ raw = 0
    BY <1>1
  <2> QED  BY <1>3, <2>1 DEF Numbered, InLine, FitOnly, NoneMissing
<1> QED  BY <1>4, <1>5, <1>6 DEF LinkInv

\* What the invariant says of the frames, in the words of LinkLayer.
LEMMA LinkDelivers ==
    ASSUME LinkInv
    PROVE  E!Delivered
<1> DEFINE s == got \o rx
           g == Len(got)
           waiting == E!Ids(frq) \cup (IF lpc = "loop" THEN {} ELSE {lbuf.id})
<1>l. /\ g \in Nat /\ Len(rx) \in Nat /\ Len(heard) \in Nat /\ got \in Seq(RawFrame) /\ rx \in Seq(RawFrame)
      /\ DOMAIN heard = 1..Len(heard) /\ DOMAIN frq = 1..Len(frq)
  BY DEF LinkInv, LinkTypes
<1>1. /\ DOMAIN s = 1..(g + Len(rx)) /\ \A i \in 1..g : s[i] = got[i]
      /\ \A i \in 1..Len(rx) : s[g + i] = rx[i]
  BY <1>l
<1>2. \A i \in 1..(g + Len(rx)) : i \in 1..g \/ (i - g \in 1..Len(rx) /\ s[i] = rx[i - g])
  <2> SUFFICES ASSUME NEW i \in 1..(g + Len(rx)), i \notin 1..g
               PROVE  i - g \in 1..Len(rx) /\ s[i] = rx[i - g]
    OBVIOUS
  <2>1. i - g \in 1..Len(rx) /\ g + (i - g) = i
    BY <1>l
  <2> QED  BY <1>1, <2>1
<1> HIDE DEF s
<1>3. ASSUME NEW i \in DOMAIN s
      PROVE  LET f == heard[s[i].id]
             IN  /\ f.size = "full" /\ f.to \in {"own", "all"} /\ f.proto \in {raw, 0} /\ f.from = s[i].sender
                 /\ \A j \in 1..(i - 1) : s[j].id < s[i].id
  <2>1. Passed(s[i])
    BY <1>1, <1>2 DEF LinkInv, FitOnly
  <2>2. ASSUME NEW j \in 1..(i - 1) PROVE s[j].id < s[i].id
    <3>0. j \in 1..(g + Len(rx)) /\ i \in 1..(g + Len(rx)) /\ j < i
      BY <1>l, <1>1, <2>2
    <3>1. CASE i \in 1..g
      <4>1. j \in 1..g
        BY <1>l, <3>0, <3>1
      <4> QED  BY <1>1, <3>0, <3>1, <4>1 DEF LinkInv, InLine
    <3>2. CASE i \notin 1..g /\ j \in 1..g
      BY <1>1, <1>2, <3>0, <3>2 DEF LinkInv, InLine
    <3>3. CASE i \notin 1..g /\ j \notin 1..g
      <4>1. /\ i - g \in 1..Len(rx) /\ s[i] = rx[i - g]
            /\ j - g \in 1..Len(rx) /\ s[j] = rx[j - g]
        BY <1>2, <3>0, <3>3
      <4>2. j - g < i - g
        BY <1>l, <3>0
      <4> QED  BY <4>1, <4>2 DEF LinkInv, InLine
    <3> QED  BY <3>1, <3>2, <3>3
  <2> QED  BY <2>1, <2>2 DEF Passed, Fit
<1>4. ASSUME raw # 0, ~note.short, NEW f \in E!Range(heard), Wanted(f)
      PROVE  f.id \in E!Ids(s) \cup waiting
  <2>1. PICK k \in 1..Len(heard) : f = heard[k]
    BY <1>l, <1>4 DEF E!Range
  <2>2. f.id = k /\ Kept(k)
    BY <1>4, <2>1 DEF LinkInv, Numbered, NoneMissing
  <2>3. ASSUME NEW i \in 1..g, got[i].id = k PROVE k \in E!Ids(s)
    <3>1. i \in DOMAIN s /\ s[i].id = k
      BY <1>l, <1>1, <2>3
    <3> QED  BY <3>1 DEF E!Ids
  <2>4. ASSUME NEW i \in 1..Len(rx), rx[i].id = k PROVE k \in E!Ids(s)
    <3>1. g + i \in DOMAIN s /\ s[g + i].id = k
      BY <1>l, <1>1, <2>4
    <3> QED  BY <3>1 DEF E!Ids
  <2>5. ASSUME NEW i \in 1..Len(frq), frq[i].id = k PROVE k \in waiting
    BY <1>l, <2>5 DEF E!Ids
  <2> QED  BY <2>2, <2>3, <2>4, <2>5 DEF Kept
<1> QED  BY <1>3, <1>4 DEF E!Delivered, Wanted, s

\* Only the steps of the link layer move its variables.
LEMMA LinkUnit ==
    ASSUME unit = "link" => LinkInv, [PlatformNext]_all
    PROVE  (unit = "link" => LinkInv)'
<1>1. CASE unit = "link" /\ E!Next /\ unit' = unit
  BY <1>1, LinkStep
<1>2. CASE unit' = unit /\ UNCHANGED linkVars
  <2> SUFFICES ASSUME LinkInv PROVE LinkInv'
    BY <1>2
  <2>1. UNCHANGED <<pieces, rpc, rblk, frq, scanq, rx, lpc, lbuf, raw, heard, got, note>>
    BY <1>2 DEF linkVars
  <2>2. LinkTypes' /\ Books' /\ Numbered' /\ InLine' /\ FitOnly'
    BY <2>1, ZenonT(60)
    DEF LinkInv, LinkTypes, Books, InHand, InPParam, Numbered, InLine, FitOnly, Passed, Fit
  <2>3. NoneMissing'
    BY <2>1 DEF LinkInv, NoneMissing, Wanted, Kept
  <2> QED  BY <2>2, <2>3 DEF LinkInv
<1>3. \/ unit = "link" /\ E!Next /\ unit' = unit
      \/ unit' = unit /\ UNCHANGED linkVars
  BY DEF PlatformNext, all
<1> QED  BY <1>1, <1>2, <1>3

\* The client of the link layer gets the frames it asked for, each once, in order
\* and with its sender, none goes lost while there is memory, and memory is lost in
\* the three known places only, for any heap and any number of packets
\* (src/link_layer.c, src/plan9_ether4330.c).
THEOREM FramesAreDelivered == PlatformSpec => []FramesDelivered
<1>1. PlatformInit => (unit = "link" => LinkInv)
  BY LinkInit DEF PlatformInit
<1>2. (unit = "link" => LinkInv) /\ [PlatformNext]_all => (unit = "link" => LinkInv)'
  BY LinkUnit
<1>3. (unit = "link" => LinkInv) => FramesDelivered
  <2> SUFFICES ASSUME LinkInv PROVE E!Delivered /\ E!MemoryBooks
    BY DEF FramesDelivered
  <2>1. E!MemoryBooks
    BY DEF LinkInv, Books, InHand, InPParam, E!MemoryBooks
  <2> QED  BY <2>1, LinkDelivers
<1> QED  BY <1>1, <1>2, <1>3, PTL DEF PlatformSpec

-----------------------------------------------------------------------------
(* The kernel heap: KernelAllocProofs has the invariant.                   *)

\* For a heap whose limit is what kernel_alloc_init means, no block reaches
\* outside its frames, and as long as no call of src/kernel_alloc.c begins
\* while another is under way the free lists are exact, no two blocks overlap
\* and every block has one holder: nothing is handed out twice or lost.
THEOREM HeapIsExact == ASSUME SaneHeap PROVE PlatformSpec => []HeapExact
<1>1. PlatformInit => Init
  BY DEF PlatformInit
<1>2. [PlatformNext]_all => [Next]_vars
  BY DEF PlatformNext, all
<1>3. HeapInv /\ (~mixed => SoloInv) => FreeListShape /\ NothingSharedOrLost
  BY TidyIsExact
<1>4. Spec => [](HeapContained /\ FreeListShape /\ NothingSharedOrLost)
  BY <1>3, HeapInvariant, HeapIsTidy, HeapStaysInside, PTL
<1>5. PlatformSpec => Spec
  BY <1>1, <1>2, PTL DEF PlatformSpec, Spec
<1> QED BY <1>4, <1>5, PTL DEF HeapExact

-----------------------------------------------------------------------------
(* The frame allocator.                                                    *)

\* Whoever has a frame has it alone and its bit is set; every other bit that is
\* set is the kernel's or was never cleared.
FrameInv ==
    /\ holders \in [F!Indexes -> Nat] /\ available \in Int /\ next_idx \in Nat
    /\ stale \subseteq F!Frames \ (0..(KernelFrames - 1)) /\ 0..(KernelFrames - 1) \subseteq used
    /\ ~spanned =>
         /\ stale \subseteq used
         /\ \A f \in F!Indexes : holders[f] > 0 =>
              holders[f] = 1 /\ f \in used /\ f >= KernelFrames /\ f \notin stale
    /\ ~spanned /\ ~beyond =>
         /\ \A f \in F!Indexes : holders[f] > 0 => f \in F!Frames
         /\ \A f \in used \cap F!Frames : f < KernelFrames \/ holders[f] > 0 \/ f \in stale
         /\ available = Cardinality(F!Frames \ used) + Cardinality(stale)

\* The instance counts as FiniteSets does.
LEMMA SameCount == ASSUME NEW S PROVE F!Cardinality(S) = Cardinality(S)
BY DEF F!Cardinality, Cardinality

\* The sizes, for the provers.
LEMMA FrameSizes ==
    /\ WordBits \in Nat \ {0} /\ TotalFrames \in Nat /\ KernelFrames \in Nat \ {0}
    /\ KernelFrames <= TotalFrames /\ FrameRequests \subseteq Nat \ {0}
    /\ F!Frames \subseteq F!Indexes /\ F!Indexes \subseteq Nat
    /\ F!Frames = 0..(TotalFrames - 1)
<1>1. /\ WordBits \in Nat \ {0} /\ TotalFrames \in Nat /\ FrameRequests \subseteq Nat \ {0}
      /\ KernelFrames \in WordBits..TotalFrames
  BY PlatformConstants DEF F!FrameConstants
<1>2. TotalFrames <= TotalFrames * WordBits /\ TotalFrames * WordBits \in Nat
  BY <1>1
<1> QED BY <1>1, <1>2 DEF F!Frames, F!Indexes

\* The words of the bits searched, in the order of the bits.
LEMMA WordsOfIndexes ==
    ASSUME NEW f \in F!Indexes
    PROVE  /\ F!WordOf(f) \in Nat /\ F!WordOf(f) \in 0..(TotalFrames - 1)
           /\ \A g \in F!Indexes : f <= g => F!WordOf(f) <= F!WordOf(g)
<1>1. WordBits \in Nat \ {0} /\ TotalFrames \in Nat /\ f \in Nat /\ f < TotalFrames * WordBits
  BY FrameSizes DEF F!Indexes
<1>2. f = (f \div WordBits) * WordBits + (f % WordBits) /\ f \div WordBits \in Nat /\ f % WordBits \in Nat
  <2>1. /\ f = (f \div WordBits) * WordBits + (f % WordBits) /\ f \div WordBits \in Nat
        /\ f % WordBits \in 0..(WordBits - 1)
    BY <1>1, DivMod
  <2> HIDE DEF F!Indexes
  <2>2. f % WordBits \in Nat
    BY <2>1, <1>1
  <2> QED BY <2>1, <2>2
<1>3. f \div WordBits < TotalFrames
  <2> DEFINE q == f \div WordBits
             r == f % WordBits
  <2>1. q \in Nat /\ r \in Nat /\ f = q * WordBits + r
    BY <1>2
  <2> HIDE DEF q, r
  <2>2. SUFFICES ASSUME q >= TotalFrames PROVE FALSE
    BY <2>1, <1>1 DEF q
  <2>3. q * WordBits >= TotalFrames * WordBits /\ q * WordBits \in Nat
    BY <2>1, <2>2, <1>1
  <2> QED BY <2>1, <2>3, <1>1
<1>4. \A g \in F!Indexes : f <= g => f \div WordBits <= g \div WordBits
  BY <1>1, FrameSizes, DivMono
<1> QED BY <1>1, <1>2, <1>3, <1>4 DEF F!WordOf

\* What a search finds: f begins k visible free frames, in words lw to hw - 1.
LEMMA FoundInRange ==
    ASSUME NEW lw, NEW hw, NEW k, F!ContiguousIn(lw, hw, k) # 0
    PROVE  LET v == F!Visible(lw, hw)
               f == F!ContiguousIn(lw, hw, k)
           IN  /\ f \in v \ used /\ Cardinality(F!Run(v, f, k)) = k
               /\ F!Run(v, f, k) \cap used = {}
<1> DEFINE v == F!Visible(lw, hw)
           starts == {f \in v \ used : /\ F!Cardinality(F!Run(v, f, k)) = k
                                       /\ F!Run(v, f, k) \cap used = {}}
<1>1. v \subseteq F!Indexes
  BY DEF F!Visible
<1>2. starts \in SUBSET Nat
  BY <1>1, FrameSizes
<1>3. F!ContiguousIn(lw, hw, k) = IF starts = {} THEN 0 ELSE F!Min(starts)
  BY DEF F!ContiguousIn
<1>4. starts # {}
  BY <1>3
<1> HIDE DEF starts
<1>5. \E x \in starts : \A y \in starts : x <= y
  BY <1>2, <1>4, SmallestExists
<1>6. F!Min(starts) \in starts
  BY <1>5 DEF F!Min
<1>7. F!ContiguousIn(lw, hw, k) \in starts
  BY <1>3, <1>4, <1>6
<1> QED BY <1>7, SameCount DEF starts

\* If the k frames from f on are all in words that are not full, those found
\* in the range are these, so they are free.
LEMMA FoundAreFree ==
    ASSUME NEW lw \in Int, NEW hw \in Int, NEW k \in Nat \ {0}, NEW f,
           f \in F!Visible(lw, hw) \ used,
           Cardinality(F!Run(F!Visible(lw, hw), f, k)) = k,
           F!Run(F!Visible(lw, hw), f, k) \cap used = {},
           F!Run(F!Visible(0, TotalFrames), f, k) = f..(f + k - 1)
    PROVE  /\ f..(f + k - 1) \subseteq F!Indexes
           /\ f..(f + k - 1) \cap used = {}
<1> DEFINE v == F!Visible(lw, hw)
           w == F!Visible(0, TotalFrames)
           R == F!Run(v, f, k)
           S == f..(f + k - 1)
<1>1. f \in F!Indexes /\ f \in Nat /\ f \in v /\ v \subseteq F!Indexes /\ F!Indexes \subseteq Nat
  BY FrameSizes DEF F!Visible
<1>2. S \subseteq w /\ w \subseteq F!Indexes
  BY DEF F!Run, F!Visible
<1>3. \A g \in w : g \in v <=> F!WordOf(g) \in lw..(hw - 1)
  BY DEF F!Visible
<1>4. F!WordOf(f) \in lw..(hw - 1)
  BY DEF F!Visible
<1>5. \A g : g \in R <=> /\ g \in v /\ g >= f
                         /\ Cardinality({x \in v : x >= f /\ x < g}) < k
  <2>1. R = {g \in v : g >= f /\ F!Cardinality({x \in v : x >= f /\ x < g}) < k}
    BY DEF F!Run
  <2>2. ASSUME NEW g PROVE F!Cardinality({x \in v : x >= f /\ x < g}) = Cardinality({x \in v : x >= f /\ x < g})
    BY SameCount
  <2> HIDE DEF R, v
  <2> QED BY <2>1, <2>2
<1>6. Cardinality(R) = k /\ R \cap used = {}
  OBVIOUS
<1> HIDE DEF v, w, R
<1>7. ASSUME NEW g \in S PROVE g \in v
  <2> SUFFICES ASSUME g \notin v PROVE FALSE
    OBVIOUS
  <2>0. g \in w /\ g \in F!Indexes /\ g \in Nat /\ f <= g /\ g <= f + k - 1
    BY <1>1, <1>2
  <2>1. F!WordOf(g) \in Nat /\ F!WordOf(f) \in Nat /\ F!WordOf(f) <= F!WordOf(g)
    BY <2>0, <1>1, WordsOfIndexes
  <2>2. F!WordOf(g) >= hw
    BY <2>0, <2>1, <1>3, <1>4
  <2>3. ASSUME NEW x \in v, x >= g PROVE FALSE
    <3>1. x \in F!Indexes /\ x \in Nat
      BY <1>1
    <3>2. F!WordOf(x) \in Nat /\ F!WordOf(g) <= F!WordOf(x)
      BY <3>1, <2>0, <2>3, WordsOfIndexes
    <3>3. F!WordOf(x) \in lw..(hw - 1)
      BY DEF v, F!Visible
    <3> QED BY <3>2, <3>3, <2>1, <2>2
  <2>4. R \in SUBSET (f..(g - 1))
    <3> SUFFICES ASSUME NEW x \in R PROVE x \in f..(g - 1)
      OBVIOUS
    <3>1. x \in v /\ x >= f /\ x \in Nat
      BY <1>1, <1>5
    <3>2. ~(x >= g)
      BY <3>1, <2>3
    <3> QED BY <3>1, <3>2, <2>0, <1>1
  <2>5. IsFiniteSet(f..(g - 1)) /\ Cardinality(f..(g - 1)) = IF f > g - 1 THEN 0 ELSE (g - 1) - f + 1
    <3>1. f \in Int /\ g - 1 \in Int
      BY <2>0, <1>1
    <3> QED BY <3>1, FS_Interval
  <2>6. Cardinality(R) <= Cardinality(f..(g - 1))
    BY <2>4, <2>5, FS_Subset
  <2> QED BY <2>5, <2>6, <2>0, <1>1, <1>6
<1>8. ASSUME NEW g \in S PROVE g \in R
  <2> DEFINE B == {x \in v : x >= f /\ x < g}
  <2>0. g \in v /\ g \in Nat /\ f <= g /\ g <= f + k - 1
    BY <1>1, <1>7
  <2>1. B \in SUBSET (f..(g - 1))
    <3> SUFFICES ASSUME NEW x \in B PROVE x \in f..(g - 1)
      OBVIOUS
    <3>1. x \in v /\ x >= f /\ x < g
      OBVIOUS
    <3>2. x \in Nat
      BY <3>1, <1>1
    <3> HIDE DEF B
    <3> QED BY <3>1, <3>2, <2>0, <1>1
  <2>2. IsFiniteSet(f..(g - 1)) /\ Cardinality(f..(g - 1)) = IF f > g - 1 THEN 0 ELSE (g - 1) - f + 1
    <3>1. f \in Int /\ g - 1 \in Int
      BY <2>0, <1>1
    <3> QED BY <3>1, FS_Interval
  <2>3. IsFiniteSet(B) /\ Cardinality(B) <= Cardinality(f..(g - 1))
    BY <2>1, <2>2, FS_Subset
  <2>4. Cardinality(B) \in Nat
    BY <2>3, FS_CardinalityType
  <2>5. Cardinality(B) < k
    <3> HIDE DEF B
    <3> QED BY <2>0, <2>2, <2>3, <2>4, <1>1
  <2> QED BY <2>0, <2>5, <1>5
<1> QED BY <1>2, <1>6, <1>8

\* Every call of alloc_frame, alloc_contiguous_frames and dealloc_frame keeps it.
LEMMA FrameStep ==
    ASSUME FrameInv, F!Next
    PROVE  FrameInv'
<1> USE FrameSizes
<1>1. ASSUME NEW k \in FrameRequests, F!Alloc(k) PROVE FrameInv'
  <2>1. PICK f \in {F!Find(k)} \ {0} :
          /\ F!Mark(f, k)
          /\ holders' = [g \in F!Indexes |-> IF g \in f..(f + k - 1) THEN holders[g] + 1
                                                                ELSE holders[g]]
          /\ spanned' = (spanned \/ F!Run(F!Visible(0, TotalFrames), f, k) # f..(f + k - 1))
          /\ beyond' = (beyond \/ f + k > TotalFrames)
    BY <1>1 DEF F!Alloc
  <2>2. \E lw \in Int, hw \in Int : f = F!ContiguousIn(lw, hw, k)
    <3>1. next_idx \in Int /\ next_idx - 1 \in Int /\ TotalFrames \in Int /\ KernelFrames \in Int
      BY DEF FrameInv
    <3>2. \/ F!Find(k) = F!ContiguousIn(next_idx, TotalFrames, k)
          \/ F!Find(k) = F!ContiguousIn(KernelFrames, next_idx - 1, k)
      BY DEF F!Find
    <3> QED BY <2>1, <3>1, <3>2
  <2>3. PICK lw \in Int, hw \in Int : f = F!ContiguousIn(lw, hw, k)
    BY <2>2
  <2>4. /\ f \in F!Visible(lw, hw) \ used
        /\ Cardinality(F!Run(F!Visible(lw, hw), f, k)) = k
        /\ F!Run(F!Visible(lw, hw), f, k) \cap used = {}
    BY <2>1, <2>3, FoundInRange
  <2>5. f \in Nat /\ k \in Nat \ {0} /\ f \in F!Indexes
    BY <2>4 DEF F!Visible
  <2> DEFINE S == f..(f + k - 1)
  <2>6. /\ used' = used \cup S /\ available' = available - k
        /\ next_idx' = (f + k - 1) \div WordBits /\ stale' = stale
    BY <1>1, <2>1 DEF F!Mark, F!WordOf, F!Alloc
  <2>7. next_idx' \in Nat
    <3>1. f + k - 1 \in Nat
      BY <2>5
    <3>2. (f + k - 1) \div WordBits \in Nat
      BY <3>1, DivMod
    <3> QED BY <3>2, <2>6
  <2>8. holders' \in [F!Indexes -> Nat] /\ available' \in Int
    <3>1. holders \in [F!Indexes -> Nat] /\ available \in Int
      BY DEF FrameInv
    <3>2. holders' = [g \in F!Indexes |-> IF g \in f..(f + k - 1) THEN holders[g] + 1 ELSE holders[g]]
      BY <2>1
    <3>3. available' \in Int
      BY <3>1, <2>5, <2>6
    <3>4. holders' \in [F!Indexes -> Nat]
      BY <3>1, <3>2
    <3> QED BY <3>3, <3>4
  <2>9. ASSUME ~spanned'
        PROVE  ~spanned /\ F!Run(F!Visible(0, TotalFrames), f, k) = S
    BY <2>1, <2>9, Zenon
  <2>10. ASSUME ~spanned' PROVE S \subseteq F!Indexes /\ S \cap used = {}
    BY <2>4, <2>5, <2>9, <2>10, FoundAreFree
  <2>11. ASSUME ~spanned'
         PROVE  /\ stale' \subseteq used'
                /\ \A g \in F!Indexes : holders'[g] > 0 =>
                     holders'[g] = 1 /\ g \in used' /\ g >= KernelFrames /\ g \notin stale'
    <3>1. /\ stale \subseteq used /\ 0..(KernelFrames - 1) \subseteq used
          /\ \A g \in F!Indexes : holders[g] > 0 =>
               holders[g] = 1 /\ g \in used /\ g >= KernelFrames /\ g \notin stale
          /\ \A g \in F!Indexes : holders[g] \in Nat
      BY <2>9, <2>11 DEF FrameInv
    <3>2. S \cap used = {}
      BY <2>10, <2>11
    <3> SUFFICES ASSUME NEW g \in F!Indexes, holders'[g] > 0
                 PROVE  holders'[g] = 1 /\ g \in used' /\ g >= KernelFrames /\ g \notin stale'
      BY <3>1, <2>6
    <3>3. CASE g \in S
      <4>1. g \notin used /\ holders'[g] = holders[g] + 1
        BY <3>2, <3>3, <2>1
      <4>2. holders[g] = 0
        BY <3>1, <4>1
      <4>3. g \in Nat /\ g \notin 0..(KernelFrames - 1)
        BY <3>1, <4>1
      <4> QED BY <3>1, <3>3, <4>1, <4>2, <4>3, <2>6
    <3>4. CASE g \notin S
      BY <3>1, <3>4, <2>1, <2>6
    <3> QED BY <3>3, <3>4
  <2>12. ASSUME ~spanned', ~beyond'
         PROVE  /\ \A g \in F!Indexes : holders'[g] > 0 => g \in F!Frames
                /\ \A g \in used' \cap F!Frames : g < KernelFrames \/ holders'[g] > 0 \/ g \in stale'
                /\ available' = Cardinality(F!Frames \ used') + Cardinality(stale')
    <3>1. ~beyond /\ ~(f + k > TotalFrames)
      BY <2>1, <2>12, Zenon
    <3>2. /\ \A g \in F!Indexes : holders[g] > 0 => g \in F!Frames
          /\ \A g \in used \cap F!Frames : g < KernelFrames \/ holders[g] > 0 \/ g \in stale
          /\ available = Cardinality(F!Frames \ used) + Cardinality(stale)
          /\ \A g \in F!Indexes : holders[g] \in Nat
      BY <3>1, <2>9, <2>12 DEF FrameInv
    <3>3. S \subseteq F!Frames /\ S \cap used = {}
      BY <3>1, <2>5, <2>10, <2>12
    <3>4. \A g \in F!Indexes : holders'[g] > 0 => g \in F!Frames
      BY <3>2, <3>3, <2>1
    <3>5. \A g \in used' \cap F!Frames : g < KernelFrames \/ holders'[g] > 0 \/ g \in stale'
      BY <3>2, <2>1, <2>6
    <3>6. available' = Cardinality(F!Frames \ used') + Cardinality(stale')
      <4> DEFINE A == F!Frames \ used
                 C == F!Frames \ used'
      <4>1. IsFiniteSet(F!Frames)
        BY FS_Interval
      <4>2. IsFiniteSet(A)
        BY <4>1, FS_Difference
      <4>3. A \cap S = S /\ C = A \ S
        BY <3>3, <2>6
      <4>4. Cardinality(S) = k
        BY <2>5, FS_Interval
      <4>5. Cardinality(C) = Cardinality(A) - k
        <5> HIDE DEF A, C
        <5> QED BY <4>2, <4>3, <4>4, FS_Difference
      <4>6. Cardinality(A) \in Nat
        BY <4>2, FS_CardinalityType
      <4>7. stale \in SUBSET F!Frames
        BY DEF FrameInv
      <4>8. IsFiniteSet(stale)
        BY <4>1, <4>7, FS_Subset
      <4>9. Cardinality(stale) \in Nat
        BY <4>8, FS_CardinalityType
      <4> HIDE DEF A, C
      <4>10. available = Cardinality(A) + Cardinality(stale)
        BY <3>2 DEF A
      <4>11. available' = Cardinality(C) + Cardinality(stale)
        BY <4>5, <4>6, <4>9, <4>10, <2>5, <2>6
      <4> QED BY <4>11, <2>6 DEF C
    <3> QED BY <3>4, <3>5, <3>6
  <2>13. /\ stale' \subseteq F!Frames \ (0..(KernelFrames - 1))
         /\ 0..(KernelFrames - 1) \subseteq used'
    BY <2>6 DEF FrameInv
  <2> QED BY <2>7, <2>8, <2>11, <2>12, <2>13 DEF FrameInv
<1>2. ASSUME NEW f \in F!Indexes, F!Dealloc(f) PROVE FrameInv'
  <2>1. /\ holders[f] > 0 /\ f > KernelFrames /\ f \in Nat
        /\ used' = used \ {f} /\ available' = available + 1
        /\ next_idx' = f \div WordBits
        /\ holders' = [holders EXCEPT ![f] = holders[f] - 1]
        /\ stale' = stale
    BY <1>2 DEF F!Dealloc, F!WordOf
  <2>2. (spanned' <=> spanned) /\ (beyond' <=> beyond)
    BY <1>2, Zenon DEF F!Dealloc
  <2>3. /\ holders \in [F!Indexes -> Nat] /\ available \in Int
        /\ stale \subseteq F!Frames \ (0..(KernelFrames - 1)) /\ 0..(KernelFrames - 1) \subseteq used
    BY DEF FrameInv
  <2>4. /\ holders' \in [F!Indexes -> Nat] /\ available' \in Int /\ next_idx' \in Nat
        /\ 0..(KernelFrames - 1) \subseteq used'
        /\ holders'[f] = holders[f] - 1 /\ \A g \in F!Indexes : g # f => holders'[g] = holders[g]
    <3>1. f \div WordBits \in Nat
      BY <2>1, DivMod
    <3>2. /\ holders[f] \in Nat /\ holders[f] - 1 \in Nat
      BY <2>1, <2>3
    <3>3. holders' \in [F!Indexes -> Nat] /\ holders'[f] = holders[f] - 1
      BY <2>1, <2>3, <3>2
    <3>4. \A g \in F!Indexes : g # f => holders'[g] = holders[g]
      BY <2>1, <2>3
    <3>5. 0..(KernelFrames - 1) \subseteq used'
      BY <2>1, <2>3
    <3> QED BY <2>1, <2>3, <3>1, <3>3, <3>4, <3>5
  <2>5. ASSUME ~spanned'
        PROVE  /\ holders[f] = 1 /\ f \in used /\ f \notin stale
               /\ stale' \subseteq used'
               /\ \A g \in F!Indexes : holders'[g] > 0 =>
                    holders'[g] = 1 /\ g \in used' /\ g >= KernelFrames /\ g \notin stale'
    <3>1. /\ stale \subseteq used
          /\ \A g \in F!Indexes : holders[g] > 0 =>
               holders[g] = 1 /\ g \in used /\ g >= KernelFrames /\ g \notin stale
      BY <2>2, <2>5 DEF FrameInv
    <3>2. holders[f] = 1 /\ f \in used /\ f \notin stale
      BY <3>1, <2>1
    <3>3. ASSUME NEW g \in F!Indexes, holders'[g] > 0
          PROVE  holders'[g] = 1 /\ g \in used' /\ g >= KernelFrames /\ g \notin stale'
      <4>1. g # f
        BY <3>2, <3>3, <2>4
      <4> QED BY <4>1, <3>1, <3>3, <2>1, <2>4
    <3> QED BY <3>1, <3>2, <3>3, <2>1
  <2>6. ASSUME ~spanned', ~beyond'
        PROVE  /\ \A g \in F!Indexes : holders'[g] > 0 => g \in F!Frames
               /\ \A g \in used' \cap F!Frames : g < KernelFrames \/ holders'[g] > 0 \/ g \in stale'
               /\ available' = Cardinality(F!Frames \ used') + Cardinality(stale')
    <3>1. /\ \A g \in F!Indexes : holders[g] > 0 => g \in F!Frames
          /\ \A g \in used \cap F!Frames : g < KernelFrames \/ holders[g] > 0 \/ g \in stale
          /\ available = Cardinality(F!Frames \ used) + Cardinality(stale)
      BY <2>2, <2>6 DEF FrameInv
    <3>2. f \in F!Frames /\ f \in used /\ holders[f] = 1
      BY <3>1, <2>1, <2>5, <2>6
    <3>3. \A g \in F!Indexes : holders'[g] > 0 => g \in F!Frames
      BY <3>1, <3>2, <2>4
    <3>4. \A g \in used' \cap F!Frames : g < KernelFrames \/ holders'[g] > 0 \/ g \in stale'
      <4> SUFFICES ASSUME NEW g \in used' \cap F!Frames
                   PROVE  g < KernelFrames \/ holders'[g] > 0 \/ g \in stale'
        OBVIOUS
      <4>1. g # f /\ g \in used /\ g \in F!Indexes
        BY <2>1
      <4> QED BY <4>1, <3>1, <2>1, <2>4
    <3>5. available' = Cardinality(F!Frames \ used') + Cardinality(stale')
      <4> DEFINE A == F!Frames \ used
                 C == F!Frames \ used'
      <4>1. IsFiniteSet(F!Frames)
        BY FS_Interval
      <4>2. IsFiniteSet(A)
        BY <4>1, FS_Difference
      <4>3. f \notin A /\ C = A \cup {f}
        BY <3>2, <2>1
      <4>4. Cardinality(A) \in Nat
        BY <4>2, FS_CardinalityType
      <4>5. stale \in SUBSET F!Frames
        BY <2>3
      <4>6. IsFiniteSet(stale)
        BY <4>1, <4>5, FS_Subset
      <4>7. Cardinality(stale) \in Nat
        BY <4>6, FS_CardinalityType
      <4>8. available = Cardinality(A) + Cardinality(stale)
        BY <3>1
      <4> HIDE DEF A, C
      <4>9. Cardinality(C) = Cardinality(A) + 1
        BY <4>2, <4>3, FS_AddElement
      <4>10. available' = Cardinality(C) + Cardinality(stale)
        BY <4>4, <4>7, <4>8, <4>9, <2>1
      <4> QED BY <4>10, <2>1 DEF C
    <3> QED BY <3>3, <3>4, <3>5
  <2> QED BY <2>1, <2>3, <2>4, <2>5, <2>6 DEF FrameInv
<1> QED BY <1>1, <1>2 DEF F!Next

\* init_frame_manager leaves the frames in that state.
LEMMA FrameInit == F!Init => FrameInv
<1> USE FrameSizes
<1> SUFFICES ASSUME F!Init PROVE FrameInv
  OBVIOUS
<1>1. PICK m \in AfterArray : used = 0..(KernelFrames - 1) \cup stale \cup m
  BY DEF F!Init
<1>2. /\ stale \subseteq Stale \ (0..(KernelFrames - 1))
      /\ available = TotalFrames - KernelFrames
      /\ next_idx = KernelFrames \div WordBits + 1
      /\ holders = [f \in F!Indexes |-> 0]
  BY DEF F!Init, F!WordOf
<1>3. Stale \subseteq F!Frames /\ m \subseteq F!Indexes \ F!Frames
  BY PlatformConstants DEF F!FrameConstants
<1>4. next_idx \in Nat
  BY <1>2, DivMod
<1>5. stale \subseteq F!Frames \ (0..(KernelFrames - 1))
  BY <1>2, <1>3
<1> DEFINE Kern == 0..(KernelFrames - 1)
           A == F!Frames \ used
           C == F!Frames \ Kern
<1>6. IsFiniteSet(F!Frames) /\ Cardinality(F!Frames) = TotalFrames
  <2>1. /\ IsFiniteSet(0..(TotalFrames - 1))
        /\ Cardinality(0..(TotalFrames - 1)) = IF 0 > TotalFrames - 1 THEN 0 ELSE (TotalFrames - 1) - 0 + 1
    BY FS_Interval
  <2> QED BY <2>1
<1>7. Cardinality(Kern) = KernelFrames
  <2>1. Cardinality(0..(KernelFrames - 1)) = IF 0 > KernelFrames - 1 THEN 0 ELSE (KernelFrames - 1) - 0 + 1
    BY FS_Interval
  <2> QED BY <2>1
<1>8. F!Frames \cap Kern = Kern
  OBVIOUS
<1>9. IsFiniteSet(C) /\ Cardinality(C) = TotalFrames - KernelFrames
  <2> HIDE DEF Kern
  <2>1. IsFiniteSet(C) /\ Cardinality(C) = Cardinality(F!Frames) - Cardinality(F!Frames \cap Kern)
    BY <1>6, FS_Difference
  <2> HIDE DEF C
  <2>2. Cardinality(F!Frames \cap Kern) = KernelFrames
    BY <1>7, <1>8
  <2> QED BY <1>6, <2>1, <2>2
<1>10. A = C \ stale /\ C \cap stale = stale
  BY <1>1, <1>3, <1>5
<1>11. IsFiniteSet(A) /\ Cardinality(A) = Cardinality(C) - Cardinality(stale)
  <2> HIDE DEF A, C
  <2> QED BY <1>9, <1>10, FS_Difference
<1>12. IsFiniteSet(stale)
  <2>1. stale \in SUBSET F!Frames
    BY <1>5
  <2> QED BY <2>1, <1>6, FS_Subset
<1>13. Cardinality(stale) \in Nat
  BY <1>12, FS_CardinalityType
<1>14. available = Cardinality(F!Frames \ used) + Cardinality(stale)
  <2> HIDE DEF A, C
  <2>1. available = Cardinality(A) + Cardinality(stale)
    BY <1>2, <1>9, <1>11, <1>13
  <2> QED BY <2>1 DEF A
<1> QED BY <1>1, <1>2, <1>3, <1>4, <1>5, <1>14 DEF FrameInv

\* No frame has two owners, and the bits and the count of src/frame_alloc.c say
\* which frames are free, as long as no allocation reached across a full word or
\* past the last frame; the clear of too few bytes in init_frame_manager costs
\* exactly the frames whose bit it left.
THEOREM FramesAreAccounted == PlatformSpec => []FrameBooks
<1>1. PlatformInit => (unit = "frames" => FrameInv)
  BY FrameInit DEF PlatformInit
<1>2. (unit = "frames" => FrameInv) /\ [PlatformNext]_all => (unit = "frames" => FrameInv)'
  <2> SUFFICES ASSUME unit = "frames" => FrameInv, [PlatformNext]_all
               PROVE  unit' = "frames" => FrameInv'
    OBVIOUS
  <2>1. CASE unit = "frames" /\ F!Next /\ UNCHANGED unit
    BY <2>1, FrameStep
  <2>2. CASE UNCHANGED <<unit, frameVars>>
    <3>1. (spanned' <=> spanned) /\ (beyond' <=> beyond)
      BY <2>2, Zenon DEF frameVars
    <3>2. UNCHANGED <<unit, used, available, next_idx, holders, stale>>
      BY <2>2 DEF frameVars
    <3> QED BY <3>1, <3>2 DEF FrameInv
  <2> QED BY <2>1, <2>2 DEF PlatformNext, all
<1>3. (unit = "frames" => FrameInv) => FrameBooks
  <2> SUFFICES ASSUME FrameInv PROVE F!NotSharedUnlessSpanned /\ F!BooksBalance
    BY DEF FrameBooks
  <2>1. F!NotSharedUnlessSpanned
    <3>1. CASE spanned
      BY <3>1 DEF F!NotSharedUnlessSpanned
    <3>2. CASE ~spanned
      <4>1. \A f \in F!Indexes : holders[f] <= 1
        BY <3>2 DEF FrameInv
      <4> QED BY <4>1 DEF F!NotSharedUnlessSpanned
    <3> QED BY <3>1, <3>2
  <2>2. F!BooksBalance
    <3>1. CASE spanned \/ beyond
      BY <3>1, Zenon DEF F!BooksBalance
    <3>2. CASE ~spanned /\ ~beyond
      <4>1. used \cap F!Frames = {f \in F!Frames : f < KernelFrames \/ holders[f] > 0} \cup stale
        <5>1. /\ stale \subseteq used /\ stale \subseteq F!Frames
              /\ 0..(KernelFrames - 1) \subseteq used
              /\ \A f \in F!Indexes : holders[f] > 0 => f \in used
              /\ \A f \in used \cap F!Frames : f < KernelFrames \/ holders[f] > 0 \/ f \in stale
          BY <3>2 DEF FrameInv
        <5>2. \A f \in F!Frames : f < KernelFrames => f \in used
          BY <5>1, FrameSizes
        <5>3. F!Frames \subseteq F!Indexes
          BY FrameSizes
        <5> QED BY <5>1, <5>2, <5>3
      <4>2. available = Cardinality(F!Frames \ used) + Cardinality(stale)
        BY <3>2 DEF FrameInv
      <4> QED BY <4>1, <4>2, SameCount DEF F!BooksBalance
    <3> QED BY <3>1, <3>2
  <2> QED BY <2>1, <2>2
<1> QED BY <1>1, <1>2, <1>3, PTL DEF PlatformSpec

-----------------------------------------------------------------------------
(* The linked list.  Removed(s, t, p): t is s without its element p.        *)

ListType ==
    /\ lorder \in Seq(Nodes) /\ contents \in Seq(Data)
    /\ lnext \in [Nodes -> Nodes \cup {Null}] /\ lprev \in [Nodes -> Nodes \cup {Null}]
    /\ ldata \in [Nodes -> Data]
ListOnce == \A j, k \in 1 .. Len(lorder) : lorder[j] = lorder[k] => j = k
ListInv == ListType /\ ListOnce /\ L!ListExact

Removed(s, t, p) == /\ Len(t) = Len(s) - 1
                    /\ \A k \in 1 .. Len(s) - 1 : t[k] = IF k < p THEN s[k] ELSE s[k + 1]

LEMMA RemoveAtRemoves ==
    ASSUME NEW S, NEW s \in Seq(S), NEW p \in 1 .. Len(s)
    PROVE  L!RemoveAt(s, p) \in Seq(S) /\ Removed(s, L!RemoveAt(s, p), p)
<1> DEFINE a == SubSeq(s, 1, p - 1)
           b1 == SubSeq(s, p + 1, Len(s))
<1>1. Len(s) \in Nat /\ \A i \in 1 .. Len(s) : s[i] \in S BY LenProperties, ElementOfSeq
<1>2. /\ a \in Seq(S) /\ Len(a) = p - 1 /\ \A i \in 1 .. p - 1 : a[i] = s[i]
  <2>1. \A i \in 1 .. p - 1 : s[i] \in S BY <1>1
  <2>2. /\ a \in Seq(S) /\ Len(a) = IF 1 <= p - 1 THEN (p - 1) - 1 + 1 ELSE 0
        /\ \A i \in 1 .. (p - 1) - 1 + 1 : a[i] = s[1 + i - 1]
    BY <1>1, <2>1, SubSeqProperties, 1 \in Int, p - 1 \in Int
  <2> QED BY <1>1, <2>2
<1>3. /\ b1 \in Seq(S) /\ Len(b1) = Len(s) - p
      /\ \A i \in 1 .. Len(s) - p : b1[i] = s[p + i]
  <2>1. \A i \in p + 1 .. Len(s) : s[i] \in S BY <1>1
  <2>2. /\ b1 \in Seq(S) /\ Len(b1) = IF p + 1 <= Len(s) THEN Len(s) - (p + 1) + 1 ELSE 0
        /\ \A i \in 1 .. Len(s) - (p + 1) + 1 : b1[i] = s[(p + 1) + i - 1]
    BY <1>1, <2>1, SubSeqProperties, p + 1 \in Int, Len(s) \in Int
  <2> QED BY <1>1, <2>2
<1>4. L!RemoveAt(s, p) = a \o b1 BY DEF L!RemoveAt
<1> HIDE DEF a, b1
<1>5. /\ a \o b1 \in Seq(S) /\ Len(a \o b1) = Len(a) + Len(b1)
      /\ \A i \in 1 .. Len(a) + Len(b1) : (a \o b1)[i] = IF i <= Len(a) THEN a[i] ELSE b1[i - Len(a)]
  BY <1>2, <1>3, ConcatProperties
<1>6. Len(a \o b1) = Len(s) - 1 BY <1>1, <1>2, <1>3, <1>5
<1>7. ASSUME NEW k \in 1 .. Len(s) - 1 PROVE (a \o b1)[k] = IF k < p THEN s[k] ELSE s[k + 1]
  <2>1. k \in 1 .. Len(a) + Len(b1) BY <1>1, <1>2, <1>3
  <2>2. CASE k < p
    <3>1. (a \o b1)[k] = a[k] BY <1>1, <1>2, <1>5, <2>1, <2>2
    <3> QED BY <1>2, <2>2, <3>1
  <2>3. CASE ~(k < p)
    <3>1. (a \o b1)[k] = b1[k - Len(a)] BY <1>1, <1>2, <1>5, <2>1, <2>3
    <3>2. k - (p - 1) \in 1 .. Len(s) - p /\ p + (k - (p - 1)) = k + 1 BY <1>1, <2>3
    <3> QED BY <1>2, <1>3, <2>3, <3>1, <3>2
  <2> QED BY <2>2, <2>3
<1> QED BY <1>4, <1>5, <1>6, <1>7 DEF Removed

LEMMA TailRemoves ==
    ASSUME NEW S, NEW s \in Seq(S), s # <<>>
    PROVE  Tail(s) \in Seq(S) /\ Removed(s, Tail(s), 1) /\ Head(s) = s[1]
<1>1. Len(s) \in Nat BY LenProperties
<1> QED BY <1>1, HeadTailProperties DEF Removed

LEMMA FrontRemoves ==
    ASSUME NEW S, NEW s \in Seq(S), s # <<>>
    PROVE  L!Front(s) \in Seq(S) /\ Removed(s, L!Front(s), Len(s))
<1>1. Len(s) \in Nat /\ \A i \in 1 .. Len(s) : s[i] \in S BY LenProperties, ElementOfSeq
<1>2. Len(s) > 0 BY <1>1, EmptySeq
<1>3. L!Front(s) = SubSeq(s, 1, Len(s) - 1) BY DEF L!Front
<1>4. \A i \in 1 .. Len(s) - 1 : s[i] \in S BY <1>1
<1> DEFINE f == SubSeq(s, 1, Len(s) - 1)
<1>5. /\ f \in Seq(S) /\ Len(f) = IF 1 <= Len(s) - 1 THEN (Len(s) - 1) - 1 + 1 ELSE 0
      /\ \A i \in 1 .. (Len(s) - 1) - 1 + 1 : f[i] = s[1 + i - 1]
  BY <1>1, <1>4, SubSeqProperties, 1 \in Int, Len(s) - 1 \in Int
<1> HIDE DEF f
<1>6. Len(f) = Len(s) - 1 /\ \A i \in 1 .. Len(s) - 1 : f[i] = s[i]
  <2>1. PICK m \in Nat : m = Len(s) /\ m > 0 BY <1>1, <1>2
  <2>2. Len(f) = m - 1 BY <1>5, <2>1
  <2>3. ASSUME NEW i \in 1 .. m - 1 PROVE f[i] = s[i]
    <3>1. i \in 1 .. (m - 1) - 1 + 1 /\ 1 + i - 1 = i BY <2>1
    <3> QED BY <1>5, <2>1, <3>1
  <2> QED BY <2>1, <2>2, <2>3
<1>7. Removed(s, f, Len(s)) BY <1>1, <1>6 DEF Removed
<1> QED BY <1>3, <1>5, <1>7 DEF f

\* The links as functions of the place in the list.
LEMMA ListPlaces ==
    ASSUME ListInv
    PROVE  /\ Len(lorder) \in Nat /\ DOMAIN lorder = 1 .. Len(lorder)
           /\ Len(contents) = Len(lorder) /\ list_size = Len(lorder)
           /\ \A k \in 1 .. Len(lorder) : lorder[k] \in Nodes /\ lorder[k] # Null
           /\ \A k \in Int : L!NodeAt(k) = IF k \in 1 .. Len(lorder) THEN lorder[k] ELSE Null
           /\ \A k \in Int : L!NodeAt(k) \in Nodes \cup {Null}
           /\ lhead = L!NodeAt(1) /\ ltail = L!NodeAt(Len(lorder))
           /\ \A k \in 1 .. Len(lorder) :
                /\ lnext[lorder[k]] = L!NodeAt(k + 1) /\ lprev[lorder[k]] = L!NodeAt(k - 1)
                /\ ldata[lorder[k]] = contents[k]
           /\ live = {lorder[k] : k \in 1 .. Len(lorder)}
<1>1. Null \notin Nodes BY PlatformConstants DEF L!ListConstants
<1>2. lorder \in Seq(Nodes) BY DEF ListInv, ListType
<1>3. Len(lorder) \in Nat /\ DOMAIN lorder = 1 .. Len(lorder) BY <1>2, LenProperties
<1>4. \A k \in 1 .. Len(lorder) : lorder[k] \in Nodes BY <1>2, ElementOfSeq
<1>5. \A k \in Int : L!NodeAt(k) = IF k \in 1 .. Len(lorder) THEN lorder[k] ELSE Null
  BY <1>3 DEF L!NodeAt
<1>6. live = {lorder[k] : k \in 1 .. Len(lorder)} BY <1>3 DEF ListInv, L!ListExact, L!ToSet
<1>7. \A k \in Int : L!NodeAt(k) \in Nodes \cup {Null} BY <1>4, <1>5
<1>8. /\ Len(contents) = Len(lorder) /\ list_size = Len(lorder)
      /\ lhead = L!NodeAt(1) /\ ltail = L!NodeAt(Len(lorder))
      /\ \A k \in 1 .. Len(lorder) :
           /\ lnext[lorder[k]] = L!NodeAt(k + 1) /\ lprev[lorder[k]] = L!NodeAt(k - 1)
           /\ ldata[lorder[k]] = contents[k]
  BY <1>3 DEF ListInv, L!ListExact
<1> QED BY <1>1, <1>3, <1>4, <1>5, <1>6, <1>7, <1>8

\* Taking node p out of the list, wherever it is.
Unlinked(p) ==
    /\ lorder' \in Seq(Nodes) /\ contents' \in Seq(Data)
    /\ Removed(lorder, lorder', p) /\ Removed(contents, contents', p)
    /\ lnext' \in [Nodes -> Nodes \cup {Null}] /\ lprev' \in [Nodes -> Nodes \cup {Null}]
    /\ \A m \in Nodes : lnext'[m] = IF p > 1 /\ m = lorder[p - 1] THEN L!NodeAt(p + 1) ELSE lnext[m]
    /\ \A m \in Nodes :
         lprev'[m] = IF p < Len(lorder) /\ m = lorder[p + 1] THEN L!NodeAt(p - 1) ELSE lprev[m]
    /\ lhead' = IF p = 1 THEN L!NodeAt(2) ELSE lhead
    /\ ltail' = IF p = Len(lorder) THEN L!NodeAt(Len(lorder) - 1) ELSE ltail
    /\ live' = live \ {lorder[p]} /\ list_size' = list_size - 1 /\ ldata' = ldata /\ buffer' = taken'

LEMMA UnlinkKeeps == ASSUME ListInv, NEW p \in 1 .. Len(lorder), Unlinked(p) PROVE ListInv'
<1>0. PICK n0 \in Nat : n0 = Len(lorder) BY ListPlaces
<1> DEFINE Old(k) == IF k < p THEN k ELSE k + 1
<1>1. /\ n0 \in Nat /\ p \in 1 .. n0 /\ Len(contents) = n0 /\ list_size = n0
      /\ \A k \in 1 .. n0 : lorder[k] \in Nodes /\ lorder[k] # Null
      /\ \A k \in Int : L!NodeAt(k) = IF k \in 1 .. n0 THEN lorder[k] ELSE Null
      /\ lhead = L!NodeAt(1) /\ ltail = L!NodeAt(n0)
      /\ \A k \in 1 .. n0 :
           /\ lnext[lorder[k]] = L!NodeAt(k + 1) /\ lprev[lorder[k]] = L!NodeAt(k - 1)
           /\ ldata[lorder[k]] = contents[k]
      /\ live = {lorder[k] : k \in 1 .. n0}
  BY <1>0, ListPlaces
<1>12. p \in 1 .. n0 BY <1>1
<1>2. ListType' BY DEF ListInv, ListType, Unlinked
<1>3. Len(lorder') = n0 - 1 /\ DOMAIN lorder' = 1 .. n0 - 1 /\ n0 - 1 \in Nat
  <2>1. Len(lorder') = n0 - 1 BY <1>0 DEF Unlinked, Removed
  <2>2. DOMAIN lorder' = 1 .. Len(lorder') BY LenProperties DEF Unlinked
  <2> QED BY <1>1, <2>1, <2>2
<1>4. \A k \in 1 .. n0 - 1 : Old(k) \in 1 .. n0 /\ Old(k) # p /\ lorder'[k] = lorder[Old(k)]
                             /\ contents'[k] = contents[Old(k)]
  <2>1. \A k \in 1 .. n0 - 1 : Old(k) \in 1 .. n0 /\ Old(k) # p BY <1>1
  <2>2. \A k \in 1 .. n0 - 1 : lorder'[k] = IF k < p THEN lorder[k] ELSE lorder[k + 1]
    BY <1>0 DEF Unlinked, Removed
  <2>3. \A k \in 1 .. n0 - 1 : contents'[k] = IF k < p THEN contents[k] ELSE contents[k + 1]
    BY <1>1 DEF Unlinked, Removed
  <2> QED BY <2>1, <2>2, <2>3
<1>5. \A k \in Int : L!NodeAt(k)' = IF k \in 1 .. n0 - 1 THEN lorder[Old(k)] ELSE Null
  BY <1>3, <1>4 DEF L!NodeAt
<1>6. ListOnce'
  <2> SUFFICES ASSUME NEW j \in 1 .. n0 - 1, NEW k \in 1 .. n0 - 1, lorder'[j] = lorder'[k] PROVE j = k
    BY <1>3 DEF ListOnce
  <2>1. Old(j) = Old(k) BY <1>0, <1>4 DEF ListInv, ListOnce
  <2> QED BY <1>1, <2>1
<1>7. lhead' = L!NodeAt(1)'
  <2>1. L!NodeAt(1)' = IF n0 > 1 THEN (IF p = 1 THEN lorder[2] ELSE lorder[1]) ELSE Null
    <3>1. 1 \in Int /\ (1 \in 1 .. n0 - 1 <=> n0 > 1) /\ Old(1) = IF p = 1 THEN 2 ELSE 1 BY <1>12
    <3> HIDE DEF Old
    <3> QED BY <1>5, <3>1
  <2>2. L!NodeAt(1) = lorder[1] /\ L!NodeAt(2) = IF n0 > 1 THEN lorder[2] ELSE Null
    <3>1. 1 \in 1 .. n0 /\ 2 \in Int /\ (2 \in 1 .. n0 <=> n0 > 1) BY <1>1
    <3> QED BY <1>1, <3>1
  <2> QED BY <1>1, <2>1, <2>2 DEF Unlinked
<1>8. ltail' = L!NodeAt(Len(lorder))'
  <2>1. L!NodeAt(Len(lorder))' = L!NodeAt(n0 - 1)' BY <1>3 DEF L!NodeAt
  <2>2. L!NodeAt(n0 - 1)' = IF n0 > 1 THEN (IF p = n0 THEN lorder[n0 - 1] ELSE lorder[n0]) ELSE Null
    BY <1>0, <1>1, <1>5
  <2>3. L!NodeAt(n0) = lorder[n0] /\ L!NodeAt(n0 - 1) = IF n0 > 1 THEN lorder[n0 - 1] ELSE Null
    <3>1. n0 \in 1 .. n0 /\ n0 - 1 \in Int /\ (n0 - 1 \in 1 .. n0 <=> n0 > 1) BY <1>1
    <3> QED BY <1>1, <3>1
  <2> QED BY <1>0, <1>1, <2>1, <2>2, <2>3 DEF Unlinked
<1>9. ASSUME NEW k \in 1 .. n0 - 1
      PROVE  /\ lnext'[lorder'[k]] = L!NodeAt(k + 1)' /\ lprev'[lorder'[k]] = L!NodeAt(k - 1)'
             /\ ldata'[lorder'[k]] = contents'[k]
  <2>1. PICK o \in 1 .. n0 : o = Old(k) BY <1>4
  <2>2. lorder'[k] = lorder[o] /\ contents'[k] = contents[o] /\ o # p /\ lorder[o] \in Nodes
    BY <1>1, <1>4, <2>1
  <2>3. \A j \in 1 .. n0 : lorder[o] = lorder[j] => o = j BY <1>0 DEF ListInv, ListOnce
  <2>4. lnext'[lorder[o]] = L!NodeAt(k + 1)'
    <3>1. L!NodeAt(k + 1)' = IF k + 1 <= n0 - 1 THEN lorder[Old(k + 1)] ELSE Null
      <4>1. k + 1 \in Int /\ (k + 1 \in 1 .. n0 - 1 <=> k + 1 <= n0 - 1) BY <1>1
      <4> HIDE DEF Old
      <4> QED BY <1>5, <4>1
    <3>2. CASE o = p - 1
      <4>1. lnext'[lorder[o]] = L!NodeAt(p + 1) BY <1>0, <1>1, <2>2, <3>2 DEF Unlinked
      <4>2. k = p - 1 /\ Old(k + 1) = p + 1 BY <2>1, <3>2
      <4> QED BY <1>1, <3>1, <4>1, <4>2
    <3>3. CASE o # p - 1
      <4>1. lnext'[lorder[o]] = lnext[lorder[o]]
        <5>1. p > 1 => p - 1 \in 1 .. n0 BY <1>1
        <5> QED BY <1>0, <2>2, <2>3, <3>3, <5>1 DEF Unlinked
      <4>2. lnext[lorder[o]] = L!NodeAt(o + 1) BY <1>1
      <4>3. Old(k + 1) = o + 1 BY <2>1, <2>2, <3>3
      <4>4. k + 1 <= n0 - 1 <=> o + 1 <= n0 BY <1>12, <2>1, <2>2, <3>3
      <4>5. L!NodeAt(o + 1) = IF o + 1 <= n0 THEN lorder[o + 1] ELSE Null
        <5>1. o + 1 \in Int /\ (o + 1 \in 1 .. n0 <=> o + 1 <= n0) OBVIOUS
        <5> QED BY <1>1, <5>1
      <4> HIDE DEF Old
      <4> QED BY <3>1, <4>1, <4>2, <4>3, <4>4, <4>5
    <3> QED BY <3>2, <3>3
  <2>5. lprev'[lorder[o]] = L!NodeAt(k - 1)'
    <3>1. L!NodeAt(k - 1)' = IF k - 1 >= 1 THEN lorder[Old(k - 1)] ELSE Null
      <4>1. k - 1 \in Int /\ (k - 1 \in 1 .. n0 - 1 <=> k - 1 >= 1) BY <1>1
      <4> HIDE DEF Old
      <4> QED BY <1>5, <4>1
    <3>2. CASE o = p + 1
      <4>1. lprev'[lorder[o]] = L!NodeAt(p - 1) BY <1>0, <1>1, <2>2, <3>2 DEF Unlinked
      <4>2. k = p /\ Old(k - 1) = p - 1 BY <2>1, <3>2
      <4>3. L!NodeAt(p - 1) = IF p - 1 >= 1 THEN lorder[p - 1] ELSE Null
        <5>1. p - 1 \in Int /\ (p - 1 \in 1 .. n0 <=> p - 1 >= 1) BY <1>0, <1>1
        <5> QED BY <1>1, <5>1
      <4> HIDE DEF Old
      <4> QED BY <3>1, <4>1, <4>2, <4>3
    <3>3. CASE o # p + 1
      <4>1. lprev'[lorder[o]] = lprev[lorder[o]]
        <5>1. p < n0 => p + 1 \in 1 .. n0 BY <1>1
        <5> QED BY <1>0, <2>2, <2>3, <3>3, <5>1 DEF Unlinked
      <4>2. lprev[lorder[o]] = L!NodeAt(o - 1) BY <1>1
      <4>3. Old(k - 1) = o - 1 BY <2>1, <2>2, <3>3
      <4>4. k - 1 >= 1 <=> o - 1 >= 1 BY <1>12, <2>1, <2>2, <3>3
      <4>5. L!NodeAt(o - 1) = IF o - 1 >= 1 THEN lorder[o - 1] ELSE Null
        <5>1. o - 1 \in Int /\ (o - 1 \in 1 .. n0 <=> o - 1 >= 1) OBVIOUS
        <5> QED BY <1>1, <5>1
      <4> HIDE DEF Old
      <4> QED BY <3>1, <4>1, <4>2, <4>3, <4>4, <4>5
    <3> QED BY <3>2, <3>3
  <2>6. ldata'[lorder[o]] = contents[o] BY <1>1 DEF Unlinked
  <2> QED BY <2>2, <2>4, <2>5, <2>6
<1>10. live' = L!ToSet(lorder)'
  <2>1. L!ToSet(lorder)' = {lorder'[k] : k \in 1 .. n0 - 1} BY <1>3 DEF L!ToSet
  <2>2. ASSUME NEW k \in 1 .. n0 - 1 PROVE lorder'[k] \in live \ {lorder[p]}
    <3>1. PICK o \in 1 .. n0 : o = Old(k) /\ o # p /\ lorder'[k] = lorder[o] BY <1>4
    <3> QED BY <1>0, <1>1, <3>1 DEF ListInv, ListOnce
  <2>3. ASSUME NEW x \in live \ {lorder[p]} PROVE \E k \in 1 .. n0 - 1 : x = lorder'[k]
    <3>1. PICK o \in 1 .. n0 : x = lorder[o] /\ o # p BY <1>1
    <3>2. PICK k \in 1 .. n0 - 1 : Old(k) = o
      <4>1. CASE o < p
        <5>1. o \in 1 .. n0 - 1 /\ Old(o) = o BY <1>1, <4>1
        <5> QED BY <5>1
      <4>2. CASE o > p
        <5>1. o - 1 \in 1 .. n0 - 1 /\ Old(o - 1) = o BY <1>1, <4>2
        <5> QED BY <5>1
      <4> QED BY <3>1, <4>1, <4>2
    <3> QED BY <1>4, <3>1, <3>2
  <2>4. live' = live \ {lorder[p]} BY DEF Unlinked
  <2> QED BY <2>1, <2>2, <2>3, <2>4
<1>11. Len(contents)' = n0 - 1 /\ list_size' = n0 - 1 /\ buffer' = taken'
  BY <1>1 DEF Unlinked, Removed
<1> QED BY <1>2, <1>3, <1>6, <1>7, <1>8, <1>9, <1>10, <1>11 DEF ListInv, L!ListExact

\* The operations that delete.
LEMMA ListEnds ==
    ASSUME ListInv
    PROVE  /\ lhead # Null => 1 \in 1 .. Len(lorder) /\ lhead = lorder[1]
           /\ ltail # Null => Len(lorder) \in 1 .. Len(lorder) /\ ltail = lorder[Len(lorder)]
           /\ \A k \in 1 .. Len(lorder) : lorder # <<>> /\ contents # <<>>
           /\ \A k \in 1 .. Len(lorder) : /\ lhead = lorder[k] <=> k = 1
                                          /\ ltail = lorder[k] <=> k = Len(lorder)
<1>1. PICK n0 \in Nat : n0 = Len(lorder) BY ListPlaces
<1>2. /\ n0 = Len(contents) /\ lhead = L!NodeAt(1) /\ ltail = L!NodeAt(n0)
      /\ \A k \in Int : L!NodeAt(k) = IF k \in 1 .. n0 THEN lorder[k] ELSE Null
  BY <1>1, ListPlaces
<1>3. lhead = IF n0 > 0 THEN lorder[1] ELSE Null
  <2>1. 1 \in 1 .. n0 <=> n0 > 0 OBVIOUS
  <2> QED BY <1>2, <2>1
<1>4. ltail = IF n0 > 0 THEN lorder[n0] ELSE Null
  <2>1. n0 \in 1 .. n0 <=> n0 > 0 OBVIOUS
  <2> QED BY <1>2, <2>1
<1>5. ASSUME n0 > 0 PROVE lorder # <<>> /\ contents # <<>>
  <2>1. ASSUME lorder = <<>> PROVE FALSE BY <1>1, <1>5, <2>1
  <2>2. ASSUME contents = <<>> PROVE FALSE BY <1>2, <1>5, <2>2
  <2> QED BY <2>1, <2>2
<1>6. \A j, k \in 1 .. n0 : lorder[j] = lorder[k] => j = k BY <1>1 DEF ListInv, ListOnce
<1>7. ASSUME NEW k \in 1 .. n0 PROVE /\ lhead = lorder[k] <=> k = 1
                                     /\ ltail = lorder[k] <=> k = n0
  <2>1. 1 \in 1 .. n0 /\ n0 \in 1 .. n0 /\ n0 > 0 OBVIOUS
  <2> QED BY <1>3, <1>4, <1>6, <2>1
<1>8. \A k \in 1 .. n0 : n0 > 0 OBVIOUS
<1> QED BY <1>1, <1>3, <1>4, <1>5, <1>7, <1>8

LEMMA ListDeleteNode == ASSUME ListInv, NEW n1 \in Nodes, L!DeleteNode(n1) PROVE ListInv'
<1>1. PICK p \in DOMAIN lorder :
        /\ lorder[p] = n1 /\ contents' = L!RemoveAt(contents, p) /\ lorder' = L!RemoveAt(lorder, p)
  BY DEF L!DeleteNode
<1>2. PICK n0 \in Nat : n0 = Len(lorder) /\ p \in 1 .. n0 /\ n0 = Len(contents) BY ListPlaces
<1>3. lorder \in Seq(Nodes) /\ contents \in Seq(Data) BY DEF ListInv, ListType
<1>4. /\ lorder' \in Seq(Nodes) /\ contents' \in Seq(Data)
      /\ Removed(lorder, lorder', p) /\ Removed(contents, contents', p)
  BY <1>1, <1>2, <1>3, RemoveAtRemoves
<1>5. lnext[n1] = L!NodeAt(p + 1) /\ lprev[n1] = L!NodeAt(p - 1) BY <1>1, <1>2, ListPlaces
<1>6. /\ lnext' = [m \in Nodes |-> IF m = lprev[n1] THEN lnext[n1] ELSE lnext[m]]
      /\ lprev' = [m \in Nodes |-> IF m = lnext[n1] THEN lprev[n1] ELSE lprev[m]]
      /\ lhead' = (IF lhead = n1 THEN lnext[n1] ELSE lhead)
      /\ ltail' = (IF ltail = n1 THEN lprev[n1] ELSE ltail)
      /\ live' = live \ {n1} /\ list_size' = list_size - 1 /\ UNCHANGED <<ldata, buffer, taken>>
  BY DEF L!DeleteNode, L!Unlink
<1>7. /\ \A k \in Int : L!NodeAt(k) = IF k \in 1 .. n0 THEN lorder[k] ELSE Null
      /\ \A k \in Int : L!NodeAt(k) \in Nodes \cup {Null}
      /\ \A m \in Nodes : m # Null
  BY <1>2, ListPlaces, PlatformConstants DEF L!ListConstants
<1>8. p + 1 \in Int /\ p - 1 \in Int /\ (p + 1 \in 1 .. n0 <=> p < n0) /\ (p - 1 \in 1 .. n0 <=> p > 1)
  BY <1>2
<1>9. /\ L!NodeAt(p + 1) = IF p < n0 THEN lorder[p + 1] ELSE Null
      /\ L!NodeAt(p - 1) = IF p > 1 THEN lorder[p - 1] ELSE Null
      /\ L!NodeAt(p + 1) \in Nodes \cup {Null} /\ L!NodeAt(p - 1) \in Nodes \cup {Null}
  BY <1>7, <1>8
<1>10. /\ lnext' \in [Nodes -> Nodes \cup {Null}] /\ lprev' \in [Nodes -> Nodes \cup {Null}]
       /\ \A m \in Nodes : lnext'[m] = IF p > 1 /\ m = lorder[p - 1] THEN L!NodeAt(p + 1) ELSE lnext[m]
       /\ \A m \in Nodes : lprev'[m] = IF p < n0 /\ m = lorder[p + 1] THEN L!NodeAt(p - 1) ELSE lprev[m]
  <2>1. lnext \in [Nodes -> Nodes \cup {Null}] /\ lprev \in [Nodes -> Nodes \cup {Null}]
    BY DEF ListInv, ListType
  <2> QED BY <1>5, <1>6, <1>7, <1>9, <2>1
<1>11. (lhead = n1 <=> p = 1) /\ (ltail = n1 <=> p = n0) BY <1>1, <1>2, ListEnds
<1>12. /\ lhead' = IF p = 1 THEN L!NodeAt(2) ELSE lhead
       /\ ltail' = IF p = n0 THEN L!NodeAt(n0 - 1) ELSE ltail
  <2>1. p = 1 => p + 1 = 2 OBVIOUS
  <2> QED BY <1>5, <1>6, <1>11, <2>1
<1>13. buffer' = taken' BY <1>6 DEF ListInv, L!ListExact
<1>14. Unlinked(p) BY <1>1, <1>2, <1>4, <1>6, <1>10, <1>12, <1>13 DEF Unlinked
<1> QED BY <1>2, <1>14, UnlinkKeeps

\* list_delete_head and dequeue.
HeadGone ==
    /\ lhead # Null
    /\ lhead' = lnext[lhead] /\ lprev' = [m \in Nodes |-> IF m = lnext[lhead] THEN Null ELSE lprev[m]]
    /\ ltail' = (IF ltail = lhead THEN Null ELSE ltail)
    /\ live' = live \ {lhead} /\ list_size' = list_size - 1 /\ contents' = Tail(contents)
    /\ lorder' = Tail(lorder) /\ UNCHANGED <<lnext, ldata>>
LEMMA ListHeadGone == ASSUME ListInv, HeadGone, buffer' = taken' PROVE ListInv'
<1>1. PICK n0 \in Nat : n0 = Len(lorder) /\ n0 = Len(contents) /\ 1 \in 1 .. n0
  BY ListPlaces, ListEnds DEF HeadGone
<1>2. n0 >= 1 /\ lhead = lorder[1] /\ lorder # <<>> /\ contents # <<>> /\ lhead \in Nodes
  BY <1>1, ListEnds, ListPlaces
<1>3. lorder \in Seq(Nodes) /\ contents \in Seq(Data) BY DEF ListInv, ListType
<1>4. /\ lorder' \in Seq(Nodes) /\ contents' \in Seq(Data)
      /\ Removed(lorder, lorder', 1) /\ Removed(contents, contents', 1)
  BY <1>2, <1>3, TailRemoves DEF HeadGone
<1>5. lnext[lhead] = L!NodeAt(2) /\ L!NodeAt(0) = Null /\ L!NodeAt(2) = IF 1 < n0 THEN lorder[2] ELSE Null
  <2>1. \A k \in Int : L!NodeAt(k) = IF k \in 1 .. n0 THEN lorder[k] ELSE Null BY <1>1, ListPlaces
  <2>2. 0 \in Int /\ 0 \notin 1 .. n0 /\ 2 \in Int /\ (2 \in 1 .. n0 <=> 1 < n0) /\ 1 + 1 = 2 OBVIOUS
  <2>3. lnext[lhead] = L!NodeAt(1 + 1) BY <1>1, <1>2, ListPlaces
  <2> QED BY <2>1, <2>2, <2>3
<1>6. \A m \in Nodes : m # Null BY PlatformConstants DEF L!ListConstants
<1>7. lnext \in [Nodes -> Nodes \cup {Null}] /\ lprev \in [Nodes -> Nodes \cup {Null}]
  BY DEF ListInv, ListType
<1>8. /\ lnext' \in [Nodes -> Nodes \cup {Null}] /\ lprev' \in [Nodes -> Nodes \cup {Null}]
      /\ \A m \in Nodes : lnext'[m] = lnext[m]
      /\ \A m \in Nodes : lprev'[m] = IF 1 < n0 /\ m = lorder[2] THEN L!NodeAt(0) ELSE lprev[m]
  BY <1>5, <1>6, <1>7 DEF HeadGone
<1>9. ltail = lhead <=> n0 = 1 BY <1>1, <1>2, ListEnds
<1>10. /\ lhead' = L!NodeAt(2)
       /\ ltail' = IF 1 = n0 THEN L!NodeAt(n0 - 1) ELSE ltail
  <2>1. 1 = n0 => n0 - 1 = 0 OBVIOUS
  <2> QED BY <1>5, <1>9, <2>1 DEF HeadGone
<1>11. Unlinked(1)
  <2>1. 1 - 1 = 0 /\ 1 + 1 = 2 OBVIOUS
  <2> QED BY <1>1, <1>2, <1>4, <1>8, <1>10, <2>1 DEF Unlinked, HeadGone
<1> QED BY <1>1, <1>11, UnlinkKeeps

LEMMA ListDeleteHead == ASSUME ListInv, L!DeleteHead PROVE ListInv'
<1>1. buffer' = taken' BY DEF L!DeleteHead, ListInv, L!ListExact
<1> QED BY <1>1, ListHeadGone DEF L!DeleteHead, HeadGone

LEMMA ListDequeue == ASSUME ListInv, L!Dequeue PROVE ListInv'
<1>1. PICK n0 \in Nat : n0 = Len(lorder) /\ n0 = Len(contents) /\ n0 = list_size BY ListPlaces
<1>2. n0 # 0 /\ 1 \in 1 .. n0 BY <1>1 DEF L!Dequeue
<1>3. lhead = lorder[1] /\ lhead # Null /\ contents # <<>> BY <1>1, <1>2, ListEnds, ListPlaces
<1>4. ldata[lhead] = contents[1] BY <1>1, <1>2, <1>3, ListPlaces
<1>5. contents[1] = Head(contents) BY <1>3, TailRemoves DEF ListInv, ListType
<1>6. buffer' = taken' BY <1>4, <1>5 DEF L!Dequeue
<1> QED BY <1>3, <1>6, ListHeadGone DEF L!Dequeue, HeadGone

LEMMA ListDeleteTail == ASSUME ListInv, L!DeleteTail PROVE ListInv'
<1>1. PICK n0 \in Nat : n0 = Len(lorder) /\ n0 = Len(contents) /\ n0 \in 1 .. n0
  BY ListPlaces, ListEnds DEF L!DeleteTail
<1>2. n0 >= 1 /\ ltail = lorder[n0] /\ lorder # <<>> /\ contents # <<>> /\ ltail \in Nodes
  BY <1>1, ListEnds, ListPlaces
<1>3. lorder \in Seq(Nodes) /\ contents \in Seq(Data) BY DEF ListInv, ListType
<1>4. /\ lorder' \in Seq(Nodes) /\ contents' \in Seq(Data)
      /\ Removed(lorder, lorder', n0) /\ Removed(contents, contents', n0)
  BY <1>1, <1>2, <1>3, FrontRemoves DEF L!DeleteTail
<1>5. /\ lprev[ltail] = L!NodeAt(n0 - 1) /\ L!NodeAt(n0 + 1) = Null
      /\ L!NodeAt(n0 - 1) = IF n0 > 1 THEN lorder[n0 - 1] ELSE Null
  <2>1. \A k \in Int : L!NodeAt(k) = IF k \in 1 .. n0 THEN lorder[k] ELSE Null BY <1>1, ListPlaces
  <2>2. n0 + 1 \in Int /\ n0 + 1 \notin 1 .. n0 /\ n0 - 1 \in Int /\ (n0 - 1 \in 1 .. n0 <=> n0 > 1)
    OBVIOUS
  <2>3. lprev[ltail] = L!NodeAt(n0 - 1) BY <1>1, <1>2, ListPlaces
  <2> QED BY <2>1, <2>2, <2>3
<1>6. \A m \in Nodes : m # Null BY PlatformConstants DEF L!ListConstants
<1>7. lnext \in [Nodes -> Nodes \cup {Null}] /\ lprev \in [Nodes -> Nodes \cup {Null}]
  BY DEF ListInv, ListType
<1>8. /\ lnext' \in [Nodes -> Nodes \cup {Null}] /\ lprev' \in [Nodes -> Nodes \cup {Null}]
      /\ \A m \in Nodes : lnext'[m] = IF n0 > 1 /\ m = lorder[n0 - 1] THEN L!NodeAt(n0 + 1) ELSE lnext[m]
      /\ \A m \in Nodes : lprev'[m] = lprev[m]
  BY <1>5, <1>6, <1>7 DEF L!DeleteTail
<1>9. lhead = ltail <=> n0 = 1 BY <1>1, <1>2, ListEnds
<1>10. /\ ltail' = L!NodeAt(n0 - 1)
       /\ lhead' = IF n0 = 1 THEN L!NodeAt(2) ELSE lhead
  <2>1. n0 = 1 => n0 + 1 = 2 OBVIOUS
  <2> QED BY <1>5, <1>9, <2>1 DEF L!DeleteTail
<1>11. buffer' = taken' BY DEF L!DeleteTail, ListInv, L!ListExact
<1>12. Unlinked(n0)
  <2>1. ~(n0 < Len(lorder)) BY <1>1
  <2> QED BY <1>1, <1>2, <1>4, <1>8, <1>10, <1>11, <2>1 DEF Unlinked, L!DeleteTail
<1> QED BY <1>1, <1>12, UnlinkKeeps

\* A node put in front of the others, and one put behind them.
LEMMA InFront ==
    ASSUME NEW S, NEW s \in Seq(S), NEW x \in S
    PROVE  /\ <<x>> \o s \in Seq(S) /\ Len(<<x>> \o s) = Len(s) + 1
           /\ \A k \in 1 .. Len(s) + 1 : (<<x>> \o s)[k] = IF k = 1 THEN x ELSE s[k - 1]
<1>1. <<x>> \in Seq(S) /\ Len(<<x>>) = 1 /\ <<x>>[1] = x OBVIOUS
<1>2. Len(s) \in Nat BY LenProperties
<1> DEFINE o == <<x>>
<1>3. o \in Seq(S) /\ Len(o) = 1 /\ o[1] = x BY <1>1
<1> HIDE DEF o
<1>4. /\ o \o s \in Seq(S) /\ Len(o \o s) = Len(o) + Len(s)
      /\ \A i \in 1 .. Len(o) + Len(s) : (o \o s)[i] = IF i <= Len(o) THEN o[i] ELSE s[i - Len(o)]
  BY <1>3, ConcatProperties
<1>5. Len(o \o s) = Len(s) + 1 BY <1>2, <1>3, <1>4
<1>6. \A k \in 1 .. Len(s) + 1 : (o \o s)[k] = IF k = 1 THEN x ELSE s[k - 1] BY <1>2, <1>3, <1>4
<1> QED BY <1>4, <1>5, <1>6 DEF o

LEMMA ListPushFront ==
    ASSUME ListInv, NEW n1 \in Nodes, NEW d \in Data, L!PushFront(n1, d) PROVE ListInv'
<1>0. PICK n0 \in Nat : n0 = Len(lorder) BY ListPlaces
<1>1. /\ Len(contents) = n0 /\ list_size = n0
      /\ \A k \in 1 .. n0 : lorder[k] \in Nodes /\ lorder[k] # Null
      /\ \A k \in Int : L!NodeAt(k) = IF k \in 1 .. n0 THEN lorder[k] ELSE Null
      /\ lhead = L!NodeAt(1) /\ ltail = L!NodeAt(n0)
      /\ \A k \in 1 .. n0 :
           /\ lnext[lorder[k]] = L!NodeAt(k + 1) /\ lprev[lorder[k]] = L!NodeAt(k - 1)
           /\ ldata[lorder[k]] = contents[k]
      /\ live = {lorder[k] : k \in 1 .. n0}
  BY <1>0, ListPlaces
<1>2. lorder \in Seq(Nodes) /\ contents \in Seq(Data) BY DEF ListInv, ListType
<1>3. /\ lorder' \in Seq(Nodes) /\ Len(lorder') = n0 + 1
      /\ \A k \in 1 .. n0 + 1 : lorder'[k] = IF k = 1 THEN n1 ELSE lorder[k - 1]
  <2>1. lorder' = <<n1>> \o lorder BY DEF L!PushFront
  <2> QED BY <1>0, <1>2, <2>1, InFront
<1>4. /\ contents' \in Seq(Data) /\ Len(contents') = n0 + 1
      /\ \A k \in 1 .. n0 + 1 : contents'[k] = IF k = 1 THEN d ELSE contents[k - 1]
  BY <1>1, <1>2, InFront DEF L!PushFront
<1>5. DOMAIN lorder' = 1 .. n0 + 1 BY <1>3, LenProperties
<1>6. n1 # Null /\ \A k \in 1 .. n0 : lorder[k] # n1
  BY <1>1, PlatformConstants DEF L!ListConstants, L!PushFront
<1>7. lhead = (IF n0 > 0 THEN lorder[1] ELSE Null) /\ ltail = (IF n0 > 0 THEN lorder[n0] ELSE Null)
  <2>1. (1 \in 1 .. n0 <=> n0 > 0) /\ (n0 \in 1 .. n0 <=> n0 > 0) OBVIOUS
  <2> QED BY <1>1, <2>1
<1>8. /\ lnext \in [Nodes -> Nodes \cup {Null}] /\ lprev \in [Nodes -> Nodes \cup {Null}]
      /\ ldata \in [Nodes -> Data] /\ lhead \in Nodes \cup {Null}
  <2>1. n0 > 0 => lorder[1] \in Nodes BY <1>1
  <2> QED BY <1>7, <2>1 DEF ListInv, ListType
<1>9. /\ lnext' = [lnext EXCEPT ![n1] = lhead] /\ ldata' = [ldata EXCEPT ![n1] = d]
      /\ lprev' = [m \in Nodes |-> IF m = n1 THEN Null ELSE IF m = lhead THEN n1 ELSE lprev[m]]
      /\ lhead' = n1 /\ ltail' = (IF ltail = Null THEN n1 ELSE ltail) /\ live' = live \cup {n1}
      /\ list_size' = n0 + 1 /\ UNCHANGED <<buffer, taken>>
  BY <1>1 DEF L!PushFront
<1>10. ListType' BY <1>3, <1>4, <1>8, <1>9 DEF ListType
<1>11. \A k \in Int : L!NodeAt(k)' = IF k \in 1 .. n0 + 1 THEN (IF k = 1 THEN n1 ELSE lorder[k - 1]) ELSE Null
  BY <1>3, <1>5 DEF L!NodeAt
<1>12. ListOnce'
  <2> SUFFICES ASSUME NEW j \in 1 .. n0 + 1, NEW k \in 1 .. n0 + 1, lorder'[j] = lorder'[k] PROVE j = k
    BY <1>3 DEF ListOnce
  <2>1. \A i \in 1 .. n0 + 1 : i = 1 \/ i - 1 \in 1 .. n0 OBVIOUS
  <2>2. j # 1 /\ k # 1 => j - 1 = k - 1 BY <1>0, <1>3, <2>1 DEF ListInv, ListOnce
  <2>3. j = 1 <=> k = 1 BY <1>3, <1>6, <2>1
  <2> QED BY <2>2, <2>3
<1>13. lhead' = L!NodeAt(1)' BY <1>9, <1>11
<1>14. ltail' = L!NodeAt(Len(lorder))'
  <2>1. L!NodeAt(Len(lorder))' = L!NodeAt(n0 + 1)' BY <1>3 DEF L!NodeAt
  <2>2. L!NodeAt(n0 + 1)' = IF n0 > 0 THEN lorder[n0] ELSE n1
    <3>1. n0 + 1 \in Int /\ n0 + 1 \in 1 .. n0 + 1 /\ (n0 + 1 = 1 <=> ~(n0 > 0)) /\ (n0 + 1) - 1 = n0
      OBVIOUS
    <3> QED BY <1>11, <3>1
  <2>3. n0 > 0 => lorder[n0] # Null BY <1>1
  <2> QED BY <1>7, <1>9, <2>1, <2>2, <2>3
<1>15. ASSUME NEW k \in 1 .. n0 + 1
       PROVE  /\ lnext'[lorder'[k]] = L!NodeAt(k + 1)' /\ lprev'[lorder'[k]] = L!NodeAt(k - 1)'
              /\ ldata'[lorder'[k]] = contents'[k]
  <2>1. L!NodeAt(k + 1)' = IF k <= n0 THEN lorder[k] ELSE Null
    <3>1. k + 1 \in Int /\ (k + 1 \in 1 .. n0 + 1 <=> k <= n0) /\ k + 1 # 1 /\ (k + 1) - 1 = k OBVIOUS
    <3> QED BY <1>11, <3>1
  <2>2. L!NodeAt(k - 1)' = IF k = 1 THEN Null ELSE IF k = 2 THEN n1 ELSE lorder[k - 2]
    <3>1. k - 1 \in Int /\ (k - 1 \in 1 .. n0 + 1 <=> k # 1) /\ (k - 1 = 1 <=> k = 2) /\ (k - 1) - 1 = k - 2
      OBVIOUS
    <3> QED BY <1>11, <3>1
  <2>3. CASE k = 1
    <3>1. lorder'[k] = n1 /\ contents'[k] = d BY <1>3, <1>4, <2>3
    <3>2. 1 <= n0 <=> n0 > 0 OBVIOUS
    <3>3. lnext'[n1] = lhead /\ lprev'[n1] = Null /\ ldata'[n1] = d BY <1>8, <1>9
    <3> QED BY <1>7, <2>1, <2>2, <2>3, <3>1, <3>2, <3>3
  <2>4. CASE k # 1
    <3>1. PICK o \in 1 .. n0 : o = k - 1 BY <2>4
    <3>2. lorder'[k] = lorder[o] /\ contents'[k] = contents[o] /\ lorder[o] \in Nodes /\ lorder[o] # n1
      BY <1>1, <1>3, <1>4, <1>6, <2>4, <3>1
    <3>3. lnext'[lorder[o]] = L!NodeAt(o + 1) /\ ldata'[lorder[o]] = contents[o]
      BY <1>1, <1>8, <1>9, <3>2
    <3>4. lprev'[lorder[o]] = IF o = 1 THEN n1 ELSE L!NodeAt(o - 1)
      <4>1. lhead = lorder[o] <=> o = 1 BY <1>0, ListEnds
      <4> QED BY <1>1, <1>9, <3>2, <4>1
    <3>5. L!NodeAt(o + 1) = IF k <= n0 THEN lorder[k] ELSE Null
      <4>1. o + 1 = k /\ k \in Int /\ (k \in 1 .. n0 <=> k <= n0) BY <3>1
      <4> QED BY <1>1, <4>1
    <3>6. o # 1 => L!NodeAt(o - 1) = lorder[k - 2]
      <4>1. o - 1 = k - 2 /\ k - 2 \in Int /\ (o # 1 => k - 2 \in 1 .. n0) BY <3>1
      <4> QED BY <1>1, <4>1
    <3>7. o = 1 <=> k = 2 BY <3>1
    <3> QED BY <2>1, <2>2, <2>4, <3>2, <3>3, <3>4, <3>5, <3>6, <3>7
  <2> QED BY <2>3, <2>4
<1>16. live' = L!ToSet(lorder)'
  <2>1. L!ToSet(lorder)' = {lorder'[k] : k \in 1 .. n0 + 1} BY <1>5 DEF L!ToSet
  <2>2. ASSUME NEW k \in 1 .. n0 + 1 PROVE lorder'[k] \in live \cup {n1}
    <3>1. k = 1 \/ k - 1 \in 1 .. n0 OBVIOUS
    <3> QED BY <1>1, <1>3, <3>1
  <2>3. ASSUME NEW x \in live \cup {n1} PROVE \E k \in 1 .. n0 + 1 : x = lorder'[k]
    <3>1. CASE x = n1 BY <1>3, <3>1
    <3>2. CASE x \in live
      <4>1. PICK o \in 1 .. n0 : x = lorder[o] BY <1>1, <3>2
      <4>2. o + 1 \in 1 .. n0 + 1 /\ o + 1 # 1 /\ (o + 1) - 1 = o OBVIOUS
      <4> QED BY <1>3, <4>1, <4>2
    <3> QED BY <3>1, <3>2
  <2> QED BY <1>9, <2>1, <2>2, <2>3
<1>17. buffer' = taken' BY <1>9 DEF ListInv, L!ListExact
<1> QED BY <1>3, <1>4, <1>5, <1>9, <1>10, <1>12, <1>13, <1>14, <1>15, <1>16, <1>17
  DEF ListInv, L!ListExact

LEMMA ListPushBack ==
    ASSUME ListInv, NEW n1 \in Nodes, NEW d \in Data, L!PushBack(n1, d) PROVE ListInv'
<1>0. PICK n0 \in Nat : n0 = Len(lorder) BY ListPlaces
<1>1. /\ Len(contents) = n0 /\ list_size = n0
      /\ \A k \in 1 .. n0 : lorder[k] \in Nodes /\ lorder[k] # Null
      /\ \A k \in Int : L!NodeAt(k) = IF k \in 1 .. n0 THEN lorder[k] ELSE Null
      /\ lhead = L!NodeAt(1) /\ ltail = L!NodeAt(n0)
      /\ \A k \in 1 .. n0 :
           /\ lnext[lorder[k]] = L!NodeAt(k + 1) /\ lprev[lorder[k]] = L!NodeAt(k - 1)
           /\ ldata[lorder[k]] = contents[k]
      /\ live = {lorder[k] : k \in 1 .. n0}
  BY <1>0, ListPlaces
<1>2. lorder \in Seq(Nodes) /\ contents \in Seq(Data) BY DEF ListInv, ListType
<1>3. /\ lorder' \in Seq(Nodes) /\ Len(lorder') = n0 + 1
      /\ \A k \in 1 .. n0 + 1 : lorder'[k] = IF k = n0 + 1 THEN n1 ELSE lorder[k]
  <2>1. lorder' = Append(lorder, n1) BY DEF L!PushBack
  <2> QED BY <1>0, <1>2, <2>1, AppendProperties
<1>4. /\ contents' \in Seq(Data) /\ Len(contents') = n0 + 1
      /\ \A k \in 1 .. n0 + 1 : contents'[k] = IF k = n0 + 1 THEN d ELSE contents[k]
  <2>1. contents' = Append(contents, d) BY DEF L!PushBack
  <2> QED BY <1>1, <1>2, <2>1, AppendProperties
<1>5. DOMAIN lorder' = 1 .. n0 + 1 BY <1>3, LenProperties
<1>6. n1 # Null /\ \A k \in 1 .. n0 : lorder[k] # n1
  BY <1>1, PlatformConstants DEF L!ListConstants, L!PushBack
<1>7. lhead = (IF n0 > 0 THEN lorder[1] ELSE Null) /\ ltail = (IF n0 > 0 THEN lorder[n0] ELSE Null)
  <2>1. (1 \in 1 .. n0 <=> n0 > 0) /\ (n0 \in 1 .. n0 <=> n0 > 0) OBVIOUS
  <2> QED BY <1>1, <2>1
<1>8. /\ lnext \in [Nodes -> Nodes \cup {Null}] /\ lprev \in [Nodes -> Nodes \cup {Null}]
      /\ ldata \in [Nodes -> Data] /\ ltail \in Nodes \cup {Null}
  <2>1. n0 > 0 => lorder[n0] \in Nodes BY <1>1
  <2> QED BY <1>7, <2>1 DEF ListInv, ListType
<1>9. /\ lprev' = [lprev EXCEPT ![n1] = ltail] /\ ldata' = [ldata EXCEPT ![n1] = d]
      /\ lnext' = [m \in Nodes |-> IF m = n1 THEN Null ELSE IF m = ltail THEN n1 ELSE lnext[m]]
      /\ ltail' = n1 /\ lhead' = (IF lhead = Null THEN n1 ELSE lhead) /\ live' = live \cup {n1}
      /\ list_size' = n0 + 1 /\ UNCHANGED <<buffer, taken>>
  BY <1>1 DEF L!PushBack
<1>10. ListType' BY <1>3, <1>4, <1>8, <1>9 DEF ListType
<1>11. \A k \in Int : L!NodeAt(k)' = IF k \in 1 .. n0 + 1 THEN (IF k = n0 + 1 THEN n1 ELSE lorder[k]) ELSE Null
  BY <1>3, <1>5 DEF L!NodeAt
<1>12. ListOnce'
  <2> SUFFICES ASSUME NEW j \in 1 .. n0 + 1, NEW k \in 1 .. n0 + 1, lorder'[j] = lorder'[k] PROVE j = k
    BY <1>3 DEF ListOnce
  <2>1. \A i \in 1 .. n0 + 1 : i = n0 + 1 \/ i \in 1 .. n0 OBVIOUS
  <2>2. j # n0 + 1 /\ k # n0 + 1 => j = k BY <1>0, <1>3, <2>1 DEF ListInv, ListOnce
  <2>3. j = n0 + 1 <=> k = n0 + 1 BY <1>3, <1>6, <2>1
  <2> QED BY <2>2, <2>3
<1>13. ltail' = L!NodeAt(Len(lorder))'
  <2>1. L!NodeAt(Len(lorder))' = L!NodeAt(n0 + 1)' BY <1>3 DEF L!NodeAt
  <2>2. n0 + 1 \in Int /\ n0 + 1 \in 1 .. n0 + 1 OBVIOUS
  <2> QED BY <1>9, <1>11, <2>1, <2>2
<1>14. lhead' = L!NodeAt(1)'
  <2>1. L!NodeAt(1)' = IF n0 > 0 THEN lorder[1] ELSE n1
    <3>1. 1 \in Int /\ 1 \in 1 .. n0 + 1 /\ (1 = n0 + 1 <=> ~(n0 > 0)) OBVIOUS
    <3> QED BY <1>11, <3>1
  <2>2. n0 > 0 => lorder[1] # Null BY <1>1
  <2> QED BY <1>7, <1>9, <2>1, <2>2
<1>15. ASSUME NEW k \in 1 .. n0 + 1
       PROVE  /\ lnext'[lorder'[k]] = L!NodeAt(k + 1)' /\ lprev'[lorder'[k]] = L!NodeAt(k - 1)'
              /\ ldata'[lorder'[k]] = contents'[k]
  <2>1. L!NodeAt(k + 1)' = IF k = n0 + 1 THEN Null ELSE IF k = n0 THEN n1 ELSE lorder[k + 1]
    <3>1. k + 1 \in Int /\ (k + 1 \in 1 .. n0 + 1 <=> k # n0 + 1) /\ (k + 1 = n0 + 1 <=> k = n0) OBVIOUS
    <3> QED BY <1>11, <3>1
  <2>2. L!NodeAt(k - 1)' = IF k = 1 THEN Null ELSE lorder[k - 1]
    <3>1. k - 1 \in Int /\ (k - 1 \in 1 .. n0 + 1 <=> k # 1) /\ k - 1 # n0 + 1 OBVIOUS
    <3> QED BY <1>11, <3>1
  <2>3. CASE k = n0 + 1
    <3>1. lorder'[k] = n1 /\ contents'[k] = d BY <1>3, <1>4, <2>3
    <3>2. (k = 1 <=> ~(n0 > 0)) /\ k - 1 = n0 BY <2>3
    <3>3. lprev'[n1] = ltail /\ lnext'[n1] = Null /\ ldata'[n1] = d BY <1>8, <1>9
    <3> QED BY <1>7, <2>1, <2>2, <2>3, <3>1, <3>2, <3>3
  <2>4. CASE k # n0 + 1
    <3>1. k \in 1 .. n0 BY <2>4
    <3>2. lorder'[k] = lorder[k] /\ contents'[k] = contents[k] /\ lorder[k] \in Nodes /\ lorder[k] # n1
      BY <1>1, <1>3, <1>4, <1>6, <2>4, <3>1
    <3>3. lprev'[lorder[k]] = L!NodeAt(k - 1) /\ ldata'[lorder[k]] = contents[k]
      BY <1>1, <1>8, <1>9, <3>1, <3>2
    <3>4. lnext'[lorder[k]] = IF k = n0 THEN n1 ELSE L!NodeAt(k + 1)
      <4>1. ltail = lorder[k] <=> k = n0 BY <1>0, <3>1, ListEnds
      <4> QED BY <1>1, <1>9, <3>1, <3>2, <4>1
    <3>5. k # n0 => L!NodeAt(k + 1) = lorder[k + 1]
      <4>1. k + 1 \in Int /\ (k # n0 => k + 1 \in 1 .. n0) BY <3>1
      <4> QED BY <1>1, <4>1
    <3>6. L!NodeAt(k - 1) = IF k = 1 THEN Null ELSE lorder[k - 1]
      <4>1. k - 1 \in Int /\ (k - 1 \in 1 .. n0 <=> k # 1) BY <3>1
      <4> QED BY <1>1, <4>1
    <3> QED BY <2>1, <2>2, <2>4, <3>2, <3>3, <3>4, <3>5, <3>6
  <2> QED BY <2>3, <2>4
<1>16. live' = L!ToSet(lorder)'
  <2>1. L!ToSet(lorder)' = {lorder'[k] : k \in 1 .. n0 + 1} BY <1>5 DEF L!ToSet
  <2>2. ASSUME NEW k \in 1 .. n0 + 1 PROVE lorder'[k] \in live \cup {n1}
    <3>1. k = n0 + 1 \/ k \in 1 .. n0 OBVIOUS
    <3> QED BY <1>1, <1>3, <3>1
  <2>3. ASSUME NEW x \in live \cup {n1} PROVE \E k \in 1 .. n0 + 1 : x = lorder'[k]
    <3>1. CASE x = n1
      <4>1. n0 + 1 \in 1 .. n0 + 1 OBVIOUS
      <4> QED BY <1>3, <3>1, <4>1
    <3>2. CASE x \in live
      <4>1. PICK o \in 1 .. n0 : x = lorder[o] BY <1>1, <3>2
      <4>2. o \in 1 .. n0 + 1 /\ o # n0 + 1 OBVIOUS
      <4> QED BY <1>3, <4>1, <4>2
    <3> QED BY <3>1, <3>2
  <2> QED BY <1>9, <2>1, <2>2, <2>3
<1>17. buffer' = taken' BY <1>9 DEF ListInv, L!ListExact
<1> QED BY <1>3, <1>4, <1>5, <1>9, <1>10, <1>12, <1>13, <1>14, <1>15, <1>16, <1>17
  DEF ListInv, L!ListExact

\* A walk along next meets the nodes of the list and no other: the first node it
\* would miss follows one that it meets.
LEMMA ListReached == ASSUME ListInv PROVE L!Reached = live
<1>0. PICK n0 \in Nat : n0 = Len(lorder) BY ListPlaces
<1>1. /\ \A k \in 1 .. n0 : lorder[k] \in Nodes /\ lorder[k] # Null
      /\ \A k \in Int : L!NodeAt(k) = IF k \in 1 .. n0 THEN lorder[k] ELSE Null
      /\ lhead = L!NodeAt(1) /\ \A k \in 1 .. n0 : lnext[lorder[k]] = L!NodeAt(k + 1)
      /\ live = {lorder[k] : k \in 1 .. n0}
  BY <1>0, ListPlaces
<1>2. live \in SUBSET Nodes BY <1>1
<1>3. \A k \in Int : L!NodeAt(k) \in live \cup {Null} BY <1>1
<1>4. \A k \in 1 .. n0 : k + 1 \in Int OBVIOUS
<1>5. lhead \in live \cup {Null} /\ \A m \in live : lnext[m] \in live \cup {Null}
  <2>1. ASSUME NEW m \in live PROVE lnext[m] \in live \cup {Null}
    <3>1. PICK k \in 1 .. n0 : m = lorder[k] BY <1>1
    <3> QED BY <1>1, <1>3, <1>4, <3>1
  <2> QED BY <1>1, <1>3, <2>1
<1>6. L!Reached \subseteq live BY <1>2, <1>5 DEF L!Reached
<1>7. ASSUME NEW S \in SUBSET Nodes, lhead \in S \cup {Null},
             \A m \in S : lnext[m] \in S \cup {Null}, NEW i \in 1 .. n0
      PROVE  lorder[i] \in S
  <2> DEFINE missed == {k \in 1 .. n0 : lorder[k] \notin S}
  <2>1. SUFFICES ASSUME missed # {} PROVE FALSE OBVIOUS
  <2>2. missed \in SUBSET Nat OBVIOUS
  <2>3. PICK k \in missed : \A c \in missed : k <= c
    <3> HIDE DEF missed
    <3> QED BY <2>1, <2>2, SmallestExists
  <2>4. k \in 1 .. n0 /\ lorder[k] \notin S /\ lorder[k] # Null BY <1>1, <2>3
  <2>5. CASE k = 1
    <3>1. lhead = lorder[1]
      <4>1. 1 \in Int /\ 1 \in 1 .. n0 BY <2>4
      <4> QED BY <1>1, <4>1
    <3> QED BY <1>7, <2>4, <2>5, <3>1
  <2>6. CASE k # 1
    <3>1. PICK j \in 1 .. n0 : j = k - 1 BY <2>4, <2>6
    <3>2. j \notin missed
      <4>1. ASSUME j \in missed PROVE FALSE
        <5>1. k <= j BY <2>3, <4>1
        <5> QED BY <2>4, <3>1, <5>1
      <4> QED BY <4>1
    <3>3. lorder[j] \in S BY <3>2
    <3>4. lnext[lorder[j]] = lorder[k]
      <4>1. j + 1 = k /\ k \in Int BY <2>4, <3>1
      <4> QED BY <1>1, <2>4, <4>1
    <3> QED BY <1>7, <2>4, <3>3, <3>4
  <2> QED BY <2>5, <2>6
<1>8. live \subseteq L!Reached
  <2> SUFFICES ASSUME NEW i \in 1 .. n0 PROVE lorder[i] \in L!Reached BY <1>1
  <2> QED BY <1>1, <1>7 DEF L!Reached
<1> QED BY <1>6, <1>8

LEMMA ListDestroy == ASSUME ListInv, L!Destroy PROVE ListInv'
<1>1. live' = {} BY ListReached DEF L!Destroy
<1>2. /\ lorder' = <<>> /\ contents' = <<>> /\ lhead' = Null /\ ltail' = Null /\ list_size' = 0
      /\ UNCHANGED <<lnext, lprev, ldata, buffer, taken>>
  BY DEF L!Destroy
<1>3. ListType' BY <1>2 DEF ListInv, ListType
<1>4. Len(lorder') = 0 /\ DOMAIN lorder' = {} /\ Len(contents') = 0 BY <1>2
<1>5. ListOnce' BY <1>4 DEF ListOnce
<1>6. \A k \in Int : L!NodeAt(k)' = Null BY <1>4 DEF L!NodeAt
<1>7. L!NodeAt(1)' = Null /\ L!NodeAt(Len(lorder))' = Null
  <2>1. L!NodeAt(Len(lorder))' = L!NodeAt(0)' BY <1>4 DEF L!NodeAt
  <2> QED BY <1>6, <2>1
<1>8. L!ToSet(lorder)' = {} BY <1>4 DEF L!ToSet
<1>9. buffer' = taken' BY <1>2 DEF ListInv, L!ListExact
<1> QED BY <1>1, <1>2, <1>3, <1>4, <1>5, <1>7, <1>8, <1>9 DEF ListInv, L!ListExact

LEMMA ListStarts == ASSUME L!Init PROVE ListInv
<1>1. PICK d \in Data : ldata = [m \in Nodes |-> d] /\ buffer = d /\ taken = d BY DEF L!Init
<1>2. /\ lorder = <<>> /\ contents = <<>> /\ lhead = Null /\ ltail = Null /\ list_size = 0 /\ live = {}
      /\ lnext = [m \in Nodes |-> Null] /\ lprev = [m \in Nodes |-> Null]
  BY DEF L!Init
<1>3. ListType BY <1>1, <1>2 DEF ListType
<1>4. Len(lorder) = 0 /\ DOMAIN lorder = {} /\ Len(contents) = 0 BY <1>2
<1>5. ListOnce BY <1>4 DEF ListOnce
<1>6. \A k : L!NodeAt(k) = Null BY <1>4 DEF L!NodeAt
<1>7. L!ToSet(lorder) = {} BY <1>4 DEF L!ToSet
<1> QED BY <1>1, <1>2, <1>3, <1>4, <1>5, <1>6, <1>7 DEF ListInv, L!ListExact

\* list.c and queue.c: through any sequence of calls, however long, the list is
\* linked both ways in the order of its data, its size and its nodes are the ones
\* in it, dequeue returns the first and destroy_list frees them all (ListHolds of
\* the run platform).
THEOREM ListIsExact == PlatformSpec => []ListHolds
<1> DEFINE LI == unit = "list" => ListInv
<1>1. PlatformInit => LI
  BY ListStarts DEF PlatformInit
<1>2. LI /\ [PlatformNext]_all => LI'
  <2> SUFFICES ASSUME LI, [PlatformNext]_all, unit' = "list" PROVE ListInv'
    OBVIOUS
  <2>1. unit = "list" BY DEF PlatformNext, all
  <2>2. ListInv BY <2>1
  <2>3. CASE PlatformNext
    <3>1. L!Next BY <2>1, <2>3 DEF PlatformNext
    <3> QED BY <2>2, <3>1, ListDeleteNode, ListPushFront, ListPushBack, ListDeleteHead, ListDeleteTail,
        ListDequeue, ListDestroy DEF L!Next
  <2>4. CASE UNCHANGED all
    <3>1. UNCHANGED <<lhead, ltail, list_size, lnext, lprev, ldata, live, buffer, contents, lorder, taken>>
      BY <2>4 DEF all, listVars
    <3> QED BY <2>2, <3>1 DEF ListInv, ListType, ListOnce, L!ListExact, L!NodeAt, L!ToSet
  <2> QED BY <2>3, <2>4
<1>3. LI => ListHolds BY DEF ListHolds, ListInv
<1> QED BY <1>1, <1>2, <1>3, PTL DEF PlatformSpec

-----------------------------------------------------------------------------
(* The mailbox.                                                             *)

\* Where tag k of the request begins in the buffer, and how many words its value
\* has; behind the last tag is the terminator.
Place(k) == IF k \in 1 .. Len(asked) THEN asked[k].place ELSE pt_index
SizeOf(k) == TagSizes[asked[k].tag]
Replied == \E i \in 1 .. Len(toArm) : toArm[i] = 8

BoxTalks == {"read", "got", "get", "done", "wild"}
BoxType ==
    /\ pt \in [0 .. (PtSize - 1) -> Int] /\ pt_index \in Nat /\ at \in BoxTalks \cup {"idle", "add"}
    /\ asked \in Seq([tag : DOMAIN TagSizes, arg : Int, place : Nat]) /\ want \in Int /\ index \in Int
    /\ toVc \in Seq({8}) /\ toArm \in Seq({1, 8}) /\ vc \in Nat

\* The tags lie one behind the other, inside the buffer.
BoxLayout == at # "idle" =>
    /\ pt_index >= 2 /\ pt_index + 1 < PtSize /\ Place(1) = 2
    /\ \A k \in 1 .. Len(asked) : Place(k + 1) = Place(k) + 3 + SizeOf(k)
    /\ \A k \in 1 .. Len(asked) : \A j \in k + 1 .. Len(asked) + 1 : Place(k) + 3 + SizeOf(k) <= Place(j)

\* Each begins with the tag and its size; the terminator is behind them.
BoxWords == at # "idle" =>
    /\ \A k \in 1 .. Len(asked) : pt[Place(k)] = asked[k].tag /\ pt[Place(k) + 1] = 4 * SizeOf(k)
    /\ pt[pt_index] = 0
    /\ at \in BoxTalks => pt[0] = 4 * (pt_index + 1) /\ behind = pt[pt_index + 1]

\* One request is under way at most, and its reply is the only one.
BoxTraffic ==
    /\ toVc # <<>> => at = "read" /\ vc = 0 /\ ~Replied /\ Len(toVc) = 1
    /\ vc # 0 => at = "read" /\ ~Replied /\ \E k \in 1 .. Len(asked) + 1 : vc = Place(k)
    /\ Replied => at = "read"
    /\ \A i, j \in 1 .. Len(toArm) : toArm[i] = 8 /\ toArm[j] = 8 => i = j

\* What the firmware has written.
Answered(k) == at \in BoxTalks \ {"read"} \/ Replied \/ (vc # 0 /\ Place(k) < vc)
BoxAnswers == at # "idle" =>
    \A k \in 1 .. Len(asked) :
      IF Answered(k)
        THEN pt[Place(k) + 2] = 4 * SizeOf(k) /\ pt[Place(k) + 3] = asked[k].arg + TagAnswers[asked[k].tag]
        ELSE pt[Place(k) + 3] = asked[k].arg

\* Where RPI_PropertyGet is.
BoxSearch == at = "get" =>
    /\ want \in AllTags
    /\ \/ \E k \in 1 .. Len(asked) + 1 : index = Place(k) /\ \A j \in 1 .. k - 1 : asked[j].tag # want
       \/ index > pt_index /\ \A j \in 1 .. Len(asked) : asked[j].tag # want

BoxInv == BoxType /\ BoxLayout /\ BoxWords /\ BoxTraffic /\ BoxAnswers /\ BoxSearch /\ M!OwnAnswer

LEMMA BoxTags ==
    /\ PtSize \in Nat /\ PtSize > 3 /\ DOMAIN TagSizes \subseteq AllTags /\ TagArgs \subseteq Int
    /\ \A t \in AllTags : t \in Nat /\ t > 4 * PtSize /\ t > 0
    /\ \A t \in DOMAIN TagSizes : TagSizes[t] \in 1 .. 3 /\ TagAnswers[t] \in Int
<1>1. M!MailboxConstants BY PlatformConstants
<1>2. PtSize \in Nat /\ PtSize > 3 /\ DOMAIN TagSizes \subseteq AllTags /\ TagArgs \subseteq Int
  BY <1>1 DEF M!MailboxConstants
<1>3. \A t \in AllTags : t \in Nat /\ t > 4 * PtSize BY <1>1 DEF M!MailboxConstants
<1>4. \A t \in DOMAIN TagSizes : TagSizes[t] \in 1 .. 3 /\ TagAnswers[t] \in Int
  BY <1>1 DEF M!MailboxConstants
<1>5. \A t \in AllTags : t > 0 BY <1>2, <1>3
<1> QED BY <1>2, <1>3, <1>4, <1>5

\* The tags of the request: what each is and where.
LEMMA BoxPlaces ==
    ASSUME BoxType, BoxLayout, at # "idle"
    PROVE  /\ Len(asked) \in Nat /\ pt_index \in Nat /\ pt_index >= 2 /\ pt_index + 1 < PtSize
           /\ Place(Len(asked) + 1) = pt_index
           /\ \A k \in 1 .. Len(asked) :
                /\ asked[k].tag \in DOMAIN TagSizes /\ asked[k].tag \in Nat /\ asked[k].tag > 0
                /\ asked[k].arg \in Int /\ SizeOf(k) \in 1 .. 3
                /\ Place(k) \in Nat /\ Place(k) >= 2 /\ Place(k) + 3 + SizeOf(k) <= pt_index
                /\ Place(k + 1) = Place(k) + 3 + SizeOf(k)
                /\ \A j \in 1 .. Len(asked) : j > k => Place(k) + 3 + SizeOf(k) <= Place(j)
<1>1. PICK n0 \in Nat : n0 = Len(asked) BY LenProperties DEF BoxType
<1>2. pt_index \in Nat /\ pt_index >= 2 /\ pt_index + 1 < PtSize BY DEF BoxType, BoxLayout
<1>3. Place(n0 + 1) = pt_index
  <2>1. n0 + 1 \notin 1 .. n0 OBVIOUS
  <2> QED BY <1>1, <2>1 DEF Place
<1>4. ASSUME NEW k \in 1 .. n0
      PROVE  /\ asked[k].tag \in DOMAIN TagSizes /\ asked[k].tag \in Nat /\ asked[k].tag > 0
             /\ asked[k].arg \in Int /\ SizeOf(k) \in 1 .. 3
             /\ Place(k) \in Nat /\ Place(k) >= 2 /\ Place(k) + 3 + SizeOf(k) <= pt_index
             /\ Place(k + 1) = Place(k) + 3 + SizeOf(k)
             /\ \A j \in 1 .. n0 : j > k => Place(k) + 3 + SizeOf(k) <= Place(j)
  <2>1. asked[k] \in [tag : DOMAIN TagSizes, arg : Int, place : Nat] BY <1>1, ElementOfSeq DEF BoxType
  <2>2. asked[k].tag \in DOMAIN TagSizes /\ asked[k].arg \in Int /\ asked[k].place \in Nat BY <2>1
  <2>3. SizeOf(k) \in 1 .. 3 /\ asked[k].tag \in Nat /\ asked[k].tag > 0 BY <2>2, BoxTags DEF SizeOf
  <2>4. Place(k) \in Nat BY <1>1, <2>2 DEF Place
  <2>5. Place(k + 1) = Place(k) + 3 + SizeOf(k) BY <1>1 DEF BoxLayout
  <2>6. \A j \in k + 1 .. n0 + 1 : Place(k) + 3 + SizeOf(k) <= Place(j) BY <1>1 DEF BoxLayout
  <2>7. Place(k) + 3 + SizeOf(k) <= pt_index
    <3>1. n0 + 1 \in k + 1 .. n0 + 1 OBVIOUS
    <3> QED BY <1>3, <2>6, <3>1
  <2>8. Place(k) >= 2
    <3>1. Place(1) = 2 BY DEF BoxLayout
    <3>2. CASE k = 1 BY <3>1, <3>2
    <3>3. CASE k # 1
      <4>1. 1 \in 1 .. n0 /\ k \in 1 + 1 .. n0 + 1 BY <3>3
      <4>2. Place(1) + 3 + SizeOf(1) <= Place(k) BY <1>1, <4>1 DEF BoxLayout
      <4>3. SizeOf(1) \in 1 .. 3
        <5>1. asked[1] \in [tag : DOMAIN TagSizes, arg : Int, place : Nat]
          BY <1>1, <4>1, ElementOfSeq DEF BoxType
        <5> QED BY <5>1, BoxTags DEF SizeOf
      <4> QED BY <2>4, <3>1, <4>2, <4>3
    <3> QED BY <3>2, <3>3
  <2>9. ASSUME NEW j \in 1 .. n0, j > k PROVE j \in k + 1 .. n0 + 1 BY <2>9
  <2> QED BY <2>2, <2>3, <2>4, <2>5, <2>6, <2>7, <2>8, <2>9
<1> QED BY <1>1, <1>2, <1>3, <1>4

LEMMA BoxSame ==
    ASSUME UNCHANGED <<asked, pt_index>>
    PROVE  \A k : Place(k)' = Place(k) /\ SizeOf(k)' = SizeOf(k)
BY DEF Place, SizeOf

\* As long as the request stays, so does its layout.
LEMMA BoxLayoutStays ==
    ASSUME BoxLayout, UNCHANGED <<asked, pt_index>>, at # "idle" PROVE BoxLayout'
<1>1. \A k : Place(k)' = Place(k) /\ SizeOf(k)' = SizeOf(k) BY BoxSame
<1> QED BY <1>1 DEF BoxLayout

LEMMA BoxReplies ==
    ASSUME BoxType, BoxTraffic
    PROVE  /\ toArm' = Append(toArm, 1) =>
                Replied' = Replied /\ \A i, j \in 1 .. Len(toArm') : toArm'[i] = 8 /\ toArm'[j] = 8 => i = j
           /\ toArm' = Append(toArm, 8) /\ ~Replied =>
                Replied' /\ \A i, j \in 1 .. Len(toArm') : toArm'[i] = 8 /\ toArm'[j] = 8 => i = j
           /\ toArm # <<>> /\ toArm' = Tail(toArm) =>
                /\ Head(toArm) = 8 => Replied /\ ~Replied'
                /\ Head(toArm) # 8 => Replied' = Replied
                /\ \A i, j \in 1 .. Len(toArm') : toArm'[i] = 8 /\ toArm'[j] = 8 => i = j
<1>1. PICK n0 \in Nat : n0 = Len(toArm) BY LenProperties DEF BoxType
<1>2. \A i, j \in 1 .. n0 : toArm[i] = 8 /\ toArm[j] = 8 => i = j BY <1>1 DEF BoxTraffic
<1>3. ASSUME NEW x \in {1, 8}, toArm' = Append(toArm, x)
      PROVE  /\ Len(toArm') = n0 + 1 /\ toArm'[n0 + 1] = x
             /\ \A i \in 1 .. n0 : toArm'[i] = toArm[i]
  BY <1>1, <1>3, AppendProperties DEF BoxType
<1>4. \A i \in 1 .. n0 + 1 : i = n0 + 1 \/ i \in 1 .. n0 OBVIOUS
<1>5. ASSUME toArm' = Append(toArm, 1)
      PROVE  Replied' = Replied /\ \A i, j \in 1 .. Len(toArm') : toArm'[i] = 8 /\ toArm'[j] = 8 => i = j
  <2>1. Len(toArm') = n0 + 1 /\ toArm'[n0 + 1] = 1 /\ \A i \in 1 .. n0 : toArm'[i] = toArm[i]
    BY <1>3, <1>5
  <2>2. \A i \in 1 .. n0 + 1 : toArm'[i] = 8 => i \in 1 .. n0 /\ toArm[i] = 8 BY <1>4, <2>1
  <2>3. \A i \in 1 .. n0 : i \in 1 .. n0 + 1 OBVIOUS
  <2> QED BY <1>1, <1>2, <2>1, <2>2, <2>3 DEF Replied
<1>6. ASSUME toArm' = Append(toArm, 8), ~Replied
      PROVE  Replied' /\ \A i, j \in 1 .. Len(toArm') : toArm'[i] = 8 /\ toArm'[j] = 8 => i = j
  <2>1. Len(toArm') = n0 + 1 /\ toArm'[n0 + 1] = 8 /\ \A i \in 1 .. n0 : toArm'[i] = toArm[i]
    BY <1>3, <1>6
  <2>2. \A i \in 1 .. n0 + 1 : toArm'[i] = 8 => i = n0 + 1 BY <1>1, <1>4, <1>6, <2>1 DEF Replied
  <2>3. n0 + 1 \in 1 .. n0 + 1 OBVIOUS
  <2> QED BY <2>1, <2>2, <2>3 DEF Replied
<1>7. ASSUME toArm # <<>>, toArm' = Tail(toArm)
      PROVE  /\ Head(toArm) = 8 => Replied /\ ~Replied'
             /\ Head(toArm) # 8 => Replied' = Replied
             /\ \A i, j \in 1 .. Len(toArm') : toArm'[i] = 8 /\ toArm'[j] = 8 => i = j
  <2>1. /\ Head(toArm) = toArm[1] /\ Len(toArm') = n0 - 1 /\ n0 > 0
        /\ \A i \in 1 .. n0 - 1 : toArm'[i] = toArm[i + 1]
    BY <1>1, <1>7, HeadTailProperties, EmptySeq DEF BoxType
  <2>2. \A i \in 1 .. n0 - 1 : i + 1 \in 1 .. n0 /\ i + 1 # 1 OBVIOUS
  <2>3. 1 \in 1 .. n0 BY <2>1
  <2>4. \A i, j \in 1 .. n0 - 1 : toArm'[i] = 8 /\ toArm'[j] = 8 => i = j
    <3>1. ASSUME NEW i \in 1 .. n0 - 1, NEW j \in 1 .. n0 - 1, toArm'[i] = 8, toArm'[j] = 8 PROVE i = j
      <4>1. i + 1 = j + 1 BY <1>2, <2>1, <2>2, <3>1
      <4> QED BY <4>1
    <3> QED BY <3>1
  <2>5. Head(toArm) = 8 => Replied /\ ~Replied'
    <3> SUFFICES ASSUME Head(toArm) = 8 PROVE Replied /\ ~Replied' OBVIOUS
    <3>1. Replied BY <1>1, <2>1, <2>3 DEF Replied
    <3>2. \A i \in 1 .. n0 - 1 : toArm'[i] # 8 BY <1>2, <2>1, <2>2, <2>3
    <3> QED BY <2>1, <3>1, <3>2 DEF Replied
  <2>6. Head(toArm) # 8 => Replied' = Replied
    <3> SUFFICES ASSUME Head(toArm) # 8 PROVE Replied' = Replied OBVIOUS
    <3>1. Replied' => Replied BY <1>1, <2>1, <2>2 DEF Replied
    <3>2. Replied => Replied'
      <4> SUFFICES ASSUME NEW i \in 1 .. n0, toArm[i] = 8 PROVE Replied' BY <1>1 DEF Replied
      <4>1. i # 1 BY <2>1
      <4>2. i - 1 \in 1 .. n0 - 1 /\ (i - 1) + 1 = i BY <4>1
      <4> QED BY <2>1, <4>2 DEF Replied
    <3>3. Replied \in BOOLEAN /\ Replied' \in BOOLEAN BY DEF Replied
    <3> QED BY <3>1, <3>2, <3>3
  <2> QED BY <2>1, <2>4, <2>5, <2>6
<1> QED BY <1>5, <1>6, <1>7

LEMMA BoxStarts == ASSUME M!Init PROVE BoxInv
<1>1. /\ pt = [i \in 0 .. (PtSize - 1) |-> 0] /\ pt_index = 0 /\ at = "idle" /\ asked = <<>>
      /\ want = 0 /\ index = 0 /\ toVc = <<>> /\ toArm = <<>> /\ vc = 0
  BY DEF M!Init
<1>2. BoxType BY <1>1 DEF BoxType
<1>3. BoxTraffic
  <2>1. Len(toArm) = 0 BY <1>1
  <2>2. ~Replied BY <2>1 DEF Replied
  <2> QED BY <1>1, <2>1, <2>2 DEF BoxTraffic
<1> QED BY <1>1, <1>2, <1>3 DEF BoxInv, BoxLayout, BoxWords, BoxAnswers, BoxSearch, M!OwnAnswer

\* RPI_PropertyInit.
LEMMA BoxPropertyInit == ASSUME BoxInv, M!PropertyInit PROVE BoxInv'
<1>1. /\ at = "idle" /\ at' = "add" /\ asked' = <<>> /\ pt_index' = 2
      /\ pt' = [pt EXCEPT ![0] = 12, ![1] = 0, ![2] = 0]
      /\ UNCHANGED <<want, index, property, toVc, toArm, vc, behind>>
  BY DEF M!PropertyInit
<1>2. BoxType BY DEF BoxInv
<1>3. PtSize \in Nat /\ PtSize > 3 BY BoxTags
<1>4. pt' \in [0 .. (PtSize - 1) -> Int] /\ pt'[2] = 0 BY <1>1, <1>2, <1>3 DEF BoxType
<1>5. BoxType' BY <1>1, <1>2, <1>4 DEF BoxType, BoxTalks
<1>6. Len(asked') = 0 BY <1>1
<1>7. Place(1)' = 2 BY <1>1, <1>6 DEF Place
<1>8. BoxLayout' BY <1>1, <1>3, <1>6, <1>7 DEF BoxLayout
<1>9. BoxWords' /\ BoxAnswers' BY <1>1, <1>4, <1>6 DEF BoxWords, BoxAnswers, BoxTalks
<1>10. toVc = <<>> /\ vc = 0 /\ ~Replied BY <1>1 DEF BoxInv, BoxTraffic
<1>11. Replied' = Replied BY <1>1 DEF Replied
<1>12. BoxTraffic' BY <1>1, <1>10, <1>11 DEF BoxInv, BoxTraffic
<1> QED BY <1>1, <1>5, <1>8, <1>9, <1>12 DEF BoxInv, BoxSearch, M!OwnAnswer

\* Five words of the buffer are written.
Written(f, i, t, s, a, m) == [f EXCEPT ![i] = t, ![i + 1] = s, ![i + 2] = 0, ![i + 3] = a, ![m] = 0]
LEMMA FiveWords ==
    ASSUME NEW nw \in Nat, NEW f \in [0 .. (nw - 1) -> Int], NEW i \in Nat, NEW m \in Nat, m > i + 3, m + 1 < nw,
           NEW t \in Int, NEW s \in Int, NEW a \in Int
    PROVE  /\ Written(f, i, t, s, a, m) \in [0 .. (nw - 1) -> Int]
           /\ Written(f, i, t, s, a, m)[i] = t /\ Written(f, i, t, s, a, m)[i + 1] = s
           /\ Written(f, i, t, s, a, m)[i + 3] = a /\ Written(f, i, t, s, a, m)[m] = 0
           /\ \A j \in 0 .. i - 1 : Written(f, i, t, s, a, m)[j] = f[j]
<1>0. PICK g : g = Written(f, i, t, s, a, m) OBVIOUS
<1>1. i \in 0 .. (nw - 1) /\ i + 1 \in 0 .. (nw - 1) /\ i + 2 \in 0 .. (nw - 1) /\ i + 3 \in 0 .. (nw - 1)
  OBVIOUS
<1>2. m \in 0 .. (nw - 1) OBVIOUS
<1>3. PICK g1 : g1 = [f EXCEPT ![i] = t] OBVIOUS
<1>4. PICK g2 : g2 = [g1 EXCEPT ![i + 1] = s] OBVIOUS
<1>5. PICK g3 : g3 = [g2 EXCEPT ![i + 2] = 0] OBVIOUS
<1>6. PICK g4 : g4 = [g3 EXCEPT ![i + 3] = a] OBVIOUS
<1>7. g = [g4 EXCEPT ![m] = 0] BY <1>0, <1>3, <1>4, <1>5, <1>6, Zenon DEF Written
<1>8. g1 \in [0 .. (nw - 1) -> Int] BY <1>1, <1>3
<1>9. g2 \in [0 .. (nw - 1) -> Int] BY <1>1, <1>4, <1>8
<1>10. g3 \in [0 .. (nw - 1) -> Int] BY <1>1, <1>5, <1>9
<1>11. g4 \in [0 .. (nw - 1) -> Int] BY <1>1, <1>6, <1>10
<1>12. g \in [0 .. (nw - 1) -> Int] BY <1>2, <1>7, <1>11
<1>13. \A j \in 0 .. i - 1 : /\ j \in 0 .. (nw - 1) /\ j # i /\ j # i + 1 /\ j # i + 2 /\ j # i + 3 /\ j # m
  OBVIOUS
<1>14. g[m] = 0 BY <1>2, <1>7, <1>11
<1>15. g[i + 3] = a
  <2>1. m # i + 3 OBVIOUS
  <2> QED BY <1>1, <1>6, <1>7, <1>10, <1>11, <2>1
<1>16. g[i + 1] = s
  <2>1. m # i + 1 /\ i + 1 # i + 2 /\ i + 1 # i + 3 OBVIOUS
  <2>2. g2[i + 1] = s BY <1>1, <1>4, <1>8
  <2> QED BY <1>1, <1>5, <1>6, <1>7, <1>9, <1>10, <1>11, <2>1, <2>2
<1>17. g[i] = t
  <2>1. m # i /\ i # i + 1 /\ i # i + 2 /\ i # i + 3 OBVIOUS
  <2>2. g2[i] = t BY <1>1, <1>3, <1>4, <1>8, <2>1
  <2> QED BY <1>1, <1>5, <1>6, <1>7, <1>9, <1>10, <1>11, <2>1, <2>2
<1>18. ASSUME NEW j \in 0 .. i - 1 PROVE g[j] = f[j]
  <2>1. g2[j] = f[j] BY <1>3, <1>4, <1>8, <1>13
  <2>2. g4[j] = g2[j] BY <1>5, <1>6, <1>9, <1>10, <1>13
  <2> QED BY <1>7, <1>11, <1>13, <2>1, <2>2
<1> QED BY <1>0, <1>12, <1>14, <1>15, <1>16, <1>17, <1>18

\* RPI_PropertyAddTag: behind what there is, which it does not touch.
LEMMA BoxAddSupported ==
    ASSUME BoxInv, NEW t \in DOMAIN TagSizes, NEW a \in TagArgs, M!PropertyAddTag(t, a)
    PROVE  BoxInv'
<1>1. PICK n1 : n1 = pt_index + 3 + TagSizes[t] OBVIOUS
<1>2. /\ at = "add" /\ at' = "add" /\ n1 + 1 < PtSize /\ pt_index' = n1
      /\ pt' = [pt EXCEPT ![pt_index] = t, ![pt_index + 1] = 4 * TagSizes[t], ![pt_index + 2] = 0,
                          ![pt_index + 3] = a, ![n1] = 0]
      /\ asked' = Append(asked, [tag |-> t, arg |-> a, place |-> pt_index])
      /\ UNCHANGED <<want, index, property, toVc, toArm, vc, behind>>
  BY <1>1 DEF M!PropertyAddTag
<1>3. BoxType /\ BoxLayout BY DEF BoxInv
<1>4. PICK n0 \in Nat : n0 = Len(asked) BY LenProperties, <1>3 DEF BoxType
<1>5. /\ pt_index \in Nat /\ pt_index >= 2 /\ Place(n0 + 1) = pt_index
      /\ \A k \in 1 .. n0 :
           /\ asked[k].tag \in DOMAIN TagSizes /\ asked[k].arg \in Int /\ SizeOf(k) \in 1 .. 3
           /\ Place(k) \in Nat /\ Place(k) >= 2 /\ Place(k) + 3 + SizeOf(k) <= pt_index
           /\ Place(k + 1) = Place(k) + 3 + SizeOf(k)
           /\ \A j \in 1 .. n0 : j > k => Place(k) + 3 + SizeOf(k) <= Place(j)
  BY <1>2, <1>3, <1>4, BoxPlaces
<1>6. /\ TagSizes[t] \in 1 .. 3 /\ t \in Nat /\ a \in Int /\ PtSize \in Nat /\ TagAnswers[t] \in Int
  BY BoxTags
<1>7. n1 \in Nat /\ n1 > pt_index + 3 BY <1>1, <1>5, <1>6
<1>8. [tag |-> t, arg |-> a, place |-> pt_index] \in [tag : DOMAIN TagSizes, arg : Int, place : Nat]
  BY <1>5, <1>6
<1>9. /\ asked' \in Seq([tag : DOMAIN TagSizes, arg : Int, place : Nat]) /\ Len(asked') = n0 + 1
      /\ \A k \in 1 .. n0 : asked'[k] = asked[k]
      /\ asked'[n0 + 1] = [tag |-> t, arg |-> a, place |-> pt_index]
  <2>1. PICK e : e = [tag |-> t, arg |-> a, place |-> pt_index] OBVIOUS
  <2>2. asked' = Append(asked, e) /\ e \in [tag : DOMAIN TagSizes, arg : Int, place : Nat]
    BY <1>2, <1>8, <2>1
  <2>3. asked \in Seq([tag : DOMAIN TagSizes, arg : Int, place : Nat]) BY <1>3 DEF BoxType
  <2>4. /\ asked' \in Seq([tag : DOMAIN TagSizes, arg : Int, place : Nat]) /\ Len(asked') = n0 + 1
        /\ \A k \in 1 .. n0 : asked'[k] = asked[k]
        /\ asked'[n0 + 1] = e
    BY <1>4, <2>2, <2>3, AppendProperties
  <2> QED BY <2>1, <2>4
<1>10. \A k \in 1 .. n0 + 1 : k = n0 + 1 \/ k \in 1 .. n0 OBVIOUS
<1>11. \A k \in 1 .. n0 : Place(k)' = Place(k) /\ SizeOf(k)' = SizeOf(k)
  <2>1. \A k \in 1 .. n0 : k \in 1 .. n0 + 1 OBVIOUS
  <2> QED BY <1>4, <1>9, <2>1 DEF Place, SizeOf
<1>12. Place(n0 + 1)' = pt_index /\ SizeOf(n0 + 1)' = TagSizes[t] /\ Place((n0 + 1) + 1)' = n1
  <2>1. n0 + 1 \in 1 .. n0 + 1 /\ (n0 + 1) + 1 \notin 1 .. n0 + 1 OBVIOUS
  <2>2. asked'[n0 + 1].place = pt_index /\ asked'[n0 + 1].tag = t BY <1>9
  <2> QED BY <1>2, <1>9, <2>1, <2>2 DEF Place, SizeOf
<1>13. Place(1)' = 2
  <2>1. Place(1) = 2 BY <1>2, <1>3 DEF BoxLayout
  <2>2. CASE n0 = 0 BY <1>5, <1>12, <2>1, <2>2
  <2>3. CASE n0 # 0 BY <1>11, <2>1, <2>3
  <2> QED BY <2>2, <2>3
<1>14. ASSUME NEW k \in 1 .. n0 + 1 PROVE Place(k + 1)' = Place(k)' + 3 + SizeOf(k)'
  <2>1. CASE k = n0 + 1 BY <1>1, <1>12, <2>1
  <2>2. CASE k \in 1 .. n0
    <3>1. Place(k + 1) = Place(k) + 3 + SizeOf(k) BY <1>5, <2>2
    <3>2. Place(k + 1)' = Place(k + 1)
      <4>1. k + 1 = n0 + 1 \/ k + 1 \in 1 .. n0 BY <2>2
      <4> QED BY <1>5, <1>11, <1>12, <4>1
    <3> QED BY <1>11, <2>2, <3>1, <3>2
  <2> QED BY <1>10, <2>1, <2>2
<1>15. ASSUME NEW k \in 1 .. n0 + 1, NEW j \in k + 1 .. (n0 + 1) + 1
       PROVE  Place(k)' + 3 + SizeOf(k)' <= Place(j)'
  <2>1. CASE k = n0 + 1
    <3>1. j = (n0 + 1) + 1 BY <2>1
    <3> QED BY <1>1, <1>5, <1>6, <1>7, <1>12, <2>1, <3>1
  <2>2. CASE k \in 1 .. n0
    <3>1. j = (n0 + 1) + 1 \/ j = n0 + 1 \/ (j \in 1 .. n0 /\ j > k) BY <2>2
    <3>2. Place(k) + 3 + SizeOf(k) <= pt_index /\ Place(k) \in Nat /\ SizeOf(k) \in 1 .. 3 BY <1>5, <2>2
    <3>3. Place(k) + 3 + SizeOf(k) <= n1 BY <1>5, <1>7, <3>2
    <3>4. j \in 1 .. n0 /\ j > k => Place(k) + 3 + SizeOf(k) <= Place(j) BY <1>5, <2>2
    <3> QED BY <1>11, <1>12, <2>2, <3>1, <3>2, <3>3, <3>4
  <2> QED BY <1>10, <2>1, <2>2
<1>16. BoxLayout'
  <2>1. pt_index' >= 2 /\ pt_index' + 1 < PtSize BY <1>2, <1>5, <1>7
  <2> QED BY <1>9, <1>13, <1>14, <1>15, <2>1 DEF BoxLayout
<1>17. /\ pt' \in [0 .. (PtSize - 1) -> Int] /\ pt'[pt_index] = t
       /\ pt'[pt_index + 1] = 4 * TagSizes[t] /\ pt'[pt_index + 3] = a /\ pt'[n1] = 0
       /\ \A i \in 0 .. pt_index - 1 : pt'[i] = pt[i]
  <2>1. pt \in [0 .. (PtSize - 1) -> Int] BY <1>3 DEF BoxType
  <2>2. PICK s0 \in Int : s0 = 4 * TagSizes[t] BY <1>6
  <2>3. pt' = Written(pt, pt_index, t, s0, a, n1) BY <1>2, <2>2 DEF Written
  <2>4. n1 + 1 < PtSize /\ pt_index \in Nat /\ n1 \in Nat /\ n1 > pt_index + 3 /\ t \in Int /\ a \in Int
    BY <1>2, <1>5, <1>6, <1>7
  <2>5. PtSize \in Nat BY <1>6
  <2>6. s0 \in Int BY <2>2
  <2>7. PICK g : g = Written(pt, pt_index, t, s0, a, n1) OBVIOUS
  <2>8. /\ g \in [0 .. (PtSize - 1) -> Int]
        /\ g[pt_index] = t /\ g[pt_index + 1] = s0 /\ g[pt_index + 3] = a /\ g[n1] = 0
        /\ \A i \in 0 .. pt_index - 1 : g[i] = pt[i]
    BY ONLY <2>1, <2>4, <2>5, <2>6, <2>7, FiveWords, SMT
  <2> QED BY <2>2, <2>3, <2>7, <2>8
<1>18. BoxType' BY <1>2, <1>3, <1>7, <1>9, <1>17 DEF BoxType
<1>19. ~Replied /\ vc = 0 /\ Replied' = Replied
  BY <1>2 DEF BoxInv, BoxTraffic, Replied
<1>20. \A k : ~Answered(k) /\ ~Answered(k)' BY <1>2, <1>19 DEF Answered, BoxTalks
<1>21. BoxWords' /\ BoxAnswers'
  <2>1. ASSUME NEW k \in 1 .. n0 + 1
        PROVE  /\ pt'[Place(k)'] = asked'[k].tag /\ pt'[Place(k)' + 1] = 4 * SizeOf(k)'
               /\ pt'[Place(k)' + 3] = asked'[k].arg
    <3>1. CASE k = n0 + 1
      <4>1. asked'[k].tag = t /\ asked'[k].arg = a BY <1>9, <3>1
      <4> QED BY <1>12, <1>17, <3>1, <4>1
    <3>2. CASE k \in 1 .. n0
      <4>1. pt[Place(k)] = asked[k].tag /\ pt[Place(k) + 1] = 4 * SizeOf(k) BY <1>2, <1>4, <3>2 DEF BoxInv, BoxWords
      <4>2. pt[Place(k) + 3] = asked[k].arg BY <1>2, <1>4, <1>20, <3>2 DEF BoxInv, BoxAnswers
      <4>3. Place(k) \in 0 .. pt_index - 1 /\ Place(k) + 1 \in 0 .. pt_index - 1 /\ Place(k) + 3 \in 0 .. pt_index - 1
        <5>1. Place(k) \in Nat /\ SizeOf(k) \in 1 .. 3 /\ Place(k) + 3 + SizeOf(k) <= pt_index BY <1>5, <3>2
        <5> QED BY <1>5, <5>1
      <4>4. asked'[k] = asked[k] BY <1>9, <3>2
      <4> QED BY <1>11, <1>17, <3>2, <4>1, <4>2, <4>3, <4>4
    <3> QED BY <1>10, <3>1, <3>2
  <2>2. pt'[pt_index'] = 0 BY <1>2, <1>17
  <2> QED BY <1>2, <1>9, <1>20, <2>1, <2>2 DEF BoxWords, BoxAnswers, BoxTalks
<1>22. BoxTraffic' BY <1>2, <1>19 DEF BoxInv, BoxTraffic
<1> QED BY <1>2, <1>16, <1>18, <1>21, <1>22 DEF BoxInv, BoxSearch, M!OwnAnswer

\* A tag it does not know is taken away again.
LEMMA BoxAddOther ==
    ASSUME BoxInv, NEW t \in AllTags \ DOMAIN TagSizes, NEW a \in TagArgs, M!PropertyAddTag(t, a)
    PROVE  BoxInv'
<1>1. /\ at = "add" /\ at' = "add" /\ pt' = [pt EXCEPT ![pt_index] = 0]
      /\ UNCHANGED <<pt_index, asked, want, index, property, toVc, toArm, vc, behind>>
  BY DEF M!PropertyAddTag
<1>2. BoxType /\ BoxLayout /\ BoxWords /\ BoxTraffic /\ BoxAnswers BY DEF BoxInv
<1>3. pt_index \in Nat /\ pt_index + 1 < PtSize /\ PtSize \in Nat BY <1>1, <1>2, BoxTags DEF BoxType, BoxLayout
<1>4. pt_index \in 0 .. (PtSize - 1) BY <1>3
<1>5. pt[pt_index] = 0 BY <1>1, <1>2 DEF BoxWords
<1>6. pt' = pt BY <1>1, <1>2, <1>4, <1>5 DEF BoxType
<1>7. BoxType' BY <1>1, <1>2, <1>6 DEF BoxType
<1>8. BoxLayout' BY <1>1, <1>2, BoxLayoutStays
<1>9. \A k : Place(k)' = Place(k) /\ SizeOf(k)' = SizeOf(k) BY <1>1, BoxSame
<1>10. BoxWords' BY <1>1, <1>2, <1>6, <1>9 DEF BoxWords, BoxTalks
<1>11. Replied' = Replied BY <1>1 DEF Replied
<1>12. BoxTraffic' BY <1>1, <1>2, <1>9, <1>11 DEF BoxTraffic
<1>13. ~Replied /\ vc = 0 BY <1>1, <1>2 DEF BoxTraffic
<1>14. \A k : ~Answered(k) /\ ~Answered(k)' BY <1>1, <1>11, <1>13 DEF Answered, BoxTalks
<1>15. BoxAnswers' BY <1>1, <1>2, <1>6, <1>9, <1>14 DEF BoxAnswers
<1> QED BY <1>1, <1>7, <1>8, <1>10, <1>12, <1>15 DEF BoxInv, BoxSearch, M!OwnAnswer

\* RPI_PropertyProcess: the request is complete and on its way.
LEMMA BoxProcess == ASSUME BoxInv, M!PropertyProcess PROVE BoxInv'
<1>1. /\ at = "add" /\ at' = "read" /\ pt' = [pt EXCEPT ![0] = 4 * (pt_index + 1), ![1] = 0]
      /\ behind' = pt[pt_index + 1] /\ toVc' = Append(toVc, 8)
      /\ UNCHANGED <<pt_index, asked, want, index, property, toArm, vc>>
  BY DEF M!PropertyProcess, M!Property
<1>2. BoxType /\ BoxLayout /\ BoxWords /\ BoxTraffic /\ BoxAnswers BY DEF BoxInv
<1>3. PICK n0 \in Nat : n0 = Len(asked) BY LenProperties, <1>2 DEF BoxType
<1>4. /\ pt_index \in Nat /\ pt_index >= 2 /\ pt_index + 1 < PtSize
      /\ \A k \in 1 .. n0 : /\ Place(k) \in Nat /\ Place(k) >= 2 /\ SizeOf(k) \in 1 .. 3
                            /\ Place(k) + 3 + SizeOf(k) <= pt_index
  BY <1>1, <1>2, <1>3, BoxPlaces
<1>5. PtSize \in Nat /\ PtSize > 3 BY BoxTags
<1>6. pt \in [0 .. (PtSize - 1) -> Int] BY <1>2 DEF BoxType
<1>7. 0 \in 0 .. (PtSize - 1) /\ 1 \in 0 .. (PtSize - 1) /\ 4 * (pt_index + 1) \in Int BY <1>4, <1>5
<1>8. pt' \in [0 .. (PtSize - 1) -> Int] BY <1>1, <1>6, <1>7
<1>9. pt'[0] = 4 * (pt_index + 1) BY <1>1, <1>6, <1>7
<1>10. ASSUME NEW i \in 2 .. (PtSize - 1) PROVE pt'[i] = pt[i]
  <2>1. i \in 0 .. (PtSize - 1) /\ i # 0 /\ i # 1 BY <1>5
  <2> QED BY <1>1, <1>6, <2>1
<1>11. toVc = <<>> /\ vc = 0 /\ ~Replied BY <1>1, <1>2 DEF BoxTraffic
<1>12. toVc' \in Seq({8}) /\ Len(toVc') = 1 BY <1>1, <1>11
<1>13. BoxType' BY <1>1, <1>2, <1>8, <1>12 DEF BoxType, BoxTalks
<1>14. BoxLayout' BY <1>1, <1>2, BoxLayoutStays
<1>15. \A k : Place(k)' = Place(k) /\ SizeOf(k)' = SizeOf(k) BY <1>1, BoxSame
<1>16. Replied' = Replied BY <1>1 DEF Replied
<1>17. \A k : ~Answered(k) /\ ~Answered(k)' BY <1>1, <1>11, <1>16 DEF Answered, BoxTalks
<1>18. pt'[pt_index] = pt[pt_index] /\ pt'[pt_index + 1] = pt[pt_index + 1]
  <2>1. pt_index \in 2 .. (PtSize - 1) /\ pt_index + 1 \in 2 .. (PtSize - 1) BY <1>4, <1>5
  <2> QED BY <1>10, <2>1
<1>19. ASSUME NEW k \in 1 .. n0
       PROVE  /\ pt'[Place(k)] = pt[Place(k)] /\ pt'[Place(k) + 1] = pt[Place(k) + 1]
              /\ pt'[Place(k) + 3] = pt[Place(k) + 3]
  <2>1. Place(k) \in Nat /\ Place(k) >= 2 /\ SizeOf(k) \in 1 .. 3 /\ Place(k) + 3 + SizeOf(k) <= pt_index
    BY <1>4
  <2>2. /\ Place(k) \in 2 .. (PtSize - 1) /\ Place(k) + 1 \in 2 .. (PtSize - 1)
        /\ Place(k) + 3 \in 2 .. (PtSize - 1)
    BY <1>4, <1>5, <2>1
  <2> QED BY <1>10, <2>2
<1>20. BoxWords' BY <1>1, <1>2, <1>3, <1>9, <1>15, <1>18, <1>19 DEF BoxWords
<1>21. BoxAnswers' BY <1>1, <1>2, <1>3, <1>15, <1>17, <1>19 DEF BoxAnswers
<1>22. BoxTraffic' BY <1>1, <1>2, <1>11, <1>12, <1>16 DEF BoxTraffic
<1> QED BY <1>1, <1>13, <1>14, <1>20, <1>21, <1>22 DEF BoxInv, BoxSearch, M!OwnAnswer

\* While the request and its buffer stay, so do its layout and its words.
LEMMA BoxWordsStay ==
    ASSUME BoxLayout, BoxWords, UNCHANGED <<pt, pt_index, asked, behind>>, at \in BoxTalks, at' \in BoxTalks \cup {"idle"}
    PROVE  BoxLayout' /\ BoxWords' /\ \A k : Place(k)' = Place(k) /\ SizeOf(k)' = SizeOf(k)
<1>1. at # "idle" BY DEF BoxTalks
<1>2. BoxLayout' BY <1>1, BoxLayoutStays
<1>3. \A k : Place(k)' = Place(k) /\ SizeOf(k)' = SizeOf(k) BY BoxSame
<1> QED BY <1>1, <1>2, <1>3 DEF BoxWords

\* RPI_Mailbox0Read: only the reply ends the wait, and it comes when the
\* firmware has answered every tag.
LEMMA BoxRead == ASSUME BoxInv, M!Read PROVE BoxInv'
<1>1. /\ at = "read" /\ toArm # <<>> /\ toArm' = Tail(toArm)
      /\ at' = (IF Head(toArm) = 8 THEN "got" ELSE "read")
      /\ UNCHANGED <<pt, pt_index, asked, want, index, property, toVc, vc, behind>>
  BY DEF M!Read, M!Property
<1>2. BoxType /\ BoxLayout /\ BoxWords /\ BoxTraffic /\ BoxAnswers BY DEF BoxInv
<1>3. at \in BoxTalks /\ at' \in BoxTalks BY <1>1 DEF BoxTalks
<1>4. BoxLayout' /\ BoxWords' /\ \A k : Place(k)' = Place(k) /\ SizeOf(k)' = SizeOf(k)
  BY <1>1, <1>2, <1>3, BoxWordsStay
<1>5. /\ Head(toArm) = 8 => Replied /\ ~Replied'
      /\ Head(toArm) # 8 => Replied' = Replied
      /\ \A i, j \in 1 .. Len(toArm') : toArm'[i] = 8 /\ toArm'[j] = 8 => i = j
  BY <1>1, <1>2, BoxReplies
<1>6. toArm' \in Seq({1, 8}) BY <1>1, <1>2, HeadTailProperties DEF BoxType
<1>7. BoxType' BY <1>1, <1>2, <1>3, <1>6 DEF BoxType
<1>8. Head(toArm) = 8 => toVc = <<>> /\ vc = 0 BY <1>2, <1>5 DEF BoxTraffic
<1>9. BoxTraffic'
  <2>1. CASE Head(toArm) = 8 BY <1>1, <1>5, <1>8, <2>1 DEF BoxTraffic
  <2>2. CASE Head(toArm) # 8 BY <1>1, <1>2, <1>4, <1>5, <2>2 DEF BoxTraffic
  <2> QED BY <2>1, <2>2
<1>10. \A k : Answered(k)' = Answered(k)
  <2>1. CASE Head(toArm) = 8
    <3>1. Replied /\ at' = "got" BY <1>1, <1>5, <2>1
    <3> QED BY <3>1 DEF Answered, BoxTalks
  <2>2. CASE Head(toArm) # 8
    <3>1. Replied' = Replied /\ at' = "read" BY <1>1, <1>5, <2>2
    <3> QED BY <1>1, <1>4, <3>1 DEF Answered, BoxTalks
  <2> QED BY <2>1, <2>2
<1>11. BoxAnswers' BY <1>1, <1>2, <1>4, <1>10 DEF BoxAnswers
<1>12. at' # "get" /\ at' # "done" /\ at' # "wild" BY <1>1
<1> QED BY <1>4, <1>7, <1>9, <1>11, <1>12 DEF BoxInv, BoxSearch, M!OwnAnswer

\* RPI_PropertyGet begins at the first tag.
LEMMA BoxGet == ASSUME BoxInv, NEW t \in AllTags, M!PropertyGet(t) PROVE BoxInv'
<1>1. /\ at = "got" /\ at' = "get" /\ want' = t /\ index' = 2
      /\ UNCHANGED <<pt, pt_index, asked, property, toVc, toArm, vc, behind>>
  BY DEF M!PropertyGet
<1>2. BoxType /\ BoxLayout /\ BoxWords /\ BoxTraffic /\ BoxAnswers BY DEF BoxInv
<1>3. at \in BoxTalks /\ at' \in BoxTalks BY <1>1 DEF BoxTalks
<1>4. BoxLayout' /\ BoxWords' /\ \A k : Place(k)' = Place(k) /\ SizeOf(k)' = SizeOf(k)
  BY <1>1, <1>2, <1>3, BoxWordsStay
<1>5. t \in Int BY BoxTags
<1>6. BoxType' BY <1>1, <1>2, <1>3, <1>5 DEF BoxType
<1>7. Replied' = Replied BY <1>1 DEF Replied
<1>8. BoxTraffic' BY <1>1, <1>2, <1>7 DEF BoxTraffic
<1>9. \A k : Answered(k) /\ Answered(k)' BY <1>1 DEF Answered, BoxTalks
<1>10. BoxAnswers' BY <1>1, <1>2, <1>4, <1>9 DEF BoxAnswers
<1>11. BoxSearch'
  <2>1. PICK n0 \in Nat : n0 = Len(asked) BY LenProperties, <1>2 DEF BoxType
  <2>2. 1 \in 1 .. n0 + 1 /\ \A j \in 1 .. 1 - 1 : FALSE OBVIOUS
  <2>3. Place(1)' = 2 BY <1>1, <1>2, <1>4 DEF BoxLayout
  <2> QED BY <1>1, <2>1, <2>2, <2>3 DEF BoxSearch
<1> QED BY <1>1, <1>4, <1>6, <1>8, <1>10, <1>11 DEF BoxInv, M!OwnAnswer

\* RPI_PropertyGet, one step: a tag that is not the one leads to the next, and
\* the terminator's 0 is no tag.
LEMMA BoxFind == ASSUME BoxInv, M!Find PROVE BoxInv'
<1>1. at = "get" /\ UNCHANGED <<pt, pt_index, asked, want, toVc, toArm, vc, behind>> BY DEF M!Find
<1>2. BoxType /\ BoxLayout /\ BoxWords /\ BoxTraffic /\ BoxAnswers /\ BoxSearch BY DEF BoxInv
<1>3. PICK n0 \in Nat : n0 = Len(asked) BY LenProperties, <1>2 DEF BoxType
<1>4. at \in BoxTalks /\ at # "idle" BY <1>1 DEF BoxTalks
<1>5. PtSize \in Nat BY BoxTags
<1>6. /\ pt_index \in Nat /\ pt_index >= 2 /\ pt_index + 1 < PtSize /\ Place(n0 + 1) = pt_index
      /\ \A k \in 1 .. n0 : /\ Place(k) \in Nat /\ SizeOf(k) \in 1 .. 3 /\ Place(k) + 3 + SizeOf(k) <= pt_index
                            /\ Place(k + 1) = Place(k) + 3 + SizeOf(k)
  BY <1>1, <1>2, <1>3, <1>4, BoxPlaces
<1>7. /\ pt[0] = 4 * (pt_index + 1) /\ behind = pt[pt_index + 1] /\ pt[pt_index] = 0
      /\ \A k \in 1 .. n0 : pt[Place(k)] = asked[k].tag /\ pt[Place(k) + 1] = 4 * SizeOf(k)
  BY <1>2, <1>3, <1>4 DEF BoxWords
<1>8. pt[0] \div 4 = pt_index + 1 BY <1>6, <1>7
<1>9. want \in Nat /\ want > 0 BY <1>1, <1>2, BoxTags DEF BoxSearch
<1>10. behind \in Int
  <2>1. pt_index + 1 \in 0 .. (PtSize - 1) BY <1>5, <1>6
  <2> QED BY <1>2, <1>7, <2>1 DEF BoxType
<1>11. /\ index' \in Int /\ at' \in {"get", "done", "wild"} /\ BoxSearch' /\ M!OwnAnswer'
  <2>1. CASE index > pt_index /\ \A j \in 1 .. n0 : asked[j].tag # want
    <3>1. index >= pt[0] \div 4 BY <1>2, <1>6, <1>8, <2>1 DEF BoxType
    <3>2. at' = "done" /\ property' = M!NoProperty /\ index' = index BY <3>1 DEF M!Find
    <3>3. DOMAIN asked = 1 .. n0 BY <1>2, <1>3, LenProperties DEF BoxType
    <3>4. {k \in DOMAIN asked : asked[k].tag = want} = {} BY <2>1, <3>3
    <3>5. M!OwnAnswer' BY <1>1, <3>2, <3>4 DEF M!OwnAnswer
    <3>6. index' \in Int BY <1>2, <3>2 DEF BoxType
    <3> QED BY <3>2, <3>5, <3>6 DEF BoxSearch
  <2>2. ASSUME NEW k \in 1 .. n0, index = Place(k), \A j \in 1 .. k - 1 : asked[j].tag # want
        PROVE  /\ index' \in Int /\ at' \in {"get", "done", "wild"} /\ BoxSearch' /\ M!OwnAnswer'
    <3>1. /\ Place(k) \in Nat /\ SizeOf(k) \in 1 .. 3 /\ Place(k) + 3 + SizeOf(k) <= pt_index
          /\ Place(k + 1) = Place(k) + 3 + SizeOf(k)
          /\ pt[index] = asked[k].tag /\ pt[index + 1] = 4 * SizeOf(k)
      BY <1>6, <1>7, <2>2
    <3>2. ~(index >= pt[0] \div 4) BY <1>6, <1>8, <2>2, <3>1
    <3>3. CASE asked[k].tag = want
      <4>1. at' = "done" /\ index' = index /\ property' = [len |-> pt[index + 2], value |-> pt[index + 3]]
        BY <3>1, <3>2, <3>3 DEF M!Find
      <4>2. Answered(k) BY <1>1 DEF Answered, BoxTalks
      <4>3. pt[index + 2] = 4 * SizeOf(k) /\ pt[index + 3] = asked[k].arg + TagAnswers[asked[k].tag]
        BY <1>2, <1>3, <1>4, <2>2, <4>2 DEF BoxAnswers
      <4>4. property' = [len |-> 4 * TagSizes[want], value |-> asked[k].arg + TagAnswers[want]]
        BY <3>3, <4>1, <4>3 DEF SizeOf
      <4>5. DOMAIN asked = 1 .. n0 BY <1>2, <1>3, LenProperties DEF BoxType
      <4>6. \A m \in 1 .. n0 : asked[m].tag = want => k <= m
        <5>1. ASSUME NEW m \in 1 .. n0, ~(k <= m) PROVE m \in 1 .. k - 1 BY <5>1
        <5> QED BY <2>2, <5>1
      <4>7. k \in {m \in DOMAIN asked : asked[m].tag = want} BY <3>3, <4>5
      <4>8. M!OwnAnswer'
        <5>1. \A m \in {m \in DOMAIN asked : asked[m].tag = want} : k <= m BY <4>5, <4>6
        <5> QED BY <1>1, <4>1, <4>4, <4>7, <5>1 DEF M!OwnAnswer
      <4>9. index' \in Int BY <1>2, <4>1 DEF BoxType
      <4> QED BY <4>1, <4>8, <4>9 DEF BoxSearch
    <3>4. CASE asked[k].tag # want
      <4>1. pt[index + 1] \div 4 = SizeOf(k) BY <3>1
      <4>2. index + (pt[index + 1] \div 4) + 3 = Place(k + 1) /\ Place(k + 1) > index /\ Place(k + 1) \in Int
        BY <2>2, <3>1, <4>1
      <4>3. at' = "get" /\ index' = Place(k + 1)
        BY <1>1, <3>1, <3>2, <3>4, <4>2 DEF M!Find
      <4>4. \A j \in 1 .. (k + 1) - 1 : asked[j].tag # want
        <5>1. \A j \in 1 .. (k + 1) - 1 : j = k \/ j \in 1 .. k - 1 OBVIOUS
        <5> QED BY <2>2, <3>4, <5>1
      <4>5. k + 1 \in 1 .. n0 + 1 OBVIOUS
      <4>6. Place(k + 1)' = Place(k + 1) BY <1>1, BoxSame
      <4>7. BoxSearch'
        <5>1. want' \in AllTags BY <1>1, <1>2 DEF BoxSearch
        <5> QED BY <1>1, <1>3, <4>3, <4>4, <4>5, <4>6, <5>1 DEF BoxSearch
      <4> QED BY <4>2, <4>3, <4>7 DEF M!OwnAnswer
    <3> QED BY <3>3, <3>4
  <2>3. CASE index = pt_index /\ \A j \in 1 .. n0 : asked[j].tag # want
    <3>1. ~(index >= pt[0] \div 4) /\ pt[index] # want /\ pt[index + 1] = behind
      BY <1>6, <1>7, <1>8, <1>9, <2>3
    <3>2. CASE index + (behind \div 4) + 3 > index
      <4>1. at' = "get" /\ index' = index + (behind \div 4) + 3 BY <1>1, <3>1, <3>2 DEF M!Find
      <4>2. index' \in Int /\ index' > pt_index BY <1>6, <1>10, <2>3, <3>2, <4>1
      <4>3. want' \in AllTags BY <1>1, <1>2 DEF BoxSearch
      <4> QED BY <1>1, <1>3, <2>3, <4>1, <4>2, <4>3 DEF BoxSearch, M!OwnAnswer
    <3>3. CASE ~(index + (behind \div 4) + 3 > index)
      <4>1. at' = "wild" /\ index' = index BY <1>1, <3>1, <3>3 DEF M!Find
      <4>2. behind < 0 BY <1>6, <1>10, <2>3, <3>3
      <4>3. DOMAIN asked = 1 .. n0 BY <1>2, <1>3, LenProperties DEF BoxType
      <4>4. index' \in Int BY <1>2, <4>1 DEF BoxType
      <4> QED BY <1>1, <2>3, <4>1, <4>2, <4>3, <4>4 DEF BoxSearch, M!OwnAnswer
    <3> QED BY <3>2, <3>3
  <2>4. CASE \E k \in 1 .. n0 + 1 : index = Place(k) /\ \A j \in 1 .. k - 1 : asked[j].tag # want
    <3>1. PICK k \in 1 .. n0 + 1 : index = Place(k) /\ \A j \in 1 .. k - 1 : asked[j].tag # want BY <2>4
    <3>2. k \in 1 .. n0 \/ (k = n0 + 1 /\ k - 1 = n0) OBVIOUS
    <3> QED BY <1>6, <2>2, <2>3, <3>1, <3>2
  <2> QED BY <1>1, <1>2, <1>3, <2>1, <2>4 DEF BoxSearch
<1>12. at' \in BoxTalks \ {"read"} BY <1>11 DEF BoxTalks
<1>13. BoxLayout' /\ BoxWords' /\ \A k : Place(k)' = Place(k) /\ SizeOf(k)' = SizeOf(k)
  BY <1>1, <1>2, <1>4, <1>12, BoxWordsStay
<1>14. BoxType' BY <1>1, <1>2, <1>11, <1>12 DEF BoxType
<1>15. Replied' = Replied BY <1>1 DEF Replied
<1>16. BoxTraffic' BY <1>1, <1>2, <1>15 DEF BoxTraffic
<1>17. \A k : Answered(k) /\ Answered(k)' BY <1>1, <1>12 DEF Answered, BoxTalks
<1>18. BoxAnswers' BY <1>1, <1>2, <1>4, <1>13, <1>17 DEF BoxAnswers
<1> QED BY <1>11, <1>13, <1>14, <1>16, <1>18 DEF BoxInv

LEMMA BoxUse == ASSUME BoxInv, M!Use PROVE BoxInv'
<1>1. /\ at = "done" /\ at' \in {"idle", "got"} /\ want' = 0 /\ index' = 0
      /\ UNCHANGED <<pt, pt_index, asked, toVc, toArm, vc, behind>>
  BY DEF M!Use
<1>2. BoxType /\ BoxLayout /\ BoxWords /\ BoxTraffic /\ BoxAnswers BY DEF BoxInv
<1>3. at \in BoxTalks /\ at' \in BoxTalks \cup {"idle"} BY <1>1 DEF BoxTalks
<1>4. BoxLayout' /\ BoxWords' /\ \A k : Place(k)' = Place(k) /\ SizeOf(k)' = SizeOf(k)
  BY <1>1, <1>2, <1>3, BoxWordsStay
<1>5. BoxType' BY <1>1, <1>2, <1>3 DEF BoxType
<1>6. Replied' = Replied BY <1>1 DEF Replied
<1>7. BoxTraffic' BY <1>1, <1>2, <1>6 DEF BoxTraffic
<1>8. BoxAnswers'
  <2>1. \A k : at' # "idle" => Answered(k) /\ Answered(k)' BY <1>1 DEF Answered, BoxTalks
  <2> QED BY <1>1, <1>2, <1>4, <2>1 DEF BoxAnswers
<1>9. at' # "get" /\ at' # "done" /\ at' # "wild" BY <1>1
<1> QED BY <1>4, <1>5, <1>7, <1>8, <1>9 DEF BoxInv, BoxSearch, M!OwnAnswer

\* The firmware takes the request; none of its tags is answered yet.
LEMMA BoxFetch == ASSUME BoxInv, M!Fetch PROVE BoxInv'
<1>1. /\ toVc # <<>> /\ vc = 0 /\ toVc' = Tail(toVc) /\ vc' = 2
      /\ UNCHANGED <<pt, pt_index, at, asked, want, index, property, toArm, behind>>
  BY DEF M!Fetch
<1>2. BoxType /\ BoxLayout /\ BoxWords /\ BoxTraffic /\ BoxAnswers BY DEF BoxInv
<1>3. at = "read" /\ ~Replied /\ Len(toVc) = 1 BY <1>1, <1>2 DEF BoxTraffic
<1>4. at \in BoxTalks /\ at' \in BoxTalks /\ at # "idle" BY <1>1, <1>3 DEF BoxTalks
<1>5. BoxLayout' /\ BoxWords' /\ \A k : Place(k)' = Place(k) /\ SizeOf(k)' = SizeOf(k)
  BY <1>1, <1>2, <1>4, BoxWordsStay
<1>6. toVc' \in Seq({8}) /\ Len(toVc') = 0 BY <1>1, <1>2, <1>3, HeadTailProperties DEF BoxType
<1>7. toVc' = <<>> BY <1>6, EmptySeq
<1>8. BoxType' BY <1>1, <1>2, <1>6 DEF BoxType
<1>9. Replied' = Replied BY <1>1 DEF Replied
<1>10. PICK n0 \in Nat : n0 = Len(asked) BY LenProperties, <1>2 DEF BoxType
<1>11. \A k \in 1 .. n0 : Place(k) \in Nat /\ Place(k) >= 2 BY <1>2, <1>4, <1>10, BoxPlaces
<1>12. BoxTraffic'
  <2>1. Place(1)' = 2 BY <1>2, <1>4, <1>5 DEF BoxLayout
  <2>2. 1 \in 1 .. n0 + 1 OBVIOUS
  <2>3. \E k \in 1 .. Len(asked') + 1 : vc' = Place(k)' BY <1>1, <1>10, <2>1, <2>2
  <2> QED BY <1>1, <1>2, <1>3, <1>7, <1>9, <2>3 DEF BoxTraffic
<1>13. \A k \in 1 .. n0 : ~Answered(k) /\ ~Answered(k)'
  BY <1>1, <1>3, <1>5, <1>9, <1>11 DEF Answered, BoxTalks
<1>14. BoxAnswers' BY <1>1, <1>2, <1>4, <1>5, <1>10, <1>13 DEF BoxAnswers
<1>15. at' # "get" /\ at' # "done" /\ at' # "wild" BY <1>1, <1>3
<1> QED BY <1>5, <1>8, <1>12, <1>14, <1>15 DEF BoxInv, BoxSearch, M!OwnAnswer

LEMMA BoxOther == ASSUME BoxInv, M!OtherChannel PROVE BoxInv'
<1>1. /\ toArm' = Append(toArm, 1)
      /\ UNCHANGED <<pt, pt_index, at, asked, want, index, property, toVc, vc, behind>>
  BY DEF M!OtherChannel
<1>2. BoxType /\ BoxLayout /\ BoxWords /\ BoxTraffic /\ BoxAnswers /\ BoxSearch /\ M!OwnAnswer BY DEF BoxInv
<1>3. toArm' \in Seq({1, 8}) BY <1>1, <1>2, AppendProperties DEF BoxType
<1>4. BoxType' BY <1>1, <1>2, <1>3 DEF BoxType
<1>5. \A k : Place(k)' = Place(k) /\ SizeOf(k)' = SizeOf(k) BY <1>1, BoxSame
<1>6. Replied' = Replied /\ \A i, j \in 1 .. Len(toArm') : toArm'[i] = 8 /\ toArm'[j] = 8 => i = j
  BY <1>1, <1>2, BoxReplies
<1>7. BoxLayout' BY <1>1, <1>2, <1>5 DEF BoxLayout
<1>8. BoxWords' BY <1>1, <1>2, <1>5 DEF BoxWords
<1>9. BoxTraffic' BY <1>1, <1>2, <1>5, <1>6 DEF BoxTraffic
<1>10. \A k : Answered(k)' = Answered(k) BY <1>1, <1>5, <1>6 DEF Answered
<1>11. BoxAnswers' BY <1>1, <1>2, <1>5, <1>10 DEF BoxAnswers
<1>12. BoxSearch' BY <1>1, <1>2, <1>5 DEF BoxSearch
<1>13. M!OwnAnswer' BY <1>1, <1>2 DEF M!OwnAnswer
<1> QED BY <1>4, <1>7, <1>8, <1>9, <1>11, <1>12, <1>13 DEF BoxInv

\* The firmware is behind the last tag: every one is answered, and it replies.
LEMMA BoxReply ==
    ASSUME BoxInv, M!Answer, vc = pt_index, vc # 0 PROVE BoxInv'
<1>1. BoxType /\ BoxLayout /\ BoxWords /\ BoxTraffic /\ BoxAnswers BY DEF BoxInv
<1>2. at = "read" /\ ~Replied /\ toVc = <<>> BY <1>1 DEF BoxTraffic
<1>3. at \in BoxTalks /\ at # "idle" BY <1>2 DEF BoxTalks
<1>4. pt[pt_index] = 0 BY <1>1, <1>3 DEF BoxWords
<1>5. /\ pt' = [pt EXCEPT ![1] = 1] /\ vc' = 0 /\ toArm' = Append(toArm, 8)
      /\ UNCHANGED <<pt_index, at, asked, want, index, property, toVc, behind>>
  BY <1>4 DEF M!Answer, M!Property
<1>6. PICK n0 \in Nat : n0 = Len(asked) BY LenProperties, <1>1 DEF BoxType
<1>7. /\ pt_index \in Nat /\ pt_index >= 2 /\ pt_index + 1 < PtSize
      /\ \A k \in 1 .. n0 : /\ Place(k) \in Nat /\ Place(k) >= 2 /\ SizeOf(k) \in 1 .. 3
                            /\ Place(k) + 3 + SizeOf(k) <= pt_index
  BY <1>1, <1>3, <1>6, BoxPlaces
<1>8. PtSize \in Nat BY BoxTags
<1>9. pt \in [0 .. (PtSize - 1) -> Int] BY <1>1 DEF BoxType
<1>10. pt' \in [0 .. (PtSize - 1) -> Int]
  <2>1. 1 \in 0 .. (PtSize - 1) /\ 1 \in Int BY <1>7, <1>8
  <2> QED BY <1>5, <1>9, <2>1
<1>11. ASSUME NEW i \in 0 .. (PtSize - 1), i # 1 PROVE pt'[i] = pt[i] BY <1>5, <1>9, <1>11
<1>12. toArm' \in Seq({1, 8}) BY <1>1, <1>5, AppendProperties DEF BoxType
<1>13. BoxType' BY <1>1, <1>5, <1>10, <1>12 DEF BoxType
<1>14. BoxLayout' BY <1>1, <1>3, <1>5, BoxLayoutStays
<1>15. \A k : Place(k)' = Place(k) /\ SizeOf(k)' = SizeOf(k) BY <1>5, BoxSame
<1>16. Replied' /\ \A i, j \in 1 .. Len(toArm') : toArm'[i] = 8 /\ toArm'[j] = 8 => i = j
  BY <1>1, <1>2, <1>5, BoxReplies
<1>17. BoxTraffic' BY <1>2, <1>5, <1>16 DEF BoxTraffic
<1>18. pt'[0] = pt[0] /\ pt'[pt_index] = pt[pt_index] /\ pt'[pt_index + 1] = pt[pt_index + 1]
  <2>1. /\ 0 \in 0 .. (PtSize - 1) /\ pt_index \in 0 .. (PtSize - 1) /\ pt_index + 1 \in 0 .. (PtSize - 1)
        /\ 0 # 1 /\ pt_index # 1 /\ pt_index + 1 # 1
    BY <1>7, <1>8
  <2> QED BY <1>11, <2>1
<1>19. ASSUME NEW k \in 1 .. n0
       PROVE  /\ pt'[Place(k)] = pt[Place(k)] /\ pt'[Place(k) + 1] = pt[Place(k) + 1]
              /\ pt'[Place(k) + 2] = pt[Place(k) + 2] /\ pt'[Place(k) + 3] = pt[Place(k) + 3]
              /\ Place(k) < pt_index
  <2>1. Place(k) \in Nat /\ Place(k) >= 2 /\ SizeOf(k) \in 1 .. 3 /\ Place(k) + 3 + SizeOf(k) <= pt_index
    BY <1>7
  <2>2. /\ Place(k) \in 0 .. (PtSize - 1) /\ Place(k) + 1 \in 0 .. (PtSize - 1)
        /\ Place(k) + 2 \in 0 .. (PtSize - 1) /\ Place(k) + 3 \in 0 .. (PtSize - 1)
    BY <1>7, <1>8, <2>1
  <2>3. Place(k) # 1 /\ Place(k) + 1 # 1 /\ Place(k) + 2 # 1 /\ Place(k) + 3 # 1 BY <2>1
  <2>4. Place(k) < pt_index BY <1>7, <2>1
  <2> QED BY <1>11, <2>2, <2>3, <2>4
<1>20. BoxWords' BY <1>1, <1>3, <1>5, <1>6, <1>15, <1>18, <1>19 DEF BoxWords
<1>21. \A k \in 1 .. n0 : Answered(k) /\ Answered(k)' BY <1>16, <1>19 DEF Answered
<1>22. BoxAnswers' BY <1>1, <1>3, <1>5, <1>6, <1>15, <1>19, <1>21 DEF BoxAnswers
<1>23. at' # "get" /\ at' # "done" /\ at' # "wild" BY <1>2, <1>5
<1> QED BY <1>13, <1>14, <1>17, <1>20, <1>22, <1>23 DEF BoxInv, BoxSearch, M!OwnAnswer

\* It is at a tag: it answers that one and touches no other.
LEMMA BoxAnswer ==
    ASSUME BoxInv, M!Answer, NEW k0 \in 1 .. Len(asked), vc = Place(k0), vc # 0 PROVE BoxInv'
<1>1. BoxType /\ BoxLayout /\ BoxWords /\ BoxTraffic /\ BoxAnswers BY DEF BoxInv
<1>2. at = "read" /\ ~Replied /\ toVc = <<>> BY <1>1 DEF BoxTraffic
<1>3. at \in BoxTalks /\ at # "idle" BY <1>2 DEF BoxTalks
<1>4. PICK n0 \in Nat : n0 = Len(asked) BY LenProperties, <1>1 DEF BoxType
<1>5. k0 \in 1 .. n0 BY <1>4
<1>6. /\ pt_index \in Nat /\ pt_index >= 2 /\ pt_index + 1 < PtSize
      /\ \A k \in 1 .. n0 : /\ Place(k) \in Nat /\ Place(k) >= 2 /\ SizeOf(k) \in 1 .. 3
                            /\ Place(k) + 3 + SizeOf(k) <= pt_index
                            /\ Place(k + 1) = Place(k) + 3 + SizeOf(k)
                            /\ asked[k].tag \in DOMAIN TagSizes /\ asked[k].tag \in Nat /\ asked[k].tag > 0
                            /\ asked[k].arg \in Int
                            /\ \A j \in 1 .. n0 : j > k => Place(k) + 3 + SizeOf(k) <= Place(j)
  BY <1>1, <1>3, <1>4, BoxPlaces
<1>7. /\ pt[0] = 4 * (pt_index + 1) /\ behind = pt[pt_index + 1] /\ pt[pt_index] = 0
      /\ \A k \in 1 .. n0 : pt[Place(k)] = asked[k].tag /\ pt[Place(k) + 1] = 4 * SizeOf(k)
  BY <1>1, <1>3, <1>4 DEF BoxWords
<1>8. PtSize \in Nat BY BoxTags
<1>9. PICK s0 \in 1 .. 3 : s0 = SizeOf(k0) BY <1>5, <1>6
<1>10. /\ vc \in Nat /\ vc >= 2 /\ vc + 3 + s0 <= pt_index /\ Place(k0 + 1) = vc + 3 + s0
       /\ pt[vc] = asked[k0].tag /\ pt[vc + 1] = 4 * s0
  BY <1>5, <1>6, <1>7, <1>9
<1>11. pt[vc] # 0 /\ ~(vc >= pt[0] \div 4) /\ pt[vc + 1] \div 4 = s0
  <2>1. pt[0] \div 4 = pt_index + 1 BY <1>6, <1>7
  <2>2. ~(vc >= pt_index + 1)
    <3>1. vc \in Nat /\ s0 \in 1 .. 3 /\ vc + 3 + s0 <= pt_index /\ pt_index \in Nat BY <1>6, <1>9, <1>10
    <3> QED BY <3>1
  <2>4. pt[vc + 1] \div 4 = s0 BY <1>9, <1>10
  <2>3. pt[vc] # 0
    <3>1. asked[k0].tag \in Nat /\ asked[k0].tag > 0 BY <1>5, <1>6
    <3> QED BY <1>10, <3>1
  <2> QED BY <2>1, <2>2, <2>3, <2>4
<1>12. PICK a0 \in Int : a0 = TagAnswers[asked[k0].tag]
  <2>1. asked[k0].tag \in DOMAIN TagSizes BY <1>5, <1>6
  <2> QED BY <2>1, BoxTags
<1>13. /\ pt' = [i \in DOMAIN pt |->
                   CASE i = vc + 2 -> pt[vc + 1] [] i = vc + 3 -> pt[i] + TagAnswers[pt[vc]]
                     [] i = vc + 5 /\ pt[vc + 1] = 12 -> -40 [] OTHER -> pt[i]]
       /\ vc' = vc + 3 + (pt[vc + 1] \div 4) /\ toArm' = toArm
       /\ UNCHANGED <<pt_index, at, asked, want, index, property, toVc, behind>>
  BY <1>11 DEF M!Answer
<1>14. vc' = vc + 3 + s0 /\ vc' = Place(k0 + 1) BY <1>9, <1>10, <1>11, <1>13
<1>15. pt \in [0 .. (PtSize - 1) -> Int] BY <1>1 DEF BoxType
<1>16. TagAnswers[pt[vc]] = a0 BY <1>10, <1>12
<1>17. pt' = [i \in 0 .. (PtSize - 1) |->
                IF i = vc + 2 THEN 4 * s0 ELSE IF i = vc + 3 THEN pt[i] + a0
                ELSE IF i = vc + 5 /\ s0 = 3 THEN -40 ELSE pt[i]]
  <2>1. (pt[vc + 1] = 12) = (s0 = 3) BY <1>9, <1>10
  <2>2. vc + 2 # vc + 3 /\ vc + 2 # vc + 5 /\ vc + 3 # vc + 5 BY <1>10
  <2>3. DOMAIN pt = 0 .. (PtSize - 1) BY <1>15
  <2>4. \A i : (CASE i = vc + 2 -> pt[vc + 1] [] i = vc + 3 -> pt[i] + TagAnswers[pt[vc]]
                  [] i = vc + 5 /\ pt[vc + 1] = 12 -> -40 [] OTHER -> pt[i])
             = (IF i = vc + 2 THEN 4 * s0 ELSE IF i = vc + 3 THEN pt[i] + a0
                ELSE IF i = vc + 5 /\ s0 = 3 THEN -40 ELSE pt[i])
    BY <1>10, <1>16, <2>1, <2>2
  <2> QED BY <1>13, <2>3, <2>4
<1>18. pt' \in [0 .. (PtSize - 1) -> Int]
  <2>1. 4 * s0 \in Int /\ \A i \in 0 .. (PtSize - 1) : pt[i] \in Int /\ pt[i] + a0 \in Int BY <1>9, <1>12, <1>15
  <2> QED BY <1>17, <2>1
<1>19. ASSUME NEW i \in 0 .. (PtSize - 1), i < vc + 2 \/ i >= vc + 3 + s0 PROVE pt'[i] = pt[i]
  <2>1. vc \in Nat /\ s0 \in 1 .. 3 BY <1>9, <1>10
  <2>2. i # vc + 2 /\ i # vc + 3 BY <1>19, <2>1
  <2>3. s0 = 3 => i # vc + 5 BY <1>19, <2>1
  <2> QED BY <1>17, <2>2, <2>3
<1>20. pt'[vc + 2] = 4 * s0 /\ pt'[vc + 3] = pt[vc + 3] + a0
  <2>1. /\ vc \in Nat /\ s0 \in 1 .. 3 /\ vc + 3 + s0 <= pt_index /\ pt_index \in Nat
        /\ pt_index + 1 < PtSize /\ PtSize \in Nat
    BY <1>6, <1>8, <1>9, <1>10
  <2>2. vc + 2 \in 0 .. (PtSize - 1) /\ vc + 3 \in 0 .. (PtSize - 1) /\ vc + 3 # vc + 2 BY <2>1
  <2> QED BY <1>17, <2>2
<1>21. BoxType'
  <2>1. vc \in Nat /\ s0 \in 1 .. 3 BY <1>9, <1>10
  <2>2. vc' \in Nat BY <1>14, <2>1
  <2> QED BY <1>1, <1>13, <1>18, <2>2 DEF BoxType
<1>22. BoxLayout' BY <1>1, <1>3, <1>13, BoxLayoutStays
<1>23. \A k : Place(k)' = Place(k) /\ SizeOf(k)' = SizeOf(k) BY <1>13, BoxSame
<1>24. Replied' = Replied BY <1>13 DEF Replied
<1>25. BoxTraffic'
  <2>1. k0 + 1 \in 1 .. n0 + 1 /\ vc' = Place(k0 + 1)' BY <1>5, <1>14, <1>23
  <2>2. \E k \in 1 .. Len(asked') + 1 : vc' = Place(k)' BY <1>4, <1>13, <2>1
  <2> QED BY <1>1, <1>2, <1>13, <1>24, <2>2 DEF BoxTraffic
<1>26. pt'[0] = pt[0] /\ pt'[pt_index] = pt[pt_index] /\ pt'[pt_index + 1] = pt[pt_index + 1]
  <2>1. /\ 0 \in 0 .. (PtSize - 1) /\ pt_index \in 0 .. (PtSize - 1) /\ pt_index + 1 \in 0 .. (PtSize - 1)
        /\ 0 < vc + 2 /\ pt_index >= vc + 3 + s0 /\ pt_index + 1 >= vc + 3 + s0
    BY <1>6, <1>8, <1>9, <1>10
  <2> QED BY <1>19, <2>1
<1>27. ASSUME NEW k \in 1 .. n0
       PROVE  pt'[Place(k)] = pt[Place(k)] /\ pt'[Place(k) + 1] = pt[Place(k) + 1]
  <2>1. Place(k) \in Nat /\ SizeOf(k) \in 1 .. 3 /\ Place(k) + 3 + SizeOf(k) <= pt_index BY <1>6
  <2>2. Place(k) \in 0 .. (PtSize - 1) /\ Place(k) + 1 \in 0 .. (PtSize - 1) BY <1>6, <1>8, <2>1
  <2>3. (Place(k) < vc + 2 \/ Place(k) >= vc + 3 + s0) /\ (Place(k) + 1 < vc + 2 \/ Place(k) + 1 >= vc + 3 + s0)
    <3>1. CASE k = k0 BY <1>10, <2>1, <3>1
    <3>2. CASE k > k0
      <4>1. vc + 3 + s0 <= Place(k) BY <1>5, <1>6, <1>9, <3>2
      <4>2. vc \in Nat /\ s0 \in 1 .. 3 BY <1>9, <1>10
      <4> QED BY <2>1, <4>1, <4>2
    <3>3. CASE k < k0
      <4>1. Place(k) + 3 + SizeOf(k) <= vc BY <1>5, <1>6, <3>3
      <4>2. vc \in Nat BY <1>10
      <4> QED BY <2>1, <4>1, <4>2
    <3> QED BY <1>5, <3>1, <3>2, <3>3
  <2> QED BY <1>19, <2>2, <2>3
<1>28. BoxWords' BY <1>1, <1>3, <1>4, <1>13, <1>23, <1>26, <1>27 DEF BoxWords
<1>29. ASSUME NEW k \in 1 .. n0
       PROVE  /\ Answered(k) = (Place(k) < vc) /\ Answered(k)' = (Place(k) < vc')
  <2>1. vc # 0 /\ vc' # 0 BY <1>9, <1>10, <1>14
  <2> QED BY <1>2, <1>13, <1>23, <1>24, <2>1 DEF Answered, BoxTalks
<1>30. ASSUME NEW k \in 1 .. n0
       PROVE  IF Answered(k)'
                THEN pt'[Place(k) + 2] = 4 * SizeOf(k) /\ pt'[Place(k) + 3] = asked[k].arg + TagAnswers[asked[k].tag]
                ELSE pt'[Place(k) + 3] = asked[k].arg
  <2>1. /\ Place(k) \in Nat /\ SizeOf(k) \in 1 .. 3 /\ Place(k) + 3 + SizeOf(k) <= pt_index BY <1>6
  <2>2. Place(k) + 2 \in 0 .. (PtSize - 1) /\ Place(k) + 3 \in 0 .. (PtSize - 1) BY <1>6, <1>8, <2>1
  <2>3. IF Answered(k)
          THEN pt[Place(k) + 2] = 4 * SizeOf(k) /\ pt[Place(k) + 3] = asked[k].arg + TagAnswers[asked[k].tag]
          ELSE pt[Place(k) + 3] = asked[k].arg
    BY <1>1, <1>3, <1>4 DEF BoxAnswers
  <2>4. CASE k = k0
    <3>1. Place(k) = vc /\ ~Answered(k)
      <4>1. Place(k) = vc /\ ~(vc < vc) BY <1>10, <2>4
      <4> QED BY <1>29, <4>1
    <3>2. Answered(k)'
      <4>1. Place(k) < vc' BY <1>9, <1>10, <1>14, <3>1
      <4> QED BY <1>29, <4>1
    <3>3. pt[vc + 3] = asked[k0].arg BY <2>3, <2>4, <3>1
    <3>4. pt'[vc + 2] = 4 * SizeOf(k0) /\ pt'[vc + 3] = asked[k0].arg + TagAnswers[asked[k0].tag]
      BY <1>9, <1>12, <1>20, <3>3
    <3> QED BY <2>4, <3>1, <3>2, <3>4
  <2>5. CASE k > k0
    <3>1. vc + 3 + s0 <= Place(k) BY <1>5, <1>6, <1>9, <2>5
    <3>2. ~(Place(k) < vc') /\ ~(Place(k) < vc) /\ Place(k) + 3 >= vc + 3 + s0
      <4>1. vc \in Nat /\ s0 \in 1 .. 3 /\ vc' = vc + 3 + s0 BY <1>9, <1>10, <1>14
      <4> QED BY <2>1, <3>1, <4>1
    <3>3. ~Answered(k)' /\ ~Answered(k) BY <1>29, <3>2
    <3>4. pt'[Place(k) + 3] = pt[Place(k) + 3] BY <1>19, <2>2, <3>2
    <3> QED BY <2>3, <3>3, <3>4
  <2>6. CASE k < k0
    <3>1. Place(k) + 3 + SizeOf(k) <= vc BY <1>5, <1>6, <2>6
    <3>2. Place(k) < vc' /\ Place(k) < vc /\ Place(k) + 2 < vc + 2 /\ Place(k) + 3 < vc + 2
      <4>1. vc \in Nat /\ s0 \in 1 .. 3 /\ vc' = vc + 3 + s0 BY <1>9, <1>10, <1>14
      <4>2. Place(k) < vc /\ Place(k) + 2 < vc + 2 /\ Place(k) + 3 < vc + 2 BY ONLY <2>1, <3>1, <4>1
      <4>3. Place(k) < vc' BY ONLY <2>1, <4>1, <4>2
      <4> QED BY <4>2, <4>3
    <3>3. Answered(k)' /\ Answered(k) BY <1>29, <3>2
    <3>4. pt'[Place(k) + 3] = pt[Place(k) + 3] /\ pt'[Place(k) + 2] = pt[Place(k) + 2] BY <1>19, <2>2, <3>2
    <3> QED BY <2>3, <3>3, <3>4
  <2> QED BY <1>5, <2>4, <2>5, <2>6
<1>31. BoxAnswers' BY <1>4, <1>13, <1>23, <1>30 DEF BoxAnswers
<1>32. at' # "get" /\ at' # "done" /\ at' # "wild" BY <1>2, <1>13
<1> QED BY <1>21, <1>22, <1>25, <1>28, <1>31, <1>32 DEF BoxInv, BoxSearch, M!OwnAnswer

\* RPI_PropertyGet returns the answer the firmware gave to the first request for
\* the tag since RPI_PropertyInit, and none for a tag not asked for, whatever
\* earlier requests left in the buffer and whatever the other channels carried
\* (AnswersOwn of the run platform).
THEOREM AnswersAreOwn == PlatformSpec => []AnswersOwn
<1> DEFINE BI == unit = "mailbox" => BoxInv
<1>1. PlatformInit => BI
  BY BoxStarts DEF PlatformInit
<1>2. BI /\ [PlatformNext]_all => BI'
  <2> SUFFICES ASSUME BI, [PlatformNext]_all, unit' = "mailbox" PROVE BoxInv'
    OBVIOUS
  <2>1. unit = "mailbox" BY DEF PlatformNext, all
  <2>2. BoxInv BY <2>1
  <2>3. CASE PlatformNext
    <3>1. M!Next BY <2>1, <2>3 DEF PlatformNext
    <3>2. CASE M!Answer
      <4>1. vc # 0 BY <3>2 DEF M!Answer
      <4>2. \E k \in 1 .. Len(asked) + 1 : vc = Place(k) BY <2>2, <4>1 DEF BoxInv, BoxTraffic
      <4>3. PICK n0 \in Nat : n0 = Len(asked) BY <2>2, LenProperties DEF BoxInv, BoxType
      <4>4. PICK k \in 1 .. n0 + 1 : vc = Place(k) BY <4>2, <4>3
      <4>5. k \in 1 .. n0 \/ k \notin 1 .. n0 OBVIOUS
      <4>6. CASE k \in 1 .. n0 BY <2>2, <3>2, <4>1, <4>3, <4>4, <4>6, BoxAnswer
      <4>7. CASE k \notin 1 .. n0
        <5>1. vc = pt_index BY <4>3, <4>4, <4>7 DEF Place
        <5> QED BY <2>2, <3>2, <4>1, <5>1, BoxReply
      <4> QED BY <4>5, <4>6, <4>7
    <3>3. ASSUME NEW t \in AllTags, NEW a \in TagArgs, M!PropertyAddTag(t, a) PROVE BoxInv'
      <4>1. CASE t \in DOMAIN TagSizes BY <2>2, <3>3, <4>1, BoxAddSupported
      <4>2. CASE t \notin DOMAIN TagSizes BY <2>2, <3>3, <4>2, BoxAddOther
      <4> QED BY <4>1, <4>2
    <3> QED BY <2>2, <3>1, <3>2, <3>3, BoxPropertyInit, BoxProcess, BoxRead, BoxGet, BoxFind, BoxUse,
        BoxFetch, BoxOther DEF M!Next, M!Ask
  <2>4. CASE UNCHANGED all
    <3>1. UNCHANGED <<pt, pt_index, at, asked, want, index, property, toVc, toArm, vc, behind>>
      BY <2>4 DEF all, boxVars
    <3>2. \A k : Place(k)' = Place(k) /\ SizeOf(k)' = SizeOf(k) BY <3>1, BoxSame
    <3>3. Replied' = Replied BY <3>1 DEF Replied
    <3>4. \A k : Answered(k)' = Answered(k) BY <3>1, <3>2, <3>3 DEF Answered
    <3>5. BoxType' /\ M!OwnAnswer' BY <2>2, <3>1 DEF BoxInv, BoxType, M!OwnAnswer
    <3>6. BoxLayout' BY <2>2, <3>1, <3>2 DEF BoxInv, BoxLayout
    <3>7. BoxWords' BY <2>2, <3>1, <3>2 DEF BoxInv, BoxWords
    <3>8. BoxTraffic' BY <2>2, <3>1, <3>2, <3>3 DEF BoxInv, BoxTraffic
    <3>9. BoxAnswers' BY <2>2, <3>1, <3>2, <3>4 DEF BoxInv, BoxAnswers
    <3>10. BoxSearch' BY <2>2, <3>1, <3>2 DEF BoxInv, BoxSearch
    <3> QED BY <3>5, <3>6, <3>7, <3>8, <3>9, <3>10 DEF BoxInv
  <2> QED BY <2>3, <2>4
<1>3. BI => AnswersOwn BY DEF AnswersOwn, BoxInv
<1> QED BY <1>1, <1>2, <1>3, PTL DEF PlatformSpec
=============================================================================
