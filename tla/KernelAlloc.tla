---------------------------- MODULE KernelAlloc ----------------------------
(***************************************************************************)
(* src/kernel_alloc.c: the kernel heap.                                    *)
(*                                                                         *)
(* Blocks are carved from one region and rounded up to a bucket size; a    *)
(* freed block goes to the free list of its bucket and is never split.     *)
(* Nothing masks interrupts here, so a task may lose the processor between *)
(* any two accesses to shared state.  A block is named by the address of   *)
(* its header.  Addresses and sizes are counted in units of BLOCK_ALIGN or *)
(* more, modulo AddrSpace as the 32-bit pointers are.                      *)
(*                                                                         *)
(* calloc is an allocation of at least one unit.  realloc of a null pointer*)
(* is an allocation, to size 0 a deallocation; any other call of it looks  *)
(* for the header at four times the distance, finds no magic number there  *)
(* and returns 0 without changing anything.                                *)
(***************************************************************************)
EXTENDS Integers, Sequences, FiniteSets

CONSTANTS Tasks,
          AddrSpace,     \* 2^32 bytes
          Base, Size,    \* alloc_contiguous_frames(ulSize / PAGE_SIZE); ulSize
          PageReserve,   \* PAGE_RESERVE
          BlockReserve,  \* initial s_nBlockReserve
          Header,        \* sizeof(struct alloc_header)
          Buckets,       \* sizes of s_BlockBucket
          Requests,      \* sizes that are asked for
          Null,
          MaxAllocs      \* bound: calls of kernel_allocate

ASSUME HeapConstants ==
    /\ AddrSpace \in Nat \ {0} /\ Base \in 1..(AddrSpace - 1) /\ Size \in 1..(AddrSpace - 1)
    /\ PageReserve \in Nat /\ BlockReserve \in Nat /\ Header \in Nat \ {0}
    /\ Buckets \subseteq Nat \ {0} /\ Requests \subseteq Nat \ {0}
    /\ Null \notin Nat /\ MaxAllocs \in Nat

VARIABLES s_pNextBlock, s_pBlockLimit, s_nBlockReserve,
          hdr,        \* the headers written so far: address -> size and next
          free_list,  \* of every bucket
          pc, h, size, to,  \* per task: where it is, pBlockHeader, size, pNextBlock
          owned,      \* per task: the blocks it was given
          lost,       \* blocks too large for any bucket, freed and not reused
          allocs,     \* calls of kernel_allocate so far
          stack,      \* auxiliary: the blocks on each free list, first one first
          mixed       \* auxiliary: a call began while another was under way

heapVars == <<s_pNextBlock, s_pBlockLimit, s_nBlockReserve>>
taskVars == <<pc, h, size, to, owned>>
vars == <<heapVars, hdr, free_list, taskVars, lost, allocs, stack, mixed>>

\* kernel_alloc_init.  The reserve is subtracted from the size without a test.
Init == /\ s_pNextBlock = Base
        /\ s_pBlockLimit = (Base + ((Size - PageReserve) % AddrSpace)) % AddrSpace
        /\ s_nBlockReserve = BlockReserve
        /\ hdr = [a \in {} |-> Null]
        /\ free_list = [b \in Buckets |-> Null]
        /\ pc = [t \in Tasks |-> "idle"] /\ h = [t \in Tasks |-> Null]
        /\ size = [t \in Tasks |-> 0] /\ to = [t \in Tasks |-> 0]
        /\ owned = [t \in Tasks |-> {}] /\ lost = {} /\ allocs = 0
        /\ stack = [b \in Buckets |-> <<>>] /\ mixed = FALSE

Enter(t) == /\ pc[t] = "idle"
            /\ mixed' = (mixed \/ \E u \in Tasks : pc[u] # "idle")
At(t, l)   == pc[t] = l
Goto(t, l) == pc' = [pc EXCEPT ![t] = l]

\* The smallest bucket that is large enough, or the size itself.
Rounded(n) == LET fits == {b \in Buckets : n <= b}
              IN  IF fits = {} THEN n ELSE CHOOSE b \in fits : \A c \in fits : b <= c

-----------------------------------------------------------------------------
(* kernel_allocate.                                                        *)

Call(t, n) ==
    /\ Enter(t) /\ allocs < MaxAllocs /\ allocs' = allocs + 1
    /\ size' = [size EXCEPT ![t] = Rounded(n)]
    /\ Goto(t, "look")
    /\ UNCHANGED <<heapVars, hdr, free_list, h, to, owned, lost, stack>>

\* The first block of the bucket's free list, if there is one.
Look(t) ==
    /\ At(t, "look")
    /\ IF size[t] \in Buckets /\ free_list[size[t]] # Null
         THEN h' = [h EXCEPT ![t] = free_list[size[t]]] /\ Goto(t, "pop")
         ELSE Goto(t, "carve") /\ UNCHANGED h
    /\ UNCHANGED <<heapVars, hdr, free_list, size, to, owned, lost, allocs, stack, mixed>>

\* The block handed out and left on the list.
PopKeep(t) ==
    /\ At(t, "pop") /\ Goto(t, "finish")
    /\ stack' = [stack EXCEPT ![size[t]] = IF @ = <<>> THEN @ ELSE Tail(@)]
    /\ UNCHANGED <<heapVars, hdr, free_list, h, size, to, owned, lost, allocs, mixed>>

Pop(t) ==
    /\ At(t, "pop")
    /\ free_list' = [free_list EXCEPT ![size[t]] = hdr[h[t]].next]
    /\ stack' = [stack EXCEPT ![size[t]] = IF @ = <<>> THEN @ ELSE Tail(@)]
    /\ Goto(t, "finish")
    /\ UNCHANGED <<heapVars, hdr, h, size, to, owned, lost, allocs, mixed>>

\* The end of the region compared with the start of the new block.
CarveLate(t) ==
    /\ At(t, "carve")
    /\ LET new == (s_pNextBlock + Header + size[t]) % AddrSpace
       IN  IF \/ new <= s_pNextBlock
              \/ s_pNextBlock >= (s_pBlockLimit - s_nBlockReserve) % AddrSpace
             THEN /\ s_nBlockReserve' = 0 /\ Goto(t, "idle") /\ UNCHANGED <<h, to>>
             ELSE /\ h' = [h EXCEPT ![t] = s_pNextBlock]
                  /\ to' = [to EXCEPT ![t] = new]
                  /\ Goto(t, "advance") /\ UNCHANGED s_nBlockReserve
    /\ UNCHANGED <<s_pNextBlock, s_pBlockLimit, hdr, free_list, size, owned, lost,
                   allocs, stack, mixed>>

\* A new block from the end of the used part.  The first call that does not
\* fit gives up the reserve and returns 0; a later one may use it.
Carve(t) ==
    /\ At(t, "carve")
    /\ LET new == (s_pNextBlock + Header + size[t]) % AddrSpace
       IN  IF \/ new <= s_pNextBlock
              \/ new > (s_pBlockLimit - s_nBlockReserve) % AddrSpace
             THEN /\ s_nBlockReserve' = 0 /\ Goto(t, "idle") /\ UNCHANGED <<h, to>>
             ELSE /\ h' = [h EXCEPT ![t] = s_pNextBlock]
                  /\ to' = [to EXCEPT ![t] = new]
                  /\ Goto(t, "advance") /\ UNCHANGED s_nBlockReserve
    /\ UNCHANGED <<s_pNextBlock, s_pBlockLimit, hdr, free_list, size, owned, lost,
                   allocs, stack, mixed>>

Advance(t) ==
    /\ At(t, "advance")
    /\ s_pNextBlock' = to[t]
    /\ hdr' = [a \in DOMAIN hdr \cup {h[t]} |->
                 IF a = h[t] THEN [size |-> size[t], next |-> Null] ELSE hdr[a]]
    /\ Goto(t, "finish")
    /\ UNCHANGED <<s_pBlockLimit, s_nBlockReserve, free_list, h, size, to, owned, lost,
                   allocs, stack, mixed>>

Finish(t) ==
    /\ At(t, "finish")
    /\ hdr' = [hdr EXCEPT ![h[t]].next = Null]
    /\ owned' = [owned EXCEPT ![t] = @ \cup {h[t]}]
    /\ h' = [h EXCEPT ![t] = Null] /\ Goto(t, "idle")
    /\ UNCHANGED <<heapVars, free_list, size, to, lost, allocs, stack, mixed>>

-----------------------------------------------------------------------------
(* kernel_deallocate: the block is put in front of its bucket's list; one  *)
(* without a bucket is forgotten.                                          *)

\* The rest of the list dropped: next is left as kernel_allocate cleared it.
FreeAlone(t, a) ==
    /\ Enter(t) /\ a \in owned[t]
    /\ owned' = [owned EXCEPT ![t] = @ \ {a}]
    /\ IF hdr[a].size \in Buckets
         THEN /\ h' = [h EXCEPT ![t] = a]
              /\ size' = [size EXCEPT ![t] = hdr[a].size]
              /\ Goto(t, "link") /\ UNCHANGED lost
         ELSE lost' = lost \cup {a} /\ UNCHANGED <<h, size, pc>>
    /\ UNCHANGED <<heapVars, hdr, free_list, to, allocs, stack>>

Free(t, a) ==
    /\ Enter(t) /\ a \in owned[t]
    /\ owned' = [owned EXCEPT ![t] = @ \ {a}]
    /\ IF hdr[a].size \in Buckets
         THEN /\ hdr' = [hdr EXCEPT ![a].next = free_list[hdr[a].size]]
              /\ h' = [h EXCEPT ![t] = a]
              /\ size' = [size EXCEPT ![t] = hdr[a].size]
              /\ Goto(t, "link") /\ UNCHANGED lost
         ELSE lost' = lost \cup {a} /\ UNCHANGED <<hdr, h, size, pc>>
    /\ UNCHANGED <<heapVars, free_list, to, allocs, stack>>

FreeLink(t) ==
    /\ At(t, "link")
    /\ free_list' = [free_list EXCEPT ![size[t]] = h[t]]
    /\ stack' = [stack EXCEPT ![size[t]] = <<h[t]>> \o @]
    /\ h' = [h EXCEPT ![t] = Null] /\ Goto(t, "idle")
    /\ UNCHANGED <<heapVars, hdr, size, to, owned, lost, allocs, mixed>>

-----------------------------------------------------------------------------
Next == \E t \in Tasks : \/ \E n \in Requests : Call(t, n)
                         \/ Look(t) \/ Pop(t) \/ Carve(t) \/ Advance(t) \/ Finish(t)
                         \/ \E a \in owned[t] : Free(t, a)
                         \/ FreeLink(t)

Spec == Init /\ [][Next]_vars

-----------------------------------------------------------------------------
(* Properties.                                                             *)

Blocks == DOMAIN hdr
End(a) == a + Header + hdr[a].size

Sizes  == Requests \cup Buckets

TypeOK == /\ s_pNextBlock \in Nat /\ s_pBlockLimit \in Nat /\ s_nBlockReserve \in Nat
          /\ Blocks \subseteq Nat
          /\ hdr \in [Blocks -> [size : Sizes, next : Blocks \cup {Null}]]
          /\ free_list \in [Buckets -> Blocks \cup {Null}]
          /\ pc \in [Tasks -> {"idle", "look", "pop", "carve", "advance", "finish", "link"}]
          /\ h \in [Tasks -> Nat \cup {Null}] /\ to \in [Tasks -> Nat]
          /\ size \in [Tasks -> Sizes \cup {0}]
          /\ owned \in [Tasks -> SUBSET Blocks]

\* No block reaches outside the frames kernel_alloc_init asked for, between
\* the "start" and the "end" it prints (kernel_alloc.c:67).
HeapContained == \A a \in Blocks : Base <= a /\ End(a) <= Base + Size

\* A size of the heap for which kernel_alloc_init computes the limit it means.
SaneHeap == /\ PageReserve + BlockReserve <= Size
            /\ Base + Size < AddrSpace
            /\ \A n \in Sizes : Header + n < AddrSpace

\* The inductive invariant behind HeapContained: what a task carves and has
\* not written back yet ends before the limit too, whoever interrupts it.
LimitInv == /\ s_pBlockLimit = Base + Size - PageReserve
            /\ s_nBlockReserve \in {0, BlockReserve}
            /\ Base <= s_pNextBlock /\ s_pNextBlock <= s_pBlockLimit
BlockInv == \A a \in Blocks : Base <= a /\ End(a) <= s_pBlockLimit
CallInv ==
    \A t \in Tasks :
       /\ pc[t] \in {"look", "pop", "carve", "advance"} => size[t] \in Sizes
       /\ pc[t] \in {"pop", "finish", "link"} => h[t] \in Blocks
       /\ pc[t] = "advance" => /\ h[t] \in Nat /\ Base <= h[t]
                               /\ to[t] = h[t] + Header + size[t]
                               /\ to[t] <= s_pBlockLimit
HeapInv == TypeOK /\ LimitInv /\ BlockInv /\ CallInv

\* Each free list is the chain of the blocks freed into that bucket and not
\* taken again, last freed first, unless two calls were mixed.
FreeListShape ==
    \A b \in Buckets :
       LET s == stack[b]
           after(i) == IF i = Len(s) THEN Null ELSE s[i + 1]
       IN  mixed \/ /\ free_list[b] = after(0)
                    /\ \A i \in 1..Len(s) : hdr[s[i]] = [size |-> b, next |-> after(i)]

\* How many parties have block a: its owners, the calls that hold it between
\* two steps, the free lists, and those who dropped it for good.
Holders(a) ==
    Cardinality({t \in Tasks : a \in owned[t]})
  + Cardinality({t \in Tasks : pc[t] \in {"finish", "link"} /\ h[t] = a})
  + Cardinality({p \in UNION {{b} \X DOMAIN stack[b] : b \in Buckets} : stack[p[1]][p[2]] = a})
  + (IF a \in lost THEN 1 ELSE 0)

\* Unless two calls were mixed, every block has exactly one holder, and no
\* two blocks overlap: memory is neither handed out twice nor lost.
NothingSharedOrLost ==
    mixed \/ /\ \A a \in Blocks : Holders(a) = 1
             /\ \A a, b \in Blocks : a < b => End(a) <= b
=============================================================================
