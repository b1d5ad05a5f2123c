----------------------------- MODULE FrameAlloc -----------------------------
(***************************************************************************)
(* src/frame_alloc.c: the allocator of page frames.                        *)
(*                                                                         *)
(* frame_bits_array has one bit per frame, WordBits of them in a word; the *)
(* searches go through words, and their bounds mix up words, frames and    *)
(* bytes as the code does.  A frame is named by its index; frame 0 belongs *)
(* to the kernel, so 0 also says that nothing was found.  Every call runs  *)
(* with preemption off (create_task) or before the scheduler starts.       *)
(***************************************************************************)
EXTENDS Integers, FiniteSets, FiniteSetsExt

CONSTANTS WordBits,      \* 32 in the code
          TotalFrames,   \* total_frames
          KernelFrames,  \* kernel_usage + frame_manager_usage
          Requests,      \* numbers of frames that are asked for
          Stale,         \* frames whose bit may be set in the memory not cleared
          AfterArray     \* what the memory after the array holds, read as bits:
                         \* a set of sets of frame indexes

Words == TotalFrames \div WordBits

\* bzero is given the number of words as a number of bytes.
ClearedFrames == 0..((Words \div 4) * WordBits - 1)
Frames  == 0..(TotalFrames - 1)
Indexes == 0..(TotalFrames * WordBits - 1)    \* words 0..TotalFrames-1 are searched

FrameConstants ==
    /\ WordBits \in Nat \ {0} /\ TotalFrames \in Nat /\ TotalFrames % WordBits = 0
    /\ KernelFrames \in WordBits..TotalFrames /\ Requests \subseteq Nat \ {0}
    /\ Stale \subseteq Frames \ ClearedFrames
    /\ AfterArray \subseteq SUBSET (Indexes \ Frames)

VARIABLES used,       \* the bits that are set, in the array and after it
          available,  \* available_frames
          next_idx,   \* the word the next search begins with
          holders,    \* how many callers have each frame
          stale,      \* auxiliary: the bits in use by nobody that were not cleared
          spanned,    \* auxiliary: an allocation reached across a full word
          beyond      \* auxiliary: a frame after the last one was handed out

vars == <<used, available, next_idx, holders, stale, spanned, beyond>>

WordOf(f) == f \div WordBits        \* FRAME_BYTE_IDX

\* init_frame_manager.
Init == /\ stale \in SUBSET (Stale \ 0..(KernelFrames - 1))
        /\ \E m \in AfterArray : used = 0..(KernelFrames - 1) \cup stale \cup m
        /\ available = TotalFrames - KernelFrames
        /\ next_idx = WordOf(KernelFrames) + 1
        /\ holders = [f \in Indexes |-> 0]
        /\ spanned = FALSE /\ beyond = FALSE

-----------------------------------------------------------------------------
\* The frames a search from word lo to word hi looks at: it skips full words.
Visible(lo, hi) ==
    {f \in Indexes : /\ WordOf(f) \in lo..(hi - 1)
                     /\ \E g \in Indexes : WordOf(g) = WordOf(f) /\ g \notin used}

\* The k frames of v from f on.
Run(v, f, k) == {g \in v : g >= f /\ Cardinality({x \in v : x >= f /\ x < g}) < k}

\* find_contiguous_frames_in_ranges: the first frame from which k free frames
\* follow each other, a full word between two of them not being noticed.
ContiguousIn(lo, hi, k) ==
    LET v == Visible(lo, hi)
        starts == {f \in v \ used : /\ Cardinality(Run(v, f, k)) = k
                                    /\ Run(v, f, k) \cap used = {}}
    IN  IF starts = {} THEN 0 ELSE Min(starts)

\* find_contiguous_frames, and find_free_frame when k = 1: from next_idx to
\* the end, then from the start to next_idx.  Both bounds that count frames
\* are used as numbers of words.
Find(k) ==
    LET f == ContiguousIn(next_idx, TotalFrames, k)
    IN  IF f = 0 /\ available >= k THEN ContiguousIn(KernelFrames, next_idx - 1, k) ELSE f

\* The count of free frames not kept up.
MarkOnly(f, k) ==
    /\ used' = used \cup f..(f + k - 1)
    /\ next_idx' = WordOf(f + k - 1)
    /\ UNCHANGED available

\* Only the last frame marked.
MarkLast(f, k) ==
    /\ used' = used \cup {f + k - 1}
    /\ available' = available - k
    /\ next_idx' = WordOf(f + k - 1)

\* mark_as_used of k frames from f on.
Mark(f, k) ==
    /\ used' = used \cup f..(f + k - 1)
    /\ available' = available - k
    /\ next_idx' = WordOf(f + k - 1)

\* alloc_frame (k = 1) and alloc_contiguous_frames.  When nothing is found they
\* change nothing, even if frames are available.
Alloc(k) ==
    /\ available >= k
    /\ \E f \in {Find(k)} \ {0} :
          /\ Mark(f, k)
          /\ holders' = [g \in Indexes |-> IF g \in f..(f + k - 1) THEN holders[g] + 1
                                                                ELSE holders[g]]
          /\ spanned' = (spanned \/ Run(Visible(0, TotalFrames), f, k) # f..(f + k - 1))
          /\ beyond' = (beyond \/ f + k > TotalFrames)
    /\ UNCHANGED stale

\* dealloc_frame of a frame some caller has.  The frame after the kernel's is
\* refused too.
Dealloc(f) ==
    /\ holders[f] > 0 /\ f > KernelFrames
    /\ used' = used \ {f} /\ available' = available + 1
    /\ next_idx' = WordOf(f)
    /\ holders' = [holders EXCEPT ![f] = @ - 1]
    /\ UNCHANGED <<stale, spanned, beyond>>

\* dealloc_cont_frames frees from the last frame to the first: one Dealloc each.
Next == \/ \E k \in Requests : Alloc(k)
        \/ \E f \in Indexes : Dealloc(f)

Spec == Init /\ [][Next]_vars

-----------------------------------------------------------------------------
(* Properties.                                                             *)

\* No frame is given to two callers, unless an allocation of several frames
\* reached across a full word.
NotSharedUnlessSpanned == spanned \/ \A f \in Indexes : holders[f] <= 1

\* The bits and the count agree with what callers have: every frame that is
\* marked is the kernel's, somebody's, or one whose bit was not cleared, and
\* available_frames counts the rest and these.  Allocations across a full word
\* or after the last frame upset the books.
BooksBalance ==
    \/ spanned \/ beyond
    \/ /\ used \cap Frames = {f \in Frames : f < KernelFrames \/ holders[f] > 0} \cup stale
       /\ available = Cardinality(Frames \ used) + Cardinality(stale)

\* The states from which a run goes on: past the others both properties above
\* say nothing.
Sound == ~spanned /\ ~beyond
=============================================================================
