------------------------------ MODULE FrameFifo ------------------------------
(***************************************************************************)
(* What a net_queue promises its two users (include/net/net_queue.h): the  *)
(* frames come out in the order they went in, each once and unchanged, and *)
(* a dequeue that finds nothing says so.                                   *)
(***************************************************************************)
EXTENDS Sequences

CONSTANTS Frames,   \* the frames that can be queued
          Empty     \* what a dequeue of an empty queue returns (length 0)

VARIABLES pending,  \* the frames in the queue, oldest first
          last      \* what the last completed dequeue returned

fifoVars == <<pending, last>>

FifoInit == pending = <<>> /\ last = Empty

Put(f) == pending' = Append(pending, f) /\ UNCHANGED last

Get == /\ pending # <<>>
       /\ last' = Head(pending)
       /\ pending' = Tail(pending)

GetNothing == pending = <<>> /\ last' = Empty /\ UNCHANGED pending

\* flush_nqueue throws the oldest frame away.
Drop == pending # <<>> /\ pending' = Tail(pending) /\ UNCHANGED last

FifoNext == (\E f \in Frames : Put(f)) \/ Get \/ GetNothing \/ Drop

FifoSpec == FifoInit /\ [][FifoNext]_fifoVars
=============================================================================
