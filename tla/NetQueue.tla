------------------------------ MODULE NetQueue ------------------------------
(***************************************************************************)
(* src/net_queue.c: the doubly linked frame queue between two tasks.       *)
(*                                                                         *)
(* Every queue of the system (frame_receive_queue, rx_net_queue and        *)
(* scan_results_queue) has one producing and one consuming task.  The      *)
(* kernel preempts a task at any instruction unless interrupts are masked, *)
(* so each action below is one stretch of code between two points where    *)
(* the other task may see the shared state; lock() masks interrupts on the *)
(* only core in use, which keeps the other task from running at all.       *)
(*                                                                         *)
(* A frame stands for the buffer, its length and the pParam kept with it.  *)
(***************************************************************************)
EXTENDS Naturals, Sequences, FiniteSets

CONSTANTS Entries,     \* addresses kernel_allocate can return for an entry
          Null,        \* the null pointer
          Frames,      \* frames with 0 < nLength <= FRAME_BUFFER_SIZE
          BadFrames,   \* frames the length or null-buffer check rejects
          Empty,       \* the result of a dequeue that returned length 0
          MaxCalls     \* bound: calls of enqueue_nqueue

ASSUME QueueConstants == /\ Null \notin Entries
                         /\ Empty \notin Frames
                         /\ Frames \cap BadFrames = {}
                         /\ MaxCalls \in Nat

VARIABLES head, tail,   \* net_queue_t
          next, prev,   \* the links of every entry
          data,         \* the frame held by every entry
          alloc,        \* entries handed out by kernel_allocate, not freed
          masked,       \* the task that runs with interrupts masked, or "none"
          pPc, pEntry,  \* the producer: where it is, its local pEntry
          cPc, cEntry, cBuf,  \* the consumer: where it is, pEntry, caller's buffer
          last,         \* what the last completed dequeue returned
          calls,        \* number of enqueue_nqueue calls so far
          order,        \* auxiliary: the entries in the queue, oldest first
          leaked        \* auxiliary: entries allocated for rejected frames

queueVars == <<head, tail, next, prev, data, alloc, order>>
prodVars  == <<pPc, pEntry, calls, leaked>>
consVars  == <<cPc, cEntry, cBuf, last>>
vars == <<queueVars, prodVars, consVars, masked>>

-----------------------------------------------------------------------------
\* get_new_net_queue: an empty queue.
Init == /\ head = Null /\ tail = Null
        /\ next = [e \in Entries |-> Null]
        /\ prev = [e \in Entries |-> Null]
        /\ data \in [Entries -> Frames]      \* heap memory is not cleared
        /\ alloc = {} /\ order = <<>> /\ leaked = {}
        /\ masked = "none"
        /\ pPc = "idle" /\ pEntry = Null /\ calls = 0
        /\ cPc = "idle" /\ cEntry = Null /\ cBuf = Empty /\ last = Empty

\* A task can take a step only while the other has not masked interrupts.
MayRun(t) == masked \in {"none", t}

\* A lock() that only sets the lock word.
UnmaskedLock(t) == MayRun(t) /\ UNCHANGED masked

\* lock(): masks interrupts without looking at the lock word.
Lock(t)   == MayRun(t) /\ masked' = t

\* unlock(): enables interrupts whatever their state was.
Unlock(t) == MayRun(t) /\ masked' = "none"

-----------------------------------------------------------------------------
(* The producer: enqueue_nqueue.                                           *)

\* kernel_allocate finds no memory: the frame is dropped.
EnqueueNoMemory ==
    /\ MayRun("p") /\ pPc = "idle" /\ calls < MaxCalls
    /\ alloc = Entries
    /\ calls' = calls + 1
    /\ UNCHANGED <<queueVars, consVars, masked, pPc, pEntry, leaked>>

\* The entry is allocated before the length and the buffer are checked, and
\* the early returns do not give it back.
EnqueueRejected ==
    /\ MayRun("p") /\ pPc = "idle" /\ calls < MaxCalls
    /\ BadFrames # {}
    /\ \E e \in Entries \ alloc :
          /\ alloc' = alloc \cup {e}
          /\ leaked' = leaked \cup {e}
          /\ next' \in {next, [next EXCEPT ![e] = Null]}
          /\ prev' = IF next' = next THEN prev ELSE [prev EXCEPT ![e] = Null]
    /\ calls' = calls + 1
    /\ UNCHANGED <<head, tail, data, order, consVars, masked, pPc, pEntry>>

\* The frame is copied into a new entry.
EnqueueFill ==
    /\ MayRun("p") /\ pPc = "idle" /\ calls < MaxCalls
    /\ \E e \in Entries \ alloc, f \in Frames :
          /\ alloc' = alloc \cup {e}
          /\ pEntry' = e
          /\ next' = [next EXCEPT ![e] = Null]
          /\ prev' = [prev EXCEPT ![e] = Null]
          /\ data' = [data EXCEPT ![e] = f]
    /\ pPc' = "lock" /\ calls' = calls + 1
    /\ UNCHANGED <<head, tail, order, leaked, consVars, masked>>

EnqueueLock ==
    /\ pPc = "lock" /\ Lock("p")
    /\ pPc' = "link"
    /\ UNCHANGED <<queueVars, consVars, pEntry, calls, leaked>>

\* First half of the critical section: the entry is tied to the old tail.
EnqueueLink ==
    /\ MayRun("p") /\ pPc = "link"
    /\ IF tail = Null
         THEN tail' = pEntry /\ UNCHANGED <<next, prev>>
         ELSE /\ prev' = [prev EXCEPT ![pEntry] = tail]
              /\ next' = [next EXCEPT ![tail] = pEntry]
              /\ UNCHANGED tail
    /\ pPc' = "publish"
    /\ UNCHANGED <<head, data, alloc, order, consVars, masked, pEntry, calls, leaked>>

\* A tail that is not moved when the queue already holds an entry.
PublishTailKept ==
    /\ MayRun("p") /\ pPc = "publish"
    /\ IF tail = pEntry THEN head' = tail /\ UNCHANGED tail
                        ELSE UNCHANGED <<head, tail>>
    /\ order' = Append(order, pEntry)
    /\ pPc' = "unlock"
    /\ UNCHANGED <<next, prev, data, alloc, consVars, masked, pEntry, calls, leaked>>

\* A first entry that only tail leads to.
PublishNoHead ==
    /\ MayRun("p") /\ pPc = "publish"
    /\ tail' = pEntry
    /\ order' = Append(order, pEntry)
    /\ pPc' = "unlock"
    /\ UNCHANGED <<head, next, prev, data, alloc, consVars, masked, pEntry, calls, leaked>>

\* Second half: head (first entry) or tail (any other) is moved.
EnqueuePublish ==
    /\ MayRun("p") /\ pPc = "publish"
    /\ IF tail = pEntry THEN head' = tail /\ UNCHANGED tail
                        ELSE tail' = pEntry /\ UNCHANGED head
    /\ order' = Append(order, pEntry)
    /\ pPc' = "unlock"
    /\ UNCHANGED <<next, prev, data, alloc, consVars, masked, pEntry, calls, leaked>>

EnqueueUnlock ==
    /\ pPc = "unlock" /\ Unlock("p")
    /\ pPc' = "idle" /\ pEntry' = Null
    /\ UNCHANGED <<queueVars, consVars, calls, leaked>>

-----------------------------------------------------------------------------
(* The consumer: dequeue_nqueue and flush_nqueue.                          *)

\* is_empty_nqueue, outside the lock.
DequeueCheck ==
    /\ MayRun("c") /\ cPc = "idle"
    /\ IF head = Null THEN last' = Empty /\ UNCHANGED cPc
                      ELSE cPc' = "copy" /\ UNCHANGED last
    /\ UNCHANGED <<queueVars, prodVars, masked, cEntry, cBuf>>

\* The head entry is read and copied, still outside the lock.
DequeueCopy ==
    /\ MayRun("c") /\ cPc = "copy"
    /\ cEntry' = head /\ cBuf' = data[head]
    /\ cPc' = "lock"
    /\ UNCHANGED <<queueVars, prodVars, masked, last>>

DequeueLock ==
    /\ cPc = "lock" /\ Lock("c")
    /\ cPc' = "unlink"
    /\ UNCHANGED <<queueVars, prodVars, cEntry, cBuf, last>>

\* The successor decided before lock(): a frame linked in between is lost.
UnlinkStale ==
    /\ MayRun("c") /\ cPc = "unlink"
    /\ alloc' = alloc \ {head}
    /\ cEntry' = IF Len(order) > 2 THEN next[cEntry] ELSE Null
    /\ head' = IF cEntry' # Null THEN head ELSE Null
    /\ cPc' = "advance"
    /\ UNCHANGED <<tail, next, prev, data, order, prodVars, masked, cBuf, last>>

\* First half of the critical section: the head is freed; when it was the
\* only entry head becomes null.
DequeueUnlink ==
    /\ MayRun("c") /\ cPc = "unlink"
    /\ alloc' = alloc \ {head}
    /\ cEntry' = next[cEntry]
    /\ head' = IF next[cEntry] # Null THEN head ELSE Null
    /\ cPc' = "advance"
    /\ UNCHANGED <<tail, next, prev, data, order, prodVars, masked, cBuf, last>>

\* Second half: the successor becomes the head, or tail becomes null.
DequeueAdvance ==
    /\ MayRun("c") /\ cPc = "advance"
    /\ IF cEntry # Null
         THEN prev' = [prev EXCEPT ![cEntry] = Null] /\ head' = cEntry /\ UNCHANGED tail
         ELSE tail' = Null /\ UNCHANGED <<prev, head>>
    /\ order' = Tail(order) /\ last' = cBuf
    /\ cPc' = "unlock"
    /\ UNCHANGED <<next, data, alloc, prodVars, masked, cEntry, cBuf>>

DequeueUnlock ==
    /\ cPc = "unlock" /\ Unlock("c")
    /\ cPc' = "idle" /\ cEntry' = Null
    /\ UNCHANGED <<queueVars, prodVars, cBuf, last>>

\* The loop test of flush_nqueue; every pass removes one entry.
FlushCheck ==
    /\ MayRun("c") /\ cPc \in {"idle", "flush"}
    /\ cPc' = IF head # Null THEN "flock" ELSE "idle"
    /\ UNCHANGED <<queueVars, prodVars, masked, cEntry, cBuf, last>>

FlushLock ==
    /\ cPc = "flock" /\ Lock("c")
    /\ cPc' = "funlink"
    /\ UNCHANGED <<queueVars, prodVars, cEntry, cBuf, last>>

FlushUnlink ==
    /\ MayRun("c") /\ cPc = "funlink"
    /\ cEntry' = head /\ head' = next[head]
    /\ cPc' = "frelink"
    /\ UNCHANGED <<tail, next, prev, data, alloc, order, prodVars, masked, cBuf, last>>

FlushRelink ==
    /\ MayRun("c") /\ cPc = "frelink"
    /\ IF head # Null
         THEN prev' = [prev EXCEPT ![head] = Null] /\ UNCHANGED tail
         ELSE tail' = Null /\ UNCHANGED prev
    /\ order' = Tail(order)
    /\ cPc' = "funlock"
    /\ UNCHANGED <<head, next, data, alloc, prodVars, masked, cEntry, cBuf, last>>

FlushUnlock ==
    /\ cPc = "funlock" /\ Unlock("c")
    /\ cPc' = "ffree"
    /\ UNCHANGED <<queueVars, prodVars, cEntry, cBuf, last>>

\* flush_nqueue without the final kernel_deallocate.
FlushNoFree ==
    /\ MayRun("c") /\ cPc = "ffree"
    /\ cEntry' = Null /\ cPc' = "flush"
    /\ UNCHANGED <<queueVars, prodVars, masked, cBuf, last>>

\* Unlike dequeue_nqueue, flush_nqueue frees the entry after unlock().
FlushFree ==
    /\ MayRun("c") /\ cPc = "ffree"
    /\ alloc' = alloc \ {cEntry}
    /\ cEntry' = Null /\ cPc' = "flush"
    /\ UNCHANGED <<head, tail, next, prev, data, order, prodVars, masked, cBuf, last>>

-----------------------------------------------------------------------------
EnqueueStart == EnqueueNoMemory \/ EnqueueRejected \/ EnqueueFill
EnqueueRest  == EnqueueLock \/ EnqueueLink \/ EnqueuePublish \/ EnqueueUnlock
Dequeue == \/ DequeueCheck \/ DequeueCopy \/ DequeueLock \/ DequeueUnlink
           \/ DequeueAdvance \/ DequeueUnlock
Flush == FlushCheck \/ FlushLock \/ FlushUnlink \/ FlushRelink \/ FlushUnlock \/ FlushFree

Next == EnqueueStart \/ EnqueueRest \/ Dequeue \/ Flush

Spec == Init /\ [][Next]_vars

\* The scheduler runs every ready task again and again; a task in the middle
\* of an enqueue goes on, and the consuming task polls its queue for ever.
Fairness == WF_vars(EnqueueRest) /\ WF_vars(Dequeue \/ Flush)
FairSpec == Spec /\ Fairness

-----------------------------------------------------------------------------
(* Properties.                                                             *)

InProducer == {"idle", "lock", "link", "publish", "unlock"}
InConsumer == {"idle", "copy", "lock", "unlink", "advance", "unlock", "flush",
               "flock", "funlink", "frelink", "funlock", "ffree"}

TypeOK == /\ head \in Entries \cup {Null}
          /\ tail \in Entries \cup {Null}
          /\ next \in [Entries -> Entries \cup {Null}]
          /\ prev \in [Entries -> Entries \cup {Null}]
          /\ data \in [Entries -> Frames]
          /\ alloc \in SUBSET Entries
          /\ leaked \in SUBSET Entries
          /\ order \in Seq(Entries)
          /\ masked \in {"none", "p", "c"}
          /\ pPc \in InProducer /\ pEntry \in Entries \cup {Null}
          /\ cPc \in InConsumer /\ cEntry \in Entries \cup {Null}
          /\ cBuf \in Frames \cup {Empty} /\ last \in Frames \cup {Empty}
          /\ calls \in 0..MaxCalls

\* Whenever interrupts are enabled the entries form one doubly linked list
\* from head to tail, as enqueue, dequeue and flush assume on entry.
ListShape ==
    masked = "none" =>
      /\ (head = Null) <=> (order = <<>>)
      /\ (tail = Null) <=> (order = <<>>)
      /\ order # <<>> => /\ head = order[1] /\ prev[head] = Null
                         /\ tail = order[Len(order)] /\ next[tail] = Null
      /\ \A i \in 1..(Len(order) - 1) : /\ next[order[i]] = order[i + 1]
                                        /\ prev[order[i + 1]] = order[i]

\* Every allocated entry is queued, in the hands of one of the two tasks, or
\* belongs to a rejected frame: nothing else is lost and nothing is freed
\* while somebody can still reach it.
HeldByProducer == IF pPc \in {"lock", "link", "publish"} THEN {pEntry} ELSE {}
HeldByConsumer == IF cPc \in {"funlock", "ffree"} THEN {cEntry} ELSE {}
Queued == {order[i] : i \in 1..Len(order)}
Accounting ==
    masked = "none" => alloc = Queued \cup HeldByProducer \cup HeldByConsumer \cup leaked

\* The inductive invariant behind these properties: where the two tasks are
\* determines which links of the list are complete, and the copy the consumer
\* made before lock() is still the frame at the head.
MaskInv ==
    /\ masked = "p" <=> pPc \in {"link", "publish", "unlock"}
    /\ masked = "c" <=> cPc \in {"unlink", "advance", "unlock",
                                 "funlink", "frelink", "funlock"}

OrderInv ==
    /\ \A i, j \in 1..Len(order) : order[i] = order[j] => i = j
    /\ \A i \in 1..Len(order) :
          /\ order[i] \notin leaked
          /\ order[i] \in alloc <=> ~(i = 1 /\ cPc = "advance")
    /\ leaked \subseteq alloc

LinkInv ==
    /\ \A i \in 1..(Len(order) - 1) : /\ next[order[i]] = order[i + 1]
                                      /\ prev[order[i + 1]] = order[i]
    /\ order # <<>> =>
          /\ prev[order[1]] = Null
          /\ next[order[Len(order)]] = IF pPc = "publish" THEN pEntry ELSE Null
          /\ tail = order[Len(order)]
          /\ cPc \notin {"advance", "frelink"} => head = order[1]
          /\ cPc = "advance" => head = IF cEntry = Null THEN Null ELSE order[1]
          /\ cPc = "frelink" => head = next[order[1]]
    /\ order = <<>> => /\ head = Null
                       /\ tail = IF pPc = "publish" THEN pEntry ELSE Null

ProducerInv ==
    /\ (pPc = "idle") <=> (pEntry = Null)
    /\ pPc \in {"lock", "link", "publish"} =>
          /\ pEntry \in alloc \ leaked
          /\ \A i \in 1..Len(order) : order[i] # pEntry
          /\ next[pEntry] = Null
    /\ pPc \in {"lock", "link"} => prev[pEntry] = Null
    /\ pPc = "publish" => prev[pEntry] = IF order = <<>> THEN Null ELSE tail

ConsumerInv ==
    /\ cPc \in {"copy", "lock", "unlink", "advance", "flock", "funlink", "frelink"}
          => order # <<>>
    /\ cPc \in {"lock", "unlink"} => cEntry = order[1]
    /\ cPc \in {"lock", "unlink", "advance"} => cBuf = data[order[1]]
    /\ cPc = "advance" => cEntry = next[order[1]]
    /\ cPc = "frelink" => cEntry = order[1]
    /\ cPc \in {"funlock", "ffree"} =>
          /\ cEntry \in alloc \ leaked
          /\ \A i \in 1..Len(order) : order[i] # cEntry
          /\ pPc \in {"lock", "link", "publish"} => pEntry # cEntry

\* Nothing is allocated that nobody holds.
AllocInv ==
    \A e \in alloc : \/ e \in leaked
                     \/ \E i \in 1..Len(order) : order[i] = e
                     \/ pPc \in {"lock", "link", "publish"} /\ e = pEntry
                     \/ cPc \in {"funlock", "ffree"} /\ e = cEntry

QueueInv == /\ TypeOK /\ MaskInv /\ OrderInv /\ LinkInv
            /\ ProducerInv /\ ConsumerInv /\ AllocInv

\* The queue implements the FIFO of frames: the length-0 answer is given only
\* when nothing is queued ("returns length (0 if queue is empty)",
\* net_queue.c:76), and the copy made before lock() is the frame removed.
Fifo == INSTANCE FrameFifo WITH pending <- [i \in 1..Len(order) |-> data[order[i]]]
FifoSpec == Fifo!FifoSpec

\* No frame stays in the queue for ever while its consumer keeps polling.
Drains == \A e \in Entries : (e \in Queued) ~> (e \notin Queued)
=============================================================================
