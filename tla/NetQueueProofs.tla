--------------------------- MODULE NetQueueProofs ---------------------------
(***************************************************************************)
(* Proofs about net_queue.c for any number of entries, frames and calls:   *)
(* the inductive invariant, the list shape and the accounting of entries   *)
(* it implies, and the refinement of the FIFO.                             *)
(***************************************************************************)
EXTENDS NetQueue, SequenceTheorems, TLAPS

\* What appending one element does to the length and the elements.
LEMMA AppendFacts ==
  ASSUME NEW S, NEW s \in Seq(S), NEW e \in S
  PROVE  /\ Append(s, e) \in Seq(S)
         /\ Len(Append(s, e)) = Len(s) + 1
         /\ Append(s, e) # <<>>
         /\ Append(s, e)[Len(s) + 1] = e
         /\ \A i \in 1..Len(s) : Append(s, e)[i] = s[i]
  OBVIOUS

\* What removing the first element does to the length and the elements.
LEMMA TailFacts ==
  ASSUME NEW S, NEW s \in Seq(S), s # <<>>
  PROVE  /\ Tail(s) \in Seq(S)
         /\ Len(s) \in Nat /\ Len(s) >= 1
         /\ Len(Tail(s)) = Len(s) - 1
         /\ \A i \in 1..(Len(s) - 1) : Tail(s)[i] = s[i + 1]
         /\ \A i \in 1..Len(s) : s[i] \in S
         /\ Head(s) = s[1]
         /\ (Tail(s) = <<>>) <=> (Len(s) = 1)
<1>1. /\ Tail(s) \in Seq(S)
      /\ Len(s) \in Nat /\ Len(s) >= 1
      /\ Len(Tail(s)) = Len(s) - 1
      /\ \A i \in 1..(Len(s) - 1) : Tail(s)[i] = s[i + 1]
      /\ \A i \in 1..Len(s) : s[i] \in S
      /\ Head(s) = s[1]
  OBVIOUS
<1>2. (Tail(s) = <<>>) <=> (Len(Tail(s)) = 0)
  BY <1>1, EmptySeq
<1> QED
  BY <1>1, <1>2

\* The empty sequence is the one of length zero.
LEMMA LenFacts ==
  ASSUME NEW S, NEW s \in Seq(S)
  PROVE  /\ Len(s) \in Nat
         /\ (s = <<>>) <=> (Len(s) = 0)
         /\ \A i \in 1..Len(s) : s[i] \in S
  OBVIOUS

-----------------------------------------------------------------------------
\* Every step keeps every variable in its type.
LEMMA TypeStep == QueueInv /\ [Next]_vars => TypeOK'
<1> SUFFICES ASSUME QueueInv, [Next]_vars PROVE TypeOK'
  OBVIOUS
<1> USE QueueConstants
<1>0. TypeOK BY DEF QueueInv
<1>o. Len(order) \in Nat /\ \A i \in 1..Len(order) : order[i] \in Entries
  BY <1>0, LenFacts DEF TypeOK
<1>1. CASE EnqueueNoMemory
  BY <1>0, <1>1 DEF TypeOK, EnqueueNoMemory, queueVars, consVars, MayRun
<1>2. CASE EnqueueRejected
  BY <1>0, <1>2 DEF TypeOK, EnqueueRejected, consVars, MayRun
<1>3. CASE EnqueueFill
  BY <1>0, <1>3 DEF TypeOK, EnqueueFill, consVars, MayRun, InProducer
<1>4. CASE EnqueueLock
  BY <1>0, <1>4 DEF TypeOK, EnqueueLock, Lock, queueVars, consVars, MayRun, InProducer
<1>5. CASE EnqueueLink
  BY <1>0, <1>5 DEF TypeOK, EnqueueLink, consVars, MayRun, InProducer, QueueInv, ProducerInv
<1>6. CASE EnqueuePublish
  <2>1. pEntry \in Entries
    BY <1>0, <1>6 DEF TypeOK, EnqueuePublish, QueueInv, ProducerInv
  <2>2. order' \in Seq(Entries)
    BY <1>0, <1>6, <2>1, AppendFacts DEF TypeOK, EnqueuePublish
  <2> QED
    BY <1>0, <1>6, <2>1, <2>2 DEF TypeOK, EnqueuePublish, consVars, MayRun, InProducer
<1>7. CASE EnqueueUnlock
  BY <1>0, <1>7 DEF TypeOK, EnqueueUnlock, Unlock, queueVars, consVars, MayRun, InProducer
<1>8. CASE DequeueCheck
  BY <1>0, <1>8 DEF TypeOK, DequeueCheck, queueVars, prodVars, MayRun, InConsumer
<1>9. CASE DequeueCopy
  <2>1. head \in Entries
    BY <1>0, <1>9, <1>o, LenFacts DEF TypeOK, DequeueCopy, QueueInv, ConsumerInv, LinkInv
  <2> QED
    BY <1>0, <1>9, <2>1 DEF TypeOK, DequeueCopy, queueVars, prodVars, MayRun, InConsumer
<1>10. CASE DequeueLock
  BY <1>0, <1>10 DEF TypeOK, DequeueLock, Lock, queueVars, prodVars, MayRun, InConsumer
<1>11. CASE DequeueUnlink
  <2>1. cEntry \in Entries
    BY <1>0, <1>11, <1>o, LenFacts DEF TypeOK, DequeueUnlink, QueueInv, ConsumerInv
  <2> QED
    BY <1>0, <1>11, <2>1 DEF TypeOK, DequeueUnlink, prodVars, MayRun, InConsumer
<1>12. CASE DequeueAdvance
  <2>1. order' \in Seq(Entries)
    BY <1>0, <1>12, TailFacts DEF TypeOK, DequeueAdvance, QueueInv, ConsumerInv
  <2> QED
    BY <1>0, <1>12, <2>1 DEF TypeOK, DequeueAdvance, prodVars, MayRun, InConsumer
<1>13. CASE DequeueUnlock
  BY <1>0, <1>13 DEF TypeOK, DequeueUnlock, Unlock, queueVars, prodVars, MayRun, InConsumer
<1>14. CASE FlushCheck
  BY <1>0, <1>14 DEF TypeOK, FlushCheck, queueVars, prodVars, MayRun, InConsumer
<1>15. CASE FlushLock
  BY <1>0, <1>15 DEF TypeOK, FlushLock, Lock, queueVars, prodVars, MayRun, InConsumer
<1>16. CASE FlushUnlink
  <2>1. head \in Entries
    BY <1>0, <1>16, <1>o, LenFacts DEF TypeOK, FlushUnlink, QueueInv, ConsumerInv, LinkInv
  <2> QED
    BY <1>0, <1>16, <2>1 DEF TypeOK, FlushUnlink, prodVars, MayRun, InConsumer
<1>17. CASE FlushRelink
  <2>1. order' \in Seq(Entries)
    BY <1>0, <1>17, TailFacts DEF TypeOK, FlushRelink, QueueInv, ConsumerInv
  <2> QED
    BY <1>0, <1>17, <2>1 DEF TypeOK, FlushRelink, prodVars, MayRun, InConsumer
<1>18. CASE FlushUnlock
  BY <1>0, <1>18 DEF TypeOK, FlushUnlock, Unlock, queueVars, prodVars, MayRun, InConsumer
<1>19. CASE FlushFree
  BY <1>0, <1>19 DEF TypeOK, FlushFree, prodVars, MayRun, InConsumer
<1>20. CASE UNCHANGED vars
  BY <1>0, <1>20 DEF TypeOK, vars, queueVars, prodVars, consVars
<1> QED
  BY <1>1, <1>2, <1>3, <1>4, <1>5, <1>6, <1>7, <1>8, <1>9, <1>10, <1>11, <1>12,
     <1>13, <1>14, <1>15, <1>16, <1>17, <1>18, <1>19, <1>20
  DEF Next, EnqueueStart, EnqueueRest, Dequeue, Flush
-----------------------------------------------------------------------------
\* Every step keeps the rest of the inductive invariant.
LEMMA InvStep == QueueInv /\ [Next]_vars => QueueInv'
<1> SUFFICES ASSUME QueueInv, [Next]_vars PROVE QueueInv'
  OBVIOUS
<1> USE QueueConstants
<1>t. TypeOK' BY TypeStep
<1>0. TypeOK /\ MaskInv /\ OrderInv /\ LinkInv /\ ProducerInv /\ ConsumerInv /\ AllocInv
  BY DEF QueueInv
<1>l. /\ Len(order) \in Nat
      /\ (order = <<>>) <=> (Len(order) = 0)
      /\ \A i \in 1..Len(order) : order[i] \in Entries
  BY <1>0, LenFacts DEF TypeOK
<1> SUFFICES (MaskInv /\ OrderInv /\ LinkInv /\ ProducerInv /\ ConsumerInv /\ AllocInv)'
  BY <1>t DEF QueueInv
<1>1. CASE EnqueueNoMemory
  <2>1. MaskInv'
    BY <1>0, <1>l, <1>t, <1>1 DEF TypeOK, MaskInv, OrderInv, LinkInv, ProducerInv, ConsumerInv, AllocInv, EnqueueNoMemory, MayRun, queueVars, consVars
  <2>2. OrderInv'
    BY <1>0, <1>l, <1>t, <1>1 DEF TypeOK, MaskInv, OrderInv, LinkInv, ProducerInv, ConsumerInv, AllocInv, EnqueueNoMemory, MayRun, queueVars, consVars
  <2>3. LinkInv'
    BY <1>0, <1>l, <1>t, <1>1 DEF TypeOK, MaskInv, OrderInv, LinkInv, ProducerInv, ConsumerInv, AllocInv, EnqueueNoMemory, MayRun, queueVars, consVars
  <2>4. ProducerInv'
    BY <1>0, <1>l, <1>t, <1>1 DEF TypeOK, MaskInv, OrderInv, LinkInv, ProducerInv, ConsumerInv, AllocInv, EnqueueNoMemory, MayRun, queueVars, consVars
  <2>5. ConsumerInv'
    BY <1>0, <1>l, <1>t, <1>1 DEF TypeOK, MaskInv, OrderInv, LinkInv, ProducerInv, ConsumerInv, AllocInv, EnqueueNoMemory, MayRun, queueVars, consVars
  <2>6. AllocInv'
    BY <1>0, <1>l, <1>t, <1>1 DEF TypeOK, MaskInv, OrderInv, LinkInv, ProducerInv, ConsumerInv, AllocInv, EnqueueNoMemory, MayRun, queueVars, consVars
  <2> QED
    BY <2>1, <2>2, <2>3, <2>4, <2>5, <2>6
<1>2. CASE EnqueueRejected
  <2>1. MaskInv'
    BY <1>0, <1>l, <1>t, <1>2 DEF TypeOK, MaskInv, OrderInv, LinkInv, ProducerInv, ConsumerInv, AllocInv, EnqueueRejected, MayRun, consVars
  <2>2. OrderInv'
    BY <1>0, <1>l, <1>t, <1>2 DEF TypeOK, MaskInv, OrderInv, LinkInv, ProducerInv, ConsumerInv, AllocInv, EnqueueRejected, MayRun, consVars
  <2>3. LinkInv'
    BY <1>0, <1>l, <1>t, <1>2 DEF TypeOK, MaskInv, OrderInv, LinkInv, ProducerInv, ConsumerInv, AllocInv, EnqueueRejected, MayRun, consVars
  <2>4. ProducerInv'
    BY <1>0, <1>l, <1>t, <1>2 DEF TypeOK, MaskInv, OrderInv, LinkInv, ProducerInv, ConsumerInv, AllocInv, EnqueueRejected, MayRun, consVars
  <2>5. ConsumerInv'
    BY <1>0, <1>l, <1>t, <1>2 DEF TypeOK, MaskInv, OrderInv, LinkInv, ProducerInv, ConsumerInv, AllocInv, EnqueueRejected, MayRun, consVars
  <2>6. AllocInv'
    BY <1>0, <1>l, <1>t, <1>2 DEF TypeOK, MaskInv, OrderInv, LinkInv, ProducerInv, ConsumerInv, AllocInv, EnqueueRejected, MayRun, consVars
  <2> QED
    BY <2>1, <2>2, <2>3, <2>4, <2>5, <2>6
<1>3. CASE EnqueueFill
  <2>1. MaskInv'
    BY <1>0, <1>l, <1>t, <1>3 DEF TypeOK, MaskInv, OrderInv, LinkInv, ProducerInv, ConsumerInv, AllocInv, EnqueueFill, MayRun, consVars
  <2>2. OrderInv'
    BY <1>0, <1>l, <1>t, <1>3 DEF TypeOK, MaskInv, OrderInv, LinkInv, ProducerInv, ConsumerInv, AllocInv, EnqueueFill, MayRun, consVars
  <2>3. LinkInv'
    BY <1>0, <1>l, <1>t, <1>3 DEF TypeOK, MaskInv, OrderInv, LinkInv, ProducerInv, ConsumerInv, AllocInv, EnqueueFill, MayRun, consVars
  <2>4. ProducerInv'
    BY <1>0, <1>l, <1>t, <1>3 DEF TypeOK, MaskInv, OrderInv, LinkInv, ProducerInv, ConsumerInv, AllocInv, EnqueueFill, MayRun, consVars
  <2>5. ConsumerInv'
    BY <1>0, <1>l, <1>t, <1>3 DEF TypeOK, MaskInv, OrderInv, LinkInv, ProducerInv, ConsumerInv, AllocInv, EnqueueFill, MayRun, consVars
  <2>6. AllocInv'
    BY <1>0, <1>l, <1>t, <1>3 DEF TypeOK, MaskInv, OrderInv, LinkInv, ProducerInv, ConsumerInv, AllocInv, EnqueueFill, MayRun, consVars
  <2> QED
    BY <2>1, <2>2, <2>3, <2>4, <2>5, <2>6
<1>4. CASE EnqueueLock
  <2>1. MaskInv'
    BY <1>0, <1>l, <1>t, <1>4 DEF TypeOK, MaskInv, OrderInv, LinkInv, ProducerInv, ConsumerInv, AllocInv, EnqueueLock, MayRun, Lock, queueVars, consVars
  <2>2. OrderInv'
    BY <1>0, <1>l, <1>t, <1>4 DEF TypeOK, MaskInv, OrderInv, LinkInv, ProducerInv, ConsumerInv, AllocInv, EnqueueLock, MayRun, Lock, queueVars, consVars
  <2>3. LinkInv'
    BY <1>0, <1>l, <1>t, <1>4 DEF TypeOK, MaskInv, OrderInv, LinkInv, ProducerInv, ConsumerInv, AllocInv, EnqueueLock, MayRun, Lock, queueVars, consVars
  <2>4. ProducerInv'
    BY <1>0, <1>l, <1>t, <1>4 DEF TypeOK, MaskInv, OrderInv, LinkInv, ProducerInv, ConsumerInv, AllocInv, EnqueueLock, MayRun, Lock, queueVars, consVars
  <2>5. ConsumerInv'
    BY <1>0, <1>l, <1>t, <1>4 DEF TypeOK, MaskInv, OrderInv, LinkInv, ProducerInv, ConsumerInv, AllocInv, EnqueueLock, MayRun, Lock, queueVars, consVars
  <2>6. AllocInv'
    BY <1>0, <1>l, <1>t, <1>4 DEF TypeOK, MaskInv, OrderInv, LinkInv, ProducerInv, ConsumerInv, AllocInv, EnqueueLock, MayRun, Lock, queueVars, consVars
  <2> QED
    BY <2>1, <2>2, <2>3, <2>4, <2>5, <2>6
<1>5. CASE EnqueueLink
  <2>1. MaskInv'
    BY <1>0, <1>l, <1>t, <1>5 DEF TypeOK, MaskInv, OrderInv, LinkInv, ProducerInv, ConsumerInv, AllocInv, EnqueueLink, MayRun, consVars
  <2>2. OrderInv'
    BY <1>0, <1>l, <1>t, <1>5 DEF TypeOK, MaskInv, OrderInv, LinkInv, ProducerInv, ConsumerInv, AllocInv, EnqueueLink, MayRun, consVars
  <2>3. LinkInv'
    BY <1>0, <1>l, <1>t, <1>5 DEF TypeOK, MaskInv, OrderInv, LinkInv, ProducerInv, ConsumerInv, AllocInv, EnqueueLink, MayRun, consVars
  <2>4. ProducerInv'
    BY <1>0, <1>l, <1>t, <1>5 DEF TypeOK, MaskInv, OrderInv, LinkInv, ProducerInv, ConsumerInv, AllocInv, EnqueueLink, MayRun, consVars
  <2>5. ConsumerInv'
    BY <1>0, <1>l, <1>t, <1>5 DEF TypeOK, MaskInv, OrderInv, LinkInv, ProducerInv, ConsumerInv, AllocInv, EnqueueLink, MayRun, consVars
  <2>6. AllocInv'
    BY <1>0, <1>l, <1>t, <1>5 DEF TypeOK, MaskInv, OrderInv, LinkInv, ProducerInv, ConsumerInv, AllocInv, EnqueueLink, MayRun, consVars
  <2> QED
    BY <2>1, <2>2, <2>3, <2>4, <2>5, <2>6
<1>6. CASE EnqueuePublish
  <2>a. /\ Len(order') = Len(order) + 1 /\ order' # <<>>
        /\ order'[Len(order) + 1] = pEntry
        /\ \A i \in 1..Len(order) : order'[i] = order[i]
    BY <1>0, <1>6, AppendFacts DEF TypeOK, EnqueuePublish, ProducerInv
  <2>1. MaskInv'
    BY <1>0, <1>l, <1>t, <2>a, <1>6 DEF TypeOK, MaskInv, OrderInv, LinkInv, ProducerInv, ConsumerInv, AllocInv, EnqueuePublish, MayRun, consVars
  <2>2. OrderInv'
    BY <1>0, <1>l, <1>t, <2>a, <1>6 DEF TypeOK, MaskInv, OrderInv, LinkInv, ProducerInv, ConsumerInv, AllocInv, EnqueuePublish, MayRun, consVars
  <2>3. LinkInv'
    BY <1>0, <1>l, <1>t, <2>a, <1>6 DEF TypeOK, MaskInv, OrderInv, LinkInv, ProducerInv, ConsumerInv, AllocInv, EnqueuePublish, MayRun, consVars
  <2>4. ProducerInv'
    BY <1>0, <1>l, <1>t, <2>a, <1>6 DEF TypeOK, MaskInv, OrderInv, LinkInv, ProducerInv, ConsumerInv, AllocInv, EnqueuePublish, MayRun, consVars
  <2>5. ConsumerInv'
    BY <1>0, <1>l, <1>t, <2>a, <1>6 DEF TypeOK, MaskInv, OrderInv, LinkInv, ProducerInv, ConsumerInv, AllocInv, EnqueuePublish, MayRun, consVars
  <2>6. AllocInv'
    BY <1>0, <1>l, <1>t, <2>a, <1>6 DEF TypeOK, MaskInv, OrderInv, LinkInv, ProducerInv, ConsumerInv, AllocInv, EnqueuePublish, MayRun, consVars
  <2> QED
    BY <2>1, <2>2, <2>3, <2>4, <2>5, <2>6
<1>7. CASE EnqueueUnlock
  <2>1. MaskInv'
    BY <1>0, <1>l, <1>t, <1>7 DEF TypeOK, MaskInv, OrderInv, LinkInv, ProducerInv, ConsumerInv, AllocInv, EnqueueUnlock, MayRun, Unlock, queueVars, consVars
  <2>2. OrderInv'
    BY <1>0, <1>l, <1>t, <1>7 DEF TypeOK, MaskInv, OrderInv, LinkInv, ProducerInv, ConsumerInv, AllocInv, EnqueueUnlock, MayRun, Unlock, queueVars, consVars
  <2>3. LinkInv'
    BY <1>0, <1>l, <1>t, <1>7 DEF TypeOK, MaskInv, OrderInv, LinkInv, ProducerInv, ConsumerInv, AllocInv, EnqueueUnlock, MayRun, Unlock, queueVars, consVars
  <2>4. ProducerInv'
    BY <1>0, <1>l, <1>t, <1>7 DEF TypeOK, MaskInv, OrderInv, LinkInv, ProducerInv, ConsumerInv, AllocInv, EnqueueUnlock, MayRun, Unlock, queueVars, consVars
  <2>5. ConsumerInv'
    BY <1>0, <1>l, <1>t, <1>7 DEF TypeOK, MaskInv, OrderInv, LinkInv, ProducerInv, ConsumerInv, AllocInv, EnqueueUnlock, MayRun, Unlock, queueVars, consVars
  <2>6. AllocInv'
    BY <1>0, <1>l, <1>t, <1>7 DEF TypeOK, MaskInv, OrderInv, LinkInv, ProducerInv, ConsumerInv, AllocInv, EnqueueUnlock, MayRun, Unlock, queueVars, consVars
  <2> QED
    BY <2>1, <2>2, <2>3, <2>4, <2>5, <2>6
<1>8. CASE DequeueCheck
  <2>1. MaskInv'
    BY <1>0, <1>l, <1>t, <1>8 DEF TypeOK, MaskInv, OrderInv, LinkInv, ProducerInv, ConsumerInv, AllocInv, DequeueCheck, MayRun, queueVars, prodVars
  <2>2. OrderInv'
    BY <1>0, <1>l, <1>t, <1>8 DEF TypeOK, MaskInv, OrderInv, LinkInv, ProducerInv, ConsumerInv, AllocInv, DequeueCheck, MayRun, queueVars, prodVars
  <2>3. LinkInv'
    BY <1>0, <1>l, <1>t, <1>8 DEF TypeOK, MaskInv, OrderInv, LinkInv, ProducerInv, ConsumerInv, AllocInv, DequeueCheck, MayRun, queueVars, prodVars
  <2>4. ProducerInv'
    BY <1>0, <1>l, <1>t, <1>8 DEF TypeOK, MaskInv, OrderInv, LinkInv, ProducerInv, ConsumerInv, AllocInv, DequeueCheck, MayRun, queueVars, prodVars
  <2>5. ConsumerInv'
    BY <1>0, <1>l, <1>t, <1>8 DEF TypeOK, MaskInv, OrderInv, LinkInv, ProducerInv, ConsumerInv, AllocInv, DequeueCheck, MayRun, queueVars, prodVars
  <2>6. AllocInv'
    BY <1>0, <1>l, <1>t, <1>8 DEF TypeOK, MaskInv, OrderInv, LinkInv, ProducerInv, ConsumerInv, AllocInv, DequeueCheck, MayRun, queueVars, prodVars
  <2> QED
    BY <2>1, <2>2, <2>3, <2>4, <2>5, <2>6
<1>9. CASE DequeueCopy
  <2>1. MaskInv'
    BY <1>0, <1>l, <1>t, <1>9 DEF TypeOK, MaskInv, OrderInv, LinkInv, ProducerInv, ConsumerInv, AllocInv, DequeueCopy, MayRun, queueVars, prodVars
  <2>2. OrderInv'
    BY <1>0, <1>l, <1>t, <1>9 DEF TypeOK, MaskInv, OrderInv, LinkInv, ProducerInv, ConsumerInv, AllocInv, DequeueCopy, MayRun, queueVars, prodVars
  <2>3. LinkInv'
    BY <1>0, <1>l, <1>t, <1>9 DEF TypeOK, MaskInv, OrderInv, LinkInv, ProducerInv, ConsumerInv, AllocInv, DequeueCopy, MayRun, queueVars, prodVars
  <2>4. ProducerInv'
    BY <1>0, <1>l, <1>t, <1>9 DEF TypeOK, MaskInv, OrderInv, LinkInv, ProducerInv, ConsumerInv, AllocInv, DequeueCopy, MayRun, queueVars, prodVars
  <2>5. ConsumerInv'
    BY <1>0, <1>l, <1>t, <1>9 DEF TypeOK, MaskInv, OrderInv, LinkInv, ProducerInv, ConsumerInv, AllocInv, DequeueCopy, MayRun, queueVars, prodVars
  <2>6. AllocInv'
    BY <1>0, <1>l, <1>t, <1>9 DEF TypeOK, MaskInv, OrderInv, LinkInv, ProducerInv, ConsumerInv, AllocInv, DequeueCopy, MayRun, queueVars, prodVars
  <2> QED
    BY <2>1, <2>2, <2>3, <2>4, <2>5, <2>6
<1>10. CASE DequeueLock
  <2>1. MaskInv'
    BY <1>0, <1>l, <1>t, <1>10 DEF TypeOK, MaskInv, OrderInv, LinkInv, ProducerInv, ConsumerInv, AllocInv, DequeueLock, MayRun, Lock, queueVars, prodVars
  <2>2. OrderInv'
    BY <1>0, <1>l, <1>t, <1>10 DEF TypeOK, MaskInv, OrderInv, LinkInv, ProducerInv, ConsumerInv, AllocInv, DequeueLock, MayRun, Lock, queueVars, prodVars
  <2>3. LinkInv'
    BY <1>0, <1>l, <1>t, <1>10 DEF TypeOK, MaskInv, OrderInv, LinkInv, ProducerInv, ConsumerInv, AllocInv, DequeueLock, MayRun, Lock, queueVars, prodVars
  <2>4. ProducerInv'
    BY <1>0, <1>l, <1>t, <1>10 DEF TypeOK, MaskInv, OrderInv, LinkInv, ProducerInv, ConsumerInv, AllocInv, DequeueLock, MayRun, Lock, queueVars, prodVars
  <2>5. ConsumerInv'
    BY <1>0, <1>l, <1>t, <1>10 DEF TypeOK, MaskInv, OrderInv, LinkInv, ProducerInv, ConsumerInv, AllocInv, DequeueLock, MayRun, Lock, queueVars, prodVars
  <2>6. AllocInv'
    BY <1>0, <1>l, <1>t, <1>10 DEF TypeOK, MaskInv, OrderInv, LinkInv, ProducerInv, ConsumerInv, AllocInv, DequeueLock, MayRun, Lock, queueVars, prodVars
  <2> QED
    BY <2>1, <2>2, <2>3, <2>4, <2>5, <2>6
<1>11. CASE DequeueUnlink
  <2>1. MaskInv'
    BY <1>0, <1>l, <1>t, <1>11 DEF TypeOK, MaskInv, OrderInv, LinkInv, ProducerInv, ConsumerInv, AllocInv, DequeueUnlink, MayRun, prodVars
  <2>2. OrderInv'
    BY <1>0, <1>l, <1>t, <1>11 DEF TypeOK, MaskInv, OrderInv, LinkInv, ProducerInv, ConsumerInv, AllocInv, DequeueUnlink, MayRun, prodVars
  <2>3. LinkInv'
    BY <1>0, <1>l, <1>t, <1>11 DEF TypeOK, MaskInv, OrderInv, LinkInv, ProducerInv, ConsumerInv, AllocInv, DequeueUnlink, MayRun, prodVars
  <2>4. ProducerInv'
    BY <1>0, <1>l, <1>t, <1>11 DEF TypeOK, MaskInv, OrderInv, LinkInv, ProducerInv, ConsumerInv, AllocInv, DequeueUnlink, MayRun, prodVars
  <2>5. ConsumerInv'
    BY <1>0, <1>l, <1>t, <1>11 DEF TypeOK, MaskInv, OrderInv, LinkInv, ProducerInv, ConsumerInv, AllocInv, DequeueUnlink, MayRun, prodVars
  <2>6. AllocInv'
    BY <1>0, <1>l, <1>t, <1>11 DEF TypeOK, MaskInv, OrderInv, LinkInv, ProducerInv, ConsumerInv, AllocInv, DequeueUnlink, MayRun, prodVars
  <2> QED
    BY <2>1, <2>2, <2>3, <2>4, <2>5, <2>6
<1>12. CASE DequeueAdvance
  <2>a. /\ Len(order) >= 1 /\ Len(order') = Len(order) - 1
        /\ \A i \in 1..(Len(order) - 1) : order'[i] = order[i + 1]
        /\ (order' = <<>>) <=> (Len(order) = 1)
    BY <1>0, <1>12, TailFacts DEF TypeOK, DequeueAdvance, ConsumerInv
  <2>1. MaskInv'
    BY <1>0, <1>l, <1>t, <2>a, <1>12 DEF TypeOK, MaskInv, OrderInv, LinkInv, ProducerInv, ConsumerInv, AllocInv, DequeueAdvance, MayRun, prodVars
  <2>2. OrderInv'
    BY <1>0, <1>l, <1>t, <2>a, <1>12 DEF TypeOK, MaskInv, OrderInv, LinkInv, ProducerInv, ConsumerInv, AllocInv, DequeueAdvance, MayRun, prodVars
  <2>3. LinkInv'
    BY <1>0, <1>l, <1>t, <2>a, <1>12 DEF TypeOK, MaskInv, OrderInv, LinkInv, ProducerInv, ConsumerInv, AllocInv, DequeueAdvance, MayRun, prodVars
  <2>4. ProducerInv'
    BY <1>0, <1>l, <1>t, <2>a, <1>12 DEF TypeOK, MaskInv, OrderInv, LinkInv, ProducerInv, ConsumerInv, AllocInv, DequeueAdvance, MayRun, prodVars
  <2>5. ConsumerInv'
    BY <1>0, <1>l, <1>t, <2>a, <1>12 DEF TypeOK, MaskInv, OrderInv, LinkInv, ProducerInv, ConsumerInv, AllocInv, DequeueAdvance, MayRun, prodVars
  <2>6. AllocInv'
    <3> SUFFICES ASSUME NEW e \in alloc',
                        e \notin leaked',
                        ~(pPc' \in {"lock", "link", "publish"} /\ e = pEntry'),
                        ~(cPc' \in {"funlock", "ffree"} /\ e = cEntry')
                 PROVE  \E i \in 1..Len(order') : order'[i] = e
      BY DEF AllocInv
    <3>1. PICK j \in 1..Len(order) : order[j] = e
      BY <1>0, <1>12 DEF AllocInv, DequeueAdvance, prodVars
    <3>2. j # 1
      BY <1>0, <1>l, <1>12, <3>1 DEF OrderInv, ConsumerInv, DequeueAdvance
    <3>3. j - 1 \in 1..Len(order') /\ order'[j - 1] = e
      BY <1>l, <2>a, <3>1, <3>2
    <3> QED
      BY <3>3
  <2> QED
    BY <2>1, <2>2, <2>3, <2>4, <2>5, <2>6
<1>13. CASE DequeueUnlock
  <2>1. MaskInv'
    BY <1>0, <1>l, <1>t, <1>13 DEF TypeOK, MaskInv, OrderInv, LinkInv, ProducerInv, ConsumerInv, AllocInv, DequeueUnlock, MayRun, Unlock, queueVars, prodVars
  <2>2. OrderInv'
    BY <1>0, <1>l, <1>t, <1>13 DEF TypeOK, MaskInv, OrderInv, LinkInv, ProducerInv, ConsumerInv, AllocInv, DequeueUnlock, MayRun, Unlock, queueVars, prodVars
  <2>3. LinkInv'
    BY <1>0, <1>l, <1>t, <1>13 DEF TypeOK, MaskInv, OrderInv, LinkInv, ProducerInv, ConsumerInv, AllocInv, DequeueUnlock, MayRun, Unlock, queueVars, prodVars
  <2>4. ProducerInv'
    BY <1>0, <1>l, <1>t, <1>13 DEF TypeOK, MaskInv, OrderInv, LinkInv, ProducerInv, ConsumerInv, AllocInv, DequeueUnlock, MayRun, Unlock, queueVars, prodVars
  <2>5. ConsumerInv'
    BY <1>0, <1>l, <1>t, <1>13 DEF TypeOK, MaskInv, OrderInv, LinkInv, ProducerInv, ConsumerInv, AllocInv, DequeueUnlock, MayRun, Unlock, queueVars, prodVars
  <2>6. AllocInv'
    BY <1>0, <1>l, <1>t, <1>13 DEF TypeOK, MaskInv, OrderInv, LinkInv, ProducerInv, ConsumerInv, AllocInv, DequeueUnlock, MayRun, Unlock, queueVars, prodVars
  <2> QED
    BY <2>1, <2>2, <2>3, <2>4, <2>5, <2>6
<1>14. CASE FlushCheck
  <2>1. MaskInv'
    BY <1>0, <1>l, <1>t, <1>14 DEF TypeOK, MaskInv, OrderInv, LinkInv, ProducerInv, ConsumerInv, AllocInv, FlushCheck, MayRun, queueVars, prodVars
  <2>2. OrderInv'
    BY <1>0, <1>l, <1>t, <1>14 DEF TypeOK, MaskInv, OrderInv, LinkInv, ProducerInv, ConsumerInv, AllocInv, FlushCheck, MayRun, queueVars, prodVars
  <2>3. LinkInv'
    BY <1>0, <1>l, <1>t, <1>14 DEF TypeOK, MaskInv, OrderInv, LinkInv, ProducerInv, ConsumerInv, AllocInv, FlushCheck, MayRun, queueVars, prodVars
  <2>4. ProducerInv'
    BY <1>0, <1>l, <1>t, <1>14 DEF TypeOK, MaskInv, OrderInv, LinkInv, ProducerInv, ConsumerInv, AllocInv, FlushCheck, MayRun, queueVars, prodVars
  <2>5. ConsumerInv'
    BY <1>0, <1>l, <1>t, <1>14 DEF TypeOK, MaskInv, OrderInv, LinkInv, ProducerInv, ConsumerInv, AllocInv, FlushCheck, MayRun, queueVars, prodVars
  <2>6. AllocInv'
    BY <1>0, <1>l, <1>t, <1>14 DEF TypeOK, MaskInv, OrderInv, LinkInv, ProducerInv, ConsumerInv, AllocInv, FlushCheck, MayRun, queueVars, prodVars
  <2> QED
    BY <2>1, <2>2, <2>3, <2>4, <2>5, <2>6
<1>15. CASE FlushLock
  <2>1. MaskInv'
    BY <1>0, <1>l, <1>t, <1>15 DEF TypeOK, MaskInv, OrderInv, LinkInv, ProducerInv, ConsumerInv, AllocInv, FlushLock, MayRun, Lock, queueVars, prodVars
  <2>2. OrderInv'
    BY <1>0, <1>l, <1>t, <1>15 DEF TypeOK, MaskInv, OrderInv, LinkInv, ProducerInv, ConsumerInv, AllocInv, FlushLock, MayRun, Lock, queueVars, prodVars
  <2>3. LinkInv'
    BY <1>0, <1>l, <1>t, <1>15 DEF TypeOK, MaskInv, OrderInv, LinkInv, ProducerInv, ConsumerInv, AllocInv, FlushLock, MayRun, Lock, queueVars, prodVars
  <2>4. ProducerInv'
    BY <1>0, <1>l, <1>t, <1>15 DEF TypeOK, MaskInv, OrderInv, LinkInv, ProducerInv, ConsumerInv, AllocInv, FlushLock, MayRun, Lock, queueVars, prodVars
  <2>5. ConsumerInv'
    BY <1>0, <1>l, <1>t, <1>15 DEF TypeOK, MaskInv, OrderInv, LinkInv, ProducerInv, ConsumerInv, AllocInv, FlushLock, MayRun, Lock, queueVars, prodVars
  <2>6. AllocInv'
    BY <1>0, <1>l, <1>t, <1>15 DEF TypeOK, MaskInv, OrderInv, LinkInv, ProducerInv, ConsumerInv, AllocInv, FlushLock, MayRun, Lock, queueVars, prodVars
  <2> QED
    BY <2>1, <2>2, <2>3, <2>4, <2>5, <2>6
<1>16. CASE FlushUnlink
  <2>1. MaskInv'
    BY <1>0, <1>l, <1>t, <1>16 DEF TypeOK, MaskInv, OrderInv, LinkInv, ProducerInv, ConsumerInv, AllocInv, FlushUnlink, MayRun, prodVars
  <2>2. OrderInv'
    BY <1>0, <1>l, <1>t, <1>16 DEF TypeOK, MaskInv, OrderInv, LinkInv, ProducerInv, ConsumerInv, AllocInv, FlushUnlink, MayRun, prodVars
  <2>3. LinkInv'
    BY <1>0, <1>l, <1>t, <1>16 DEF TypeOK, MaskInv, OrderInv, LinkInv, ProducerInv, ConsumerInv, AllocInv, FlushUnlink, MayRun, prodVars
  <2>4. ProducerInv'
    BY <1>0, <1>l, <1>t, <1>16 DEF TypeOK, MaskInv, OrderInv, LinkInv, ProducerInv, ConsumerInv, AllocInv, FlushUnlink, MayRun, prodVars
  <2>5. ConsumerInv'
    BY <1>0, <1>l, <1>t, <1>16 DEF TypeOK, MaskInv, OrderInv, LinkInv, ProducerInv, ConsumerInv, AllocInv, FlushUnlink, MayRun, prodVars
  <2>6. AllocInv'
    BY <1>0, <1>l, <1>t, <1>16 DEF TypeOK, MaskInv, OrderInv, LinkInv, ProducerInv, ConsumerInv, AllocInv, FlushUnlink, MayRun, prodVars
  <2> QED
    BY <2>1, <2>2, <2>3, <2>4, <2>5, <2>6
<1>17. CASE FlushRelink
  <2>a. /\ Len(order) >= 1 /\ Len(order') = Len(order) - 1
        /\ \A i \in 1..(Len(order) - 1) : order'[i] = order[i + 1]
        /\ (order' = <<>>) <=> (Len(order) = 1)
    BY <1>0, <1>17, TailFacts DEF TypeOK, FlushRelink, ConsumerInv
  <2>1. MaskInv'
    BY <1>0, <1>l, <1>t, <2>a, <1>17 DEF TypeOK, MaskInv, OrderInv, LinkInv, ProducerInv, ConsumerInv, AllocInv, FlushRelink, MayRun, prodVars
  <2>2. OrderInv'
    BY <1>0, <1>l, <1>t, <2>a, <1>17 DEF TypeOK, MaskInv, OrderInv, LinkInv, ProducerInv, ConsumerInv, AllocInv, FlushRelink, MayRun, prodVars
  <2>3. LinkInv'
    BY <1>0, <1>l, <1>t, <2>a, <1>17 DEF TypeOK, MaskInv, OrderInv, LinkInv, ProducerInv, ConsumerInv, AllocInv, FlushRelink, MayRun, prodVars
  <2>4. ProducerInv'
    BY <1>0, <1>l, <1>t, <2>a, <1>17 DEF TypeOK, MaskInv, OrderInv, LinkInv, ProducerInv, ConsumerInv, AllocInv, FlushRelink, MayRun, prodVars
  <2>5. ConsumerInv'
    BY <1>0, <1>l, <1>t, <2>a, <1>17 DEF TypeOK, MaskInv, OrderInv, LinkInv, ProducerInv, ConsumerInv, AllocInv, FlushRelink, MayRun, prodVars
  <2>6. AllocInv'
    <3> SUFFICES ASSUME NEW e \in alloc',
                        e \notin leaked',
                        ~(pPc' \in {"lock", "link", "publish"} /\ e = pEntry'),
                        ~(cPc' \in {"funlock", "ffree"} /\ e = cEntry')
                 PROVE  \E i \in 1..Len(order') : order'[i] = e
      BY DEF AllocInv
    <3>1. PICK j \in 1..Len(order) : order[j] = e
      BY <1>0, <1>17 DEF AllocInv, FlushRelink, prodVars
    <3>2. j # 1
      BY <1>0, <1>l, <1>17, <3>1 DEF OrderInv, ConsumerInv, FlushRelink
    <3>3. j - 1 \in 1..Len(order') /\ order'[j - 1] = e
      BY <1>l, <2>a, <3>1, <3>2
    <3> QED
      BY <3>3
  <2> QED
    BY <2>1, <2>2, <2>3, <2>4, <2>5, <2>6
<1>18. CASE FlushUnlock
  <2>1. MaskInv'
    BY <1>0, <1>l, <1>t, <1>18 DEF TypeOK, MaskInv, OrderInv, LinkInv, ProducerInv, ConsumerInv, AllocInv, FlushUnlock, MayRun, Unlock, queueVars, prodVars
  <2>2. OrderInv'
    BY <1>0, <1>l, <1>t, <1>18 DEF TypeOK, MaskInv, OrderInv, LinkInv, ProducerInv, ConsumerInv, AllocInv, FlushUnlock, MayRun, Unlock, queueVars, prodVars
  <2>3. LinkInv'
    BY <1>0, <1>l, <1>t, <1>18 DEF TypeOK, MaskInv, OrderInv, LinkInv, ProducerInv, ConsumerInv, AllocInv, FlushUnlock, MayRun, Unlock, queueVars, prodVars
  <2>4. ProducerInv'
    BY <1>0, <1>l, <1>t, <1>18 DEF TypeOK, MaskInv, OrderInv, LinkInv, ProducerInv, ConsumerInv, AllocInv, FlushUnlock, MayRun, Unlock, queueVars, prodVars
  <2>5. ConsumerInv'
    BY <1>0, <1>l, <1>t, <1>18 DEF TypeOK, MaskInv, OrderInv, LinkInv, ProducerInv, ConsumerInv, AllocInv, FlushUnlock, MayRun, Unlock, queueVars, prodVars
  <2>6. AllocInv'
    BY <1>0, <1>l, <1>t, <1>18 DEF TypeOK, MaskInv, OrderInv, LinkInv, ProducerInv, ConsumerInv, AllocInv, FlushUnlock, MayRun, Unlock, queueVars, prodVars
  <2> QED
    BY <2>1, <2>2, <2>3, <2>4, <2>5, <2>6
<1>19. CASE FlushFree
  <2>1. MaskInv'
    BY <1>0, <1>l, <1>t, <1>19 DEF TypeOK, MaskInv, OrderInv, LinkInv, ProducerInv, ConsumerInv, AllocInv, FlushFree, MayRun, prodVars
  <2>2. OrderInv'
    BY <1>0, <1>l, <1>t, <1>19 DEF TypeOK, MaskInv, OrderInv, LinkInv, ProducerInv, ConsumerInv, AllocInv, FlushFree, MayRun, prodVars
  <2>3. LinkInv'
    BY <1>0, <1>l, <1>t, <1>19 DEF TypeOK, MaskInv, OrderInv, LinkInv, ProducerInv, ConsumerInv, AllocInv, FlushFree, MayRun, prodVars
  <2>4. ProducerInv'
    BY <1>0, <1>l, <1>t, <1>19 DEF TypeOK, MaskInv, OrderInv, LinkInv, ProducerInv, ConsumerInv, AllocInv, FlushFree, MayRun, prodVars
  <2>5. ConsumerInv'
    BY <1>0, <1>l, <1>t, <1>19 DEF TypeOK, MaskInv, OrderInv, LinkInv, ProducerInv, ConsumerInv, AllocInv, FlushFree, MayRun, prodVars
  <2>6. AllocInv'
    BY <1>0, <1>l, <1>t, <1>19 DEF TypeOK, MaskInv, OrderInv, LinkInv, ProducerInv, ConsumerInv, AllocInv, FlushFree, MayRun, prodVars
  <2> QED
    BY <2>1, <2>2, <2>3, <2>4, <2>5, <2>6
<1>20. CASE UNCHANGED vars
  BY <1>0, <1>20 DEF MaskInv, OrderInv, LinkInv, ProducerInv, ConsumerInv, AllocInv, vars, queueVars, prodVars, consVars
<1> QED
  BY <1>1, <1>2, <1>3, <1>4, <1>5, <1>6, <1>7, <1>8, <1>9, <1>10, <1>11, <1>12, <1>13, <1>14, <1>15, <1>16, <1>17, <1>18, <1>19, <1>20
  DEF Next, EnqueueStart, EnqueueRest, Dequeue, Flush

-----------------------------------------------------------------------------
\* The inductive invariant holds in every reachable state, whatever the
\* interleaving of the producing and the consuming task of a net_queue.
THEOREM QueueInvariant == Spec => []QueueInv
<1>1. Init => QueueInv
  <2> SUFFICES ASSUME Init PROVE QueueInv
    OBVIOUS
  <2> USE QueueConstants
  <2>1. order = <<>> /\ Len(order) = 0 /\ order \in Seq(Entries)
    BY DEF Init
  <2>2. TypeOK
    BY <2>1 DEF Init, TypeOK, InProducer, InConsumer
  <2> QED
    BY <2>1, <2>2 DEF Init, QueueInv, MaskInv, OrderInv, LinkInv, ProducerInv, ConsumerInv, AllocInv
<1> QED
  BY <1>1, InvStep, PTL DEF Spec

\* Whenever interrupts are enabled, head, tail, next and prev form one doubly
\* linked list, so no operation of net_queue.c starts on a torn list.
THEOREM ListAlwaysWellFormed == Spec => []ListShape
<1>1. QueueInv => ListShape
  <2> SUFFICES ASSUME QueueInv, masked = "none" PROVE ListShape
    BY DEF ListShape
  <2> USE QueueConstants
  <2>1. /\ Len(order) \in Nat
        /\ (order = <<>>) <=> (Len(order) = 0)
        /\ \A i \in 1..Len(order) : order[i] \in Entries
    BY LenFacts DEF QueueInv, TypeOK
  <2>2. /\ pPc \notin {"link", "publish", "unlock"}
        /\ cPc \notin {"unlink", "advance", "unlock", "funlink", "frelink", "funlock"}
    BY DEF QueueInv, MaskInv
  <2> QED
    BY <2>1, <2>2 DEF QueueInv, LinkInv, ListShape
<1> QED
  BY <1>1, QueueInvariant, PTL

\* No entry is lost and none is freed while it is still reachable: with
\* interrupts enabled the allocated entries are exactly the queued ones, the
\* one in each task's hands and those of the rejected frames.
THEOREM EntriesAccountedFor == Spec => []Accounting
<1>1. QueueInv => Accounting
  <2> SUFFICES ASSUME QueueInv, masked = "none"
               PROVE  alloc = Queued \cup HeldByProducer \cup HeldByConsumer \cup leaked
    BY DEF Accounting
  <2>1. cPc # "advance"
    BY DEF QueueInv, MaskInv
  <2>2. Queued \subseteq alloc
    BY <2>1 DEF QueueInv, OrderInv, Queued
  <2>3. /\ HeldByProducer \subseteq alloc
        /\ HeldByConsumer \subseteq alloc
        /\ leaked \subseteq alloc
    BY DEF QueueInv, OrderInv, ProducerInv, ConsumerInv, HeldByProducer, HeldByConsumer
  <2>4. alloc \subseteq Queued \cup HeldByProducer \cup HeldByConsumer \cup leaked
    BY DEF QueueInv, AllocInv, Queued, HeldByProducer, HeldByConsumer
  <2> QED
    BY <2>2, <2>3, <2>4
<1> QED
  BY <1>1, QueueInvariant, PTL
-----------------------------------------------------------------------------
(* The refinement.  Contents is the queue the FIFO specification talks of.  *)
Contents == [i \in 1..Len(order) |-> data[order[i]]]

\* Contents is a sequence of frames as long as the list.
LEMMA ContentsFacts ==
  ASSUME TypeOK
  PROVE  /\ Contents \in Seq(Frames)
         /\ Len(Contents) = Len(order)
         /\ (Contents = <<>>) <=> (order = <<>>)
         /\ \A i \in 1..Len(order) : Contents[i] = data[order[i]]
<1>1. /\ Len(order) \in Nat
      /\ (order = <<>>) <=> (Len(order) = 0)
      /\ \A i \in 1..Len(order) : data[order[i]] \in Frames
  BY LenFacts DEF TypeOK
<1>2. Contents \in Seq(Frames) /\ Len(Contents) = Len(order)
  BY <1>1 DEF Contents
<1>3. (Contents = <<>>) <=> (Len(Contents) = 0)
  BY <1>2, LenFacts
<1> QED
  BY <1>1, <1>2, <1>3 DEF Contents

\* A step that leaves the entries queued and their data alone leaves the
\* FIFO alone.
LEMMA ContentsUnchanged ==
  ASSUME TypeOK, order' = order,
         \A i \in 1..Len(order) : data'[order[i]] = data[order[i]]
  PROVE  Contents' = Contents
  BY DEF Contents

\* Removing the head of the list removes the oldest frame.
LEMMA ContentsTail ==
  ASSUME TypeOK, TypeOK', order # <<>>, order' = Tail(order), data' = data
  PROVE  Contents # <<>> /\ Contents' = Tail(Contents)
<1>1. Contents \in Seq(Frames) /\ Len(Contents) = Len(order) /\ Contents # <<>>
  BY ContentsFacts
<1>2. /\ Len(order) \in Nat /\ Len(order) >= 1 /\ Len(order') = Len(order) - 1
      /\ \A i \in 1..(Len(order) - 1) : order'[i] = order[i + 1]
  BY TailFacts DEF TypeOK
<1>3. /\ Tail(Contents) \in Seq(Frames) /\ Len(Tail(Contents)) = Len(order) - 1
      /\ \A i \in 1..(Len(order) - 1) : Tail(Contents)[i] = Contents[i + 1]
  BY <1>1, TailFacts
<1>4. Contents' \in Seq(Frames) /\ Len(Contents') = Len(order')
  BY <1>2 DEF Contents, TypeOK
<1>5. \A i \in 1..(Len(order) - 1) : Contents'[i] = Tail(Contents)[i]
  BY <1>2, <1>3 DEF Contents
<1> QED
  BY <1>1, <1>2, <1>3, <1>4, <1>5, SeqEqual

\* Linking an entry at the tail adds its frame as the newest one.
LEMMA ContentsAppend ==
  ASSUME TypeOK, TypeOK', NEW e \in Entries, order' = Append(order, e), data' = data
  PROVE  Contents' = Append(Contents, data[e])
<1>1. Contents \in Seq(Frames) /\ Len(Contents) = Len(order) /\ data[e] \in Frames
  BY ContentsFacts DEF TypeOK
<1>2. /\ Len(order) \in Nat /\ Len(order') = Len(order) + 1
      /\ order'[Len(order) + 1] = e
      /\ \A i \in 1..Len(order) : order'[i] = order[i]
  BY AppendFacts, LenFacts DEF TypeOK
<1>3. /\ Append(Contents, data[e]) \in Seq(Frames)
      /\ Len(Append(Contents, data[e])) = Len(order) + 1
      /\ Append(Contents, data[e])[Len(order) + 1] = data[e]
      /\ \A i \in 1..Len(order) : Append(Contents, data[e])[i] = Contents[i]
  BY <1>1, AppendFacts
<1>4. Contents' \in Seq(Frames) /\ Len(Contents') = Len(order')
  BY <1>2 DEF Contents, TypeOK
<1>5. \A i \in 1..(Len(order) + 1) : Contents'[i] = Append(Contents, data[e])[i]
  BY <1>2, <1>3 DEF Contents
<1> QED
  BY <1>2, <1>3, <1>4, <1>5, SeqEqual

\* net_queue.c implements the FIFO: frames leave in the order in which they
\* were linked, once each and unchanged, and a dequeue answers 0 only when
\* the queue is empty, although it reads the head before it takes the lock.
THEOREM QueueImplementsFifo == Spec => FifoSpec
<1>1. Init => Fifo!FifoInit
  <2> SUFFICES ASSUME Init PROVE Fifo!FifoInit
    OBVIOUS
  <2>1. order = <<>> /\ Len(order) = 0
    BY DEF Init
  <2> QED
    BY <2>1 DEF Init, Fifo!FifoInit
<1>2. QueueInv /\ QueueInv' /\ [Next]_vars => [Fifo!FifoNext]_(Fifo!fifoVars)
  <2> SUFFICES ASSUME QueueInv, QueueInv', [Next]_vars
               PROVE  Fifo!FifoNext \/ (Contents' = Contents /\ last' = last)
    BY DEF Fifo!fifoVars, Contents
  <2> USE QueueConstants
  <2>0. TypeOK /\ TypeOK' /\ ConsumerInv /\ LinkInv /\ ProducerInv /\ OrderInv
    BY DEF QueueInv
  <2>1. CASE EnqueueFill
    <3>1. order' = order /\ last' = last
      BY <2>1 DEF EnqueueFill, consVars
    <3>2. \A i \in 1..Len(order) : data'[order[i]] = data[order[i]]
      <4>1. \A i \in 1..Len(order) : order[i] \in alloc
        BY <2>0, <2>1 DEF EnqueueFill, OrderInv, MayRun, QueueInv, MaskInv
      <4>2. \A i \in 1..Len(order) : order[i] \in Entries
        BY <2>0, LenFacts DEF TypeOK
      <4> QED
        BY <2>0, <2>1, <4>1, <4>2 DEF EnqueueFill, TypeOK
    <3> QED
      BY <2>0, <3>1, <3>2, ContentsUnchanged
  <2>2. CASE EnqueuePublish
    <3>1. /\ pEntry \in Entries /\ order' = Append(order, pEntry)
          /\ data' = data /\ last' = last /\ data[pEntry] \in Frames
      BY <2>0, <2>2 DEF EnqueuePublish, ProducerInv, TypeOK, consVars
    <3>2. Contents' = Append(Contents, data[pEntry])
      BY <2>0, <3>1, ContentsAppend
    <3> QED
      BY <3>1, <3>2 DEF Fifo!FifoNext, Fifo!Put, Contents
  <2>3. CASE DequeueAdvance
    <3>1. /\ order # <<>> /\ order' = Tail(order) /\ data' = data
          /\ last' = data[order[1]]
      BY <2>0, <2>3 DEF DequeueAdvance, ConsumerInv
    <3>2. Contents # <<>> /\ Contents' = Tail(Contents)
      BY <2>0, <3>1, ContentsTail
    <3>3. Head(Contents) = data[order[1]]
      <4>1. Len(order) \in Nat /\ Len(order) >= 1
        BY <2>0, <3>1, TailFacts DEF TypeOK
      <4>2. Contents \in Seq(Frames) /\ Contents[1] = data[order[1]]
        BY <2>0, <4>1, ContentsFacts
      <4> QED
        BY <3>2, <4>2, TailFacts
    <3> QED
      BY <3>1, <3>2, <3>3 DEF Fifo!FifoNext, Fifo!Get, Contents
  <2>4. CASE FlushRelink
    <3>1. order # <<>> /\ order' = Tail(order) /\ data' = data /\ last' = last
      BY <2>0, <2>4 DEF FlushRelink, ConsumerInv
    <3>2. Contents # <<>> /\ Contents' = Tail(Contents)
      BY <2>0, <3>1, ContentsTail
    <3> QED
      BY <3>1, <3>2 DEF Fifo!FifoNext, Fifo!Drop, Contents
  <2>5. CASE DequeueCheck
    <3>1. order' = order /\ data' = data
      BY <2>5 DEF DequeueCheck, queueVars
    <3>2. Contents' = Contents
      BY <2>0, <3>1, ContentsUnchanged
    <3>3. CASE head # Null
      BY <2>5, <3>2, <3>3 DEF DequeueCheck
    <3>4. CASE head = Null
      <4>1. order = <<>>
        BY <2>0, <2>5, <3>4, LenFacts DEF DequeueCheck, LinkInv, TypeOK
      <4>2. Contents = <<>>
        BY <2>0, <4>1, ContentsFacts
      <4> QED
        BY <2>5, <3>2, <3>4, <4>2 DEF DequeueCheck, Fifo!FifoNext, Fifo!GetNothing, Contents
    <3> QED
      BY <3>3, <3>4
  <2>6. CASE \/ EnqueueNoMemory \/ EnqueueRejected \/ EnqueueLock \/ EnqueueLink
             \/ EnqueueUnlock \/ DequeueCopy \/ DequeueLock \/ DequeueUnlink
             \/ DequeueUnlock \/ FlushCheck \/ FlushLock \/ FlushUnlink
             \/ FlushUnlock \/ FlushFree \/ UNCHANGED vars
    <3>1. order' = order /\ data' = data /\ last' = last
      BY <2>6 DEF EnqueueNoMemory, EnqueueRejected, EnqueueLock, EnqueueLink, EnqueueUnlock,
                  DequeueCopy, DequeueLock, DequeueUnlink, DequeueUnlock, FlushCheck,
                  FlushLock, FlushUnlink, FlushUnlock, FlushFree, vars, queueVars, consVars
    <3> QED
      BY <2>0, <3>1, ContentsUnchanged
  <2> QED
    BY <2>1, <2>2, <2>3, <2>4, <2>5, <2>6
    DEF Next, EnqueueStart, EnqueueRest, Dequeue, Flush
<1> QED
  BY <1>1, <1>2, QueueInvariant, PTL DEF Spec, FifoSpec, Fifo!FifoSpec
=============================================================================
