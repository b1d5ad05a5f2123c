---------------------------- MODULE SdioBusProofs ----------------------------
(***************************************************************************)
(* Proofs about module SdioBus, for any number of retries and failures:    *)
(* every transfer on the SDIO bus is its task's own (OwnTransfer).         *)
(***************************************************************************)
EXTENDS SdioBus, TLAPS

\* The handler that lost the processor, and what it has read for its write.
HandlerType == hand \in [task : Procs \cup {None}, step : {"idle", "read", "write"},
                         value : SUBSET Bits]

\* A command is executed only between the write of Cmdtm and the end of
\* emmccmd, and the task that issued it waits there; Cmddone stands for that
\* command from its issue until it is seen and cleared.
CommandPhase ==
    /\ cmdOf \in Procs \cup {None}
    /\ \A p \in Procs :
         /\ cmdOf = p => pc[p] \in {"await", "finish"}
         /\ pc[p] = "await" /\ "cmddone" \in irpt => cmdOf = None /\ cmddoneOf = p
         /\ pc[p] = "finish" /\ "cmddone" \in seen[p] => cmdOf = None /\ cmddoneOf = p

\* From the issue of a command with data the controller works on that data
\* phase or none, and Datadone can only tell the end of that one: what was
\* given up before has been reset.
DataSteps == {"dma", "dmawait", "enread", "enwrite", "ioread"}
DataPhase ==
    \A p \in Procs :
       /\ pc[p] \in DataSteps => stage[p] \in Extended
       /\ pc[p] \in DataSteps \cup {"await", "finish"} /\ stage[p] \in Extended =>
            /\ blkOf = p /\ dataOf \in {None, p}
            /\ "datadone" \in irpt => datadoneOf = p

\* The DMA channel is in use only while a task is in dma_wait.
ChannelIdle == (\A p \in Procs : pc[p] # "dmawait") => dmaCS = "idle" /\ dmaStatus # "ready"

BusIInv == /\ TypeOK /\ HandlerType /\ BusExclusive
           /\ CommandPhase /\ DataPhase /\ ChannelIdle
-----------------------------------------------------------------------------
\* mutex_release at the end of a transfer (Leave): the task goes to a place
\* outside of every transfer, the bus and Blksizecnt are nobody's, and a data
\* phase still in progress is marked as given up.
LEMMA LeaveFacts ==
    ASSUME TypeOK, NEW p \in Procs, NEW good \in BOOLEAN, Leave(p, good)
    PROVE  /\ \E l \in {"idle", "want", "cclear"} : pc' = [pc EXCEPT ![p] = l]
           /\ stage' \in [Procs -> Direct \cup Extended]
           /\ seen' = [seen EXCEPT ![p] = {}]
           /\ tries' \in [Procs -> 0..(Retries - 1)]
           /\ sdiolock' = None /\ blkOf' = None
           /\ dataOf' \in Who \ {p}
           /\ dataOf' = dataOf \/ dataOf' \notin Procs
           /\ ints' \subseteq {"frame", "mbox"}
           /\ stage' = [stage EXCEPT ![p] = stage'[p]]
<1> USE BusConstants DEF TypeOK, Procs, Leave, Who
<1>1. AfterReader(stage[p], good) \in {"pend", "intstatus", "ack", "mbox", "packet", "cclear"}
  BY DEF AfterReader, Direct, Extended
<1>2. /\ \E l \in {"idle", "want", "cclear"} : pc' = [pc EXCEPT ![p] = l]
      /\ stage' \in [Procs -> Direct \cup Extended]
      /\ stage' = [stage EXCEPT ![p] = stage'[p]]
  BY <1>1 DEF Goto, Direct, Extended
<1>3. tries' \in [Procs -> 0..(Retries - 1)]
  BY DEF Retry
<1>4. /\ dataOf' \in Who \ {p}
      /\ dataOf' = dataOf \/ dataOf' \notin Procs
  OBVIOUS
<1>5. /\ sdiolock' = None /\ blkOf' = None
      /\ seen' = [seen EXCEPT ![p] = {}]
      /\ ints' \subseteq {"frame", "mbox"}
  BY DEF See
<1> QED  BY <1>2, <1>3, <1>4, <1>5

\* A transfer ends, wherever its task stands, once its command is over and the
\* channel is idle.
LEMMA LeaveStep ==
    ASSUME BusIInv, NEW p \in Procs, NEW good \in BOOLEAN, Leave(p, good),
           pc[p] \in TransferSteps,
           cmdOf' = None, dmaCS' = "idle", dmaStatus' \in {"need_init", "end"},
           irpt' \in SUBSET Bits, {cmddoneOf', datadoneOf'} \subseteq Who,
           rare' \in 0..MaxRare, UNCHANGED <<irpten, hand, chip, owed>>
    PROVE  BusIInv'
<1> USE BusConstants DEF BusIInv, Procs
<1>0. PICK l \in {"idle", "want", "cclear"} : pc' = [pc EXCEPT ![p] = l]
  BY LeaveFacts
<1>1. TypeOK'
  <2>1. pc' \in [Procs -> TransferSteps \cup CardSteps \cup {"idle", "want"}]
    BY <1>0 DEF TypeOK, CardSteps
  <2>2. /\ stage' \in [Procs -> Direct \cup Extended]
        /\ tries' \in [Procs -> 0..(Retries - 1)]
        /\ ints' \subseteq {"frame", "mbox"}
    BY LeaveFacts
  <2>3. seen' \in [Procs -> SUBSET Bits]
    BY LeaveFacts DEF TypeOK
  <2>4. {cmdOf', dataOf', blkOf', cmddoneOf', datadoneOf'} \subseteq Who
    BY LeaveFacts DEF Who
  <2> QED  BY <2>1, <2>2, <2>3, <2>4, LeaveFacts DEF TypeOK
<1>2. HandlerType'
  BY DEF HandlerType
<1>3. BusExclusive'
  BY <1>0, LeaveFacts DEF BusExclusive, TransferSteps, TypeOK
<1>4. CommandPhase'
  BY <1>0 DEF CommandPhase, BusExclusive, TransferSteps, TypeOK
<1>5. DataPhase'
  BY <1>0 DEF DataPhase, DataSteps, BusExclusive, TransferSteps, TypeOK
<1>6. ChannelIdle'
  BY DEF ChannelIdle
<1> QED  BY <1>1, <1>2, <1>3, <1>4, <1>5, <1>6

\* mutex_acquire of sdiolock keeps the invariant.
LEMMA AcquireStep ==
    ASSUME BusIInv, NEW p \in Procs, Acquire(p)
    PROVE  BusIInv'
<1> USE BusConstants DEF BusIInv, Procs, Acquire, At, Goto, taskVars, ctlVars,
     dmaVars, chipVars
<1>1. TypeOK'
  BY DEF TypeOK, TransferSteps, CardSteps, Direct, Extended, Who, Bits,
       HandlerType
<1>2. HandlerType'
  BY DEF HandlerType, TypeOK, Bits
<1>3. BusExclusive'
  BY DEF BusExclusive, TransferSteps, CommandPhase, TypeOK
<1>4. CommandPhase'
  BY DEF CommandPhase, BusExclusive, TransferSteps, TypeOK
<1>5. DataPhase'
  BY DEF DataPhase, DataSteps, Extended, BusExclusive, TransferSteps,
       CommandPhase, TypeOK
<1>6. ChannelIdle'
  BY DEF ChannelIdle, BusExclusive, TransferSteps, TypeOK
<1> QED  BY <1>1, <1>2, <1>3, <1>4, <1>5, <1>6

\* A new request of the user task keeps the invariant.
LEMMA StartStep ==
    ASSUME BusIInv, NEW s \in {"direct", "packet"}, Start(s)
    PROVE  BusIInv'
<1> USE BusConstants DEF BusIInv, Procs, Start, At, Goto, taskVars, ctlVars,
     dmaVars, chipVars
<1>1. TypeOK'
  BY DEF TypeOK, TransferSteps, CardSteps, Direct, Extended, Who, Bits,
       HandlerType
<1>2. HandlerType'
  BY DEF HandlerType, TypeOK, Bits
<1>3. BusExclusive'
  BY DEF BusExclusive, TransferSteps, CommandPhase, TypeOK
<1>4. CommandPhase'
  BY DEF CommandPhase, BusExclusive, TransferSteps, TypeOK
<1>5. DataPhase'
  BY DEF DataPhase, DataSteps, Extended, BusExclusive, TransferSteps,
       CommandPhase, TypeOK
<1>6. ChannelIdle'
  BY DEF ChannelIdle, BusExclusive, TransferSteps, TypeOK
<1> QED  BY <1>1, <1>2, <1>3, <1>4, <1>5, <1>6

\* emmciosetup and emmccmd up to the write of Cmdtm keep the invariant.
LEMMA IssueStep ==
    ASSUME BusIInv, NEW p \in Procs, Issue(p)
    PROVE  BusIInv'
<1> USE BusConstants DEF BusIInv, Procs, Issue, At, Goto, Write1, Line,
     AfterReset, taskVars, ctlVars, dmaVars, chipVars
<1>1. TypeOK'
  BY DEF TypeOK, TransferSteps, CardSteps, Direct, Extended, Who, Bits,
       HandlerType
<1>2. HandlerType'
  BY DEF HandlerType, TypeOK, Bits
<1>3. BusExclusive'
  BY DEF BusExclusive, TransferSteps, CommandPhase, TypeOK
<1>4. CommandPhase'
  BY DEF CommandPhase, BusExclusive, TransferSteps, TypeOK
<1>5. DataPhase'
  BY DEF DataPhase, DataSteps, Extended, BusExclusive, TransferSteps,
       CommandPhase, TypeOK
<1>6. ChannelIdle'
  BY DEF ChannelIdle, BusExclusive, TransferSteps, TypeOK
<1> QED  BY <1>1, <1>2, <1>3, <1>4, <1>5, <1>6

\* The poll of Interrupt keeps the invariant.
LEMMA AwaitStep ==
    ASSUME BusIInv, NEW p \in Procs, Await(p)
    PROVE  BusIInv'
<1> USE BusConstants DEF BusIInv, Procs, Await, At, Goto, See, Rare, taskVars,
     ctlVars, dmaVars, chipVars
<1>1. TypeOK'
  BY DEF TypeOK, TransferSteps, CardSteps, Direct, Extended, Who, Bits,
       HandlerType
<1>2. HandlerType'
  BY DEF HandlerType, TypeOK, Bits
<1>3. BusExclusive'
  BY DEF BusExclusive, TransferSteps, CommandPhase, TypeOK
<1>4. CommandPhase'
  BY DEF CommandPhase, BusExclusive, TransferSteps, TypeOK
<1>5. DataPhase'
  BY DEF DataPhase, DataSteps, Extended, BusExclusive, TransferSteps,
       CommandPhase, TypeOK
<1>6. ChannelIdle'
  BY DEF ChannelIdle, BusExclusive, TransferSteps, TypeOK
<1> QED  BY <1>1, <1>2, <1>3, <1>4, <1>5, <1>6

\* The end of emmccmd, and of a transfer without data, keeps the invariant.
LEMMA FinishStep ==
    ASSUME BusIInv, NEW p \in Procs, Finish(p)
    PROVE  BusIInv'
<1> USE BusConstants DEF BusIInv, Procs
<1>a. pc[p] = "finish" /\ cmdOf' = None /\ cmddoneOf' = None /\ irpt' \in SUBSET Bits
  <2>1. irpt' \in SUBSET Bits
    BY DEF Finish, Write1, Line, TypeOK, Bits
  <2>2. pc[p] = "finish" /\ cmddoneOf' = None
    BY DEF Finish, At
  <2>3. CommandGood(p) => cmdOf = None
    BY <2>2 DEF CommandGood, CommandPhase, TypeOK
  <2> QED  BY <2>1, <2>2, <2>3 DEF Finish
<1>b. CASE stage[p] \in Extended
  <2>0. /\ pc' = [pc EXCEPT ![p] = "dma"] /\ seen' = [seen EXCEPT ![p] = {}]
        /\ UNCHANGED <<stage, tries, sdiolock, dataOf, blkOf, ints, rare, irpten,
                        datadoneOf, dmaStatus, dmaCS, hand, chip, owed>>
        /\ "datadone" \in irpt' => "datadone" \in irpt
    BY <1>b DEF Finish, Goto, See, dmaVars, Write1, Line
  <2>1. TypeOK'
    BY <1>a, <1>b, <2>0 DEF TypeOK, TransferSteps, CardSteps, Direct,
         Extended, Who, Bits, HandlerType
  <2>2. HandlerType'
    BY <1>a, <1>b, <2>0 DEF HandlerType, TypeOK, Bits
  <2>3. BusExclusive'
    BY <1>a, <1>b, <2>0 DEF BusExclusive, TransferSteps, CommandPhase, TypeOK
  <2>4. CommandPhase'
    BY <1>a, <1>b, <2>0 DEF CommandPhase, BusExclusive, TransferSteps, TypeOK
  <2>5. DataPhase'
    BY <1>a, <1>b, <2>0 DEF DataPhase, DataSteps, Extended, BusExclusive,
         TransferSteps, CommandPhase, TypeOK
  <2>6. ChannelIdle'
    BY <1>a, <1>b, <2>0 DEF ChannelIdle, BusExclusive, TransferSteps, TypeOK
  <2> QED  BY <2>1, <2>2, <2>3, <2>4, <2>5, <2>6
<1>c. CASE stage[p] \notin Extended
  <2>1. PICK good \in BOOLEAN : /\ Leave(p, good)
                               /\ IF good \/ ~CommandGood(p) THEN UNCHANGED rare ELSE Rare
    BY <1>c DEF Finish
  <2>2. dmaCS' = "idle" /\ dmaStatus' \in {"need_init", "end"}
    BY <1>a DEF Finish, dmaVars, ChannelIdle, BusExclusive, TransferSteps, TypeOK
  <2>3. {cmddoneOf', datadoneOf'} \subseteq Who
    BY <1>a DEF Finish, TypeOK, Who
  <2>4. rare' \in 0..MaxRare
    BY <2>1 DEF Rare, TypeOK
  <2>5. UNCHANGED <<irpten, hand, chip, owed>>
    BY DEF Finish
  <2> QED  BY <1>a, <2>1, <2>2, <2>3, <2>4, <2>5, LeaveStep DEF TransferSteps
<1> QED  BY <1>b, <1>c

\* dma_start keeps the invariant.
LEMMA DmaStartStep ==
    ASSUME BusIInv, NEW p \in Procs, DmaStart(p)
    PROVE  BusIInv'
<1> USE BusConstants DEF BusIInv, Procs, DmaStart, At, Goto, taskVars,
     ctlVars, dmaVars, chipVars
<1>1. TypeOK'
  BY DEF TypeOK, TransferSteps, CardSteps, Direct, Extended, Who, Bits,
       HandlerType
<1>2. HandlerType'
  BY DEF HandlerType, TypeOK, Bits
<1>3. BusExclusive'
  BY DEF BusExclusive, TransferSteps, CommandPhase, TypeOK
<1>4. CommandPhase'
  BY DEF CommandPhase, BusExclusive, TransferSteps, TypeOK
<1>5. DataPhase'
  BY DEF DataPhase, DataSteps, Extended, BusExclusive, TransferSteps,
       CommandPhase, TypeOK
<1>6. ChannelIdle'
  BY DEF ChannelIdle, BusExclusive, TransferSteps, TypeOK
<1> QED  BY <1>1, <1>2, <1>3, <1>4, <1>5, <1>6

\* dma_wait keeps the invariant, the transfer it gives up included.
LEMMA DmaWaitStep ==
    ASSUME BusIInv, NEW p \in Procs, DmaWait(p)
    PROVE  BusIInv'
<1> USE BusConstants DEF BusIInv, Procs
<1>a. /\ pc[p] = "dmawait" /\ dmaStatus' = "end" /\ dmaCS' = "idle"
      /\ UNCHANGED <<cmdOf, irpt, irpten, cmddoneOf, datadoneOf, hand, chip, owed>>
  BY DEF DmaWait, At
<1>b. CASE dmaCS = "end"
  <2>0. /\ pc' = [pc EXCEPT ![p] = "enread"]
        /\ UNCHANGED <<stage, seen, tries, sdiolock, dataOf, blkOf, ints, rare>>
    BY <1>b DEF DmaWait, Goto
  <2>1. TypeOK'
    BY <1>a, <1>b, <2>0 DEF TypeOK, TransferSteps, CardSteps, Direct,
         Extended, Who, Bits, HandlerType
  <2>2. HandlerType'
    BY <1>a, <1>b, <2>0 DEF HandlerType, TypeOK, Bits
  <2>3. BusExclusive'
    BY <1>a, <1>b, <2>0 DEF BusExclusive, TransferSteps, CommandPhase, TypeOK
  <2>4. CommandPhase'
    BY <1>a, <1>b, <2>0 DEF CommandPhase, BusExclusive, TransferSteps, TypeOK
  <2>5. DataPhase'
    BY <1>a, <1>b, <2>0 DEF DataPhase, DataSteps, Extended, BusExclusive,
         TransferSteps, CommandPhase, TypeOK
  <2>6. ChannelIdle'
    BY <1>a, <1>b, <2>0 DEF ChannelIdle, BusExclusive, TransferSteps, TypeOK
  <2> QED  BY <2>1, <2>2, <2>3, <2>4, <2>5, <2>6
<1>c. CASE dmaCS # "end"
  <2>1. Leave(p, FALSE) /\ (UNCHANGED rare \/ Rare)
    BY <1>c DEF DmaWait
  <2>2. cmdOf' = None
    BY <1>a DEF CommandPhase, BusExclusive, TransferSteps, TypeOK
  <2>3. irpt' \in SUBSET Bits /\ {cmddoneOf', datadoneOf'} \subseteq Who
    BY <1>a DEF TypeOK
  <2>4. rare' \in 0..MaxRare
    BY <2>1 DEF Rare, TypeOK
  <2> QED  BY <1>a, <2>1, <2>2, <2>3, <2>4, LeaveStep DEF TransferSteps
<1> QED  BY <1>b, <1>c

\* The two halves of the update of Irpten keep the invariant.
LEMMA EnableStep ==
    ASSUME BusIInv, NEW p \in Procs, EnableRead(p) \/ EnableWrite(p)
    PROVE  BusIInv'
<1> USE BusConstants DEF BusIInv, Procs, EnableRead, EnableWrite, At, Goto,
     See, taskVars, ctlVars, dmaVars, chipVars
<1>1. TypeOK'
  <2>1. CASE EnableRead(p)
    BY <2>1 DEF TypeOK, TransferSteps, CardSteps, Direct, Extended, Who, Bits,
         HandlerType
  <2>2. CASE EnableWrite(p)
    BY <2>2 DEF TypeOK, TransferSteps, CardSteps, Direct, Extended, Who, Bits,
         HandlerType
  <2> QED  BY <2>1, <2>2
<1>2. HandlerType'
  BY DEF HandlerType, TypeOK, Bits
<1>3. BusExclusive'
  BY DEF BusExclusive, TransferSteps, CommandPhase, TypeOK
<1>4. CommandPhase'
  BY DEF CommandPhase, BusExclusive, TransferSteps, TypeOK
<1>5. DataPhase'
  BY DEF DataPhase, DataSteps, Extended, BusExclusive, TransferSteps,
       CommandPhase, TypeOK
<1>6. ChannelIdle'
  BY DEF ChannelIdle, BusExclusive, TransferSteps, TypeOK
<1> QED  BY <1>1, <1>2, <1>3, <1>4, <1>5, <1>6

\* The end of emmcio keeps the invariant.
LEMMA IoEndStep ==
    ASSUME BusIInv, NEW p \in Procs, IoEnd(p)
    PROVE  BusIInv'
<1> USE BusConstants DEF BusIInv, Procs
<1>1. pc[p] = "ioread" /\ datadoneOf' = None /\ Leave(p, DataGood)
  BY DEF IoEnd, At
<1>2. UNCHANGED <<cmdOf, irpten, cmddoneOf, dmaStatus, dmaCS, hand, chip, owed>>
  BY DEF IoEnd, dmaVars
<1>3. irpt' \in SUBSET Bits
  BY DEF IoEnd, Write1, Line, TypeOK, Bits
<1>4. cmdOf' = None
  BY <1>1, <1>2 DEF CommandPhase, BusExclusive, TransferSteps, TypeOK
<1>5. dmaCS' = "idle" /\ dmaStatus' \in {"need_init", "end"}
  BY <1>1, <1>2 DEF ChannelIdle, BusExclusive, TransferSteps, TypeOK
<1>6. {cmddoneOf', datadoneOf'} \subseteq Who
  BY <1>1, <1>2 DEF TypeOK, Who
<1>7. rare' \in 0..MaxRare
  BY DEF IoEnd, Rare, TypeOK
<1>8. DataGood \in BOOLEAN
  BY DEF DataGood
<1> QED  BY <1>1, <1>2, <1>3, <1>4, <1>5, <1>6, <1>7, <1>8, LeaveStep DEF TransferSteps

\* sdiocardintr, which works on Interrupt and Irpten without sdiolock, keeps the
\* invariant.
LEMMA CardStep ==
    ASSUME BusIInv, CardClear \/ CardFound \/ CardMissing \/ CardEnable \/ CardPoll \/ CardAck
    PROVE  BusIInv'
<1> USE BusConstants DEF BusIInv, Procs, CardClear, CardFound, CardMissing,
     CardEnable, CardPoll, CardAck, At, Goto, See, Write1, Line, taskVars,
     ctlVars, dmaVars, chipVars
<1>1. TypeOK'
  <2>1. CASE CardClear
    BY <2>1 DEF TypeOK, TransferSteps, CardSteps, Direct, Extended, Who, Bits,
         HandlerType
  <2>2. CASE CardFound
    BY <2>2 DEF TypeOK, TransferSteps, CardSteps, Direct, Extended, Who, Bits,
         HandlerType
  <2>3. CASE CardMissing
    BY <2>3 DEF TypeOK, TransferSteps, CardSteps, Direct, Extended, Who, Bits,
         HandlerType
  <2>4. CASE CardEnable
    BY <2>4 DEF TypeOK, TransferSteps, CardSteps, Direct, Extended, Who, Bits,
         HandlerType
  <2>5. CASE CardPoll
    BY <2>5 DEF TypeOK, TransferSteps, CardSteps, Direct, Extended, Who, Bits,
         HandlerType
  <2>6. CASE CardAck
    BY <2>6 DEF TypeOK, TransferSteps, CardSteps, Direct, Extended, Who, Bits,
         HandlerType
  <2> QED  BY <2>1, <2>2, <2>3, <2>4, <2>5, <2>6
<1>2. HandlerType'
  BY DEF HandlerType, TypeOK, Bits
<1>3. BusExclusive'
  BY DEF BusExclusive, TransferSteps, CommandPhase, TypeOK
<1>4. CommandPhase'
  BY DEF CommandPhase, BusExclusive, TransferSteps, TypeOK
<1>5. DataPhase'
  BY DEF DataPhase, DataSteps, Extended, BusExclusive, TransferSteps,
       CommandPhase, TypeOK
<1>6. ChannelIdle'
  BY DEF ChannelIdle, BusExclusive, TransferSteps, TypeOK
<1> QED  BY <1>1, <1>2, <1>3, <1>4, <1>5, <1>6

\* The interrupt handlers, which run inside of any transfer, keep the invariant.
LEMMA IrqStep ==
    ASSUME BusIInv, NEW p \in Procs, MmcIrq(p) \/ DmaIrq \/ HandlerRead \/ HandlerWrite
    PROVE  BusIInv'
<1> USE BusConstants DEF BusIInv, Procs, MmcIrq, DmaIrq, HandlerRead, HandlerWrite, Idle, taskVars, ctlVars,
     dmaVars, chipVars
<1>1. TypeOK'
  <2>1. CASE MmcIrq(p)
    BY <2>1 DEF TypeOK, TransferSteps, CardSteps, Direct, Extended, Who, Bits,
         HandlerType
  <2>2. CASE DmaIrq
    BY <2>2 DEF TypeOK, TransferSteps, CardSteps, Direct, Extended, Who, Bits,
         HandlerType
  <2>3. CASE HandlerRead
    BY <2>3 DEF TypeOK, TransferSteps, CardSteps, Direct, Extended, Who, Bits,
         HandlerType
  <2>4. CASE HandlerWrite
    BY <2>4 DEF TypeOK, TransferSteps, CardSteps, Direct, Extended, Who, Bits,
         HandlerType
  <2> QED  BY <2>1, <2>2, <2>3, <2>4
<1>2. HandlerType'
  <2>1. CASE MmcIrq(p)
    BY <2>1 DEF HandlerType, TypeOK, Bits
  <2>2. CASE DmaIrq
    BY <2>2 DEF HandlerType, TypeOK, Bits
  <2>3. CASE HandlerRead
    BY <2>3 DEF HandlerType, TypeOK, Bits
  <2>4. CASE HandlerWrite
    BY <2>4 DEF HandlerType, TypeOK, Bits
  <2> QED  BY <2>1, <2>2, <2>3, <2>4
<1>3. BusExclusive'
  BY DEF BusExclusive, TransferSteps, CommandPhase, TypeOK
<1>4. CommandPhase'
  BY DEF CommandPhase, BusExclusive, TransferSteps, TypeOK
<1>5. DataPhase'
  BY DEF DataPhase, DataSteps, Extended, BusExclusive, TransferSteps,
       CommandPhase, TypeOK
<1>6. ChannelIdle'
  BY DEF ChannelIdle, BusExclusive, TransferSteps, TypeOK
<1> QED  BY <1>1, <1>2, <1>3, <1>4, <1>5, <1>6

\* An answer of the card, also a damaged one, keeps the invariant.
LEMMA CommandAnsweredStep ==
    ASSUME BusIInv, CommandAnswered
    PROVE  BusIInv'
<1> USE BusConstants DEF BusIInv, Procs, CommandAnswered, Task, Rare,
     taskVars, ctlVars, dmaVars, chipVars
<1>1. TypeOK'
  <2>1. {cmdOf', dataOf', blkOf', cmddoneOf', datadoneOf'} \subseteq Who
    BY DEF TypeOK, Who
  <2>2. irpt' \in SUBSET Bits
    BY DEF TypeOK, Bits
  <2>3. rare' \in 0..MaxRare
    BY DEF TypeOK
  <2> QED  BY <2>1, <2>2, <2>3 DEF TypeOK
<1>2. HandlerType'
  BY DEF HandlerType, TypeOK, Bits
<1>3. BusExclusive'
  BY DEF BusExclusive, TransferSteps, CommandPhase, TypeOK
<1>4. CommandPhase'
  BY DEF CommandPhase, BusExclusive, TransferSteps, TypeOK
<1>5. DataPhase'
  BY DEF DataPhase, DataSteps, Extended, BusExclusive, TransferSteps,
       CommandPhase, TypeOK
<1>6. ChannelIdle'
  BY DEF ChannelIdle, BusExclusive, TransferSteps, TypeOK
<1> QED  BY <1>1, <1>2, <1>3, <1>4, <1>5, <1>6

\* Data carried by the DMA channel keeps the invariant.
LEMMA DataMovesStep ==
    ASSUME BusIInv, DataMoves
    PROVE  BusIInv'
<1> USE BusConstants DEF BusIInv, Procs, DataMoves, Task, taskVars, ctlVars,
     dmaVars, chipVars
<1>1. TypeOK'
  BY DEF TypeOK, TransferSteps, CardSteps, Direct, Extended, Who, Bits,
       HandlerType
<1>2. HandlerType'
  BY DEF HandlerType, TypeOK, Bits
<1>3. BusExclusive'
  BY DEF BusExclusive, TransferSteps, CommandPhase, TypeOK
<1>4. CommandPhase'
  BY DEF CommandPhase, BusExclusive, TransferSteps, TypeOK
<1>5. DataPhase'
  BY DEF DataPhase, DataSteps, Extended, BusExclusive, TransferSteps,
       CommandPhase, TypeOK
<1>6. ChannelIdle'
  BY DEF ChannelIdle, BusExclusive, TransferSteps, TypeOK
<1> QED  BY <1>1, <1>2, <1>3, <1>4, <1>5, <1>6

\* The end of a data phase, also of one given up, keeps the invariant.
LEMMA DataEndsStep ==
    ASSUME BusIInv, DataEnds
    PROVE  BusIInv'
<1> USE BusConstants DEF BusIInv, Procs, DataEnds, Task, Rare, Cleared,
     taskVars, ctlVars, dmaVars, chipVars
<1>1. TypeOK'
  <2>1. {cmdOf', dataOf', blkOf', cmddoneOf', datadoneOf'} \subseteq Who
    BY DEF TypeOK, Who
  <2>2. irpt' \in SUBSET Bits
    BY DEF TypeOK, Bits
  <2>3. rare' \in 0..MaxRare
    BY DEF TypeOK
  <2>4. chip' \subseteq {"frame", "mbox"}
    BY DEF TypeOK
  <2> QED  BY <2>1, <2>2, <2>3, <2>4 DEF TypeOK
<1>2. HandlerType'
  BY DEF HandlerType, TypeOK, Bits
<1>3. BusExclusive'
  BY DEF BusExclusive, TransferSteps, CommandPhase, TypeOK
<1>4. CommandPhase'
  BY DEF CommandPhase, BusExclusive, TransferSteps, TypeOK
<1>5. DataPhase'
  BY DEF DataPhase, DataSteps, Extended, BusExclusive, TransferSteps,
       CommandPhase, TypeOK
<1>6. ChannelIdle'
  BY DEF ChannelIdle, BusExclusive, TransferSteps, TypeOK
<1> QED  BY <1>1, <1>2, <1>3, <1>4, <1>5, <1>6

\* An interrupt of the chip keeps the invariant.
LEMMA ChipInterruptStep ==
    ASSUME BusIInv, NEW i \in {"frame", "mbox"}, ChipInterrupt(i)
    PROVE  BusIInv'
<1> USE BusConstants DEF BusIInv, Procs, ChipInterrupt, Rare, taskVars,
     ctlVars, dmaVars, chipVars
<1>1. TypeOK'
  BY DEF TypeOK, TransferSteps, CardSteps, Direct, Extended, Who, Bits,
       HandlerType
<1>2. HandlerType'
  BY DEF HandlerType, TypeOK, Bits
<1>3. BusExclusive'
  BY DEF BusExclusive, TransferSteps, CommandPhase, TypeOK
<1>4. CommandPhase'
  BY DEF CommandPhase, BusExclusive, TransferSteps, TypeOK
<1>5. DataPhase'
  BY DEF DataPhase, DataSteps, Extended, BusExclusive, TransferSteps,
       CommandPhase, TypeOK
<1>6. ChannelIdle'
  BY DEF ChannelIdle, BusExclusive, TransferSteps, TypeOK
<1> QED  BY <1>1, <1>2, <1>3, <1>4, <1>5, <1>6

-----------------------------------------------------------------------------
\* The invariant implies the property: in particular, the completions a task
\* accepts are those of its own transfer.
LEMMA InvariantSuffices == BusIInv => OwnTransfer
<1> SUFFICES ASSUME BusIInv PROVE OwnTransfer
  OBVIOUS
<1> USE BusConstants DEF BusIInv, Procs
<1>1. OwnCompletion
  BY DEF OwnCompletion, CommandPhase, CommandGood, DataPhase, DataSteps, DataGood, TypeOK
<1>2. ChannelFree
  BY DEF ChannelFree, ChannelIdle, BusExclusive, TransferSteps, TypeOK
<1> QED  BY <1>1, <1>2 DEF OwnTransfer, BusInv

\* Two tasks that share the controller without a queue, with an interrupt
\* handler and hardware that misses its deadlines: a transfer has the bus for
\* itself, counts only its own Cmddone and Datadone, however late those of
\* transfers given up come, and finds the DMA channel free.
THEOREM TransferIsOwn == Spec => []OwnTransfer
<1>1. Init => BusIInv
  <2> SUFFICES ASSUME Init PROVE BusIInv
    OBVIOUS
  <2> USE BusConstants DEF Init, Procs
  <2>1. TypeOK
    <3>1. pc \in [Procs -> TransferSteps \cup CardSteps \cup {"idle", "want"}]
      BY DEF CardSteps
    <3>2. stage \in [Procs -> Direct \cup Extended]
      BY DEF Direct
    <3>3. tries \in [Procs -> 0..(Retries - 1)] /\ rare \in 0..MaxRare
      OBVIOUS
    <3>4. {cmdOf, dataOf, blkOf, cmddoneOf, datadoneOf} \subseteq Who
      BY DEF Who
    <3>5. hand.task \in Procs \cup {None} /\ hand.step \in {"idle", "read", "write"}
      BY DEF Idle
    <3>6. seen \in [Procs -> SUBSET Bits]
      OBVIOUS
    <3> QED  BY <3>1, <3>2, <3>3, <3>4, <3>5, <3>6 DEF TypeOK
  <2>2. HandlerType
    BY DEF HandlerType, Idle
  <2>3. BusExclusive /\ CommandPhase
    BY DEF BusExclusive, CommandPhase, TransferSteps
  <2>4. DataPhase /\ ChannelIdle
    BY DEF DataPhase, DataSteps, ChannelIdle
  <2> QED  BY <2>1, <2>2, <2>3, <2>4 DEF BusIInv
<1>2. BusIInv /\ [Next]_vars => BusIInv'
  <2> SUFFICES ASSUME BusIInv, [Next]_vars PROVE BusIInv'
    OBVIOUS
  <2>1. ASSUME NEW p \in Procs, Acquire(p) \/ Transfer(p) PROVE BusIInv'
    BY <2>1, AcquireStep, IssueStep, AwaitStep, FinishStep, DmaStartStep, DmaWaitStep,
       EnableStep, IoEndStep DEF Transfer
  <2>2. ASSUME NEW s \in {"direct", "packet"}, Start(s) PROVE BusIInv'
    BY <2>2, StartStep
  <2>3. CASE Card
    BY <2>3, CardStep DEF Card
  <2>4. CASE Handlers
    BY <2>4, IrqStep DEF Handlers, Irqs, Procs
  <2>5. CASE Hardware
    BY <2>5, CommandAnsweredStep, DataMovesStep, DataEndsStep DEF Hardware
  <2>6. ASSUME NEW i \in {"frame", "mbox"}, ChipInterrupt(i) PROVE BusIInv'
    BY <2>6, ChipInterruptStep
  <2>7. CASE UNCHANGED vars
    BY <2>7 DEF vars, taskVars, ctlVars, dmaVars, chipVars, BusIInv, TypeOK, HandlerType,
       BusExclusive, CommandPhase, DataPhase, ChannelIdle
  <2> QED  BY <2>1, <2>2, <2>3, <2>4, <2>5, <2>6, <2>7 DEF Next
<1> QED  BY <1>1, <1>2, InvariantSuffices, PTL DEF Spec
=============================================================================
