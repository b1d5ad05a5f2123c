------------------------------- MODULE SdioBus -------------------------------
(***************************************************************************)
(* src/plan9_emmc.c and src/dma.c under the users of them in               *)
(* src/plan9_ether4330.c: two tasks share the controller of the SDIO bus   *)
(* to the wifi chip, while its interrupt handlers and the hardware run.    *)
(*                                                                         *)
(*   Reader   rproc: intwait, which waits for the card interrupt, then     *)
(*            reads and acknowledges the chip's interrupts, and the packet *)
(*            read that follows                                            *)
(*   User     any other task: register accesses and packets                *)
(*                                                                         *)
(* A transfer is one command under sdiolock: CMD52 (sdiord, sdiowr) or one *)
(* round of sdiorwext (CMD53) with its data phase over DMA.  A step is one *)
(* access to a register that a handler, the hardware or the other task     *)
(* writes too.  The code waits by fixed delays: hardware that misses one   *)
(* is a rare failure, as is a command the card answers wrongly.            *)
(***************************************************************************)
EXTENDS Naturals

CONSTANTS Reader, User,  \* the tasks
          None,          \* nobody
          Late, LateAck, \* a transfer its task has given up; one of stage "ack"
          Retries,       \* attempts of sdiowr, 10 in the code
          MaxRare        \* bound: failures of card and hardware and mailbox
                         \* interrupts (the firmware's ready message)

Procs == {Reader, User}

ASSUME BusConstants == /\ Retries \in Nat \ {0} /\ MaxRare \in Nat
                       /\ {None, Late, LateAck} \cap Procs = {}

VARIABLES pc, stage,     \* per task: where it is; what its transfer is for
          seen,          \* per task: the register value it read last
          tries,         \* per task: failed attempts of sdiowr
          sdiolock,      \* the task that holds the mutex
          cmdOf, dataOf, \* whose command (Cmdinhibit) and whose data phase
                         \* (Datinhibit) the controller is executing
          blkOf,         \* whose transfer Blksizecnt is for
          irpt, irpten,  \* registers Interrupt and Irpten
          cmddoneOf, datadoneOf,  \* auxiliary: whose completion the bits tell
          dmaStatus, dmaCS,       \* dma[4].channel_status, register CS
          hand,          \* mmc_interrupt_handler: the task it interrupted, its
                         \* step, and what it will write
          chip,          \* Intstatus: interrupts the chip has for the host
          ints,          \* intwait's local
          owed,          \* auxiliary: a frame came since packets were read last
          rare           \* failures and mailbox interrupts so far

taskVars == <<pc, stage, seen, tries>>
ctlVars  == <<cmdOf, dataOf, blkOf, irpt, irpten, cmddoneOf, datadoneOf>>
dmaVars  == <<dmaStatus, dmaCS>>
chipVars == <<chip, ints, owed>>
vars == <<taskVars, sdiolock, ctlVars, dmaVars, hand, chipVars, rare>>

Bits == {"cmddone", "datadone", "err", "cardintr"}
\* "window" is one of the three writes of sbwindow, "mbox" one of the two
\* transfers that read and acknowledge the mailbox, and "packet" one of the
\* rounds a packet takes.
Direct == {"window", "pend", "direct"}               \* CMD52
Extended == {"intstatus", "ack", "mbox", "packet"}   \* CMD53

Idle == [task |-> None, step |-> "idle", value |-> {}]

\* emmcinit and emmcenable have run, and no transfer has.
Init == /\ pc = [p \in Procs |-> IF p = Reader THEN "cclear" ELSE "idle"]
        /\ stage = [p \in Procs |-> IF p = Reader THEN "window" ELSE "direct"]
        /\ seen = [p \in Procs |-> {}] /\ tries = [p \in Procs |-> 0]
        /\ sdiolock = None /\ cmdOf = None /\ dataOf = None /\ blkOf = None
        /\ irpt = {} /\ irpten = {} /\ cmddoneOf = None /\ datadoneOf = None
        /\ dmaStatus = "need_init" /\ dmaCS = "idle"
        /\ hand = Idle
        /\ chip = {} /\ ints = {} /\ owed = FALSE /\ rare = 0

-----------------------------------------------------------------------------
\* The card holds its interrupt line while it has an interrupt, and the
\* controller samples the line faster than the code accesses its registers.
Line == IF chip # {} THEN {"cardintr"} ELSE {}

\* A pending interrupt is taken before the next instruction of any task, and
\* the handler runs on the stack of the task it interrupted.
IrqPending == irpt \cap irpten # {} \/ dmaCS = "endint"
At(p, l)   == pc[p] = l /\ ~IrqPending /\ hand.task # p
Goto(p, l) == pc' = [pc EXCEPT ![p] = l]
See(p, v)  == seen' = [seen EXCEPT ![p] = v]
Write1(i)  == irpt' = (irpt \ i) \cup Line   \* WR(Interrupt, i)
Rare       == rare < MaxRare /\ rare' = rare + 1

-----------------------------------------------------------------------------
(* A transfer: sdiocmd or one round of sdiorwext, with emmciosetup,        *)
(* emmccmd, emmcio, dma_start and dma_wait.                                *)

Start(s) == /\ At(User, "idle")
            /\ stage' = [stage EXCEPT ![User] = s] /\ Goto(User, "want")
            /\ UNCHANGED <<seen, tries, sdiolock, ctlVars, dmaVars, hand, chipVars, rare>>

\* A transfer that does not wait for the lock.
AcquireNothing(p) ==
    /\ At(p, "want")
    /\ sdiolock' = p /\ Goto(p, "issue")
    /\ UNCHANGED <<stage, seen, tries, ctlVars, dmaVars, hand, chipVars, rare>>

Acquire(p) ==
    /\ At(p, "want") /\ sdiolock = None
    /\ sdiolock' = p /\ Goto(p, "issue")
    /\ UNCHANGED <<stage, seen, tries, ctlVars, dmaVars, hand, chipVars, rare>>

\* A command with data issued on top of an unfinished data phase.
NoReset(p) == dataOf

\* The data phase in progress when the command is issued.
AfterReset(p) == IF stage[p] \in Extended THEN None ELSE dataOf

\* emmciosetup, and emmccmd up to the write of Cmdtm: Cmdinhibit, and
\* Datinhibit if the command has data, reset the circuit; bits left in
\* Interrupt, Cardintr excepted, are cleared.  (cfgreadl has cleared its
\* buffer before.)
Issue(p) ==
    /\ At(p, "issue")
    /\ blkOf' = IF stage[p] \in Extended THEN p ELSE blkOf
    /\ dataOf' = AfterReset(p)
    /\ Write1(Bits \ {"cardintr"}) /\ cmddoneOf' = None /\ datadoneOf' = None
    /\ ints' = IF stage[p] = "intstatus" THEN {} ELSE ints
    /\ owed' = (owed /\ ~(p = Reader /\ stage[p] = "packet"))
    /\ cmdOf' = p /\ Goto(p, "await")
    /\ UNCHANGED <<stage, seen, tries, sdiolock, irpten, dmaVars, hand, chip, rare>>

\* Polls Interrupt for a millisecond.
Await(p) ==
    /\ At(p, "await")
    /\ \/ irpt \cap {"cmddone", "err"} # {} /\ UNCHANGED rare
       \/ irpt \cap {"cmddone", "err"} = {} /\ Rare
    /\ See(p, irpt) /\ Goto(p, "finish")
    /\ UNCHANGED <<stage, tries, sdiolock, ctlVars, dmaVars, hand, chipVars>>

\* Where intwait goes after the transfer of a stage; good: it saw no error.
AfterReader(s, good) ==
    CASE s = "window"    -> "pend"
      [] s = "pend"      -> IF good /\ chip # {} THEN "intstatus" ELSE "cclear"
      [] s = "intstatus" -> "ack"
      [] s = "ack" /\ "mbox" \in ints -> "mbox"
      [] s = "ack" /\ "mbox" \notin ints /\ "frame" \in ints -> "packet"
      [] s = "mbox" /\ "frame" \in ints -> "packet"
      [] OTHER           -> "cclear"

\* sdiowr tries again when the card's response flags an error.
Retry(p, good) == stage[p] \in {"window", "direct"} /\ ~good /\ tries[p] + 1 < Retries

\* mutex_release, and what the task does next.  A command or data phase still
\* in progress is nobody's from now on.
Leave(p, good) ==
    /\ sdiolock' = None /\ blkOf' = None /\ See(p, {})
    /\ dataOf' = IF dataOf # p THEN dataOf ELSE IF stage[p] = "ack" THEN LateAck ELSE Late
    /\ IF Retry(p, good)
         THEN /\ tries' = [tries EXCEPT ![p] = @ + 1]
              /\ Goto(p, "want") /\ UNCHANGED <<stage, ints>>
         ELSE LET s == IF p = User THEN "idle" ELSE AfterReader(stage[p], good)
              IN  /\ tries' = [tries EXCEPT ![p] = 0]
                  /\ ints' = IF s = "cclear" /\ dataOf' # LateAck THEN {} ELSE ints
                  /\ IF s \in {"idle", "cclear"}
                       THEN /\ Goto(p, s)
                            /\ stage' = [stage EXCEPT ![p] = IF p = User THEN "direct" ELSE "window"]
                       ELSE Goto(p, "want") /\ stage' = [stage EXCEPT ![p] = s]

CommandGood(p) == seen[p] \cap {"cmddone", "err"} = {"cmddone"}

\* What was seen, Cardintr included, is cleared.  A failed command is reset
\* and -1 returned, which sdiocmd_locked ignores: the response it hands on is
\* then whatever its uninitialised array held, flags included.
Finish(p) ==
    /\ At(p, "finish")
    /\ Write1(IF CommandGood(p) THEN seen[p] \ {"datadone"} ELSE seen[p])
    /\ cmddoneOf' = None
    /\ cmdOf' = IF CommandGood(p) THEN cmdOf ELSE None
    /\ IF stage[p] \in Extended
         THEN /\ Goto(p, "dma") /\ See(p, {})
              /\ UNCHANGED <<stage, tries, sdiolock, dataOf, blkOf, ints, rare>>
         ELSE \E good \in BOOLEAN :
                /\ Leave(p, good)
                /\ IF good \/ ~CommandGood(p) THEN UNCHANGED rare ELSE Rare
    /\ UNCHANGED <<irpten, datadoneOf, dmaVars, hand, chip, owed>>

\* dma_start.  Its refusal of a busy channel is not looked at by emmcio.
DmaStart(p) ==
    /\ At(p, "dma")
    /\ IF dmaStatus = "ready"
         THEN UNCHANGED dmaVars
         ELSE /\ dmaStatus' = IF dmaStatus = "need_init" THEN "ready" ELSE dmaStatus
              /\ dmaCS' = "active"
    /\ Goto(p, "dmawait")
    /\ UNCHANGED <<stage, seen, tries, sdiolock, ctlVars, hand, chipVars, rare>>

\* dma_wait leaving an unfinished transfer to the channel.
DmaWaitNoReset(p) ==
    /\ At(p, "dmawait")
    /\ dmaStatus' = "end"
    /\ IF dmaCS = "end"
         THEN dmaCS' = "idle" /\ Goto(p, "enread")
              /\ UNCHANGED <<stage, seen, tries, sdiolock, dataOf, blkOf, ints, rare>>
         ELSE /\ IF dataOf = p THEN Rare ELSE UNCHANGED rare
              /\ Leave(p, FALSE) /\ UNCHANGED dmaCS
    /\ UNCHANGED <<cmdOf, irpt, irpten, cmddoneOf, datadoneOf, hand, chip, owed>>

\* dma_wait after its ten milliseconds: the channel has ended, or it is reset
\* and emmcio returns.
DmaWait(p) ==
    /\ At(p, "dmawait")
    /\ dmaStatus' = "end" /\ dmaCS' = "idle"
    /\ IF dmaCS = "end"
         THEN Goto(p, "enread")
              /\ UNCHANGED <<stage, seen, tries, sdiolock, dataOf, blkOf, ints, rare>>
         ELSE /\ IF dataOf = p THEN Rare ELSE UNCHANGED rare
              /\ Leave(p, FALSE)
    /\ UNCHANGED <<cmdOf, irpt, irpten, cmddoneOf, datadoneOf, hand, chip, owed>>

\* WR(Irpten, r[Irpten] | Datadone | Err): a read, a delay and a write.
EnableRead(p) ==
    /\ At(p, "enread")
    /\ See(p, irpten) /\ Goto(p, "enwrite")
    /\ UNCHANGED <<stage, tries, sdiolock, ctlVars, dmaVars, hand, chipVars, rare>>

EnableWrite(p) ==
    /\ At(p, "enwrite")
    /\ irpten' = seen[p] \cup {"datadone", "err"} /\ See(p, {}) /\ Goto(p, "ioread")
    /\ UNCHANGED <<stage, tries, sdiolock, cmdOf, dataOf, blkOf, irpt, cmddoneOf,
                   datadoneOf, dmaVars, hand, chipVars, rare>>

DataGood == irpt \cap {"datadone", "err"} = {"datadone"}

\* emmcio waiting for Datadone until it comes, also when the phase failed.
IoEndPolling(p) ==
    /\ At(p, "ioread")
    /\ IF "datadone" \in irpt
         THEN Write1(Bits \ {"cardintr"}) /\ datadoneOf' = None /\ Leave(p, DataGood)
         ELSE Goto(p, "enread") /\ UNCHANGED <<irpt, datadoneOf, stage, seen, tries,
                                              sdiolock, dataOf, blkOf, ints>>
    /\ UNCHANGED <<cmdOf, irpten, cmddoneOf, dmaVars, hand, chip, owed, rare>>

\* The last part of emmcio, three milliseconds later: what Interrupt holds,
\* Cardintr excepted, is cleared, and emmcio returns in any case.
IoEnd(p) ==
    /\ At(p, "ioread")
    /\ IF "datadone" \in irpt \/ dataOf # p THEN UNCHANGED rare ELSE Rare
    /\ Write1(Bits \ {"cardintr"}) /\ datadoneOf' = None
    /\ Leave(p, DataGood)
    /\ UNCHANGED <<cmdOf, irpten, cmddoneOf, dmaVars, hand, chip, owed>>

-----------------------------------------------------------------------------
(* sdiocardintr, which takes no lock.                                      *)

CardClear ==
    /\ At(Reader, "cclear")
    /\ Write1({"cardintr"}) /\ Goto(Reader, "cread")
    /\ UNCHANGED <<stage, seen, tries, sdiolock, cmdOf, dataOf, blkOf, irpten, cmddoneOf,
                   datadoneOf, dmaVars, hand, chipVars, rare>>

CardFound ==
    /\ At(Reader, "cread") /\ "cardintr" \in irpt
    /\ Goto(Reader, "cack")
    /\ UNCHANGED <<stage, seen, tries, sdiolock, ctlVars, dmaVars, hand, chipVars, rare>>

CardMissing ==
    /\ At(Reader, "cread") /\ "cardintr" \notin irpt
    /\ See(Reader, irpten) /\ Goto(Reader, "cenable")
    /\ UNCHANGED <<stage, tries, sdiolock, ctlVars, dmaVars, hand, chipVars, rare>>

CardEnable ==
    /\ At(Reader, "cenable")
    /\ irpten' = seen[Reader] \cup {"cardintr"} /\ See(Reader, {}) /\ Goto(Reader, "cpoll")
    /\ UNCHANGED <<stage, tries, sdiolock, cmdOf, dataOf, blkOf, irpt, cmddoneOf,
                   datadoneOf, dmaVars, hand, chipVars, rare>>

\* Waiting for an interrupt that is still enabled.
CardPollEnabled ==
    /\ At(Reader, "cpoll") /\ "cardintr" \in irpt \cap irpten
    /\ Goto(Reader, "cread")
    /\ UNCHANGED <<stage, seen, tries, sdiolock, ctlVars, dmaVars, hand, chipVars, rare>>

\* sleep(&emmc.cardr, cardintready): schedules and polls.
CardPoll ==
    /\ At(Reader, "cpoll") /\ "cardintr" \in irpt
    /\ Goto(Reader, "cread")
    /\ UNCHANGED <<stage, seen, tries, sdiolock, ctlVars, dmaVars, hand, chipVars, rare>>

CardAck ==
    /\ At(Reader, "cack")
    /\ Write1({"cardintr"})
    /\ stage' = [stage EXCEPT ![Reader] = "window"] /\ Goto(Reader, "want")
    /\ UNCHANGED <<seen, tries, sdiolock, cmdOf, dataOf, blkOf, irpten, cmddoneOf,
                   datadoneOf, dmaVars, hand, chipVars, rare>>

-----------------------------------------------------------------------------
(* The interrupt handlers.                                                 *)

\* irq_handler with mmcinterrupt, which runs masked.  Then interrupts are on
\* again, and mmc_interrupt_handler can itself lose the processor; one that
\* interrupts another is taken in one step.
MmcIrq(p) ==
    /\ irpt \cap irpten # {}
    /\ irpten' = irpten \ irpt
    /\ hand' = IF hand = Idle THEN [Idle EXCEPT !.task = p, !.step = "read"] ELSE hand
    /\ UNCHANGED <<taskVars, sdiolock, cmdOf, dataOf, blkOf, irpt, cmddoneOf, datadoneOf,
                   dmaVars, chipVars, rare>>

HandlerRead ==
    /\ ~IrqPending /\ hand.step = "read"
    /\ hand' = [hand EXCEPT !.step = "write", !.value = irpten \ irpt]
    /\ UNCHANGED <<taskVars, sdiolock, ctlVars, dmaVars, chipVars, rare>>

\* WR(Irpten, r[Irpten] & ~i); wakeup does nothing.
HandlerWrite ==
    /\ ~IrqPending /\ hand.step = "write"
    /\ irpten' = hand.value /\ hand' = Idle
    /\ UNCHANGED <<taskVars, sdiolock, cmdOf, dataOf, blkOf, irpt, cmddoneOf, datadoneOf,
                   dmaVars, chipVars, rare>>

\* dma_irq_clearer.
DmaIrq ==
    /\ dmaCS = "endint"
    /\ dmaCS' = "end" /\ dmaStatus' = "end"
    /\ UNCHANGED <<taskVars, sdiolock, ctlVars, hand, chipVars, rare>>

-----------------------------------------------------------------------------
(* The controller, the DMA engine and the chip (external).                 *)

Task(who) == who \in Procs

\* The card answers; a damaged answer may come from a card that goes on.
CommandAnswered ==
    /\ cmdOf # None /\ cmdOf' = None
    /\ cmddoneOf' = cmdOf
    /\ LET data == IF Task(cmdOf) /\ stage[cmdOf] \in Extended THEN cmdOf ELSE dataOf
       IN  \/ irpt' = irpt \cup {"cmddone"} /\ dataOf' = data /\ UNCHANGED rare
           \/ irpt' = irpt \cup {"err"} /\ dataOf' \in {data, dataOf} /\ Rare
    /\ UNCHANGED <<taskVars, sdiolock, blkOf, irpten, datadoneOf, dmaVars, hand, chipVars>>

\* The data of the phase goes through the active DMA channel.
DataMoves ==
    /\ Task(dataOf) /\ dmaCS = "active"
    /\ dmaCS' = "endint"
    /\ ints' = IF stage[dataOf] = "intstatus" THEN chip ELSE ints
    /\ UNCHANGED <<taskVars, sdiolock, ctlVars, dmaStatus, hand, chip, owed, rare>>

\* The chip clears the bits of Intstatus that are written to it.
Cleared(who) == IF who = LateAck \/ (who = Reader /\ stage[Reader] = "ack") THEN chip \ ints ELSE chip

\* The DMA channel has carried the data of the phase.
Moved(who) == dmaCS \in {"endint", "end"} \/ pc[who] \in {"enread", "enwrite", "ioread"}

\* The data phase ends once its data has moved, or with an error.  One that
\* was given up may still end.
DataEnds ==
    /\ dataOf # None /\ dataOf' = None
    /\ datadoneOf' = dataOf
    /\ \/ /\ Task(dataOf) => Moved(dataOf)
          /\ irpt' = irpt \cup {"datadone"} /\ chip' = Cleared(dataOf) /\ UNCHANGED rare
       \/ irpt' = irpt \cup {"err"} /\ UNCHANGED chip /\ Rare
    /\ UNCHANGED <<taskVars, sdiolock, cmdOf, blkOf, irpten, cmddoneOf, dmaVars, hand, ints, owed>>

ChipInterrupt(i) ==
    /\ i \notin chip /\ chip' = chip \cup {i} /\ irpt' = irpt \cup {"cardintr"}
    /\ owed' = (owed \/ i = "frame")
    /\ IF i = "mbox" THEN Rare ELSE UNCHANGED rare
    /\ UNCHANGED <<taskVars, sdiolock, cmdOf, dataOf, blkOf, irpten, cmddoneOf, datadoneOf,
                   dmaVars, hand, ints>>

-----------------------------------------------------------------------------
Transfer(p) == \/ Issue(p) \/ Await(p) \/ Finish(p) \/ DmaStart(p) \/ DmaWait(p)
               \/ EnableRead(p) \/ EnableWrite(p) \/ IoEnd(p)
Card == CardClear \/ CardFound \/ CardMissing \/ CardEnable \/ CardPoll \/ CardAck
Irqs == DmaIrq \/ \E p \in Procs : MmcIrq(p)
Handlers == Irqs \/ HandlerRead \/ HandlerWrite
Hardware == CommandAnswered \/ DataMoves \/ DataEnds

Next == \/ \E p \in Procs : Acquire(p) \/ Transfer(p)
        \/ \E s \in {"direct", "packet"} : Start(s)
        \/ Card \/ Handlers \/ Hardware
        \/ \E i \in {"frame", "mbox"} : ChipInterrupt(i)

Spec == Init /\ [][Next]_vars

\* The reader gets the mutex if it is free again and again while it waits
\* (NoStarvation of module Mutex).
MutexFair == []<>(pc[Reader] = "want" /\ sdiolock = None) => []<>(sdiolock = Reader)

\* Every task gets the processor again and again, and not only while an
\* interrupt is pending: handlers are short.  The reader is not the one every
\* interrupt falls on.  Interrupts are taken, and the hardware answers.
Fairness == /\ SF_vars(Transfer(Reader) \/ Card) /\ SF_vars(Transfer(User)) /\ MutexFair
            /\ SF_vars(HandlerRead \/ HandlerWrite)
            /\ SF_vars(MmcIrq(User) /\ hand'.task = User)
            /\ WF_vars(Irqs \/ Hardware)
FairSpec == Spec /\ Fairness

-----------------------------------------------------------------------------
(* Properties.                                                             *)

TransferSteps == {"issue", "await", "finish", "dma", "dmawait", "enread", "enwrite", "ioread"}
CardSteps == {"cclear", "cread", "cenable", "cpoll", "cack"}
Who == Procs \cup {None, Late, LateAck}

TypeOK == /\ pc \in [Procs -> TransferSteps \cup CardSteps \cup {"idle", "want"}]
          /\ stage \in [Procs -> Direct \cup Extended]
          /\ seen \in [Procs -> SUBSET Bits]
          /\ tries \in [Procs -> 0..(Retries - 1)]
          /\ sdiolock \in Procs \cup {None}
          /\ {cmdOf, dataOf, blkOf, cmddoneOf, datadoneOf} \subseteq Who
          /\ irpt \in SUBSET Bits /\ irpten \in SUBSET Bits
          /\ dmaStatus \in {"need_init", "ready", "end"}
          /\ dmaCS \in {"idle", "active", "endint", "end"}
          /\ hand.task \in Procs \cup {None} /\ hand.step \in {"idle", "read", "write"}
          /\ chip \subseteq {"frame", "mbox"} /\ ints \subseteq {"frame", "mbox"}
          /\ owed \in BOOLEAN /\ rare \in 0..MaxRare

\* Only the holder of sdiolock is inside a transfer, and it alone has a
\* command or a data phase in progress that is not given up.
BusExclusive ==
    \A p \in Procs : /\ pc[p] \in TransferSteps <=> sdiolock = p
                     /\ p \in {cmdOf, dataOf, blkOf} => sdiolock = p

BusInv == TypeOK /\ BusExclusive

\* A task takes a completion for its own only when it is: one that comes late
\* from a transfer given up after its delay, by this task or the other, is
\* never counted for the next.
OwnCompletion ==
    \A p \in Procs :
       /\ pc[p] = "finish" /\ CommandGood(p) => cmddoneOf = p
       /\ pc[p] = "ioread" /\ DataGood => datadoneOf = p /\ blkOf = p

\* dma_start never finds the channel busy, although emmcio would then go on
\* without a transfer, and the channel is idle whenever nobody waits for it.
ChannelFree ==
    /\ \A p \in Procs : pc[p] = "dma" => dmaStatus # "ready" /\ dmaCS = "idle"
    /\ (\A p \in Procs : pc[p] # "dmawait") => dmaCS = "idle"

\* A transfer has the bus for itself, ends with its own completions, and
\* leaves the DMA channel free for the next.
OwnTransfer == BusInv /\ OwnCompletion /\ ChannelFree

\* Every transfer ends and gives sdiolock back, whatever fails.
LockReturned == []<>(sdiolock = None)

\* No frame of the chip is left unread: its interrupt survives the updates
\* of Irpten that the tasks and the handler undo for each other, the clearing
\* of Cardintr by other commands, and failed transfers.
FramesFetched == []<>~owed
=============================================================================
