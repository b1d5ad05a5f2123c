---------------------------- MODULE ChipBringup ----------------------------
(***************************************************************************)
(* src/plan9_ether4330.c: etherbcmattach brings the wifi chip up, one      *)
(* register access after the other: sdioinit (over emmcinit, emmcenable    *)
(* and the clock and width settings of emmccmd in plan9_emmc.c), sbinit    *)
(* with corescan and ramscan, fwload around the upload (module             *)
(* FirmwareLoad), sbenable, and the start of the driver's tasks.           *)
(*                                                                         *)
(* A backplane register has an address; the chip decodes the offset in the *)
(* window that sbwindow has chosen.  No access reports a failure: a read   *)
(* then gives 0 (cfgreadl) or anything (cfgr, whose response is an array   *)
(* nobody set), a write is lost, a window is anything.                     *)
(***************************************************************************)
EXTENDS Integers, Sequences, FiniteSets, SequencesExt

CONSTANTS Boards,              \* what may be on the board
          Firmware,            \* firmware[]: its <<chipid, chiprev>>
          Rates,               \* clock rates the mailbox may report; 0: it does not
          Extfreq, Initfreq, SDfreq,
          Win,                 \* Sbwsize
          Enumbase, Erom,      \* where chip id and core table are
          OpTries,             \* 5
          HtTries, ReadyTries, \* 50 and 10
          MaxFaults            \* bound: accesses that fail

Supported == {17200, 43362, 43430, 17221}   \* 0x4330, 43362, 43430, 0x4345
CpuHalt == 32   \* Cr4Cpuhalt
Arm == {"cm3", "arm7", "cr4"}
Cores == Arm \cup {"cc", "socram", "sdio", "d11", "other"}

VARIABLES pc, i,
          chip,       \* the chip on the board, described below
          dev,        \* its registers
          bus,        \* bus clock and width of the host, clock of the controller
          ctl,        \* the Ctlr
          call,       \* arguments of sbdisable and sbreset
          core, size, \* locals of corescan and of ramscan
          faults,
          note        \* auxiliary: an access went to another register than meant;
                      \* the core table was not read; sbenable returned early

vars == <<pc, i, chip, dev, bus, ctl, call, core, size, faults, note>>

-----------------------------------------------------------------------------
(* The chip.  It is described by its cores, each with an id, a revision and*)
(* its addresses: of registers, or (ctl) of its wrapper on the backplane.  *)

\* The table has two words for a core, one for each address, and an end mark.
Words(c) == <<[kind |-> "id", id |-> c.id], [kind |-> "rev", rev |-> c.rev]>>
            \o [m \in DOMAIN c.addrs |-> [kind |-> "address", ctl |-> c.addrs[m].ctl, at |-> c.addrs[m].at]]
Table(cores) == Append(FlattenSeq([k \in DOMAIN cores |-> Words(cores[k])]), [kind |-> "end"])

\* Addresses of one kind that the cores with one of these ids have, in order.
Of(cores, ids, c) ==
    LET mine == SelectSeq(cores, LAMBDA k : k.id \in ids)
    IN  SelectSeq(FlattenSeq([k \in DOMAIN mine |-> mine[k].addrs]), LAMBDA a : a.ctl = c)
FirstOf(s) == IF s = <<>> THEN 0 ELSE s[1].at
LastOf(s) == IF s = <<>> THEN 0 ELSE s[Len(s)].at

\* What the Ctlr ought to say about a chip with these cores.
Layout(cores) ==
    [armctl |-> FirstOf(Of(cores, Arm, TRUE)), armregs |-> FirstOf(Of(cores, Arm, FALSE)),
     socramctl |-> LastOf(Of(cores, {"socram"}, TRUE)), socramregs |-> FirstOf(Of(cores, {"socram"}, FALSE)),
     sdregs |-> LastOf(Of(cores, {"sdio"}, FALSE)), d11ctl |-> LastOf(Of(cores, {"d11"}, TRUE)),
     chipcommon |-> LastOf(Of(cores, {"cc"}, FALSE))]

\* A chip: its id and revision, after how many commands it answers, its table,
\* the layout behind it, the sizes of its RAM banks and its wrappers.
Chip(b) == LET cores == b.cores IN
    [id |-> b.id, rev |-> b.rev, wakes |-> b.wakes, erom |-> Table(cores), layout |-> Layout(cores),
     banks |-> b.banks, ram |-> FoldLeft(LAMBDA x, y : x + y, 0, b.banks),
     wrappers |-> {a.at : a \in Range(Of(cores, Cores, TRUE))},
     complete |-> /\ \A d \in {"armctl", "armregs", "sdregs", "d11ctl", "chipcommon"} : Layout(cores)[d] # 0
                  /\ \E k \in DOMAIN cores : \/ cores[k].id = "cr4"
                                             \/ cores[k].id = "socram" /\ cores[k].rev \notin (0 .. 7) \cup {12}]

NoCtl == [chipid |-> 0, chiprev |-> 0, armcore |-> "none", armctl |-> 0, armregs |-> 0, socramctl |-> 0,
          socramregs |-> 0, socramrev |-> 0, sdregs |-> 0, d11ctl |-> 0, chipcommon |-> 0,
          socramsize |-> 0, rambase |-> 0]

NoCore == [id |-> "none", rev |-> 0, k |-> 0]

Init == /\ pc = "off" /\ i = 0 /\ chip \in {Chip(b) : b \in Boards} /\ ctl = NoCtl /\ core = NoCore /\ size = 0 /\ faults = 0
        /\ dev = [selected |-> FALSE, wide |-> FALSE, fn |-> {}, ready |-> {}, window |-> 0,
                  req |-> "none", clock |-> "none", drive |-> 0, ints |-> FALSE,
                  wrap |-> [a \in chip.wrappers |-> [reset |-> FALSE, ioctl |-> {1}]]]
        /\ bus = [rate |-> 0, freq |-> 0, wide |-> FALSE]
        /\ call = [at |-> 0, pre |-> {}, io |-> {}, start |-> FALSE, to |-> "off"]
        /\ note = [stray |-> FALSE, misread |-> FALSE, early |-> FALSE]

Fault == faults < MaxFaults /\ faults' = faults + 1
NoFault == UNCHANGED faults
Clean == NoFault /\ UNCHANGED note

\* The register at a is reached if the window is its own.
Reached(a) == dev.selected /\ dev.window + (a % Win) = a
Touch(a) == note' = [note EXCEPT !.stray = @ \/ (dev.selected /\ ~Reached(a))]

\* cfgreadl of a register that holds v; any is what stray reads may give.
Read(a, v, any, r) ==
    /\ Touch(a)
    /\ \/ (Reached(a) => r = v) /\ (~dev.selected => r = 0) /\ r \in any \cup {0, v} /\ NoFault
       \/ r = 0 /\ Fault

\* cfgwritel: the wrapper at a gets v, unless the write is lost.
Wrapper(a, field, v) ==
    /\ Touch(a)
    /\ \/ /\ NoFault
          /\ dev' = IF Reached(a) /\ a \in DOMAIN dev.wrap
                      THEN [dev EXCEPT !.wrap[a] = [@ EXCEPT ![field] = v]] ELSE dev
       \/ Fault /\ UNCHANGED dev

\* sbwindow: three bytes, each with ten tries.
sbwindow(a) ==
    \/ NoFault /\ dev' = [dev EXCEPT !.window = a - (a % Win)]
    \/ Fault /\ \E b \in {0, Enumbase, Erom} : dev' = [dev EXCEPT !.window = b - (b % Win)]

-----------------------------------------------------------------------------
(* sdioinit.                                                               *)

\* The clock that emmcclk sets: the divisor is rounded up where rounding down
\* would give more than freq.
Emmcclk(rate, freq) ==
    LET div == rate \div (2 * freq)
        up  == IF rate \div (2 * div) > freq THEN div + 1 ELSE div
    IN  rate \div (2 * up)

\* emmcinit and emmcenable, GO_IDLE_STATE and the first CMD5.
SdioInit ==
    /\ pc = "off"
    /\ \E c \in Rates :
         LET rate == IF c = 0 THEN Extfreq ELSE c
         IN  bus' = [bus EXCEPT !.rate = rate, !.freq = Emmcclk(rate, Initfreq)]
    /\ pc' = "opcond" /\ i' = 0 /\ Clean
    /\ UNCHANGED <<chip, dev, ctl, call, size, core>>

\* The tries are not counted.
OpCondForever ==
    /\ pc = "opcond"
    /\ pc' = (IF chip.wakes <= OpTries THEN "select" ELSE "opcond")
    /\ Clean /\ UNCHANGED <<i, chip, dev, bus, ctl, call, size, core>>

\* IO_SEND_OP_COND until the chip is ready; after OpTries more the function
\* returns, and its caller goes on.
OpCond ==
    /\ pc = "opcond"
    /\ \E up \in BOOLEAN :
         /\ \/ up = (i >= chip.wakes) /\ NoFault
            \/ Fault
         /\ IF up THEN pc' = "select" /\ i' = 0
            ELSE IF i < OpTries THEN i' = i + 1 /\ UNCHANGED pc
            ELSE pc' = "chipid" /\ i' = 0
    /\ UNCHANGED <<chip, dev, bus, ctl, call, size, note, core>>

\* SEND_RELATIVE_ADDR and SELECT_CARD: a chip that is not awake does not
\* listen.  emmccmd raises the clock after the second.
Select ==
    /\ pc = "select"
    /\ \/ NoFault /\ dev' = [dev EXCEPT !.selected = chip.wakes <= OpTries]
       \/ Fault /\ UNCHANGED dev
    /\ bus' = [bus EXCEPT !.freq = Emmcclk(bus.rate, SDfreq)]
    /\ pc' = "setup" /\ UNCHANGED <<i, chip, ctl, call, size, note, core>>

\* Bus width, of the chip and in emmccmd of the host, block sizes, function
\* 1, no interrupts.  A refused write is tried again ten times.
Setup ==
    /\ pc = "setup"
    /\ \/ /\ NoFault
          /\ dev' = IF dev.selected THEN [dev EXCEPT !.wide = TRUE, !.fn = @ \cup {1}] ELSE dev
          /\ bus' = [bus EXCEPT !.wide = dev.selected]
       \/ \E k \in {"width", "function"} :
            /\ Fault
            /\ dev' = IF ~dev.selected THEN dev
                      ELSE IF k = "width" THEN [dev EXCEPT !.fn = @ \cup {1}]
                      ELSE [dev EXCEPT !.wide = TRUE]
            /\ bus' = [bus EXCEPT !.wide = dev.selected /\ k # "width"]
    /\ pc' = "fn1" /\ i' = 0 /\ UNCHANGED <<chip, ctl, call, size, note, core>>

\* No end to the wait for function 1.
WaitFn1 ==
    /\ pc = "fn1"
    /\ \/ NoFault /\ pc' = IF 1 \in dev.ready THEN "chipid" ELSE "fn1"
       \/ Fault /\ pc' \in {"chipid", "fn1"}
    /\ UNCHANGED <<i, chip, dev, bus, ctl, call, size, note, core>>

-----------------------------------------------------------------------------
(* sbinit, corescan and ramscan.                                           *)

ChipId ==
    /\ pc = "chipid"
    /\ sbwindow(Enumbase) /\ pc' = "id"
    /\ UNCHANGED <<i, chip, bus, ctl, call, size, note, core>>

\* A chip that is not supported: back to etherbcmattach, which goes on.
Id ==
    /\ pc = "id"
    /\ \E r \in {0, chip.id} :
         /\ Read(Enumbase, chip.id, {}, r)
         /\ IF r \in Supported THEN ctl' = [ctl EXCEPT !.chipid = r, !.chiprev = chip.rev] /\ pc' = "scan"
                               ELSE UNCHANGED ctl /\ pc' = "fwload"
    /\ UNCHANGED <<i, chip, dev, bus, call, size, core>>

\* What one address does to the Ctlr: for some fields the first counts, for
\* others the last.
First(old, new) == IF old = 0 THEN new ELSE old
Core(c, a) ==
    CASE a.id = "cc" /\ ~a.ctl -> [c EXCEPT !.chipcommon = a.at]
      [] a.id \in Arm /\ a.ctl -> [c EXCEPT !.armcore = a.id, !.armctl = First(@, a.at)]
      [] a.id \in Arm /\ ~a.ctl -> [c EXCEPT !.armcore = a.id, !.armregs = First(@, a.at)]
      [] a.id = "socram" /\ a.ctl -> [c EXCEPT !.socramctl = a.at, !.socramrev = a.rev]
      [] a.id = "socram" /\ ~a.ctl -> [c EXCEPT !.socramregs = First(@, a.at), !.socramrev = a.rev]
      [] a.id = "sdio" /\ ~a.ctl -> [c EXCEPT !.sdregs = a.at]
      [] a.id = "d11" /\ a.ctl -> [c EXCEPT !.d11ctl = a.at]
      [] OTHER -> c

\* corescan: the table is read into a buffer, wholly, or only its beginning,
\* with zeroes behind it (nothing at all: no memory for the buffer).
Corescan ==
    /\ pc = "scan"
    /\ \/ NoFault /\ i' = Len(chip.erom) /\ UNCHANGED note
       \/ Fault /\ i' \in 0 .. (Len(chip.erom) - 1) /\ note' = [note EXCEPT !.misread = TRUE]
    /\ dev' = [dev EXCEPT !.window = Erom - (Erom % Win)]
    /\ core' = [id |-> "none", rev |-> 0, k |-> 1] /\ pc' = "words"
    /\ UNCHANGED <<chip, bus, ctl, call, size>>

\* The revision of a core is not taken over.
WordRevKept ==
    /\ pc = "words" /\ core.k <= i /\ chip.erom[core.k].kind # "end"
    /\ LET w == chip.erom[core.k]
           c == [core EXCEPT !.k = @ + 1]
       IN  /\ core' = IF w.kind = "id" THEN [c EXCEPT !.id = w.id] ELSE c
           /\ ctl' = IF w.kind = "address" THEN Core(ctl, [id |-> core.id, rev |-> core.rev, ctl |-> w.ctl, at |-> w.at])
                     ELSE ctl
    /\ Clean /\ UNCHANGED <<pc, i, chip, dev, bus, call, size>>

\* One word of the table.
Word ==
    /\ pc = "words" /\ core.k <= i /\ chip.erom[core.k].kind # "end"
    /\ LET w == chip.erom[core.k]
           c == [core EXCEPT !.k = @ + 1]
       IN  /\ core' = CASE w.kind = "id"  -> [c EXCEPT !.id = w.id]
                        [] w.kind = "rev" -> [c EXCEPT !.rev = w.rev]
                        [] OTHER          -> c
           /\ ctl' = IF w.kind = "address" THEN Core(ctl, [id |-> core.id, rev |-> core.rev, ctl |-> w.ctl, at |-> w.at])
                     ELSE ctl
    /\ Clean /\ UNCHANGED <<pc, i, chip, dev, bus, call, size>>

\* The end mark, or the end of the buffer.
ScanEnd == /\ pc = "words" /\ (core.k <= i => chip.erom[core.k].kind = "end")
           /\ pc' = "arm" /\ i' = 0 /\ core' = NoCore
           /\ Clean /\ UNCHANGED <<chip, dev, bus, ctl, call, size>>

Call(at, pre, io, start, to) ==
    /\ call' = [at |-> at, pre |-> pre, io |-> io, start |-> start, to |-> to]
    /\ pc' = "disable"

\* The processor is left as the boot ROM runs it.
HaltNothing == pc = "arm" /\ pc' = "d11" /\ Clean /\ UNCHANGED <<i, chip, dev, bus, ctl, call, core, size>>

\* The processor is held in reset, a Cr4 by its halt bit.
HaltArm ==
    /\ pc = "arm"
    /\ IF ctl.armcore = "cr4" THEN Call(ctl.armctl, {CpuHalt}, {CpuHalt}, TRUE, "d11")
                              ELSE Call(ctl.armctl, {}, {}, FALSE, "d11")
    /\ Clean /\ UNCHANGED <<i, chip, dev, bus, ctl, size, core>>

ResetD11 ==
    /\ pc = "d11" /\ Call(ctl.d11ctl, {8, 4}, {4}, TRUE, "ram")
    /\ Clean /\ UNCHANGED <<i, chip, dev, bus, ctl, size, core>>

\* A socram core of an old revision is not supported: the size stays 0.
RamScan ==
    /\ pc = "ram" /\ i' = 0 /\ size' = 0
    /\ IF ctl.armcore = "cr4" THEN pc' = "window" /\ UNCHANGED call
       ELSE IF ctl.socramrev <= 7 \/ ctl.socramrev = 12 THEN pc' = "clock" /\ UNCHANGED call
       ELSE Call(ctl.socramctl, {}, {}, TRUE, "window")
    /\ Clean /\ UNCHANGED <<chip, dev, bus, ctl, core>>

RamRegs == IF ctl.armcore = "cr4" THEN ctl.armregs ELSE ctl.socramregs

\* The window is left where sbreset put it.
RamWindowKept == pc = "window" /\ pc' = "banks" /\ Clean /\ UNCHANGED <<i, chip, dev, bus, ctl, call, size, core>>

RamWindow == /\ pc = "window" /\ sbwindow(RamRegs) /\ pc' = "banks"
             /\ UNCHANGED <<i, chip, bus, ctl, call, size, note, core>>

\* The number of banks, then for each its index written and its size read.
Banks ==
    /\ pc = "banks"
    /\ \E n \in {0, Len(chip.banks)} : Read(RamRegs, Len(chip.banks), {}, n) /\ i' = n
    /\ pc' = "bank" /\ UNCHANGED <<chip, dev, bus, ctl, call, size, core>>

Bank ==
    /\ pc = "bank" /\ i > 0
    /\ \/ /\ Touch(RamRegs) /\ NoFault
          /\ size' = size + IF Reached(RamRegs) THEN chip.banks[Len(chip.banks) + 1 - i] ELSE 1
       \/ /\ Fault /\ Touch(RamRegs)
          /\ \E s \in {chip.banks[k] : k \in DOMAIN chip.banks} \cup {1} : size' = size + s
    /\ i' = i - 1 /\ UNCHANGED <<pc, chip, dev, bus, ctl, call, core>>

BanksDone ==
    /\ pc = "bank" /\ i = 0
    /\ ctl' = [ctl EXCEPT !.socramsize = size, !.rambase = IF ctl.armcore = "cr4" THEN 1 ELSE 0]
    /\ IF ctl.chipid = 43430 THEN Touch(RamRegs) ELSE UNCHANGED note
    /\ NoFault /\ pc' = "clock" /\ UNCHANGED <<i, chip, dev, bus, call, size, core>>

-----------------------------------------------------------------------------
(* sbdisable and sbreset.                                                  *)

Disable == /\ pc = "disable" /\ sbwindow(call.at) /\ pc' = "in reset?"
           /\ UNCHANGED <<i, chip, bus, ctl, call, size, note, core>>

\* Resetctrl of the wrapper at a.
ResetOf(a) == IF a \in DOMAIN dev.wrap /\ dev.wrap[a].reset THEN 1 ELSE 0

InReset ==
    /\ pc = "in reset?"
    /\ \E r \in {0, 1} : /\ Read(call.at, ResetOf(call.at), {0, 1}, r)
                         /\ pc' = IF r = 1 THEN "hold" ELSE "prepare"
    /\ UNCHANGED <<i, chip, dev, bus, ctl, call, size, core>>

Prepare == /\ pc = "prepare" /\ Wrapper(call.at, "ioctl", {1, 2} \cup call.pre) /\ pc' = "reset"
           /\ UNCHANGED <<i, chip, bus, ctl, call, size, core>>

\* Written once; the loop behind it only reads.
Reset ==
    /\ pc = "reset"
    /\ Wrapper(call.at, "reset", TRUE) /\ pc' = "resetting"
    /\ UNCHANGED <<i, chip, bus, ctl, call, size, core>>

Resetting ==
    /\ pc = "resetting"
    /\ \E r \in {0, 1} : /\ Read(call.at, ResetOf(call.at), {0, 1}, r)
                         /\ pc' = IF r = 1 THEN "hold" ELSE "resetting"
    /\ UNCHANGED <<i, chip, dev, bus, ctl, call, size, core>>

Hold == /\ pc = "hold" /\ Wrapper(call.at, "ioctl", {1, 2} \cup call.io)
        /\ pc' = IF call.start THEN "restart" ELSE call.to
        /\ UNCHANGED <<i, chip, bus, ctl, call, size, core>>

Restart == /\ pc = "restart" /\ sbwindow(call.at) /\ pc' = "still?"
           /\ UNCHANGED <<i, chip, bus, ctl, call, size, note, core>>

StillInReset ==
    /\ pc = "still?"
    /\ \E r \in {0, 1} : /\ Read(call.at, ResetOf(call.at), {0, 1}, r)
                         /\ pc' = IF r = 1 THEN "leave" ELSE "go"
    /\ UNCHANGED <<i, chip, dev, bus, ctl, call, size, core>>

Leave == /\ pc = "leave" /\ Wrapper(call.at, "reset", FALSE) /\ pc' = "still?"
         /\ UNCHANGED <<i, chip, bus, ctl, call, size, core>>

Go == /\ pc = "go" /\ Wrapper(call.at, "ioctl", {1} \cup call.io) /\ pc' = call.to
      /\ UNCHANGED <<i, chip, bus, ctl, call, size, core>>

-----------------------------------------------------------------------------
(* The clock, the end of sbinit, fwload and sbenable.                      *)

\* cfgw(Clkcsr, r): the clock goes until the chip has it up again.
Request(r) == \/ NoFault /\ dev' = [dev EXCEPT !.req = r, !.clock = "none"]
              \/ Fault /\ dev' = [dev EXCEPT !.req = "none", !.clock = "none"]

\* The loop that waits for a clock, in sbinit and in fwload, has no end.
WaitClock(at, to) ==
    /\ pc = at
    /\ \/ NoFault /\ pc' = IF dev.clock = "none" THEN at ELSE to
       \/ Fault /\ pc' \in {at, to}
    /\ UNCHANGED <<i, chip, dev, bus, ctl, call, size, note, core>>

Clock == /\ pc = "clock" /\ Request("alp") /\ pc' = "alp"
         /\ UNCHANGED <<i, chip, bus, ctl, call, size, note, core>>
WaitAlp == WaitClock("alp", "gpio")

Gpio == /\ pc = "gpio" /\ sbwindow(ctl.chipcommon) /\ pc' = "pulls"
        /\ UNCHANGED <<i, chip, bus, ctl, call, size, note, core>>

\* Pull-ups, and for two chips the drive strength, if Chipctladdr reads back.
Pulls ==
    /\ pc = "pulls" /\ Touch(ctl.chipcommon)
    /\ \/ /\ NoFault
          /\ dev' = IF ctl.chipid \in {17200, 43362} /\ Reached(ctl.chipcommon)
                      THEN [dev EXCEPT !.drive = IF ctl.chipid = 17200 THEN 3 ELSE 7] ELSE dev
       \/ Fault /\ UNCHANGED dev
    /\ pc' = "fwload" /\ UNCHANGED <<i, chip, bus, ctl, call, size, core>>

\* The search in firmware[] does not stop at its end.
FwLoad ==
    /\ pc = "fwload"
    /\ IF <<ctl.chipid, ctl.chiprev>> \in Firmware
         THEN Request("alp") /\ pc' = "alp2"
         ELSE NoFault /\ pc' = "overrun" /\ UNCHANGED dev
    /\ UNCHANGED <<i, chip, bus, ctl, call, size, note, core>>
WaitAlp2 == WaitClock("alp2", "load")

\* The uploads (module FirmwareLoad), then the processor is let go; for a Cr4
\* Intstatus is cleared first.
Upload ==
    /\ pc = "load"
    /\ IF ctl.armcore = "cr4" THEN sbwindow(ctl.sdregs) /\ Call(ctl.armctl, {CpuHalt}, {}, TRUE, "enable")
                              ELSE NoFault /\ UNCHANGED dev /\ Call(ctl.armctl, {}, {}, TRUE, "enable")
    /\ UNCHANGED <<i, chip, bus, ctl, size, note, core>>

Enable == /\ pc = "enable" /\ Request("ht") /\ pc' = "ht" /\ i' = 0
          /\ UNCHANGED <<chip, bus, ctl, call, size, note, core>>

\* HtTries looks at the clock, ReadyTries at function 2; then sbenable returns
\* and says nothing.
Poll(at, seen, tries, to) ==
    /\ pc = at
    /\ \E up \in BOOLEAN :
         /\ \/ up = seen /\ NoFault
            \/ Fault
         /\ IF up THEN pc' = to /\ i' = 0 /\ UNCHANGED note
            ELSE IF i < tries THEN i' = i + 1 /\ UNCHANGED <<pc, note>>
            ELSE pc' = "start" /\ i' = 0 /\ note' = [note EXCEPT !.early = TRUE]
    /\ UNCHANGED <<chip, dev, bus, ctl, call, size, core>>

WaitHt == Poll("ht", dev.clock = "ht", HtTries, "mailbox")
WaitFn2 == Poll("fn2", 2 \in dev.ready, ReadyTries, "interrupts")

Mailbox == /\ pc = "mailbox" /\ sbwindow(ctl.sdregs) /\ pc' = "function 2"
           /\ UNCHANGED <<i, chip, bus, ctl, call, size, note, core>>

\* Protocol version, interrupt mask, and function 2 enabled.
Function2 ==
    /\ pc = "function 2" /\ Touch(ctl.sdregs)
    /\ \/ NoFault /\ dev' = [dev EXCEPT !.fn = @ \cup {2}]
       \/ Fault /\ UNCHANGED dev
    /\ pc' = "fn2" /\ UNCHANGED <<i, chip, bus, ctl, call, size, core>>

Interrupts ==
    /\ pc = "interrupts"
    /\ \/ NoFault /\ dev' = [dev EXCEPT !.ints = TRUE]
       \/ Fault /\ UNCHANGED dev
    /\ pc' = "start" /\ UNCHANGED <<i, chip, bus, ctl, call, size, note, core>>

\* The tasks are created, and wlinit talks to the firmware: if there is none
\* that answers, it waits for ever, with alock.
Start ==
    /\ pc = "start"
    /\ pc' = IF 2 \in dev.ready /\ dev.ints THEN "up" ELSE "mute"
    /\ Clean /\ UNCHANGED <<i, chip, dev, bus, ctl, call, size, core>>

-----------------------------------------------------------------------------
(* What the chip does by itself.                                           *)

ArmRuns == /\ chip.layout.armctl \in DOMAIN dev.wrap
           /\ LET a == dev.wrap[chip.layout.armctl]
              IN  ~a.reset /\ 1 \in a.ioctl /\ CpuHalt \notin a.ioctl

Ready1 == /\ 1 \in dev.fn /\ 1 \notin dev.ready /\ dev' = [dev EXCEPT !.ready = @ \cup {1}]
          /\ Clean /\ UNCHANGED <<pc, i, chip, bus, ctl, call, size, core>>

ClockUp == /\ dev.req # "none" /\ dev.clock # dev.req
           /\ dev' = [dev EXCEPT !.clock = dev.req]
           /\ Clean /\ UNCHANGED <<pc, i, chip, bus, ctl, call, size, core>>

\* The firmware runs and is ready for function 2.
Ready2 == /\ 2 \in dev.fn /\ 2 \notin dev.ready /\ ArmRuns
          /\ dev' = [dev EXCEPT !.ready = @ \cup {2}]
          /\ Clean /\ UNCHANGED <<pc, i, chip, bus, ctl, call, size, core>>

-----------------------------------------------------------------------------
Sbcore == \/ Disable \/ InReset \/ Prepare \/ Reset \/ Resetting \/ Hold \/ Restart
          \/ StillInReset \/ Leave \/ Go
Attach == \/ SdioInit \/ OpCond \/ Select \/ Setup \/ WaitFn1
          \/ ChipId \/ Id \/ Corescan \/ Word \/ ScanEnd \/ HaltArm \/ ResetD11
          \/ RamScan \/ RamWindow \/ Banks \/ Bank \/ BanksDone \/ Sbcore
          \/ Clock \/ WaitAlp \/ Gpio \/ Pulls \/ FwLoad \/ WaitAlp2 \/ Upload
          \/ Enable \/ WaitHt \/ Mailbox \/ Function2 \/ WaitFn2 \/ Interrupts \/ Start
ChipSteps == Ready1 \/ ClockUp \/ Ready2
Next == Attach \/ ChipSteps

\* The one task of etherbcmattach runs; the chip makes ready what it was asked
\* for, sooner or later: the bounded waits of sbenable may give up before.
Spec == Init /\ [][Next]_vars /\ WF_vars(Attach) /\ WF_vars(Ready1) /\ WF_vars(ClockUp)

-----------------------------------------------------------------------------
(* Properties.                                                             *)

\* corescan and ramscan understand the chip: if nothing failed, the Ctlr has
\* the addresses of the cores that are there and 0 for the others, and the
\* size of the RAM, whatever order the cores have in the table.  The bus
\* clock is never faster than the state of the card allows.
ChipUnderstood ==
    /\ ctl.chipid # 0 /\ pc \notin {"scan", "words"} /\ ~note.misread =>
          \A field \in DOMAIN chip.layout : ctl[field] = chip.layout[field]
    /\ pc = "load" /\ faults = 0 /\ chip.complete => ctl.socramsize = chip.ram
    /\ bus.freq <= IF pc = "opcond" THEN Initfreq ELSE SDfreq

\* Every backplane register is reached through its own window, as long as no
\* access failed: sbdisable, sbreset and sbmem move the window under their
\* callers.
WindowAtCore == faults = 0 => ~note.stray

\* The processor stands still while its RAM is written, and runs when sbenable
\* waits for it; the chip is up only with interrupts, clock and bus width set.
ProcessorHeld ==
    chip.complete /\ faults = 0 =>
       /\ pc = "load" => ~ArmRuns
       /\ pc \in {"enable", "ht", "mailbox", "function 2", "fn2", "interrupts", "start", "up"} => ArmRuns
       /\ pc = "up" => dev.clock = "ht" /\ dev.ints /\ bus.wide /\ dev.wide

\* A write that failed, or went nowhere, and that a loop without end waits for.
Stuck == \/ pc = "resetting" /\ (~Reached(call.at) \/ ResetOf(call.at) = 0)
         \/ pc \in {"alp", "alp2"} /\ dev.req = "none"
         \/ pc = "fn1" /\ 1 \notin dev.fn
         \/ pc \in {"still?", "leave"} /\ (~Reached(call.at) \/ call.at \notin DOMAIN dev.wrap)

\* etherbcmattach ends, or leaves the firmware table, or waits for firmware
\* that does not answer, whatever is on the board and whatever fails, unless
\* it sits in a loop for something that a lost write should have begun.
Attached == pc \in {"up", "mute", "overrun"} \/ Stuck
=============================================================================
