-------------------------------- MODULE Emmc --------------------------------
(***************************************************************************)
(* src/emmc.c: the SD card behind the Arasan EMMC controller.              *)
(*                                                                         *)
(* sdInitCard and the transfers are sequences of commands; a command is    *)
(* sent by sdSendCommandP and waited for by sdWaitForInterrupt, an app     *)
(* command after an APP_CMD.  What interleaves is the controller: answers, *)
(* blocks and errors come at any time.  The waits give up after a time in  *)
(* which only a controller that has hung stays silent.  Block contents are *)
(* "old", "new" (written) and "erased".                                    *)
(***************************************************************************)
EXTENDS Integers, Sequences

CONSTANTS Blocks,     \* the card's blocks, 0 .. n
          SectorBytes, \* 512
          Ops,        \* the transfers tried: kind, start and number of blocks
          Cards,      \* kinds of cards: v2, hc, blkcnt (CMD_SUPP_SET_BLKCNT), wide
          Tries,      \* count of sdAppSendOpCond
          None,
          MaxOps, MaxFaults   \* bounds

\* The blocks asked for exist: the driver does not compare them with the size of
\* the card.
EmmcConstants == /\ Blocks \subseteq Nat /\ {SectorBytes, Tries, MaxOps, MaxFaults} \subseteq Nat
                 /\ SectorBytes > 0 /\ \A c \in Cards : c.hc => c.v2
                 /\ \A o \in Ops : /\ o.start \in Nat /\ o.n \in Nat \ {0}
                                  /\ o.start .. o.start + o.n - 1 \subseteq Blocks
                 /\ None \notin Ops

VARIABLES stage,   \* where sdInitCard, sdTransferBlocks or sdClearBlocks is
          pc,      \* where the command or the transfer of a block is
          idx,     \* the command
          resp,    \* SDRESULT of the last step
          tries,   \* turns left in sdAppSendOpCond
          sd,      \* sdCard
          emmc,    \* the controller's registers
          card,    \* the SD card
          op, done, got,  \* the call: what was asked, blocksDone, the blocks read
          passed,  \* auxiliary: the result of the last call that sdWaitForData let in
          was,     \* auxiliary: the card's blocks when it began
          fresh,   \* auxiliary: the errors raised since the last wait for an interrupt
          ops, faults

call == <<op, done, got, passed, was, ops>>
vars == <<stage, pc, idx, resp, tries, sd, emmc, card, call, fresh, faults>>

Errors  == {"cmdto", "datato", "crc"}      \* INT_ERROR_MASK
App(c)  == c \in {"ACMD41", "ACMD51", "ACMD6"}
Data(c) == c \in {"CMD17", "CMD18", "CMD24", "CMD25", "ACMD51"}
Multi(c) == c \in {"CMD18", "CMD25"}

Init == /\ stage = "reset" /\ pc = "idle" /\ idx = None /\ resp = "ok" /\ tries = 0
        /\ sd = [type |-> "unknown", rca |-> FALSE, power |-> FALSE, capacity |-> FALSE,
                 app |-> FALSE, blkcnt |-> FALSE, wide |-> FALSE]
        /\ emmc = [int |-> {}, cmd |-> "none", dat |-> "none", left |-> 0, buf |-> <<>>,
                   app |-> FALSE, err |-> FALSE]
        /\ \E c \in Cards :
             card = [kind |-> c, state |-> "idle", app |-> FALSE, counted |-> FALSE, ends |-> FALSE,
                     next |-> 0, from |-> 0, to |-> 0, data |-> [b \in Blocks |-> "old"]]
        /\ op = None /\ done = 0 /\ got = <<>> /\ passed = "ok" /\ was = card.data
        /\ fresh = {} /\ ops = 0 /\ faults = 0

-----------------------------------------------------------------------------
(* Commands: sdSendCommandA, sdSendCommand, sdSendAppCommand.              *)

Issue(c, s) == idx' = c /\ stage' = s /\ pc' = IF App(c) THEN "app" ELSE "cmd"
Return(r)   == pc' = "idle" /\ resp' = r

\* What the driver waits for may still come; otherwise the wait times out.
CmdComing  == emmc.cmd = "sent"
DataComing == emmc.dat = "moving" /\ emmc.buf \in {<<>>, <<"new">>}
Pending    == emmc.int \cap Errors

\* sdWaitForCommand and the start of sdSendCommandP: an error that is pending
\* refuses the command; any other flag is cleared.
SendCommandP ==
    /\ pc \in {"app", "cmd"}
    /\ CmdComing => Pending # {}
    /\ IF emmc.cmd # "none" \/ Pending # {}
         THEN /\ UNCHANGED emmc
              /\ IF pc = "app" /\ ~sd.rca THEN pc' = "cmd" /\ UNCHANGED resp ELSE Return("busy")
         ELSE /\ emmc' = IF pc = "cmd" /\ Data(idx)
                          THEN [emmc EXCEPT !.int = {}, !.cmd = "sent", !.dat = "moving", !.buf = <<>>,
                                            !.left = IF op = None THEN 1 ELSE op.n]
                          ELSE [emmc EXCEPT !.int = {}, !.cmd = "sent"]
              /\ pc' = (IF pc = "app" THEN "appwait" ELSE "cmdwait") /\ UNCHANGED resp
    /\ UNCHANGED <<stage, idx, tries, sd, card, call, fresh, faults>>

\* An error left in the register by the wait that reports it.
WaitKeepsErrors(flag) ==
    IF flag \in emmc.int /\ emmc.int \cap Errors = {} THEN emmc.int \ {flag} ELSE emmc.int

\* What sdWaitForInterrupt leaves in the register: on an error nothing.
WaitClears(flag) ==
    IF flag \in emmc.int /\ emmc.int \cap Errors = {} THEN emmc.int \ {flag} ELSE {}

\* What sdWaitForInterrupt returns.
WaitResult(flag) ==
    IF emmc.int \cap {"cmdto", "datato"} # {} \/ emmc.int \cap (Errors \cup {flag}) = {}
      THEN "timeout"
    ELSE IF emmc.int \cap Errors # {} THEN "error" ELSE "ok"

Waited(flag) == \/ emmc.int \cap (Errors \cup {flag}) # {}
                \/ ~ IF flag = "cmd_done" THEN CmdComing ELSE DataComing

Wait(flag) == emmc' = [emmc EXCEPT !.int = WaitClears(flag)] /\ fresh' = {}

\* The rest of sdSendCommandP: the answer goes into sdCard.  SEND_IF_COND is an
\* error when it does not echo the argument, which any card that answers does.
Decoded ==
    CASE idx = "ACMD41" -> [sd EXCEPT !.power = card.state = "ready", !.app = FALSE,
                                      !.capacity = card.kind.hc]
      [] idx = "CMD3"   -> [sd EXCEPT !.rca = TRUE, !.app = emmc.app]
      [] idx \in {"CMD8", "CMD2", "CMD9"} -> [sd EXCEPT !.app = FALSE]
      [] idx = "CMD0" -> sd
      [] OTHER -> [sd EXCEPT !.app = emmc.app]

\* APP_CMD: with no RCA its result is ignored; otherwise the status must show
\* that the card took it.
AppDone ==
    /\ pc = "appwait" /\ Waited("cmd_done") /\ Wait("cmd_done")
    /\ LET r == WaitResult("cmd_done")
       IN  IF ~sd.rca THEN pc' = "cmd" /\ UNCHANGED <<resp, sd>>
           ELSE IF r # "ok" THEN Return(r) /\ UNCHANGED sd
           ELSE /\ sd' = [sd EXCEPT !.app = emmc.app]
                /\ IF emmc.app THEN pc' = "cmd" /\ UNCHANGED resp ELSE Return("error")
    /\ UNCHANGED <<stage, idx, tries, card, call, faults>>

CmdDone ==
    /\ pc = "cmdwait" /\ Waited("cmd_done") /\ Wait("cmd_done")
    /\ LET r == WaitResult("cmd_done")
       IN  IF r # "ok" THEN Return(r) /\ UNCHANGED sd
           ELSE /\ sd' = Decoded
                /\ Return(IF emmc.err THEN "error"
                          ELSE IF App(idx) /\ sd.rca /\ ~sd'.app THEN "appcmd" ELSE "ok")
    /\ UNCHANGED <<stage, idx, tries, card, call, faults>>

-----------------------------------------------------------------------------
(* sdInitCard.                                                             *)

At(s) == pc = "idle" /\ stage = s
Fail  == stage' = "failed" /\ UNCHANGED <<pc, idx>>
InitOnly == UNCHANGED <<resp, card, call, fresh>>

Fault == faults < MaxFaults /\ faults' = faults + 1

\* sdResetCard: the controller is reset and the card sent to its idle state.
ResetCard(from, to) ==
    /\ At(from)
    /\ emmc' = [emmc EXCEPT !.int = {}, !.cmd = "none", !.dat = "none", !.left = 0, !.buf = <<>>]
    /\ sd' = [sd EXCEPT !.rca = FALSE, !.power = FALSE, !.type = "unknown", !.app = FALSE]
    /\ \/ Issue("CMD0", to) /\ UNCHANGED faults
       \/ Fault /\ Fail                    \* no reset, or no stable clock
    /\ UNCHANGED tries /\ InitOnly

\* A step that goes on with the next command, or returns the error.
Step(from, c, to) ==
    /\ At(from) /\ UNCHANGED <<tries, sd, emmc, faults>> /\ InitOnly
    /\ IF resp = "ok" THEN Issue(c, to) ELSE Fail

OpCondFirst(s) == Issue("ACMD41", s) /\ tries' = Tries

\* SEND_IF_COND tells a version 2 card from an old one.  After no answer the
\* controller is reset if the command is still under way.
IfCond ==
    /\ At("ifcond") /\ UNCHANGED <<sd, faults>> /\ InitOnly
    /\ CASE resp = "ok"   -> OpCondFirst("opcond_v2") /\ UNCHANGED emmc
         [] resp = "busy" -> Fail /\ UNCHANGED <<emmc, tries>>
         [] OTHER -> /\ UNCHANGED emmc
                     /\ IF emmc.cmd # "none" THEN stage' = "reset_old" /\ UNCHANGED <<pc, idx, tries>>
                                        ELSE OpCondFirst("opcond_old")

IdleOld == /\ At("idle_old") /\ UNCHANGED <<sd, emmc, faults>> /\ InitOnly
           /\ IF resp = "ok" THEN OpCondFirst("opcond_old") ELSE Fail /\ UNCHANGED tries

\* A retry that does not count.
OpCondForever(s, type) ==
    /\ At(s) /\ UNCHANGED <<emmc, faults>> /\ InitOnly
    /\ IF resp \notin {"ok", "timeout"} THEN Fail /\ UNCHANGED <<sd, tries>>
       ELSE IF ~sd.power THEN Issue("ACMD41", s) /\ UNCHANGED <<sd, tries>>
       ELSE sd' = [sd EXCEPT !.type = type] /\ Issue("CMD2", "cid") /\ UNCHANGED tries

\* sdAppSendOpCond: a timeout is a reason to try again, another error is not.
OpCond(s, type) ==
    /\ At(s) /\ UNCHANGED <<emmc, faults>> /\ InitOnly
    /\ IF resp \notin {"ok", "timeout"} THEN Fail /\ UNCHANGED <<sd, tries>>
       ELSE IF ~sd.power /\ tries > 0
         THEN Issue("ACMD41", s) /\ tries' = tries - 1 /\ UNCHANGED sd
       ELSE IF ~sd.power THEN Fail /\ UNCHANGED <<sd, tries>>
       ELSE /\ sd' = [sd EXCEPT !.type = type]
            /\ Issue("CMD2", "cid") /\ UNCHANGED tries

\* sdSetClock to full speed waits for the lines to be free.
Clock == /\ At("csd") /\ UNCHANGED <<sd, emmc, tries>> /\ InitOnly
         /\ IF resp = "ok" /\ emmc.cmd = "none" /\ emmc.dat = "none"
              THEN \/ Issue("CMD7", "select") /\ UNCHANGED faults
                   \/ Fault /\ Fail
              ELSE Fail /\ UNCHANGED faults

\* sdReadSCR: as a transfer of one block of eight bytes.
ReadSCR ==
    /\ At("select") /\ UNCHANGED <<tries, sd, emmc, faults>> /\ InitOnly
    /\ DataComing => Pending # {}
    /\ IF resp = "ok" /\ emmc.dat = "none" /\ Pending = {} THEN Issue("ACMD51", "scr") ELSE Fail

ScrBlock ==
    /\ At("scr") /\ UNCHANGED <<tries, faults, card, call>>
    /\ IF resp # "ok" THEN Fail /\ UNCHANGED <<resp, sd, emmc, fresh>>
       ELSE /\ Waited("ready")
            /\ emmc' = [emmc EXCEPT !.int = WaitClears("ready"), !.buf = <<>>] /\ fresh' = {}
            /\ resp' = WaitResult("ready")
            /\ IF resp' = "ok"
                 THEN /\ sd' = [sd EXCEPT !.blkcnt = card.kind.blkcnt, !.wide = card.kind.wide]
                      /\ IF card.kind.wide THEN Issue("ACMD6", "width") ELSE Issue("CMD16", "blocklen")
                 ELSE UNCHANGED sd /\ Fail

Ready == /\ At("blocklen") /\ UNCHANGED <<pc, idx, resp, tries, sd, emmc, card, call, fresh, faults>>
         /\ stage' = IF resp = "ok" THEN "ready" ELSE "failed"

InitCard ==
    \/ ResetCard("reset", "idle") \/ ResetCard("reset_old", "idle_old")
    \/ Step("idle", "CMD8", "ifcond") \/ IfCond \/ IdleOld
    \/ OpCond("opcond_v2", IF sd.capacity THEN "hc" ELSE "sc") \/ OpCond("opcond_old", "1")
    \/ Step("cid", "CMD3", "rca") \/ Step("rca", "CMD9", "csd") \/ Clock
    \/ ReadSCR \/ ScrBlock \/ Step("width", "CMD16", "blocklen") \/ Ready

-----------------------------------------------------------------------------
(* sdTransferBlocks and sdClearBlocks.                                     *)

End(r) == stage' = "ready" /\ passed' = r /\ resp' = r /\ pc' = "idle"

TransferCmd(o) == CASE o.kind = "read"  -> IF o.n = 1 THEN "CMD17" ELSE "CMD18"
                    [] o.kind = "write" -> IF o.n = 1 THEN "CMD24" ELSE "CMD25"
                    [] o.kind = "erase" -> "CMD32"

\* Only sdCard.type keeps a call out, so one is let in after a failed start-up
\* that got as far as the type.  sdWaitForData comes first.
Begin(o) ==
    /\ pc = "idle" /\ stage \in {"ready", "failed"} /\ sd.type # "unknown"
    /\ ops < MaxOps /\ ops' = ops + 1
    /\ DataComing => Pending # {}
    /\ IF emmc.dat # "none" \/ Pending # {}
         THEN resp' = "timeout" /\ UNCHANGED <<stage, pc, idx, op, done, got, passed, was>>
         ELSE /\ op' = o /\ done' = 0 /\ got' = <<>> /\ passed' = "none" /\ was' = card.data
              /\ UNCHANGED resp
              /\ IF o.n > 1 /\ sd.blkcnt /\ o.kind # "erase"
                   THEN Issue("CMD23", "blkcnt") ELSE Issue(TransferCmd(o), "transfer")
    /\ UNCHANGED <<tries, sd, emmc, card, fresh, faults>>

Going == UNCHANGED <<tries, sd, card, op, was, ops, faults>>
NoMove == UNCHANGED <<emmc, done, got, fresh>>

BlockCount ==
    /\ At("blkcnt") /\ Going /\ NoMove
    /\ IF resp = "ok" THEN Issue(TransferCmd(op), "transfer") /\ UNCHANGED <<resp, passed>>
                      ELSE End(resp) /\ UNCHANGED idx

Transfer ==
    /\ At("transfer") /\ Going /\ NoMove
    /\ IF resp # "ok" THEN End(resp) /\ UNCHANGED idx
       ELSE IF op.kind = "erase" THEN Issue("CMD33", "erase_end") /\ UNCHANGED <<resp, passed>>
       ELSE pc' = "block" /\ UNCHANGED <<stage, idx, resp, passed>>

\* One turn of the loop: wait until the block is ready, and move it.
Block ==
    /\ pc = "block" /\ Waited("ready") /\ Going /\ fresh' = {}
    /\ IF WaitResult("ready") # "ok"
         THEN /\ emmc' = [emmc EXCEPT !.int = WaitClears("ready")]
              /\ End(WaitResult("ready")) /\ UNCHANGED <<idx, done, got>>
         ELSE /\ emmc' = [emmc EXCEPT !.int = WaitClears("ready"),
                                      !.buf = IF op.kind = "write" THEN <<"new">> ELSE <<>>]
              /\ got' = IF op.kind = "read" THEN Append(got, emmc.buf) ELSE got
              /\ done' = done + 1
              /\ pc' = IF done' < op.n THEN "block" ELSE IF op.kind = "write" THEN "data_done" ELSE "end"
              /\ UNCHANGED <<stage, idx, resp, passed>>

\* A write is followed by the wait for DATA_DONE, a read is not.
DataDone ==
    /\ pc = "data_done" /\ Waited("data_done") /\ Wait("data_done")
    /\ Going /\ UNCHANGED <<idx, done, got>>
    /\ IF WaitResult("data_done") = "ok" THEN pc' = "end" /\ UNCHANGED <<stage, resp, passed>>
                                         ELSE End(WaitResult("data_done"))

\* The transmission never stopped.
FinishNoStop == /\ pc = "end" /\ End("ok")
                /\ Going /\ NoMove /\ UNCHANGED idx

\* STOP_TRANS only when the card was not told the number of blocks.
Finish ==
    /\ pc = "end" /\ Going /\ NoMove
    /\ IF op.n > 1 /\ ~sd.blkcnt THEN Issue("CMD12", "stop") /\ UNCHANGED <<resp, passed>>
                                 ELSE End("ok") /\ UNCHANGED idx

Stopped == At("stop") /\ End(resp) /\ Going /\ NoMove /\ UNCHANGED idx

EraseEnd ==
    /\ At("erase_end") /\ Going /\ NoMove
    /\ IF resp = "ok" THEN Issue("CMD38", "erase") /\ UNCHANGED <<resp, passed>>
                      ELSE End(resp) /\ UNCHANGED idx

\* sdClearBlocks waits for the data line to be free and looks at no error.
Erased ==
    /\ At("erase") /\ (resp = "ok" => ~DataComing)
    /\ End(IF resp = "ok" /\ emmc.dat # "none" THEN "timeout" ELSE resp)
    /\ Going /\ NoMove /\ UNCHANGED idx

Transfers == \/ \E o \in Ops : Begin(o)
             \/ BlockCount \/ Transfer \/ Block \/ DataDone \/ Finish \/ Stopped
             \/ EraseEnd \/ Erased

-----------------------------------------------------------------------------
(* The controller and the card.                                            *)

OnLine == IF pc = "appwait" THEN "CMD55" ELSE idx

\* A block number for every card.
AddressUnshifted(b) == b

\* The address a command carries: only a card of type "sc" is addressed by byte.
Address(b) == IF sd.type = "sc" THEN b * SectorBytes ELSE b
Arg == IF OnLine = "CMD33" THEN Address(op.start + op.n) ELSE Address(op.start)

Addressed == OnLine \in {"CMD17", "CMD18", "CMD24", "CMD25", "CMD32", "CMD33"}
Target == IF card.kind.hc THEN Arg ELSE Arg \div SectorBytes
BadAddress == Addressed /\ (Target \notin Blocks \/ (~card.kind.hc /\ Arg % SectorBytes # 0))

\* Does the card take the command in the state it is in?
Takes(c) ==
    CASE c = "CMD0" -> TRUE
      [] c = "CMD55" -> card.state \notin {"ready", "ident"}
      [] c = "CMD8" -> card.state = "idle" /\ card.kind.v2
      [] c = "ACMD41" -> card.state = "idle" /\ card.app
      [] c = "CMD2" -> card.state = "ready"
      [] c = "CMD3" -> card.state = "ident"
      [] c \in {"CMD9", "CMD7"} -> card.state = "stby"
      [] c = "CMD12" -> card.state \in {"data", "rcv"}
      [] OTHER -> card.state = "tran" /\ (App(c) => card.app)

\* The states the card may be in when it has taken the command.  A high
\* capacity card becomes ready only for a host that says it knows of them.
Next41 == {"idle"} \cup (IF card.kind.hc => stage = "opcond_v2" THEN {"ready"} ELSE {})
After(c) ==
    IF BadAddress THEN {card.state}
    ELSE CASE c = "CMD0" -> {"idle"}   [] c = "ACMD41" -> Next41
           [] c = "CMD2" -> {"ident"}  [] c = "CMD3" -> {"stby"}
           [] c \in {"CMD7", "CMD12"} -> {"tran"}
           [] c \in {"CMD24", "CMD25"} -> {"rcv"}
           [] c \in {"CMD17", "CMD18", "ACMD51"} -> {"data"}
           [] OTHER -> {card.state}

\* SET_BLOCKCNT counts for the command right behind it.
Take(c) ==
    \E s \in After(c) :
        card' = [card EXCEPT !.state = s, !.app = c = "CMD55", !.counted = c = "CMD23",
                   !.ends = IF Data(c) THEN Multi(c) => card.counted ELSE @,
                   !.next = IF Data(c) /\ c # "ACMD51" THEN Target ELSE @,
                   !.from = IF c = "CMD32" THEN Target ELSE @,
                   !.to = IF c = "CMD33" THEN Target ELSE @,
                   !.data = IF c = "CMD38" THEN [b \in Blocks |-> IF b \in card.from .. card.to
                                                                  THEN "erased" ELSE @[b]] ELSE @]

Driver == <<stage, pc, idx, resp, tries, sd, call>>

\* The card answers with its status; APP_CMD is set for an app command too.
Answer ==
    /\ emmc.cmd = "sent" /\ Takes(OnLine) /\ Take(OnLine)
    /\ emmc' = [emmc EXCEPT !.int = @ \cup {"cmd_done"}, !.cmd = "none", !.err = BadAddress,
                            !.app = OnLine = "CMD55" \/ App(OnLine),
                            !.dat = IF OnLine = "CMD38" THEN "moving" ELSE @]
    /\ UNCHANGED <<Driver, fresh, faults>>

Raise(e) == fresh' = fresh \cup {e}

\* No answer, and the controller may go on believing that one will come.
NoAnswer ==
    /\ Raise("cmdto")
    /\ \E c \in {"none", "stuck"}, d \in {emmc.dat, "none"} :
         emmc' = [emmc EXCEPT !.int = @ \cup {"cmdto"}, !.cmd = c, !.dat = d]

\* A command the card does not take; one with no response is done all the same.
Refuse ==
    /\ emmc.cmd = "sent" /\ ~Takes(OnLine)
    /\ card' = [card EXCEPT !.app = FALSE]
    /\ IF OnLine = "CMD55" /\ ~sd.rca
         THEN emmc' = [emmc EXCEPT !.int = @ \cup {"cmd_done"}, !.cmd = "none"] /\ UNCHANGED fresh
         ELSE NoAnswer
    /\ UNCHANGED <<Driver, faults>>

\* The command or its answer is lost, its answer is damaged, or the controller
\* hangs.
CommandFault ==
    /\ emmc.cmd = "sent" /\ Fault
    /\ \/ (UNCHANGED card \/ (Takes(OnLine) /\ Take(OnLine))) /\ NoAnswer
       \/ /\ Takes(OnLine) /\ Take(OnLine) /\ Raise("crc")
          /\ emmc' = [emmc EXCEPT !.int = @ \cup {"crc"}, !.cmd = "none"]
       \/ emmc' = [emmc EXCEPT !.cmd = "stuck"] /\ UNCHANGED <<card, fresh>>
    /\ UNCHANGED Driver

Moving == emmc.dat = "moving" /\ emmc.cmd = "none"

BlockIn ==
    /\ Moving /\ card.state = "data" /\ emmc.left > 0 /\ emmc.buf = <<>>
    /\ emmc' = [emmc EXCEPT !.int = @ \cup {"ready"}, !.left = @ - 1,
                            !.buf = IF idx = "ACMD51" \/ card.next \notin Blocks THEN <<"scr">>
                                    ELSE <<card.next, card.data[card.next]>>]
    /\ card' = [card EXCEPT !.next = @ + 1] /\ UNCHANGED <<Driver, fresh, faults>>

BlockWanted ==
    /\ Moving /\ card.state = "rcv" /\ emmc.left > 0 /\ emmc.buf = <<>>
    /\ emmc' = [emmc EXCEPT !.int = @ \cup {"ready"}, !.buf = <<"empty">>]
    /\ UNCHANGED <<Driver, card, fresh, faults>>

BlockOut ==
    /\ Moving /\ card.state = "rcv" /\ emmc.buf = <<"new">>
    /\ emmc' = [emmc EXCEPT !.buf = <<>>, !.left = @ - 1]
    /\ card' = [card EXCEPT !.data = [b \in Blocks |-> IF b = card.next THEN "new" ELSE @[b]],
                            !.next = @ + 1]
    /\ UNCHANGED <<Driver, fresh, faults>>

\* The last block is through; a card that was not told the number of blocks
\* waits for STOP_TRANS.
DataOver ==
    /\ Moving /\ emmc.left = 0 /\ emmc.buf = <<>>
    /\ emmc' = [emmc EXCEPT !.int = @ \cup {"data_done"}, !.dat = "none"]
    /\ card' = [card EXCEPT !.state = IF card.ends /\ @ \in {"data", "rcv"} THEN "tran" ELSE @]
    /\ UNCHANGED <<Driver, fresh, faults>>

\* The card sends nothing.
NoData ==
    /\ Moving /\ card.state \notin {"data", "rcv"} /\ emmc.left > 0 /\ Raise("datato")
    /\ emmc' = [emmc EXCEPT !.int = @ \cup {"datato"}, !.dat = "none"]
    /\ UNCHANGED <<Driver, card, faults>>

\* A block is damaged or late, or the data stops; it may go on when the driver
\* has given up.
DataFault ==
    /\ emmc.dat # "none" /\ emmc.cmd = "none" /\ UNCHANGED <<Driver, card>>
    /\ \/ /\ Fault
          /\ \E e \in {"crc", "datato"}, d \in {"none", "stuck"} :
               Raise(e) /\ emmc' = [emmc EXCEPT !.int = @ \cup {e}, !.dat = d]
       \/ Fault /\ emmc' = [emmc EXCEPT !.dat = "stuck"] /\ UNCHANGED fresh
       \/ emmc.dat = "stuck" /\ emmc' = [emmc EXCEPT !.dat = "moving"] /\ UNCHANGED <<fresh, faults>>

Bus == Answer \/ Refuse \/ BlockIn \/ BlockWanted \/ BlockOut \/ DataOver \/ NoData

Next == \/ SendCommandP \/ AppDone \/ CmdDone \/ InitCard \/ Transfers
        \/ Bus \/ CommandFault \/ DataFault

\* The driver runs in a loop of its own; the controller answers unless a fault
\* has silenced it.
Driving == \/ SendCommandP \/ AppDone \/ CmdDone \/ InitCard
           \/ BlockCount \/ Transfer \/ Block \/ DataDone \/ Finish \/ Stopped \/ EraseEnd \/ Erased

Spec == Init /\ [][Next]_vars /\ WF_vars(Driving) /\ WF_vars(Bus)

-----------------------------------------------------------------------------
AtRest == pc = "idle" /\ stage \in {"ready", "failed"}

Asked == op.start .. op.start + op.n - 1

Expected ==
    CASE op.kind = "read"  -> was
      [] op.kind = "write" -> [b \in Blocks |-> IF b \in Asked THEN "new" ELSE was[b]]
      [] op.kind = "erase" -> [b \in Blocks |-> IF b \in Asked \cup {op.start + op.n}
                                               THEN "erased" ELSE was[b]]

Exact == /\ card.data = Expected
         /\ op.kind = "read" => got = [i \in 1 .. op.n |-> <<op.start + i - 1, was[op.start + i - 1]>>]

\* A transfer that reports success on a version 2 card moved exactly the blocks
\* it was asked to: the data read is that of those blocks in order, and no other
\* block of the card has changed (sdClearBlocks erases the block after the last
\* one too: the end address of ERASE_WR_END is part of the range).
TransferExact == AtRest /\ stage = "ready" /\ op # None /\ passed = "ok" /\ sd.type # "1" => Exact

\* What the comment in sdTransferBlocks says: standard capacity cards are given
\* an address, the block number times 512.
StandardByAddress ==
    AtRest /\ stage = "ready" /\ op # None /\ passed = "ok" /\ ~card.kind.hc => Exact

\* An error that a wait has reported is never held against the next call: what
\* is pending between two calls was raised after the last wait.
ReportedErrorsCleared == AtRest => Pending \subseteq fresh

\* After a success without SET_BLOCKCNT the card is back in its transfer state
\* once the data line is free, ready for the next command.
StoppedAfterTransfer ==
    AtRest /\ stage = "ready" /\ op # None /\ passed = "ok" /\ emmc.dat = "none" /\ Pending = {}
      => card.state = "tran"

=============================================================================
