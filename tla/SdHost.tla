------------------------------- MODULE SdHost -------------------------------
(***************************************************************************)
(* src/sdhost.c and src/sd_card.c: the SDHOST controller's driver, the     *)
(* start-up of the SD card and mmc_read_blocks.                            *)
(*                                                                         *)
(* One task calls the driver; what interleaves with it is the controller,  *)
(* the card behind it, and sdhost_interrupt_handler.  Each driver action   *)
(* reads the registers once.  A wait loop with a count of turns gives up   *)
(* only on a controller that has hung; the counts are long enough for any  *)
(* other.  Nobody in the repository writes blocks, so reads are modelled.  *)
(* A word of the card is <<block, index>>.                                  *)
(***************************************************************************)
EXTENDS Integers, Sequences

CONSTANTS BlockWords,    \* read_bl_len / 4
          FifoWords,     \* SDDATA_FIFO_WORDS
          Burst,         \* SDDATA_FIFO_PIO_BURST
          Starts,        \* values of startBlock
          Counts,        \* values of numBlocks
          PowerRetries,  \* timeout_count of the ACMD41 loop
          CidRetries,    \* retries of the SEND_CID loop
          None,
          MaxReads,      \* bound: calls of mmc_read_blocks
          MaxFaults      \* bound: what goes wrong on the bus or in the controller

SdHostConstants ==
    /\ {BlockWords, FifoWords, Burst, PowerRetries} \subseteq Nat \ {0}
    /\ Burst <= FifoWords /\ Starts \subseteq Nat /\ Counts \subseteq Nat \ {0}
    /\ {CidRetries, MaxReads, MaxFaults} \subseteq Nat /\ None \notin Nat

VARIABLES stage,     \* where use_sdhost or mmc_read_blocks is
          pc,        \* where bcm2835_send_cmd is, "idle" outside
          cmd, ret,  \* its command and the result it returned last
          response,  \* cmd.response[0]
          tries,     \* turns left or made in the loops of use_sdhost
          host,      \* struct sdhost_state, with the fields of host->mmc
          left,      \* copy_words
          reg,       \* the controller's registers and FIFO
          card,      \* the SD card
          req,       \* the blocks asked for, and the number of the call
          got,       \* what the calls of mmc_read_blocks copied to dest
          result,    \* what mmc_read_blocks returned: TRUE is a failure
          faults, note  \* auxiliary: faults so far, and what the driver missed

caller == <<stage, cmd, tries, req, result>>   \* what bcm2835_send_cmd leaves alone
bus    == <<card, faults>>
vars == <<caller, bus, pc, ret, response, host, left, reg, got, note>>

Errors    == {"cmdto", "crc7", "crc16", "rewto", "fifo"}   \* SDHSTS_ERROR_MASK
DataError == {"crc16", "fifo", "rewto"}
RespType(c) == CASE c \in {"CMD0", "CMD55"} -> "none"
                 [] c = "CMD12" -> "busy"
                 [] OTHER -> "present"
IsRead(c)   == c \in {"CMD17", "CMD18"}

\* bcm2835_probe, add_host and reset_internal: registers cleared, power on.
\* mmc->clock is still 0, for which set_clock chooses the largest divider.
\* host->mmc->cfg is never set: the voltages are read through a null pointer.
Init == /\ stage = "boot" /\ pc = "idle" /\ cmd = None /\ ret = 0
        /\ response = "zero" /\ tries = 0 /\ left = 0 /\ result = FALSE
        /\ \E v \in BOOLEAN :
             host = [cmd |-> None, data |-> None, blocks |-> 0, use_busy |-> FALSE,
                     high_capacity |-> FALSE, rca |-> 0, voltages |-> v, hcs |-> FALSE]
        /\ reg = [enable |-> FALSE, fail |-> FALSE, hung |-> FALSE, hsts |-> {},
                  fsm |-> "ident", fifo |-> <<>>, rsp |-> "zero"]
        /\ \E hc \in BOOLEAN :
             card = [hc |-> hc, state |-> "idle", single |-> FALSE, next |-> <<0, 0>>,
                     bad |-> {}]
        /\ req = [start |-> 0, n |-> 0, call |-> 0] /\ got = <<>>
        /\ faults = 0
        /\ note = [late |-> FALSE, silent |-> FALSE, stolen |-> FALSE, wiped |-> FALSE,
                   stale |-> FALSE]

-----------------------------------------------------------------------------
(* The driver: bcm2835_send_cmd and what it calls.                         *)

Return(r) == pc' = "idle" /\ ret' = r

\* bcm2835_send_cmd: a controller still busy is refused anything but CMD12.
Start ==
    /\ pc = "start"
    /\ IF reg.fsm \notin {"ident", "data"} /\ cmd # "CMD12"
         THEN Return(-1)
         ELSE pc' = "send" /\ UNCHANGED ret
    /\ UNCHANGED <<caller, bus, response, host, left, reg, got, note>>

\* bcm2835_send_command's part in host: host->cmd, prepare_data, use_busy.
Prepare(c, h) ==
    [h EXCEPT !.cmd = c, !.use_busy = (RespType(c) = "busy"),
              !.data = IF IsRead(c) THEN req.call ELSE None,
              !.blocks = IF IsRead(c) THEN req.n ELSE @]

\* bcm2835_send_command.  When the command before it never completed it
\* returns before prepare_data, and host keeps the old data and use_busy.
SendCommand ==
    /\ pc = "send" /\ (reg.enable => reg.hung)
    /\ IF reg.enable
         THEN pc' = "loop" /\ ret' = -2 /\ UNCHANGED <<host, reg, note>>
         ELSE /\ host' = Prepare(cmd, host)
              /\ reg' = [reg EXCEPT !.enable = TRUE, !.fail = FALSE,
                           !.hsts = IF @ \cap Errors # {} THEN {} ELSE @,
                           !.fifo = IF IsRead(cmd) THEN <<>> ELSE @]
              /\ ret' = 0
              /\ pc' = IF host'.use_busy THEN "loop" ELSE "finish"
              /\ note' = [note EXCEPT !.stale = @ \/ (host'.use_busy /\ "busy" \in reg'.hsts)]
    /\ UNCHANGED <<caller, bus, response, left, got>>

\* bcm2835_finish_command: with the fail flag it returns at once, whatever
\* the status says, and the code that clears the errors is not reached.
Failed == reg.enable \/ reg.fail
FinishEffect ==
    IF Failed THEN UNCHANGED response
    ELSE response' = IF RespType(cmd) = "none" THEN response ELSE reg.rsp

FinishCommand ==
    /\ pc = "finish" /\ (reg.enable => reg.hung)
    /\ FinishEffect /\ ret' = (IF Failed THEN -1 ELSE 0)
    /\ host' = [host EXCEPT !.cmd = IF Failed THEN @ ELSE None]
    /\ pc' = "loop"
    /\ UNCHANGED <<caller, bus, left, reg, got, note>>

\* bcm2835_transmit up to the transfer: errors end the call; the end of the
\* busy signal finishes the command, with a result that is ignored.
Transmit ==
    /\ pc = "loop" /\ (host.use_busy \/ host.data # None)
    /\ IF reg.hsts \cap (IF host.data # None THEN DataError \cup Errors ELSE Errors) # {}
         THEN Return(-1) /\ UNCHANGED <<response, host, left, reg>>
         ELSE LET ended == host.use_busy /\ "busy" \in reg.hsts
              IN  /\ ended => (reg.enable => reg.hung)
                  /\ IF ended THEN FinishEffect ELSE UNCHANGED response
                  /\ reg' = [reg EXCEPT !.hsts = IF ended THEN @ \ {"busy"} ELSE @]
                  /\ host' = [host EXCEPT !.use_busy = @ /\ ~ended,
                                          !.cmd = IF ended /\ ~Failed THEN None ELSE @]
                  /\ ret' = 0
                  /\ IF host.data # None THEN pc' = "pio" /\ left' = BlockWords
                                         ELSE UNCHANGED <<pc, left>>
    /\ UNCHANGED <<caller, bus, got, note>>

\* The end of the loop: nothing to wait for.
LoopEnd ==
    /\ pc = "loop" /\ ~host.use_busy /\ host.data = None
    /\ Return(ret)
    /\ UNCHANGED <<caller, bus, response, host, left, reg, got, note>>

Lesser(a, b) == IF a < b THEN a ELSE b

\* The search for an error left out.
PioForever ==
    /\ pc = "pio" /\ Len(reg.fifo) >= Lesser(Burst, left)
    /\ LET n == Lesser(Len(reg.fifo), left)
       IN  /\ got' = got \o SubSeq(reg.fifo, 1, n)
           /\ reg' = [reg EXCEPT !.fifo = SubSeq(@, n + 1, Len(@))]
           /\ left' = left - n /\ pc' = IF left = n THEN "pioend" ELSE pc
    /\ UNCHANGED <<caller, bus, ret, response, host, note>>

\* bcm2835_transfer_block_pio: one look at the FIFO.  It waits for a burst or
\* for the rest of the block, and gives up when the controller has left the
\* read states with an error; without an error it goes on looking.
Pio ==
    /\ pc = "pio"
    /\ LET n == Lesser(Len(reg.fifo), left)
       IN  IF Len(reg.fifo) < Lesser(Burst, left)
             THEN /\ pc' = IF /\ reg.fsm \notin {"readdata", "readwait", "readcrc"}
                              /\ reg.hsts \cap Errors # {}
                             THEN "pioend" ELSE pc
                  /\ UNCHANGED <<got, left, reg>>
             ELSE /\ got' = got \o SubSeq(reg.fifo, 1, n)
                  /\ reg' = [reg EXCEPT !.fifo = SubSeq(@, n + 1, Len(@))]
                  /\ left' = left - n
                  /\ pc' = IF left = n THEN "pioend" ELSE pc
    /\ UNCHANGED <<caller, bus, ret, response, host, note>>

\* The status not looked at after the block.
PioEndBlind ==
    /\ pc = "pioend"
    /\ host' = [host EXCEPT !.blocks = @ - 1]
    /\ pc' = (IF host.blocks = 1 THEN "complete" ELSE "loop") /\ ret' = 0
    /\ UNCHANGED <<caller, bus, response, left, reg, got, note>>

\* bcm2835_transfer_pio after the block, and transmit's count of blocks.
PioEnd ==
    /\ pc = "pioend"
    /\ IF reg.hsts \cap Errors # {}
         THEN Return(-1) /\ UNCHANGED host
         ELSE /\ host' = [host EXCEPT !.blocks = @ - 1]
              /\ pc' = (IF host.blocks = 1 THEN "complete" ELSE "loop") /\ ret' = 0
    /\ UNCHANGED <<caller, bus, response, left, reg, got, note>>

\* bcm2835_wait_transfer_complete: a controller that still reads is forced
\* back to data mode.  The status is not looked at again.
Complete ==
    /\ pc = "complete" /\ (reg.fsm \notin {"ident", "data", "readwait", "readdata"} => reg.hung)
    /\ IF reg.fsm \in {"ident", "data", "readwait", "readdata"}
         THEN /\ reg' = [reg EXCEPT !.fsm = IF @ \in {"readwait", "readdata"} THEN "data" ELSE @]
              /\ host' = [host EXCEPT !.data = None] /\ pc' = "loop" /\ ret' = 0
              /\ note' = [note EXCEPT !.late = reg.hsts \cap Errors # {}]
         ELSE Return(-1) /\ UNCHANGED <<reg, host, note>>
    /\ UNCHANGED <<caller, bus, response, left, got>>

\* sdhost_interrupt_handler: BUSY_IRPT_EN is the one interrupt enabled.  It
\* clears what it read, the flag bcm2835_transmit waits for included.
Interrupt ==
    /\ "busy" \in reg.hsts
    /\ reg' = [reg EXCEPT !.hsts = {}]
    /\ note' = [note EXCEPT !.stolen = @ \/ host.use_busy,
                            !.wiped = @ \/ reg.hsts \cap Errors # {}]
    /\ UNCHANGED <<caller, bus, pc, ret, response, host, left, got>>

-----------------------------------------------------------------------------
(* The card and the controller.                                            *)

\* The states of the card in which it carries a command out, and the state
\* that follows.
Accepts(c) ==
    CASE c = "CMD0" -> TRUE
      [] c \in {"CMD8", "CMD55", "ACMD41"} -> card.state = "idle"
      [] c = "CMD2"  -> card.state = "ready"
      [] c = "CMD3"  -> card.state = "ident"
      [] c \in {"CMD9", "CMD7"} -> card.state = "stby" /\ host.rca = "rca"
      [] c \in {"CMD16", "CMD17", "CMD18"} -> card.state = "tran"
      [] c = "CMD12" -> card.state = "data"

After(c, up) ==
    CASE c = "CMD0" -> "idle"
      [] c = "ACMD41" -> IF up THEN "ready" ELSE "idle"
      [] c = "CMD2" -> "ident"
      [] c = "CMD3" -> "stby"
      [] c = "CMD7" -> "tran"
      [] IsRead(c)  -> "data"
      [] c = "CMD12" -> "busy"
      [] OTHER -> card.state

\* A high capacity card stays busy unless the host says it knows such cards.
MayPowerUp == card.hc => host.hcs

Answers(c, up) ==
    CASE c = "CMD8" -> {IF host.voltages THEN "ifcond" ELSE "other"}
      [] c = "ACMD41" -> {IF ~up THEN "busy" ELSE IF card.hc THEN "ready_hc" ELSE "ready"}
      [] c = "CMD2" -> {"cid", "zero"}        \* the low word of a CID may be 0
      [] c = "CMD3" -> {"rca"}
      [] OTHER -> {"r1"}

\* The block a read command addresses: the card takes its argument as blocks
\* or bytes, the driver counted in what high_capacity says.
BlockBytes == 4 * BlockWords
Addressed ==
    IF host.high_capacity = card.hc THEN req.start
    ELSE IF card.hc THEN req.start * BlockBytes ELSE req.start \div BlockBytes

Executing == reg.enable /\ ~reg.hung
Fault     == faults < MaxFaults /\ faults' = faults + 1
driver    == <<caller, pc, ret, response, host, left, got, note>>

Execute(up) ==
    card' = [card EXCEPT !.state = After(cmd, up),
                         !.single = (cmd = "CMD17"), !.bad = IF IsRead(cmd) THEN {} ELSE @,
                         !.next = IF IsRead(cmd) THEN <<Addressed, 0>> ELSE @]

CmdDone ==
    /\ Executing /\ Accepts(cmd)
    /\ \E up \in {MayPowerUp, FALSE} : \E a \in Answers(cmd, up) :
         /\ Execute(up)
         /\ reg' = [reg EXCEPT !.enable = FALSE, !.rsp = IF RespType(cmd) = "none" THEN @ ELSE a,
                               !.fsm = IF IsRead(cmd) THEN "readwait"
                                       ELSE IF cmd = "CMD12" THEN "data" ELSE @]
    /\ UNCHANGED <<driver, faults>>

\* No answer: the card does not take the command, or it did not get there.
CmdNoAnswer ==
    /\ Executing /\ (IF Accepts(cmd) THEN Fault ELSE UNCHANGED faults)
    /\ reg' = IF RespType(cmd) = "none" THEN [reg EXCEPT !.enable = FALSE]
              ELSE [reg EXCEPT !.enable = FALSE, !.fail = TRUE, !.hsts = @ \cup {"cmdto"}]
    /\ UNCHANGED <<driver, card>>

\* The card carries the command out and its answer arrives damaged.
CmdDamaged ==
    /\ Executing /\ Accepts(cmd) /\ RespType(cmd) # "none" /\ Fault
    /\ Execute(MayPowerUp)
    /\ reg' = [reg EXCEPT !.enable = FALSE, !.fail = TRUE, !.hsts = @ \cup {"crc7"},
                          !.fsm = IF IsRead(cmd) THEN "readwait" ELSE @]
    /\ UNCHANGED driver

\* The fail flag without a reason, and a command that never completes.
CmdFailed ==
    /\ Executing /\ Fault
    /\ \/ reg' = [reg EXCEPT !.enable = FALSE, !.fail = TRUE]
       \/ reg' = [reg EXCEPT !.hung = TRUE]
    /\ note' = [note EXCEPT !.silent = TRUE]
    /\ UNCHANGED <<caller, pc, ret, response, host, left, got, card>>

DataWord ==
    /\ card.state = "data" /\ reg.fsm \in {"readwait", "readdata"} /\ ~reg.hung
    /\ Len(reg.fifo) < FifoWords
    /\ LET w == card.next[2] + 1
       IN  /\ reg' = [reg EXCEPT !.fifo = Append(@, <<card.next[1], w>>),
                                 !.fsm = IF w = BlockWords THEN "readcrc" ELSE "readdata"]
           /\ card' = [card EXCEPT !.next[2] = w]
    /\ UNCHANGED <<driver, faults>>

StateAfterData == IF card.single THEN "tran" ELSE "data"

\* The end of a block: the checksum comes after the last word.
BlockEnd ==
    /\ reg.fsm = "readcrc" /\ ~reg.hung
    /\ \/ /\ reg' = [reg EXCEPT !.fsm = IF card.single THEN "data" ELSE "readwait"]
          /\ card' = [card EXCEPT !.state = StateAfterData, !.next = <<@[1] + 1, 0>>]
          /\ UNCHANGED faults
       \/ /\ Fault
          /\ reg' = [reg EXCEPT !.fsm = "data", !.hsts = @ \cup {"crc16"}]
          /\ card' = [card EXCEPT !.state = StateAfterData, !.next = <<@[1] + 1, 0>>,
                                  !.bad = @ \cup {card.next[1]}]
    /\ UNCHANGED driver

\* The card stops sending, or the controller hangs in the middle of a block.
DataLost ==
    /\ card.state = "data" /\ Fault
    /\ \/ /\ reg.fsm \in {"readwait", "readdata"} /\ ~reg.hung
          /\ reg' = [reg EXCEPT !.fsm = "data", !.hsts = @ \cup {"rewto"}]
          /\ card' = [card EXCEPT !.state = StateAfterData]
       \/ /\ reg.fsm \in {"readwait", "readdata", "readcrc"}
          /\ reg' = [reg EXCEPT !.hung = TRUE] /\ UNCHANGED card
    /\ UNCHANGED driver

BusyEnd ==
    /\ card.state = "busy"
    /\ reg' = [reg EXCEPT !.hsts = @ \cup {"busy"}]
    /\ card' = [card EXCEPT !.state = "tran"]
    /\ UNCHANGED <<driver, faults>>

-----------------------------------------------------------------------------
(* use_sdhost and mmc_read_blocks: each action looks at the result of one  *)
(* command and calls bcm2835_send_cmd for the next.                        *)

Issue(c, s) == cmd' = c /\ stage' = s /\ pc' = "start"
At(s)       == pc = "idle" /\ stage = s
Stay        == UNCHANGED <<bus, ret, response, left, reg, req, got, result, note>>

\* Commands whose result nobody looks at.
Follow(s, c, t) == At(s) /\ Issue(c, t) /\ Stay /\ UNCHANGED <<host, tries>>
GoIdle     == Follow("boot", "CMD0", "idle")
IfCond     == Follow("idle", "CMD8", "ifcond")
OpCond     == Follow("app", "ACMD41", "opcond")
SelectCard == Follow("csd", "CMD7", "select")
BlockLen   == Follow("select", "CMD16", "blocklen")

\* cmd.response is one variable for all the commands: a command that failed
\* leaves the answer of an earlier one there.
AppCmd == /\ At("ifcond") /\ Issue("CMD55", "app")
          /\ host' = [host EXCEPT !.hcs = (response = "ifcond")]
          /\ tries' = 0 /\ Stay

PowerUp ==
    /\ At("opcond")
    /\ IF response \in {"ready", "ready_hc"}
         THEN /\ host' = [host EXCEPT !.high_capacity = (response = "ready_hc"),
                                      !.rca = IF response = "ready_hc" THEN 1 ELSE @]
              /\ Issue("CMD2", "cid") /\ UNCHANGED tries
         ELSE /\ UNCHANGED host
              /\ IF tries >= PowerRetries - 1 THEN stage' = "failed" /\ UNCHANGED <<cmd, pc, tries>>
                                              ELSE tries' = tries + 1 /\ Issue("CMD55", "app")
    /\ Stay

Cid ==
    /\ At("cid") /\ Stay /\ UNCHANGED host
    /\ IF response = "zero" THEN Issue("CMD2", "cid_again") /\ tries' = CidRetries
                            ELSE Issue("CMD3", "rca") /\ UNCHANGED tries

CidAgain ==
    /\ At("cid_again") /\ Stay /\ UNCHANGED host
    /\ IF (ret = 0 /\ response # "zero") \/ tries = 0
         THEN Issue("CMD3", "rca") /\ UNCHANGED tries
         ELSE Issue("CMD2", "cid_again") /\ tries' = tries - 1

RelativeAddr ==
    /\ At("rca") /\ Stay /\ UNCHANGED tries
    /\ IF ret = 0 THEN host' = [host EXCEPT !.rca = response] /\ Issue("CMD9", "csd")
                  ELSE stage' = "failed" /\ UNCHANGED <<cmd, pc, host>>

\* read_bl_len is set and sd_ctrl published although the commands before may
\* have failed.
Publish == /\ At("blocklen") /\ stage' = "ready"
           /\ Stay /\ UNCHANGED <<cmd, pc, host, tries>>

ReadBlocks(start, n) ==
    /\ At("ready") /\ req.call < MaxReads
    /\ Issue(IF n > 1 THEN "CMD18" ELSE "CMD17", "read")
    /\ req' = [start |-> start, n |-> n, call |-> req.call + 1]
    /\ got' = <<>>
    /\ note' = [note EXCEPT !.late = FALSE]
    /\ UNCHANGED <<bus, ret, response, host, left, reg, result, tries>>

\* mmc_read_blocks without STOP_TRANSMISSION.
ReadNoStop ==
    /\ At("read") /\ stage' = "ready" /\ result' = (ret # 0)
    /\ UNCHANGED <<bus, cmd, pc, ret, response, left, reg, req, got, note, host, tries>>

\* After several blocks the card is told to stop, unless the read failed.
ReadDone ==
    /\ At("read")
    /\ IF ret = 0 /\ req.n > 1
         THEN Issue("CMD12", "stop") /\ UNCHANGED result
         ELSE stage' = "ready" /\ result' = (ret # 0) /\ UNCHANGED <<cmd, pc>>
    /\ UNCHANGED <<bus, ret, response, left, reg, req, got, note, host, tries>>

StopDone ==
    /\ At("stop") /\ stage' = "ready" /\ result' = (ret # 0)
    /\ UNCHANGED <<bus, cmd, pc, ret, response, left, reg, req, got, note, host, tries>>

-----------------------------------------------------------------------------
Driver == \/ Start \/ SendCommand \/ FinishCommand \/ Transmit \/ LoopEnd
          \/ Pio \/ PioEnd \/ Complete
Caller == \/ GoIdle \/ IfCond \/ AppCmd \/ OpCond \/ PowerUp \/ Cid \/ CidAgain
          \/ RelativeAddr \/ SelectCard \/ BlockLen \/ Publish
          \/ \E s \in Starts, n \in Counts : ReadBlocks(s, n)
          \/ ReadDone \/ StopDone
Controller == CmdDone \/ CmdNoAnswer \/ DataWord \/ BlockEnd \/ BusyEnd
Faults == CmdDamaged \/ CmdFailed \/ DataLost

Next == Driver \/ Caller \/ Controller \/ Faults \/ Interrupt

\* The processor goes on executing the driver, and a controller that has not
\* hung goes on with the command and the data.
Spec == Init /\ [][Next]_vars /\ WF_vars(Driver) /\ WF_vars(Caller) /\ WF_vars(Controller)

-----------------------------------------------------------------------------
(* Properties.                                                             *)

\* When mmc_read_blocks reports success the caller has exactly the blocks it
\* asked for, undamaged.  Two holes: the checksum of the last block comes after
\* bcm2835_transfer_pio has looked at SDHSTS for the last time, and the
\* interrupt handler clears the errors along with the busy flag.
ReadExact ==
    (At("ready") /\ req.call > 0 /\ ~result /\ ~note.wiped) =>
       /\ got = [i \in 1..(req.n * BlockWords) |->
                         <<req.start + ((i - 1) \div BlockWords), ((i - 1) % BlockWords) + 1>>]
       /\ note.late \/ \A b \in card.bad : b \notin req.start..(req.start + req.n - 1)

\* A successful read leaves card and controller ready for the next one, with
\* nothing of it left in host, unless STOP_TRANSMISSION found the busy flag of
\* an earlier one still set.
ReadyForNext ==
    (At("ready") /\ req.call > 0 /\ ~result /\ ~note.stale) =>
       /\ card.state = "tran" /\ reg.fsm \in {"ident", "data"}
       /\ host.data = None /\ ~host.use_busy

\* bcm2835_send_cmd returns: its loops have no limit, but the status they wait
\* for comes.  Not so when the fail flag is set without a reason, when the
\* controller hangs, or when the interrupt handler takes the flags away.
SendReturned == pc = "idle" \/ note.silent \/ reg.hung \/ note.stolen \/ note.wiped
=============================================================================
