----------------------------- MODULE WifiDriver -----------------------------
(***************************************************************************)
(* src/plan9_ether4330.c: the tasks of the BCM4343 driver and what they    *)
(* share.                                                                  *)
(*                                                                         *)
(*   Reader   rproc: reads packets from the chip, opens the transmit       *)
(*            window, hands responses to the waiting command, runs events  *)
(*   User     the task above the driver: sends frames, issues commands,    *)
(*            joins a network                                              *)
(*   Timer    lproc: issues scan commands                                  *)
(*                                                                         *)
(* The chip's firmware is the environment.  A mutex is taken in one step   *)
(* (module Mutex has the window inside mutex_acquire); a section under     *)
(* lock() is one step because interrupts are masked.  A packet is its      *)
(* channel, what it carries and the flow-control fields of its header.     *)
(* Sequence numbers are counted without wrapping and compared modulo       *)
(* SeqMod, as the uint8_t txseq and txwindow are.                          *)
(***************************************************************************)
EXTENDS Naturals, Sequences

CONSTANTS Reader, User, Timer, \* the three tasks
          None,                \* no task, no response
          SeqMod,              \* 256 in the code
          Credits,             \* packets the firmware lets the host run ahead
          MaxQueue,            \* bound: packets waiting in the chip
          MaxFrames, MaxCmds, MaxJoins,  \* bounds: frames sent, commands, joins
          MaxFlow,             \* bound: times the firmware stops the data channel
          MaxDeauth, MaxRoam,  \* bounds: deauthentications, failed roams
          MaxGarbled           \* bound: packets with a damaged header

Procs == {Reader, User, Timer}

ASSUME DriverConstants == /\ SeqMod \in Nat /\ Credits \in 1..(SeqMod - 1)
                          /\ MaxQueue \in Nat \ {0}
                          /\ MaxFrames \in Nat /\ MaxCmds \in Nat /\ MaxJoins \in Nat
                          /\ Reader # User /\ Reader # Timer /\ User # Timer
                          /\ None \notin Procs

VARIABLES pc,                      \* where each task is
          cmdlock, pktlock, tlock, \* the task that holds the mutex, or None
          sent, window,            \* txseq and txwindow, not wrapped
          fcmask,                  \* bit 2 of fcmask: the data channel is stopped
          oq,                      \* frames waiting in edev->oq
          hseq,                    \* p->seq of the header each task is building
          slip,                    \* auxiliary: commands sent since that header
          reqid, rsp,              \* last command id; id of the response in rsp
          myid, got,               \* per task: id of its command, of its response
          kind,                    \* per task: an ordinary command or a join
          status, joinstatus, jres,
          flowstart, pkt,          \* rproc's locals
          fwq,                     \* packets the chip has for the host
          fwCmds,                  \* commands the firmware has not answered
          fwJoins,                 \* joins it has not reported on
          fwWindow, fwStop,        \* flow control last written into a header
          frameInt,                \* FrameInt of Intstatus
          frames, cmds, joins, flows, deauths, roams, garbled,  \* counters of the bounds
          overdrew, slipped,       \* auxiliary: a command was sent without credit;
                                   \* one was sent between txstart's test and its packet
          linkUp, missed,          \* auxiliary: what the events say of the link
          resultOf                 \* auxiliary: the join whose result joinstatus is

mutexes  == <<cmdlock, pktlock, tlock>>
txVars   == <<sent, oq, hseq, slip>>
flowVars == <<window, fcmask, flowstart>>
cmdVars  == <<reqid, rsp, myid, got, kind>>
joinVars == <<status, joinstatus, jres, linkUp, missed, resultOf>>
fwVars   == <<fwq, fwCmds, fwJoins, fwWindow, fwStop, frameInt>>
bounds   == <<frames, cmds, joins, flows, deauths, roams, garbled>>
auxVars  == <<overdrew, slipped>>
vars == <<pc, mutexes, txVars, flowVars, cmdVars, joinVars, pkt, fwVars, bounds, auxVars>>

-----------------------------------------------------------------------------
\* The state after etherbcmattach: the chip is up and has granted credit.
Init == /\ pc = [p \in Procs |-> IF p = Reader THEN "read" ELSE "idle"]
        /\ cmdlock = None /\ pktlock = None /\ tlock = None
        /\ sent = 0 /\ window = Credits /\ fcmask = FALSE
        /\ oq = 0 /\ hseq = [p \in Procs |-> 0] /\ slip = [p \in Procs |-> 0]
        /\ reqid = 0 /\ rsp = None
        /\ myid = [p \in Procs |-> 0] /\ got = [p \in Procs |-> None]
        /\ kind = [p \in Procs |-> "cmd"]
        /\ status = "Disconnected" /\ joinstatus = 0 /\ jres = 0
        /\ flowstart = FALSE /\ pkt = None
        /\ fwq = <<>> /\ fwCmds = <<>> /\ fwJoins = <<>>
        /\ fwWindow = Credits /\ fwStop = FALSE /\ frameInt = FALSE
        /\ frames = 0 /\ cmds = 0 /\ joins = 0 /\ flows = 0 /\ deauths = 0 /\ roams = 0 /\ garbled = 0
        /\ overdrew = FALSE /\ slipped = FALSE
        /\ linkUp = FALSE /\ missed = FALSE /\ resultOf = 0

At(p, l)    == pc[p] = l
Goto(p, l)  == pc' = [pc EXCEPT ![p] = l]
NoCredit    == sent % SeqMod = window % SeqMod      \* txseq == txwindow

-----------------------------------------------------------------------------
(* Transmitting: send_frame, then txstart, which rproc calls as well.      *)

\* send_frame: qpass onto edev->oq, then transmit.
SendFrame ==
    /\ At(User, "idle") /\ frames < MaxFrames
    /\ oq' = oq + 1 /\ frames' = frames + 1
    /\ kind' = [kind EXCEPT ![User] = "cmd"]
    /\ Goto(User, "tlock")
    /\ UNCHANGED <<mutexes, sent, hseq, slip, flowVars, reqid, rsp, myid, got, joinVars, pkt, fwVars, auxVars,
                   cmds, joins, flows, deauths, roams, garbled>>

TxAcquire(p) ==
    /\ At(p, "tlock") /\ tlock = None
    /\ tlock' = p /\ Goto(p, "tcheck")
    /\ UNCHANGED <<cmdlock, pktlock, txVars, flowVars, cmdVars, joinVars, pkt, fwVars, bounds, auxVars>>

TxReturn(p) == /\ tlock' = None
               /\ Goto(p, IF p = Reader THEN "read" ELSE "idle")

\* txstart without the test of the window.
TxCheckFlowOnly(p) ==
    /\ At(p, "tcheck")
    /\ IF fcmask THEN TxReturn(p) ELSE Goto(p, "tget") /\ UNCHANGED tlock
    /\ UNCHANGED <<cmdlock, pktlock, txVars, flowVars, cmdVars, joinVars, pkt, fwVars, bounds, auxVars>>

\* The test under txwinlock: out of credit, or stopped by flow control.
TxCheck(p) ==
    /\ At(p, "tcheck")
    /\ IF NoCredit \/ fcmask THEN TxReturn(p)
                             ELSE Goto(p, "tget") /\ UNCHANGED tlock
    /\ UNCHANGED <<cmdlock, pktlock, txVars, flowVars, cmdVars, joinVars, pkt, fwVars, bounds, auxVars>>

\* qget and the header, whose sequence number is read before pktlock is taken.
TxGet(p) ==
    /\ At(p, "tget")
    /\ IF oq = 0
         THEN TxReturn(p) /\ UNCHANGED <<oq, hseq, slip>>
         ELSE /\ oq' = oq - 1
              /\ hseq' = [hseq EXCEPT ![p] = sent]
              /\ slip' = [slip EXCEPT ![p] = 0]
              /\ Goto(p, "tpkt") /\ UNCHANGED tlock
    /\ UNCHANGED <<cmdlock, pktlock, sent, flowVars, cmdVars, joinVars, pkt, fwVars, bounds, auxVars>>

TxPktAcquire(p) ==
    /\ At(p, "tpkt") /\ pktlock = None
    /\ pktlock' = p /\ Goto(p, "tsend")
    /\ UNCHANGED <<cmdlock, tlock, txVars, flowVars, cmdVars, joinVars, pkt, fwVars, bounds, auxVars>>

\* packetrw, txseq++, and pktlock is released.
TxSend(p) ==
    /\ At(p, "tsend")
    /\ sent' = sent + 1 /\ pktlock' = None
    /\ hseq' = [hseq EXCEPT ![p] = 0] /\ slip' = [slip EXCEPT ![p] = 0]
    /\ Goto(p, "tcheck")
    /\ UNCHANGED <<cmdlock, tlock, oq, flowVars, cmdVars, joinVars, pkt, fwVars, bounds, auxVars>>

-----------------------------------------------------------------------------
(* Commands: wlcmd, and wljoin on top of it.                               *)

CmdStart(p, k) ==
    /\ p \in {User, Timer} /\ At(p, "idle")
    /\ IF k = "join" THEN /\ p = User /\ joins < MaxJoins
                          /\ joins' = joins + 1 /\ UNCHANGED cmds
                     ELSE cmds < MaxCmds /\ cmds' = cmds + 1 /\ UNCHANGED joins
    /\ kind' = [kind EXCEPT ![p] = k]
    /\ Goto(p, "clock")
    /\ UNCHANGED <<mutexes, txVars, flowVars, reqid, rsp, myid, got, joinVars, pkt, fwVars, auxVars,
                   frames, flows, deauths, roams, garbled>>

CmdAcquire(p) ==
    /\ At(p, "clock") /\ cmdlock = None
    /\ cmdlock' = p /\ Goto(p, "cpkt")
    /\ UNCHANGED <<pktlock, tlock, txVars, flowVars, cmdVars, joinVars, pkt, fwVars, bounds, auxVars>>

CmdPktAcquire(p) ==
    /\ At(p, "cpkt") /\ pktlock = None
    /\ pktlock' = p /\ Goto(p, "csend")
    /\ UNCHANGED <<cmdlock, tlock, txVars, flowVars, cmdVars, joinVars, pkt, fwVars, bounds, auxVars>>

\* The increment of txseq left out after a command.
CmdSendNoIncrement(p) ==
    /\ At(p, "csend")
    /\ reqid' = reqid + 1 /\ myid' = [myid EXCEPT ![p] = reqid + 1]
    /\ fwCmds' = Append(fwCmds, [id |-> reqid + 1, join |-> kind[p] = "join"])
    /\ slip' = [q \in Procs |-> IF At(q, "tpkt") THEN slip[q] + 1 ELSE slip[q]]
    /\ pktlock' = None
    /\ Goto(p, "cwait")
    /\ UNCHANGED <<cmdlock, tlock, sent, oq, hseq, flowVars, rsp, got, kind, joinVars, pkt,
                   fwq, fwJoins, fwWindow, fwStop, frameInt, bounds, auxVars>>

\* Sends the command whatever the transmit window says.
CmdSend(p) ==
    /\ At(p, "csend")
    /\ reqid' = reqid + 1 /\ myid' = [myid EXCEPT ![p] = reqid + 1]
    /\ fwCmds' = Append(fwCmds, [id |-> reqid + 1, join |-> kind[p] = "join"])
    /\ slip' = [q \in Procs |-> IF At(q, "tpkt") THEN slip[q] + 1 ELSE slip[q]]
    /\ sent' = sent + 1 /\ pktlock' = None
    /\ overdrew' = (overdrew \/ NoCredit)
    /\ slipped' = (slipped \/ \E q \in Procs : pc[q] \in {"tget", "tpkt"})
    /\ Goto(p, "cwait")
    /\ UNCHANGED <<cmdlock, tlock, oq, hseq, flowVars, rsp, got, kind, joinVars, pkt,
                   fwq, fwJoins, fwWindow, fwStop, frameInt, bounds>>

\* sleep(&ctl->cmdr, cmddone): polls rsp, then takes it.
CmdWake(p) ==
    /\ At(p, "cwait") /\ rsp # None
    /\ got' = [got EXCEPT ![p] = rsp]
    /\ Goto(p, "cclear")
    /\ UNCHANGED <<mutexes, txVars, flowVars, reqid, rsp, myid, kind, joinVars, pkt, fwVars, bounds, auxVars>>

\* wlcmd leaving the response in ctl->rsp.
CmdKeep(p) ==
    /\ At(p, "cclear")
    /\ Goto(p, "cdone")
    /\ UNCHANGED <<mutexes, txVars, flowVars, cmdVars, joinVars, pkt, fwVars, bounds, auxVars>>

CmdClear(p) ==
    /\ At(p, "cclear")
    /\ rsp' = None /\ Goto(p, "cdone")
    /\ UNCHANGED <<mutexes, txVars, flowVars, reqid, myid, got, kind, joinVars, pkt, fwVars, bounds, auxVars>>

CmdDone(p) ==
    /\ At(p, "cdone")
    /\ cmdlock' = None
    /\ got' = [got EXCEPT ![p] = None] /\ myid' = [myid EXCEPT ![p] = 0]
    /\ Goto(p, IF kind[p] = "join" THEN "jstart" ELSE "idle")
    /\ UNCHANGED <<pktlock, tlock, txVars, flowVars, reqid, rsp, kind, joinVars, pkt, fwVars, bounds, auxVars>>

JoinConnecting ==
    /\ At(User, "jstart")
    /\ status' = "Connecting" /\ Goto(User, "jwait")
    /\ UNCHANGED <<mutexes, txVars, flowVars, cmdVars, joinstatus, jres, linkUp, missed, resultOf, pkt, fwVars, bounds, auxVars>>

\* waitjoin: polls joinstatus, takes it, clears it.
JoinWake ==
    /\ At(User, "jwait") /\ joinstatus # 0
    /\ jres' = joinstatus /\ Goto(User, "jclear")
    /\ UNCHANGED <<mutexes, txVars, flowVars, cmdVars, status, joinstatus, linkUp, missed, resultOf, pkt, fwVars, bounds, auxVars>>

\* waitjoin leaving joinstatus set for the next join.
JoinKeep ==
    /\ At(User, "jclear")
    /\ Goto(User, "jset")
    /\ UNCHANGED <<mutexes, txVars, flowVars, cmdVars, joinVars, pkt, fwVars, bounds, auxVars>>

JoinClear ==
    /\ At(User, "jclear")
    /\ joinstatus' = 0 /\ Goto(User, "jset")
    /\ UNCHANGED <<mutexes, txVars, flowVars, cmdVars, status, jres, linkUp, missed, resultOf, pkt, fwVars, bounds, auxVars>>

JoinSet ==
    /\ At(User, "jset")
    /\ status' = IF jres = 1 THEN "Connected" ELSE "Disconnected"
    /\ Goto(User, "idle")
    /\ UNCHANGED <<mutexes, txVars, flowVars, cmdVars, joinstatus, jres, linkUp, missed, resultOf, pkt, fwVars, bounds, auxVars>>

-----------------------------------------------------------------------------
(* The reader: rproc, with wlreadpkt, intwait and bcmevent.                *)

\* wlreadpkt without pktlock.
ReadNoLock ==
    /\ At(Reader, "read")
    /\ pktlock' = Reader /\ Goto(Reader, "rlocked")
    /\ UNCHANGED <<cmdlock, tlock, txVars, flowVars, cmdVars, joinVars, pkt, fwVars, bounds, auxVars>>

ReadAcquire ==
    /\ At(Reader, "read") /\ pktlock = None
    /\ pktlock' = Reader /\ Goto(Reader, "rlocked")
    /\ UNCHANGED <<cmdlock, tlock, txVars, flowVars, cmdVars, joinVars, pkt, fwVars, bounds, auxVars>>

\* wlreadpkt: length 0 means nothing to read, and rproc waits for FrameInt.
ReadPkt ==
    /\ At(Reader, "rlocked")
    /\ pktlock' = None
    /\ IF fwq = <<>>
         THEN Goto(Reader, "intwait") /\ UNCHANGED <<pkt, fwq>>
         ELSE pkt' = Head(fwq) /\ fwq' = Tail(fwq) /\ Goto(Reader, "window")
    /\ UNCHANGED <<cmdlock, tlock, txVars, flowVars, cmdVars, joinVars,
                   fwCmds, fwJoins, fwWindow, fwStop, frameInt, bounds, auxVars>>

\* A header whose length check fails: the packet is aborted (Rfhalt, draining
\* Rfrmcnt) and the loop reads the next one, pktlock still held.
ReadGarbled ==
    /\ At(Reader, "rlocked") /\ fwq # <<>> /\ garbled < MaxGarbled
    /\ fwq' = Tail(fwq) /\ garbled' = garbled + 1
    /\ UNCHANGED <<pc, mutexes, txVars, flowVars, cmdVars, joinVars, pkt, fwCmds, fwJoins,
                   fwWindow, fwStop, frameInt, frames, cmds, joins, flows, deauths, roams, auxVars>>

\* Going on waiting once the interrupt is acknowledged.
IntWaitKeep ==
    /\ At(Reader, "intwait") /\ frameInt
    /\ frameInt' = FALSE /\ Goto(Reader, "intwait")
    /\ UNCHANGED <<mutexes, txVars, flowVars, cmdVars, joinVars, pkt, fwq, fwCmds, fwJoins,
                   fwWindow, fwStop, bounds, auxVars>>

\* intwait: acknowledges the interrupt before the packets are read.
IntWait ==
    /\ At(Reader, "intwait") /\ frameInt
    /\ frameInt' = FALSE /\ Goto(Reader, "read")
    /\ UNCHANGED <<mutexes, txVars, flowVars, cmdVars, joinVars, pkt, fwq, fwCmds, fwJoins,
                   fwWindow, fwStop, bounds, auxVars>>

\* flowstart raised only when flow control is lifted, not when credit returns.
WindowNoFlowstart ==
    /\ At(Reader, "window")
    /\ window' = IF pkt.win % SeqMod # window % SeqMod THEN pkt.win ELSE window
    /\ fcmask' = pkt.stop
    /\ flowstart' = (flowstart \/ (pkt.stop # fcmask /\ ~pkt.stop))
    /\ Goto(Reader, "dispatch")
    /\ UNCHANGED <<mutexes, txVars, cmdVars, joinVars, pkt, fwVars, bounds, auxVars>>

\* The flow-control fields of the header, under txwinlock.  flowstart asks
\* for a txstart when a sender may have stopped.
Window ==
    /\ At(Reader, "window")
    /\ window' = IF pkt.win % SeqMod # window % SeqMod THEN pkt.win ELSE window
    /\ fcmask' = pkt.stop
    /\ flowstart' = \/ flowstart
                    \/ pkt.win % SeqMod # window % SeqMod /\ NoCredit
                    \/ pkt.stop # fcmask /\ ~pkt.stop
    /\ Goto(Reader, "dispatch")
    /\ UNCHANGED <<mutexes, txVars, cmdVars, joinVars, pkt, fwVars, bounds, auxVars>>

\* The top of rproc's loop: txstart when flowstart is set, else the next packet.
NextRound == /\ Goto(Reader, IF flowstart THEN "tlock" ELSE "read")
             /\ flowstart' = FALSE /\ pkt' = None

\* Channel 0: a response, kept only when its id is that of the last command.
Response ==
    /\ At(Reader, "dispatch") /\ pkt.ch = "rsp"
    /\ rsp' = IF pkt.id = reqid THEN pkt.id ELSE rsp
    /\ NextRound
    /\ UNCHANGED <<mutexes, txVars, window, fcmask, reqid, myid, got, kind, joinVars, fwVars, bounds, auxVars>>

\* Channel 1: bcmevent.  E_SET_SSID leaves the result of a join.
JoinEvent ==
    /\ At(Reader, "dispatch") /\ pkt.ch = "ssid"
    /\ joinstatus' = 1 + pkt.st /\ resultOf' = pkt.id
    /\ linkUp' = (pkt.st = 0) /\ missed' = FALSE
    /\ NextRound
    /\ UNCHANGED <<mutexes, txVars, window, fcmask, cmdVars, status, jres, fwVars, bounds, auxVars>>

\* E_ROAM with an error falls through to E_SET_SSID, join or no join.
RoamEvent ==
    /\ At(Reader, "dispatch") /\ pkt.ch = "roam"
    /\ joinstatus' = 2 /\ resultOf' = 0
    /\ NextRound
    /\ UNCHANGED <<mutexes, txVars, window, fcmask, cmdVars, status, jres, linkUp, missed, fwVars, bounds, auxVars>>

\* The user's task is inside wljoin.
Joining == kind[User] = "join" /\ pc[User] # "idle"

\* bcmevent ignoring the deauthentication events.
DeauthIgnored ==
    /\ At(Reader, "dispatch") /\ pkt.ch = "deauth"
    /\ linkUp' = FALSE
    /\ missed' = (missed \/ (linkUp /\ Joining))
    /\ NextRound
    /\ UNCHANGED <<mutexes, txVars, window, fcmask, cmdVars, status, joinstatus, jres, resultOf, fwVars, bounds, auxVars>>

\* E_DEAUTH, E_DEAUTH_IND, E_DISASSOC_IND, E_LINK down: linkdown, which does
\* nothing unless the status is already Connected.
Deauth ==
    /\ At(Reader, "dispatch") /\ pkt.ch = "deauth"
    /\ status' = IF status = "Connected" THEN "Disconnected" ELSE status
    /\ linkUp' = FALSE
    /\ missed' = (missed \/ (linkUp /\ Joining))
    /\ NextRound
    /\ UNCHANGED <<mutexes, txVars, window, fcmask, cmdVars, joinstatus, jres, resultOf, fwVars, bounds, auxVars>>

\* Channel 2 (etheriq, module NetQueue) and anything else: no driver state.
OtherPacket ==
    /\ At(Reader, "dispatch") /\ pkt.ch = "data"
    /\ NextRound
    /\ UNCHANGED <<mutexes, txVars, window, fcmask, cmdVars, joinVars, fwVars, bounds, auxVars>>

-----------------------------------------------------------------------------
(* The firmware (external): answers every command once and in order,       *)
(* reports on every join once, and tells its flow-control state in each    *)
(* packet.  The credit it grants counts from the packets it has received.  *)

Enqueue(ch, id, st, win, stop) ==
    /\ Len(fwq) < MaxQueue
    /\ fwq' = Append(fwq, [ch |-> ch, id |-> id, st |-> st, win |-> win, stop |-> stop])
    /\ fwWindow' = win /\ fwStop' = stop /\ frameInt' = TRUE

Grants == {fwWindow} \cup {w \in fwWindow..(sent + Credits) : w = sent + Credits}

FwRespond(w) ==
    /\ fwCmds # <<>>
    /\ Enqueue("rsp", Head(fwCmds).id, 0, w, fwStop)
    /\ fwCmds' = Tail(fwCmds)
    /\ fwJoins' = IF Head(fwCmds).join THEN Append(fwJoins, joins) ELSE fwJoins
    /\ UNCHANGED <<pc, mutexes, txVars, flowVars, cmdVars, joinVars, pkt, bounds, auxVars>>

FwJoinResult(w, st) ==
    /\ fwJoins # <<>>
    /\ Enqueue("ssid", Head(fwJoins), st, w, fwStop)
    /\ fwJoins' = Tail(fwJoins)
    /\ UNCHANGED <<pc, mutexes, txVars, flowVars, cmdVars, joinVars, pkt, fwCmds, bounds, auxVars>>

FwDeauth(w) ==
    /\ deauths < MaxDeauth /\ deauths' = deauths + 1
    /\ Enqueue("deauth", 0, 0, w, fwStop)
    /\ UNCHANGED <<pc, mutexes, txVars, flowVars, cmdVars, joinVars, pkt, fwCmds, fwJoins,
                   frames, cmds, joins, flows, roams, garbled, auxVars>>

FwRoamFailed(w) ==
    /\ joins > 0 /\ roams < MaxRoam /\ roams' = roams + 1
    /\ Enqueue("roam", 0, 1, w, fwStop)
    /\ UNCHANGED <<pc, mutexes, txVars, flowVars, cmdVars, joinVars, pkt, fwCmds, fwJoins,
                   frames, cmds, joins, flows, deauths, garbled, auxVars>>

\* A data packet that grants credit or starts or stops the data channel.
FwStopData ==
    /\ ~fwStop /\ flows < MaxFlow /\ flows' = flows + 1
    /\ Enqueue("data", 0, 0, fwWindow, TRUE)
    /\ UNCHANGED <<pc, mutexes, txVars, flowVars, cmdVars, joinVars, pkt, fwCmds, fwJoins,
                   frames, cmds, joins, deauths, roams, garbled, auxVars>>

FwAllowData ==
    /\ \/ fwStop \/ fwWindow < sent + Credits
    /\ Enqueue("data", 0, 0, sent + Credits, FALSE)
    /\ UNCHANGED <<pc, mutexes, txVars, flowVars, cmdVars, joinVars, pkt, fwCmds, fwJoins, bounds, auxVars>>

-----------------------------------------------------------------------------
Transmit(p) == TxAcquire(p) \/ TxCheck(p) \/ TxGet(p) \/ TxPktAcquire(p) \/ TxSend(p)
Command(p) == \/ CmdAcquire(p) \/ CmdPktAcquire(p) \/ CmdSend(p) \/ CmdWake(p)
              \/ CmdClear(p) \/ CmdDone(p)
Join == JoinConnecting \/ JoinWake \/ JoinClear \/ JoinSet
Read == \/ ReadAcquire \/ ReadPkt \/ ReadGarbled \/ IntWait \/ Window
        \/ Response \/ JoinEvent \/ RoamEvent \/ Deauth \/ OtherPacket
Firmware == \/ \E w \in Grants : FwRespond(w) \/ FwDeauth(w) \/ FwRoamFailed(w) \/ \E st \in {0, 1} : FwJoinResult(w, st)
            \/ FwStopData \/ FwAllowData

Next == \/ SendFrame \/ Join \/ Read \/ Firmware
        \/ \E p \in Procs : Transmit(p) \/ Command(p) \/ \E k \in {"cmd", "join"} : CmdStart(p, k)

Spec == Init /\ [][Next]_vars

\* The scheduler runs every task again and again (module Scheduler), and each
\* waits by polling.  The firmware goes on answering commands, reporting on
\* joins and, once it has stopped the data channel or taken packets, opening
\* the window again.
Fairness == /\ \A p \in Procs : WF_vars(Transmit(p)) /\ WF_vars(Command(p))
            /\ WF_vars(Join) /\ WF_vars(Read)
            /\ WF_vars(\E w \in Grants : FwRespond(w))
            /\ WF_vars(\E w \in Grants, st \in {0, 1} : FwJoinResult(w, st))
            /\ WF_vars(FwAllowData)
FairSpec == Spec /\ Fairness

-----------------------------------------------------------------------------
(* Properties.                                                             *)

Locations == {"idle", "read", "tlock", "tcheck", "tget", "tpkt", "tsend", "clock", "cpkt",
              "csend", "cwait", "cclear", "cdone", "jstart", "jwait", "jclear", "jset",
              "rlocked", "intwait", "window", "dispatch"}

TypeOK == /\ pc \in [Procs -> Locations]
          /\ {cmdlock, pktlock, tlock} \subseteq Procs \cup {None}
          /\ sent \in Nat /\ window \in Nat /\ fcmask \in BOOLEAN
          /\ oq \in 0..MaxFrames /\ reqid \in 0..(MaxCmds + MaxJoins)
          /\ status \in {"Disconnected", "Connecting", "Connected"}
          /\ joinstatus \in 0..2 /\ jres \in 0..2
          /\ Len(fwq) <= MaxQueue

\* A command is completed by its own response: wlcmd takes whatever is in
\* ctl->rsp, and rproc compares the response's id with reqid, which the next
\* command changes.
OwnResponse ==
    /\ \A p \in {User, Timer} : pc[p] \in {"cclear", "cdone"} => got[p] = myid[p]
    /\ \A p \in {User, Timer} : pc[p] \in {"clock", "cpkt", "csend"} /\ cmdlock = p => rsp = None

\* A join is completed by the result of that join, not one left in
\* ctl->joinstatus by an earlier one.  A failed roam does leave one there, and
\* from then on every join takes the answer to the one before it.
OwnJoinResult == pc[User] \in {"jclear", "jset"} => resultOf = joins \/ roams > 0

\* Each mutex is held by the one task that is inside the code it guards.
\* For pktlock that is the transfer of a packet over the bus: no two packets
\* are mixed, and no task leaves an early return with a mutex.
CmdSection == {"cpkt", "csend", "cwait", "cclear", "cdone"}
PktSection == {"tsend", "csend", "rlocked"}
TxSection  == {"tcheck", "tget", "tpkt", "tsend"}
LockInv ==
    \A p \in Procs : /\ (cmdlock = p) <=> (pc[p] \in CmdSection)
                     /\ (pktlock = p) <=> (pc[p] \in PktSection)
                     /\ (tlock = p) <=> (pc[p] \in TxSection)
DriverInv == TypeOK /\ LockInv

\* A command is alone in the code cmdlock guards, and completed by its own
\* response; a join ends with the result of its own events.
OneExchange == DriverInv /\ OwnResponse /\ OwnJoinResult

\* A packet goes out with the sequence number of its place on the wire, but
\* for a data packet overtaken between header and pktlock: it is behind by
\* exactly the number of commands that overtook it.
SequenceNumbers ==
    \A p \in Procs : pc[p] = "tsend" => hseq[p] + slip[p] = sent

\* The host stays inside the window the firmware granted, unless a command,
\* which does not ask for credit, took the credit a data packet counted on.
WindowRespected == sent <= window \/ overdrew \/ slipped

\* What the firmware sees on the wire: packets numbered by their place and
\* inside its window, but for what commands do to data packets.
WireOrder == SequenceNumbers /\ WindowRespected

\* Outside of a join, Connected means that the last join succeeded and no
\* deauthentication followed, unless that one was handled inside wljoin, which
\* then overwrites the status whatever linkdown did, or a roam had failed.
ConnectedMeansLinkUp ==
    (status = "Connected" /\ ~missed /\ ~Joining /\ roams = 0) => linkUp

\* Every command issued is completed and gives cmdlock back.
CommandsComplete ==
    \A p \in {User, Timer} : (pc[p] \in {"clock", "cpkt", "csend", "cwait"}) ~> (pc[p] = "cdone")

\* No frame stays in edev->oq once the firmware grants credit again, unless
\* a command was sent without credit: txseq then passes txwindow, and rproc
\* no longer sees that a sender had stopped.
NoLostFlowStart == (oq > 0) ~> (oq = 0 \/ overdrew)
=============================================================================
