--------------------------- MODULE WifiDriverProofs ---------------------------
(***************************************************************************)
(* Proofs about module WifiDriver, for any window, queue and number of     *)
(* frames, commands and joins: commands and joins are completed by their   *)
(* own answers (OneExchange), packets are numbered by their place and sent *)
(* inside the window (WireOrder), and Connected means that the link is up  *)
(* (ConnectedMeansLinkUp).                                                 *)
(***************************************************************************)
EXTENDS WifiDriver, SequenceTheorems, TLAPS

Packet  == [ch : {"rsp", "ssid", "roam", "deauth", "data"}, id : Nat, st : {0, 1},
            win : Nat, stop : BOOLEAN]
Request == [id : Nat, join : BOOLEAN]

\* rproc has a packet, from wlreadpkt to the end of the round.
HasPacket == pc[Reader] \in {"window", "dispatch"}

-----------------------------------------------------------------------------
(* The parts of the inductive invariant.                                   *)

\* Where each task can be: only rproc reads, only the user's task joins, and
\* lproc issues nothing but commands.
TxPlaces  == {"tlock", "tcheck", "tget", "tpkt", "tsend"}
CmdPlaces == {"clock", "cpkt", "csend", "cwait", "cclear", "cdone"}
Places == /\ pc[Reader] \in TxPlaces \cup {"read", "rlocked", "intwait", "window", "dispatch"}
          /\ pc[User] \in TxPlaces \cup CmdPlaces \cup {"idle", "jstart", "jwait", "jclear", "jset"}
          /\ pc[Timer] \in CmdPlaces \cup {"idle"}
          /\ kind[Timer] = "cmd"
          /\ pc[User] \in {"jstart", "jwait", "jclear", "jset"} => kind[User] = "join"
          /\ pc[User] \in TxPlaces => kind[User] = "cmd"

\* The types TypeOK leaves out.
LocalTypes ==
    /\ hseq \in [Procs -> Nat] /\ slip \in [Procs -> Nat]
    /\ myid \in [Procs -> Nat] /\ kind \in [Procs -> {"cmd", "join"}]
    /\ DOMAIN got = Procs
    /\ resultOf \in Nat /\ roams \in Nat
    /\ flowstart \in BOOLEAN /\ linkUp \in BOOLEAN /\ missed \in BOOLEAN
    /\ overdrew \in BOOLEAN /\ slipped \in BOOLEAN
FirmwareTypes ==
    /\ fwq \in Seq(Packet) /\ fwCmds \in Seq(Request) /\ fwJoins \in Seq(Nat)
    /\ fwWindow \in Nat /\ fwStop \in BOOLEAN
    /\ HasPacket => pkt \in Packet

\* Frames, commands and joins stay in their bounds, and a frame in oq was sent
\* by the user.
Counts == /\ frames \in Nat /\ cmds \in Nat /\ joins \in Nat
          /\ frames <= MaxFrames /\ cmds <= MaxCmds /\ joins <= MaxJoins
          /\ oq \in Nat /\ oq <= frames

\* Every id was used by a command, and one not sent yet will use another.
Unsent(p) == IF pc[p] \in {"clock", "cpkt", "csend"} THEN 1 ELSE 0
Ids == reqid \in Nat /\ reqid + Unsent(User) + Unsent(Timer) <= cmds + joins

Base == /\ TypeOK /\ LockInv /\ Places /\ LocalTypes /\ FirmwareTypes
        /\ Counts /\ Ids

\* A packet of a kind waits in the chip, or rproc has it.
Queued(c)  == \E i \in 1..Len(fwq) : fwq[i].ch = c
InHand(c)  == HasPacket /\ pkt.ch = c
Pending(c) == Queued(c) \/ InHand(c)

\* At most one packet of a kind is under way, and it has this id.
OnlyOne(c, n) == /\ \A i, j \in 1..Len(fwq) : fwq[i].ch = c /\ fwq[j].ch = c => i = j
                 /\ \A i \in 1..Len(fwq) : fwq[i].ch = c => fwq[i].id = n
                 /\ InHand(c) => pkt.id = n
                 /\ ~(Queued(c) /\ InHand(c))

\* One command is under way at most: as a request, as a response, or in rsp.
\* Its task waits for it, and reqid is its id.
Waiting == \E p \in {User, Timer} : pc[p] = "cwait"
CommandInv ==
    /\ OnlyOne("rsp", reqid)
    /\ Len(fwCmds) <= 1
    /\ fwCmds # <<>> => fwCmds[1].id = reqid /\ ~Pending("rsp")
    /\ fwCmds # <<>> \/ Pending("rsp") => Waiting /\ rsp = None
    /\ rsp # None => rsp = reqid /\ \E p \in {User, Timer} : pc[p] \in {"cwait", "cclear"}
    /\ \A p \in {User, Timer} : pc[p] \in {"cwait", "cclear", "cdone"} => myid[p] = reqid
    /\ \A p \in {User, Timer} : pc[p] \in {"cclear", "cdone"} => got[p] = reqid

\* The same for the result of a join, from the join command to jclear, as long
\* as no roam has failed.
JoinWaiting == /\ kind[User] = "join" /\ joinstatus = 0
               /\ pc[User] \in {"cwait", "cclear", "cdone", "jstart", "jwait"}
JoinInv ==
    /\ Pending("roam") => roams > 0
    /\ fwCmds # <<>> /\ fwCmds[1].join => pc[User] = "cwait"
    /\ roams = 0 =>
         /\ OnlyOne("ssid", joins)
         /\ Len(fwJoins) <= 1
         /\ fwCmds # <<>> /\ fwCmds[1].join => JoinWaiting /\ fwJoins = <<>> /\ ~Pending("ssid")
         /\ fwJoins # <<>> => JoinWaiting /\ fwJoins[1] = joins /\ ~Pending("ssid")
         /\ Pending("ssid") => JoinWaiting
         /\ joinstatus # 0 =>
              /\ resultOf = joins /\ kind[User] = "join"
              /\ pc[User] \in {"cwait", "cclear", "cdone", "jstart", "jwait", "jclear"}
         /\ pc[User] \in {"jclear", "jset"} => resultOf = joins

\* A successful result stands for a link that is up, or one whose loss was
\* handled inside of wljoin.
LinkInv == roams = 0 =>
    /\ joinstatus = 1 => linkUp \/ missed
    /\ pc[User] \in {"jclear", "jset"} /\ jres = 1 => linkUp \/ missed
    /\ status = "Connected" /\ ~Joining => linkUp \/ missed

\* The window grows from packet to packet, and never beyond the credit that
\* counts from what was sent.
WindowGrows ==
    /\ HasPacket => window <= pkt.win
    /\ HasPacket => pkt.win <= fwWindow
    /\ \A i \in 1..Len(fwq) : /\ window <= fwq[i].win /\ fwq[i].win <= fwWindow
                              /\ HasPacket => pkt.win <= fwq[i].win
                              /\ \A j \in 1..i : fwq[j].win <= fwq[i].win
    /\ window <= fwWindow /\ fwWindow <= sent + Credits

\* txstart goes on with the credit it has seen: only a command can use it up.
WireInv ==
    /\ \A p \in Procs : pc[p] \in {"tpkt", "tsend"} => hseq[p] + slip[p] = sent
    /\ ~overdrew /\ ~slipped =>
         /\ sent <= window
         /\ \A p \in Procs : pc[p] \in {"tget", "tpkt", "tsend"} => sent < window

-----------------------------------------------------------------------------
(* Sequences.                                                              *)

\* What Append does to a queue.
LEMMA AppendFacts ==
    ASSUME NEW S, NEW q \in Seq(S), NEW e \in S
    PROVE  /\ Append(q, e) \in Seq(S) /\ Append(q, e) # <<>>
           /\ Len(Append(q, e)) = Len(q) + 1
           /\ \A i \in 1..Len(q) : Append(q, e)[i] = q[i]
           /\ Append(q, e)[Len(q) + 1] = e
  OBVIOUS

\* What Head and Tail do to a queue that is not empty.
LEMMA TailFacts ==
    ASSUME NEW S, NEW q \in Seq(S), q # <<>>
    PROVE  /\ Tail(q) \in Seq(S) /\ Len(q) >= 1 /\ Len(q) \in Nat
           /\ Head(q) = q[1] /\ Head(q) \in S
           /\ Len(Tail(q)) = Len(q) - 1
           /\ \A i \in 1..(Len(q) - 1) : Tail(q)[i] = q[i + 1]
           /\ Len(q) <= 1 => Tail(q) = <<>>
  BY HeadTailProperties, EmptySeq

-----------------------------------------------------------------------------
(* The packets between the chip and rproc.                                 *)

Kinds == {"rsp", "ssid", "roam", "deauth", "data"}

\* The firmware adds a packet of some kind, whose window is no smaller than the
\* last one, and leaves the host's state alone.
FirmwareAdds(pk) ==
    /\ fwq' = Append(fwq, pk) /\ Len(fwq) < MaxQueue
    /\ fwWindow' = pk.win /\ fwStop' = pk.stop
    /\ fwWindow <= sent + Credits => fwWindow <= pk.win /\ pk.win <= sent + Credits
    /\ UNCHANGED <<pc, mutexes, txVars, flowVars, cmdVars, joinVars, pkt, auxVars,
                   frames, cmds, joins>>
    /\ \/ /\ pk.ch = "rsp" /\ fwCmds # <<>> /\ pk.id = fwCmds[1].id
          /\ fwCmds' = Tail(fwCmds) /\ UNCHANGED roams
          /\ fwJoins' = IF fwCmds[1].join THEN Append(fwJoins, joins) ELSE fwJoins
       \/ /\ pk.ch = "ssid" /\ fwJoins # <<>> /\ pk.id = fwJoins[1]
          /\ fwJoins' = Tail(fwJoins) /\ UNCHANGED <<fwCmds, roams>>
       \/ pk.ch = "roam" /\ roams' = roams + 1 /\ UNCHANGED <<fwCmds, fwJoins>>
       \/ pk.ch \in {"deauth", "data"} /\ UNCHANGED <<fwCmds, fwJoins, roams>>

\* Every step of the firmware is such a packet.
LEMMA FirmwareShape ==
    ASSUME Base, Firmware
    PROVE  \E pk \in Packet : FirmwareAdds(pk)
<1> USE DriverConstants DEF Enqueue, FirmwareAdds, Packet, bounds, Base
<1>0. sent + Credits \in Nat /\ fwWindow \in Nat /\ fwStop \in BOOLEAN /\ Grants \subseteq Nat
  BY DEF TypeOK, FirmwareTypes, Grants
<1>a. \A w \in Grants : fwWindow <= sent + Credits => fwWindow <= w /\ w <= sent + Credits
  BY <1>0 DEF Grants
<1>1. ASSUME NEW w \in Grants, FwRespond(w) PROVE \E pk \in Packet : FirmwareAdds(pk)
  <2>1. fwCmds[1] \in Request /\ Head(fwCmds) = fwCmds[1]
    BY <1>1, TailFacts DEF FwRespond, FirmwareTypes
  <2>2. fwCmds[1].id \in Nat
    BY <2>1 DEF Request
  <2> DEFINE pk == [ch |-> "rsp", id |-> fwCmds[1].id, st |-> 0, win |-> w, stop |-> fwStop]
  <2>3. pk \in Packet
    BY <1>0, <2>2
  <2>4. FirmwareAdds(pk)
    BY <1>1, <1>a, <2>1 DEF FwRespond
  <2> QED  BY <2>3, <2>4
<1>2. ASSUME NEW w \in Grants, NEW st \in {0, 1}, FwJoinResult(w, st)
      PROVE  \E pk \in Packet : FirmwareAdds(pk)
  <2>1. fwJoins[1] \in Nat /\ Head(fwJoins) = fwJoins[1]
    BY <1>2, TailFacts DEF FwJoinResult, FirmwareTypes
  <2> DEFINE pk == [ch |-> "ssid", id |-> fwJoins[1], st |-> st, win |-> w, stop |-> fwStop]
  <2>2. pk \in Packet
    BY <1>0, <2>1
  <2>3. FirmwareAdds(pk)
    BY <1>2, <1>a, <2>1 DEF FwJoinResult
  <2> QED  BY <2>2, <2>3
<1>3. ASSUME NEW w \in Grants, FwDeauth(w) PROVE \E pk \in Packet : FirmwareAdds(pk)
  <2> DEFINE pk == [ch |-> "deauth", id |-> 0, st |-> 0, win |-> w, stop |-> fwStop]
  <2> QED  BY <1>0, <1>3, <1>a, pk \in Packet DEF FwDeauth
<1>4. ASSUME NEW w \in Grants, FwRoamFailed(w) PROVE \E pk \in Packet : FirmwareAdds(pk)
  <2> DEFINE pk == [ch |-> "roam", id |-> 0, st |-> 1, win |-> w, stop |-> fwStop]
  <2> QED  BY <1>0, <1>4, <1>a, pk \in Packet DEF FwRoamFailed
<1>5. ASSUME FwStopData PROVE \E pk \in Packet : FirmwareAdds(pk)
  <2> DEFINE pk == [ch |-> "data", id |-> 0, st |-> 0, win |-> fwWindow, stop |-> TRUE]
  <2>1. pk \in Packet
    BY <1>0
  <2>2. FirmwareAdds(pk)
    BY <1>0, <1>5 DEF FwStopData
  <2> QED  BY <2>1, <2>2
<1>6. ASSUME FwAllowData PROVE \E pk \in Packet : FirmwareAdds(pk)
  <2> DEFINE pk == [ch |-> "data", id |-> 0, st |-> 0, win |-> sent + Credits, stop |-> FALSE]
  <2>1. pk \in Packet
    BY <1>0
  <2>2. pk.win = sent + Credits /\ pk.ch = "data"
    OBVIOUS
  <2>3. /\ fwq' = Append(fwq, pk) /\ Len(fwq) < MaxQueue
        /\ fwWindow' = sent + Credits
        /\ UNCHANGED <<pc, mutexes, txVars, flowVars, cmdVars, joinVars, pkt, auxVars,
                       frames, cmds, joins, fwCmds, fwJoins, roams>>
    BY <1>6 DEF FwAllowData
  <2>4. fwStop' = pk.stop
    BY <1>6, Zenon DEF FwAllowData
  <2> HIDE DEF pk
  <2>5. FirmwareAdds(pk)
    BY <1>0, <2>2, <2>3, <2>4
  <2> QED  BY <2>1, <2>5
<1> QED  BY <1>1, <1>2, <1>3, <1>4, <1>5, <1>6 DEF Firmware

\* A step that leaves the packets and rproc's hold on one alone changes
\* nothing about what is under way.
LEMMA PacketsUntouched ==
    ASSUME UNCHANGED <<fwq, pkt>>, HasPacket' = HasPacket
    PROVE  /\ \A c \in Kinds : Pending(c)' = Pending(c)
           /\ UNCHANGED reqid /\ OnlyOne("rsp", reqid) => OnlyOne("rsp", reqid)'
           /\ ~Pending("rsp") => OnlyOne("rsp", reqid)'
           /\ UNCHANGED joins /\ OnlyOne("ssid", joins) => OnlyOne("ssid", joins)'
           /\ ~Pending("ssid") => OnlyOne("ssid", joins)'
  BY DEF Pending, Queued, InHand, OnlyOne

\* A packet of the firmware is under way, and alone if none of its kind was.
LEMMA PacketAdded ==
    ASSUME Base, NEW pk \in Packet, FirmwareAdds(pk)
    PROVE  /\ \A c \in Kinds : Pending(c)' <=> Pending(c) \/ pk.ch = c
           /\ OnlyOne("rsp", reqid) /\ (pk.ch = "rsp" => pk.id = reqid /\ ~Pending("rsp"))
              => OnlyOne("rsp", reqid)'
           /\ OnlyOne("ssid", joins) /\ (pk.ch = "ssid" => pk.id = joins /\ ~Pending("ssid"))
              => OnlyOne("ssid", joins)'
<1>1. /\ fwq \in Seq(Packet) /\ Len(fwq) \in Nat
      /\ UNCHANGED <<pc, pkt, reqid, joins>>
      /\ fwq' = Append(fwq, pk)
  BY DEF FirmwareAdds, cmdVars, Base, FirmwareTypes
<1>2. /\ Len(fwq') = Len(fwq) + 1
      /\ \A i \in 1..Len(fwq) : fwq'[i] = fwq[i]
      /\ fwq'[Len(fwq) + 1] = pk
  BY <1>1, AppendFacts
<1>3. \A c : InHand(c)' <=> InHand(c)
  BY <1>1 DEF InHand, HasPacket
<1>4. \A c : Queued(c)' <=> Queued(c) \/ pk.ch = c
  BY <1>1, <1>2 DEF Queued
<1>5. /\ OnlyOne("rsp", reqid) /\ (pk.ch = "rsp" => pk.id = reqid /\ ~Pending("rsp"))
         => OnlyOne("rsp", reqid)'
      /\ OnlyOne("ssid", joins) /\ (pk.ch = "ssid" => pk.id = joins /\ ~Pending("ssid"))
         => OnlyOne("ssid", joins)'
  BY <1>1, <1>2, <1>3, <1>4 DEF OnlyOne, Pending, Queued
<1> QED  BY <1>3, <1>4, <1>5 DEF Pending

\* wlreadpkt takes the first packet, which is then in rproc's hand, or drops
\* one with a damaged header: nothing else comes under way.
LEMMA PacketRead ==
    ASSUME Base, ReadPkt \/ ReadGarbled
    PROVE  /\ \A c \in Kinds : Pending(c)' => Pending(c)
           /\ OnlyOne("rsp", reqid) => OnlyOne("rsp", reqid)'
           /\ OnlyOne("ssid", joins) => OnlyOne("ssid", joins)'
<1> USE DEF Base
<1>1. fwq \in Seq(Packet) /\ Len(fwq) \in Nat /\ ~HasPacket /\ UNCHANGED <<reqid, joins>>
  BY DEF FirmwareTypes, ReadPkt, ReadGarbled, At, HasPacket, cmdVars, bounds
<1>2. CASE ReadPkt /\ fwq = <<>>
  <2>1. UNCHANGED <<fwq, pkt>> /\ ~HasPacket'
    BY <1>1, <1>2 DEF ReadPkt, HasPacket, At, Goto, TypeOK
  <2>2. HasPacket' = HasPacket
    BY <1>1, <2>1 DEF HasPacket
  <2> QED  BY <1>1, <2>1, <2>2, PacketsUntouched
<1>3. CASE fwq # <<>>
  <2>1. /\ fwq' = Tail(fwq)
        /\ \/ HasPacket' /\ pkt' = fwq[1]
           \/ ~HasPacket'
    BY <1>1, <1>3, TailFacts DEF ReadPkt, ReadGarbled, HasPacket, At, Goto, TypeOK
  <2>2. /\ Len(fwq) >= 1 /\ Len(fwq') = Len(fwq) - 1
        /\ \A i \in 1..(Len(fwq) - 1) : fwq'[i] = fwq[i + 1]
    BY <1>1, <1>3, <2>1, TailFacts
  <2>3. \A c : Queued(c)' => \E i \in 2..Len(fwq) : fwq[i].ch = c
    BY <1>1, <2>2 DEF Queued
  <2>4. \A c : InHand(c)' => fwq[1].ch = c
    BY <2>1 DEF InHand
  <2>5. \A c \in Kinds : Pending(c)' => Pending(c)
    BY <1>1, <2>2, <2>3, <2>4 DEF Pending, Queued
  <2>6. ASSUME OnlyOne("rsp", reqid) PROVE OnlyOne("rsp", reqid)'
    <3>1. \A i, j \in 1..Len(fwq) : fwq[i].ch = "rsp" /\ fwq[j].ch = "rsp" => i = j
      BY <2>6 DEF OnlyOne
    <3>2. \A i \in 1..Len(fwq) : fwq[i].ch = "rsp" => fwq[i].id = reqid
      BY <2>6 DEF OnlyOne
    <3>3. /\ \A i, j \in 1..Len(fwq') : fwq'[i].ch = "rsp" /\ fwq'[j].ch = "rsp" => i = j
          /\ \A i \in 1..Len(fwq') : fwq'[i].ch = "rsp" => fwq'[i].id = reqid
      BY <1>1, <2>2, <3>1, <3>2, SMTT(30)
    <3>4. InHand("rsp")' => pkt'.id = reqid
      BY <1>1, <2>1, <2>2, <3>2 DEF InHand
    <3>5. ~(Queued("rsp")' /\ InHand("rsp")')
      BY <1>1, <2>2, <2>3, <2>4, <3>1
    <3> QED  BY <1>1, <3>3, <3>4, <3>5 DEF OnlyOne
  <2>7. ASSUME OnlyOne("ssid", joins) PROVE OnlyOne("ssid", joins)'
    <3>1. \A i, j \in 1..Len(fwq) : fwq[i].ch = "ssid" /\ fwq[j].ch = "ssid" => i = j
      BY <2>7 DEF OnlyOne
    <3>2. \A i \in 1..Len(fwq) : fwq[i].ch = "ssid" => fwq[i].id = joins
      BY <2>7 DEF OnlyOne
    <3>3. /\ \A i, j \in 1..Len(fwq') : fwq'[i].ch = "ssid" /\ fwq'[j].ch = "ssid" => i = j
          /\ \A i \in 1..Len(fwq') : fwq'[i].ch = "ssid" => fwq'[i].id = joins
      BY <1>1, <2>2, <3>1, <3>2, SMTT(30)
    <3>4. InHand("ssid")' => pkt'.id = joins
      BY <1>1, <2>1, <2>2, <3>2 DEF InHand
    <3>5. ~(Queued("ssid")' /\ InHand("ssid")')
      BY <1>1, <2>2, <2>3, <2>4, <3>1
    <3> QED  BY <1>1, <3>3, <3>4, <3>5 DEF OnlyOne
  <2> QED  BY <2>5, <2>6, <2>7
<1> QED  BY <1>2, <1>3 DEF ReadGarbled

\* rproc is done with its packet, whichever channel it came on.
LEMMA PacketDone ==
    ASSUME Base, At(Reader, "dispatch"), NextRound, UNCHANGED <<fwq, reqid, joins>>
    PROVE  /\ \A c \in Kinds : Pending(c)' => Pending(c)
           /\ OnlyOne("rsp", reqid) => OnlyOne("rsp", reqid)' /\ (InHand("rsp") => ~Pending("rsp")')
           /\ OnlyOne("ssid", joins) => OnlyOne("ssid", joins)' /\ (InHand("ssid") => ~Pending("ssid")')
<1>1. ~HasPacket'
  BY DEF NextRound, Goto, HasPacket, Base, TypeOK, Procs
<1> QED  BY <1>1 DEF Pending, Queued, InHand, OnlyOne

-----------------------------------------------------------------------------
(* The steps of Next, as the proofs below go through them.                 *)

Waits    == ReadAcquire \/ IntWait \/ Window
Dispatch == Response \/ JoinEvent \/ RoamEvent \/ Deauth \/ OtherPacket

\* A step is one of the user's or of lproc's, of rproc or of the firmware.
LEMMA NextCases ==
    ASSUME [Next]_vars
    PROVE  \/ SendFrame
           \/ \E p \in Procs : Transmit(p)
           \/ \E p \in Procs, k \in {"cmd", "join"} : CmdStart(p, k)
           \/ \E p \in Procs : Command(p)
           \/ Join \/ Waits \/ ReadPkt \/ ReadGarbled \/ Dispatch \/ Firmware
           \/ UNCHANGED vars
  BY DEF Next, Read, Waits, Dispatch

\* The other tasks, and rproc outside of wlreadpkt and its dispatch, leave the
\* packets alone.
LEMMA PacketsKept ==
    ASSUME Base, NEW p \in Procs, NEW k \in {"cmd", "join"},
           \/ SendFrame \/ Transmit(p) \/ CmdStart(p, k) \/ Command(p) \/ Join
           \/ Waits \/ UNCHANGED vars
    PROVE  UNCHANGED <<fwq, pkt>> /\ HasPacket' = HasPacket
<1> USE DriverConstants DEF Procs, At, Goto, fwVars, HasPacket, Base, TypeOK
<1>1. CASE SendFrame
  BY <1>1 DEF SendFrame
<1>2. CASE Transmit(p)
  <2>1. CASE TxAcquire(p) \/ TxPktAcquire(p) \/ TxSend(p)
    BY <2>1 DEF TxAcquire, TxPktAcquire, TxSend
  <2>2. CASE TxCheck(p)
    BY <2>2 DEF TxCheck, TxReturn
  <2>3. CASE TxGet(p)
    BY <2>3 DEF TxGet, TxReturn
  <2> QED  BY <1>2, <2>1, <2>2, <2>3 DEF Transmit
<1>3. CASE CmdStart(p, k)
  BY <1>3 DEF CmdStart
<1>4. CASE Command(p)
  BY <1>4 DEF Command, CmdAcquire, CmdPktAcquire, CmdSend, CmdWake, CmdClear, CmdDone
<1>5. CASE Join
  BY <1>5 DEF Join, JoinConnecting, JoinWake, JoinClear, JoinSet
<1>6. CASE Waits
  <2>1. CASE ReadAcquire
    BY <2>1 DEF ReadAcquire
  <2>2. CASE IntWait
    BY <2>2 DEF IntWait
  <2>3. CASE Window
    BY <2>3 DEF Window
  <2> QED  BY <1>6, <2>1, <2>2, <2>3 DEF Waits
<1>7. CASE UNCHANGED vars
  BY <1>7 DEF vars
<1> QED  BY <1>1, <1>2, <1>3, <1>4, <1>5, <1>6, <1>7

\* wlcmd sends its command while no other is under way.
LEMMA SendsAlone ==
    ASSUME Base, CommandInv, NEW p \in Procs, CmdSend(p)
    PROVE  /\ p \in {User, Timer} /\ \A q \in {User, Timer} \ {p} : pc[q] \notin CmdSection
           /\ ~Waiting /\ rsp = None /\ fwCmds = <<>> /\ ~Pending("rsp")
           /\ Len(fwCmds') = 1 /\ fwCmds'[1].id = reqid'
           /\ fwCmds'[1].join <=> kind[p] = "join"
<1> USE DriverConstants DEF Procs, At, Base, CmdSend
<1>1. p \in {User, Timer} /\ \A q \in {User, Timer} \ {p} : pc[q] \notin CmdSection
  BY DEF Places, TxPlaces, LockInv, CmdSection
<1>2. ~Waiting /\ rsp = None /\ fwCmds = <<>> /\ ~Pending("rsp")
  BY <1>1 DEF CommandInv, Waiting, CmdSection
<1>3. fwCmds' = <<[id |-> reqid + 1, join |-> kind[p] = "join"]>>
  BY <1>2
<1>4. Len(fwCmds') = 1 /\ fwCmds'[1].id = reqid'
  BY <1>3
<1>5. fwCmds'[1] = [id |-> reqid + 1, join |-> kind[p] = "join"]
  BY <1>3
<1>6. fwCmds'[1].join = (kind[p] = "join")
  BY <1>5
<1>7. fwCmds'[1].join <=> kind[p] = "join"
  BY <1>6, Zenon
<1> QED  BY <1>1, <1>2, <1>4, <1>7

\* Each mutex stays with the task inside its section.
LEMMA LocksStep ==
    ASSUME Base, [Next]_vars
    PROVE  LockInv'
<1> USE DriverConstants DEF Procs, At, Goto, mutexes, txVars, flowVars, cmdVars,
   joinVars, fwVars, bounds, auxVars, Base, LockInv, TypeOK, CmdSection,
   PktSection, TxSection
<1>1. CASE SendFrame
  BY <1>1 DEF SendFrame
<1>2. ASSUME NEW p \in Procs, Transmit(p) PROVE LockInv'
  <2>1. CASE TxAcquire(p)
    BY <2>1 DEF TxAcquire
  <2>2. CASE TxCheck(p)
    BY <2>2 DEF TxCheck, TxReturn
  <2>3. CASE TxGet(p)
    BY <2>3 DEF TxGet, TxReturn
  <2>4. CASE TxPktAcquire(p)
    BY <2>4 DEF TxPktAcquire
  <2>5. CASE TxSend(p)
    BY <2>5 DEF TxSend
  <2> QED  BY <1>2, <2>1, <2>2, <2>3, <2>4, <2>5 DEF Transmit
<1>3. ASSUME NEW p \in Procs, NEW k \in {"cmd", "join"}, CmdStart(p, k) PROVE LockInv'
  BY <1>3 DEF CmdStart
<1>4. ASSUME NEW p \in Procs, Command(p) PROVE LockInv'
  <2>1. CASE CmdAcquire(p)
    BY <2>1 DEF CmdAcquire
  <2>2. CASE CmdPktAcquire(p)
    BY <2>2 DEF CmdPktAcquire
  <2>3. CASE CmdSend(p)
    BY <2>3 DEF CmdSend
  <2>4. CASE CmdWake(p)
    BY <2>4 DEF CmdWake
  <2>5. CASE CmdClear(p)
    BY <2>5 DEF CmdClear
  <2>6. CASE CmdDone(p)
    BY <2>6 DEF CmdDone
  <2> QED  BY <1>4, <2>1, <2>2, <2>3, <2>4, <2>5, <2>6 DEF Command
<1>5. CASE Join
  BY <1>5 DEF Join, JoinConnecting, JoinWake, JoinClear, JoinSet
<1>6. CASE Waits
  BY <1>6 DEF Waits, ReadAcquire, IntWait, Window
<1>7. CASE ReadPkt \/ ReadGarbled
  BY <1>7 DEF ReadPkt, ReadGarbled
<1>8. CASE Dispatch
  BY <1>8 DEF Dispatch, Response, JoinEvent, RoamEvent, Deauth, OtherPacket,
     NextRound
<1>9. ASSUME NEW pk \in Packet, FirmwareAdds(pk) PROVE LockInv'
  BY <1>9 DEF FirmwareAdds
<1>10. CASE UNCHANGED vars
  BY <1>10 DEF vars
<1> QED
  BY <1>1, <1>2, <1>3, <1>4, <1>5, <1>6, <1>7, <1>8, <1>9, <1>10, FirmwareShape,
     NextCases

\* Each task stays in its own code.
LEMMA PlacesStep ==
    ASSUME Base, [Next]_vars
    PROVE  Places'
<1> USE DriverConstants DEF Procs, At, Goto, mutexes, txVars, flowVars, cmdVars,
   joinVars, fwVars, bounds, auxVars, Base, Places, TxPlaces, CmdPlaces,
   LocalTypes, TypeOK
<1>1. CASE SendFrame
  BY <1>1 DEF SendFrame
<1>2. ASSUME NEW p \in Procs, Transmit(p) PROVE Places'
  <2>1. CASE TxAcquire(p)
    BY <2>1 DEF TxAcquire
  <2>2. CASE TxCheck(p)
    BY <2>2 DEF TxCheck, TxReturn
  <2>3. CASE TxGet(p)
    BY <2>3 DEF TxGet, TxReturn
  <2>4. CASE TxPktAcquire(p)
    BY <2>4 DEF TxPktAcquire
  <2>5. CASE TxSend(p)
    BY <2>5 DEF TxSend
  <2> QED  BY <1>2, <2>1, <2>2, <2>3, <2>4, <2>5 DEF Transmit
<1>3. ASSUME NEW p \in Procs, NEW k \in {"cmd", "join"}, CmdStart(p, k) PROVE Places'
  BY <1>3 DEF CmdStart
<1>4. ASSUME NEW p \in Procs, Command(p) PROVE Places'
  <2>1. CASE CmdAcquire(p)
    BY <2>1 DEF CmdAcquire
  <2>2. CASE CmdPktAcquire(p)
    BY <2>2 DEF CmdPktAcquire
  <2>3. CASE CmdSend(p)
    BY <2>3 DEF CmdSend
  <2>4. CASE CmdWake(p)
    BY <2>4 DEF CmdWake
  <2>5. CASE CmdClear(p)
    BY <2>5 DEF CmdClear
  <2>6. CASE CmdDone(p)
    BY <2>6 DEF CmdDone
  <2> QED  BY <1>4, <2>1, <2>2, <2>3, <2>4, <2>5, <2>6 DEF Command
<1>5. CASE Join
  BY <1>5 DEF Join, JoinConnecting, JoinWake, JoinClear, JoinSet
<1>6. CASE Waits
  BY <1>6 DEF Waits, ReadAcquire, IntWait, Window
<1>7. CASE ReadPkt \/ ReadGarbled
  BY <1>7 DEF ReadPkt, ReadGarbled
<1>8. CASE Dispatch
  BY <1>8, SMTT(30) DEF Dispatch, Response, JoinEvent, RoamEvent, Deauth, OtherPacket,
     NextRound
<1>9. ASSUME NEW pk \in Packet, FirmwareAdds(pk) PROVE Places'
  BY <1>9 DEF FirmwareAdds
<1>10. CASE UNCHANGED vars
  BY <1>10 DEF vars
<1> QED
  BY <1>1, <1>2, <1>3, <1>4, <1>5, <1>6, <1>7, <1>8, <1>9, <1>10, FirmwareShape,
     NextCases

\* Frames, commands and joins stay within their bounds.
LEMMA CountsStep ==
    ASSUME Base, [Next]_vars
    PROVE  Counts'
<1> USE DriverConstants DEF Procs, At, Goto, mutexes, txVars, flowVars, cmdVars,
   joinVars, fwVars, bounds, auxVars, Base, Counts
<1>1. CASE SendFrame
  BY <1>1 DEF SendFrame
<1>2. ASSUME NEW p \in Procs, Transmit(p) PROVE Counts'
  <2>1. CASE TxAcquire(p)
    BY <2>1 DEF TxAcquire
  <2>2. CASE TxCheck(p)
    BY <2>2 DEF TxCheck, TxReturn
  <2>3. CASE TxGet(p)
    BY <2>3 DEF TxGet, TxReturn
  <2>4. CASE TxPktAcquire(p)
    BY <2>4 DEF TxPktAcquire
  <2>5. CASE TxSend(p)
    BY <2>5 DEF TxSend
  <2> QED  BY <1>2, <2>1, <2>2, <2>3, <2>4, <2>5 DEF Transmit
<1>3. ASSUME NEW p \in Procs, NEW k \in {"cmd", "join"}, CmdStart(p, k) PROVE Counts'
  BY <1>3 DEF CmdStart
<1>4. ASSUME NEW p \in Procs, Command(p) PROVE Counts'
  BY <1>4 DEF Command, CmdAcquire, CmdPktAcquire, CmdSend, CmdWake, CmdClear,
     CmdDone
<1>5. CASE Join
  BY <1>5 DEF Join, JoinConnecting, JoinWake, JoinClear, JoinSet
<1>6. CASE Waits
  BY <1>6 DEF Waits, ReadAcquire, IntWait, Window
<1>7. CASE ReadPkt \/ ReadGarbled
  BY <1>7 DEF ReadPkt, ReadGarbled
<1>8. CASE Dispatch
  BY <1>8 DEF Dispatch, Response, JoinEvent, RoamEvent, Deauth, OtherPacket,
     NextRound
<1>9. ASSUME NEW pk \in Packet, FirmwareAdds(pk) PROVE Counts'
  BY <1>9 DEF FirmwareAdds
<1>10. CASE UNCHANGED vars
  BY <1>10 DEF vars
<1> QED
  BY <1>1, <1>2, <1>3, <1>4, <1>5, <1>6, <1>7, <1>8, <1>9, <1>10, FirmwareShape,
     NextCases

\* A command id is used by one command.
LEMMA IdsStep ==
    ASSUME Base, [Next]_vars
    PROVE  Ids'
<1> USE DriverConstants DEF Procs, At, Goto, mutexes, txVars, flowVars, cmdVars,
   joinVars, fwVars, bounds, auxVars, Base, Ids
<1>1. CASE SendFrame
  BY <1>1 DEF SendFrame, Unsent, TypeOK, Places, TxPlaces, CmdPlaces
<1>2. ASSUME NEW p \in Procs, Transmit(p) PROVE Ids'
  <2>1. UNCHANGED <<reqid, cmds, joins>>
    BY <1>2 DEF Transmit, TxAcquire, TxCheck, TxGet, TxPktAcquire, TxSend
  <2>2. Unsent(User)' = Unsent(User) /\ Unsent(Timer)' = Unsent(Timer)
    <3>1. CASE TxAcquire(p) \/ TxPktAcquire(p) \/ TxSend(p)
      BY <3>1 DEF TxAcquire, TxPktAcquire, TxSend, Unsent, TypeOK
    <3>2. CASE TxCheck(p)
      BY <3>2 DEF TxCheck, TxReturn, Unsent, TypeOK
    <3>3. CASE TxGet(p)
      BY <3>3 DEF TxGet, TxReturn, Unsent, TypeOK
    <3> QED  BY <1>2, <3>1, <3>2, <3>3 DEF Transmit
  <2> QED  BY <2>1, <2>2
<1>3. ASSUME NEW p \in Procs, NEW k \in {"cmd", "join"}, CmdStart(p, k) PROVE Ids'
  <2>1. reqid' = reqid /\ cmds' + joins' = cmds + joins + 1
    BY <1>3 DEF CmdStart, Counts
  <2>2. \/ Unsent(User)' = 1 /\ Unsent(User) = 0 /\ Unsent(Timer)' = Unsent(Timer)
        \/ Unsent(Timer)' = 1 /\ Unsent(Timer) = 0 /\ Unsent(User)' = Unsent(User)
    BY <1>3 DEF CmdStart, Unsent, TypeOK
  <2>3. Unsent(User) \in {0, 1} /\ Unsent(Timer) \in {0, 1}
    BY DEF Unsent
  <2> QED  BY <2>1, <2>2, <2>3 DEF Counts
<1>4. ASSUME NEW p \in Procs, Command(p) PROVE Ids'
  <2>1. CASE CmdAcquire(p)
    BY <2>1 DEF CmdAcquire, Unsent, TypeOK, Places, TxPlaces, CmdPlaces
  <2>2. CASE CmdPktAcquire(p)
    BY <2>2 DEF CmdPktAcquire, Unsent, TypeOK, Places, TxPlaces, CmdPlaces
  <2>3. CASE CmdSend(p)
    <3>1. reqid' = reqid + 1 /\ UNCHANGED <<cmds, joins>>
      BY <2>3 DEF CmdSend
    <3>2. \/ Unsent(User)' = 0 /\ Unsent(User) = 1 /\ Unsent(Timer)' = Unsent(Timer)
          \/ Unsent(Timer)' = 0 /\ Unsent(Timer) = 1 /\ Unsent(User)' = Unsent(User)
      BY <2>3 DEF CmdSend, Unsent, TypeOK, Places, TxPlaces
    <3>3. Unsent(User) \in {0, 1} /\ Unsent(Timer) \in {0, 1}
      BY DEF Unsent
    <3> QED  BY <3>1, <3>2, <3>3 DEF Counts
  <2>4. CASE CmdWake(p)
    BY <2>4 DEF CmdWake, Unsent, TypeOK, Places, TxPlaces, CmdPlaces
  <2>5. CASE CmdClear(p)
    BY <2>5 DEF CmdClear, Unsent, TypeOK, Places, TxPlaces, CmdPlaces
  <2>6. CASE CmdDone(p)
    BY <2>6 DEF CmdDone, Unsent, TypeOK, Places, TxPlaces, CmdPlaces
  <2> QED  BY <1>4, <2>1, <2>2, <2>3, <2>4, <2>5, <2>6 DEF Command
<1>5. CASE Join
  BY <1>5 DEF Join, JoinConnecting, JoinWake, JoinClear, JoinSet, Unsent,
     TypeOK, Places, TxPlaces, CmdPlaces
<1>6. CASE Waits
  <2>1. CASE ReadAcquire
    BY <2>1 DEF ReadAcquire, Unsent, TypeOK, Places, TxPlaces, CmdPlaces
  <2>2. CASE IntWait
    BY <2>2 DEF IntWait, Unsent, TypeOK, Places, TxPlaces, CmdPlaces
  <2>3. CASE Window
    BY <2>3 DEF Window, Unsent, TypeOK, Places, TxPlaces, CmdPlaces
  <2> QED  BY <1>6, <2>1, <2>2, <2>3 DEF Waits
<1>7. CASE ReadPkt \/ ReadGarbled
  BY <1>7 DEF ReadPkt, ReadGarbled, Unsent, TypeOK, Places, TxPlaces, CmdPlaces
<1>8. CASE Dispatch
  BY <1>8 DEF Dispatch, Response, JoinEvent, RoamEvent, Deauth, OtherPacket,
     NextRound, Unsent, TypeOK, Places, TxPlaces, CmdPlaces
<1>9. ASSUME NEW pk \in Packet, FirmwareAdds(pk) PROVE Ids'
  BY <1>9 DEF FirmwareAdds, Unsent, TypeOK, Places, TxPlaces, CmdPlaces
<1>10. CASE UNCHANGED vars
  BY <1>10 DEF vars, Unsent, TypeOK, Places, TxPlaces, CmdPlaces
<1> QED
  BY <1>1, <1>2, <1>3, <1>4, <1>5, <1>6, <1>7, <1>8, <1>9, <1>10, FirmwareShape,
     NextCases

\* The variables of TypeOK stay in their types.
LEMMA TypesStep ==
    ASSUME Base, [Next]_vars
    PROVE  TypeOK'
<1> USE DriverConstants DEF Procs, At, Goto, mutexes, txVars, flowVars, cmdVars,
   joinVars, fwVars, bounds, auxVars, Base, TypeOK, Locations, Counts,
   FirmwareTypes, HasPacket, Packet
<1>1. CASE SendFrame
  BY <1>1 DEF SendFrame
<1>2. ASSUME NEW p \in Procs, Transmit(p) PROVE TypeOK'
  <2>1. CASE TxAcquire(p)
    BY <2>1 DEF TxAcquire
  <2>2. CASE TxCheck(p)
    BY <2>2 DEF TxCheck, TxReturn
  <2>3. CASE TxGet(p)
    BY <2>3 DEF TxGet, TxReturn
  <2>4. CASE TxPktAcquire(p)
    BY <2>4 DEF TxPktAcquire
  <2>5. CASE TxSend(p)
    BY <2>5 DEF TxSend
  <2> QED  BY <1>2, <2>1, <2>2, <2>3, <2>4, <2>5 DEF Transmit
<1>3. ASSUME NEW p \in Procs, NEW k \in {"cmd", "join"}, CmdStart(p, k) PROVE TypeOK'
  BY <1>3 DEF CmdStart
<1>4. ASSUME NEW p \in Procs, Command(p) PROVE TypeOK'
  <2>1. CASE CmdAcquire(p)
    BY <2>1 DEF CmdAcquire
  <2>2. CASE CmdPktAcquire(p)
    BY <2>2 DEF CmdPktAcquire
  <2>3. CASE CmdSend(p)
    <3>1. reqid' \in 0..(MaxCmds + MaxJoins)
      <4>1. Ids' /\ Counts'
        BY IdsStep, CountsStep
      <4>2. Unsent(User)' \in {0, 1} /\ Unsent(Timer)' \in {0, 1}
        BY DEF Unsent
      <4>3. /\ reqid' \in Nat /\ reqid' + Unsent(User)' + Unsent(Timer)' <= cmds' + joins'
            /\ cmds' \in Nat /\ joins' \in Nat /\ cmds' <= MaxCmds /\ joins' <= MaxJoins
        BY <4>1 DEF Ids, Counts
      <4> HIDE DEF TypeOK, Base
      <4> QED  BY <4>2, <4>3
    <3> QED  BY <2>3, <3>1 DEF CmdSend
  <2>4. CASE CmdWake(p)
    BY <2>4 DEF CmdWake
  <2>5. CASE CmdClear(p)
    BY <2>5 DEF CmdClear
  <2>6. CASE CmdDone(p)
    BY <2>6 DEF CmdDone
  <2> QED  BY <1>4, <2>1, <2>2, <2>3, <2>4, <2>5, <2>6 DEF Command
<1>5. CASE Join
  <2>1. CASE JoinConnecting
    BY <2>1 DEF JoinConnecting
  <2>2. CASE JoinWake
    BY <2>2 DEF JoinWake
  <2>3. CASE JoinClear
    BY <2>3 DEF JoinClear
  <2>4. CASE JoinSet
    BY <2>4 DEF JoinSet
  <2> QED  BY <1>5, <2>1, <2>2, <2>3, <2>4 DEF Join
<1>6. CASE Waits
  <2>1. CASE ReadAcquire
    BY <2>1 DEF ReadAcquire
  <2>2. CASE IntWait
    BY <2>2 DEF IntWait
  <2>3. CASE Window
    BY <2>3 DEF Window
  <2> QED  BY <1>6, <2>1, <2>2, <2>3 DEF Waits
<1>7. CASE ReadPkt \/ ReadGarbled
  <2>1. CASE ReadPkt
    BY <2>1 DEF ReadPkt
  <2>2. CASE ReadGarbled
    BY <2>2 DEF ReadGarbled
  <2> QED  BY <1>7, <2>1, <2>2
<1>8. CASE Dispatch
  <2>1. CASE Response
    BY <2>1 DEF Response, NextRound
  <2>2. CASE JoinEvent
    BY <2>2 DEF JoinEvent, NextRound
  <2>3. CASE RoamEvent
    BY <2>3 DEF RoamEvent, NextRound
  <2>4. CASE Deauth
    BY <2>4 DEF Deauth, NextRound
  <2>5. CASE OtherPacket
    BY <2>5 DEF OtherPacket, NextRound
  <2> QED  BY <1>8, <2>1, <2>2, <2>3, <2>4, <2>5 DEF Dispatch
<1>9. ASSUME NEW pk \in Packet, FirmwareAdds(pk) PROVE TypeOK'
  BY <1>9 DEF FirmwareAdds, AppendFacts
<1>10. CASE UNCHANGED vars
  BY <1>10 DEF vars
<1> QED
  BY <1>1, <1>2, <1>3, <1>4, <1>5, <1>6, <1>7, <1>8, <1>9, <1>10, FirmwareShape,
     NextCases

\* So do the tasks' locals and the auxiliary variables.
LEMMA LocalTypesStep ==
    ASSUME Base, [Next]_vars
    PROVE  LocalTypes'
<1> USE DriverConstants DEF Procs, At, Goto, mutexes, txVars, flowVars, cmdVars,
   joinVars, fwVars, bounds, auxVars, Base, LocalTypes, TypeOK, FirmwareTypes,
   HasPacket
<1>1. CASE SendFrame
  BY <1>1 DEF SendFrame
<1>2. ASSUME NEW p \in Procs, Transmit(p) PROVE LocalTypes'
  <2>1. CASE TxAcquire(p)
    BY <2>1 DEF TxAcquire
  <2>2. CASE TxCheck(p)
    BY <2>2 DEF TxCheck, TxReturn
  <2>3. CASE TxGet(p)
    BY <2>3 DEF TxGet, TxReturn
  <2>4. CASE TxPktAcquire(p)
    BY <2>4 DEF TxPktAcquire
  <2>5. CASE TxSend(p)
    BY <2>5 DEF TxSend
  <2> QED  BY <1>2, <2>1, <2>2, <2>3, <2>4, <2>5 DEF Transmit
<1>3. ASSUME NEW p \in Procs, NEW k \in {"cmd", "join"}, CmdStart(p, k) PROVE LocalTypes'
  BY <1>3 DEF CmdStart
<1>4. ASSUME NEW p \in Procs, Command(p) PROVE LocalTypes'
  <2>1. CASE CmdAcquire(p)
    BY <2>1 DEF CmdAcquire
  <2>2. CASE CmdPktAcquire(p)
    BY <2>2 DEF CmdPktAcquire
  <2>3. CASE CmdSend(p)
    <3>1. slip' \in [Procs -> Nat]
      <4>1. slip' = [q \in Procs |-> IF pc[q] = "tpkt" THEN slip[q] + 1 ELSE slip[q]]
        BY <2>3 DEF CmdSend
      <4>2. \A q \in Procs : (IF pc[q] = "tpkt" THEN slip[q] + 1 ELSE slip[q]) \in Nat
        OBVIOUS
      <4> QED  BY <4>1, <4>2
    <3>3. myid' \in [Procs -> Nat]
      BY <2>3, SMTT(30) DEF CmdSend, Ids
    <3>2. overdrew' \in BOOLEAN /\ slipped' \in BOOLEAN
      BY <2>3, Zenon DEF CmdSend
    <3> QED  BY <2>3, <3>1, <3>2, <3>3 DEF CmdSend
  <2>4. CASE CmdWake(p)
    BY <2>4 DEF CmdWake
  <2>5. CASE CmdClear(p)
    BY <2>5 DEF CmdClear
  <2>6. CASE CmdDone(p)
    BY <2>6 DEF CmdDone
  <2> QED  BY <1>4, <2>1, <2>2, <2>3, <2>4, <2>5, <2>6 DEF Command
<1>5. CASE Join
  BY <1>5 DEF Join, JoinConnecting, JoinWake, JoinClear, JoinSet
<1>6. CASE Waits
  BY <1>6 DEF Waits, ReadAcquire, IntWait, Window
<1>7. CASE ReadPkt \/ ReadGarbled
  BY <1>7 DEF ReadPkt, ReadGarbled
<1>8. CASE Dispatch
  <2>1. CASE Response
    BY <2>1 DEF Response, NextRound
  <2>2. CASE JoinEvent
    <3>1. pkt.id \in Nat
      BY <2>2 DEF JoinEvent, Packet
    <3>2. linkUp' \in BOOLEAN /\ missed' \in BOOLEAN /\ flowstart' \in BOOLEAN
      BY <2>2, Zenon DEF JoinEvent, NextRound
    <3> QED  BY <2>2, <3>1, <3>2 DEF JoinEvent
  <2>3. CASE RoamEvent
    BY <2>3 DEF RoamEvent, NextRound
  <2>4. CASE Deauth
    BY <2>4 DEF Deauth, NextRound
  <2>5. CASE OtherPacket
    BY <2>5 DEF OtherPacket, NextRound
  <2> QED  BY <1>8, <2>1, <2>2, <2>3, <2>4, <2>5 DEF Dispatch
<1>9. ASSUME NEW pk \in Packet, FirmwareAdds(pk) PROVE LocalTypes'
  <2>1. roams' \in Nat
    BY <1>9, SMTT(30) DEF FirmwareAdds
  <2> QED  BY <1>9, <2>1 DEF FirmwareAdds
<1>10. CASE UNCHANGED vars
  BY <1>10 DEF vars
<1> QED
  BY <1>1, <1>2, <1>3, <1>4, <1>5, <1>6, <1>7, <1>8, <1>9, <1>10, FirmwareShape,
     NextCases

\* So do the firmware's queues and the packet rproc has.
LEMMA FirmwareTypesStep ==
    ASSUME Base, [Next]_vars
    PROVE  FirmwareTypes'
<1> USE DriverConstants DEF Procs, At, Goto, mutexes, txVars, flowVars, cmdVars,
   joinVars, fwVars, bounds, auxVars, Base, FirmwareTypes, TypeOK, HasPacket
<1>1. CASE SendFrame
  BY <1>1 DEF SendFrame
<1>2. ASSUME NEW p \in Procs, Transmit(p) PROVE FirmwareTypes'
  BY <1>2 DEF Transmit, TxAcquire, TxCheck, TxGet, TxPktAcquire, TxSend,
     TxReturn
<1>3. ASSUME NEW p \in Procs, NEW k \in {"cmd", "join"}, CmdStart(p, k) PROVE FirmwareTypes'
  BY <1>3 DEF CmdStart
<1>4. ASSUME NEW p \in Procs, Command(p) PROVE FirmwareTypes'
  <2>1. CASE CmdAcquire(p)
    BY <2>1 DEF CmdAcquire
  <2>2. CASE CmdPktAcquire(p)
    BY <2>2 DEF CmdPktAcquire
  <2>3. CASE CmdSend(p)
    BY <2>3, AppendFacts DEF CmdSend, LocalTypes, Request, Ids
  <2>4. CASE CmdWake(p)
    BY <2>4 DEF CmdWake
  <2>5. CASE CmdClear(p)
    BY <2>5 DEF CmdClear
  <2>6. CASE CmdDone(p)
    BY <2>6 DEF CmdDone
  <2> QED  BY <1>4, <2>1, <2>2, <2>3, <2>4, <2>5, <2>6 DEF Command
<1>5. CASE Join
  BY <1>5 DEF Join, JoinConnecting, JoinWake, JoinClear, JoinSet
<1>6. CASE Waits
  BY <1>6 DEF Waits, ReadAcquire, IntWait, Window
<1>7. CASE ReadPkt \/ ReadGarbled
  <2>1. CASE ReadPkt
    <3>1. CASE fwq = <<>>
      BY <2>1, <3>1 DEF ReadPkt
    <3>2. CASE fwq # <<>>
      <4>1. Tail(fwq) \in Seq(Packet) /\ Head(fwq) \in Packet
        BY <3>2, TailFacts
      <4> QED  BY <2>1, <3>2, <4>1 DEF ReadPkt
    <3> QED  BY <3>1, <3>2
  <2>2. CASE ReadGarbled
    BY <2>2, TailFacts DEF ReadGarbled
  <2> QED  BY <1>7, <2>1, <2>2
<1>8. CASE Dispatch
  BY <1>8 DEF Dispatch, Response, JoinEvent, RoamEvent, Deauth, OtherPacket,
     NextRound
<1>9. ASSUME NEW pk \in Packet, FirmwareAdds(pk) PROVE FirmwareTypes'
  <2>1. fwq' \in Seq(Packet)
    BY <1>9, AppendFacts DEF FirmwareAdds
  <2>2. fwCmds' \in Seq(Request)
    <3>1. fwCmds # <<>> => Tail(fwCmds) \in Seq(Request)
      BY TailFacts
    <3> QED  BY <1>9, <3>1 DEF FirmwareAdds
  <2>3. fwJoins' \in Seq(Nat)
    <3>1. fwJoins # <<>> => Tail(fwJoins) \in Seq(Nat)
      BY TailFacts
    <3>2. Append(fwJoins, joins) \in Seq(Nat)
      BY AppendFacts DEF Counts
    <3> QED  BY <1>9, <3>1, <3>2 DEF FirmwareAdds
  <2>4. fwWindow' \in Nat /\ fwStop' \in BOOLEAN
    BY <1>9 DEF FirmwareAdds, Packet
  <2> QED  BY <1>9, <2>1, <2>2, <2>3, <2>4 DEF FirmwareAdds
<1>10. CASE UNCHANGED vars
  BY <1>10 DEF vars
<1> QED
  BY <1>1, <1>2, <1>3, <1>4, <1>5, <1>6, <1>7, <1>8, <1>9, <1>10, FirmwareShape,
     NextCases

\* One command is under way at most, and its task waits for it.
LEMMA CommandStep ==
    ASSUME Base, CommandInv, [Next]_vars
    PROVE  CommandInv'
<1> USE DriverConstants DEF Procs, At, Goto, mutexes, txVars, flowVars, cmdVars,
   joinVars, fwVars, bounds, auxVars, Base, CommandInv, Waiting, TypeOK,
   LockInv, CmdSection, Places, TxPlaces, CmdPlaces, LocalTypes, Kinds
<1>1. CASE SendFrame
  <2>1. UNCHANGED <<fwq, pkt>> /\ HasPacket' = HasPacket
    BY <1>1, PacketsKept
  <2> QED  BY <1>1, <2>1, PacketsUntouched DEF SendFrame, Kinds
<1>2. ASSUME NEW p \in Procs, Transmit(p) PROVE CommandInv'
  <2>0. UNCHANGED <<fwq, pkt>> /\ HasPacket' = HasPacket
    BY <1>2, PacketsKept
  <2>1. CASE TxAcquire(p)
    BY <2>0, <2>1, PacketsUntouched DEF TxAcquire
  <2>2. CASE TxCheck(p)
    BY <2>0, <2>2, PacketsUntouched DEF TxCheck, TxReturn
  <2>3. CASE TxGet(p)
    BY <2>0, <2>3, PacketsUntouched, SMTT(30) DEF TxGet, TxReturn
  <2>4. CASE TxPktAcquire(p)
    BY <2>0, <2>4, PacketsUntouched DEF TxPktAcquire
  <2>5. CASE TxSend(p)
    BY <2>0, <2>5, PacketsUntouched DEF TxSend
  <2> QED  BY <1>2, <2>1, <2>2, <2>3, <2>4, <2>5 DEF Transmit
<1>3. ASSUME NEW p \in Procs, NEW k \in {"cmd", "join"}, CmdStart(p, k) PROVE CommandInv'
  <2>1. UNCHANGED <<fwq, pkt>> /\ HasPacket' = HasPacket
    BY <1>3, PacketsKept
  <2> QED  BY <1>3, <2>1, PacketsUntouched DEF CmdStart, Kinds
<1>4. ASSUME NEW p \in Procs, Command(p) PROVE CommandInv'
  <2>0. UNCHANGED <<fwq, pkt>> /\ HasPacket' = HasPacket
    BY <1>4, PacketsKept
  <2>1. CASE CmdAcquire(p)
    BY <2>0, <2>1, PacketsUntouched DEF CmdAcquire
  <2>2. CASE CmdPktAcquire(p)
    BY <2>0, <2>2, PacketsUntouched DEF CmdPktAcquire
  <2>3. CASE CmdSend(p)
    <3>1. /\ p \in {User, Timer} /\ \A q \in {User, Timer} \ {p} : pc[q] \notin CmdSection
          /\ ~Waiting /\ rsp = None /\ ~Pending("rsp")
          /\ Len(fwCmds') = 1 /\ fwCmds'[1].id = reqid'
      BY <2>3, SendsAlone
    <3> QED  BY <2>0, <2>3, <3>1, PacketsUntouched DEF CmdSend
  <2>4. CASE CmdWake(p)
    BY <2>0, <2>4, PacketsUntouched DEF CmdWake
  <2>5. CASE CmdClear(p)
    BY <2>0, <2>5, PacketsUntouched DEF CmdClear
  <2>6. CASE CmdDone(p)
    BY <2>0, <2>6, PacketsUntouched DEF CmdDone
  <2> QED  BY <1>4, <2>1, <2>2, <2>3, <2>4, <2>5, <2>6 DEF Command
<1>5. CASE Join
  <2>1. UNCHANGED <<fwq, pkt>> /\ HasPacket' = HasPacket
    BY <1>5, PacketsKept
  <2>2. CASE JoinConnecting
    BY <2>1, <2>2, PacketsUntouched, SMTT(30) DEF JoinConnecting
  <2>3. CASE JoinWake
    BY <2>1, <2>3, PacketsUntouched, SMTT(30) DEF JoinWake
  <2>4. CASE JoinClear
    BY <2>1, <2>4, PacketsUntouched, SMTT(30) DEF JoinClear
  <2>5. CASE JoinSet
    BY <2>1, <2>5, PacketsUntouched, SMTT(30) DEF JoinSet
  <2> QED  BY <1>5, <2>2, <2>3, <2>4, <2>5 DEF Join
<1>6. CASE Waits
  <2>0. UNCHANGED <<fwq, pkt>> /\ HasPacket' = HasPacket
    BY <1>6, PacketsKept
  <2>1. CASE ReadAcquire
    BY <2>0, <2>1, PacketsUntouched DEF ReadAcquire
  <2>2. CASE IntWait
    BY <2>0, <2>2, PacketsUntouched DEF IntWait
  <2>3. CASE Window
    BY <2>0, <2>3, PacketsUntouched DEF Window
  <2> QED  BY <1>6, <2>1, <2>2, <2>3 DEF Waits
<1>7. CASE ReadPkt \/ ReadGarbled
  <2>1. /\ \A c \in Kinds : Pending(c)' => Pending(c)
        /\ OnlyOne("rsp", reqid)'
    BY <1>7, PacketRead
  <2>2. UNCHANGED <<cmdlock, cmdVars, fwCmds, pc[User], pc[Timer]>>
    BY <1>7 DEF ReadPkt, ReadGarbled
  <2> QED  BY <2>1, <2>2
<1>8. CASE Dispatch
  <2>1. /\ At(Reader, "dispatch") /\ NextRound
        /\ UNCHANGED <<fwq, reqid, joins, fwCmds, myid, got, pc[User], pc[Timer]>>
    BY <1>8 DEF Dispatch, Response, JoinEvent, RoamEvent, Deauth, OtherPacket, NextRound
  <2>2. /\ \A c \in Kinds : Pending(c)' => Pending(c)
        /\ OnlyOne("rsp", reqid)'
        /\ InHand("rsp") => ~Pending("rsp")'
    BY <2>1, PacketDone
  <2>3. CASE Response
    <3>1. InHand("rsp") /\ pkt.id = reqid /\ rsp' = reqid
      BY <2>3 DEF Response, InHand, HasPacket, OnlyOne
    <3> QED  BY <2>1, <2>2, <3>1 DEF Pending
  <2>4. CASE ~Response
    BY <1>8, <2>1, <2>2, <2>4, SMTT(30) DEF Dispatch, JoinEvent, RoamEvent, Deauth, OtherPacket
  <2> QED  BY <2>3, <2>4
<1>9. ASSUME NEW pk \in Packet, FirmwareAdds(pk) PROVE CommandInv'
  <2>0. UNCHANGED <<pc, cmdlock, cmdVars>>
    BY <1>9 DEF FirmwareAdds
  <2>1. CASE pk.ch = "rsp"
    <3>1. /\ fwCmds # <<>> /\ pk.id = fwCmds[1].id /\ fwCmds' = Tail(fwCmds)
      BY <1>9, <2>1 DEF FirmwareAdds
    <3>2. pk.id = reqid /\ ~Pending("rsp") /\ Waiting /\ rsp = None
      BY <3>1
    <3>3. fwCmds' = <<>>
      BY <3>1, TailFacts DEF FirmwareTypes
    <3> QED  BY <1>9, <2>0, <2>1, <3>2, <3>3, PacketAdded, SMTT(30)
  <2>2. CASE pk.ch # "rsp"
    <3>1. fwCmds' = fwCmds
      BY <1>9, <2>2 DEF FirmwareAdds
    <3>2. (Pending("rsp")' <=> Pending("rsp")) /\ OnlyOne("rsp", reqid)'
      BY <1>9, <2>2, PacketAdded
    <3> QED  BY <2>0, <3>1, <3>2, SMTT(30)
  <2> QED  BY <2>1, <2>2
<1>10. CASE UNCHANGED vars
  <2>1. UNCHANGED <<fwq, pkt>> /\ HasPacket' = HasPacket
    BY <1>10, PacketsKept
  <2> QED  BY <1>10, <2>1, PacketsUntouched DEF vars, Kinds
<1> QED
  BY <1>1, <1>2, <1>3, <1>4, <1>5, <1>6, <1>7, <1>8, <1>9, <1>10, FirmwareShape,
     NextCases

\* One join is under way at most, and the user's task waits for its result.
LEMMA JoinStep ==
    ASSUME Base, CommandInv, JoinInv, [Next]_vars
    PROVE  JoinInv'
<1> USE DriverConstants DEF Procs, At, Goto, mutexes, txVars, flowVars, cmdVars,
   joinVars, fwVars, bounds, auxVars, Base, JoinInv, JoinWaiting, TypeOK,
   Places, TxPlaces, CmdPlaces, LocalTypes, Kinds
<1>1. CASE SendFrame
  <2>1. UNCHANGED <<fwq, pkt>> /\ HasPacket' = HasPacket
    BY <1>1, PacketsKept
  <2> QED  BY <1>1, <2>1, PacketsUntouched DEF SendFrame
<1>2. ASSUME NEW p \in Procs, Transmit(p) PROVE JoinInv'
  <2>0. UNCHANGED <<fwq, pkt>> /\ HasPacket' = HasPacket
    BY <1>2, PacketsKept
  <2>1. CASE TxAcquire(p)
    BY <2>0, <2>1, PacketsUntouched DEF TxAcquire
  <2>2. CASE TxCheck(p)
    BY <2>0, <2>2, PacketsUntouched DEF TxCheck, TxReturn
  <2>3. CASE TxGet(p)
    BY <2>0, <2>3, PacketsUntouched DEF TxGet, TxReturn
  <2>4. CASE TxPktAcquire(p)
    BY <2>0, <2>4, PacketsUntouched DEF TxPktAcquire
  <2>5. CASE TxSend(p)
    BY <2>0, <2>5, PacketsUntouched DEF TxSend
  <2> QED  BY <1>2, <2>1, <2>2, <2>3, <2>4, <2>5 DEF Transmit
<1>3. ASSUME NEW p \in Procs, NEW k \in {"cmd", "join"}, CmdStart(p, k) PROVE JoinInv'
  <2>1. UNCHANGED <<fwq, pkt>> /\ HasPacket' = HasPacket
    BY <1>3, PacketsKept
  <2>2. CASE p = User
    <3>1. pc[User] = "idle" /\ (roams = 0 => ~Pending("ssid"))
      BY <1>3, <2>2 DEF CmdStart
    <3> QED  BY <1>3, <2>1, <2>2, <3>1, PacketsUntouched DEF CmdStart
  <2>3. CASE p = Timer
    <3>1. UNCHANGED <<joins, kind[User], pc[User]>>
      BY <1>3, <2>3 DEF CmdStart
    <3> QED  BY <1>3, <2>1, <3>1, PacketsUntouched DEF CmdStart
  <2> QED  BY <1>3, <2>2, <2>3 DEF CmdStart
<1>4. ASSUME NEW p \in Procs, Command(p) PROVE JoinInv'
  <2>0. UNCHANGED <<fwq, pkt>> /\ HasPacket' = HasPacket
    BY <1>4, PacketsKept
  <2>1. CASE CmdAcquire(p)
    BY <2>0, <2>1, PacketsUntouched DEF CmdAcquire
  <2>2. CASE CmdPktAcquire(p)
    BY <2>0, <2>2, PacketsUntouched DEF CmdPktAcquire
  <2>3. CASE CmdSend(p)
    <3>1. /\ p \in {User, Timer} /\ fwCmds = <<>>
          /\ fwCmds'[1].join <=> kind[p] = "join"
      BY <2>3, SendsAlone
    <3> QED  BY <2>0, <2>3, <3>1, PacketsUntouched DEF CmdSend
  <2>4. CASE CmdWake(p)
    <3>1. fwCmds = <<>>
      BY <2>4 DEF CmdWake, CommandInv
    <3> QED  BY <2>0, <2>4, <3>1, PacketsUntouched DEF CmdWake
  <2>5. CASE CmdClear(p)
    BY <2>0, <2>5, PacketsUntouched DEF CmdClear
  <2>6. CASE CmdDone(p)
    BY <2>0, <2>6, PacketsUntouched DEF CmdDone
  <2> QED  BY <1>4, <2>1, <2>2, <2>3, <2>4, <2>5, <2>6 DEF Command
<1>5. CASE Join
  <2>0. UNCHANGED <<fwq, pkt>> /\ HasPacket' = HasPacket
    BY <1>5, PacketsKept
  <2>1. CASE JoinConnecting
    BY <2>0, <2>1, PacketsUntouched DEF JoinConnecting
  <2>2. CASE JoinWake
    BY <2>0, <2>2, PacketsUntouched DEF JoinWake
  <2>3. CASE JoinClear
    BY <2>0, <2>3, PacketsUntouched DEF JoinClear
  <2>4. CASE JoinSet
    BY <2>0, <2>4, PacketsUntouched DEF JoinSet
  <2> QED  BY <1>5, <2>1, <2>2, <2>3, <2>4 DEF Join
<1>6. CASE Waits
  <2>0. UNCHANGED <<fwq, pkt>> /\ HasPacket' = HasPacket
    BY <1>6, PacketsKept
  <2>1. CASE ReadAcquire
    BY <2>0, <2>1, PacketsUntouched DEF ReadAcquire
  <2>2. CASE IntWait
    BY <2>0, <2>2, PacketsUntouched DEF IntWait
  <2>3. CASE Window
    BY <2>0, <2>3, PacketsUntouched DEF Window
  <2> QED  BY <1>6, <2>1, <2>2, <2>3 DEF Waits
<1>7. CASE ReadPkt \/ ReadGarbled
  <2>1. /\ \A c \in Kinds : Pending(c)' => Pending(c)
        /\ OnlyOne("ssid", joins) => OnlyOne("ssid", joins)'
    BY <1>7, PacketRead
  <2>2. UNCHANGED <<kind, joinVars, joins, roams, fwCmds, fwJoins, pc[User]>>
    BY <1>7 DEF ReadPkt, ReadGarbled
  <2> QED  BY <2>1, <2>2
<1>8. CASE Dispatch
  <2>1. /\ At(Reader, "dispatch") /\ NextRound
        /\ UNCHANGED <<fwq, reqid, joins, roams, fwCmds, fwJoins, kind, pc[User]>>
    BY <1>8 DEF Dispatch, Response, JoinEvent, RoamEvent, Deauth, OtherPacket, NextRound
  <2>2. /\ \A c \in Kinds : Pending(c)' => Pending(c)
        /\ OnlyOne("ssid", joins) => OnlyOne("ssid", joins)' /\ (InHand("ssid") => ~Pending("ssid")')
    BY <2>1, PacketDone
  <2>3. CASE JoinEvent
    <3>1. /\ InHand("ssid") /\ (roams = 0 => pkt.id = joins)
          /\ joinstatus' # 0 /\ resultOf' = pkt.id
      <4>1. InHand("ssid") /\ pkt \in Packet
        BY <2>3 DEF JoinEvent, InHand, HasPacket, FirmwareTypes
      <4>2. roams = 0 => pkt.id = joins
        BY <4>1 DEF OnlyOne
      <4>3. joinstatus' # 0 /\ resultOf' = pkt.id
        BY <2>3, <4>1 DEF JoinEvent, Packet
      <4> QED  BY <4>1, <4>2, <4>3
    <3>2. Pending("ssid")
      BY <3>1 DEF Pending
    <3> QED  BY <2>1, <2>2, <3>1, <3>2
  <2>4. CASE RoamEvent
    <3>1. Pending("roam")
      BY <2>4 DEF RoamEvent, Pending, InHand, HasPacket
    <3> QED  BY <2>1, <2>2, <3>1
  <2>5. CASE Response \/ Deauth \/ OtherPacket
    <3>1. UNCHANGED <<joinstatus, resultOf>>
      BY <2>5 DEF Response, Deauth, OtherPacket
    <3> QED  BY <2>1, <2>2, <3>1
  <2> QED  BY <1>8, <2>3, <2>4, <2>5 DEF Dispatch
<1>9. ASSUME NEW pk \in Packet, FirmwareAdds(pk) PROVE JoinInv'
  <2>0. /\ UNCHANGED <<pc, kind, joinVars, joins>>
        /\ \A c \in Kinds : Pending(c)' <=> Pending(c) \/ pk.ch = c
        /\ OnlyOne("ssid", joins) /\ (pk.ch = "ssid" => pk.id = joins /\ ~Pending("ssid"))
           => OnlyOne("ssid", joins)'
    BY <1>9, PacketAdded DEF FirmwareAdds
  <2>1. CASE pk.ch = "rsp"
    <3>1. fwCmds # <<>> /\ fwCmds' = Tail(fwCmds) /\ UNCHANGED roams
      BY <1>9, <2>1 DEF FirmwareAdds
    <3>2. fwCmds' = <<>>
      BY <3>1, TailFacts DEF FirmwareTypes, CommandInv
    <3>3. CASE fwCmds[1].join
      <4>1. fwJoins' = Append(fwJoins, joins)
        BY <1>9, <2>1, <3>3 DEF FirmwareAdds
      <4>2. roams = 0 => Len(fwJoins') <= 1 /\ fwJoins'[1] = joins
        BY <3>1, <3>3, <4>1
      <4>3. pc[User] = "cwait" /\ (roams = 0 => JoinWaiting /\ ~Pending("ssid"))
        BY <3>1, <3>3
      <4>4. /\ Pending("ssid")' <=> Pending("ssid")
            /\ Pending("roam")' <=> Pending("roam")
        BY <2>0, <2>1
      <4>5. OnlyOne("ssid", joins) => OnlyOne("ssid", joins)'
        BY <2>0, <2>1
      <4>6. JoinWaiting <=> JoinWaiting'
        BY <2>0
      <4>7. UNCHANGED <<pc, joinstatus, resultOf, joins, kind, roams>>
        BY <2>0, <3>1
      <4> HIDE DEF JoinWaiting, Base
      <4>8. (Pending("roam") => roams > 0)'
        BY <4>4, <4>7
      <4>9. roams = 0 => OnlyOne("ssid", joins)'
        BY <4>5
      <4>10. roams = 0 => JoinWaiting' /\ ~Pending("ssid")'
        BY <4>3, <4>4, <4>6, Zenon
      <4>11. roams = 0 => Len(fwJoins') <= 1 /\ fwJoins'[1] = joins'
        BY <4>2, <4>7, Zenon
      <4> QED  BY <3>2, <4>7, <4>8, <4>9, <4>10, <4>11
    <3>4. CASE ~fwCmds[1].join
      <4>1. fwJoins' = fwJoins
        BY <1>9, <2>1, <3>4 DEF FirmwareAdds
      <4> QED  BY <2>0, <2>1, <3>1, <3>2, <4>1
    <3> QED  BY <3>3, <3>4
  <2>2. CASE pk.ch = "ssid"
    <3>1. /\ fwJoins # <<>> /\ pk.id = fwJoins[1] /\ fwJoins' = Tail(fwJoins)
          /\ UNCHANGED <<fwCmds, roams>>
      BY <1>9, <2>2 DEF FirmwareAdds
    <3>2. roams = 0 => fwJoins' = <<>>
      BY <3>1, TailFacts DEF FirmwareTypes
    <3> QED  BY <2>0, <2>2, <3>1, <3>2
  <2>3. CASE pk.ch = "roam"
    <3>1. roams' > 0 /\ UNCHANGED <<fwCmds, fwJoins>>
      BY <1>9, <2>3, SMTT(30) DEF FirmwareAdds
    <3> QED  BY <2>0, <2>3, <3>1
  <2>4. CASE pk.ch \in {"deauth", "data"}
    <3>1. UNCHANGED <<fwCmds, fwJoins, roams>>
      BY <1>9, <2>4 DEF FirmwareAdds
    <3> QED  BY <2>0, <2>4, <3>1
  <2> QED  BY <1>9, <2>1, <2>2, <2>3, <2>4 DEF FirmwareAdds
<1>10. CASE UNCHANGED vars
  <2>1. UNCHANGED <<fwq, pkt>> /\ HasPacket' = HasPacket
    BY <1>10, PacketsKept
  <2> QED  BY <1>10, <2>1, PacketsUntouched DEF vars
<1> QED
  BY <1>1, <1>2, <1>3, <1>4, <1>5, <1>6, <1>7, <1>8, <1>9, <1>10, FirmwareShape,
     NextCases

\* A loss of the link during a join is not forgotten by LinkInv.
LEMMA LinkStep ==
    ASSUME Base, JoinInv, LinkInv, [Next]_vars
    PROVE  LinkInv'
<1> USE DriverConstants DEF Procs, At, Goto, mutexes, txVars, flowVars, cmdVars,
   joinVars, fwVars, bounds, auxVars, Base, LinkInv, Joining, TypeOK,
   LocalTypes, Places, TxPlaces, CmdPlaces
<1>1. CASE SendFrame
  BY <1>1 DEF SendFrame
<1>2. ASSUME NEW p \in Procs, Transmit(p) PROVE LinkInv'
  <2>1. CASE TxAcquire(p)
    BY <2>1 DEF TxAcquire
  <2>2. CASE TxCheck(p)
    BY <2>2 DEF TxCheck, TxReturn
  <2>3. CASE TxGet(p)
    BY <2>3 DEF TxGet, TxReturn
  <2>4. CASE TxPktAcquire(p)
    BY <2>4 DEF TxPktAcquire
  <2>5. CASE TxSend(p)
    BY <2>5 DEF TxSend
  <2> QED  BY <1>2, <2>1, <2>2, <2>3, <2>4, <2>5 DEF Transmit
<1>3. ASSUME NEW p \in Procs, NEW k \in {"cmd", "join"}, CmdStart(p, k) PROVE LinkInv'
  BY <1>3 DEF CmdStart
<1>4. ASSUME NEW p \in Procs, Command(p) PROVE LinkInv'
  <2>1. CASE CmdAcquire(p)
    BY <2>1 DEF CmdAcquire
  <2>2. CASE CmdPktAcquire(p)
    BY <2>2 DEF CmdPktAcquire
  <2>3. CASE CmdSend(p)
    BY <2>3 DEF CmdSend
  <2>4. CASE CmdWake(p)
    BY <2>4 DEF CmdWake
  <2>5. CASE CmdClear(p)
    BY <2>5 DEF CmdClear
  <2>6. CASE CmdDone(p)
    BY <2>6 DEF CmdDone
  <2> QED  BY <1>4, <2>1, <2>2, <2>3, <2>4, <2>5, <2>6 DEF Command
<1>5. CASE Join
  <2>1. CASE JoinConnecting
    BY <2>1 DEF JoinConnecting
  <2>2. CASE JoinWake
    BY <2>2 DEF JoinWake
  <2>3. CASE JoinClear
    BY <2>3 DEF JoinClear
  <2>4. CASE JoinSet
    BY <2>4 DEF JoinSet
  <2> QED  BY <1>5, <2>1, <2>2, <2>3, <2>4 DEF Join
<1>6. CASE Waits
  BY <1>6 DEF Waits, ReadAcquire, IntWait, Window
<1>7. CASE ReadPkt \/ ReadGarbled
  BY <1>7 DEF ReadPkt, ReadGarbled
<1>8. CASE Dispatch
  <2>1. CASE Response
    BY <2>1 DEF Response, NextRound
  <2>2. CASE JoinEvent
    <3>1. pkt \in Packet /\ Pending("ssid")
      BY <2>2 DEF JoinEvent, FirmwareTypes, HasPacket, Pending, InHand
    <3>2. roams = 0 => JoinWaiting
      BY <3>1 DEF JoinInv
    <3>3. joinstatus' = 1 => linkUp'
      <4>1. joinstatus' = 1 + pkt.st /\ pkt.st \in {0, 1}
        BY <2>2, <3>1 DEF JoinEvent, Packet
      <4>2. joinstatus' = 1 => pkt.st = 0
        BY <4>1
      <4>3. linkUp' = (pkt.st = 0)
        BY <2>2 DEF JoinEvent
      <4> QED  BY <4>2, <4>3, Zenon
    <3>4. UNCHANGED <<pc[User], kind, status, roams>>
      BY <2>2 DEF JoinEvent, NextRound
    <3> QED  BY <3>2, <3>3, <3>4 DEF JoinWaiting
  <2>3. CASE RoamEvent
    <3>1. Pending("roam") /\ UNCHANGED roams
      BY <2>3 DEF RoamEvent, HasPacket, Pending, InHand
    <3> QED  BY <3>1 DEF JoinInv
  <2>4. CASE Deauth
    BY <2>4 DEF Deauth, NextRound, JoinInv, JoinWaiting
  <2>5. CASE OtherPacket
    BY <2>5 DEF OtherPacket, NextRound
  <2> QED  BY <1>8, <2>1, <2>2, <2>3, <2>4, <2>5 DEF Dispatch
<1>9. ASSUME NEW pk \in Packet, FirmwareAdds(pk) PROVE LinkInv'
  BY <1>9 DEF FirmwareAdds
<1>10. CASE UNCHANGED vars
  BY <1>10 DEF vars
<1> QED
  BY <1>1, <1>2, <1>3, <1>4, <1>5, <1>6, <1>7, <1>8, <1>9, <1>10, FirmwareShape,
     NextCases

\* Each packet's window is at least that of the packet before.
LEMMA WindowStep ==
    ASSUME Base, WindowGrows, [Next]_vars
    PROVE  WindowGrows'
<1> USE DriverConstants DEF Procs, At, Goto, mutexes, txVars, flowVars, cmdVars,
   joinVars, fwVars, bounds, auxVars, Base, WindowGrows, TypeOK, HasPacket,
   FirmwareTypes
<1>1. CASE SendFrame
  BY <1>1 DEF SendFrame
<1>2. ASSUME NEW p \in Procs, Transmit(p) PROVE WindowGrows'
  <2>1. CASE TxAcquire(p)
    BY <2>1 DEF TxAcquire
  <2>2. CASE TxCheck(p)
    BY <2>2 DEF TxCheck, TxReturn
  <2>3. CASE TxGet(p)
    BY <2>3 DEF TxGet, TxReturn
  <2>4. CASE TxPktAcquire(p)
    BY <2>4 DEF TxPktAcquire
  <2>5. CASE TxSend(p)
    BY <2>5 DEF TxSend
  <2> QED  BY <1>2, <2>1, <2>2, <2>3, <2>4, <2>5 DEF Transmit
<1>3. ASSUME NEW p \in Procs, NEW k \in {"cmd", "join"}, CmdStart(p, k) PROVE WindowGrows'
  BY <1>3 DEF CmdStart
<1>4. ASSUME NEW p \in Procs, Command(p) PROVE WindowGrows'
  <2>1. CASE CmdAcquire(p)
    BY <2>1 DEF CmdAcquire
  <2>2. CASE CmdPktAcquire(p)
    BY <2>2 DEF CmdPktAcquire
  <2>3. CASE CmdSend(p)
    BY <2>3 DEF CmdSend
  <2>4. CASE CmdWake(p)
    BY <2>4 DEF CmdWake
  <2>5. CASE CmdClear(p)
    BY <2>5 DEF CmdClear
  <2>6. CASE CmdDone(p)
    BY <2>6 DEF CmdDone
  <2> QED  BY <1>4, <2>1, <2>2, <2>3, <2>4, <2>5, <2>6 DEF Command
<1>5. CASE Join
  BY <1>5 DEF Join, JoinConnecting, JoinWake, JoinClear, JoinSet
<1>6. CASE Waits
  <2>1. CASE ReadAcquire
    BY <2>1 DEF ReadAcquire
  <2>2. CASE IntWait
    BY <2>2 DEF IntWait
  <2>3. CASE Window
    <3>1. HasPacket /\ pkt.win \in Nat
      BY <2>3 DEF Window, Packet
    <3>2. window' \in {window, pkt.win} /\ HasPacket' /\ UNCHANGED <<fwq, pkt, fwWindow, sent>>
      BY <2>3 DEF Window
    <3>3. /\ HasPacket => window <= pkt.win /\ pkt.win <= fwWindow
          /\ \A i \in 1..Len(fwq) : /\ window <= fwq[i].win /\ fwq[i].win <= fwWindow
                                     /\ HasPacket => pkt.win <= fwq[i].win
                                     /\ \A j \in 1..i : fwq[j].win <= fwq[i].win
          /\ window <= fwWindow /\ fwWindow <= sent + Credits
      OBVIOUS
    <3>4. window' \in Nat /\ window \in Nat /\ window' <= pkt.win
      BY <3>1, <3>2, <3>3
    <3>6. /\ window <= fwWindow /\ pkt.win <= fwWindow /\ window <= pkt.win
          /\ \A i \in 1..Len(fwq) : window <= fwq[i].win /\ pkt.win <= fwq[i].win
      <4>1. WindowGrows /\ HasPacket
        BY <3>1
      <4> HIDE DEF Base, TypeOK, FirmwareTypes, HasPacket
      <4> QED BY <4>1, Zenon DEF WindowGrows
    <3> HIDE DEF WindowGrows, Base, TypeOK, FirmwareTypes, HasPacket
    <3>5. /\ window' <= pkt.win /\ pkt.win <= fwWindow /\ window' <= fwWindow
          /\ \A i \in 1..Len(fwq) : window' <= fwq[i].win /\ pkt.win <= fwq[i].win
      <4>1. window' = window \/ window' = pkt.win
        BY <3>2
      <4>3. CASE window' = window
        BY <3>6, <4>3
      <4>4. CASE window' = pkt.win
        BY <3>6, <4>4, <3>4
      <4> QED BY <4>1, <4>3, <4>4
    <3> QED  BY <3>1, <3>2, <3>3, <3>5 DEF WindowGrows
  <2> QED  BY <1>6, <2>1, <2>2, <2>3 DEF Waits
<1>7. CASE ReadPkt \/ ReadGarbled
  <2>1. CASE ReadPkt
    <3>1. CASE fwq = <<>>
      BY <2>1, <3>1 DEF ReadPkt
    <3>2. CASE fwq # <<>>
      <4>1. /\ fwq' = Tail(fwq) /\ pkt' = fwq[1]
            /\ UNCHANGED <<window, sent, fwWindow>>
        BY <2>1, <3>2, TailFacts DEF ReadPkt
      <4>2. /\ Len(fwq) \in Nat /\ Len(fwq) >= 1 /\ Len(fwq') = Len(fwq) - 1
            /\ \A i \in 1..(Len(fwq) - 1) : fwq'[i] = fwq[i + 1]
        BY <3>2, <4>1, TailFacts
      <4> QED  BY <4>1, <4>2
    <3> QED  BY <3>1, <3>2
  <2>2. CASE ReadGarbled
    <3>1. /\ fwq' = Tail(fwq) /\ fwq # <<>>
          /\ UNCHANGED <<window, sent, fwWindow, pkt, pc>>
      BY <2>2 DEF ReadGarbled
    <3>2. /\ Len(fwq) \in Nat /\ Len(fwq) >= 1 /\ Len(fwq') = Len(fwq) - 1
          /\ \A i \in 1..(Len(fwq) - 1) : fwq'[i] = fwq[i + 1]
      BY <3>1, TailFacts
    <3> QED  BY <3>1, <3>2
  <2> QED  BY <1>7, <2>1, <2>2
<1>8. CASE Dispatch
  BY <1>8 DEF Dispatch, Response, JoinEvent, RoamEvent, Deauth, OtherPacket,
     NextRound
<1>9. ASSUME NEW pk \in Packet, FirmwareAdds(pk) PROVE WindowGrows'
  <2>1. /\ fwq' = Append(fwq, pk) /\ fwWindow' = pk.win
        /\ fwWindow <= pk.win /\ pk.win <= sent + Credits
        /\ UNCHANGED <<window, sent, pkt, pc>>
    BY <1>9 DEF FirmwareAdds
  <2>2. /\ Len(fwq) \in Nat /\ Len(fwq') = Len(fwq) + 1
        /\ \A i \in 1..Len(fwq) : fwq'[i] = fwq[i]
        /\ fwq'[Len(fwq) + 1] = pk
    BY <2>1, AppendFacts
  <2>3. pk.win \in Nat /\ \A i \in 1..Len(fwq) : fwq[i].win \in Nat
    <3>1. \A i \in 1..Len(fwq) : fwq[i] \in Packet
      BY ElementOfSeq
    <3> QED  BY <3>1 DEF Packet
  <2>4. HasPacket => pkt.win \in Nat
    BY DEF Packet
  <2> QED  BY <2>1, <2>2, <2>3, <2>4, SMTT(30)
<1>10. CASE UNCHANGED vars
  BY <1>10 DEF vars
<1> QED
  BY <1>1, <1>2, <1>3, <1>4, <1>5, <1>6, <1>7, <1>8, <1>9, <1>10, FirmwareShape,
     NextCases

\* Only a command uses up the credit that txstart has seen.
LEMMA WireStep ==
    ASSUME Base, WindowGrows, WireInv, [Next]_vars
    PROVE  WireInv'
<1> USE DriverConstants DEF Procs, At, Goto, mutexes, txVars, flowVars, cmdVars,
   joinVars, fwVars, bounds, auxVars, Base, WireInv, TypeOK, LockInv,
   PktSection, TxSection, LocalTypes
<1>1. CASE SendFrame
  BY <1>1 DEF SendFrame
<1>2. ASSUME NEW p \in Procs, Transmit(p) PROVE WireInv'
  <2>1. CASE TxAcquire(p)
    BY <2>1 DEF TxAcquire
  <2>2. CASE TxCheck(p)
    <3>1. CASE NoCredit \/ fcmask
      BY <2>2, <3>1 DEF TxCheck, TxReturn
    <3>2. CASE ~NoCredit /\ ~fcmask
      <4>1. sent # window
        BY <3>2 DEF NoCredit
      <4> QED  BY <2>2, <3>2, <4>1 DEF TxCheck
    <3> QED  BY <3>1, <3>2
  <2>3. CASE TxGet(p)
    BY <2>3 DEF TxGet, TxReturn
  <2>4. CASE TxPktAcquire(p)
    BY <2>4 DEF TxPktAcquire
  <2>5. CASE TxSend(p)
    BY <2>5 DEF TxSend
  <2> QED  BY <1>2, <2>1, <2>2, <2>3, <2>4, <2>5 DEF Transmit
<1>3. ASSUME NEW p \in Procs, NEW k \in {"cmd", "join"}, CmdStart(p, k) PROVE WireInv'
  BY <1>3 DEF CmdStart
<1>4. ASSUME NEW p \in Procs, Command(p) PROVE WireInv'
  <2>1. CASE CmdAcquire(p)
    BY <2>1 DEF CmdAcquire
  <2>2. CASE CmdPktAcquire(p)
    BY <2>2 DEF CmdPktAcquire
  <2>3. CASE CmdSend(p)
    <3>1. \A q \in Procs : /\ slip'[q] = IF pc[q] = "tpkt" THEN slip[q] + 1 ELSE slip[q]
                           /\ pc[q] # "tsend"
                           /\ pc'[q] \in {"tget", "tpkt", "tsend"} => pc'[q] = pc[q]
      BY <2>3 DEF CmdSend
    <3>2. ASSUME ~overdrew', ~slipped'
          PROVE  /\ sent < window /\ ~overdrew /\ ~slipped
                 /\ \A q \in Procs : pc[q] \notin {"tget", "tpkt"}
      <4>1. /\ ~overdrew /\ ~slipped /\ ~NoCredit
            /\ \A q \in Procs : pc[q] \notin {"tget", "tpkt"}
        BY <2>3, <3>2, Zenon DEF CmdSend
      <4>2. sent # window
        BY <4>1 DEF NoCredit
      <4> QED  BY <4>1, <4>2
    <3>3. sent' = sent + 1 /\ UNCHANGED <<window, hseq>>
      BY <2>3 DEF CmdSend
    <3>4. ASSUME NEW q \in Procs, pc'[q] \in {"tpkt", "tsend"}
          PROVE  hseq'[q] + slip'[q] = sent'
      <4>1. pc[q] = "tpkt" /\ slip'[q] = slip[q] + 1 /\ hseq'[q] = hseq[q]
        BY <3>1, <3>3, <3>4
      <4>2. hseq[q] + slip[q] = sent /\ hseq[q] \in Nat /\ slip[q] \in Nat /\ sent \in Nat
        BY <4>1
      <4> HIDE DEF Base, WireInv
      <4> QED  BY <3>3, <4>1, <4>2
    <3>5. ~overdrew' /\ ~slipped' => /\ sent' <= window'
                                    /\ \A q \in Procs : pc'[q] \notin {"tget", "tpkt", "tsend"}
      BY <3>1, <3>2, <3>3
    <3> QED  BY <3>4, <3>5
  <2>4. CASE CmdWake(p)
    BY <2>4 DEF CmdWake
  <2>5. CASE CmdClear(p)
    BY <2>5 DEF CmdClear
  <2>6. CASE CmdDone(p)
    BY <2>6 DEF CmdDone
  <2> QED  BY <1>4, <2>1, <2>2, <2>3, <2>4, <2>5, <2>6 DEF Command
<1>5. CASE Join
  <2>1. CASE JoinConnecting
    BY <2>1 DEF JoinConnecting
  <2>2. CASE JoinWake
    BY <2>2 DEF JoinWake
  <2>3. CASE JoinClear
    BY <2>3 DEF JoinClear
  <2>4. CASE JoinSet
    BY <2>4 DEF JoinSet
  <2> QED  BY <1>5, <2>1, <2>2, <2>3, <2>4 DEF Join
<1>6. CASE Waits
  <2>1. CASE ReadAcquire
    BY <2>1 DEF ReadAcquire
  <2>2. CASE IntWait
    BY <2>2 DEF IntWait
  <2>3. CASE Window
    <3>1. pkt \in Packet /\ window <= pkt.win
      BY <2>3 DEF Window, FirmwareTypes, HasPacket, WindowGrows
    <3>2. window' \in Nat /\ window <= window'
      BY <2>3, <3>1 DEF Window, Packet
    <3>3. /\ \A q \in Procs : pc'[q] \in {"tget", "tpkt", "tsend"} => pc'[q] = pc[q]
          /\ UNCHANGED <<sent, hseq, slip, overdrew, slipped>>
      BY <2>3 DEF Window
    <3>4. \A q \in Procs : pc'[q] \in {"tpkt", "tsend"} => hseq'[q] + slip'[q] = sent'
      BY <3>3
    <3>5. ~overdrew' /\ ~slipped' =>
            /\ sent' <= window'
            /\ \A q \in Procs : pc'[q] \in {"tget", "tpkt", "tsend"} => sent' < window'
      BY <3>2, <3>3
    <3> QED  BY <3>4, <3>5
  <2> QED  BY <1>6, <2>1, <2>2, <2>3 DEF Waits
<1>7. CASE ReadPkt \/ ReadGarbled
  <2>1. CASE ReadPkt
    BY <2>1 DEF ReadPkt
  <2>2. CASE ReadGarbled
    BY <2>2 DEF ReadGarbled
  <2> QED  BY <1>7, <2>1, <2>2
<1>8. CASE Dispatch
  <2>1. CASE Response
    BY <2>1 DEF Response, NextRound
  <2>2. CASE JoinEvent
    BY <2>2 DEF JoinEvent, NextRound
  <2>3. CASE RoamEvent
    BY <2>3 DEF RoamEvent, NextRound
  <2>4. CASE Deauth
    BY <2>4 DEF Deauth, NextRound
  <2>5. CASE OtherPacket
    BY <2>5 DEF OtherPacket, NextRound
  <2> QED  BY <1>8, <2>1, <2>2, <2>3, <2>4, <2>5 DEF Dispatch
<1>9. ASSUME NEW pk \in Packet, FirmwareAdds(pk) PROVE WireInv'
  BY <1>9 DEF FirmwareAdds
<1>10. CASE UNCHANGED vars
  BY <1>10 DEF vars
<1> QED
  BY <1>1, <1>2, <1>3, <1>4, <1>5, <1>6, <1>7, <1>8, <1>9, <1>10, FirmwareShape,
     NextCases

-----------------------------------------------------------------------------
(* The theorems.                                                           *)

WifiInv == Base /\ CommandInv /\ JoinInv /\ LinkInv /\ WindowGrows /\ WireInv

\* The state etherbcmattach leaves satisfies the invariant.
LEMMA InitWifiInv == Init => WifiInv
<1> SUFFICES ASSUME Init PROVE WifiInv
  OBVIOUS
<1> USE DriverConstants DEF Init, Procs, HasPacket
<1>0. Credits \in Nat /\ MaxCmds + MaxJoins \in Nat /\ MaxQueue \in Nat
  OBVIOUS
<1>1. TypeOK
  <2>1. pc \in [Procs -> Locations]
    BY DEF Locations
  <2>2. reqid \in 0..(MaxCmds + MaxJoins) /\ oq \in 0..MaxFrames
    BY <1>0
  <2>3. window \in Nat /\ Len(fwq) <= MaxQueue
    BY <1>0
  <2>4. {cmdlock, pktlock, tlock} \subseteq Procs \cup {None} /\ fcmask \in BOOLEAN
    OBVIOUS
  <2>5. sent \in Nat /\ joinstatus \in 0..2 /\ jres \in 0..2
    OBVIOUS
  <2> HIDE DEF Procs
  <2> QED  BY <2>1, <2>2, <2>3, <2>4, <2>5 DEF TypeOK
<1>2. LockInv /\ Places
  BY DEF LockInv, CmdSection, PktSection, TxSection, Places, TxPlaces, CmdPlaces
<1>3. LocalTypes
  BY DEF LocalTypes
<1>4. FirmwareTypes
  BY <1>0, EmptySeq DEF FirmwareTypes
<1>5. Counts /\ Ids
  BY DEF Counts, Ids, Unsent
<1>6. ~Pending("rsp") /\ ~Pending("ssid") /\ ~Pending("roam")
  BY DEF Pending, Queued, InHand
<1>7. OnlyOne("rsp", reqid) /\ OnlyOne("ssid", joins)
  BY DEF OnlyOne, Queued, InHand
<1>8. CommandInv
  BY <1>6, <1>7 DEF CommandInv, Waiting
<1>9. JoinInv /\ LinkInv
  BY <1>6, <1>7 DEF JoinInv, LinkInv
<1>10. WindowGrows /\ WireInv
  BY <1>0 DEF WindowGrows, WireInv
<1> QED
  BY <1>1, <1>2, <1>3, <1>4, <1>5, <1>8, <1>9, <1>10 DEF WifiInv, Base

\* Every step of the tasks and of the firmware keeps the invariant.
LEMMA WifiInvHolds == Spec => []WifiInv
<1>1. WifiInv /\ [Next]_vars => WifiInv'
  <2> SUFFICES ASSUME WifiInv, [Next]_vars PROVE WifiInv'
    OBVIOUS
  <2>1. Base'
    BY LocksStep, PlacesStep, CountsStep, IdsStep, TypesStep, LocalTypesStep,
       FirmwareTypesStep DEF WifiInv, Base
  <2> QED  BY <2>1, CommandStep, JoinStep, LinkStep, WindowStep, WireStep DEF WifiInv
<1> QED  BY <1>1, InitWifiInv, PTL DEF Spec

\* wlcmd and waitjoin take whatever is in rsp and joinstatus, yet a command is
\* completed by its own response and, as long as no roam fails, a join by its
\* own result; each mutex is held by the one task in its section.
THEOREM ExchangeIsOwn == Spec => []OneExchange
<1>1. WifiInv => OneExchange
  <2> SUFFICES ASSUME WifiInv PROVE OneExchange
    OBVIOUS
  <2> USE DEF WifiInv, Base
  <2>1. OwnResponse
    BY DriverConstants DEF OwnResponse, CommandInv, LockInv, CmdSection, Procs
  <2>2. OwnJoinResult
    BY DEF OwnJoinResult, JoinInv, LocalTypes
  <2> QED  BY <2>1, <2>2 DEF OneExchange, DriverInv
<1> QED  BY <1>1, WifiInvHolds, PTL

\* txstart reads txseq before it has pktlock, and tests the window before that:
\* a packet is off its place by the commands that overtook it and no more, and
\* only commands take the host out of its window.
THEOREM WireIsOrdered == Spec => []WireOrder
<1>1. WifiInv => WireOrder
  BY DEF WifiInv, Base, LocalTypes, WireInv, WireOrder, SequenceNumbers, WindowRespected
<1> QED  BY <1>1, WifiInvHolds, PTL

\* Outside of wljoin, Connected is the status of a link that is up, unless the
\* link was lost inside of wljoin or a roam had failed.
THEOREM StatusIsHonest == Spec => []ConnectedMeansLinkUp
<1>1. WifiInv => ConnectedMeansLinkUp
  BY DEF WifiInv, LinkInv, ConnectedMeansLinkUp
<1> QED  BY <1>1, WifiInvHolds, PTL
===============================================================================
