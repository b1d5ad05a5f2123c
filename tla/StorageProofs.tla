------------------------------ MODULE StorageProofs ------------------------------
(***************************************************************************)
(* Proofs about the storage parts.  SdIsExact and EmmcIsExact: whatever    *)
(* the controller, the card and the interrupt handler do, for every        *)
(* request and number of faults, mmc_read_blocks, sdTransferBlocks and     *)
(* sdClearBlocks report a success only with the blocks asked for, and      *)
(* leave card and controller ready.                                        *)
(*                                                                         *)
(* SdInv is the inductive invariant of SdHost.  Its parts: what the fields *)
(* hold (SdType); which command belongs to which stage (SdCommand); the    *)
(* card's kind is known once the stage needs it (SdCapacity); where the    *)
(* register and the driver may be together (SdQuiet); what was copied and  *)
(* what waits in the FIFO are the card's words in order (SdStream); a read *)
(* that shows any sign of data was taken by the card (SdTook); the count   *)
(* of words copied (SdBlocks); and what a success leaves behind (SdDone).  *)
(*                                                                         *)
(* EmmcInv is that of Emmc: what the fields hold (EmType, EmController,    *)
(* EmCard); the command of each stage (EmControl); no flag while a command *)
(* is on the line (EmWire); what sdCard knows of the card (EmKnown);       *)
(* nothing moves before the command for it (EmQuiet); the card counts      *)
(* blocks when it was told to (EmCounted) and ends by itself then          *)
(* (EmEnds); the range of an erase (EmErase); how far a read or a write is *)
(* (EmRead, EmWrite); and what a success leaves behind (EmDone).           *)
(*                                                                         *)
(* ClocksAreWithin: no clock is faster than asked for while a slower one   *)
(* could be set.  ClockInv adds to it that host.clock is the clock of the  *)
(* divider that is set, whatever the caller has asked for since.           *)
(***************************************************************************)
EXTENDS MCStorage, WellFoundedInduction, SequenceTheorems, TLAPS

HostCommands == {"CMD0", "CMD8", "CMD55", "ACMD41", "CMD2", "CMD3", "CMD9", "CMD7",
                 "CMD16"}
HostStages == {"boot", "idle", "ifcond", "app", "opcond", "failed"}
KnownStages == {"cid", "cid_again", "rca", "csd", "select", "blocklen"}
Responses == {"zero", "ifcond", "other", "busy", "ready_hc", "ready", "cid", "rca", "r1"}
ReadFsm == {"readwait", "readdata", "readcrc"}
AtWork == {"finish", "loop", "pio", "pioend", "complete"}

\* What the variables of the driver and its caller hold, then struct
\* sdhost_state, the registers, the card and the notes.
ControlType ==
    /\ stage \in HostStages \cup KnownStages \cup {"ready", "read", "stop"}
    /\ pc \in {"idle", "start", "send"} \cup AtWork
    /\ cmd \in HostCommands \cup {"CMD17", "CMD18", "CMD12", None}
    /\ ret \in Int /\ response \in Responses /\ result \in BOOLEAN /\ left \in Nat
    /\ req \in [start : Nat, n : Nat, call : Nat] /\ got \in Seq(Nat \X Nat)
HostType ==
    /\ DOMAIN host = {"cmd", "data", "blocks", "use_busy", "high_capacity", "rca", "voltages",
                      "hcs"}
    /\ host.data \in Nat \cup {None} /\ host.blocks \in Nat
    /\ host.use_busy \in BOOLEAN /\ host.high_capacity \in BOOLEAN
RegType ==
    /\ DOMAIN reg = {"enable", "fail", "hung", "hsts", "fsm", "fifo", "rsp"}
    /\ reg.enable \in BOOLEAN /\ reg.fail \in BOOLEAN /\ reg.hung \in BOOLEAN
    /\ reg.hsts \subseteq Errors \cup {"busy"} /\ reg.fsm \in {"ident", "data"} \cup ReadFsm
    /\ reg.fifo \in Seq(Nat \X Nat) /\ reg.rsp \in Responses
CardType ==
    /\ DOMAIN card = {"hc", "state", "single", "next", "bad"}
    /\ card.state \in {"idle", "ready", "ident", "stby", "tran", "data", "busy"}
    /\ card.hc \in BOOLEAN /\ card.single \in BOOLEAN
    /\ card.next \in Nat \X Nat /\ card.bad \subseteq Nat
NoteType ==
    /\ DOMAIN note = {"late", "silent", "stolen", "wiped", "stale"}
    /\ note.late \in BOOLEAN /\ note.wiped \in BOOLEAN /\ note.stale \in BOOLEAN
SdType == ControlType /\ HostType /\ RegType /\ CardType /\ NoteType

Errs == reg.hsts \cap Errors # {}
Resting == reg.fsm \in {"ident", "data"}

\* The command that is under way belongs to the stage of the caller.
SdCommand ==
    /\ stage \in {"boot", "failed", "ready"} => pc = "idle"
    /\ stage \in HostStages \cup KnownStages /\ pc # "idle" => cmd \in HostCommands
    /\ stage = "read" => req.n >= 1 /\ cmd = IF req.n > 1 THEN "CMD18" ELSE "CMD17"
    /\ stage = "stop" => req.n > 1 /\ cmd = "CMD12"
    /\ stage = "read" => req.call > 0
    /\ stage \in HostStages \cup KnownStages => req.call = 0
\* An answer of ACMD41 tells the card's kind, and from then on the host has it.
SdCapacity ==
    /\ (response = "ready_hc" => card.hc) /\ (response = "ready" => ~card.hc)
    /\ (reg.rsp = "ready_hc" => card.hc) /\ (reg.rsp = "ready" => ~card.hc)
    /\ stage \in KnownStages \cup {"ready", "read", "stop"} => host.high_capacity = card.hc
\* A command runs only while the driver waits for it, after the errors were
\* cleared and outside the read states; data is expected only of a read.
SdQuiet ==
    /\ reg.fsm \in ReadFsm => stage \in {"read", "ready"} /\ (stage = "read" => pc # "send")
    /\ reg.enable => ~Errs /\ Resting
    /\ Executing => pc = "finish" \/ (pc = "loop" /\ host.use_busy)
    /\ reg.enable /\ host.data # None =>
         pc \in {"finish", "loop", "pio"} /\ reg.fifo = <<>> /\ got = <<>>
    /\ reg.enable /\ host.use_busy => pc = "loop"
    /\ host.use_busy /\ pc \in AtWork => pc = "loop" /\ stage = "stop"
    /\ stage \in HostStages \cup KnownStages => host.data = None /\ ~host.use_busy
    /\ stage = "stop" => host.data = None
    /\ pc \in {"pio", "pioend", "complete"} => stage = "read" /\ host.data # None
    /\ stage = "read" /\ pc = "finish" => host.data # None

\* Word j of a read that begins with block s.
WordAt(s, j) == <<s + ((j - 1) \div BlockWords), ((j - 1) % BlockWords) + 1>>
\* What was copied and what waits in the FIFO are the words of the card in order.
StreamAt(g, f, s) == /\ \A j \in 1 .. Len(g) : g[j] = WordAt(s, j)
                     /\ \A j \in 1 .. Len(f) : f[j] = WordAt(s, Len(g) + j)
\* The card will go on behind the first k words.
LinkAt(nx, s, n, fsm, k) ==
    /\ nx[1] >= s /\ nx[2] <= BlockWords /\ (nx[1] - s) * BlockWords + nx[2] = k
    /\ nx[2] = BlockWords <=> fsm = "readcrc"
    /\ n = 1 => nx[1] = s
\* Words copied when b of n blocks are left, l words of this one.
Copied(n, b, l) == (n - b) * BlockWords + l
WholeRead(g, s, n) == g = [j \in 1 .. (n * BlockWords) |-> WordAt(s, j)]
Unspoilt(late, bad, s, n) == late \/ \A b \in bad : b \notin s .. (s + n - 1)

\* bcm2835_send_cmd works on a read command it has sent.
Reading == stage = "read" /\ pc \in AtWork /\ host.data # None
Expects == IF req.n = 1 THEN "tran" ELSE "data"
\* The card is where its read command leaves it.
Took == /\ card.single = (req.n = 1)
        /\ card.state = IF Resting THEN Expects ELSE "data"

\* The words copied, the words in the FIFO and the place of the card fit
\* together.
SdStream ==
      /\ stage = "read" /\ pc \in {"start", "send", "finish"} => got = <<>>
      /\ Reading => StreamAt(got, reg.fifo, req.start)
      /\ Reading /\ ~Resting =>
           LinkAt(card.next, req.start, req.n, reg.fsm, Len(got) + Len(reg.fifo))
\* A read with any sign of data was taken by the card; a damaged block is
\* visible as an error until the interrupt handler clears it.
SdTook ==
    Reading =>
      /\ \/ ~Resting \/ got # <<>> \/ reg.fifo # <<>> \/ reg.hsts \cap {"crc16", "rewto"} # {}
         \/ pc \in {"pioend", "complete"} \/ host.blocks < req.n
         => Took
      /\ card.bad # {} => Errs \/ note.wiped \/ (Resting /\ got = <<>> /\ reg.fifo = <<>>)
      /\ pc \in {"pio", "pioend", "complete"} => reg.hsts \cap Errors \subseteq {"crc16", "rewto"}
\* How many words were copied, from the blocks and words left.
SdBlocks ==
    Reading =>
      /\ pc = "finish" => host.blocks = req.n
      /\ IF pc = "complete" THEN host.blocks = 0 ELSE host.blocks \in 1 .. req.n
      /\ pc = "pio" => left > 0
      /\ pc = "pioend" => left = 0 \/ (Resting /\ (Errs \/ note.wiped))
      /\ pc = "complete" /\ req.n = 1 => reg.fsm \notin {"readwait", "readdata"}
      /\ pc \in {"pio", "pioend"} => left <= BlockWords
      /\ ~note.wiped \/ host.blocks = req.n =>
           Len(got) = Copied(req.n, host.blocks,
                             IF pc \in {"pio", "pioend"} THEN BlockWords - left ELSE 0)
\* What a read that succeeded leaves.
Good == /\ Resting /\ host.data = None
        /\ ~note.wiped => /\ WholeRead(got, req.start, req.n)
                          /\ Unspoilt(note.late, card.bad, req.start, req.n)
\* Success at the end of the read, of the stop command and of the call.
SdDone ==
    /\ stage = "read" /\ ret = 0 /\ (pc = "idle" \/ (pc = "loop" /\ host.data = None)) =>
         Good /\ ~host.use_busy /\ card.state = Expects
    /\ stage = "stop" =>
         /\ Good
         /\ pc \in {"idle", "start", "send", "loop"}
         /\ pc \in {"start", "send"} => ~host.use_busy /\ card.state = "data"
         /\ pc = "idle" /\ ret = 0 => ~host.use_busy
         /\ ~note.stale /\ pc = "loop" /\ host.use_busy /\ "busy" \in reg.hsts => card.state = "tran"
         /\ pc = "loop" /\ host.use_busy => card.state \in {"data", "busy", "tran"}
         /\ ~note.stale /\ pc \in {"loop", "idle"} /\ ~host.use_busy /\ ret = 0 => card.state = "tran"
    /\ stage = "ready" /\ req.call > 0 /\ ~result =>
         Good /\ ~host.use_busy /\ (~note.stale => card.state = "tran")

\* The inductive invariant.
SdInv == /\ SdType /\ SdCommand /\ SdCapacity /\ SdQuiet
         /\ SdStream /\ SdTook /\ SdBlocks /\ SdDone

-----------------------------------------------------------------------------
(* Lemmas about the words of a read.                                       *)

\* The part of the assumption on the constants that the proofs about SdHost
\* use.
LEMMA HostConstants ==
    /\ BlockWords \in Nat \ {0} /\ FifoWords \in Nat \ {0} /\ Burst \in Nat \ {0} /\ Burst <= FifoWords
    /\ Starts \subseteq Nat /\ Counts \subseteq Nat \ {0} /\ None \notin Nat
BY StorageConstants DEF SdHostConstants

\* Nothing copied and an empty FIFO are in order.
LEMMA EmptyStream ==
    ASSUME NEW s PROVE StreamAt(<<>>, <<>>, s)
BY DEF StreamAt

\* A card that has just taken the read command is before word 1.
LEMMA FirstLink ==
    ASSUME NEW s \in Nat, NEW n PROVE LinkAt(<<s, 0>>, s, n, "readwait", 0)
<1>1. (s - s) * BlockWords + 0 = 0 BY HostConstants
<1> QED BY <1>1, HostConstants DEF LinkAt

\* Quotient and remainder of a word number.
LEMMA WordParts ==
    ASSUME NEW a \in Nat, NEW r \in Nat, r < BlockWords
    PROVE  /\ (a * BlockWords + r) \div BlockWords = a
           /\ (a * BlockWords + r) % BlockWords = r
BY HostConstants, Z3

\* The word the card sends next is the next one of the read, and the card is
\* behind it then.
LEMMA WordLink ==
    ASSUME NEW nx \in Nat \X Nat, NEW s \in Nat, NEW n, NEW k \in Nat, NEW fsm, fsm # "readcrc",
           LinkAt(nx, s, n, fsm, k)
    PROVE  /\ <<nx[1], nx[2] + 1>> = WordAt(s, k + 1)
           /\ LinkAt(<<nx[1], nx[2] + 1>>, s, n,
                     IF nx[2] + 1 = BlockWords THEN "readcrc" ELSE "readdata", k + 1)
<1> DEFINE a == nx[1] - s
<1>1. a \in Nat /\ nx[2] \in Nat /\ nx[2] < BlockWords /\ a * BlockWords + nx[2] = k /\ (n = 1 => nx[1] = s)
  BY HostConstants DEF LinkAt
<1>2. k \div BlockWords = a /\ k % BlockWords = nx[2]
  BY <1>1, WordParts
<1>3. s + a = nx[1] /\ (k + 1) - 1 = k BY <1>1
<1>4. WordAt(s, k + 1) = <<s + (k \div BlockWords), (k % BlockWords) + 1>>
  BY <1>3 DEF WordAt
<1>5. a * BlockWords \in Int BY <1>1, HostConstants
<1>6. a * BlockWords + (nx[2] + 1) = k + 1 BY <1>1, <1>5
<1>7. LinkAt(<<nx[1], nx[2] + 1>>, s, n, IF nx[2] + 1 = BlockWords THEN "readcrc" ELSE "readdata", k + 1)
  <2> HIDE DEF a
  <2>1. nx[1] >= s /\ nx[2] + 1 <= BlockWords BY <1>1, HostConstants DEF a
  <2>2. (nx[1] - s) * BlockWords + (nx[2] + 1) = k + 1 BY <1>6 DEF a
  <2> QED BY <2>1, <2>2, <1>1 DEF LinkAt
<1> QED BY <1>2, <1>3, <1>4, <1>7

\* After the checksum the card goes on with the next block.
LEMMA NextLink ==
    ASSUME NEW nx \in Nat \X Nat, NEW s \in Nat, NEW n, NEW k \in Nat, n # 1,
           LinkAt(nx, s, n, "readcrc", k)
    PROVE  LinkAt(<<nx[1] + 1, 0>>, s, n, "readwait", k)
<1>1. nx[1] >= s /\ nx[2] = BlockWords /\ (nx[1] - s) * BlockWords + nx[2] = k
  BY DEF LinkAt
<1>2. ((nx[1] + 1) - s) * BlockWords = (nx[1] - s) * BlockWords + BlockWords
  BY HostConstants, Z3
<1>3. ((nx[1] + 1) - s) * BlockWords + 0 = k BY <1>1, <1>2, HostConstants
<1> QED BY <1>1, <1>3, HostConstants DEF LinkAt

\* With one block asked for, a block of words means the checksum is due.
LEMMA LastLink ==
    ASSUME NEW nx \in Nat \X Nat, NEW s \in Nat, NEW fsm, NEW k \in Nat, k >= BlockWords,
           LinkAt(nx, s, 1, fsm, k)
    PROVE  fsm = "readcrc"
<1>1. nx[1] = s /\ nx[2] <= BlockWords /\ (nx[1] - s) * BlockWords + nx[2] = k
      /\ (nx[2] = BlockWords <=> fsm = "readcrc")
  BY DEF LinkAt
<1>2. (nx[1] - s) * BlockWords = 0 BY <1>1, HostConstants
<1> QED BY <1>1, <1>2, HostConstants

\* The next word of the read may join the FIFO.
LEMMA AppendStream ==
    ASSUME NEW g \in Seq(Nat \X Nat), NEW f \in Seq(Nat \X Nat), NEW s \in Nat, NEW w \in Nat \X Nat,
           StreamAt(g, f, s), w = WordAt(s, Len(g) + Len(f) + 1)
    PROVE  StreamAt(g, Append(f, w), s) /\ Len(Append(f, w)) = Len(f) + 1
<1>1. Append(f, w) \in Seq(Nat \X Nat) /\ Len(Append(f, w)) = Len(f) + 1 /\ Len(f) \in Nat /\ Len(g) \in Nat
  OBVIOUS
<1>2. ASSUME NEW j \in 1 .. Len(Append(f, w)) PROVE Append(f, w)[j] = WordAt(s, Len(g) + j)
  <2>1. CASE j = Len(f) + 1 
    <3>1. Append(f, w)[j] = w BY <2>1
    <3>2. Len(g) + j = Len(g) + Len(f) + 1 BY <2>1, <1>1
    <3> QED BY <3>1, <3>2
  <2>2. CASE j # Len(f) + 1
    <3>1. j \in 1 .. Len(f) BY <1>1, <2>2
    <3>2. Append(f, w)[j] = f[j] BY <3>1
    <3> QED BY <3>1, <3>2 DEF StreamAt
  <2> QED BY <2>1, <2>2
<1> QED BY <1>1, <1>2 DEF StreamAt

\* bcm2835_transfer_block_pio moves words from the head of the FIFO to the
\* end of what was copied.
LEMMA TakeStream ==
    ASSUME NEW g \in Seq(Nat \X Nat), NEW f \in Seq(Nat \X Nat), NEW s \in Nat, NEW m \in 0 .. Len(f),
           StreamAt(g, f, s)
    PROVE  LET h == g \o SubSeq(f, 1, m)  r == SubSeq(f, m + 1, Len(f))
           IN  /\ StreamAt(h, r, s) /\ h \in Seq(Nat \X Nat) /\ r \in Seq(Nat \X Nat)
               /\ Len(h) = Len(g) + m /\ Len(r) = Len(f) - m
<1> DEFINE t == SubSeq(f, 1, m)  h == g \o t  r == SubSeq(f, m + 1, Len(f))
<1>1. Len(f) \in Nat /\ Len(g) \in Nat /\ m \in Nat /\ m <= Len(f) OBVIOUS
<1>2. t \in Seq(Nat \X Nat) /\ Len(t) = m /\ \A j \in 1 .. m : t[j] = f[j]
  BY <1>1, SubSeqProperties
<1>3. r \in Seq(Nat \X Nat) /\ Len(r) = Len(f) - m /\ \A j \in 1 .. (Len(f) - m) : r[j] = f[m + j]
  <2>1. CASE m = Len(f) BY <2>1, <1>1, SubSeqProperties
  <2>2. CASE m < Len(f) BY <2>2, <1>1, SubSeqProperties
  <2> QED BY <2>1, <2>2, <1>1
<1> HIDE DEF t, r
<1>4. h \in Seq(Nat \X Nat) /\ Len(h) = Len(g) + m
      /\ \A j \in 1 .. (Len(g) + m) : h[j] = IF j <= Len(g) THEN g[j] ELSE t[j - Len(g)]
  BY <1>2, ConcatProperties
<1> HIDE DEF h
<1>5. ASSUME NEW j \in 1 .. Len(h) PROVE h[j] = WordAt(s, j)
  <2>1. CASE j <= Len(g)
    <3>1. j \in 1 .. Len(g) /\ h[j] = g[j] BY <2>1, <1>1, <1>4
    <3> QED BY <3>1 DEF StreamAt
  <2>2. CASE ~(j <= Len(g))
    <3>1. j - Len(g) \in 1 .. m /\ j - Len(g) \in 1 .. Len(f) /\ Len(g) + (j - Len(g)) = j BY <2>2, <1>1, <1>4
    <3>2. h[j] = f[j - Len(g)] BY <2>2, <3>1, <1>2, <1>4
    <3> QED BY <3>1, <3>2 DEF StreamAt
  <2> QED BY <2>1, <2>2
<1>6. ASSUME NEW j \in 1 .. Len(r) PROVE r[j] = WordAt(s, Len(h) + j)
  <2>1. m + j \in 1 .. Len(f) /\ Len(g) + (m + j) = Len(h) + j /\ j \in 1 .. (Len(f) - m) BY <1>1, <1>3, <1>4
  <2>2. f[m + j] = WordAt(s, Len(g) + (m + j)) BY <2>1 DEF StreamAt
  <2> QED BY <2>1, <2>2, <1>3
<1>7. StreamAt(h, r, s) BY <1>5, <1>6 DEF StreamAt
<1> QED BY <1>3, <1>4, <1>7 DEF t, h, r

\* As many words in order as were asked for are the read.
LEMMA WholeStream ==
    ASSUME NEW g \in Seq(Nat \X Nat), NEW f, NEW s, NEW n \in Nat, StreamAt(g, f, s), Len(g) = n * BlockWords
    PROVE  WholeRead(g, s, n)
<1>1. g = [j \in 1 .. Len(g) |-> g[j]] OBVIOUS
<1>2. \A j \in 1 .. Len(g) : g[j] = WordAt(s, j) BY DEF StreamAt
<1>3. g = [j \in 1 .. Len(g) |-> WordAt(s, j)] BY <1>1, <1>2, Zenon
<1> QED BY <1>3 DEF WholeRead

\* The count of words copied: at the start, at the end, at the end of a
\* block, after m words more.
LEMMA CopiedNone == ASSUME NEW n \in Nat PROVE Copied(n, n, 0) = 0
<1>1. (n - n) * BlockWords = 0 BY HostConstants
<1> QED BY <1>1 DEF Copied

LEMMA CopiedAll == ASSUME NEW n \in Nat PROVE Copied(n, 0, 0) = n * BlockWords
<1>1. n - 0 = n /\ n * BlockWords \in Int BY HostConstants
<1> QED BY <1>1 DEF Copied

LEMMA CopiedBlock ==
    ASSUME NEW n \in Nat, NEW b \in Nat PROVE Copied(n, b, BlockWords) = Copied(n, b - 1, 0)
<1>1. (n - (b - 1)) * BlockWords = (n - b) * BlockWords + BlockWords BY HostConstants, Z3
<1>2. (n - b) * BlockWords \in Int BY HostConstants
<1> QED BY <1>1, <1>2, HostConstants DEF Copied

LEMMA CopiedMore ==
    ASSUME NEW n \in Nat, NEW b \in Nat, NEW l \in Int, NEW m \in Int
    PROVE  Copied(n, b, l + m) = Copied(n, b, l) + m
<1>1. (n - b) * BlockWords \in Int BY HostConstants
<1> QED BY <1>1 DEF Copied

LEMMA MovedSum == ASSUME NEW k \in Nat, NEW l \in Nat, NEW m \in Nat PROVE (k + m) + (l - m) = k + l
OBVIOUS

-----------------------------------------------------------------------------
(* bcm2835_send_cmd and what it calls keep the invariant.                  *)

LEMMA SStart ==
    ASSUME SdInv, Start PROVE SdInv'
<1> USE HostConstants DEF HostCommands, HostStages, KnownStages, Responses, ReadFsm, AtWork,
  Errors
<1>1. ASSUME reg.fsm \notin {"ident", "data"} /\ cmd # "CMD12" PROVE SdInv'
  <2>1. /\ pc = "start" /\ pc' = "idle" /\ ret' = -1
        /\ UNCHANGED <<stage, cmd, response, left, result, got, req, host, reg, card, note>>
    BY <1>1 DEF SdInv, SdCommand, SdQuiet, SdType, ControlType, HostType, RegType, CardType,
      NoteType, Executing, Start, Return, caller, bus, IsRead, RespType
  <2>2. SdType'
    BY <2>1, <1>1 DEF SdInv, SdType, ControlType, HostType, RegType, CardType, NoteType
  <2>3. SdCommand' /\ SdCapacity' /\ SdQuiet'
    BY <2>1, <1>1 DEF SdInv, SdType, ControlType, HostType, RegType, CardType, NoteType,
      SdCommand, SdCapacity, SdQuiet, SdStream, Errs, Resting, Executing, Reading
  <2>4. SdStream' /\ SdTook' /\ SdBlocks'
    BY <2>1, <1>1 DEF SdInv, SdType, ControlType, HostType, RegType, CardType, NoteType,
      SdCommand, SdQuiet, SdStream, SdBlocks, Resting, Reading, SdTook, Took, Errs, Expects, Executing
  <2>5. SdDone'
    BY <2>1, <1>1 DEF SdInv, SdType, ControlType, HostType, RegType, CardType, NoteType,
      SdCommand, SdQuiet, SdStream, SdTook, SdBlocks, SdDone, Resting, Reading, Took, Expects, Errs, Good, Executing
  <2> QED BY <2>2, <2>3, <2>4, <2>5 DEF SdInv, SdType
<1>2. ASSUME ~(reg.fsm \notin {"ident", "data"} /\ cmd # "CMD12") PROVE SdInv'
  <2>1. /\ pc = "start" /\ pc' = "send"
        /\ UNCHANGED <<stage, cmd, ret, response, left, result, got, req, host, reg, card, note>>
    BY <1>2 DEF SdInv, SdCommand, SdQuiet, SdType, ControlType, HostType, RegType, CardType,
      NoteType, Executing, Start, Return, caller, bus, IsRead, RespType
  <2>2. SdType'
    BY <2>1, <1>2 DEF SdInv, SdType, ControlType, HostType, RegType, CardType, NoteType
  <2>3. SdCommand' /\ SdCapacity' /\ SdQuiet'
    BY <2>1, <1>2 DEF SdInv, SdType, ControlType, HostType, RegType, CardType, NoteType,
      SdCommand, SdCapacity, SdQuiet, SdStream, Errs, Resting, Executing, Reading
  <2>4. SdStream' /\ SdTook' /\ SdBlocks'
    BY <2>1, <1>2 DEF SdInv, SdType, ControlType, HostType, RegType, CardType, NoteType,
      SdCommand, SdQuiet, SdStream, SdBlocks, Resting, Reading, SdTook, Took, Errs, Expects, Executing
  <2>5. SdDone'
    BY <2>1, <1>2 DEF SdInv, SdType, ControlType, HostType, RegType, CardType, NoteType,
      SdCommand, SdQuiet, SdStream, SdTook, SdBlocks, SdDone, Resting, Reading, Took, Expects, Errs, Good, Executing
  <2> QED BY <2>2, <2>3, <2>4, <2>5 DEF SdInv, SdType
<1> QED BY <1>1, <1>2 DEF SdInv, SdType, ControlType, HostType, RegType, CardType, NoteType,
  SdCommand, SdQuiet, Start, Return, caller, bus, IsRead, RespType

LEMMA SSendCommand ==
    ASSUME SdInv, SendCommand PROVE SdInv'
<1> USE HostConstants DEF HostCommands, HostStages, KnownStages, Responses, ReadFsm, AtWork,
  Errors
<1>1. ASSUME reg.enable PROVE SdInv'
  <2>1. /\ pc = "send" /\ (reg.enable => reg.hung) /\ pc' = "loop" /\ ret' = -2
        /\ UNCHANGED <<stage, cmd, response, left, result, got, req, host, reg, card, note>>
    BY <1>1 DEF SdInv, SdCommand, SdQuiet, SdType, ControlType, HostType, RegType, CardType,
      NoteType, Executing, SendCommand, Prepare, RespType, IsRead, caller, bus
  <2>2. SdType'
    BY <2>1, <1>1 DEF SdInv, SdType, ControlType, HostType, RegType, CardType, NoteType
  <2>3. SdCommand' /\ SdCapacity' /\ SdQuiet'
    BY <2>1, <1>1 DEF SdInv, SdType, ControlType, HostType, RegType, CardType, NoteType,
      SdCommand, SdCapacity, SdQuiet, SdStream, Errs, Resting, Executing, Reading
  <2>4. SdStream' /\ SdTook' /\ SdBlocks'
    BY <2>1, <1>1 DEF SdInv, SdType, ControlType, HostType, RegType, CardType, NoteType,
      SdCommand, SdQuiet, SdStream, SdBlocks, Resting, Reading, SdTook, Took, Errs, Expects, Executing
  <2>5. SdDone'
    BY <2>1, <1>1 DEF SdInv, SdType, ControlType, HostType, RegType, CardType, NoteType,
      SdCommand, SdQuiet, SdStream, SdTook, SdBlocks, SdDone, Resting, Reading, Took, Expects, Errs, Good, Executing
  <2> QED BY <2>2, <2>3, <2>4, <2>5 DEF SdInv, SdType
<1>2. ASSUME ~reg.enable /\ cmd = "CMD12" PROVE SdInv'
  <2>1. /\ pc = "send" /\ (reg.enable => reg.hung) /\ pc' = "loop" /\ ret' = 0
        /\ host' = [host EXCEPT !.cmd = cmd, !.use_busy = TRUE, !.data = None, !.blocks = host.blocks]
        /\ reg' = [reg EXCEPT !.enable = TRUE, !.fail = FALSE, !.hsts = IF reg.hsts \cap Errors # {} THEN {} ELSE reg.hsts, !.fifo = reg.fifo]
        /\ note' = [note EXCEPT !.stale = note.stale \/ "busy" \in reg'.hsts]
        /\ UNCHANGED <<stage, cmd, response, left, result, got, req, card>>
    <3>1. /\ pc = "send" /\ (reg.enable => reg.hung) /\ ret' = 0 /\ host' = Prepare(cmd, host)
          /\ reg' = [reg EXCEPT !.enable = TRUE, !.fail = FALSE,
                       !.hsts = IF @ \cap Errors # {} THEN {} ELSE @,
                       !.fifo = IF IsRead(cmd) THEN <<>> ELSE @]
          /\ pc' = IF host'.use_busy THEN "loop" ELSE "finish"
          /\ note' = [note EXCEPT !.stale = @ \/ (host'.use_busy /\ "busy" \in reg'.hsts)]
          /\ UNCHANGED <<stage, cmd, response, left, result, got, req, card>>
      BY <1>2 DEF SendCommand, caller, bus
    <3>2. RespType(cmd) = "busy" /\ ~IsRead(cmd) BY <1>2 DEF RespType, IsRead
    <3>3. host' = [host EXCEPT !.cmd = cmd, !.use_busy = TRUE, !.data = None, !.blocks = host.blocks]
      BY <3>1, <3>2 DEF Prepare
    <3>4. host'.use_busy = TRUE BY <3>3 DEF SdInv, SdType, HostType
    <3>5. reg' = [reg EXCEPT !.enable = TRUE, !.fail = FALSE, !.hsts = IF reg.hsts \cap Errors # {} THEN {} ELSE reg.hsts, !.fifo = reg.fifo]
      BY <3>1, <3>2
    <3>6. note' = [note EXCEPT !.stale = note.stale \/ "busy" \in reg'.hsts]
      BY <3>1, <3>4 DEF SdInv, SdType, NoteType
    <3> QED BY <3>1, <3>3, <3>4, <3>5, <3>6
  <2>2. /\ DOMAIN host' = DOMAIN host /\ host'.data = None /\ host'.blocks = host.blocks
        /\ host'.use_busy = TRUE /\ host'.high_capacity = host.high_capacity
    BY <2>1 DEF SdInv, SdType, HostType
  <2>3. /\ DOMAIN reg' = DOMAIN reg /\ reg'.enable = TRUE /\ reg'.fail = FALSE
        /\ reg'.hung = reg.hung
        /\ reg'.hsts = (IF reg.hsts \cap Errors # {} THEN {} ELSE reg.hsts)
        /\ reg'.fsm = reg.fsm /\ reg'.fifo = reg.fifo /\ reg'.rsp = reg.rsp
    BY <2>1 DEF SdInv, SdType, RegType
  <2>4. /\ DOMAIN note' = DOMAIN note /\ note'.late = note.late /\ note'.wiped = note.wiped
        /\ note'.stale = (note.stale \/ "busy" \in reg'.hsts)
    BY <2>1 DEF SdInv, SdType, NoteType
  <2>5. SdType'
    BY <2>1, <2>2, <2>3, <2>4, <1>2 DEF SdInv, SdType, ControlType, HostType, RegType,
      CardType, NoteType
  <2>6. SdCommand' /\ SdCapacity' /\ SdQuiet'
    BY <2>1, <2>2, <2>3, <2>4, <1>2 DEF SdInv, SdType, ControlType, HostType, RegType,
      CardType, NoteType, SdCommand, SdCapacity, SdQuiet, SdStream, Errs, Resting, Executing, Reading
  <2>7. SdStream' /\ SdTook' /\ SdBlocks'
    BY <2>1, <2>2, <2>3, <2>4, <1>2 DEF SdInv, SdType, ControlType, HostType, RegType,
      CardType, NoteType, SdCommand, SdQuiet, SdStream, SdBlocks, Resting, Reading, SdTook, Took, Errs, Expects, Executing
  <2>8. SdDone'
    BY <2>1, <2>2, <2>3, <2>4, <1>2 DEF SdInv, SdType, ControlType, HostType, RegType,
      CardType, NoteType, SdCommand, SdQuiet, SdStream, SdTook, SdBlocks, SdDone, Resting, Reading, Took, Expects, Errs, Good, Executing
  <2> QED BY <2>5, <2>6, <2>7, <2>8 DEF SdInv, SdType
<1>3. ASSUME ~reg.enable /\ IsRead(cmd) PROVE SdInv'
  <2>1. /\ pc = "send" /\ (reg.enable => reg.hung) /\ pc' = "finish" /\ ret' = 0
        /\ host' = [host EXCEPT !.cmd = cmd, !.use_busy = FALSE, !.data = req.call, !.blocks = req.n]
        /\ reg' = [reg EXCEPT !.enable = TRUE, !.fail = FALSE, !.hsts = IF reg.hsts \cap Errors # {} THEN {} ELSE reg.hsts, !.fifo = <<>>]
        /\ note' = [note EXCEPT !.stale = note.stale]
        /\ UNCHANGED <<stage, cmd, response, left, result, got, req, card>>
    <3>1. /\ pc = "send" /\ (reg.enable => reg.hung) /\ ret' = 0 /\ host' = Prepare(cmd, host)
          /\ reg' = [reg EXCEPT !.enable = TRUE, !.fail = FALSE,
                       !.hsts = IF @ \cap Errors # {} THEN {} ELSE @,
                       !.fifo = IF IsRead(cmd) THEN <<>> ELSE @]
          /\ pc' = IF host'.use_busy THEN "loop" ELSE "finish"
          /\ note' = [note EXCEPT !.stale = @ \/ (host'.use_busy /\ "busy" \in reg'.hsts)]
          /\ UNCHANGED <<stage, cmd, response, left, result, got, req, card>>
      BY <1>3 DEF SendCommand, caller, bus
    <3>2. RespType(cmd) # "busy" /\ IsRead(cmd) BY <1>3 DEF RespType, IsRead
    <3>3. host' = [host EXCEPT !.cmd = cmd, !.use_busy = FALSE, !.data = req.call, !.blocks = req.n]
      BY <3>1, <3>2 DEF Prepare
    <3>4. host'.use_busy = FALSE BY <3>3 DEF SdInv, SdType, HostType
    <3>5. reg' = [reg EXCEPT !.enable = TRUE, !.fail = FALSE, !.hsts = IF reg.hsts \cap Errors # {} THEN {} ELSE reg.hsts, !.fifo = <<>>]
      BY <3>1, <3>2
    <3>6. note' = [note EXCEPT !.stale = note.stale]
      BY <3>1, <3>4 DEF SdInv, SdType, NoteType
    <3> QED BY <3>1, <3>3, <3>4, <3>5, <3>6
  <2>2. /\ DOMAIN host' = DOMAIN host /\ host'.data = req.call /\ host'.blocks = req.n
        /\ host'.use_busy = FALSE /\ host'.high_capacity = host.high_capacity
    BY <2>1 DEF SdInv, SdType, HostType
  <2>3. /\ DOMAIN reg' = DOMAIN reg /\ reg'.enable = TRUE /\ reg'.fail = FALSE
        /\ reg'.hung = reg.hung
        /\ reg'.hsts = (IF reg.hsts \cap Errors # {} THEN {} ELSE reg.hsts)
        /\ reg'.fsm = reg.fsm /\ reg'.fifo = <<>> /\ reg'.rsp = reg.rsp
    BY <2>1 DEF SdInv, SdType, RegType
  <2>4. /\ DOMAIN note' = DOMAIN note /\ note'.late = note.late /\ note'.wiped = note.wiped
        /\ note'.stale = note.stale
    BY <2>1 DEF SdInv, SdType, NoteType
  <2>5. stage = "read" /\ req.n \in Nat \ {0} /\ req.call \in Nat /\ req.call # None /\ req.start \in Nat /\ got = <<>>
    <3>1. cmd \in {"CMD17", "CMD18"} BY <1>3 DEF IsRead
    <3>2. stage = "read" BY <2>1, <3>1 DEF SdInv, SdCommand, SdType, ControlType
    <3> QED BY <2>1, <3>2 DEF SdInv, SdCommand, SdStream, SdType, ControlType
  <2>6. StreamAt(got', reg'.fifo, req.start) /\ Len(got') = 0 /\ Copied(req.n, req.n, 0) = 0
    BY <2>1, <2>2, <2>3, <2>4, <2>5, EmptyStream, CopiedNone
  <2>7. reg'.hsts \cap Errors = {}
    BY <2>1, <2>2, <2>3, <2>4, <2>5, <2>6
  <2>8. SdType'
    BY <2>1, <2>2, <2>3, <2>4, <1>3 DEF SdInv, SdType, ControlType, HostType, RegType,
      CardType, NoteType
  <2>9. SdCommand' /\ SdCapacity' /\ SdQuiet'
    BY <2>1, <2>2, <2>3, <2>4, <2>5, <2>6, <2>7, <1>3 DEF SdInv, SdType, ControlType,
      HostType, RegType, CardType, NoteType, SdCommand, SdCapacity, SdQuiet, SdStream, Errs, Resting, Executing, Reading
  <2>10. SdStream' /\ SdTook' /\ SdBlocks'
    BY <2>1, <2>2, <2>3, <2>4, <2>5, <2>6, <2>7, <1>3 DEF SdInv, SdType, ControlType,
      HostType, RegType, CardType, NoteType, SdCommand, SdQuiet, SdStream, SdBlocks, Resting, Reading, SdTook, Took, Errs, Expects, Executing
  <2>11. SdDone'
    BY <2>1, <2>2, <2>3, <2>4, <2>5, <2>6, <2>7, <1>3 DEF SdInv, SdType, ControlType,
      HostType, RegType, CardType, NoteType, SdCommand, SdQuiet, SdStream, SdTook, SdBlocks, SdDone, Resting, Reading, Took, Expects, Errs, Good, Executing
  <2> QED BY <2>8, <2>9, <2>10, <2>11 DEF SdInv, SdType
<1>4. ASSUME ~reg.enable /\ cmd \in HostCommands PROVE SdInv'
  <2>1. /\ pc = "send" /\ (reg.enable => reg.hung) /\ pc' = "finish" /\ ret' = 0
        /\ host' = [host EXCEPT !.cmd = cmd, !.use_busy = FALSE, !.data = None, !.blocks = host.blocks]
        /\ reg' = [reg EXCEPT !.enable = TRUE, !.fail = FALSE, !.hsts = IF reg.hsts \cap Errors # {} THEN {} ELSE reg.hsts, !.fifo = reg.fifo]
        /\ note' = [note EXCEPT !.stale = note.stale]
        /\ UNCHANGED <<stage, cmd, response, left, result, got, req, card>>
    <3>1. /\ pc = "send" /\ (reg.enable => reg.hung) /\ ret' = 0 /\ host' = Prepare(cmd, host)
          /\ reg' = [reg EXCEPT !.enable = TRUE, !.fail = FALSE,
                       !.hsts = IF @ \cap Errors # {} THEN {} ELSE @,
                       !.fifo = IF IsRead(cmd) THEN <<>> ELSE @]
          /\ pc' = IF host'.use_busy THEN "loop" ELSE "finish"
          /\ note' = [note EXCEPT !.stale = @ \/ (host'.use_busy /\ "busy" \in reg'.hsts)]
          /\ UNCHANGED <<stage, cmd, response, left, result, got, req, card>>
      BY <1>4 DEF SendCommand, caller, bus
    <3>2. RespType(cmd) # "busy" /\ ~IsRead(cmd) BY <1>4 DEF RespType, IsRead
    <3>3. host' = [host EXCEPT !.cmd = cmd, !.use_busy = FALSE, !.data = None, !.blocks = host.blocks]
      BY <3>1, <3>2 DEF Prepare
    <3>4. host'.use_busy = FALSE BY <3>3 DEF SdInv, SdType, HostType
    <3>5. reg' = [reg EXCEPT !.enable = TRUE, !.fail = FALSE, !.hsts = IF reg.hsts \cap Errors # {} THEN {} ELSE reg.hsts, !.fifo = reg.fifo]
      BY <3>1, <3>2
    <3>6. note' = [note EXCEPT !.stale = note.stale]
      BY <3>1, <3>4 DEF SdInv, SdType, NoteType
    <3> QED BY <3>1, <3>3, <3>4, <3>5, <3>6
  <2>2. /\ DOMAIN host' = DOMAIN host /\ host'.data = None /\ host'.blocks = host.blocks
        /\ host'.use_busy = FALSE /\ host'.high_capacity = host.high_capacity
    BY <2>1 DEF SdInv, SdType, HostType
  <2>3. /\ DOMAIN reg' = DOMAIN reg /\ reg'.enable = TRUE /\ reg'.fail = FALSE
        /\ reg'.hung = reg.hung
        /\ reg'.hsts = (IF reg.hsts \cap Errors # {} THEN {} ELSE reg.hsts)
        /\ reg'.fsm = reg.fsm /\ reg'.fifo = reg.fifo /\ reg'.rsp = reg.rsp
    BY <2>1 DEF SdInv, SdType, RegType
  <2>4. /\ DOMAIN note' = DOMAIN note /\ note'.late = note.late /\ note'.wiped = note.wiped
        /\ note'.stale = note.stale
    BY <2>1 DEF SdInv, SdType, NoteType
  <2>5. SdType'
    BY <2>1, <2>2, <2>3, <2>4, <1>4 DEF SdInv, SdType, ControlType, HostType, RegType,
      CardType, NoteType
  <2>6. SdCommand' /\ SdCapacity' /\ SdQuiet'
    BY <2>1, <2>2, <2>3, <2>4, <1>4 DEF SdInv, SdType, ControlType, HostType, RegType,
      CardType, NoteType, SdCommand, SdCapacity, SdQuiet, SdStream, Errs, Resting, Executing, Reading
  <2>7. SdStream' /\ SdTook' /\ SdBlocks'
    BY <2>1, <2>2, <2>3, <2>4, <1>4 DEF SdInv, SdType, ControlType, HostType, RegType,
      CardType, NoteType, SdCommand, SdQuiet, SdStream, SdBlocks, Resting, Reading, SdTook, Took, Errs, Expects, Executing
  <2>8. SdDone'
    BY <2>1, <2>2, <2>3, <2>4, <1>4 DEF SdInv, SdType, ControlType, HostType, RegType,
      CardType, NoteType, SdCommand, SdQuiet, SdStream, SdTook, SdBlocks, SdDone, Resting, Reading, Took, Expects, Errs, Good, Executing
  <2> QED BY <2>5, <2>6, <2>7, <2>8 DEF SdInv, SdType
<1> QED BY <1>1, <1>2, <1>3, <1>4 DEF SdInv, SdType, ControlType, HostType, RegType, CardType,
  NoteType, SdCommand, SdQuiet, SendCommand, Prepare, RespType, IsRead, caller, bus

LEMMA SFinishCommand ==
    ASSUME SdInv, FinishCommand PROVE SdInv'
<1> USE HostConstants DEF HostCommands, HostStages, KnownStages, Responses, ReadFsm, AtWork,
  Errors
<1>1. ASSUME Failed PROVE SdInv'
  <2>1. /\ pc = "finish" /\ (reg.enable => reg.hung) /\ (reg.enable \/ reg.fail) /\ pc' = "loop"
        /\ ret' = -1 /\ host' = [host EXCEPT !.cmd = host.cmd]
        /\ UNCHANGED <<stage, cmd, response, left, result, got, req, reg, card, note>>
    BY <1>1 DEF SdInv, SdCommand, SdQuiet, SdType, ControlType, HostType, RegType, CardType,
      NoteType, Executing, FinishCommand, FinishEffect, Failed, RespType, caller, bus, IsRead
  <2>2. /\ DOMAIN host' = DOMAIN host /\ host'.data = host.data /\ host'.blocks = host.blocks
        /\ host'.use_busy = host.use_busy /\ host'.high_capacity = host.high_capacity
    BY <2>1 DEF SdInv, SdType, HostType
  <2>3. SdType'
    BY <2>1, <2>2, <1>1 DEF SdInv, SdType, ControlType, HostType, RegType, CardType, NoteType
  <2>4. SdCommand' /\ SdCapacity' /\ SdQuiet'
    BY <2>1, <2>2, <1>1 DEF SdInv, SdType, ControlType, HostType, RegType, CardType, NoteType,
      SdCommand, SdCapacity, SdQuiet, SdStream, Errs, Resting, Executing, Reading
  <2>5. SdStream' /\ SdTook' /\ SdBlocks'
    BY <2>1, <2>2, <1>1 DEF SdInv, SdType, ControlType, HostType, RegType, CardType, NoteType,
      SdCommand, SdQuiet, SdStream, SdBlocks, Resting, Reading, SdTook, Took, Errs, Expects, Executing
  <2>6. SdDone'
    BY <2>1, <2>2, <1>1 DEF SdInv, SdType, ControlType, HostType, RegType, CardType, NoteType,
      SdCommand, SdQuiet, SdStream, SdTook, SdBlocks, SdDone, Resting, Reading, Took, Expects, Errs, Good, Executing
  <2> QED BY <2>3, <2>4, <2>5, <2>6 DEF SdInv, SdType
<1>2. ASSUME ~Failed PROVE SdInv'
  <2>1. /\ pc = "finish" /\ (reg.enable => reg.hung) /\ ~reg.enable /\ pc' = "loop" /\ ret' = 0
        /\ response' = (IF RespType(cmd) = "none" THEN response ELSE reg.rsp)
        /\ host' = [host EXCEPT !.cmd = None]
        /\ UNCHANGED <<stage, cmd, left, result, got, req, reg, card, note>>
    BY <1>2 DEF SdInv, SdCommand, SdQuiet, SdType, ControlType, HostType, RegType, CardType,
      NoteType, Executing, FinishCommand, FinishEffect, Failed, RespType, caller, bus, IsRead
  <2>2. /\ DOMAIN host' = DOMAIN host /\ host'.data = host.data /\ host'.blocks = host.blocks
        /\ host'.use_busy = host.use_busy /\ host'.high_capacity = host.high_capacity
    BY <2>1 DEF SdInv, SdType, HostType
  <2>3. SdType'
    BY <2>1, <2>2, <1>2 DEF SdInv, SdType, ControlType, HostType, RegType, CardType, NoteType
  <2>4. SdCommand'
    BY <2>1, <2>2, <1>2 DEF SdInv, SdType, ControlType, HostType, RegType, CardType, NoteType,
      SdCommand
  <2>5. SdCapacity'
    BY <2>1, <2>2, <1>2 DEF SdInv, SdType, ControlType, HostType, RegType, CardType, NoteType,
      SdCommand, SdCapacity
  <2>6. SdQuiet'
    BY <2>1, <2>2, <1>2 DEF SdInv, SdType, ControlType, HostType, RegType, CardType, NoteType,
      SdCommand, SdQuiet, SdStream, Errs, Resting, Executing, Reading
  <2>7. SdStream' /\ SdTook' /\ SdBlocks'
    BY <2>1, <2>2, <1>2 DEF SdInv, SdType, ControlType, HostType, RegType, CardType, NoteType,
      SdCommand, SdQuiet, SdStream, SdBlocks, Resting, Reading, SdTook, Took, Errs, Expects, Executing
  <2>8. SdDone'
    BY <2>1, <2>2, <1>2 DEF SdInv, SdType, ControlType, HostType, RegType, CardType, NoteType,
      SdCommand, SdQuiet, SdStream, SdTook, SdBlocks, SdDone, Resting, Reading, Took, Expects, Errs, Good, Executing
  <2> QED BY <2>3, <2>4, <2>5, <2>6, <2>7, <2>8 DEF SdInv, SdType
<1> QED BY <1>1, <1>2 DEF SdInv, SdType, ControlType, HostType, RegType, CardType, NoteType,
  SdCommand, SdQuiet, FinishCommand, FinishEffect, Failed, RespType, caller, bus, IsRead

LEMMA STransmit ==
    ASSUME SdInv, Transmit PROVE SdInv'
<1> USE HostConstants DEF HostCommands, HostStages, KnownStages, Responses, ReadFsm, AtWork,
  Errors
<1>1. ASSUME reg.hsts \cap Errors # {} PROVE SdInv'
  <2>1. /\ pc = "loop" /\ (host.use_busy \/ host.data # None) /\ pc' = "idle" /\ ret' = -1
        /\ UNCHANGED <<stage, cmd, response, left, result, got, req, host, reg, card, note>>
    BY <1>1 DEF SdInv, SdCommand, SdQuiet, SdType, ControlType, HostType, RegType, CardType,
      NoteType, Executing, Transmit, FinishEffect, Failed, RespType, Return, DataError, caller, bus, IsRead
  <2>2. SdType'
    BY <2>1, <1>1 DEF SdInv, SdType, ControlType, HostType, RegType, CardType, NoteType
  <2>3. SdCommand' /\ SdCapacity' /\ SdQuiet'
    BY <2>1, <1>1 DEF SdInv, SdType, ControlType, HostType, RegType, CardType, NoteType,
      SdCommand, SdCapacity, SdQuiet, SdStream, Errs, Resting, Executing, Reading
  <2>4. SdStream' /\ SdTook' /\ SdBlocks'
    BY <2>1, <1>1 DEF SdInv, SdType, ControlType, HostType, RegType, CardType, NoteType,
      SdCommand, SdQuiet, SdStream, SdBlocks, Resting, Reading, SdTook, Took, Errs, Expects, Executing
  <2>5. SdDone'
    BY <2>1, <1>1 DEF SdInv, SdType, ControlType, HostType, RegType, CardType, NoteType,
      SdCommand, SdQuiet, SdStream, SdTook, SdBlocks, SdDone, Resting, Reading, Took, Expects, Errs, Good, Executing
  <2> QED BY <2>2, <2>3, <2>4, <2>5 DEF SdInv, SdType
<1>2. ASSUME ~(reg.hsts \cap Errors # {}) /\ host.data # None PROVE SdInv'
  <2>1. /\ pc = "loop" /\ (host.use_busy \/ host.data # None) /\ ~host.use_busy /\ pc' = "pio"
        /\ ret' = 0 /\ left' = BlockWords
        /\ host' = [host EXCEPT !.use_busy = FALSE, !.cmd = host.cmd]
        /\ reg' = [reg EXCEPT !.hsts = reg.hsts]
        /\ UNCHANGED <<stage, cmd, response, result, got, req, card, note>>
    <3>1. ~host.use_busy BY <1>2 DEF Transmit, SdInv, SdQuiet
    <3>2. ~(reg.hsts \cap (IF host.data # None THEN DataError \cup Errors ELSE Errors) # {})
      BY <1>2 DEF DataError
    <3>3. ~(host.use_busy /\ "busy" \in reg.hsts) /\ (host.use_busy /\ ~(host.use_busy /\ "busy" \in reg.hsts)) = FALSE
      BY <3>1
    <3>4. /\ reg' = [reg EXCEPT !.hsts = reg.hsts] /\ UNCHANGED response
          /\ host' = [host EXCEPT !.use_busy = host.use_busy /\ ~(host.use_busy /\ "busy" \in reg.hsts), !.cmd = host.cmd]
          /\ ret' = 0 /\ pc' = "pio" /\ left' = BlockWords /\ pc = "loop"
          /\ UNCHANGED <<stage, cmd, result, got, req, card, note>>
      BY <3>1, <3>2, <3>3, <1>2 DEF Transmit, caller, bus
    <3> QED BY <3>1, <3>3, <3>4, <1>2
  <2>2. /\ DOMAIN host' = DOMAIN host /\ host'.data = host.data /\ host'.blocks = host.blocks
        /\ host'.use_busy = FALSE /\ host'.high_capacity = host.high_capacity
    BY <2>1 DEF SdInv, SdType, HostType
  <2>3. /\ DOMAIN reg' = DOMAIN reg /\ reg'.enable = reg.enable /\ reg'.fail = reg.fail
        /\ reg'.hung = reg.hung /\ reg'.hsts = reg.hsts /\ reg'.fsm = reg.fsm
        /\ reg'.fifo = reg.fifo /\ reg'.rsp = reg.rsp
    BY <2>1 DEF SdInv, SdType, RegType
  <2>4. SdType'
    BY <2>1, <2>2, <2>3, <1>2 DEF SdInv, SdType, ControlType, HostType, RegType, CardType,
      NoteType
  <2>5. SdCommand' /\ SdCapacity' /\ SdQuiet'
    BY <2>1, <2>2, <2>3, <1>2 DEF SdInv, SdType, ControlType, HostType, RegType, CardType,
      NoteType, SdCommand, SdCapacity, SdQuiet, SdStream, Errs, Resting, Executing, Reading
  <2>6. SdStream' /\ SdTook' /\ SdBlocks'
    <3>1. SdStream'
      BY <2>1, <2>2, <2>3, <1>2 DEF SdInv, SdType, ControlType, HostType, RegType, CardType,
        NoteType, SdCommand, SdQuiet, SdStream, SdBlocks, Resting, Reading, SdTook, Took, Errs, Expects, Executing
    <3>2. SdTook'
      BY <2>1, <2>2, <2>3, <1>2 DEF SdInv, SdType, ControlType, HostType, RegType, CardType,
        NoteType, SdCommand, SdQuiet, SdStream, SdBlocks, Resting, Reading, SdTook, Took, Errs, Expects, Executing
    <3>3. SdBlocks'
      BY <2>1, <2>2, <2>3, <1>2 DEF SdInv, SdType, ControlType, HostType, RegType, CardType,
        NoteType, SdCommand, SdQuiet, SdStream, SdBlocks, Resting, Reading, SdTook, Took, Errs, Expects, Executing
    <3> QED BY <3>1, <3>2, <3>3
  <2>7. SdDone'
    BY <2>1, <2>2, <2>3, <1>2 DEF SdInv, SdType, ControlType, HostType, RegType, CardType,
      NoteType, SdCommand, SdQuiet, SdStream, SdTook, SdBlocks, SdDone, Resting, Reading, Took, Expects, Errs, Good, Executing
  <2> QED BY <2>4, <2>5, <2>6, <2>7 DEF SdInv, SdType
<1>3. ASSUME ~(reg.hsts \cap Errors # {}) /\ host.data = None /\ "busy" \in reg.hsts PROVE SdInv'
  <2>1. /\ pc = "loop" /\ (host.use_busy \/ host.data # None) /\ (reg.enable => reg.hung)
        /\ ret' = 0 /\ response' \in {response, reg.rsp}
        /\ host' = [host EXCEPT !.use_busy = FALSE, !.cmd = IF ~Failed THEN None ELSE host.cmd]
        /\ reg' = [reg EXCEPT !.hsts = reg.hsts \ {"busy"}]
        /\ UNCHANGED <<stage, pc, cmd, left, result, got, req, card, note>>
    BY <1>3 DEF SdInv, SdCommand, SdQuiet, SdType, ControlType, HostType, RegType, CardType,
      NoteType, Executing, Transmit, FinishEffect, Failed, RespType, Return, DataError, caller, bus, IsRead
  <2>2. /\ DOMAIN host' = DOMAIN host /\ host'.data = host.data /\ host'.blocks = host.blocks
        /\ host'.use_busy = FALSE /\ host'.high_capacity = host.high_capacity
    BY <2>1 DEF SdInv, SdType, HostType
  <2>3. /\ DOMAIN reg' = DOMAIN reg /\ reg'.enable = reg.enable /\ reg'.fail = reg.fail
        /\ reg'.hung = reg.hung /\ reg'.hsts = (reg.hsts \ {"busy"}) /\ reg'.fsm = reg.fsm
        /\ reg'.fifo = reg.fifo /\ reg'.rsp = reg.rsp
    BY <2>1 DEF SdInv, SdType, RegType
  <2>4. reg'.hsts \cap Errors = {}
    BY <2>1, <2>2, <2>3, <1>3
  <2>5. SdType'
    BY <2>1, <2>2, <2>3, <1>3 DEF SdInv, SdType, ControlType, HostType, RegType, CardType,
      NoteType
  <2>6. SdCommand' /\ SdCapacity' /\ SdQuiet'
    BY <2>1, <2>2, <2>3, <2>4, <1>3 DEF SdInv, SdType, ControlType, HostType, RegType,
      CardType, NoteType, SdCommand, SdCapacity, SdQuiet, SdStream, Errs, Resting, Executing, Reading
  <2>7. SdStream' /\ SdTook' /\ SdBlocks'
    BY <2>1, <2>2, <2>3, <2>4, <1>3 DEF SdInv, SdType, ControlType, HostType, RegType,
      CardType, NoteType, SdCommand, SdQuiet, SdStream, SdBlocks, Resting, Reading, SdTook, Took, Errs, Expects, Executing
  <2>8. SdDone'
    BY <2>1, <2>2, <2>3, <2>4, <1>3 DEF SdInv, SdType, ControlType, HostType, RegType,
      CardType, NoteType, SdCommand, SdQuiet, SdStream, SdTook, SdBlocks, SdDone, Resting, Reading, Took, Expects, Errs, Good, Executing
  <2> QED BY <2>5, <2>6, <2>7, <2>8 DEF SdInv, SdType
<1>4. ASSUME ~(reg.hsts \cap Errors # {}) /\ host.data = None /\ "busy" \notin reg.hsts PROVE SdInv'
  <2>1. /\ pc = "loop" /\ (host.use_busy \/ host.data # None) /\ ret' = 0
        /\ host' = [host EXCEPT !.use_busy = host.use_busy, !.cmd = host.cmd]
        /\ reg' = [reg EXCEPT !.hsts = reg.hsts]
        /\ UNCHANGED <<stage, pc, cmd, response, left, result, got, req, card, note>>
    BY <1>4 DEF SdInv, SdCommand, SdQuiet, SdType, ControlType, HostType, RegType, CardType,
      NoteType, Executing, Transmit, FinishEffect, Failed, RespType, Return, DataError, caller, bus, IsRead
  <2>2. /\ DOMAIN host' = DOMAIN host /\ host'.data = host.data /\ host'.blocks = host.blocks
        /\ host'.use_busy = host.use_busy /\ host'.high_capacity = host.high_capacity
    BY <2>1 DEF SdInv, SdType, HostType
  <2>3. /\ DOMAIN reg' = DOMAIN reg /\ reg'.enable = reg.enable /\ reg'.fail = reg.fail
        /\ reg'.hung = reg.hung /\ reg'.hsts = reg.hsts /\ reg'.fsm = reg.fsm
        /\ reg'.fifo = reg.fifo /\ reg'.rsp = reg.rsp
    BY <2>1 DEF SdInv, SdType, RegType
  <2>4. SdType'
    BY <2>1, <2>2, <2>3, <1>4 DEF SdInv, SdType, ControlType, HostType, RegType, CardType,
      NoteType
  <2>5. SdCommand' /\ SdCapacity' /\ SdQuiet'
    BY <2>1, <2>2, <2>3, <1>4 DEF SdInv, SdType, ControlType, HostType, RegType, CardType,
      NoteType, SdCommand, SdCapacity, SdQuiet, SdStream, Errs, Resting, Executing, Reading
  <2>6. SdStream' /\ SdTook' /\ SdBlocks'
    BY <2>1, <2>2, <2>3, <1>4 DEF SdInv, SdType, ControlType, HostType, RegType, CardType,
      NoteType, SdCommand, SdQuiet, SdStream, SdBlocks, Resting, Reading, SdTook, Took, Errs, Expects, Executing
  <2>7. SdDone'
    BY <2>1, <2>2, <2>3, <1>4 DEF SdInv, SdType, ControlType, HostType, RegType, CardType,
      NoteType, SdCommand, SdQuiet, SdStream, SdTook, SdBlocks, SdDone, Resting, Reading, Took, Expects, Errs, Good, Executing
  <2> QED BY <2>4, <2>5, <2>6, <2>7 DEF SdInv, SdType
<1> QED BY <1>1, <1>2, <1>3, <1>4 DEF SdInv, SdType, ControlType, HostType, RegType, CardType,
  NoteType, SdCommand, SdQuiet, Transmit, FinishEffect, Failed, RespType, Return, DataError, caller, bus, IsRead

LEMMA SLoopEnd ==
    ASSUME SdInv, LoopEnd PROVE SdInv'
<1> USE HostConstants DEF HostCommands, HostStages, KnownStages, Responses, ReadFsm, AtWork,
  Errors
<1>1. SdInv'
  <2>1. /\ pc = "loop" /\ ~host.use_busy /\ host.data = None /\ pc' = "idle"
        /\ UNCHANGED <<stage, cmd, ret, response, left, result, got, req, host, reg, card, note>>
    BY DEF SdInv, SdCommand, SdQuiet, SdType, ControlType, HostType, RegType, CardType,
      NoteType, Executing, LoopEnd, Return, caller, bus, IsRead, RespType
  <2>2. SdType'
    BY <2>1 DEF SdInv, SdType, ControlType, HostType, RegType, CardType, NoteType
  <2>3. SdCommand' /\ SdCapacity' /\ SdQuiet'
    BY <2>1 DEF SdInv, SdType, ControlType, HostType, RegType, CardType, NoteType, SdCommand,
      SdCapacity, SdQuiet, SdStream, Errs, Resting, Executing, Reading
  <2>4. SdStream' /\ SdTook' /\ SdBlocks'
    BY <2>1 DEF SdInv, SdType, ControlType, HostType, RegType, CardType, NoteType, SdCommand,
      SdQuiet, SdStream, SdBlocks, Resting, Reading, SdTook, Took, Errs, Expects, Executing
  <2>5. SdDone'
    BY <2>1 DEF SdInv, SdType, ControlType, HostType, RegType, CardType, NoteType, SdCommand,
      SdQuiet, SdStream, SdTook, SdBlocks, SdDone, Resting, Reading, Took, Expects, Errs, Good, Executing
  <2> QED BY <2>2, <2>3, <2>4, <2>5 DEF SdInv, SdType
<1> QED BY <1>1

LEMMA SPio ==
    ASSUME SdInv, Pio PROVE SdInv'
<1> USE HostConstants DEF HostCommands, HostStages, KnownStages, Responses, ReadFsm, AtWork,
  Errors
<1>1. ASSUME Len(reg.fifo) < Lesser(Burst, left) /\ reg.fsm \notin ReadFsm /\ reg.hsts \cap Errors # {} PROVE SdInv'
  <2>1. /\ pc = "pio" /\ pc' = "pioend"
        /\ UNCHANGED <<stage, cmd, ret, response, left, result, got, req, host, reg, card, note>>
    BY <1>1 DEF SdInv, SdCommand, SdQuiet, SdType, ControlType, HostType, RegType, CardType,
      NoteType, Executing, Pio, Lesser, caller, bus, IsRead, RespType
  <2>2. SdType'
    BY <2>1, <1>1 DEF SdInv, SdType, ControlType, HostType, RegType, CardType, NoteType
  <2>3. SdCommand' /\ SdCapacity' /\ SdQuiet'
    BY <2>1, <1>1 DEF SdInv, SdType, ControlType, HostType, RegType, CardType, NoteType,
      SdCommand, SdCapacity, SdQuiet, SdStream, Errs, Resting, Executing, Reading
  <2>4. SdStream' /\ SdTook' /\ SdBlocks'
    BY <2>1, <1>1 DEF SdInv, SdType, ControlType, HostType, RegType, CardType, NoteType,
      SdCommand, SdQuiet, SdStream, SdBlocks, Resting, Reading, SdTook, Took, Errs, Expects, Executing
  <2>5. SdDone'
    BY <2>1, <1>1 DEF SdInv, SdType, ControlType, HostType, RegType, CardType, NoteType,
      SdCommand, SdQuiet, SdStream, SdTook, SdBlocks, SdDone, Resting, Reading, Took, Expects, Errs, Good, Executing
  <2> QED BY <2>2, <2>3, <2>4, <2>5 DEF SdInv, SdType
<1>2. ASSUME Len(reg.fifo) < Lesser(Burst, left) /\ ~(reg.fsm \notin ReadFsm /\ reg.hsts \cap Errors # {}) PROVE SdInv'
  <2>1. /\ pc = "pio"
        /\ UNCHANGED <<stage, pc, cmd, ret, response, left, result, got, req, host, reg, card, note>>
    BY <1>2 DEF SdInv, SdCommand, SdQuiet, SdType, ControlType, HostType, RegType, CardType,
      NoteType, Executing, Pio, Lesser, caller, bus, IsRead, RespType
  <2>2. SdType'
    BY <2>1, <1>2 DEF SdInv, SdType, ControlType, HostType, RegType, CardType, NoteType
  <2>3. SdCommand' /\ SdCapacity' /\ SdQuiet'
    BY <2>1, <1>2 DEF SdInv, SdType, ControlType, HostType, RegType, CardType, NoteType,
      SdCommand, SdCapacity, SdQuiet, SdStream, Errs, Resting, Executing, Reading
  <2>4. SdStream' /\ SdTook' /\ SdBlocks'
    BY <2>1, <1>2 DEF SdInv, SdType, ControlType, HostType, RegType, CardType, NoteType,
      SdCommand, SdQuiet, SdStream, SdBlocks, Resting, Reading, SdTook, Took, Errs, Expects, Executing
  <2>5. SdDone'
    BY <2>1, <1>2 DEF SdInv, SdType, ControlType, HostType, RegType, CardType, NoteType,
      SdCommand, SdQuiet, SdStream, SdTook, SdBlocks, SdDone, Resting, Reading, Took, Expects, Errs, Good, Executing
  <2> QED BY <2>2, <2>3, <2>4, <2>5 DEF SdInv, SdType
<1>3. ASSUME ~(Len(reg.fifo) < Lesser(Burst, left)) PROVE SdInv'
  <2>1. /\ pc = "pio" /\ pc' = (IF left = Lesser(Len(reg.fifo), left) THEN "pioend" ELSE "pio")
        /\ left' = left - Lesser(Len(reg.fifo), left)
        /\ got' = (got \o SubSeq(reg.fifo, 1, Lesser(Len(reg.fifo), left)))
        /\ reg' = [reg EXCEPT !.fifo = SubSeq(reg.fifo, Lesser(Len(reg.fifo), left) + 1, Len(reg.fifo))]
        /\ UNCHANGED <<stage, cmd, ret, response, result, req, host, card, note>>
    BY <1>3 DEF SdInv, SdCommand, SdQuiet, SdType, ControlType, HostType, RegType, CardType,
      NoteType, Executing, Pio, Lesser, caller, bus, IsRead, RespType
  <2>2. /\ DOMAIN reg' = DOMAIN reg /\ reg'.enable = reg.enable /\ reg'.fail = reg.fail
        /\ reg'.hung = reg.hung /\ reg'.hsts = reg.hsts /\ reg'.fsm = reg.fsm
        /\ reg'.fifo = (SubSeq(reg.fifo, Lesser(Len(reg.fifo), left) + 1, Len(reg.fifo)))
        /\ reg'.rsp = reg.rsp
    BY <2>1 DEF SdInv, SdType, RegType
  <2>3. /\ Reading /\ left \in Nat \ {0} /\ left <= BlockWords /\ host.blocks \in Nat /\ req.start \in Nat /\ req.n \in Nat
        /\ got \in Seq(Nat \X Nat) /\ reg.fifo \in Seq(Nat \X Nat) /\ Len(reg.fifo) \in Nat /\ Len(got) \in Nat
        /\ StreamAt(got, reg.fifo, req.start)
    <3>1. /\ req.start \in Nat /\ req.n \in Nat /\ host.blocks \in Nat /\ left \in Nat
          /\ got \in Seq(Nat \X Nat) /\ reg.fifo \in Seq(Nat \X Nat)
      BY DEF SdInv, SdType, ControlType, HostType, RegType
    <3>2. Reading BY <2>1 DEF SdInv, SdQuiet, Reading
    <3>3. left > 0 /\ left <= BlockWords BY <2>1, <3>2 DEF SdInv, SdBlocks
    <3>4. StreamAt(got, reg.fifo, req.start) BY <3>2 DEF SdInv, SdStream
    <3> QED BY <3>1, <3>2, <3>3, <3>4
  <2>4. Lesser(Len(reg.fifo), left) \in 0 .. Len(reg.fifo) /\ Lesser(Len(reg.fifo), left) \in 1 .. left /\ reg.fifo # <<>>
    <3>0. left \in Nat /\ left # 0 /\ Len(reg.fifo) \in Nat BY <2>3
    <3>1. Lesser(Burst, left) \in Nat /\ Lesser(Burst, left) # 0 BY <3>0 DEF Lesser
    <3>2. Len(reg.fifo) > 0 BY <3>0, <3>1, <1>3
    <3>3. CASE Len(reg.fifo) < left
      <4>1. Lesser(Len(reg.fifo), left) = Len(reg.fifo) BY <3>3 DEF Lesser
      <4> QED BY <3>0, <3>2, <3>3, <4>1
    <3>4. CASE ~(Len(reg.fifo) < left)
      <4>1. Lesser(Len(reg.fifo), left) = left BY <3>4 DEF Lesser
      <4> QED BY <3>0, <3>2, <3>4, <4>1
    <3> QED BY <3>3, <3>4
  <2>5. PICK m \in 1 .. left : m = Lesser(Len(reg.fifo), left)
    BY <2>4
  <2>6. UNCHANGED <<stage, cmd, ret, response, result, req, host, card, note>> /\ pc = "pio"
    BY <2>1
  <2>7. got' = got \o SubSeq(reg.fifo, 1, m) /\ reg'.fifo = SubSeq(reg.fifo, m + 1, Len(reg.fifo))
        /\ left' = left - m /\ pc' = (IF left = m THEN "pioend" ELSE "pio")
    BY <2>1, <2>2, <2>5
  <2>8. /\ StreamAt(got', reg'.fifo, req.start) /\ got' \in Seq(Nat \X Nat) /\ reg'.fifo \in Seq(Nat \X Nat)
        /\ Len(got') = Len(got) + m /\ Len(reg'.fifo) = Len(reg.fifo) - m
    <3>1. /\ got \in Seq(Nat \X Nat) /\ reg.fifo \in Seq(Nat \X Nat) /\ req.start \in Nat
          /\ m \in 0 .. Len(reg.fifo) /\ StreamAt(got, reg.fifo, req.start)
      BY <2>3, <2>4, <2>5
    <3> DEFINE h == got \o SubSeq(reg.fifo, 1, m)  r == SubSeq(reg.fifo, m + 1, Len(reg.fifo))
    <3>3. h \in Seq(Nat \X Nat) /\ r \in Seq(Nat \X Nat) BY <3>1, TakeStream, Zenon
    <3>4. StreamAt(h, r, req.start) BY <3>1, TakeStream, Zenon
    <3>5. Len(h) = Len(got) + m BY <3>1, TakeStream, SMT
    <3>6. Len(r) = Len(reg.fifo) - m BY <3>1, SMT
    <3> QED BY <3>3, <3>4, <3>5, <3>6, <2>7, Zenon
  <2>9. /\ got' # <<>> /\ left' \in Nat /\ left' <= BlockWords /\ Len(got') + Len(reg'.fifo) = Len(got) + Len(reg.fifo)
        /\ (pc' = "pio" /\ left' > 0) \/ (pc' = "pioend" /\ left' = 0)
    <3>1. got' # <<>> /\ Len(got') + Len(reg'.fifo) = Len(got) + Len(reg.fifo)
      <4>1. Len(got) \in Nat /\ Len(reg.fifo) \in Nat /\ m \in Nat /\ m # 0 BY <2>3, <2>5
      <4>2. Len(got') = Len(got) + m /\ Len(reg'.fifo) = Len(reg.fifo) - m BY <2>8
      <4>3. got' # <<>> BY <4>1, <4>2
      <4>4. (Len(got) + m) + (Len(reg.fifo) - m) = Len(got) + Len(reg.fifo) BY <4>1, MovedSum,
        Zenon
      <4> QED BY <4>2, <4>3, <4>4, Zenon
    <3>2. left' \in Nat /\ left' <= BlockWords /\ ((pc' = "pio" /\ left' > 0) \/ (pc' = "pioend" /\ left' = 0))
      <4>1. left \in Nat /\ left <= BlockWords /\ m \in Nat /\ m # 0 /\ m <= left BY <2>3, <2>5
      <4> QED BY <4>1, <2>7
    <3> QED BY <3>1, <3>2
  <2>10. Copied(req.n, host.blocks, BlockWords - left') = Copied(req.n, host.blocks, BlockWords - left) + m
    <3> DEFINE l == BlockWords - left
    <3>1. BlockWords - left' = l + m /\ m \in Int /\ l \in Int BY <2>3, <2>5, <2>7
    <3>2. host.blocks \in Nat /\ req.n \in Nat BY <2>3
    <3> HIDE DEF l
    <3>3. Copied(req.n, host.blocks, l + m) = Copied(req.n, host.blocks, l) + m
      BY ONLY <3>1, <3>2, CopiedMore
    <3> QED BY <3>1, <3>3 DEF l
  <2>11. ControlType'
    BY <2>2, <2>3, <2>4, <2>6, <2>7, <2>8, <2>9 DEF SdInv, SdType, ControlType
  <2>12. RegType'
    BY <2>2, <2>3, <2>4, <2>6, <2>8, <2>9 DEF SdInv, SdType, RegType
  <2>13. HostType' /\ CardType' /\ NoteType'
    BY <2>1, <2>2, <1>3 DEF SdInv, SdType, ControlType, HostType, RegType, CardType, NoteType
  <2>14. SdCommand'
    BY <2>2, <2>3, <2>4, <2>6, <2>8, <2>9 DEF SdInv, SdCommand
  <2>15. SdCapacity'
    BY <2>2, <2>3, <2>4, <2>6, <2>8, <2>9 DEF SdInv, SdCommand, SdCapacity
  <2>16. SdQuiet'
    BY <2>2, <2>3, <2>4, <2>6, <2>8, <2>9 DEF SdInv, SdCommand, SdQuiet, SdStream, Errs,
      Resting, Executing, Reading
  <2>17. SdStream'
    BY <2>2, <2>3, <2>4, <2>6, <2>8, <2>9 DEF SdInv, SdCommand, SdQuiet, SdStream, SdBlocks,
      Resting, Reading
  <2>18. SdTook'
    BY <2>2, <2>3, <2>4, <2>6, <2>8, <2>9 DEF SdInv, SdCommand, SdQuiet, SdStream, SdTook,
      SdBlocks, Resting, Reading, Took, Errs, Expects
  <2>19. SdBlocks'
    BY <2>2, <2>3, <2>4, <2>6, <2>8, <2>9, <2>10 DEF SdInv, SdCommand, SdQuiet, SdStream,
      SdTook, SdBlocks, Resting, Reading, Took, Errs, Executing
  <2>20. SdDone'
    BY <2>2, <2>3, <2>4, <2>6, <2>8, <2>9 DEF SdInv, SdCommand, SdQuiet, SdStream, SdTook,
      SdBlocks, SdDone, Resting, Reading, Took, Expects, Errs, Good, Executing
  <2> QED BY <2>11, <2>12, <2>13, <2>14, <2>15, <2>16, <2>17, <2>18, <2>19, <2>20 DEF SdInv,
    SdType
<1> QED BY <1>1, <1>2, <1>3 DEF SdInv, SdType, ControlType, HostType, RegType, CardType,
  NoteType, SdCommand, SdQuiet, Pio, Lesser, caller, bus, IsRead, RespType

LEMMA SPioEnd ==
    ASSUME SdInv, PioEnd PROVE SdInv'
<1> USE HostConstants DEF HostCommands, HostStages, KnownStages, Responses, ReadFsm, AtWork,
  Errors
<1>1. ASSUME reg.hsts \cap Errors # {} PROVE SdInv'
  <2>1. /\ pc = "pioend" /\ pc' = "idle" /\ ret' = -1
        /\ UNCHANGED <<stage, cmd, response, left, result, got, req, host, reg, card, note>>
    BY <1>1 DEF SdInv, SdCommand, SdQuiet, SdType, ControlType, HostType, RegType, CardType,
      NoteType, Executing, PioEnd, Return, caller, bus, IsRead, RespType
  <2>2. SdType'
    BY <2>1, <1>1 DEF SdInv, SdType, ControlType, HostType, RegType, CardType, NoteType
  <2>3. SdCommand' /\ SdCapacity' /\ SdQuiet'
    BY <2>1, <1>1 DEF SdInv, SdType, ControlType, HostType, RegType, CardType, NoteType,
      SdCommand, SdCapacity, SdQuiet, SdStream, Errs, Resting, Executing, Reading
  <2>4. SdStream' /\ SdTook' /\ SdBlocks'
    BY <2>1, <1>1 DEF SdInv, SdType, ControlType, HostType, RegType, CardType, NoteType,
      SdCommand, SdQuiet, SdStream, SdBlocks, Resting, Reading, SdTook, Took, Errs, Expects, Executing
  <2>5. SdDone'
    BY <2>1, <1>1 DEF SdInv, SdType, ControlType, HostType, RegType, CardType, NoteType,
      SdCommand, SdQuiet, SdStream, SdTook, SdBlocks, SdDone, Resting, Reading, Took, Expects, Errs, Good, Executing
  <2> QED BY <2>2, <2>3, <2>4, <2>5 DEF SdInv, SdType
<1>2. ASSUME reg.hsts \cap Errors = {} /\ host.blocks = 1 PROVE SdInv'
  <2>1. /\ pc = "pioend" /\ pc' = "complete" /\ ret' = 0
        /\ host' = [host EXCEPT !.blocks = host.blocks - 1]
        /\ UNCHANGED <<stage, cmd, response, left, result, got, req, reg, card, note>>
    BY <1>2 DEF SdInv, SdCommand, SdQuiet, SdType, ControlType, HostType, RegType, CardType,
      NoteType, Executing, PioEnd, Return, caller, bus, IsRead, RespType
  <2>2. /\ DOMAIN host' = DOMAIN host /\ host'.data = host.data
        /\ host'.blocks = (host.blocks - 1) /\ host'.use_busy = host.use_busy
        /\ host'.high_capacity = host.high_capacity
    BY <2>1 DEF SdInv, SdType, HostType
  <2>3. Reading /\ host.blocks \in 1 .. req.n /\ req.n \in Nat /\ req.start \in Nat /\ got \in Seq(Nat \X Nat) /\ reg.fifo \in Seq(Nat \X Nat)
    BY <2>1 DEF SdInv, SdType, ControlType, RegType, SdQuiet, Reading, SdBlocks
  <2>4. ~note.wiped => Len(got) = Copied(req.n, host.blocks - 1, 0)
    <3>1. SUFFICES ASSUME ~note.wiped PROVE Len(got) = Copied(req.n, host.blocks - 1, 0) OBVIOUS
    <3>2. left = 0 BY <2>1, <2>3, <3>1, <1>2 DEF SdInv, SdBlocks, Errs
    <3>3. Len(got) = Copied(req.n, host.blocks, BlockWords - left) BY <2>1, <2>3,
      <3>1 DEF SdInv, SdBlocks
    <3>4. Copied(req.n, host.blocks, BlockWords) = Copied(req.n, host.blocks - 1, 0) 
      <4>1. host.blocks \in Nat /\ req.n \in Nat BY <2>3
      <4> QED BY <4>1, CopiedBlock
    <3> QED BY <3>2, <3>3, <3>4
  <2>5. req.n = 1 => reg.fsm \notin {"readwait", "readdata"}
    <3>1. SUFFICES ASSUME req.n = 1, ~Resting PROVE reg.fsm = "readcrc"
      BY DEF Resting
    <3>2. left = 0 /\ host.blocks = 1 BY <2>1, <2>3, <3>1, <1>2 DEF SdInv, SdBlocks
    <3>3. Len(got) = BlockWords
      <4>1. Len(got) = Copied(1, 1, BlockWords - left) BY <2>1, <2>3, <3>1, <3>2 DEF SdInv,
        SdBlocks
      <4>2. Copied(1, 1, BlockWords) = BlockWords BY DEF Copied
      <4> QED BY <3>2, <4>1, <4>2
    <3>4. LinkAt(card.next, req.start, 1, reg.fsm, Len(got) + Len(reg.fifo))
      BY <2>1, <2>2, <2>3, <2>4, <3>1 DEF SdInv, SdStream
    <3>5. Len(got) + Len(reg.fifo) \in Nat /\ Len(got) + Len(reg.fifo) >= BlockWords BY <2>1,
      <2>2, <2>3, <2>4, <3>3
    <3> QED BY <2>1, <2>2, <2>3, <2>4, <3>4, <3>5, LastLink DEF SdInv, SdType, CardType
  <2>6. SdType'
    BY <2>1, <2>2, <1>2 DEF SdInv, SdType, ControlType, HostType, RegType, CardType, NoteType
  <2>7. SdCommand' /\ SdCapacity' /\ SdQuiet'
    BY <2>1, <2>2, <2>3, <2>4, <2>5, <1>2 DEF SdInv, SdType, ControlType, HostType, RegType,
      CardType, NoteType, SdCommand, SdCapacity, SdQuiet, SdStream, Errs, Resting, Executing, Reading
  <2>8. SdStream'
    BY <2>1, <2>2, <2>3, <2>4, <2>5, <1>2 DEF SdInv, SdType, ControlType, HostType, RegType,
      CardType, NoteType, SdCommand, SdQuiet, SdStream, SdBlocks, Resting, Reading
  <2>9. SdTook'
    BY <2>1, <2>2, <2>3, <2>4, <2>5, <1>2 DEF SdInv, SdType, ControlType, HostType, RegType,
      CardType, NoteType, SdCommand, SdQuiet, SdStream, SdTook, SdBlocks, Resting, Reading, Took, Errs, Expects
  <2>10. SdBlocks'
    BY <2>1, <2>2, <2>3, <2>4, <2>5, <1>2 DEF SdInv, SdType, ControlType, HostType, RegType,
      CardType, NoteType, SdCommand, SdQuiet, SdStream, SdTook, SdBlocks, Resting, Reading, Took, Errs, Executing
  <2>11. SdDone'
    BY <2>1, <2>2, <2>3, <2>4, <2>5, <1>2 DEF SdInv, SdType, ControlType, HostType, RegType,
      CardType, NoteType, SdCommand, SdQuiet, SdStream, SdTook, SdBlocks, SdDone, Resting, Reading, Took, Expects, Errs, Good, Executing
  <2> QED BY <2>6, <2>7, <2>8, <2>9, <2>10, <2>11 DEF SdInv, SdType
<1>3. ASSUME reg.hsts \cap Errors = {} /\ host.blocks # 1 PROVE SdInv'
  <2>1. /\ pc = "pioend" /\ pc' = "loop" /\ ret' = 0
        /\ host' = [host EXCEPT !.blocks = host.blocks - 1]
        /\ UNCHANGED <<stage, cmd, response, left, result, got, req, reg, card, note>>
    BY <1>3 DEF SdInv, SdCommand, SdQuiet, SdType, ControlType, HostType, RegType, CardType,
      NoteType, Executing, PioEnd, Return, caller, bus, IsRead, RespType
  <2>2. /\ DOMAIN host' = DOMAIN host /\ host'.data = host.data
        /\ host'.blocks = (host.blocks - 1) /\ host'.use_busy = host.use_busy
        /\ host'.high_capacity = host.high_capacity
    BY <2>1 DEF SdInv, SdType, HostType
  <2>3. Reading /\ host.blocks \in 1 .. req.n /\ req.n \in Nat /\ req.start \in Nat /\ got \in Seq(Nat \X Nat) /\ reg.fifo \in Seq(Nat \X Nat)
    BY <2>1 DEF SdInv, SdType, ControlType, RegType, SdQuiet, Reading, SdBlocks
  <2>4. ~note.wiped => Len(got) = Copied(req.n, host.blocks - 1, 0)
    <3>1. SUFFICES ASSUME ~note.wiped PROVE Len(got) = Copied(req.n, host.blocks - 1, 0) OBVIOUS
    <3>2. left = 0 BY <2>1, <2>3, <3>1, <1>3 DEF SdInv, SdBlocks, Errs
    <3>3. Len(got) = Copied(req.n, host.blocks, BlockWords - left) BY <2>1, <2>3,
      <3>1 DEF SdInv, SdBlocks
    <3>4. Copied(req.n, host.blocks, BlockWords) = Copied(req.n, host.blocks - 1, 0) 
      <4>1. host.blocks \in Nat /\ req.n \in Nat BY <2>3
      <4> QED BY <4>1, CopiedBlock
    <3> QED BY <3>2, <3>3, <3>4
  <2>5. HostType'
    BY <2>2, <2>3 DEF SdInv, SdType, HostType
  <2>6. ControlType' /\ RegType' /\ CardType' /\ NoteType'
    BY <2>1, <2>2, <1>3 DEF SdInv, SdType, ControlType, HostType, RegType, CardType, NoteType
  <2>7. SdCommand' /\ SdCapacity' /\ SdQuiet'
    BY <2>1, <2>2, <2>3, <2>4, <1>3 DEF SdInv, SdType, ControlType, HostType, RegType,
      CardType, NoteType, SdCommand, SdCapacity, SdQuiet, SdStream, Errs, Resting, Executing, Reading
  <2>8. SdStream'
    BY <2>1, <2>2, <2>3, <2>4, <1>3 DEF SdInv, SdType, ControlType, HostType, RegType,
      CardType, NoteType, SdCommand, SdQuiet, SdStream, SdBlocks, Resting, Reading
  <2>9. SdTook'
    BY <2>1, <2>2, <2>3, <2>4, <1>3 DEF SdInv, SdType, ControlType, HostType, RegType,
      CardType, NoteType, SdCommand, SdQuiet, SdStream, SdTook, SdBlocks, Resting, Reading, Took, Errs, Expects
  <2>10. SdBlocks'
    BY <2>1, <2>2, <2>3, <2>4, <1>3 DEF SdBlocks, Reading
  <2>11. SdDone'
    BY <2>1, <2>2, <2>3, <2>4, <1>3 DEF SdInv, SdType, ControlType, HostType, RegType,
      CardType, NoteType, SdCommand, SdQuiet, SdStream, SdTook, SdBlocks, SdDone, Resting, Reading, Took, Expects, Errs, Good, Executing
  <2> QED BY <2>5, <2>6, <2>7, <2>8, <2>9, <2>10, <2>11 DEF SdInv, SdType
<1> QED BY <1>1, <1>2, <1>3 DEF SdInv, SdType, ControlType, HostType, RegType, CardType,
  NoteType, SdCommand, SdQuiet, PioEnd, Return, caller, bus, IsRead, RespType

LEMMA SComplete ==
    ASSUME SdInv, Complete PROVE SdInv'
<1> USE HostConstants DEF HostCommands, HostStages, KnownStages, Responses, ReadFsm, AtWork,
  Errors
<1>1. ASSUME reg.fsm # "readcrc" PROVE SdInv'
  <2>1. /\ pc = "complete" /\ pc' = "loop" /\ ret' = 0 /\ host' = [host EXCEPT !.data = None]
        /\ reg' = [reg EXCEPT !.fsm = IF reg.fsm \in {"readwait", "readdata"} THEN "data" ELSE reg.fsm]
        /\ note' = [note EXCEPT !.late = reg.hsts \cap Errors # {}]
        /\ UNCHANGED <<stage, cmd, response, left, result, got, req, card>>
    BY <1>1 DEF SdInv, SdCommand, SdQuiet, SdType, ControlType, HostType, RegType, CardType,
      NoteType, Executing, Complete, Return, caller, bus, IsRead, RespType
  <2>2. /\ DOMAIN host' = DOMAIN host /\ host'.data = None /\ host'.blocks = host.blocks
        /\ host'.use_busy = host.use_busy /\ host'.high_capacity = host.high_capacity
    BY <2>1 DEF SdInv, SdType, HostType
  <2>3. /\ DOMAIN reg' = DOMAIN reg /\ reg'.enable = reg.enable /\ reg'.fail = reg.fail
        /\ reg'.hung = reg.hung /\ reg'.hsts = reg.hsts
        /\ reg'.fsm = (IF reg.fsm \in {"readwait", "readdata"} THEN "data" ELSE reg.fsm)
        /\ reg'.fifo = reg.fifo /\ reg'.rsp = reg.rsp
    BY <2>1 DEF SdInv, SdType, RegType
  <2>4. /\ DOMAIN note' = DOMAIN note /\ note'.late = (reg.hsts \cap Errors # {})
        /\ note'.wiped = note.wiped /\ note'.stale = note.stale
    BY <2>1 DEF SdInv, SdType, NoteType
  <2>5. Reading /\ host.blocks = 0 /\ req.n \in Nat \ {0} /\ got \in Seq(Nat \X Nat)
    BY <2>1 DEF SdInv, SdType, ControlType, SdQuiet, SdCommand, Reading, SdBlocks
  <2>6. ~note.wiped => WholeRead(got, req.start, req.n) /\ got # <<>>
    <3>1. SUFFICES ASSUME ~note.wiped PROVE WholeRead(got, req.start, req.n) /\ got # <<>> OBVIOUS
    <3>2. Len(got) = Copied(req.n, 0, 0) BY <2>1, <2>2, <2>3, <2>4, <2>5, <3>1 DEF SdInv,
      SdBlocks
    <3>3. Len(got) = req.n * BlockWords BY <3>2, <2>1, <2>2, <2>3, <2>4, <2>5, CopiedAll
    <3>4. req.n * BlockWords # 0 BY <2>1, <2>2, <2>3, <2>4, <2>5
    <3> QED BY <2>1, <2>2, <2>3, <2>4, <2>5, <3>3, <3>4, WholeStream DEF SdInv, SdStream
  <2>7. ~note.wiped => Unspoilt(note'.late, card.bad, req.start, req.n)
    <3>1. SUFFICES ASSUME ~note.wiped, reg.hsts \cap Errors = {} PROVE card.bad = {}
      BY <2>1, <2>2, <2>3, <2>4, <2>5, <2>6 DEF Unspoilt
    <3> QED BY <2>1, <2>2, <2>3, <2>4, <2>5, <2>6, <3>1 DEF SdInv, SdTook, Errs
  <2>8. card.state = Expects /\ reg'.fsm \in {"ident", "data"}
    BY <2>1, <2>2, <2>3, <2>4, <2>5, <2>6, <2>7, <1>1 DEF SdInv, SdTook, SdBlocks, Resting,
      Expects, Took, SdType, RegType
  <2>9. SdType'
    BY <2>1, <2>2, <2>3, <2>4, <1>1 DEF SdInv, SdType, ControlType, HostType, RegType,
      CardType, NoteType
  <2>10. SdCommand' /\ SdCapacity' /\ SdQuiet'
    BY <2>1, <2>2, <2>3, <2>4, <2>5, <2>6, <2>7, <2>8, <1>1 DEF SdInv, SdType, ControlType,
      HostType, RegType, CardType, NoteType, SdCommand, SdCapacity, SdQuiet, SdStream, Errs, Resting, Executing, Reading
  <2>11. SdStream' /\ SdTook' /\ SdBlocks'
    BY <2>1, <2>2, <2>3, <2>4, <2>5, <2>6, <2>7, <2>8, <1>1 DEF SdInv, SdType, ControlType,
      HostType, RegType, CardType, NoteType, SdCommand, SdQuiet, SdStream, SdBlocks, Resting, Reading, SdTook, Took, Errs, Expects, Executing
  <2>12. SdDone'
    BY <2>1, <2>2, <2>3, <2>4, <2>5, <2>6, <2>7, <2>8, <1>1 DEF SdInv, SdType, ControlType,
      HostType, RegType, CardType, NoteType, SdQuiet, SdDone, Good, Resting, Expects, Reading
  <2> QED BY <2>9, <2>10, <2>11, <2>12 DEF SdInv, SdType
<1>2. ASSUME reg.fsm = "readcrc" PROVE SdInv'
  <2>1. /\ pc = "complete" /\ pc' = "idle" /\ ret' = -1
        /\ UNCHANGED <<stage, cmd, response, left, result, got, req, host, reg, card, note>>
    BY <1>2 DEF SdInv, SdCommand, SdQuiet, SdType, ControlType, HostType, RegType, CardType,
      NoteType, Executing, Complete, Return, caller, bus, IsRead, RespType
  <2>2. SdType'
    BY <2>1, <1>2 DEF SdInv, SdType, ControlType, HostType, RegType, CardType, NoteType
  <2>3. SdCommand' /\ SdCapacity' /\ SdQuiet'
    BY <2>1, <1>2 DEF SdInv, SdType, ControlType, HostType, RegType, CardType, NoteType,
      SdCommand, SdCapacity, SdQuiet, SdStream, Errs, Resting, Executing, Reading
  <2>4. SdStream' /\ SdTook' /\ SdBlocks'
    BY <2>1, <1>2 DEF SdInv, SdType, ControlType, HostType, RegType, CardType, NoteType,
      SdCommand, SdQuiet, SdStream, SdBlocks, Resting, Reading, SdTook, Took, Errs, Expects, Executing
  <2>5. SdDone'
    BY <2>1, <1>2 DEF SdInv, SdType, ControlType, HostType, RegType, CardType, NoteType,
      SdCommand, SdQuiet, SdStream, SdTook, SdBlocks, SdDone, Resting, Reading, Took, Expects, Errs, Good, Executing
  <2> QED BY <2>2, <2>3, <2>4, <2>5 DEF SdInv, SdType
<1> QED BY <1>1, <1>2 DEF SdInv, SdType, ControlType, HostType, RegType, CardType, NoteType,
  SdCommand, SdQuiet, Complete, Return, caller, bus, IsRead, RespType

-----------------------------------------------------------------------------
(* The interrupt handler, the controller and the card keep the invariant.  *)

LEMMA SInterrupt ==
    ASSUME SdInv, Interrupt PROVE SdInv'
<1> USE HostConstants DEF HostCommands, HostStages, KnownStages, Responses, ReadFsm, AtWork,
  Errors
<1>1. SdInv'
  <2>1. /\ "busy" \in reg.hsts /\ reg' = [reg EXCEPT !.hsts = {}]
        /\ note' = [note EXCEPT !.stolen = note.stolen \/ host.use_busy, !.wiped = note.wiped \/ reg.hsts \cap Errors # {}]
        /\ UNCHANGED <<stage, pc, cmd, ret, response, left, result, got, req, host, card>>
    BY DEF SdInv, SdCommand, SdQuiet, SdType, ControlType, HostType, RegType, CardType,
      NoteType, Executing, Interrupt, caller, bus, IsRead, RespType
  <2>2. /\ DOMAIN reg' = DOMAIN reg /\ reg'.enable = reg.enable /\ reg'.fail = reg.fail
        /\ reg'.hung = reg.hung /\ reg'.hsts = {} /\ reg'.fsm = reg.fsm /\ reg'.fifo = reg.fifo
        /\ reg'.rsp = reg.rsp
    BY <2>1 DEF SdInv, SdType, RegType
  <2>3. /\ DOMAIN note' = DOMAIN note /\ note'.late = note.late
        /\ note'.wiped = (note.wiped \/ reg.hsts \cap Errors # {}) /\ note'.stale = note.stale
    BY <2>1 DEF SdInv, SdType, NoteType
  <2>4. reg'.hsts \cap Errors = {} /\ reg'.hsts \cap {"crc16", "rewto"} = {} /\ (reg.hsts \cap {"crc16", "rewto"} # {} => reg.hsts \cap Errors # {})
    BY <2>2
  <2>5. SdType'
    BY <2>1, <2>2, <2>3 DEF SdInv, SdType, ControlType, HostType, RegType, CardType, NoteType
  <2>6. SdCommand' /\ SdCapacity' /\ SdQuiet'
    BY <2>1, <2>2, <2>3, <2>4 DEF SdInv, SdType, ControlType, HostType, RegType, CardType,
      NoteType, SdCommand, SdCapacity, SdQuiet, SdStream, Errs, Resting, Executing, Reading
  <2>7. SdStream'
    BY <2>1, <2>2, <2>3, <2>4 DEF SdInv, SdType, ControlType, HostType, RegType, CardType,
      NoteType, SdCommand, SdQuiet, SdStream, SdBlocks, Resting, Reading
  <2>8. SdTook'
    BY <2>1, <2>2, <2>3, <2>4 DEF SdInv, SdTook, Reading, Resting, Took, Errs, Expects
  <2>9. SdBlocks'
    BY <2>1, <2>2, <2>3, <2>4 DEF SdInv, SdType, ControlType, HostType, RegType, CardType,
      NoteType, SdCommand, SdQuiet, SdStream, SdTook, SdBlocks, Resting, Reading, Took, Errs, Executing
  <2>10. SdDone'
    BY <2>1, <2>2, <2>3, <2>4 DEF SdInv, SdType, ControlType, HostType, RegType, CardType,
      NoteType, SdCommand, SdQuiet, SdStream, SdTook, SdBlocks, SdDone, Resting, Reading, Took, Expects, Errs, Good, Executing
  <2> QED BY <2>5, <2>6, <2>7, <2>8, <2>9, <2>10 DEF SdInv, SdType
<1> QED BY <1>1

LEMMA SCmdDone ==
    ASSUME SdInv, CmdDone PROVE SdInv'
<1> USE HostConstants DEF HostCommands, HostStages, KnownStages, Responses, ReadFsm, AtWork,
  Errors
<1>1. ASSUME IsRead(cmd) PROVE SdInv'
  <2>1. /\ reg.enable /\ ~reg.hung /\ card.state = "tran"
        /\ reg' = [reg EXCEPT !.enable = FALSE, !.rsp = "r1", !.fsm = "readwait"]
        /\ card' = [card EXCEPT !.state = "data", !.single = cmd = "CMD17", !.bad = {}, !.next = <<req.start, 0>>]
        /\ UNCHANGED <<stage, pc, cmd, ret, response, left, result, got, req, host, note>>
    <3>1. stage = "read" BY <1>1 DEF SdInv, SdCommand, SdType, ControlType, IsRead, CmdDone,
      Executing, SdQuiet
    <3>2. Addressed = req.start BY <3>1 DEF Addressed, SdInv, SdCapacity
    <3>3. RespType(cmd) = "present" /\ cmd \in {"CMD17", "CMD18"} BY <1>1 DEF RespType, IsRead
    <3>4. /\ Accepts(cmd) <=> card.state = "tran"
          /\ \A up : After(cmd, up) = "data"
          /\ \A up : Answers(cmd, up) = {"r1"}
      BY <3>3, <1>1 DEF Accepts, After, Answers, IsRead
    <3>5. \A up : Execute(up) => card' = [card EXCEPT !.state = "data", !.single = (cmd = "CMD17"), !.bad = {}, !.next = <<req.start, 0>>]
      BY <3>2, <3>4, <1>1 DEF Execute
    <3> QED 
      <4>1. PICK up \in {MayPowerUp, FALSE} : \E a \in Answers(cmd, up) :
            /\ Execute(up)
            /\ reg' = [reg EXCEPT !.enable = FALSE, !.rsp = IF RespType(cmd) = "none" THEN @ ELSE a,
                                  !.fsm = IF IsRead(cmd) THEN "readwait"
                                          ELSE IF cmd = "CMD12" THEN "data" ELSE @]
        BY DEF CmdDone
      <4>2. /\ Executing /\ Accepts(cmd) /\ UNCHANGED <<stage, pc, cmd, ret, response, left, result, got, req, host, note>>
        BY DEF CmdDone, driver, caller
      <4>5. PICK a \in Answers(cmd, up) :
            reg' = [reg EXCEPT !.enable = FALSE, !.rsp = IF RespType(cmd) = "none" THEN @ ELSE a,
                               !.fsm = IF IsRead(cmd) THEN "readwait"
                                       ELSE IF cmd = "CMD12" THEN "data" ELSE @]
        BY <4>1
      <4>6. a = "r1" BY <3>4, <4>5
      <4>3. reg' = [reg EXCEPT !.enable = FALSE, !.rsp = "r1", !.fsm = "readwait"]
        BY <4>5, <4>6, <3>3, <1>1
      <4> QED BY <4>1, <4>2, <4>3, <3>4, <3>5 DEF Executing
  <2>2. /\ DOMAIN reg' = DOMAIN reg /\ reg'.enable = FALSE /\ reg'.fail = reg.fail
        /\ reg'.hung = reg.hung /\ reg'.hsts = reg.hsts /\ reg'.fsm = "readwait"
        /\ reg'.fifo = reg.fifo /\ reg'.rsp = "r1"
    BY <2>1 DEF SdInv, SdType, RegType
  <2>3. /\ DOMAIN card' = DOMAIN card /\ card'.hc = card.hc /\ card'.state = "data"
        /\ card'.single = (cmd = "CMD17") /\ card'.next = <<req.start, 0>> /\ card'.bad = {}
    BY <2>1 DEF SdInv, SdType, CardType
  <2>4. stage = "read" /\ pc = "finish" /\ ~host.use_busy /\ host.data # None /\ reg.fifo = <<>> /\ got = <<>> /\ reg.hsts \cap Errors = {} /\ host.blocks = req.n
    BY <2>1, <1>1 DEF SdInv, SdCommand, SdQuiet, SdBlocks, SdType, ControlType, RegType,
      IsRead, Executing, Reading, Errs
  <2>5. /\ req.start \in Nat /\ req.n \in Nat \ {0} /\ (cmd = "CMD17" <=> req.n = 1)
        /\ StreamAt(got, reg.fifo, req.start) /\ LinkAt(<<req.start, 0>>, req.start, req.n, "readwait", 0)
    BY <2>1, <2>2, <2>3, <2>4, FirstLink DEF SdInv, SdType, ControlType, SdCommand, SdStream,
      Reading
  <2>6. Len(got) + Len(reg.fifo) = 0
    BY <2>1, <2>2, <2>3, <2>4, <2>5
  <2>7. SdType'
    BY <2>1, <2>2, <2>3, <1>1 DEF SdInv, SdType, ControlType, HostType, RegType, CardType,
      NoteType
  <2>8. SdCommand' /\ SdCapacity' /\ SdQuiet'
    BY <2>1, <2>2, <2>3, <2>4, <2>5, <2>6, <1>1 DEF SdInv, SdType, ControlType, HostType,
      RegType, CardType, NoteType, SdCommand, SdCapacity, SdQuiet, SdStream, Errs, Resting, Executing, Reading
  <2>9. SdStream'
    BY <2>1, <2>2, <2>3, <2>4, <2>5, <2>6 DEF SdInv, SdStream, Resting, Reading
  <2>10. SdTook'
    BY <2>1, <2>2, <2>3, <2>4, <2>5, <2>6, <1>1 DEF SdInv, SdType, ControlType, HostType,
      RegType, CardType, NoteType, SdCommand, SdQuiet, SdStream, SdTook, SdBlocks, Resting, Reading, Took, Errs, Expects
  <2>11. SdBlocks'
    BY <2>1, <2>2, <2>3, <2>4, <2>5, <2>6, <1>1 DEF SdInv, SdType, ControlType, HostType,
      RegType, CardType, NoteType, SdCommand, SdQuiet, SdStream, SdTook, SdBlocks, Resting, Reading, Took, Errs, Executing
  <2>12. SdDone'
    BY <2>1, <2>2, <2>3, <2>4, <2>5, <2>6, <1>1 DEF SdInv, SdType, ControlType, HostType,
      RegType, CardType, NoteType, SdCommand, SdQuiet, SdStream, SdTook, SdBlocks, SdDone, Resting, Reading, Took, Expects, Errs, Good, Executing
  <2> QED BY <2>7, <2>8, <2>9, <2>10, <2>11, <2>12 DEF SdInv, SdType
<1>2. ASSUME cmd = "CMD12" PROVE SdInv'
  <2>1. /\ reg.enable /\ ~reg.hung /\ card.state = "data"
        /\ reg' = [reg EXCEPT !.enable = FALSE, !.rsp = "r1", !.fsm = "data"]
        /\ card' = [card EXCEPT !.state = "busy", !.single = FALSE, !.bad = card.bad, !.next = card.next]
        /\ UNCHANGED <<stage, pc, cmd, ret, response, left, result, got, req, host, note>>
    <3>1. RespType(cmd) = "busy" /\ ~IsRead(cmd) BY <1>2 DEF RespType, IsRead
    <3>2. /\ Accepts(cmd) <=> card.state = "data"
          /\ \A up : After(cmd, up) = "busy"
          /\ \A up : Answers(cmd, up) = {"r1"}
      BY <3>1, <1>2 DEF Accepts, After, Answers, IsRead
    <3>3. \A up : Execute(up) =>
            card' = [card EXCEPT !.state = "busy", !.single = FALSE, !.bad = card.bad, !.next = card.next]
      BY <3>1, <3>2, <1>2 DEF Execute
    <3>4. PICK up \in {MayPowerUp, FALSE} : \E a \in Answers(cmd, up) :
          /\ Execute(up)
          /\ reg' = [reg EXCEPT !.enable = FALSE, !.rsp = IF RespType(cmd) = "none" THEN @ ELSE a,
                                !.fsm = IF IsRead(cmd) THEN "readwait"
                                        ELSE IF cmd = "CMD12" THEN "data" ELSE @]
      BY DEF CmdDone
    <3>5. /\ Executing /\ Accepts(cmd)
          /\ UNCHANGED <<stage, pc, cmd, ret, response, left, result, got, req, host, note>>
      BY DEF CmdDone, driver, caller
    <3>7. PICK a \in Answers(cmd, up) :
          reg' = [reg EXCEPT !.enable = FALSE, !.rsp = IF RespType(cmd) = "none" THEN @ ELSE a,
                             !.fsm = IF IsRead(cmd) THEN "readwait"
                                     ELSE IF cmd = "CMD12" THEN "data" ELSE @]
      BY <3>4
    <3>8. a = "r1" BY <3>2, <3>7
    <3>6. reg' = [reg EXCEPT !.enable = FALSE, !.rsp = "r1", !.fsm = "data"]
      BY <3>1, <3>7, <3>8, <1>2
    <3> QED BY <3>2, <3>3, <3>4, <3>5, <3>6 DEF Executing
  <2>2. /\ DOMAIN reg' = DOMAIN reg /\ reg'.enable = FALSE /\ reg'.fail = reg.fail
        /\ reg'.hung = reg.hung /\ reg'.hsts = reg.hsts /\ reg'.fsm = "data"
        /\ reg'.fifo = reg.fifo /\ reg'.rsp = "r1"
    BY <2>1 DEF SdInv, SdType, RegType
  <2>3. /\ DOMAIN card' = DOMAIN card /\ card'.hc = card.hc /\ card'.state = "busy"
        /\ card'.single = FALSE /\ card'.next = card.next /\ card'.bad = card.bad
    BY <2>1 DEF SdInv, SdType, CardType
  <2>4. SdType'
    BY <2>1, <2>2, <2>3, <1>2 DEF SdInv, SdType, ControlType, HostType, RegType, CardType,
      NoteType
  <2>5. SdCommand' /\ SdCapacity' /\ SdQuiet'
    BY <2>1, <2>2, <2>3, <1>2 DEF SdInv, SdType, ControlType, HostType, RegType, CardType,
      NoteType, SdCommand, SdCapacity, SdQuiet, SdStream, Errs, Resting, Executing, Reading
  <2>6. SdStream' /\ SdTook' /\ SdBlocks'
    BY <2>1, <2>2, <2>3, <1>2 DEF SdInv, SdType, ControlType, HostType, RegType, CardType,
      NoteType, SdCommand, SdQuiet, SdStream, SdBlocks, Resting, Reading, SdTook, Took, Errs, Expects, Executing
  <2>7. SdDone'
    BY <2>1, <2>2, <2>3, <1>2 DEF SdInv, SdType, ControlType, HostType, RegType, CardType,
      NoteType, SdCommand, SdQuiet, SdStream, SdTook, SdBlocks, SdDone, Resting, Reading, Took, Expects, Errs, Good, Executing
  <2> QED BY <2>4, <2>5, <2>6, <2>7 DEF SdInv, SdType
<1>3. ASSUME cmd \in HostCommands PROVE SdInv'
  <2>1. PICK s1, r1 :
        /\ reg.enable /\ ~reg.hung /\ s1 \in {"idle", "ready", "ident", "stby", "tran"}
        /\ r1 \in Responses /\ (r1 = "ready_hc" => card.hc \/ reg.rsp = "ready_hc")
        /\ (r1 = "ready" => ~card.hc \/ reg.rsp = "ready")
        /\ reg' = [reg EXCEPT !.enable = FALSE, !.rsp = r1, !.fsm = reg.fsm]
        /\ card' = [card EXCEPT !.state = s1, !.single = FALSE, !.bad = card.bad, !.next = card.next]
        /\ UNCHANGED <<stage, pc, cmd, ret, response, left, result, got, req, host, note>>
    <3>0. PICK up \in {MayPowerUp, FALSE} : \E a \in Answers(cmd, up) :
            /\ Execute(up)
            /\ reg' = [reg EXCEPT !.enable = FALSE, !.rsp = IF RespType(cmd) = "none" THEN @ ELSE a,
                                  !.fsm = IF IsRead(cmd) THEN "readwait"
                                          ELSE IF cmd = "CMD12" THEN "data" ELSE @]
      BY DEF CmdDone
    <3>1. PICK a \in Answers(cmd, up) :
            /\ Execute(up)
            /\ reg' = [reg EXCEPT !.enable = FALSE, !.rsp = IF RespType(cmd) = "none" THEN @ ELSE a,
                                  !.fsm = IF IsRead(cmd) THEN "readwait"
                                          ELSE IF cmd = "CMD12" THEN "data" ELSE @]
      BY <3>0
    <3>2. /\ Executing /\ Accepts(cmd) /\ UNCHANGED <<stage, pc, cmd, ret, response, left, result, got, req, host, note>>
      BY DEF CmdDone, driver, caller
    <3>3. ~IsRead(cmd) /\ cmd # "CMD12" /\ cmd # "CMD17" BY <1>3 DEF IsRead
    <3>4. After(cmd, up) \in {"idle", "ready", "ident", "stby", "tran"} BY <1>3, <3>2,
      <3>3 DEF After, Accepts
    <3>5. a \in Responses /\ (a = "ready_hc" => card.hc) /\ (a = "ready" => ~card.hc) BY <1>3 DEF Answers
    <3>6. card' = [card EXCEPT !.state = After(cmd, up), !.single = FALSE, !.bad = card.bad, !.next = card.next]
      BY <3>1, <3>3 DEF Execute
    <3>7. reg.rsp \in Responses BY DEF SdInv, SdType, RegType
    <3>8. CASE RespType(cmd) = "none" BY <3>1, <3>2, <3>3, <3>4, <3>6, <3>7, <3>8 DEF Executing
    <3>9. CASE RespType(cmd) # "none" BY <3>1, <3>2, <3>3, <3>4, <3>5, <3>6, <3>9 DEF Executing
    <3> QED BY <3>8, <3>9
  <2>2. /\ DOMAIN reg' = DOMAIN reg /\ reg'.enable = FALSE /\ reg'.fail = reg.fail
        /\ reg'.hung = reg.hung /\ reg'.hsts = reg.hsts /\ reg'.fsm = reg.fsm
        /\ reg'.fifo = reg.fifo /\ reg'.rsp = r1
    BY <2>1 DEF SdInv, SdType, RegType
  <2>3. /\ DOMAIN card' = DOMAIN card /\ card'.hc = card.hc /\ card'.state = s1
        /\ card'.single = FALSE /\ card'.next = card.next /\ card'.bad = card.bad
    BY <2>1 DEF SdInv, SdType, CardType
  <2>4. SdType'
    BY <2>1, <2>2, <2>3, <1>3 DEF SdInv, SdType, ControlType, HostType, RegType, CardType,
      NoteType
  <2>5. SdCommand'
    BY <2>1, <2>2, <2>3, <1>3 DEF SdInv, SdType, ControlType, HostType, RegType, CardType,
      NoteType, SdCommand
  <2>6. SdCapacity'
    BY <2>1, <2>2, <2>3, <1>3 DEF SdInv, SdType, ControlType, HostType, RegType, CardType,
      NoteType, SdCommand, SdCapacity
  <2>7. SdQuiet'
    BY <2>1, <2>2, <2>3, <1>3 DEF SdInv, SdType, ControlType, HostType, RegType, CardType,
      NoteType, SdCommand, SdQuiet, SdStream, Errs, Resting, Executing, Reading
  <2>8. SdStream' /\ SdTook' /\ SdBlocks'
    BY <2>1, <2>2, <2>3, <1>3 DEF SdInv, SdType, ControlType, HostType, RegType, CardType,
      NoteType, SdCommand, SdQuiet, SdStream, SdBlocks, Resting, Reading, SdTook, Took, Errs, Expects, Executing
  <2>9. SdDone'
    BY <2>1, <2>2, <2>3, <1>3 DEF SdInv, SdType, ControlType, HostType, RegType, CardType,
      NoteType, SdCommand, SdQuiet, SdStream, SdTook, SdBlocks, SdDone, Resting, Reading, Took, Expects, Errs, Good, Executing
  <2> QED BY <2>4, <2>5, <2>6, <2>7, <2>8, <2>9 DEF SdInv, SdType
<1> QED BY <1>1, <1>2, <1>3 DEF SdInv, SdType, ControlType, HostType, RegType, CardType,
  NoteType, SdCommand, SdQuiet, CmdDone, Executing, Accepts, Answers, Execute, After, MayPowerUp, RespType, IsRead, Addressed, BlockBytes, driver, caller, bus

LEMMA SCmdNoAnswer ==
    ASSUME SdInv, CmdNoAnswer PROVE SdInv'
<1> USE HostConstants DEF HostCommands, HostStages, KnownStages, Responses, ReadFsm, AtWork,
  Errors
<1>1. ASSUME RespType(cmd) = "none" PROVE SdInv'
  <2>1. /\ reg.enable /\ ~reg.hung /\ reg' = [reg EXCEPT !.enable = FALSE]
        /\ UNCHANGED <<stage, pc, cmd, ret, response, left, result, got, req, host, card, note>>
    BY <1>1 DEF SdInv, SdCommand, SdQuiet, SdType, ControlType, HostType, RegType, CardType,
      NoteType, Executing, CmdNoAnswer, Fault, RespType, driver, caller, bus, IsRead
  <2>2. /\ DOMAIN reg' = DOMAIN reg /\ reg'.enable = FALSE /\ reg'.fail = reg.fail
        /\ reg'.hung = reg.hung /\ reg'.hsts = reg.hsts /\ reg'.fsm = reg.fsm
        /\ reg'.fifo = reg.fifo /\ reg'.rsp = reg.rsp
    BY <2>1 DEF SdInv, SdType, RegType
  <2>3. SdType'
    BY <2>1, <2>2, <1>1 DEF SdInv, SdType, ControlType, HostType, RegType, CardType, NoteType
  <2>4. SdCommand' /\ SdCapacity' /\ SdQuiet'
    BY <2>1, <2>2, <1>1 DEF SdInv, SdType, ControlType, HostType, RegType, CardType, NoteType,
      SdCommand, SdCapacity, SdQuiet, SdStream, Errs, Resting, Executing, Reading
  <2>5. SdStream' /\ SdTook' /\ SdBlocks'
    BY <2>1, <2>2, <1>1 DEF SdInv, SdType, ControlType, HostType, RegType, CardType, NoteType,
      SdCommand, SdQuiet, SdStream, SdBlocks, Resting, Reading, SdTook, Took, Errs, Expects, Executing
  <2>6. SdDone'
    BY <2>1, <2>2, <1>1 DEF SdInv, SdType, ControlType, HostType, RegType, CardType, NoteType,
      SdCommand, SdQuiet, SdStream, SdTook, SdBlocks, SdDone, Resting, Reading, Took, Expects, Errs, Good, Executing
  <2> QED BY <2>3, <2>4, <2>5, <2>6 DEF SdInv, SdType
<1>2. ASSUME RespType(cmd) # "none" PROVE SdInv'
  <2>1. /\ reg.enable /\ ~reg.hung
        /\ reg' = [reg EXCEPT !.enable = FALSE, !.fail = TRUE, !.hsts = reg.hsts \cup {"cmdto"}]
        /\ UNCHANGED <<stage, pc, cmd, ret, response, left, result, got, req, host, card, note>>
    BY <1>2 DEF SdInv, SdCommand, SdQuiet, SdType, ControlType, HostType, RegType, CardType,
      NoteType, Executing, CmdNoAnswer, Fault, RespType, driver, caller, bus, IsRead
  <2>2. /\ DOMAIN reg' = DOMAIN reg /\ reg'.enable = FALSE /\ reg'.fail = TRUE
        /\ reg'.hung = reg.hung /\ reg'.hsts = (reg.hsts \cup {"cmdto"}) /\ reg'.fsm = reg.fsm
        /\ reg'.fifo = reg.fifo /\ reg'.rsp = reg.rsp
    BY <2>1 DEF SdInv, SdType, RegType
  <2>3. /\ reg'.hsts \cap {"crc16", "rewto"} = reg.hsts \cap {"crc16", "rewto"} /\ reg'.hsts \cap Errors # {}
        /\ pc \in {"finish", "loop"}
    BY <2>1, <2>2 DEF SdInv, SdQuiet, Executing
  <2>4. SdType'
    BY <2>1, <2>2, <1>2 DEF SdInv, SdType, ControlType, HostType, RegType, CardType, NoteType
  <2>5. SdCommand' /\ SdCapacity' /\ SdQuiet'
    BY <2>1, <2>2, <2>3, <1>2 DEF SdInv, SdType, ControlType, HostType, RegType, CardType,
      NoteType, SdCommand, SdCapacity, SdQuiet, SdStream, Errs, Resting, Executing, Reading
  <2>6. SdStream' /\ SdTook' /\ SdBlocks'
    BY <2>1, <2>2, <2>3, <1>2 DEF SdInv, SdType, ControlType, HostType, RegType, CardType,
      NoteType, SdCommand, SdQuiet, SdStream, SdBlocks, Resting, Reading, SdTook, Took, Errs, Expects, Executing
  <2>7. SdDone'
    BY <2>1, <2>2, <2>3, <1>2 DEF SdInv, SdType, ControlType, HostType, RegType, CardType,
      NoteType, SdCommand, SdQuiet, SdStream, SdTook, SdBlocks, SdDone, Resting, Reading, Took, Expects, Errs, Good, Executing
  <2> QED BY <2>4, <2>5, <2>6, <2>7 DEF SdInv, SdType
<1> QED BY <1>1, <1>2 DEF SdInv, SdType, ControlType, HostType, RegType, CardType, NoteType,
  SdCommand, SdQuiet, CmdNoAnswer, Executing, Fault, RespType, driver, caller, bus, IsRead

LEMMA SCmdDamaged ==
    ASSUME SdInv, CmdDamaged PROVE SdInv'
<1> USE HostConstants DEF HostCommands, HostStages, KnownStages, Responses, ReadFsm, AtWork,
  Errors
<1>1. ASSUME IsRead(cmd) PROVE SdInv'
  <2>1. /\ reg.enable /\ ~reg.hung /\ card.state = "tran"
        /\ reg' = [reg EXCEPT !.enable = FALSE, !.fail = TRUE, !.hsts = reg.hsts \cup {"crc7"}, !.fsm = "readwait"]
        /\ card' = [card EXCEPT !.state = "data", !.single = cmd = "CMD17", !.bad = {}, !.next = <<req.start, 0>>]
        /\ UNCHANGED <<stage, pc, cmd, ret, response, left, result, got, req, host, note>>
    <3>1. stage = "read" BY <1>1 DEF SdInv, SdCommand, SdType, ControlType, IsRead,
      CmdDamaged, Executing, SdQuiet
    <3>2. Addressed = req.start BY <3>1 DEF Addressed, SdInv, SdCapacity
    <3>3. RespType(cmd) = "present" /\ cmd \in {"CMD17", "CMD18"} BY <1>1 DEF RespType, IsRead
    <3>4. /\ Accepts(cmd) <=> card.state = "tran"
          /\ \A up : After(cmd, up) = "data"
          /\ \A up : Answers(cmd, up) = {"r1"}
      BY <3>3, <1>1 DEF Accepts, After, Answers, IsRead
    <3>5. \A up : Execute(up) => card' = [card EXCEPT !.state = "data", !.single = (cmd = "CMD17"), !.bad = {}, !.next = <<req.start, 0>>]
      BY <3>2, <3>4, <1>1 DEF Execute
    <3> QED BY <3>3, <3>4, <3>5, <1>1 DEF CmdDamaged, Executing, driver, caller
  <2>2. /\ DOMAIN reg' = DOMAIN reg /\ reg'.enable = FALSE /\ reg'.fail = TRUE
        /\ reg'.hung = reg.hung /\ reg'.hsts = (reg.hsts \cup {"crc7"}) /\ reg'.fsm = "readwait"
        /\ reg'.fifo = reg.fifo /\ reg'.rsp = reg.rsp
    BY <2>1 DEF SdInv, SdType, RegType
  <2>3. /\ DOMAIN card' = DOMAIN card /\ card'.hc = card.hc /\ card'.state = "data"
        /\ card'.single = (cmd = "CMD17") /\ card'.next = <<req.start, 0>> /\ card'.bad = {}
    BY <2>1 DEF SdInv, SdType, CardType
  <2>4. stage = "read" /\ pc = "finish" /\ ~host.use_busy /\ host.data # None /\ reg.fifo = <<>> /\ got = <<>> /\ reg.hsts \cap Errors = {} /\ host.blocks = req.n
    BY <2>1, <1>1 DEF SdInv, SdCommand, SdQuiet, SdBlocks, SdType, ControlType, RegType,
      IsRead, Executing, Reading, Errs
  <2>5. /\ req.start \in Nat /\ req.n \in Nat \ {0} /\ (cmd = "CMD17" <=> req.n = 1)
        /\ StreamAt(got, reg.fifo, req.start) /\ LinkAt(<<req.start, 0>>, req.start, req.n, "readwait", 0)
    BY <2>1, <2>2, <2>3, <2>4, FirstLink DEF SdInv, SdType, ControlType, SdCommand, SdStream,
      Reading
  <2>6. Len(got) + Len(reg.fifo) = 0
    BY <2>1, <2>2, <2>3, <2>4, <2>5
  <2>7. Errs'
    BY <2>2 DEF Errs
  <2>8. SdType'
    BY <2>1, <2>2, <2>3, <1>1 DEF SdInv, SdType, ControlType, HostType, RegType, CardType,
      NoteType
  <2>9. SdCommand' /\ SdCapacity' /\ SdQuiet'
    BY <2>1, <2>2, <2>3, <2>4, <2>5, <2>6, <2>7, <1>1 DEF SdInv, SdType, ControlType,
      HostType, RegType, CardType, NoteType, SdCommand, SdCapacity, SdQuiet, SdStream, Errs, Resting, Executing, Reading
  <2>10. SdStream'
    BY <2>1, <2>2, <2>3, <2>4, <2>5, <2>6, <2>7 DEF SdInv, SdStream, Resting, Reading
  <2>11. SdTook'
    BY <2>1, <2>2, <2>3, <2>4, <2>5, <2>6, <2>7, <1>1 DEF SdInv, SdType, ControlType,
      HostType, RegType, CardType, NoteType, SdCommand, SdQuiet, SdStream, SdTook, SdBlocks, Resting, Reading, Took, Errs, Expects
  <2>12. SdBlocks'
    BY <2>1, <2>2, <2>3, <2>4, <2>5, <2>6, <2>7, <1>1 DEF SdInv, SdType, ControlType,
      HostType, RegType, CardType, NoteType, SdCommand, SdQuiet, SdStream, SdTook, SdBlocks, Resting, Reading, Took, Errs, Executing
  <2>13. SdDone'
    BY <2>1, <2>2, <2>3, <2>4, <2>5, <2>6, <2>7, <1>1 DEF SdInv, SdType, ControlType,
      HostType, RegType, CardType, NoteType, SdCommand, SdQuiet, SdStream, SdTook, SdBlocks, SdDone, Resting, Reading, Took, Expects, Errs, Good, Executing
  <2> QED BY <2>8, <2>9, <2>10, <2>11, <2>12, <2>13 DEF SdInv, SdType
<1>2. ASSUME cmd = "CMD12" PROVE SdInv'
  <2>1. /\ reg.enable /\ ~reg.hung /\ card.state = "data"
        /\ reg' = [reg EXCEPT !.enable = FALSE, !.fail = TRUE, !.hsts = reg.hsts \cup {"crc7"}, !.fsm = reg.fsm]
        /\ card' = [card EXCEPT !.state = "busy", !.single = FALSE, !.bad = card.bad, !.next = card.next]
        /\ UNCHANGED <<stage, pc, cmd, ret, response, left, result, got, req, host, note>>
    BY <1>2 DEF SdInv, SdCommand, SdQuiet, SdType, ControlType, HostType, RegType, CardType,
      NoteType, Executing, CmdDamaged, Accepts, Execute, After, MayPowerUp, RespType, IsRead, Addressed, BlockBytes, driver, Fault, caller, bus
  <2>2. /\ DOMAIN reg' = DOMAIN reg /\ reg'.enable = FALSE /\ reg'.fail = TRUE
        /\ reg'.hung = reg.hung /\ reg'.hsts = (reg.hsts \cup {"crc7"}) /\ reg'.fsm = reg.fsm
        /\ reg'.fifo = reg.fifo /\ reg'.rsp = reg.rsp
    BY <2>1 DEF SdInv, SdType, RegType
  <2>3. /\ DOMAIN card' = DOMAIN card /\ card'.hc = card.hc /\ card'.state = "busy"
        /\ card'.single = FALSE /\ card'.next = card.next /\ card'.bad = card.bad
    BY <2>1 DEF SdInv, SdType, CardType
  <2>4. SdType'
    BY <2>1, <2>2, <2>3, <1>2 DEF SdInv, SdType, ControlType, HostType, RegType, CardType,
      NoteType
  <2>5. SdCommand' /\ SdCapacity' /\ SdQuiet'
    BY <2>1, <2>2, <2>3, <1>2 DEF SdInv, SdType, ControlType, HostType, RegType, CardType,
      NoteType, SdCommand, SdCapacity, SdQuiet, SdStream, Errs, Resting, Executing, Reading
  <2>6. SdStream' /\ SdTook' /\ SdBlocks'
    BY <2>1, <2>2, <2>3, <1>2 DEF SdInv, SdType, ControlType, HostType, RegType, CardType,
      NoteType, SdCommand, SdQuiet, SdStream, SdBlocks, Resting, Reading, SdTook, Took, Errs, Expects, Executing
  <2>7. SdDone'
    BY <2>1, <2>2, <2>3, <1>2 DEF SdInv, SdType, ControlType, HostType, RegType, CardType,
      NoteType, SdCommand, SdQuiet, SdStream, SdTook, SdBlocks, SdDone, Resting, Reading, Took, Expects, Errs, Good, Executing
  <2> QED BY <2>4, <2>5, <2>6, <2>7 DEF SdInv, SdType
<1>3. ASSUME cmd \in HostCommands PROVE SdInv'
  <2>1. PICK s1 :
        /\ reg.enable /\ ~reg.hung /\ s1 \in {"idle", "ready", "ident", "stby", "tran"}
        /\ reg' = [reg EXCEPT !.enable = FALSE, !.fail = TRUE, !.hsts = reg.hsts \cup {"crc7"}, !.fsm = reg.fsm]
        /\ card' = [card EXCEPT !.state = s1, !.single = FALSE, !.bad = card.bad, !.next = card.next]
        /\ UNCHANGED <<stage, pc, cmd, ret, response, left, result, got, req, host, note>>
    BY <1>3 DEF SdInv, SdCommand, SdQuiet, SdType, ControlType, HostType, RegType, CardType,
      NoteType, Executing, CmdDamaged, Accepts, Execute, After, MayPowerUp, RespType, IsRead, Addressed, BlockBytes, driver, Fault, caller, bus
  <2>2. /\ DOMAIN reg' = DOMAIN reg /\ reg'.enable = FALSE /\ reg'.fail = TRUE
        /\ reg'.hung = reg.hung /\ reg'.hsts = (reg.hsts \cup {"crc7"}) /\ reg'.fsm = reg.fsm
        /\ reg'.fifo = reg.fifo /\ reg'.rsp = reg.rsp
    BY <2>1 DEF SdInv, SdType, RegType
  <2>3. /\ DOMAIN card' = DOMAIN card /\ card'.hc = card.hc /\ card'.state = s1
        /\ card'.single = FALSE /\ card'.next = card.next /\ card'.bad = card.bad
    BY <2>1 DEF SdInv, SdType, CardType
  <2>4. SdType'
    BY <2>1, <2>2, <2>3, <1>3 DEF SdInv, SdType, ControlType, HostType, RegType, CardType,
      NoteType
  <2>5. SdCommand' /\ SdCapacity' /\ SdQuiet'
    BY <2>1, <2>2, <2>3, <1>3 DEF SdInv, SdType, ControlType, HostType, RegType, CardType,
      NoteType, SdCommand, SdCapacity, SdQuiet, SdStream, Errs, Resting, Executing, Reading
  <2>6. SdStream' /\ SdTook' /\ SdBlocks'
    BY <2>1, <2>2, <2>3, <1>3 DEF SdInv, SdType, ControlType, HostType, RegType, CardType,
      NoteType, SdCommand, SdQuiet, SdStream, SdBlocks, Resting, Reading, SdTook, Took, Errs, Expects, Executing
  <2>7. SdDone'
    BY <2>1, <2>2, <2>3, <1>3 DEF SdInv, SdType, ControlType, HostType, RegType, CardType,
      NoteType, SdCommand, SdQuiet, SdStream, SdTook, SdBlocks, SdDone, Resting, Reading, Took, Expects, Errs, Good, Executing
  <2> QED BY <2>4, <2>5, <2>6, <2>7 DEF SdInv, SdType
<1> QED BY <1>1, <1>2, <1>3 DEF SdInv, SdType, ControlType, HostType, RegType, CardType,
  NoteType, SdCommand, SdQuiet, CmdDamaged, Executing, Accepts, Execute, After, MayPowerUp, RespType, IsRead, Addressed, BlockBytes, driver, Fault, caller, bus

LEMMA SCmdFailed ==
    ASSUME SdInv, CmdFailed PROVE SdInv'
<1> USE HostConstants DEF HostCommands, HostStages, KnownStages, Responses, ReadFsm, AtWork,
  Errors
<1>1. ASSUME reg' = [reg EXCEPT !.enable = FALSE, !.fail = TRUE] PROVE SdInv'
  <2>1. /\ reg.enable /\ ~reg.hung /\ reg' = [reg EXCEPT !.enable = FALSE, !.fail = TRUE]
        /\ note' = [note EXCEPT !.silent = TRUE]
        /\ UNCHANGED <<stage, pc, cmd, ret, response, left, result, got, req, host, card>>
    BY <1>1 DEF SdInv, SdCommand, SdQuiet, SdType, ControlType, HostType, RegType, CardType,
      NoteType, Executing, CmdFailed, Fault, caller, bus, IsRead, RespType
  <2>2. /\ DOMAIN reg' = DOMAIN reg /\ reg'.enable = FALSE /\ reg'.fail = TRUE
        /\ reg'.hung = reg.hung /\ reg'.hsts = reg.hsts /\ reg'.fsm = reg.fsm
        /\ reg'.fifo = reg.fifo /\ reg'.rsp = reg.rsp
    BY <2>1 DEF SdInv, SdType, RegType
  <2>3. /\ DOMAIN note' = DOMAIN note /\ note'.late = note.late /\ note'.wiped = note.wiped
        /\ note'.stale = note.stale
    BY <2>1 DEF SdInv, SdType, NoteType
  <2>4. SdType'
    BY <2>1, <2>2, <2>3, <1>1 DEF SdInv, SdType, ControlType, HostType, RegType, CardType,
      NoteType
  <2>5. SdCommand' /\ SdCapacity' /\ SdQuiet'
    BY <2>1, <2>2, <2>3, <1>1 DEF SdInv, SdType, ControlType, HostType, RegType, CardType,
      NoteType, SdCommand, SdCapacity, SdQuiet, SdStream, Errs, Resting, Executing, Reading
  <2>6. SdStream' /\ SdTook' /\ SdBlocks'
    BY <2>1, <2>2, <2>3, <1>1 DEF SdInv, SdType, ControlType, HostType, RegType, CardType,
      NoteType, SdCommand, SdQuiet, SdStream, SdBlocks, Resting, Reading, SdTook, Took, Errs, Expects, Executing
  <2>7. SdDone'
    BY <2>1, <2>2, <2>3, <1>1 DEF SdInv, SdType, ControlType, HostType, RegType, CardType,
      NoteType, SdCommand, SdQuiet, SdStream, SdTook, SdBlocks, SdDone, Resting, Reading, Took, Expects, Errs, Good, Executing
  <2> QED BY <2>4, <2>5, <2>6, <2>7 DEF SdInv, SdType
<1>2. ASSUME reg' = [reg EXCEPT !.hung = TRUE] PROVE SdInv'
  <2>1. /\ reg.enable /\ ~reg.hung /\ reg' = [reg EXCEPT !.hung = TRUE]
        /\ note' = [note EXCEPT !.silent = TRUE]
        /\ UNCHANGED <<stage, pc, cmd, ret, response, left, result, got, req, host, card>>
    BY <1>2 DEF SdInv, SdCommand, SdQuiet, SdType, ControlType, HostType, RegType, CardType,
      NoteType, Executing, CmdFailed, Fault, caller, bus, IsRead, RespType
  <2>2. /\ DOMAIN reg' = DOMAIN reg /\ reg'.enable = reg.enable /\ reg'.fail = reg.fail
        /\ reg'.hung = TRUE /\ reg'.hsts = reg.hsts /\ reg'.fsm = reg.fsm
        /\ reg'.fifo = reg.fifo /\ reg'.rsp = reg.rsp
    BY <2>1 DEF SdInv, SdType, RegType
  <2>3. /\ DOMAIN note' = DOMAIN note /\ note'.late = note.late /\ note'.wiped = note.wiped
        /\ note'.stale = note.stale
    BY <2>1 DEF SdInv, SdType, NoteType
  <2>4. ControlType'
    BY <2>1, <2>2, <2>3, <1>2 DEF SdInv, SdType, ControlType, HostType, RegType, CardType,
      NoteType
  <2>5. HostType'
    BY <2>1, <2>2, <2>3, <1>2 DEF SdInv, SdType, ControlType, HostType, RegType, CardType,
      NoteType
  <2>6. RegType'
    BY <2>1, <2>2, <2>3, <1>2 DEF SdInv, SdType, ControlType, HostType, RegType, CardType,
      NoteType
  <2>7. CardType'
    BY <2>1, <2>2, <2>3, <1>2 DEF SdInv, SdType, ControlType, HostType, RegType, CardType,
      NoteType
  <2>8. NoteType'
    BY <2>1, <2>2, <2>3, <1>2 DEF SdInv, SdType, ControlType, HostType, RegType, CardType,
      NoteType
  <2>9. SdCommand' /\ SdCapacity' /\ SdQuiet'
    BY <2>1, <2>2, <2>3, <1>2 DEF SdInv, SdType, ControlType, HostType, RegType, CardType,
      NoteType, SdCommand, SdCapacity, SdQuiet, SdStream, Errs, Resting, Executing, Reading
  <2>10. SdStream' /\ SdTook' /\ SdBlocks'
    BY <2>1, <2>2, <2>3, <1>2 DEF SdInv, SdType, ControlType, HostType, RegType, CardType,
      NoteType, SdCommand, SdQuiet, SdStream, SdBlocks, Resting, Reading, SdTook, Took, Errs, Expects, Executing
  <2>11. SdDone'
    BY <2>1, <2>2, <2>3, <1>2 DEF SdInv, SdType, ControlType, HostType, RegType, CardType,
      NoteType, SdCommand, SdQuiet, SdStream, SdTook, SdBlocks, SdDone, Resting, Reading, Took, Expects, Errs, Good, Executing
  <2> QED BY <2>4, <2>5, <2>6, <2>7, <2>8, <2>9, <2>10, <2>11 DEF SdInv, SdType
<1> QED BY <1>1, <1>2 DEF SdInv, SdType, ControlType, HostType, RegType, CardType, NoteType,
  SdCommand, SdQuiet, CmdFailed, Executing, Fault, caller, bus, IsRead, RespType

LEMMA SDataWord ==
    ASSUME SdInv, DataWord PROVE SdInv'
<1> USE HostConstants DEF HostCommands, HostStages, KnownStages, Responses, ReadFsm, AtWork,
  Errors
<1>1. SdInv'
  <2>1. /\ card.state = "data" /\ reg.fsm \in {"readwait", "readdata"}
        /\ reg' = [reg EXCEPT !.fifo = Append(reg.fifo, <<card.next[1], card.next[2] + 1>>), !.fsm = IF card.next[2] + 1 = BlockWords THEN "readcrc" ELSE "readdata"]
        /\ card' = [card EXCEPT !.next[2] = card.next[2] + 1]
        /\ UNCHANGED <<stage, pc, cmd, ret, response, left, result, got, req, host, note>>
    BY DEF SdInv, SdCommand, SdQuiet, SdType, ControlType, HostType, RegType, CardType,
      NoteType, Executing, DataWord, driver, caller, bus, IsRead, RespType
  <2>2. /\ DOMAIN reg' = DOMAIN reg /\ reg'.enable = reg.enable /\ reg'.fail = reg.fail
        /\ reg'.hung = reg.hung /\ reg'.hsts = reg.hsts
        /\ reg'.fsm = (IF card.next[2] + 1 = BlockWords THEN "readcrc" ELSE "readdata")
        /\ reg'.fifo = (Append(reg.fifo, <<card.next[1], card.next[2] + 1>>))
        /\ reg'.rsp = reg.rsp
    BY <2>1 DEF SdInv, SdType, RegType
  <2>3. /\ DOMAIN card' = DOMAIN card /\ card'.hc = card.hc /\ card'.state = card.state
        /\ card'.single = card.single /\ card'.next = <<card.next[1], card.next[2] + 1>>
        /\ card'.bad = card.bad
    BY <2>1 DEF SdInv, SdType, CardType
  <2>4. /\ card.next \in Nat \X Nat /\ req.start \in Nat /\ got \in Seq(Nat \X Nat) /\ reg.fifo \in Seq(Nat \X Nat)
        /\ Len(got) \in Nat /\ Len(reg.fifo) \in Nat /\ reg.fsm # "readcrc"
    BY <2>1 DEF SdInv, SdType, ControlType, RegType, CardType
  <2>5. card'.next = <<card.next[1], card.next[2] + 1>> /\ card'.next \in Nat \X Nat
    BY <2>1, <2>2, <2>3, <2>4
  <2>6. Reading => /\ StreamAt(got', reg'.fifo, req.start)
                    /\ LinkAt(card'.next, req.start, req.n, reg'.fsm, Len(got) + Len(reg'.fifo))
    <3>1. SUFFICES ASSUME Reading PROVE /\ StreamAt(got', reg'.fifo, req.start)
                                       /\ LinkAt(card'.next, req.start, req.n, reg'.fsm, Len(got) + Len(reg'.fifo))
      OBVIOUS
    <3>2. StreamAt(got, reg.fifo, req.start) /\ LinkAt(card.next, req.start, req.n, reg.fsm, Len(got) + Len(reg.fifo))
      BY <2>1, <3>1 DEF SdInv, SdStream, Resting
    <3>3. /\ <<card.next[1], card.next[2] + 1>> = WordAt(req.start, Len(got) + Len(reg.fifo) + 1)
          /\ LinkAt(card'.next, req.start, req.n, reg'.fsm, Len(got) + Len(reg.fifo) + 1)
      
      <4> DEFINE k == Len(got) + Len(reg.fifo)
      <4>1. k \in Nat BY <2>4
      <4> HIDE DEF k
      <4>2. LinkAt(card.next, req.start, req.n, reg.fsm, k) BY <3>2 DEF k
      <4>3. /\ <<card.next[1], card.next[2] + 1>> = WordAt(req.start, k + 1)
            /\ LinkAt(<<card.next[1], card.next[2] + 1>>, req.start, req.n,
                      IF card.next[2] + 1 = BlockWords THEN "readcrc" ELSE "readdata", k + 1)
        BY <2>4, <4>1, <4>2, WordLink, Zenon
      <4> QED BY <4>3, <2>2, <2>5 DEF k
    <3>4. StreamAt(got, reg'.fifo, req.start) /\ Len(reg'.fifo) = Len(reg.fifo) + 1
      
      <4>1. <<card.next[1], card.next[2] + 1>> \in Nat \X Nat BY <2>4
      <4>2. reg'.fifo = Append(reg.fifo, <<card.next[1], card.next[2] + 1>>) BY <2>2
      <4> DEFINE w == <<card.next[1], card.next[2] + 1>>
      <4> HIDE DEF w
      <4>5. w \in Nat \X Nat /\ w = WordAt(req.start, Len(got) + Len(reg.fifo) + 1) BY <3>3,
        <4>1 DEF w
      <4>3. StreamAt(got, Append(reg.fifo, w), req.start)
        BY <2>4, <3>2, <4>5, AppendStream, Zenon
      <4>4. Len(reg'.fifo) = Len(reg.fifo) + 1 BY <2>4, <4>1, <4>2
      <4> QED BY <4>2, <4>3, <4>4 DEF w
    <3>5. Len(got) + Len(reg'.fifo) = Len(got) + Len(reg.fifo) + 1 BY <2>1, <2>2, <2>3, <2>4,
      <2>5, <3>4
    <3> QED BY <2>1, <3>3, <3>4, <3>5
  <2>7. ControlType'
    BY <2>1, <2>2, <2>3 DEF SdInv, SdType, ControlType, HostType, RegType, CardType, NoteType
  <2>8. HostType'
    BY <2>1, <2>2, <2>3 DEF SdInv, SdType, ControlType, HostType, RegType, CardType, NoteType
  <2>9. RegType'
    <3>1. <<card.next[1], card.next[2] + 1>> \in Nat \X Nat BY <2>4
    <3> QED BY <2>2, <2>4, <3>1 DEF SdInv, SdType, RegType
  <2>10. CardType'
    BY <2>3, <2>5 DEF SdInv, SdType, CardType
  <2>11. NoteType'
    BY <2>1, <2>2, <2>3 DEF SdInv, SdType, ControlType, HostType, RegType, CardType, NoteType
  <2>12. SdCommand'
    BY <2>1, <2>2, <2>3, <2>4, <2>5, <2>6 DEF SdInv, SdType, ControlType, HostType, RegType,
      CardType, NoteType, SdCommand
  <2>13. SdCapacity'
    BY <2>1, <2>2, <2>3, <2>4, <2>5, <2>6 DEF SdInv, SdType, ControlType, HostType, RegType,
      CardType, NoteType, SdCommand, SdCapacity
  <2>14. SdQuiet'
    BY <2>1, <2>2 DEF SdInv, SdQuiet, Resting, Executing
  <2>15. SdStream'
    BY <2>1, <2>2, <2>3, <2>4, <2>5, <2>6 DEF SdInv, SdStream, SdQuiet, Resting, Reading
  <2>16. SdTook'
    BY <2>1, <2>2, <2>3, <2>4, <2>5, <2>6 DEF SdInv, SdType, ControlType, HostType, RegType,
      CardType, NoteType, SdCommand, SdQuiet, SdStream, SdTook, SdBlocks, Resting, Reading, Took, Errs, Expects
  <2>17. SdBlocks'
    BY <2>1, <2>2, <2>3, <2>4, <2>5, <2>6 DEF SdInv, SdType, ControlType, HostType, RegType,
      CardType, NoteType, SdCommand, SdQuiet, SdStream, SdTook, SdBlocks, Resting, Reading, Took, Errs, Executing
  <2>18. SdDone'
    BY <2>1, <2>2, <2>3, <2>4, <2>5, <2>6 DEF SdInv, SdType, ControlType, HostType, RegType,
      CardType, NoteType, SdCommand, SdQuiet, SdStream, SdTook, SdBlocks, SdDone, Resting, Reading, Took, Expects, Errs, Good, Executing
  <2> QED BY <2>7, <2>8, <2>9, <2>10, <2>11, <2>12, <2>13, <2>14, <2>15, <2>16, <2>17,
    <2>18 DEF SdInv, SdType
<1> QED BY <1>1

LEMMA SBlockEnd ==
    ASSUME SdInv, BlockEnd PROVE SdInv'
<1> USE HostConstants DEF HostCommands, HostStages, KnownStages, Responses, ReadFsm, AtWork,
  Errors
<1>1. ASSUME reg' = [reg EXCEPT !.fsm = IF card.single THEN "data" ELSE "readwait"] /\ card' = [card EXCEPT !.state = StateAfterData, !.next = <<@[1] + 1, 0>>] PROVE SdInv'
  <2>1. /\ reg.fsm = "readcrc"
        /\ reg' = [reg EXCEPT !.fsm = IF card.single THEN "data" ELSE "readwait"]
        /\ card' = [card EXCEPT !.state = IF card.single THEN "tran" ELSE "data", !.next = <<card.next[1] + 1, 0>>]
        /\ UNCHANGED <<stage, pc, cmd, ret, response, left, result, got, req, host, note>>
    BY <1>1 DEF BlockEnd, StateAfterData, driver, caller, bus, SdInv, SdType, CardType
  <2>2. /\ DOMAIN reg' = DOMAIN reg /\ reg'.enable = reg.enable /\ reg'.fail = reg.fail
        /\ reg'.hung = reg.hung /\ reg'.hsts = reg.hsts
        /\ reg'.fsm = (IF card.single THEN "data" ELSE "readwait") /\ reg'.fifo = reg.fifo
        /\ reg'.rsp = reg.rsp
    BY <2>1 DEF SdInv, SdType, RegType
  <2>3. /\ DOMAIN card' = DOMAIN card /\ card'.hc = card.hc
        /\ card'.state = (IF card.single THEN "tran" ELSE "data") /\ card'.single = card.single
        /\ card'.next = <<card.next[1] + 1, 0>> /\ card'.bad = card.bad
    BY <2>1 DEF SdInv, SdType, CardType
  <2>4. card.next \in Nat \X Nat /\ req.start \in Nat /\ Len(got) \in Nat /\ Len(reg.fifo) \in Nat /\ ~Resting /\ (Reading => card.single = (req.n = 1))
    BY <2>1 DEF SdInv, SdType, ControlType, RegType, CardType, Resting, SdTook, Took
  <2>5. Reading /\ ~card.single => LinkAt(card'.next, req.start, req.n, "readwait", Len(got) + Len(reg.fifo))
    <3>1. SUFFICES ASSUME Reading, ~card.single PROVE LinkAt(card'.next, req.start, req.n, "readwait", Len(got) + Len(reg.fifo)) OBVIOUS
    <3>2. LinkAt(card.next, req.start, req.n, "readcrc", Len(got) + Len(reg.fifo))
      BY <2>1, <2>2, <2>3, <2>4, <3>1 DEF SdInv, SdStream
    <3> QED 
      <4>0. req.n # 1 BY <2>4, <3>1, Zenon
      <4>1. req.n # 1 /\ Len(got) + Len(reg.fifo) \in Nat /\ card.next \in Nat \X Nat /\ req.start \in Nat BY <2>4, <4>0
      <4>2. LinkAt(<<card.next[1] + 1, 0>>, req.start, req.n, "readwait", Len(got) + Len(reg.fifo))
        BY <3>2, <4>1, NextLink
      <4> QED BY <4>2, <2>3
  <2>6. ControlType'
    BY <2>1, <2>2, <2>3, <1>1 DEF SdInv, SdType, ControlType, HostType, RegType, CardType,
      NoteType
  <2>7. HostType'
    BY <2>1, <2>2, <2>3, <1>1 DEF SdInv, SdType, ControlType, HostType, RegType, CardType,
      NoteType
  <2>8. RegType'
    BY <2>1, <2>2, <2>3, <1>1 DEF SdInv, SdType, ControlType, HostType, RegType, CardType,
      NoteType
  <2>9. CardType'
    <3>1. card.next[1] \in Nat /\ <<card.next[1] + 1, 0>> \in Nat \X Nat BY DEF SdInv, SdType,
      CardType
    <3> QED BY <2>3, <3>1 DEF SdInv, SdType, CardType
  <2>10. NoteType'
    BY <2>1, <2>2, <2>3, <1>1 DEF SdInv, SdType, ControlType, HostType, RegType, CardType,
      NoteType
  <2>11. SdCommand' /\ SdCapacity' /\ SdQuiet'
    BY <2>1, <2>2, <2>3, <2>4, <2>5, <1>1 DEF SdInv, SdType, ControlType, HostType, RegType,
      CardType, NoteType, SdCommand, SdCapacity, SdQuiet, SdStream, Errs, Resting, Executing, Reading
  <2>12. SdStream'
    BY <2>1, <2>2, <2>3, <2>4, <2>5 DEF SdInv, SdStream, SdQuiet, Resting, Reading
  <2>13. SdTook'
    BY <2>1, <2>2, <2>3, <2>4, <2>5, <1>1 DEF SdInv, SdType, ControlType, HostType, RegType,
      CardType, NoteType, SdCommand, SdQuiet, SdStream, SdTook, SdBlocks, Resting, Reading, Took, Errs, Expects
  <2>14. SdBlocks'
    BY <2>1, <2>2, <2>3, <2>4, <2>5, <1>1 DEF SdInv, SdType, ControlType, HostType, RegType,
      CardType, NoteType, SdCommand, SdQuiet, SdStream, SdTook, SdBlocks, Resting, Reading, Took, Errs, Executing
  <2>15. SdDone'
    BY <2>1, <2>2, <2>3, <2>4, <2>5, <1>1 DEF SdInv, SdType, ControlType, HostType, RegType,
      CardType, NoteType, SdCommand, SdQuiet, SdStream, SdTook, SdBlocks, SdDone, Resting, Reading, Took, Expects, Errs, Good, Executing
  <2> QED BY <2>6, <2>7, <2>8, <2>9, <2>10, <2>11, <2>12, <2>13, <2>14, <2>15 DEF SdInv, SdType
<1>2. ASSUME reg' = [reg EXCEPT !.fsm = "data", !.hsts = @ \cup {"crc16"}] /\ card' = [card EXCEPT !.state = StateAfterData, !.next = <<@[1] + 1, 0>>, !.bad = @ \cup {card.next[1]}] PROVE SdInv'
  <2>1. /\ reg.fsm = "readcrc"
        /\ reg' = [reg EXCEPT !.fsm = "data", !.hsts = reg.hsts \cup {"crc16"}]
        /\ card' = [card EXCEPT !.state = IF card.single THEN "tran" ELSE "data", !.next = <<card.next[1] + 1, 0>>, !.bad = card.bad \cup {card.next[1]}]
        /\ UNCHANGED <<stage, pc, cmd, ret, response, left, result, got, req, host, note>>
    BY <1>2 DEF BlockEnd, StateAfterData, driver, caller, bus, SdInv, SdType, CardType
  <2>2. /\ DOMAIN reg' = DOMAIN reg /\ reg'.enable = reg.enable /\ reg'.fail = reg.fail
        /\ reg'.hung = reg.hung /\ reg'.hsts = (reg.hsts \cup {"crc16"}) /\ reg'.fsm = "data"
        /\ reg'.fifo = reg.fifo /\ reg'.rsp = reg.rsp
    BY <2>1 DEF SdInv, SdType, RegType
  <2>3. /\ DOMAIN card' = DOMAIN card /\ card'.hc = card.hc
        /\ card'.state = (IF card.single THEN "tran" ELSE "data") /\ card'.single = card.single
        /\ card'.next = <<card.next[1] + 1, 0>> /\ card'.bad = (card.bad \cup {card.next[1]})
    BY <2>1 DEF SdInv, SdType, CardType
  <2>4. CardType'
    <3>1. card.next[1] \in Nat /\ <<card.next[1] + 1, 0>> \in Nat \X Nat BY DEF SdInv, SdType,
      CardType
    <3> QED BY <2>3, <3>1 DEF SdInv, SdType, CardType
  <2>5. ControlType' /\ HostType' /\ RegType' /\ NoteType'
    BY <2>1, <2>2, <2>3, <1>2 DEF SdInv, SdType, ControlType, HostType, RegType, CardType,
      NoteType
  <2>6. SdCommand' /\ SdCapacity' /\ SdQuiet'
    BY <2>1, <2>2, <2>3, <1>2 DEF SdInv, SdType, ControlType, HostType, RegType, CardType,
      NoteType, SdCommand, SdCapacity, SdQuiet, SdStream, Errs, Resting, Executing, Reading
  <2>7. SdStream' /\ SdTook' /\ SdBlocks'
    BY <2>1, <2>2, <2>3, <1>2 DEF SdInv, SdType, ControlType, HostType, RegType, CardType,
      NoteType, SdCommand, SdQuiet, SdStream, SdBlocks, Resting, Reading, SdTook, Took, Errs, Expects, Executing
  <2>8. SdDone'
    BY <2>1, <2>2, <2>3, <1>2 DEF SdInv, SdType, ControlType, HostType, RegType, CardType,
      NoteType, SdCommand, SdQuiet, SdStream, SdTook, SdBlocks, SdDone, Resting, Reading, Took, Expects, Errs, Good, Executing
  <2> QED BY <2>4, <2>5, <2>6, <2>7, <2>8 DEF SdInv, SdType
<1> QED BY <1>1, <1>2 DEF SdInv, SdType, ControlType, HostType, RegType, CardType, NoteType,
  SdCommand, SdQuiet, BlockEnd, StateAfterData, driver, Fault, caller, bus, IsRead, RespType

LEMMA SDataLost ==
    ASSUME SdInv, DataLost PROVE SdInv'
<1> USE HostConstants DEF HostCommands, HostStages, KnownStages, Responses, ReadFsm, AtWork,
  Errors
<1>1. ASSUME reg.fsm \in {"readwait", "readdata"} /\ reg' = [reg EXCEPT !.fsm = "data", !.hsts = @ \cup {"rewto"}] /\ card' = [card EXCEPT !.state = StateAfterData] PROVE SdInv'
  <2>1. /\ card.state = "data" /\ reg.fsm \in {"readwait", "readdata"}
        /\ reg' = [reg EXCEPT !.fsm = "data", !.hsts = reg.hsts \cup {"rewto"}]
        /\ card' = [card EXCEPT !.state = IF card.single THEN "tran" ELSE "data"]
        /\ UNCHANGED <<stage, pc, cmd, ret, response, left, result, got, req, host, note>>
    BY <1>1 DEF DataLost, StateAfterData, driver, caller, bus, SdInv, SdType, CardType
  <2>2. /\ DOMAIN reg' = DOMAIN reg /\ reg'.enable = reg.enable /\ reg'.fail = reg.fail
        /\ reg'.hung = reg.hung /\ reg'.hsts = (reg.hsts \cup {"rewto"}) /\ reg'.fsm = "data"
        /\ reg'.fifo = reg.fifo /\ reg'.rsp = reg.rsp
    BY <2>1 DEF SdInv, SdType, RegType
  <2>3. /\ DOMAIN card' = DOMAIN card /\ card'.hc = card.hc
        /\ card'.state = (IF card.single THEN "tran" ELSE "data") /\ card'.single = card.single
        /\ card'.next = card.next /\ card'.bad = card.bad
    BY <2>1 DEF SdInv, SdType, CardType
  <2>4. stage \in {"read", "ready"} /\ ~reg.enable /\ (pc = "send" => stage # "read") /\ (reg.hsts \subseteq reg'.hsts)
    BY <2>1, <2>2 DEF SdInv, SdQuiet, Resting
  <2>5. ControlType'
    BY <2>1, <2>2, <2>3, <1>1 DEF SdInv, SdType, ControlType, HostType, RegType, CardType,
      NoteType
  <2>6. HostType'
    BY <2>1, <2>2, <2>3, <1>1 DEF SdInv, SdType, ControlType, HostType, RegType, CardType,
      NoteType
  <2>7. RegType'
    BY <2>1, <2>2, <2>3, <1>1 DEF SdInv, SdType, ControlType, HostType, RegType, CardType,
      NoteType
  <2>8. CardType'
    BY <2>1, <2>2, <2>3, <1>1 DEF SdInv, SdType, ControlType, HostType, RegType, CardType,
      NoteType
  <2>9. NoteType'
    BY <2>1, <2>2, <2>3, <1>1 DEF SdInv, SdType, ControlType, HostType, RegType, CardType,
      NoteType
  <2>10. SdCommand'
    BY <2>1, <2>2, <2>3, <2>4, <1>1 DEF SdInv, SdType, ControlType, HostType, RegType,
      CardType, NoteType, SdCommand
  <2>11. SdCapacity'
    BY <2>1, <2>2, <2>3, <2>4, <1>1 DEF SdInv, SdType, ControlType, HostType, RegType,
      CardType, NoteType, SdCommand, SdCapacity
  <2>12. SdQuiet'
    BY <2>1, <2>2, <2>3, <2>4, <1>1 DEF SdInv, SdType, ControlType, HostType, RegType,
      CardType, NoteType, SdCommand, SdQuiet, SdStream, Errs, Resting, Executing, Reading
  <2>13. SdStream'
    BY <2>1, <2>2, <2>3, <2>4, <1>1 DEF SdInv, SdType, ControlType, HostType, RegType,
      CardType, NoteType, SdCommand, SdQuiet, SdStream, SdBlocks, Resting, Reading
  <2>14. SdTook'
    BY <2>1, <2>2, <2>3, <2>4, <1>1 DEF SdInv, SdType, ControlType, HostType, RegType,
      CardType, NoteType, SdCommand, SdQuiet, SdStream, SdTook, SdBlocks, Resting, Reading, Took, Errs, Expects
  <2>15. SdBlocks'
    BY <2>1, <2>2, <2>3, <2>4, <1>1 DEF SdInv, SdType, ControlType, HostType, RegType,
      CardType, NoteType, SdCommand, SdQuiet, SdStream, SdTook, SdBlocks, Resting, Reading, Took, Errs, Executing
  <2>16. SdDone'
    BY <2>1, <2>2, <2>3, <2>4, <1>1 DEF SdInv, SdType, ControlType, HostType, RegType,
      CardType, NoteType, SdCommand, SdQuiet, SdStream, SdTook, SdBlocks, SdDone, Resting, Reading, Took, Expects, Errs, Good, Executing
  <2> QED BY <2>5, <2>6, <2>7, <2>8, <2>9, <2>10, <2>11, <2>12, <2>13, <2>14, <2>15,
    <2>16 DEF SdInv, SdType
<1>2. ASSUME reg' = [reg EXCEPT !.hung = TRUE] /\ card' = card PROVE SdInv'
  <2>1. /\ card.state = "data" /\ reg' = [reg EXCEPT !.hung = TRUE]
        /\ UNCHANGED <<stage, pc, cmd, ret, response, left, result, got, req, host, card, note>>
    BY <1>2 DEF SdInv, SdCommand, SdQuiet, SdType, ControlType, HostType, RegType, CardType,
      NoteType, Executing, DataLost, StateAfterData, driver, Fault, caller, bus, IsRead, RespType
  <2>2. /\ DOMAIN reg' = DOMAIN reg /\ reg'.enable = reg.enable /\ reg'.fail = reg.fail
        /\ reg'.hung = TRUE /\ reg'.hsts = reg.hsts /\ reg'.fsm = reg.fsm
        /\ reg'.fifo = reg.fifo /\ reg'.rsp = reg.rsp
    BY <2>1 DEF SdInv, SdType, RegType
  <2>3. SdType'
    BY <2>1, <2>2, <1>2 DEF SdInv, SdType, ControlType, HostType, RegType, CardType, NoteType
  <2>4. SdCommand' /\ SdCapacity' /\ SdQuiet'
    BY <2>1, <2>2, <1>2 DEF SdInv, SdType, ControlType, HostType, RegType, CardType, NoteType,
      SdCommand, SdCapacity, SdQuiet, SdStream, Errs, Resting, Executing, Reading
  <2>5. SdStream'
    BY <2>1, <2>2, <1>2 DEF SdInv, SdType, ControlType, HostType, RegType, CardType, NoteType,
      SdCommand, SdQuiet, SdStream, SdBlocks, Resting, Reading
  <2>6. SdTook'
    BY <2>1, <2>2 DEF SdInv, SdTook, Reading, Resting, Took, Errs, Expects
  <2>7. SdBlocks'
    BY <2>1, <2>2, <1>2 DEF SdInv, SdType, ControlType, HostType, RegType, CardType, NoteType,
      SdCommand, SdQuiet, SdStream, SdTook, SdBlocks, Resting, Reading, Took, Errs, Executing
  <2>8. SdDone'
    BY <2>1, <2>2, <1>2 DEF SdInv, SdType, ControlType, HostType, RegType, CardType, NoteType,
      SdCommand, SdQuiet, SdStream, SdTook, SdBlocks, SdDone, Resting, Reading, Took, Expects, Errs, Good, Executing
  <2> QED BY <2>3, <2>4, <2>5, <2>6, <2>7, <2>8 DEF SdInv, SdType
<1> QED BY <1>1, <1>2 DEF SdInv, SdType, ControlType, HostType, RegType, CardType, NoteType,
  SdCommand, SdQuiet, DataLost, StateAfterData, driver, Fault, caller, bus, IsRead, RespType

LEMMA SBusyEnd ==
    ASSUME SdInv, BusyEnd PROVE SdInv'
<1> USE HostConstants DEF HostCommands, HostStages, KnownStages, Responses, ReadFsm, AtWork,
  Errors
<1>1. SdInv'
  <2>1. /\ card.state = "busy" /\ reg' = [reg EXCEPT !.hsts = reg.hsts \cup {"busy"}]
        /\ card' = [card EXCEPT !.state = "tran"]
        /\ UNCHANGED <<stage, pc, cmd, ret, response, left, result, got, req, host, note>>
    BY DEF SdInv, SdCommand, SdQuiet, SdType, ControlType, HostType, RegType, CardType,
      NoteType, Executing, BusyEnd, driver, caller, bus, IsRead, RespType
  <2>2. /\ DOMAIN reg' = DOMAIN reg /\ reg'.enable = reg.enable /\ reg'.fail = reg.fail
        /\ reg'.hung = reg.hung /\ reg'.hsts = (reg.hsts \cup {"busy"}) /\ reg'.fsm = reg.fsm
        /\ reg'.fifo = reg.fifo /\ reg'.rsp = reg.rsp
    BY <2>1 DEF SdInv, SdType, RegType
  <2>3. /\ DOMAIN card' = DOMAIN card /\ card'.hc = card.hc /\ card'.state = "tran"
        /\ card'.single = card.single /\ card'.next = card.next /\ card'.bad = card.bad
    BY <2>1 DEF SdInv, SdType, CardType
  <2>4. reg'.hsts \cap Errors = reg.hsts \cap Errors
    BY <2>1, <2>2, <2>3
  <2>5. SdType'
    BY <2>1, <2>2, <2>3 DEF SdInv, SdType, ControlType, HostType, RegType, CardType, NoteType
  <2>6. SdCommand'
    BY <2>1, <2>2, <2>3, <2>4 DEF SdInv, SdType, ControlType, HostType, RegType, CardType,
      NoteType, SdCommand
  <2>7. SdCapacity'
    BY <2>1, <2>2, <2>3, <2>4 DEF SdInv, SdType, ControlType, HostType, RegType, CardType,
      NoteType, SdCommand, SdCapacity
  <2>8. SdQuiet'
    BY <2>1, <2>2, <2>4 DEF SdInv, SdQuiet, Resting, Errs, Executing
  <2>9. SdStream' /\ SdTook' /\ SdBlocks'
    BY <2>1, <2>2, <2>3, <2>4 DEF SdInv, SdType, ControlType, HostType, RegType, CardType,
      NoteType, SdCommand, SdQuiet, SdStream, SdBlocks, Resting, Reading, SdTook, Took, Errs, Expects, Executing
  <2>10. SdDone'
    BY <2>1, <2>2, <2>3, <2>4 DEF SdInv, SdType, ControlType, HostType, RegType, CardType,
      NoteType, SdCommand, SdQuiet, SdStream, SdTook, SdBlocks, SdDone, Resting, Reading, Took, Expects, Errs, Good, Executing
  <2> QED BY <2>5, <2>6, <2>7, <2>8, <2>9, <2>10 DEF SdInv, SdType
<1> QED BY <1>1

-----------------------------------------------------------------------------
(* use_sdhost and mmc_read_blocks keep the invariant.                      *)

LEMMA SGoIdle ==
    ASSUME SdInv, GoIdle PROVE SdInv'
<1> USE HostConstants DEF HostCommands, HostStages, KnownStages, Responses, ReadFsm, AtWork,
  Errors
<1>1. SdInv'
  <2>1. /\ pc = "idle" /\ stage = "boot" /\ stage' = "idle" /\ pc' = "start" /\ cmd' = "CMD0"
        /\ UNCHANGED <<ret, response, left, result, got, req, host, reg, card, note>>
    BY DEF SdInv, SdCommand, SdQuiet, SdType, ControlType, HostType, RegType, CardType,
      NoteType, Executing, GoIdle, Follow, caller, bus, At, Issue, Stay, IsRead, RespType
  <2>2. SdType'
    BY <2>1 DEF SdInv, SdType, ControlType, HostType, RegType, CardType, NoteType
  <2>3. SdCommand' /\ SdCapacity' /\ SdQuiet'
    BY <2>1 DEF SdInv, SdType, ControlType, HostType, RegType, CardType, NoteType, SdCommand,
      SdCapacity, SdQuiet, SdStream, Errs, Resting, Executing, Reading
  <2>4. SdStream' /\ SdTook' /\ SdBlocks'
    BY <2>1 DEF SdInv, SdType, ControlType, HostType, RegType, CardType, NoteType, SdCommand,
      SdQuiet, SdStream, SdBlocks, Resting, Reading, SdTook, Took, Errs, Expects, Executing
  <2>5. SdDone'
    BY <2>1 DEF SdInv, SdType, ControlType, HostType, RegType, CardType, NoteType, SdCommand,
      SdQuiet, SdStream, SdTook, SdBlocks, SdDone, Resting, Reading, Took, Expects, Errs, Good, Executing
  <2> QED BY <2>2, <2>3, <2>4, <2>5 DEF SdInv, SdType
<1> QED BY <1>1

LEMMA SIfCond ==
    ASSUME SdInv, IfCond PROVE SdInv'
<1> USE HostConstants DEF HostCommands, HostStages, KnownStages, Responses, ReadFsm, AtWork,
  Errors
<1>1. SdInv'
  <2>1. /\ pc = "idle" /\ stage = "idle" /\ stage' = "ifcond" /\ pc' = "start" /\ cmd' = "CMD8"
        /\ UNCHANGED <<ret, response, left, result, got, req, host, reg, card, note>>
    BY DEF SdInv, SdCommand, SdQuiet, SdType, ControlType, HostType, RegType, CardType,
      NoteType, Executing, IfCond, Follow, caller, bus, At, Issue, Stay, IsRead, RespType
  <2>2. SdType'
    BY <2>1 DEF SdInv, SdType, ControlType, HostType, RegType, CardType, NoteType
  <2>3. SdCommand' /\ SdCapacity' /\ SdQuiet'
    BY <2>1 DEF SdInv, SdType, ControlType, HostType, RegType, CardType, NoteType, SdCommand,
      SdCapacity, SdQuiet, SdStream, Errs, Resting, Executing, Reading
  <2>4. SdStream' /\ SdTook' /\ SdBlocks'
    BY <2>1 DEF SdInv, SdType, ControlType, HostType, RegType, CardType, NoteType, SdCommand,
      SdQuiet, SdStream, SdBlocks, Resting, Reading, SdTook, Took, Errs, Expects, Executing
  <2>5. SdDone'
    BY <2>1 DEF SdInv, SdType, ControlType, HostType, RegType, CardType, NoteType, SdCommand,
      SdQuiet, SdStream, SdTook, SdBlocks, SdDone, Resting, Reading, Took, Expects, Errs, Good, Executing
  <2> QED BY <2>2, <2>3, <2>4, <2>5 DEF SdInv, SdType
<1> QED BY <1>1

LEMMA SOpCond ==
    ASSUME SdInv, OpCond PROVE SdInv'
<1> USE HostConstants DEF HostCommands, HostStages, KnownStages, Responses, ReadFsm, AtWork,
  Errors
<1>1. SdInv'
  <2>1. /\ pc = "idle" /\ stage = "app" /\ stage' = "opcond" /\ pc' = "start" /\ cmd' = "ACMD41"
        /\ UNCHANGED <<ret, response, left, result, got, req, host, reg, card, note>>
    BY DEF SdInv, SdCommand, SdQuiet, SdType, ControlType, HostType, RegType, CardType,
      NoteType, Executing, OpCond, Follow, caller, bus, At, Issue, Stay, IsRead, RespType
  <2>2. SdType'
    BY <2>1 DEF SdInv, SdType, ControlType, HostType, RegType, CardType, NoteType
  <2>3. SdCommand' /\ SdCapacity' /\ SdQuiet'
    BY <2>1 DEF SdInv, SdType, ControlType, HostType, RegType, CardType, NoteType, SdCommand,
      SdCapacity, SdQuiet, SdStream, Errs, Resting, Executing, Reading
  <2>4. SdStream' /\ SdTook' /\ SdBlocks'
    BY <2>1 DEF SdInv, SdType, ControlType, HostType, RegType, CardType, NoteType, SdCommand,
      SdQuiet, SdStream, SdBlocks, Resting, Reading, SdTook, Took, Errs, Expects, Executing
  <2>5. SdDone'
    BY <2>1 DEF SdInv, SdType, ControlType, HostType, RegType, CardType, NoteType, SdCommand,
      SdQuiet, SdStream, SdTook, SdBlocks, SdDone, Resting, Reading, Took, Expects, Errs, Good, Executing
  <2> QED BY <2>2, <2>3, <2>4, <2>5 DEF SdInv, SdType
<1> QED BY <1>1

LEMMA SSelectCard ==
    ASSUME SdInv, SelectCard PROVE SdInv'
<1> USE HostConstants DEF HostCommands, HostStages, KnownStages, Responses, ReadFsm, AtWork,
  Errors
<1>1. SdInv'
  <2>1. /\ pc = "idle" /\ stage = "csd" /\ stage' = "select" /\ pc' = "start" /\ cmd' = "CMD7"
        /\ UNCHANGED <<ret, response, left, result, got, req, host, reg, card, note>>
    BY DEF SdInv, SdCommand, SdQuiet, SdType, ControlType, HostType, RegType, CardType,
      NoteType, Executing, SelectCard, Follow, caller, bus, At, Issue, Stay, IsRead, RespType
  <2>2. SdType'
    BY <2>1 DEF SdInv, SdType, ControlType, HostType, RegType, CardType, NoteType
  <2>3. SdCommand' /\ SdCapacity' /\ SdQuiet'
    BY <2>1 DEF SdInv, SdType, ControlType, HostType, RegType, CardType, NoteType, SdCommand,
      SdCapacity, SdQuiet, SdStream, Errs, Resting, Executing, Reading
  <2>4. SdStream' /\ SdTook' /\ SdBlocks'
    BY <2>1 DEF SdInv, SdType, ControlType, HostType, RegType, CardType, NoteType, SdCommand,
      SdQuiet, SdStream, SdBlocks, Resting, Reading, SdTook, Took, Errs, Expects, Executing
  <2>5. SdDone'
    BY <2>1 DEF SdInv, SdType, ControlType, HostType, RegType, CardType, NoteType, SdCommand,
      SdQuiet, SdStream, SdTook, SdBlocks, SdDone, Resting, Reading, Took, Expects, Errs, Good, Executing
  <2> QED BY <2>2, <2>3, <2>4, <2>5 DEF SdInv, SdType
<1> QED BY <1>1

LEMMA SBlockLen ==
    ASSUME SdInv, BlockLen PROVE SdInv'
<1> USE HostConstants DEF HostCommands, HostStages, KnownStages, Responses, ReadFsm, AtWork,
  Errors
<1>1. SdInv'
  <2>1. /\ pc = "idle" /\ stage = "select" /\ stage' = "blocklen" /\ pc' = "start"
        /\ cmd' = "CMD16"
        /\ UNCHANGED <<ret, response, left, result, got, req, host, reg, card, note>>
    BY DEF SdInv, SdCommand, SdQuiet, SdType, ControlType, HostType, RegType, CardType,
      NoteType, Executing, BlockLen, Follow, caller, bus, At, Issue, Stay, IsRead, RespType
  <2>2. SdType'
    BY <2>1 DEF SdInv, SdType, ControlType, HostType, RegType, CardType, NoteType
  <2>3. SdCommand' /\ SdCapacity' /\ SdQuiet'
    BY <2>1 DEF SdInv, SdType, ControlType, HostType, RegType, CardType, NoteType, SdCommand,
      SdCapacity, SdQuiet, SdStream, Errs, Resting, Executing, Reading
  <2>4. SdStream' /\ SdTook' /\ SdBlocks'
    BY <2>1 DEF SdInv, SdType, ControlType, HostType, RegType, CardType, NoteType, SdCommand,
      SdQuiet, SdStream, SdBlocks, Resting, Reading, SdTook, Took, Errs, Expects, Executing
  <2>5. SdDone'
    BY <2>1 DEF SdInv, SdType, ControlType, HostType, RegType, CardType, NoteType, SdCommand,
      SdQuiet, SdStream, SdTook, SdBlocks, SdDone, Resting, Reading, Took, Expects, Errs, Good, Executing
  <2> QED BY <2>2, <2>3, <2>4, <2>5 DEF SdInv, SdType
<1> QED BY <1>1

LEMMA SAppCmd ==
    ASSUME SdInv, AppCmd PROVE SdInv'
<1> USE HostConstants DEF HostCommands, HostStages, KnownStages, Responses, ReadFsm, AtWork,
  Errors
<1>1. SdInv'
  <2>1. /\ pc = "idle" /\ stage = "ifcond" /\ stage' = "app" /\ pc' = "start" /\ cmd' = "CMD55"
        /\ host' = [host EXCEPT !.hcs = response = "ifcond"]
        /\ UNCHANGED <<ret, response, left, result, got, req, reg, card, note>>
    BY DEF SdInv, SdCommand, SdQuiet, SdType, ControlType, HostType, RegType, CardType,
      NoteType, Executing, AppCmd, caller, bus, At, Issue, Stay, IsRead, RespType
  <2>2. /\ DOMAIN host' = DOMAIN host /\ host'.data = host.data /\ host'.blocks = host.blocks
        /\ host'.use_busy = host.use_busy /\ host'.high_capacity = host.high_capacity
    BY <2>1 DEF SdInv, SdType, HostType
  <2>3. SdType'
    BY <2>1, <2>2 DEF SdInv, SdType, ControlType, HostType, RegType, CardType, NoteType
  <2>4. SdCommand' /\ SdCapacity' /\ SdQuiet'
    BY <2>1, <2>2 DEF SdInv, SdType, ControlType, HostType, RegType, CardType, NoteType,
      SdCommand, SdCapacity, SdQuiet, SdStream, Errs, Resting, Executing, Reading
  <2>5. SdStream' /\ SdTook' /\ SdBlocks'
    BY <2>1, <2>2 DEF SdInv, SdType, ControlType, HostType, RegType, CardType, NoteType,
      SdCommand, SdQuiet, SdStream, SdBlocks, Resting, Reading, SdTook, Took, Errs, Expects, Executing
  <2>6. SdDone'
    BY <2>1, <2>2 DEF SdInv, SdType, ControlType, HostType, RegType, CardType, NoteType,
      SdCommand, SdQuiet, SdStream, SdTook, SdBlocks, SdDone, Resting, Reading, Took, Expects, Errs, Good, Executing
  <2> QED BY <2>3, <2>4, <2>5, <2>6 DEF SdInv, SdType
<1> QED BY <1>1

LEMMA SPowerUp ==
    ASSUME SdInv, PowerUp PROVE SdInv'
<1> USE HostConstants DEF HostCommands, HostStages, KnownStages, Responses, ReadFsm, AtWork,
  Errors
<1>1. ASSUME response \in {"ready", "ready_hc"} PROVE SdInv'
  <2>1. /\ pc = "idle" /\ stage = "opcond" /\ stage' = "cid" /\ pc' = "start" /\ cmd' = "CMD2"
        /\ host' = [host EXCEPT !.high_capacity = response = "ready_hc", !.rca = IF response = "ready_hc" THEN 1 ELSE host.rca]
        /\ UNCHANGED <<ret, response, left, result, got, req, reg, card, note>>
    BY <1>1 DEF SdInv, SdCommand, SdQuiet, SdType, ControlType, HostType, RegType, CardType,
      NoteType, Executing, PowerUp, caller, bus, At, Issue, Stay, IsRead, RespType
  <2>2. /\ DOMAIN host' = DOMAIN host /\ host'.data = host.data /\ host'.blocks = host.blocks
        /\ host'.use_busy = host.use_busy /\ host'.high_capacity = (response = "ready_hc")
    BY <2>1 DEF SdInv, SdType, HostType
  <2>3. SdType'
    BY <2>1, <2>2, <1>1 DEF SdInv, SdType, ControlType, HostType, RegType, CardType, NoteType
  <2>4. SdCommand' /\ SdCapacity' /\ SdQuiet'
    BY <2>1, <2>2, <1>1 DEF SdInv, SdType, ControlType, HostType, RegType, CardType, NoteType,
      SdCommand, SdCapacity, SdQuiet, SdStream, Errs, Resting, Executing, Reading
  <2>5. SdStream' /\ SdTook' /\ SdBlocks'
    BY <2>1, <2>2, <1>1 DEF SdInv, SdType, ControlType, HostType, RegType, CardType, NoteType,
      SdCommand, SdQuiet, SdStream, SdBlocks, Resting, Reading, SdTook, Took, Errs, Expects, Executing
  <2>6. SdDone'
    BY <2>1, <2>2, <1>1 DEF SdInv, SdType, ControlType, HostType, RegType, CardType, NoteType,
      SdCommand, SdQuiet, SdStream, SdTook, SdBlocks, SdDone, Resting, Reading, Took, Expects, Errs, Good, Executing
  <2> QED BY <2>3, <2>4, <2>5, <2>6 DEF SdInv, SdType
<1>2. ASSUME response \notin {"ready", "ready_hc"} /\ tries >= PowerRetries - 1 PROVE SdInv'
  <2>1. /\ pc = "idle" /\ stage = "opcond" /\ stage' = "failed"
        /\ UNCHANGED <<pc, cmd, ret, response, left, result, got, req, host, reg, card, note>>
    BY <1>2 DEF SdInv, SdCommand, SdQuiet, SdType, ControlType, HostType, RegType, CardType,
      NoteType, Executing, PowerUp, caller, bus, At, Issue, Stay, IsRead, RespType
  <2>2. SdType'
    BY <2>1, <1>2 DEF SdInv, SdType, ControlType, HostType, RegType, CardType, NoteType
  <2>3. SdCommand' /\ SdCapacity' /\ SdQuiet'
    BY <2>1, <1>2 DEF SdInv, SdType, ControlType, HostType, RegType, CardType, NoteType,
      SdCommand, SdCapacity, SdQuiet, SdStream, Errs, Resting, Executing, Reading
  <2>4. SdStream' /\ SdTook' /\ SdBlocks'
    BY <2>1, <1>2 DEF SdInv, SdType, ControlType, HostType, RegType, CardType, NoteType,
      SdCommand, SdQuiet, SdStream, SdBlocks, Resting, Reading, SdTook, Took, Errs, Expects, Executing
  <2>5. SdDone'
    BY <2>1, <1>2 DEF SdInv, SdType, ControlType, HostType, RegType, CardType, NoteType,
      SdCommand, SdQuiet, SdStream, SdTook, SdBlocks, SdDone, Resting, Reading, Took, Expects, Errs, Good, Executing
  <2> QED BY <2>2, <2>3, <2>4, <2>5 DEF SdInv, SdType
<1>3. ASSUME response \notin {"ready", "ready_hc"} /\ ~(tries >= PowerRetries - 1) PROVE SdInv'
  <2>1. /\ pc = "idle" /\ stage = "opcond" /\ stage' = "app" /\ pc' = "start" /\ cmd' = "CMD55"
        /\ UNCHANGED <<ret, response, left, result, got, req, host, reg, card, note>>
    BY <1>3 DEF SdInv, SdCommand, SdQuiet, SdType, ControlType, HostType, RegType, CardType,
      NoteType, Executing, PowerUp, caller, bus, At, Issue, Stay, IsRead, RespType
  <2>2. SdType'
    BY <2>1, <1>3 DEF SdInv, SdType, ControlType, HostType, RegType, CardType, NoteType
  <2>3. SdCommand' /\ SdCapacity' /\ SdQuiet'
    BY <2>1, <1>3 DEF SdInv, SdType, ControlType, HostType, RegType, CardType, NoteType,
      SdCommand, SdCapacity, SdQuiet, SdStream, Errs, Resting, Executing, Reading
  <2>4. SdStream' /\ SdTook' /\ SdBlocks'
    BY <2>1, <1>3 DEF SdInv, SdType, ControlType, HostType, RegType, CardType, NoteType,
      SdCommand, SdQuiet, SdStream, SdBlocks, Resting, Reading, SdTook, Took, Errs, Expects, Executing
  <2>5. SdDone'
    BY <2>1, <1>3 DEF SdInv, SdType, ControlType, HostType, RegType, CardType, NoteType,
      SdCommand, SdQuiet, SdStream, SdTook, SdBlocks, SdDone, Resting, Reading, Took, Expects, Errs, Good, Executing
  <2> QED BY <2>2, <2>3, <2>4, <2>5 DEF SdInv, SdType
<1> QED BY <1>1, <1>2, <1>3 DEF SdInv, SdType, ControlType, HostType, RegType, CardType,
  NoteType, SdCommand, SdQuiet, PowerUp, caller, bus, At, Issue, Stay, IsRead, RespType

LEMMA SCid ==
    ASSUME SdInv, Cid PROVE SdInv'
<1> USE HostConstants DEF HostCommands, HostStages, KnownStages, Responses, ReadFsm, AtWork,
  Errors
<1>1. ASSUME response = "zero" PROVE SdInv'
  <2>1. /\ pc = "idle" /\ stage = "cid" /\ stage' = "cid_again" /\ pc' = "start"
        /\ cmd' = "CMD2"
        /\ UNCHANGED <<ret, response, left, result, got, req, host, reg, card, note>>
    BY <1>1 DEF SdInv, SdCommand, SdQuiet, SdType, ControlType, HostType, RegType, CardType,
      NoteType, Executing, Cid, caller, bus, At, Issue, Stay, IsRead, RespType
  <2>2. SdType'
    BY <2>1, <1>1 DEF SdInv, SdType, ControlType, HostType, RegType, CardType, NoteType
  <2>3. SdCommand' /\ SdCapacity' /\ SdQuiet'
    BY <2>1, <1>1 DEF SdInv, SdType, ControlType, HostType, RegType, CardType, NoteType,
      SdCommand, SdCapacity, SdQuiet, SdStream, Errs, Resting, Executing, Reading
  <2>4. SdStream' /\ SdTook' /\ SdBlocks'
    BY <2>1, <1>1 DEF SdInv, SdType, ControlType, HostType, RegType, CardType, NoteType,
      SdCommand, SdQuiet, SdStream, SdBlocks, Resting, Reading, SdTook, Took, Errs, Expects, Executing
  <2>5. SdDone'
    BY <2>1, <1>1 DEF SdInv, SdType, ControlType, HostType, RegType, CardType, NoteType,
      SdCommand, SdQuiet, SdStream, SdTook, SdBlocks, SdDone, Resting, Reading, Took, Expects, Errs, Good, Executing
  <2> QED BY <2>2, <2>3, <2>4, <2>5 DEF SdInv, SdType
<1>2. ASSUME response # "zero" PROVE SdInv'
  <2>1. /\ pc = "idle" /\ stage = "cid" /\ stage' = "rca" /\ pc' = "start" /\ cmd' = "CMD3"
        /\ UNCHANGED <<ret, response, left, result, got, req, host, reg, card, note>>
    BY <1>2 DEF SdInv, SdCommand, SdQuiet, SdType, ControlType, HostType, RegType, CardType,
      NoteType, Executing, Cid, caller, bus, At, Issue, Stay, IsRead, RespType
  <2>2. SdType'
    BY <2>1, <1>2 DEF SdInv, SdType, ControlType, HostType, RegType, CardType, NoteType
  <2>3. SdCommand' /\ SdCapacity' /\ SdQuiet'
    BY <2>1, <1>2 DEF SdInv, SdType, ControlType, HostType, RegType, CardType, NoteType,
      SdCommand, SdCapacity, SdQuiet, SdStream, Errs, Resting, Executing, Reading
  <2>4. SdStream' /\ SdTook' /\ SdBlocks'
    BY <2>1, <1>2 DEF SdInv, SdType, ControlType, HostType, RegType, CardType, NoteType,
      SdCommand, SdQuiet, SdStream, SdBlocks, Resting, Reading, SdTook, Took, Errs, Expects, Executing
  <2>5. SdDone'
    BY <2>1, <1>2 DEF SdInv, SdType, ControlType, HostType, RegType, CardType, NoteType,
      SdCommand, SdQuiet, SdStream, SdTook, SdBlocks, SdDone, Resting, Reading, Took, Expects, Errs, Good, Executing
  <2> QED BY <2>2, <2>3, <2>4, <2>5 DEF SdInv, SdType
<1> QED BY <1>1, <1>2 DEF SdInv, SdType, ControlType, HostType, RegType, CardType, NoteType,
  SdCommand, SdQuiet, Cid, caller, bus, At, Issue, Stay, IsRead, RespType

LEMMA SCidAgain ==
    ASSUME SdInv, CidAgain PROVE SdInv'
<1> USE HostConstants DEF HostCommands, HostStages, KnownStages, Responses, ReadFsm, AtWork,
  Errors
<1>1. ASSUME (ret = 0 /\ response # "zero") \/ tries = 0 PROVE SdInv'
  <2>1. /\ pc = "idle" /\ stage = "cid_again" /\ stage' = "rca" /\ pc' = "start"
        /\ cmd' = "CMD3"
        /\ UNCHANGED <<ret, response, left, result, got, req, host, reg, card, note>>
    BY <1>1 DEF SdInv, SdCommand, SdQuiet, SdType, ControlType, HostType, RegType, CardType,
      NoteType, Executing, CidAgain, caller, bus, At, Issue, Stay, IsRead, RespType
  <2>2. SdType'
    BY <2>1, <1>1 DEF SdInv, SdType, ControlType, HostType, RegType, CardType, NoteType
  <2>3. SdCommand' /\ SdCapacity' /\ SdQuiet'
    BY <2>1, <1>1 DEF SdInv, SdType, ControlType, HostType, RegType, CardType, NoteType,
      SdCommand, SdCapacity, SdQuiet, SdStream, Errs, Resting, Executing, Reading
  <2>4. SdStream' /\ SdTook' /\ SdBlocks'
    BY <2>1, <1>1 DEF SdInv, SdType, ControlType, HostType, RegType, CardType, NoteType,
      SdCommand, SdQuiet, SdStream, SdBlocks, Resting, Reading, SdTook, Took, Errs, Expects, Executing
  <2>5. SdDone'
    BY <2>1, <1>1 DEF SdInv, SdType, ControlType, HostType, RegType, CardType, NoteType,
      SdCommand, SdQuiet, SdStream, SdTook, SdBlocks, SdDone, Resting, Reading, Took, Expects, Errs, Good, Executing
  <2> QED BY <2>2, <2>3, <2>4, <2>5 DEF SdInv, SdType
<1>2. ASSUME ~((ret = 0 /\ response # "zero") \/ tries = 0) PROVE SdInv'
  <2>1. /\ pc = "idle" /\ stage = "cid_again" /\ stage' = "cid_again" /\ pc' = "start"
        /\ cmd' = "CMD2"
        /\ UNCHANGED <<ret, response, left, result, got, req, host, reg, card, note>>
    BY <1>2 DEF SdInv, SdCommand, SdQuiet, SdType, ControlType, HostType, RegType, CardType,
      NoteType, Executing, CidAgain, caller, bus, At, Issue, Stay, IsRead, RespType
  <2>2. SdType'
    BY <2>1, <1>2 DEF SdInv, SdType, ControlType, HostType, RegType, CardType, NoteType
  <2>3. SdCommand' /\ SdCapacity' /\ SdQuiet'
    BY <2>1, <1>2 DEF SdInv, SdType, ControlType, HostType, RegType, CardType, NoteType,
      SdCommand, SdCapacity, SdQuiet, SdStream, Errs, Resting, Executing, Reading
  <2>4. SdStream' /\ SdTook' /\ SdBlocks'
    BY <2>1, <1>2 DEF SdInv, SdType, ControlType, HostType, RegType, CardType, NoteType,
      SdCommand, SdQuiet, SdStream, SdBlocks, Resting, Reading, SdTook, Took, Errs, Expects, Executing
  <2>5. SdDone'
    BY <2>1, <1>2 DEF SdInv, SdType, ControlType, HostType, RegType, CardType, NoteType,
      SdCommand, SdQuiet, SdStream, SdTook, SdBlocks, SdDone, Resting, Reading, Took, Expects, Errs, Good, Executing
  <2> QED BY <2>2, <2>3, <2>4, <2>5 DEF SdInv, SdType
<1> QED BY <1>1, <1>2 DEF SdInv, SdType, ControlType, HostType, RegType, CardType, NoteType,
  SdCommand, SdQuiet, CidAgain, caller, bus, At, Issue, Stay, IsRead, RespType

LEMMA SRelativeAddr ==
    ASSUME SdInv, RelativeAddr PROVE SdInv'
<1> USE HostConstants DEF HostCommands, HostStages, KnownStages, Responses, ReadFsm, AtWork,
  Errors
<1>1. ASSUME ret = 0 PROVE SdInv'
  <2>1. /\ pc = "idle" /\ stage = "rca" /\ stage' = "csd" /\ pc' = "start" /\ cmd' = "CMD9"
        /\ host' = [host EXCEPT !.rca = response]
        /\ UNCHANGED <<ret, response, left, result, got, req, reg, card, note>>
    BY <1>1 DEF SdInv, SdCommand, SdQuiet, SdType, ControlType, HostType, RegType, CardType,
      NoteType, Executing, RelativeAddr, caller, bus, At, Issue, Stay, IsRead, RespType
  <2>2. /\ DOMAIN host' = DOMAIN host /\ host'.data = host.data /\ host'.blocks = host.blocks
        /\ host'.use_busy = host.use_busy /\ host'.high_capacity = host.high_capacity
    BY <2>1 DEF SdInv, SdType, HostType
  <2>3. SdType'
    BY <2>1, <2>2, <1>1 DEF SdInv, SdType, ControlType, HostType, RegType, CardType, NoteType
  <2>4. SdCommand' /\ SdCapacity' /\ SdQuiet'
    BY <2>1, <2>2, <1>1 DEF SdInv, SdType, ControlType, HostType, RegType, CardType, NoteType,
      SdCommand, SdCapacity, SdQuiet, SdStream, Errs, Resting, Executing, Reading
  <2>5. SdStream' /\ SdTook' /\ SdBlocks'
    BY <2>1, <2>2, <1>1 DEF SdInv, SdType, ControlType, HostType, RegType, CardType, NoteType,
      SdCommand, SdQuiet, SdStream, SdBlocks, Resting, Reading, SdTook, Took, Errs, Expects, Executing
  <2>6. SdDone'
    BY <2>1, <2>2, <1>1 DEF SdInv, SdType, ControlType, HostType, RegType, CardType, NoteType,
      SdCommand, SdQuiet, SdStream, SdTook, SdBlocks, SdDone, Resting, Reading, Took, Expects, Errs, Good, Executing
  <2> QED BY <2>3, <2>4, <2>5, <2>6 DEF SdInv, SdType
<1>2. ASSUME ret # 0 PROVE SdInv'
  <2>1. /\ pc = "idle" /\ stage = "rca" /\ stage' = "failed"
        /\ UNCHANGED <<pc, cmd, ret, response, left, result, got, req, host, reg, card, note>>
    BY <1>2 DEF SdInv, SdCommand, SdQuiet, SdType, ControlType, HostType, RegType, CardType,
      NoteType, Executing, RelativeAddr, caller, bus, At, Issue, Stay, IsRead, RespType
  <2>2. SdType'
    BY <2>1, <1>2 DEF SdInv, SdType, ControlType, HostType, RegType, CardType, NoteType
  <2>3. SdCommand' /\ SdCapacity' /\ SdQuiet'
    BY <2>1, <1>2 DEF SdInv, SdType, ControlType, HostType, RegType, CardType, NoteType,
      SdCommand, SdCapacity, SdQuiet, SdStream, Errs, Resting, Executing, Reading
  <2>4. SdStream' /\ SdTook' /\ SdBlocks'
    BY <2>1, <1>2 DEF SdInv, SdType, ControlType, HostType, RegType, CardType, NoteType,
      SdCommand, SdQuiet, SdStream, SdBlocks, Resting, Reading, SdTook, Took, Errs, Expects, Executing
  <2>5. SdDone'
    BY <2>1, <1>2 DEF SdInv, SdType, ControlType, HostType, RegType, CardType, NoteType,
      SdCommand, SdQuiet, SdStream, SdTook, SdBlocks, SdDone, Resting, Reading, Took, Expects, Errs, Good, Executing
  <2> QED BY <2>2, <2>3, <2>4, <2>5 DEF SdInv, SdType
<1> QED BY <1>1, <1>2 DEF SdInv, SdType, ControlType, HostType, RegType, CardType, NoteType,
  SdCommand, SdQuiet, RelativeAddr, caller, bus, At, Issue, Stay, IsRead, RespType

LEMMA SPublish ==
    ASSUME SdInv, Publish PROVE SdInv'
<1> USE HostConstants DEF HostCommands, HostStages, KnownStages, Responses, ReadFsm, AtWork,
  Errors
<1>1. SdInv'
  <2>1. /\ pc = "idle" /\ stage = "blocklen" /\ stage' = "ready"
        /\ UNCHANGED <<pc, cmd, ret, response, left, result, got, req, host, reg, card, note>>
    BY DEF SdInv, SdCommand, SdQuiet, SdType, ControlType, HostType, RegType, CardType,
      NoteType, Executing, Publish, caller, bus, At, Issue, Stay, IsRead, RespType
  <2>2. SdType'
    BY <2>1 DEF SdInv, SdType, ControlType, HostType, RegType, CardType, NoteType
  <2>3. SdCommand' /\ SdCapacity' /\ SdQuiet'
    BY <2>1 DEF SdInv, SdType, ControlType, HostType, RegType, CardType, NoteType, SdCommand,
      SdCapacity, SdQuiet, SdStream, Errs, Resting, Executing, Reading
  <2>4. SdStream' /\ SdTook' /\ SdBlocks'
    BY <2>1 DEF SdInv, SdType, ControlType, HostType, RegType, CardType, NoteType, SdCommand,
      SdQuiet, SdStream, SdBlocks, Resting, Reading, SdTook, Took, Errs, Expects, Executing
  <2>5. SdDone'
    BY <2>1 DEF SdInv, SdType, ControlType, HostType, RegType, CardType, NoteType, SdCommand,
      SdQuiet, SdStream, SdTook, SdBlocks, SdDone, Resting, Reading, Took, Expects, Errs, Good, Executing
  <2> QED BY <2>2, <2>3, <2>4, <2>5 DEF SdInv, SdType
<1> QED BY <1>1

LEMMA SReadDone ==
    ASSUME SdInv, ReadDone PROVE SdInv'
<1> USE HostConstants DEF HostCommands, HostStages, KnownStages, Responses, ReadFsm, AtWork,
  Errors
<1>1. ASSUME ret = 0 /\ req.n > 1 PROVE SdInv'
  <2>1. /\ pc = "idle" /\ stage = "read" /\ stage' = "stop" /\ pc' = "start" /\ cmd' = "CMD12"
        /\ UNCHANGED <<ret, response, left, result, got, req, host, reg, card, note>>
    BY <1>1 DEF SdInv, SdCommand, SdQuiet, SdType, ControlType, HostType, RegType, CardType,
      NoteType, Executing, ReadDone, caller, bus, At, Issue, Stay, IsRead, RespType
  <2>2. SdType'
    BY <2>1, <1>1 DEF SdInv, SdType, ControlType, HostType, RegType, CardType, NoteType
  <2>3. SdCommand'
    BY <2>1, <1>1 DEF SdInv, SdType, ControlType, HostType, RegType, CardType, NoteType,
      SdCommand
  <2>4. SdCapacity'
    BY <2>1, <1>1 DEF SdInv, SdType, ControlType, HostType, RegType, CardType, NoteType,
      SdCommand, SdCapacity
  <2>5. SdQuiet'
    BY <2>1, <1>1 DEF SdInv, SdType, ControlType, HostType, RegType, CardType, NoteType,
      SdQuiet, SdDone, Good, Resting, Errs, Executing
  <2>6. SdStream' /\ SdTook' /\ SdBlocks'
    BY <2>1, <1>1 DEF SdInv, SdType, ControlType, HostType, RegType, CardType, NoteType,
      SdCommand, SdQuiet, SdStream, SdBlocks, Resting, Reading, SdTook, Took, Errs, Expects, Executing
  <2>7. SdDone'
    BY <2>1, <1>1 DEF SdInv, SdType, ControlType, HostType, RegType, CardType, NoteType,
      SdCommand, SdQuiet, SdStream, SdTook, SdBlocks, SdDone, Resting, Reading, Took, Expects, Errs, Good, Executing
  <2> QED BY <2>2, <2>3, <2>4, <2>5, <2>6, <2>7 DEF SdInv, SdType
<1>2. ASSUME ~(ret = 0 /\ req.n > 1) PROVE SdInv'
  <2>1. /\ pc = "idle" /\ stage = "read" /\ stage' = "ready" /\ result' = (ret # 0)
        /\ UNCHANGED <<pc, cmd, ret, response, left, got, req, host, reg, card, note>>
    BY <1>2 DEF SdInv, SdCommand, SdQuiet, SdType, ControlType, HostType, RegType, CardType,
      NoteType, Executing, ReadDone, caller, bus, At, Issue, Stay, IsRead, RespType
  <2>2. SdType'
    BY <2>1, <1>2 DEF SdInv, SdType, ControlType, HostType, RegType, CardType, NoteType
  <2>3. SdCommand' /\ SdCapacity' /\ SdQuiet'
    BY <2>1, <1>2 DEF SdInv, SdType, ControlType, HostType, RegType, CardType, NoteType,
      SdCommand, SdCapacity, SdQuiet, SdStream, Errs, Resting, Executing, Reading
  <2>4. SdStream' /\ SdTook' /\ SdBlocks'
    BY <2>1, <1>2 DEF SdInv, SdType, ControlType, HostType, RegType, CardType, NoteType,
      SdCommand, SdQuiet, SdStream, SdBlocks, Resting, Reading, SdTook, Took, Errs, Expects, Executing
  <2>5. SdDone'
    <3>1. CASE ret = 0
      <4>0. ~result' BY <3>1, <2>1
      <4>1. req.n = 1 BY <3>1, <2>1, <1>2 DEF SdInv, SdCommand, SdType, ControlType
      <4> QED BY <3>1, <4>0, <4>1, <2>1 DEF SdInv, SdDone, Good, Resting, Expects
    <3>2. CASE ret # 0
      <4>1. result' = TRUE BY <3>2, <2>1
      <4> QED BY <4>1, <2>1 DEF SdDone
    <3> QED BY <3>1, <3>2
  <2> QED BY <2>2, <2>3, <2>4, <2>5 DEF SdInv, SdType
<1> QED BY <1>1, <1>2 DEF SdInv, SdType, ControlType, HostType, RegType, CardType, NoteType,
  SdCommand, SdQuiet, ReadDone, caller, bus, At, Issue, Stay, IsRead, RespType

LEMMA SStopDone ==
    ASSUME SdInv, StopDone PROVE SdInv'
<1> USE HostConstants DEF HostCommands, HostStages, KnownStages, Responses, ReadFsm, AtWork,
  Errors
<1>1. SdInv'
  <2>1. /\ pc = "idle" /\ stage = "stop" /\ stage' = "ready" /\ result' = (ret # 0)
        /\ UNCHANGED <<pc, cmd, ret, response, left, got, req, host, reg, card, note>>
    BY DEF SdInv, SdCommand, SdQuiet, SdType, ControlType, HostType, RegType, CardType,
      NoteType, Executing, StopDone, caller, bus, At, Issue, Stay, IsRead, RespType
  <2>2. SdType'
    BY <2>1 DEF SdInv, SdType, ControlType, HostType, RegType, CardType, NoteType
  <2>3. SdCommand' /\ SdCapacity' /\ SdQuiet'
    BY <2>1 DEF SdInv, SdType, ControlType, HostType, RegType, CardType, NoteType, SdCommand,
      SdCapacity, SdQuiet, SdStream, Errs, Resting, Executing, Reading
  <2>4. SdStream' /\ SdTook' /\ SdBlocks'
    BY <2>1 DEF SdInv, SdType, ControlType, HostType, RegType, CardType, NoteType, SdCommand,
      SdQuiet, SdStream, SdBlocks, Resting, Reading, SdTook, Took, Errs, Expects, Executing
  <2>5. SdDone'
    BY <2>1 DEF SdInv, SdType, ControlType, HostType, RegType, CardType, NoteType, SdCommand,
      SdQuiet, SdStream, SdTook, SdBlocks, SdDone, Resting, Reading, Took, Expects, Errs, Good, Executing
  <2> QED BY <2>2, <2>3, <2>4, <2>5 DEF SdInv, SdType
<1> QED BY <1>1

LEMMA SReadBlocks ==
    ASSUME SdInv, NEW bs \in Nat, NEW bn \in Nat \ {0}, ReadBlocks(bs, bn) PROVE SdInv'
<1> USE HostConstants DEF HostCommands, HostStages, KnownStages, Responses, ReadFsm, AtWork,
  Errors
<1>1. SdInv'
  <2>1. /\ pc = "idle" /\ stage = "ready" /\ stage' = "read" /\ pc' = "start"
        /\ cmd' = (IF bn > 1 THEN "CMD18" ELSE "CMD17") /\ got' = <<>>
        /\ req' = [start |-> bs, n |-> bn, call |-> req.call + 1]
        /\ note' = [note EXCEPT !.late = FALSE]
        /\ UNCHANGED <<ret, response, left, result, host, reg, card>>
    BY DEF SdInv, SdCommand, SdQuiet, SdType, ControlType, HostType, RegType, CardType,
      NoteType, Executing, ReadBlocks, caller, bus, At, Issue, Stay, IsRead, RespType
  <2>2. /\ DOMAIN note' = DOMAIN note /\ note'.late = FALSE /\ note'.wiped = note.wiped
        /\ note'.stale = note.stale
    BY <2>1 DEF SdInv, SdType, NoteType
  <2>3. ControlType'
    <3>1. req.call + 1 \in Nat /\ bn \in Nat BY DEF SdInv, SdType, ControlType
    <3>2. req' \in [start : Nat, n : Nat, call : Nat] BY <2>1, <3>1
    <3>3. got' \in Seq(Nat \X Nat) BY <2>1
    <3>4. cmd' \in {"CMD17", "CMD18"} BY <2>1
    <3> QED BY <2>1, <3>2, <3>3, <3>4 DEF SdInv, SdType, ControlType
  <2>4. HostType'
    BY <2>1, <2>2 DEF SdInv, SdType, HostType
  <2>5. RegType'
    BY <2>1, <2>2 DEF SdInv, SdType, RegType
  <2>6. CardType'
    BY <2>1, <2>2 DEF SdInv, SdType, CardType
  <2>7. NoteType'
    BY <2>1, <2>2 DEF SdInv, SdType, NoteType
  <2>8. SdCommand' /\ SdCapacity' /\ SdQuiet'
    BY <2>1, <2>2 DEF SdInv, SdType, ControlType, HostType, RegType, CardType, NoteType,
      SdCommand, SdCapacity, SdQuiet, SdStream, Errs, Resting, Executing, Reading
  <2>9. SdStream' /\ SdTook' /\ SdBlocks'
    BY <2>1, <2>2 DEF SdInv, SdType, ControlType, HostType, RegType, CardType, NoteType,
      SdCommand, SdQuiet, SdStream, SdBlocks, Resting, Reading, SdTook, Took, Errs, Expects, Executing
  <2>10. SdDone'
    BY <2>1, <2>2 DEF SdInv, SdType, ControlType, HostType, RegType, CardType, NoteType,
      SdCommand, SdQuiet, SdStream, SdTook, SdBlocks, SdDone, Resting, Reading, Took, Expects, Errs, Good, Executing
  <2> QED BY <2>3, <2>4, <2>5, <2>6, <2>7, <2>8, <2>9, <2>10 DEF SdInv, SdType
<1> QED BY <1>1

-----------------------------------------------------------------------------
(* The theorem.                                                            *)

\* The driver starts in the invariant.
LEMMA SdStarts == ASSUME Init PROVE SdInv
<1> USE HostConstants DEF HostCommands, HostStages, KnownStages, Responses, ReadFsm, AtWork,
  Errors
<1>1. PICK v \in BOOLEAN :
        host = [cmd |-> None, data |-> None, blocks |-> 0, use_busy |-> FALSE,
                high_capacity |-> FALSE, rca |-> 0, voltages |-> v, hcs |-> FALSE]
  BY DEF Init
<1>2. PICK hc \in BOOLEAN :
        card = [hc |-> hc, state |-> "idle", single |-> FALSE, next |-> <<0, 0>>, bad |-> {}]
  BY DEF Init
<1>3. /\ stage = "boot" /\ pc = "idle" /\ cmd = None /\ ret = 0 /\ response = "zero"
      /\ left = 0 /\ result = FALSE /\ got = <<>> /\ req = [start |-> 0, n |-> 0, call |-> 0]
      /\ reg = [enable |-> FALSE, fail |-> FALSE, hung |-> FALSE, hsts |-> {},
                fsm |-> "ident", fifo |-> <<>>, rsp |-> "zero"]
      /\ note = [late |-> FALSE, silent |-> FALSE, stolen |-> FALSE, wiped |-> FALSE, stale |-> FALSE]
  BY DEF Init
<1>4. /\ host.data = None /\ host.blocks = 0 /\ host.use_busy = FALSE /\ host.high_capacity = FALSE
      /\ HostType
  BY <1>1 DEF HostType
<1>5. card.state = "idle" /\ CardType BY <1>2 DEF CardType
<1>6. /\ reg.enable = FALSE /\ reg.hsts = {} /\ reg.fsm = "ident" /\ reg.fifo = <<>> /\ reg.rsp = "zero"
      /\ RegType
  BY <1>3 DEF RegType
<1>7. NoteType BY <1>3 DEF NoteType
<1>8. ControlType
  <2>1. req \in [start : Nat, n : Nat, call : Nat] /\ got \in Seq(Nat \X Nat) BY <1>3
  <2>2. ret \in Int /\ response \in Responses /\ left \in Nat BY <1>3
  <2>3. result \in BOOLEAN /\ cmd \in HostCommands \cup {"CMD17", "CMD18", "CMD12", None} BY <1>3
  <2>4. /\ stage \in HostStages \cup KnownStages \cup {"ready", "read", "stop"}
        /\ pc \in {"idle", "start", "send"} \cup AtWork
    BY <1>3
  <2> QED BY <2>1, <2>2, <2>3, <2>4 DEF ControlType
<1>9. SdType BY <1>4, <1>5, <1>6, <1>7, <1>8 DEF SdType
<1>10. req.call = 0 BY <1>3
<1>11. SdCommand /\ SdCapacity BY <1>3, <1>4, <1>6, <1>10 DEF SdCommand, SdCapacity
<1>12. SdQuiet BY <1>3, <1>4, <1>6 DEF SdQuiet, Errs, Resting, Executing
<1>13. SdStream /\ SdTook /\ SdBlocks BY <1>3 DEF SdStream, SdTook, SdBlocks, Reading
<1>14. SdDone BY <1>3 DEF SdDone
<1> QED BY <1>9, <1>11, <1>12, <1>13, <1>14 DEF SdInv

\* A step of the other units leaves unit alone; a stuttering step everything.
LEMMA SdStays ==
    ASSUME SdInv, UNCHANGED vars PROVE SdInv'
<1>1. UNCHANGED <<stage, pc, cmd, ret, response, left, result, got, req, host, reg, card, note>>
  BY DEF vars, caller, bus
<1>2. SdType' BY <1>1 DEF SdInv, SdType, ControlType, HostType, RegType, CardType, NoteType
<1>3. SdCommand' /\ SdCapacity' /\ SdQuiet'
  BY <1>1 DEF SdInv, SdCommand, SdCapacity, SdQuiet, Errs, Resting, Executing
<1>4. SdStream' /\ SdTook' /\ SdBlocks'
  BY <1>1 DEF SdInv, SdStream, SdTook, SdBlocks, Reading, Resting, Took, Errs, Expects
<1>5. SdDone' BY <1>1 DEF SdInv, SdDone, Good, Resting, Expects
<1> QED BY <1>2, <1>3, <1>4, <1>5 DEF SdInv

\* Every step of the driver, its caller, the controller and the card keeps the
\* invariant.
LEMMA SdSteps == ASSUME SdInv, Next PROVE SdInv'
<1>1. CASE Driver
  BY <1>1, SStart, SSendCommand, SFinishCommand, STransmit, SLoopEnd, SPio, SPioEnd, SComplete
     DEF Driver
<1>2. CASE Caller
  <2>1. ASSUME NEW s \in Starts, NEW n \in Counts, ReadBlocks(s, n) PROVE SdInv'
    <3>1. s \in Nat /\ n \in Nat \ {0} BY HostConstants
    <3> QED BY <2>1, <3>1, SReadBlocks
  <2> QED BY <1>2, <2>1, SGoIdle, SIfCond, SAppCmd, SOpCond, SPowerUp, SCid, SCidAgain,
             SRelativeAddr, SSelectCard, SBlockLen, SPublish, SReadDone, SStopDone
          DEF Caller
<1>3. CASE Controller
  BY <1>3, SCmdDone, SCmdNoAnswer, SDataWord, SBlockEnd, SBusyEnd DEF Controller
<1>4. CASE Faults BY <1>4, SCmdDamaged, SCmdFailed, SDataLost DEF Faults
<1>5. CASE Interrupt BY <1>5, SInterrupt
<1> QED BY <1>1, <1>2, <1>3, <1>4, <1>5 DEF Next

\* What the run storage checks of mmc_read_blocks, for every value of the
\* constants: a success means exactly the blocks asked for, undamaged unless
\* the checksum of the last block came too late or the interrupt handler
\* cleared the error, and card and controller are ready for the next call.
THEOREM SdIsExact == StorageSpec => []SdExact
<1> DEFINE Held == unit = "sdhost" => SdInv
<1>1. StorageInit => Held
  <2> SUFFICES ASSUME StorageInit, unit = "sdhost" PROVE SdInv OBVIOUS
  <2>1. Init BY DEF StorageInit
  <2> QED BY <2>1, SdStarts
<1>2. Held /\ [StorageNext]_all => Held'
  <2> SUFFICES ASSUME Held, [StorageNext]_all, unit' = "sdhost" PROVE SdInv' OBVIOUS
  <2>1. unit = "sdhost" /\ SdInv
    BY DEF StorageNext, HostOnly, EmmcOnly, FatOnly, ClockOnly, CsdOnly, all
  <2>2. CASE UNCHANGED all
    <3>1. UNCHANGED vars BY <2>2 DEF all, hostOnly, shared, vars, caller, bus
    <3> QED BY <2>1, <3>1, SdStays
  <2>3. CASE StorageNext
    <3>1. Next BY <2>1, <2>3 DEF StorageNext, HostOnly, EmmcOnly, FatOnly, ClockOnly, CsdOnly
    <3> QED BY <2>1, <3>1, SdSteps
  <2> QED BY <2>2, <2>3
<1>3. Held => SdExact
  <2> SUFFICES ASSUME unit = "sdhost", SdInv PROVE ReadExact /\ ReadyForNext BY DEF SdExact
  <2>1. SdDone BY DEF SdInv
  <2>2. ReadExact
    BY <2>1 DEF SdDone, Good, ReadExact, At, WholeRead, WordAt, Unspoilt
  <2>3. ReadyForNext BY <2>1 DEF SdDone, Good, ReadyForNext, At, Resting
  <2> QED BY <2>2, <2>3
<1> QED BY <1>1, <1>2, <1>3, PTL DEF StorageSpec

-----------------------------------------------------------------------------
(* The EMMC card driver: EmmcInv is the inductive invariant.               *)

EmmcInitStages == {"reset", "idle", "ifcond", "reset_old", "idle_old", "opcond_v2", "opcond_old",
                   "cid", "rca", "csd", "select", "scr", "width", "blocklen"}
EmmcCallStages == {"blkcnt", "transfer", "stop", "erase_end", "erase"}
EmmcFlags == {"cmd_done", "ready", "data_done", "cmdto", "datato", "crc"}
Contents  == {"old", "new", "erased"}

\* What the fields of the driver, the controller and the card hold.
EmType ==
    /\ pc \in {"idle", "app", "cmd", "appwait", "cmdwait", "block", "data_done", "end"}
    /\ stage \in EmmcInitStages \cup EmmcCallStages \cup {"ready", "failed"}
    /\ op \in Ops \cup {None} /\ done \in Nat
    /\ DOMAIN sd = {"type", "rca", "power", "capacity", "app", "blkcnt", "wide"}
    /\ sd.power \in BOOLEAN /\ sd.capacity \in BOOLEAN /\ sd.blkcnt \in BOOLEAN
    /\ was \in [Blocks -> Contents]
EmController ==
    /\ DOMAIN emmc = {"int", "cmd", "dat", "left", "buf", "app", "err"}
    /\ emmc.int \subseteq EmmcFlags /\ emmc.cmd \in {"none", "sent", "stuck"}
    /\ emmc.dat \in {"none", "moving", "stuck"} /\ emmc.left \in Int
EmCard ==
    /\ DOMAIN card = {"kind", "state", "app", "counted", "ends", "next", "from", "to", "data"}
    /\ card.kind \in Cards
    /\ card.counted \in BOOLEAN /\ card.ends \in BOOLEAN
    /\ card.data \in [Blocks -> Contents]

\* The command of a stage, and where in it the driver may be.
EmControl ==
    /\ stage \in {"reset", "reset_old", "ready", "failed"} => pc = "idle"
    /\ stage \in EmmcInitStages \cup {"failed"} => op = None
    /\ stage \in EmmcInitStages /\ pc # "idle" => idx \notin {"CMD23", "CMD55"}
    /\ pc \in {"app", "appwait"} => stage \in EmmcInitStages
    /\ pc \in {"block", "data_done", "end"} => stage = "transfer" /\ op.kind # "erase"
    /\ pc = "data_done" => op.kind = "write"
    /\ stage \in EmmcCallStages => op # None
    /\ stage = "transfer" => idx = E!TransferCmd(op)
    /\ stage = "blkcnt" => idx = "CMD23" /\ op.kind # "erase" /\ sd.blkcnt
    /\ stage = "stop" => idx = "CMD12" /\ op.kind # "erase"
    /\ stage = "erase_end" => idx = "CMD33" /\ op.kind = "erase"
    /\ stage = "erase" => idx = "CMD38" /\ op.kind = "erase"
\* While a command is on the line no flag is set; an error that is pending was
\* raised since the last wait.
EmWire ==
    /\ emmc.cmd = "sent" => emmc.int = {} /\ pc \in {"appwait", "cmdwait"}
    /\ E!Pending \subseteq fresh
\* What sdCard says of the card.
EmKnown ==
    /\ sd.type \in {"unknown", "sc", "hc", "1"} /\ (op # None => sd.type # "unknown")
    /\ sd.power => sd.capacity = card.kind.hc
    /\ (sd.type = "sc" => ~card.kind.hc) /\ (sd.type = "hc" => card.kind.hc)
    /\ card.counted => sd.blkcnt /\ op # None

\* The command of the stage was sent and not answered yet; it was answered, and
\* the driver has seen or will see that it was taken.
Unsent   == pc = "cmd" \/ (pc = "cmdwait" /\ emmc.cmd = "sent")
Answered == \/ pc = "cmdwait" /\ "cmd_done" \in emmc.int /\ E!Pending = {} /\ ~emmc.err
            \/ pc = "idle" /\ resp = "ok"
            \/ pc \in {"block", "data_done", "end"}
Exactly  == sd.type # "1"

\* The first d blocks from s on were read; the first k were written.
ReadFrom(g, w, s, d) == /\ g \in Seq(Nat \X Contents) /\ Len(g) = d
                        /\ \A i \in 1 .. d : g[i] = <<s + i - 1, w[s + i - 1]>>
AllRead(w, s, n) == [i \in 1 .. n |-> <<s + i - 1, w[s + i - 1]>>]
WrittenFrom(f, w, s, k) == f = [b \in Blocks |-> IF b \in s .. s + k - 1 THEN "new" ELSE w[b]]
ErasedFrom(f, w, s, e) == f = [b \in Blocks |-> IF b \in s .. e THEN "erased" ELSE w[b]]
\* How far a block is on its way.
InHand == IF emmc.buf = <<>> THEN 0 ELSE 1

\* Before the command that moves data nothing moves.
EmQuiet ==
    /\ stage = "blkcnt" \/ (stage = "transfer" /\ pc = "cmd") => got = <<>> /\ done = 0
    /\ stage \in {"blkcnt", "erase_end"} \/ (stage = "transfer" /\ (pc = "cmd" \/ op.kind = "erase"))
         \/ (stage = "erase" /\ Unsent)
       => emmc.dat = "none" /\ card.data = was
    /\ stage = "transfer" /\ op.kind # "erase" /\ pc = "cmdwait" /\ emmc.cmd = "sent"
       => /\ got = <<>> /\ done = 0 /\ card.data = was
          /\ emmc.dat # "none" /\ emmc.left = op.n /\ emmc.buf = <<>>
\* The card was told the number of blocks.
EmCounted ==
    /\ stage = "blkcnt" /\ Answered => card.counted
    /\ stage = "transfer" /\ Unsent /\ op.kind # "erase" /\ op.n > 1 => (sd.blkcnt <=> card.counted)
\* An erase has set its range.
EmErase ==
    /\ stage = "transfer" /\ op.kind = "erase" /\ Answered
       => card.state = "tran" /\ (Exactly => card.from = op.start)
    /\ stage = "erase_end"
       => card.state = "tran" /\ (Exactly => card.from = op.start)
    /\ stage = "erase_end" /\ Answered => (Exactly => card.to = op.start + op.n)
    /\ stage = "erase" /\ Unsent
       => card.state = "tran" /\ (Exactly => card.from = op.start /\ card.to = op.start + op.n)
    /\ stage = "erase" /\ Answered
       => card.state = "tran" /\ (Exactly => ErasedFrom(card.data, was, op.start, op.start + op.n))
\* A transfer is under way: how far the card, the controller and the driver are.
ReadFlow ==
    /\ card.state \in {"data", "tran"} /\ emmc.left >= 0 /\ done + InHand + emmc.left = op.n
    /\ "ready" \in emmc.int => emmc.buf # <<>>
    /\ pc = "end" => done = op.n
ReadData ==
    /\ card.data = was /\ card.next = op.start + op.n - emmc.left
    /\ ReadFrom(got, was, op.start, done)
    /\ emmc.buf # <<>> => emmc.buf = <<op.start + done, was[op.start + done]>>
EmRead == stage = "transfer" /\ op.kind = "read" /\ Answered => ReadFlow /\ (Exactly => ReadData)
WriteFlow ==
    /\ card.state \in {"rcv", "tran"} /\ emmc.left >= 0 /\ emmc.left <= op.n
    /\ emmc.buf \in {<<>>, <<"empty">>, <<"new">>} /\ (emmc.buf # <<>> => emmc.left > 0)
    /\ done + emmc.left = op.n + (IF emmc.buf = <<"new">> THEN 1 ELSE 0)
    /\ "ready" \in emmc.int => emmc.buf = <<"empty">>
    /\ "data_done" \in emmc.int \/ pc = "end" => emmc.left = 0 /\ emmc.buf = <<>>
    /\ pc = "data_done" => done = op.n
WriteData ==
    /\ card.next = op.start + op.n - emmc.left
    /\ WrittenFrom(card.data, was, op.start, op.n - emmc.left)
EmWrite == stage = "transfer" /\ op.kind = "write" /\ Answered => WriteFlow /\ (Exactly => WriteData)
\* The card leaves the transfer by itself if it knows the number of blocks.
EmEnds ==
    stage = "transfer" /\ op.kind # "erase" /\ Answered =>
      /\ card.ends = (op.n = 1 \/ sd.blkcnt)
      /\ card.state \in {"tran", "data", "rcv"} /\ (card.state = "tran" => card.ends)
      /\ emmc.dat = "none" /\ E!Pending = {} /\ card.ends => card.state = "tran"
\* What a transfer that has moved all blocks leaves behind.
Moved == /\ Exactly => E!Exact
         /\ op.kind # "erase" => emmc.left = 0 /\ emmc.buf = <<>>
EmDone ==
    /\ stage = "stop" => Moved /\ (Answered => card.state = "tran")
    /\ stage = "ready" /\ op # None /\ passed = "ok" =>
         /\ Moved /\ card.state \in {"tran", "data", "rcv"}
         /\ card.state # "tran" => /\ card.ends /\ op.kind # "erase"
                                   /\ emmc.dat # "none" \/ E!Pending # {}

EmmcInv == /\ EmType /\ EmController /\ EmCard /\ EmControl /\ EmWire /\ EmKnown
           /\ EmQuiet /\ EmCounted /\ EmErase /\ EmRead /\ EmWrite /\ EmEnds /\ EmDone

-----------------------------------------------------------------------------
(* Facts about the constants and the operators of Emmc.                    *)

\* The assumptions on the constants, for one transfer and one card.
LEMMA EmmcConsts ==
    /\ Blocks \subseteq Nat /\ SectorBytes \in Nat /\ SectorBytes > 0 /\ None \notin Ops
    /\ \A o \in Ops : /\ o.kind \in {"read", "write", "erase"} /\ o.start \in Nat
                      /\ o.n \in Nat /\ o.n > 0 /\ o.start .. o.start + o.n - 1 \subseteq Blocks
    /\ \A c \in Cards : c.hc \in BOOLEAN /\ c.blkcnt \in BOOLEAN
<1>1. /\ Blocks \subseteq Nat /\ SectorBytes \in Nat /\ SectorBytes > 0 /\ None \notin Ops
      /\ \A o \in Ops : /\ o.start \in Nat /\ o.n \in Nat \ {0}
                        /\ o.start .. o.start + o.n - 1 \subseteq Blocks
  BY StorageConstants DEF E!EmmcConstants
<1>2. \A o \in Ops : o.kind \in {"read", "write", "erase"} BY DEF Ops
<1>3. \A c \in Cards : c.hc \in BOOLEAN /\ c.blkcnt \in BOOLEAN BY DEF Cards
<1> QED BY <1>1, <1>2, <1>3

\* The places of a block in the controller's buffer differ.
LEMMA Buffers ==
    /\ <<"new">> # << >> /\ <<"empty">> # << >> /\ <<"new">> # <<"empty">> /\ <<"scr">> # << >>
    /\ \A a, b : <<a, b>> # << >>
OBVIOUS

\* A wait that succeeds saw its flag and no error; no wait leaves an error.
LEMMA WaitSucceeds ==
    ASSUME NEW flag, E!WaitResult(flag) = "ok"
    PROVE  emmc.int \cap E!Errors = {} /\ flag \in emmc.int /\ E!WaitClears(flag) = emmc.int \ {flag}
BY DEF E!WaitResult, E!WaitClears
LEMMA WaitForgets ==
    ASSUME NEW flag
    PROVE  E!WaitClears(flag) \cap E!Errors = {} /\ E!WaitClears(flag) \subseteq emmc.int
BY DEF E!WaitClears
LEMMA WaitResults ==
    ASSUME NEW flag PROVE E!WaitResult(flag) \in {"ok", "timeout", "error"}
BY DEF E!WaitResult

\* The byte address of a block leads back to the block.
LEMMA ByteAddress ==
    ASSUME NEW b \in Nat PROVE (b * SectorBytes) \div SectorBytes = b
<1> DEFINE p == b * SectorBytes
           q == p \div SectorBytes
<1>1. SectorBytes \in Nat /\ SectorBytes > 0 BY EmmcConsts
<1>2. p \in Nat BY <1>1
<1>3. q \in Int /\ q * SectorBytes <= p /\ p < (q + 1) * SectorBytes BY <1>1, <1>2
<1>4. ASSUME q < b PROVE FALSE
  <2>1. (q + 1) * SectorBytes <= b * SectorBytes BY <1>1, <1>3, <1>4
  <2> QED BY <1>1, <1>2, <1>3, <2>1
<1>5. ASSUME q > b PROVE FALSE
  <2>1. (b + 1) * SectorBytes <= q * SectorBytes BY <1>1, <1>3, <1>5
  <2>2. (b + 1) * SectorBytes = p + SectorBytes BY <1>1
  <2> QED BY <1>1, <1>2, <1>3, <2>1, <2>2
<1> QED BY <1>3, <1>4, <1>5

\* Reading: nothing yet, one more block, all of them.
LEMMA ReadNone ==
    ASSUME NEW w, NEW s \in Nat PROVE ReadFrom(<<>>, w, s, 0)
BY DEF ReadFrom
LEMMA ReadMore ==
    ASSUME NEW g, NEW w \in [Blocks -> Contents], NEW s \in Nat, NEW d \in Nat,
           ReadFrom(g, w, s, d), s + d \in Blocks, NEW b, b = <<s + d, w[s + d]>>
    PROVE  ReadFrom(Append(g, b), w, s, d + 1)
<1>1. g \in Seq(Nat \X Contents) /\ Len(g) = d BY DEF ReadFrom
<1>2. b \in Nat \X Contents BY EmmcConsts
<1>3. Append(g, b) \in Seq(Nat \X Contents) /\ Len(Append(g, b)) = d + 1 BY <1>1, <1>2
<1>4. ASSUME NEW i \in 1 .. d + 1 PROVE Append(g, b)[i] = <<s + i - 1, w[s + i - 1]>>
  <2>1. CASE i = d + 1
    <3>1. Append(g, b)[i] = b BY <1>1, <1>2, <2>1
    <3>2. s + i - 1 = s + d BY <2>1
    <3> QED BY <3>1, <3>2
  <2>2. CASE i \in 1 .. d
    <3>1. Append(g, b)[i] = g[i] BY <1>1, <1>2, <2>2
    <3> QED BY <3>1, <2>2 DEF ReadFrom
  <2>3. i = d + 1 \/ i \in 1 .. d OBVIOUS
  <2> QED BY <2>1, <2>2, <2>3
<1> QED BY <1>3, <1>4 DEF ReadFrom
LEMMA ReadAll ==
    ASSUME NEW g, NEW w, NEW s \in Nat, NEW n \in Nat, ReadFrom(g, w, s, n)
    PROVE  g = AllRead(w, s, n)
<1>1. g \in Seq(Nat \X Contents) /\ Len(g) = n BY DEF ReadFrom
<1>2. DOMAIN g = 1 .. n /\ g = [i \in DOMAIN g |-> g[i]] BY <1>1
<1> QED BY <1>2 DEF ReadFrom, AllRead

\* Writing: nothing yet, one more block.
LEMMA WrittenNone ==
    ASSUME NEW w \in [Blocks -> Contents], NEW s \in Nat PROVE WrittenFrom(w, w, s, 0)
<1>1. \A b \in Blocks : b \notin s .. s + 0 - 1 BY EmmcConsts
<1>2. w = [b \in Blocks |-> w[b]] OBVIOUS
<1> QED BY <1>1, <1>2 DEF WrittenFrom
LEMMA WrittenMore ==
    ASSUME NEW f, NEW w, NEW s \in Nat, NEW k \in Nat, WrittenFrom(f, w, s, k)
    PROVE  WrittenFrom([b \in Blocks |-> IF b = s + k THEN "new" ELSE f[b]], w, s, k + 1)
<1> DEFINE h == [b \in Blocks |-> IF b = s + k THEN "new" ELSE f[b]]
<1>1. ASSUME NEW b \in Blocks
      PROVE  h[b] = IF b \in s .. s + (k + 1) - 1 THEN "new" ELSE w[b]
  <2>1. b \in Nat BY EmmcConsts
  <2>2. f[b] = IF b \in s .. s + k - 1 THEN "new" ELSE w[b] BY DEF WrittenFrom
  <2> QED BY <2>1, <2>2
<1> HIDE DEF h
<1>2. h = [b \in Blocks |-> h[b]] BY DEF h
<1> QED BY <1>1, <1>2 DEF WrittenFrom, h

\* The three kinds of transfers, once all is moved.
LEMMA ExactRead ==
    ASSUME op \in Ops, op.kind = "read", card.data = was, ReadFrom(got, was, op.start, op.n)
    PROVE  E!Exact
<1>1. op.start \in Nat /\ op.n \in Nat BY EmmcConsts
<1>2. got = AllRead(was, op.start, op.n) BY <1>1, ReadAll
<1> QED BY <1>2 DEF E!Exact, E!Expected, AllRead
LEMMA ExactWrite ==
    ASSUME op \in Ops, op.kind = "write", WrittenFrom(card.data, was, op.start, op.n)
    PROVE  E!Exact
BY EmmcConsts DEF E!Exact, E!Expected, E!Asked, WrittenFrom
LEMMA ExactErase ==
    ASSUME op \in Ops, op.kind = "erase", ErasedFrom(card.data, was, op.start, op.start + op.n)
    PROVE  E!Exact
<1>1. op.start \in Nat /\ op.n \in Nat /\ op.n > 0 BY EmmcConsts
<1>2. \A b \in Blocks : b \in op.start .. op.start + op.n
                         <=> b \in E!Asked \cup {op.start + op.n}
  BY <1>1, EmmcConsts DEF E!Asked
<1> QED BY <1>2 DEF E!Exact, E!Expected, ErasedFrom

\* What an addressed command means to the card, if the driver knows its kind.
LEMMA AddressMeans ==
    ASSUME op \in Ops, EmKnown, sd.type \in {"sc", "hc"}, EmCard
    PROVE  /\ E!OnLine # "CMD33" => E!Target = op.start
           /\ E!OnLine = "CMD33" => E!Target = op.start + op.n
<1>1. op.start \in Nat /\ op.n \in Nat /\ op.start + op.n \in Nat /\ SectorBytes \in Nat
  BY EmmcConsts
<1>2. /\ (op.start * SectorBytes) \div SectorBytes = op.start
      /\ ((op.start + op.n) * SectorBytes) \div SectorBytes = op.start + op.n
  BY <1>1, ByteAddress
<1>3. CASE sd.type = "sc"
  BY <1>2, <1>3 DEF EmKnown, E!Target, E!Arg, E!Address
<1>4. CASE sd.type = "hc"
  BY <1>4 DEF EmKnown, E!Target, E!Arg, E!Address
<1> QED BY <1>3, <1>4

\* The controller and the card: blocks.
LEMMA EmBlockWanted ==
    ASSUME EmmcInv, E!BlockWanted PROVE EmmcInv'
<1> USE EmmcConsts, Buffers
<1>1. /\ emmc.dat = "moving" /\ emmc.cmd = "none" /\ card.state = "rcv" /\ emmc.left > 0
      /\ emmc.buf = <<>>
      /\ emmc' = [emmc EXCEPT !.int = emmc.int \cup {"ready"}, !.buf = <<"empty">>]
      /\ UNCHANGED <<stage, pc, idx, resp, sd, card, op, done, got, passed, was, fresh>>
  BY DEF E!Driver, E!call, E!vars, E!BlockWanted, E!Moving
<1>2. /\ DOMAIN emmc' = DOMAIN emmc /\ emmc'.int = emmc.int \cup {"ready"}
      /\ emmc'.cmd = emmc.cmd /\ emmc'.dat = emmc.dat /\ emmc'.left = emmc.left
      /\ emmc'.buf = <<"empty">> /\ emmc'.err = emmc.err
  BY <1>1 DEF EmmcInv, EmController
<1>3. EmType'
  BY <1>1, <1>2 DEF EmmcInv, EmType, EmController, EmCard, EmControl, EmmcInitStages,
    EmmcCallStages, EmmcFlags, E!Errors, E!Pending
<1>4. EmController'
  BY <1>1, <1>2 DEF EmmcInv, EmType, EmController, EmCard, EmmcInitStages, EmmcCallStages,
    EmmcFlags, E!Errors, E!Pending
<1>5. EmCard'
  BY <1>1, <1>2 DEF EmmcInv, EmType, EmController, EmCard, EmmcInitStages, EmmcCallStages,
    EmmcFlags, E!Errors, E!Pending
<1>6. EmControl'
  BY <1>1, <1>2 DEF EmmcInv, EmType, EmController, EmCard, EmControl, E!TransferCmd,
    EmmcInitStages, EmmcCallStages, EmmcFlags, E!Errors, E!Pending
<1>7. EmWire'
  BY <1>1, <1>2 DEF EmmcInv, EmType, EmController, EmCard, EmControl, EmWire,
    EmmcInitStages, EmmcCallStages, EmmcFlags, E!Errors, E!Pending
<1>8. EmKnown'
  BY <1>1, <1>2 DEF EmmcInv, EmType, EmController, EmCard, EmControl, EmKnown, EmWire,
    EmmcInitStages, EmmcCallStages, EmmcFlags, E!Errors, E!Pending
<1>9. EmQuiet'
  BY <1>1, <1>2 DEF EmmcInv, EmType, EmController, EmCard, EmControl, EmWire, EmQuiet,
    Unsent, E!TransferCmd, EmmcInitStages, EmmcCallStages, EmmcFlags, E!Errors, E!Pending
<1>10. EmCounted'
  BY <1>1, <1>2 DEF EmmcInv, EmType, EmController, EmCard, EmControl, EmWire, EmKnown,
    EmCounted, Unsent, Answered, E!TransferCmd, EmmcInitStages, EmmcCallStages, EmmcFlags,
    E!Errors, E!Pending
<1>11. EmErase'
  BY <1>1, <1>2 DEF EmmcInv, EmType, EmController, EmCard, EmControl, EmWire, EmKnown,
    EmQuiet, EmErase, Unsent, Answered, Exactly, E!TransferCmd, EmmcInitStages,
    EmmcCallStages, EmmcFlags, E!Errors, E!Pending
<1>12. EmRead'
  BY <1>1, <1>2 DEF EmmcInv, EmType, EmController, EmCard, EmControl, EmWire, EmKnown,
    EmQuiet, EmRead, ReadFlow, ReadData, Answered, Exactly, InHand, EmmcInitStages,
    EmmcCallStages, EmmcFlags, E!Errors, E!Pending
<1>13. EmWrite'
  BY <1>1, <1>2 DEF EmmcInv, EmType, EmController, EmCard, EmControl, EmWire, EmKnown,
    EmQuiet, EmWrite, WriteFlow, WriteData, Answered, Exactly, EmmcInitStages,
    EmmcCallStages, EmmcFlags, E!Errors, E!Pending
<1>14. EmEnds'
  BY <1>1, <1>2 DEF EmmcInv, EmType, EmController, EmCard, EmControl, EmWire, EmKnown,
    EmCounted, EmEnds, Unsent, Answered, E!TransferCmd, EmmcInitStages, EmmcCallStages,
    EmmcFlags, E!Errors, E!Pending
<1>15. EmDone'
  BY <1>1, <1>2 DEF EmmcInv, EmType, EmController, EmCard, EmControl, EmWire, EmKnown,
    EmDone, Moved, Answered, Exactly, E!Exact, E!Expected, E!Asked, EmmcInitStages,
    EmmcCallStages, EmmcFlags, E!Errors, E!Pending
<1> QED BY <1>3, <1>4, <1>5, <1>6, <1>7, <1>8, <1>9, <1>10, <1>11, <1>12, <1>13, <1>14,
  <1>15 DEF EmmcInv

LEMMA EmBlockOut ==
    ASSUME EmmcInv, E!BlockOut PROVE EmmcInv'
<1> USE EmmcConsts, Buffers
<1>1. /\ emmc.dat = "moving" /\ emmc.cmd = "none" /\ card.state = "rcv"
      /\ emmc.buf = <<"new">> /\ emmc' = [emmc EXCEPT !.buf = <<>>, !.left = emmc.left - 1]
      /\ card' = [card EXCEPT !.data = [b \in Blocks |-> IF b = card.next THEN "new" ELSE card.data[b]], !.next = card.next + 1]
      /\ UNCHANGED <<stage, pc, idx, resp, sd, op, done, got, passed, was, fresh>>
  BY DEF E!Driver, E!call, E!vars, E!BlockOut, E!Moving
<1>2. /\ DOMAIN emmc' = DOMAIN emmc /\ emmc'.int = emmc.int /\ emmc'.cmd = emmc.cmd
      /\ emmc'.dat = emmc.dat /\ emmc'.left = emmc.left - 1 /\ emmc'.buf = <<>>
      /\ emmc'.err = emmc.err
  BY <1>1 DEF EmmcInv, EmController
<1>3. /\ DOMAIN card' = DOMAIN card /\ card'.kind = card.kind /\ card'.state = card.state
      /\ card'.counted = card.counted /\ card'.ends = card.ends
      /\ card'.next = card.next + 1 /\ card'.from = card.from /\ card'.to = card.to
      /\ card'.data = [b \in Blocks |-> IF b = card.next THEN "new" ELSE card.data[b]]
  BY <1>1 DEF EmmcInv, EmCard
<1>4. EmType'
  BY <1>1, <1>2, <1>3 DEF EmmcInv, EmType, EmController, EmCard, EmControl, EmmcInitStages,
    EmmcCallStages, EmmcFlags, E!Errors, E!Pending
<1>5. EmController'
  BY <1>1, <1>2, <1>3 DEF EmmcInv, EmType, EmController, EmCard, EmmcInitStages,
    EmmcCallStages, EmmcFlags, E!Errors, E!Pending
<1>6. EmCard'
  BY <1>1, <1>2, <1>3 DEF EmmcInv, EmType, EmController, EmCard, Contents, EmmcInitStages,
    EmmcCallStages, EmmcFlags, E!Errors, E!Pending
<1>7. EmControl'
  BY <1>1, <1>2, <1>3 DEF EmmcInv, EmType, EmController, EmCard, EmControl, E!TransferCmd,
    EmmcInitStages, EmmcCallStages, EmmcFlags, E!Errors, E!Pending
<1>8. EmWire'
  BY <1>1, <1>2, <1>3 DEF EmmcInv, EmType, EmController, EmCard, EmControl, EmWire,
    EmmcInitStages, EmmcCallStages, EmmcFlags, E!Errors, E!Pending
<1>9. EmKnown'
  BY <1>1, <1>2, <1>3 DEF EmmcInv, EmType, EmController, EmCard, EmControl, EmKnown, EmWire,
    EmmcInitStages, EmmcCallStages, EmmcFlags, E!Errors, E!Pending
<1>10. EmQuiet'
  BY <1>1, <1>2, <1>3 DEF EmmcInv, EmType, EmController, EmCard, EmControl, EmWire, EmQuiet,
    Unsent, E!TransferCmd, EmmcInitStages, EmmcCallStages, EmmcFlags, E!Errors, E!Pending
<1>11. EmCounted'
  BY <1>1, <1>2, <1>3 DEF EmmcInv, EmType, EmController, EmCard, EmControl, EmWire, EmKnown,
    EmCounted, Unsent, Answered, E!TransferCmd, EmmcInitStages, EmmcCallStages, EmmcFlags,
    E!Errors, E!Pending
<1>12. EmErase'
  BY <1>1, <1>2, <1>3 DEF EmmcInv, EmType, EmController, EmCard, EmControl, EmWire, EmKnown,
    EmQuiet, EmErase, Unsent, Answered, Exactly, E!TransferCmd, EmmcInitStages,
    EmmcCallStages, EmmcFlags, E!Errors, E!Pending
<1>13. EmRead'
  BY <1>1, <1>2, <1>3 DEF EmmcInv, EmType, EmController, EmCard, EmControl, EmWire, EmKnown,
    EmQuiet, EmRead, ReadFlow, ReadData, Answered, Exactly, InHand, EmmcInitStages,
    EmmcCallStages, EmmcFlags, E!Errors, E!Pending
<1>14. EmWrite'
  <2> SUFFICES ASSUME stage = "transfer", op.kind = "write", Answered
               PROVE  (WriteFlow /\ (Exactly => WriteData))'
    BY <1>1, <1>2 DEF EmWrite, Answered, E!Pending
  <2>1. op \in Ops /\ op.start \in Nat /\ op.n \in Nat
    BY DEF EmmcInv, EmType, EmControl, EmmcCallStages
  <2>2. WriteFlow /\ (Exactly => WriteData) BY DEF EmmcInv, EmWrite
  <2>3. WriteFlow'
    <3>1. /\ emmc.left > 0 /\ emmc.left <= op.n /\ done + emmc.left = op.n + 1
          /\ "data_done" \notin emmc.int /\ pc # "end" /\ "ready" \notin emmc.int
          /\ card.state \in {"rcv", "tran"} /\ (pc = "data_done" => done = op.n)
      BY <1>1, <2>2 DEF WriteFlow
    <3> DEFINE l == emmc.left
               n == op.n
    <3>2. /\ l \in Int /\ n \in Nat /\ done \in Nat /\ l > 0 /\ l <= n /\ done + l = n + 1
          /\ emmc'.left = l - 1
      BY <1>2, <2>1, <3>1 DEF EmmcInv, EmType, EmController
    <3> HIDE DEF l, n
    <3>3. l - 1 >= 0 /\ l - 1 <= n /\ done + (l - 1) = n BY ONLY <3>2
    <3>4. emmc'.buf = << >> BY <1>2
    <3> QED BY <1>1, <1>2, <1>3, <3>1, <3>2, <3>3, <3>4 DEF WriteFlow, n
  <2>4. ASSUME Exactly PROVE WriteData'
    <3> DEFINE k == op.n - emmc.left
    <3>1. /\ k \in Nat /\ card.next = op.start + k /\ op.n - (emmc.left - 1) = k + 1
          /\ WrittenFrom(card.data, was, op.start, k)
      BY <1>1, <2>1, <2>2, <2>4 DEF EmmcInv, EmController, WriteFlow, WriteData
    <3>2. op.start + k + 1 = op.start + op.n - (emmc.left - 1)
      BY <1>1, <2>1 DEF EmmcInv, EmController
    <3> HIDE DEF k
    <3> QED BY <1>1, <1>2, <1>3, <2>1, <3>1, <3>2, WrittenMore DEF WriteData
  <2> QED BY <1>1, <2>3, <2>4 DEF Exactly
<1>15. EmEnds'
  BY <1>1, <1>2, <1>3 DEF EmmcInv, EmType, EmController, EmCard, EmControl, EmWire, EmKnown,
    EmCounted, EmEnds, Unsent, Answered, E!TransferCmd, EmmcInitStages, EmmcCallStages,
    EmmcFlags, E!Errors, E!Pending
<1>16. EmDone'
  BY <1>1, <1>2, <1>3 DEF EmmcInv, EmType, EmController, EmCard, EmControl, EmWire, EmKnown,
    EmDone, Moved, Answered, Exactly, E!Exact, E!Expected, E!Asked, EmmcInitStages,
    EmmcCallStages, EmmcFlags, E!Errors, E!Pending
<1> QED BY <1>4, <1>5, <1>6, <1>7, <1>8, <1>9, <1>10, <1>11, <1>12, <1>13, <1>14, <1>15,
  <1>16 DEF EmmcInv

LEMMA EmDataOver ==
    ASSUME EmmcInv, E!DataOver PROVE EmmcInv'
<1> USE EmmcConsts, Buffers
<1>1. /\ emmc.dat = "moving" /\ emmc.cmd = "none" /\ emmc.left = 0 /\ emmc.buf = <<>>
      /\ emmc' = [emmc EXCEPT !.int = emmc.int \cup {"data_done"}, !.dat = "none"]
      /\ card' = [card EXCEPT !.state = IF card.ends /\ card.state \in {"data", "rcv"} THEN "tran" ELSE card.state]
      /\ UNCHANGED <<stage, pc, idx, resp, sd, op, done, got, passed, was, fresh>>
  BY DEF E!Driver, E!call, E!vars, E!DataOver, E!Moving
<1>2. /\ DOMAIN emmc' = DOMAIN emmc /\ emmc'.int = emmc.int \cup {"data_done"}
      /\ emmc'.cmd = emmc.cmd /\ emmc'.dat = "none" /\ emmc'.left = emmc.left
      /\ emmc'.buf = emmc.buf /\ emmc'.err = emmc.err
  BY <1>1 DEF EmmcInv, EmController
<1>3. /\ DOMAIN card' = DOMAIN card /\ card'.kind = card.kind
      /\ card'.state = IF card.ends /\ card.state \in {"data", "rcv"} THEN "tran" ELSE card.state
      /\ card'.counted = card.counted /\ card'.ends = card.ends /\ card'.next = card.next
      /\ card'.from = card.from /\ card'.to = card.to /\ card'.data = card.data
  BY <1>1 DEF EmmcInv, EmCard
<1>4. card'.state \in {card.state, "tran"}
  BY <1>3
<1>5. EmType'
  BY <1>1, <1>2, <1>3, <1>4 DEF EmmcInv, EmType, EmController, EmCard, EmControl,
    EmmcInitStages, EmmcCallStages, EmmcFlags, E!Errors, E!Pending
<1>6. EmController'
  BY <1>1, <1>2, <1>3, <1>4 DEF EmmcInv, EmType, EmController, EmCard, EmmcInitStages,
    EmmcCallStages, EmmcFlags, E!Errors, E!Pending
<1>7. EmCard'
  BY <1>1, <1>2, <1>3, <1>4 DEF EmmcInv, EmType, EmController, EmCard, EmmcInitStages,
    EmmcCallStages, EmmcFlags, E!Errors, E!Pending
<1>8. EmControl'
  BY <1>1, <1>2, <1>3, <1>4 DEF EmmcInv, EmType, EmController, EmCard, EmControl,
    E!TransferCmd, EmmcInitStages, EmmcCallStages, EmmcFlags, E!Errors, E!Pending
<1>9. EmWire'
  BY <1>1, <1>2, <1>3, <1>4 DEF EmmcInv, EmType, EmController, EmCard, EmControl, EmWire,
    EmmcInitStages, EmmcCallStages, EmmcFlags, E!Errors, E!Pending
<1>10. EmKnown'
  BY <1>1, <1>2, <1>3, <1>4 DEF EmmcInv, EmType, EmController, EmCard, EmControl, EmKnown,
    EmWire, EmmcInitStages, EmmcCallStages, EmmcFlags, E!Errors, E!Pending
<1>11. EmQuiet'
  BY <1>1, <1>2, <1>3, <1>4 DEF EmmcInv, EmType, EmController, EmCard, EmControl, EmWire,
    EmQuiet, Unsent, E!TransferCmd, EmmcInitStages, EmmcCallStages, EmmcFlags, E!Errors,
    E!Pending
<1>12. EmCounted'
  BY <1>1, <1>2, <1>3, <1>4 DEF EmmcInv, EmType, EmController, EmCard, EmControl, EmWire,
    EmKnown, EmCounted, Unsent, Answered, E!TransferCmd, EmmcInitStages, EmmcCallStages,
    EmmcFlags, E!Errors, E!Pending
<1>13. EmErase'
  BY <1>1, <1>2, <1>3, <1>4 DEF EmmcInv, EmType, EmController, EmCard, EmControl, EmWire,
    EmKnown, EmQuiet, EmErase, Unsent, Answered, Exactly, E!TransferCmd, EmmcInitStages,
    EmmcCallStages, EmmcFlags, E!Errors, E!Pending
<1>14. EmRead'
  BY <1>1, <1>2, <1>3, <1>4 DEF EmmcInv, EmType, EmController, EmCard, EmControl, EmWire,
    EmKnown, EmQuiet, EmRead, ReadFlow, ReadData, Answered, Exactly, InHand, EmmcInitStages,
    EmmcCallStages, EmmcFlags, E!Errors, E!Pending
<1>15. EmWrite'
  <2> SUFFICES ASSUME stage = "transfer", op.kind = "write", Answered'
               PROVE  (WriteFlow /\ (Exactly => WriteData))'
    BY <1>1, <1>2, <1>3, <1>4 DEF EmWrite
  <2>1. Answered BY <1>1, <1>2, <1>3, <1>4 DEF Answered, E!Pending, E!Errors
  <2>2. WriteFlow /\ (Exactly => WriteData) BY <2>1 DEF EmmcInv, EmWrite
  <2>3. WriteFlow' BY <1>1, <1>2, <1>3, <1>4, <2>2 DEF EmmcInv, EmController, WriteFlow
  <2>4. Exactly' => WriteData' BY <1>1, <1>2, <1>3, <1>4, <2>2 DEF Exactly, WriteData
  <2> QED BY <2>3, <2>4
<1>16. EmEnds'
  BY <1>1, <1>2, <1>3, <1>4 DEF EmmcInv, EmType, EmController, EmCard, EmControl, EmWire,
    EmKnown, EmCounted, EmEnds, Unsent, Answered, E!TransferCmd, EmmcInitStages,
    EmmcCallStages, EmmcFlags, E!Errors, E!Pending
<1>17. EmDone'
  BY <1>1, <1>2, <1>3, <1>4 DEF EmmcInv, EmType, EmController, EmCard, EmControl, EmWire,
    EmKnown, EmDone, Moved, Answered, Exactly, E!Exact, E!Expected, E!Asked, EmmcInitStages,
    EmmcCallStages, EmmcFlags, E!Errors, E!Pending
<1> QED BY <1>5, <1>6, <1>7, <1>8, <1>9, <1>10, <1>11, <1>12, <1>13, <1>14, <1>15, <1>16,
  <1>17 DEF EmmcInv

LEMMA EmNoData ==
    ASSUME EmmcInv, E!NoData PROVE EmmcInv'
<1> USE EmmcConsts, Buffers
<1>1. /\ emmc.dat = "moving" /\ emmc.cmd = "none" /\ card.state \notin {"data", "rcv"}
      /\ emmc.left > 0
      /\ emmc' = [emmc EXCEPT !.int = emmc.int \cup {"datato"}, !.dat = "none"]
      /\ fresh' = fresh \cup {"datato"}
      /\ UNCHANGED <<stage, pc, idx, resp, sd, card, op, done, got, passed, was>>
  BY DEF E!Driver, E!call, E!vars, E!NoData, E!Moving, E!Raise
<1>2. /\ DOMAIN emmc' = DOMAIN emmc /\ emmc'.int = emmc.int \cup {"datato"}
      /\ emmc'.cmd = emmc.cmd /\ emmc'.dat = "none" /\ emmc'.left = emmc.left
      /\ emmc'.buf = emmc.buf /\ emmc'.err = emmc.err
  BY <1>1 DEF EmmcInv, EmController
<1>3. EmType'
  BY <1>1, <1>2 DEF EmmcInv, EmType, EmController, EmCard, EmControl, EmmcInitStages,
    EmmcCallStages, EmmcFlags, E!Errors, E!Pending
<1>4. EmController'
  BY <1>1, <1>2 DEF EmmcInv, EmType, EmController, EmCard, EmmcInitStages, EmmcCallStages,
    EmmcFlags, E!Errors, E!Pending
<1>5. EmCard'
  BY <1>1, <1>2 DEF EmmcInv, EmType, EmController, EmCard, EmmcInitStages, EmmcCallStages,
    EmmcFlags, E!Errors, E!Pending
<1>6. EmControl'
  BY <1>1, <1>2 DEF EmmcInv, EmType, EmController, EmCard, EmControl, E!TransferCmd,
    EmmcInitStages, EmmcCallStages, EmmcFlags, E!Errors, E!Pending
<1>7. EmWire'
  BY <1>1, <1>2 DEF EmmcInv, EmType, EmController, EmCard, EmControl, EmWire,
    EmmcInitStages, EmmcCallStages, EmmcFlags, E!Errors, E!Pending
<1>8. EmKnown'
  BY <1>1, <1>2 DEF EmmcInv, EmType, EmController, EmCard, EmControl, EmKnown, EmWire,
    EmmcInitStages, EmmcCallStages, EmmcFlags, E!Errors, E!Pending
<1>9. EmQuiet'
  BY <1>1, <1>2 DEF EmmcInv, EmType, EmController, EmCard, EmControl, EmWire, EmQuiet,
    Unsent, E!TransferCmd, EmmcInitStages, EmmcCallStages, EmmcFlags, E!Errors, E!Pending
<1>10. EmCounted'
  BY <1>1, <1>2 DEF EmmcInv, EmType, EmController, EmCard, EmControl, EmWire, EmKnown,
    EmCounted, Unsent, Answered, E!TransferCmd, EmmcInitStages, EmmcCallStages, EmmcFlags,
    E!Errors, E!Pending
<1>11. EmErase'
  BY <1>1, <1>2 DEF EmmcInv, EmType, EmController, EmCard, EmControl, EmWire, EmKnown,
    EmQuiet, EmErase, Unsent, Answered, Exactly, E!TransferCmd, EmmcInitStages,
    EmmcCallStages, EmmcFlags, E!Errors, E!Pending
<1>12. EmRead'
  BY <1>1, <1>2 DEF EmmcInv, EmType, EmController, EmCard, EmControl, EmWire, EmKnown,
    EmQuiet, EmRead, ReadFlow, ReadData, Answered, Exactly, InHand, EmmcInitStages,
    EmmcCallStages, EmmcFlags, E!Errors, E!Pending
<1>13. EmWrite'
  BY <1>1, <1>2 DEF EmmcInv, EmType, EmController, EmCard, EmControl, EmWire, EmKnown,
    EmQuiet, EmWrite, WriteFlow, WriteData, Answered, Exactly, EmmcInitStages,
    EmmcCallStages, EmmcFlags, E!Errors, E!Pending
<1>14. EmEnds'
  BY <1>1, <1>2 DEF EmmcInv, EmType, EmController, EmCard, EmControl, EmWire, EmKnown,
    EmCounted, EmEnds, Unsent, Answered, E!TransferCmd, EmmcInitStages, EmmcCallStages,
    EmmcFlags, E!Errors, E!Pending
<1>15. EmDone'
  BY <1>1, <1>2 DEF EmmcInv, EmType, EmController, EmCard, EmControl, EmWire, EmKnown,
    EmDone, Moved, Answered, Exactly, E!Exact, E!Expected, E!Asked, EmmcInitStages,
    EmmcCallStages, EmmcFlags, E!Errors, E!Pending
<1> QED BY <1>3, <1>4, <1>5, <1>6, <1>7, <1>8, <1>9, <1>10, <1>11, <1>12, <1>13, <1>14,
  <1>15 DEF EmmcInv

LEMMA EmBlockIn ==
    ASSUME EmmcInv, E!BlockIn PROVE EmmcInv'
<1> USE EmmcConsts, Buffers
<1>1. /\ emmc.dat = "moving" /\ emmc.cmd = "none" /\ card.state = "data" /\ emmc.left > 0
      /\ emmc.buf = <<>> /\ card' = [card EXCEPT !.next = card.next + 1]
      /\ UNCHANGED <<stage, pc, idx, resp, sd, op, done, got, passed, was, fresh>>
  BY DEF E!BlockIn, E!Moving, E!Driver, E!call
<1>2. PICK nb : /\ nb # << >>
                /\ idx # "ACMD51" /\ card.next \in Blocks => nb = <<card.next, card.data[card.next]>>
                /\ emmc' = [emmc EXCEPT !.int = emmc.int \cup {"ready"}, !.left = emmc.left - 1,
                                        !.buf = nb]
  <2> DEFINE b == IF idx = "ACMD51" \/ card.next \notin Blocks THEN <<"scr">>
                  ELSE <<card.next, card.data[card.next]>>
  <2>1. emmc' = [emmc EXCEPT !.int = emmc.int \cup {"ready"}, !.left = emmc.left - 1, !.buf = b]
    BY DEF E!BlockIn
  <2>2. b # << >> /\ (idx # "ACMD51" /\ card.next \in Blocks => b = <<card.next, card.data[card.next]>>)
    OBVIOUS
  <2> HIDE DEF b
  <2> QED BY <2>1, <2>2
<1>3. /\ DOMAIN emmc' = DOMAIN emmc /\ emmc'.int = emmc.int \cup {"ready"}
      /\ emmc'.cmd = emmc.cmd /\ emmc'.dat = emmc.dat /\ emmc'.left = emmc.left - 1
      /\ emmc'.buf = nb /\ emmc'.err = emmc.err
  BY <1>2 DEF EmmcInv, EmController
<1>4. /\ DOMAIN card' = DOMAIN card /\ card'.kind = card.kind /\ card'.state = card.state
      /\ card'.counted = card.counted /\ card'.ends = card.ends
      /\ card'.next = card.next + 1 /\ card'.from = card.from /\ card'.to = card.to
      /\ card'.data = card.data
  BY <1>1 DEF EmmcInv, EmCard
<1>5. EmType'
  BY <1>1, <1>2, <1>3, <1>4 DEF EmmcInv, EmType, EmController, EmCard, EmControl,
    EmmcInitStages, EmmcCallStages, EmmcFlags, E!Errors, E!Pending
<1>6. EmController'
  BY <1>1, <1>2, <1>3, <1>4 DEF EmmcInv, EmType, EmController, EmCard, EmmcInitStages,
    EmmcCallStages, EmmcFlags, E!Errors, E!Pending
<1>7. EmCard'
  BY <1>1, <1>2, <1>3, <1>4 DEF EmmcInv, EmType, EmController, EmCard, EmmcInitStages,
    EmmcCallStages, EmmcFlags, E!Errors, E!Pending
<1>8. EmControl'
  BY <1>1, <1>2, <1>3, <1>4 DEF EmmcInv, EmType, EmController, EmCard, EmControl,
    E!TransferCmd, EmmcInitStages, EmmcCallStages, EmmcFlags, E!Errors, E!Pending
<1>9. EmWire'
  BY <1>1, <1>2, <1>3, <1>4 DEF EmmcInv, EmType, EmController, EmCard, EmControl, EmWire,
    EmmcInitStages, EmmcCallStages, EmmcFlags, E!Errors, E!Pending
<1>10. EmKnown'
  BY <1>1, <1>2, <1>3, <1>4 DEF EmmcInv, EmType, EmController, EmCard, EmControl, EmKnown,
    EmWire, EmmcInitStages, EmmcCallStages, EmmcFlags, E!Errors, E!Pending
<1>11. EmQuiet'
  BY <1>1, <1>2, <1>3, <1>4 DEF EmmcInv, EmType, EmController, EmCard, EmControl, EmWire,
    EmQuiet, Unsent, E!TransferCmd, EmmcInitStages, EmmcCallStages, EmmcFlags, E!Errors,
    E!Pending
<1>12. EmCounted'
  BY <1>1, <1>2, <1>3, <1>4 DEF EmmcInv, EmType, EmController, EmCard, EmControl, EmWire,
    EmKnown, EmCounted, Unsent, Answered, E!TransferCmd, EmmcInitStages, EmmcCallStages,
    EmmcFlags, E!Errors, E!Pending
<1>13. EmErase'
  BY <1>1, <1>2, <1>3, <1>4 DEF EmmcInv, EmType, EmController, EmCard, EmControl, EmWire,
    EmKnown, EmQuiet, EmErase, Unsent, Answered, Exactly, E!TransferCmd, EmmcInitStages,
    EmmcCallStages, EmmcFlags, E!Errors, E!Pending
<1>14. EmRead'
  <2> SUFFICES ASSUME stage = "transfer", op.kind = "read", Answered
               PROVE  (ReadFlow /\ (Exactly => ReadData))'
    BY <1>1, <1>3 DEF EmRead, Answered, E!Pending, E!Errors
  <2>1. /\ op \in Ops /\ op.start \in Nat /\ op.n \in Nat
        /\ \A b \in op.start .. op.start + op.n - 1 : b \in Blocks
    BY DEF EmmcInv, EmType, EmControl, EmmcCallStages
  <2>2. ReadFlow /\ (Exactly => ReadData) BY DEF EmmcInv, EmRead
  <2>3. ReadFlow'
    BY <1>1, <1>2, <1>3, <1>4, <2>1, <2>2 DEF EmmcInv, EmType, EmController, ReadFlow, InHand
  <2>4. ASSUME Exactly PROVE ReadData'
    <3>1. /\ card.data = was /\ card.next = op.start + op.n - emmc.left
          /\ ReadFrom(got, was, op.start, done)
      BY <2>2, <2>4 DEF ReadData
    <3>2. done \in Nat /\ emmc.left \in Int /\ done + emmc.left = op.n
      BY <1>1, <2>1, <2>2 DEF EmmcInv, EmType, EmController, ReadFlow, InHand
    <3>3. card.next = op.start + done /\ card.next + 1 = op.start + op.n - (emmc.left - 1)
      BY <2>1, <3>1, <3>2
    <3>4. op.start + done \in Blocks
      <4>1. op.start + done \in op.start .. op.start + op.n - 1 BY <1>1, <2>1, <3>2
      <4> QED BY <2>1, <4>1
    <3>5. idx # "ACMD51" BY DEF EmmcInv, EmControl, E!TransferCmd
    <3>6. nb = <<op.start + done, was[op.start + done]>> BY <1>2, <3>1, <3>3, <3>4, <3>5
    <3> QED BY <1>1, <1>3, <1>4, <3>1, <3>3, <3>6 DEF ReadData
  <2> QED BY <1>1, <2>3, <2>4 DEF Exactly
<1>15. EmWrite'
  BY <1>1, <1>2, <1>3, <1>4 DEF EmmcInv, EmType, EmController, EmCard, EmControl, EmWire,
    EmKnown, EmQuiet, EmWrite, WriteFlow, WriteData, Answered, Exactly, EmmcInitStages,
    EmmcCallStages, EmmcFlags, E!Errors, E!Pending
<1>16. EmEnds'
  BY <1>1, <1>2, <1>3, <1>4 DEF EmmcInv, EmType, EmController, EmCard, EmControl, EmWire,
    EmKnown, EmCounted, EmEnds, Unsent, Answered, E!TransferCmd, EmmcInitStages,
    EmmcCallStages, EmmcFlags, E!Errors, E!Pending
<1>17. EmDone'
  BY <1>1, <1>2, <1>3, <1>4 DEF EmmcInv, EmType, EmController, EmCard, EmControl, EmWire,
    EmKnown, EmDone, Moved, Answered, Exactly, E!Exact, E!Expected, E!Asked, EmmcInitStages,
    EmmcCallStages, EmmcFlags, E!Errors, E!Pending
<1> QED BY <1>5, <1>6, <1>7, <1>8, <1>9, <1>10, <1>11, <1>12, <1>13, <1>14, <1>15, <1>16,
  <1>17 DEF EmmcInv

\* Errors of the data line, with or without a flag.
LEMMA EmDataFault ==
    ASSUME EmmcInv, E!DataFault PROVE EmmcInv'
<1> USE EmmcConsts, Buffers
<1>1. /\ emmc.dat # "none" /\ emmc.cmd = "none"
      /\ UNCHANGED <<stage, pc, idx, resp, sd, card, op, done, got, passed, was>>
  BY DEF E!DataFault, E!Driver, E!call
<1>2. PICK i, d : /\ emmc.int \subseteq i /\ i \subseteq emmc.int \cup {"crc", "datato"}
                  /\ d \in {"none", "moving", "stuck"} /\ (d = "none" => i \cap E!Errors # {})
                  /\ i \cap E!Errors \subseteq fresh' \cup E!Pending /\ fresh \subseteq fresh'
                  /\ emmc' = [emmc EXCEPT !.int = i, !.dat = d]
  <2>1. ASSUME NEW e \in {"crc", "datato"}, NEW d \in {"none", "stuck"}, fresh' = fresh \cup {e},
               emmc' = [emmc EXCEPT !.int = emmc.int \cup {e}, !.dat = d]
        PROVE  \E j \in {emmc.int \cup {e}} :
                 /\ j \cap E!Errors # {} /\ j \cap E!Errors \subseteq fresh' \cup E!Pending
                 /\ emmc.int \subseteq j /\ j \subseteq emmc.int \cup {"crc", "datato"}
                 /\ fresh \subseteq fresh' /\ emmc' = [emmc EXCEPT !.int = j, !.dat = d]
    BY <2>1 DEF E!Errors, E!Pending
  <2>2. ASSUME NEW d \in {"moving", "stuck"}, fresh' = fresh, emmc' = [emmc EXCEPT !.dat = d]
        PROVE  \E j \in {emmc.int} :
                 /\ j \cap E!Errors \subseteq fresh' \cup E!Pending
                 /\ emmc.int \subseteq j /\ j \subseteq emmc.int \cup {"crc", "datato"}
                 /\ fresh \subseteq fresh' /\ emmc' = [emmc EXCEPT !.int = j, !.dat = d]
    <3>1. emmc' = [emmc EXCEPT !.int = emmc.int, !.dat = d] BY <2>2 DEF EmmcInv, EmController
    <3> QED BY <2>2, <3>1 DEF E!Pending
  <2>3. \/ \E e \in {"crc", "datato"}, d \in {"none", "stuck"} :
              fresh' = fresh \cup {e} /\ emmc' = [emmc EXCEPT !.int = emmc.int \cup {e}, !.dat = d]
        \/ \E d \in {"moving", "stuck"} : fresh' = fresh /\ emmc' = [emmc EXCEPT !.dat = d]
    BY DEF E!DataFault, E!Raise
  <2> QED BY <2>1, <2>2, <2>3
<1>3. /\ DOMAIN emmc' = DOMAIN emmc /\ emmc'.int = i /\ emmc'.cmd = emmc.cmd
      /\ emmc'.dat = d /\ emmc'.left = emmc.left /\ emmc'.buf = emmc.buf
      /\ emmc'.err = emmc.err
  BY <1>2 DEF EmmcInv, EmController
<1>4. EmType'
  BY <1>1, <1>2, <1>3 DEF EmmcInv, EmType, EmController, EmCard, EmControl, EmmcInitStages,
    EmmcCallStages, EmmcFlags, E!Errors, E!Pending
<1>5. EmController'
  BY <1>1, <1>2, <1>3 DEF EmmcInv, EmType, EmController, EmCard, EmmcInitStages,
    EmmcCallStages, EmmcFlags, E!Errors, E!Pending
<1>6. EmCard'
  BY <1>1, <1>2, <1>3 DEF EmmcInv, EmType, EmController, EmCard, EmmcInitStages,
    EmmcCallStages, EmmcFlags, E!Errors, E!Pending
<1>7. EmControl'
  BY <1>1, <1>2, <1>3 DEF EmmcInv, EmType, EmController, EmCard, EmControl, E!TransferCmd,
    EmmcInitStages, EmmcCallStages, EmmcFlags, E!Errors, E!Pending
<1>8. EmWire'
  BY <1>1, <1>2, <1>3 DEF EmmcInv, EmType, EmController, EmCard, EmControl, EmWire,
    EmmcInitStages, EmmcCallStages, EmmcFlags, E!Errors, E!Pending
<1>9. EmKnown'
  BY <1>1, <1>2, <1>3 DEF EmmcInv, EmType, EmController, EmCard, EmControl, EmKnown, EmWire,
    EmmcInitStages, EmmcCallStages, EmmcFlags, E!Errors, E!Pending
<1>10. EmQuiet'
  BY <1>1, <1>2, <1>3 DEF EmmcInv, EmType, EmController, EmCard, EmControl, EmWire, EmQuiet,
    Unsent, E!TransferCmd, EmmcInitStages, EmmcCallStages, EmmcFlags, E!Errors, E!Pending
<1>11. EmCounted'
  BY <1>1, <1>2, <1>3 DEF EmmcInv, EmType, EmController, EmCard, EmControl, EmWire, EmKnown,
    EmCounted, Unsent, Answered, E!TransferCmd, EmmcInitStages, EmmcCallStages, EmmcFlags,
    E!Errors, E!Pending
<1>12. EmErase'
  BY <1>1, <1>2, <1>3 DEF EmmcInv, EmType, EmController, EmCard, EmControl, EmWire, EmKnown,
    EmQuiet, EmErase, Unsent, Answered, Exactly, E!TransferCmd, EmmcInitStages,
    EmmcCallStages, EmmcFlags, E!Errors, E!Pending
<1>13. EmRead'
  <2> SUFFICES ASSUME stage = "transfer", op.kind = "read", Answered'
               PROVE  (ReadFlow /\ (Exactly => ReadData))'
    BY <1>1, <1>2, <1>3 DEF EmRead
  <2>1. Answered BY <1>1, <1>2, <1>3 DEF Answered, E!Pending, E!Errors
  <2>2. ReadFlow /\ (Exactly => ReadData) BY <2>1 DEF EmmcInv, EmRead
  <2>3. ReadFlow' BY <1>1, <1>2, <1>3, <2>2 DEF EmmcInv, EmController, ReadFlow, InHand
  <2>4. Exactly' => ReadData' BY <1>1, <1>2, <1>3, <2>2 DEF Exactly, ReadData
  <2> QED BY <2>3, <2>4
<1>14. EmWrite'
  <2> SUFFICES ASSUME stage = "transfer", op.kind = "write", Answered'
               PROVE  (WriteFlow /\ (Exactly => WriteData))'
    BY <1>1, <1>2, <1>3 DEF EmWrite
  <2>1. Answered BY <1>1, <1>2, <1>3 DEF Answered, E!Pending, E!Errors
  <2>2. WriteFlow /\ (Exactly => WriteData) BY <2>1 DEF EmmcInv, EmWrite
  <2>3. WriteFlow' BY <1>1, <1>2, <1>3, <2>2 DEF EmmcInv, EmController, WriteFlow
  <2>4. Exactly' => WriteData' BY <1>1, <1>2, <1>3, <2>2 DEF Exactly, WriteData
  <2> QED BY <2>3, <2>4
<1>15. EmEnds'
  BY <1>1, <1>2, <1>3 DEF EmmcInv, EmType, EmController, EmCard, EmControl, EmWire, EmKnown,
    EmCounted, EmEnds, Unsent, Answered, E!TransferCmd, EmmcInitStages, EmmcCallStages,
    EmmcFlags, E!Errors, E!Pending
<1>16. EmDone'
  BY <1>1, <1>2, <1>3 DEF EmmcInv, EmType, EmController, EmCard, EmControl, EmWire, EmKnown,
    EmDone, Moved, Answered, Exactly, E!Exact, E!Expected, E!Asked, EmmcInitStages,
    EmmcCallStages, EmmcFlags, E!Errors, E!Pending
<1> QED BY <1>4, <1>5, <1>6, <1>7, <1>8, <1>9, <1>10, <1>11, <1>12, <1>13, <1>14, <1>15,
  <1>16 DEF EmmcInv

\* What a command that the card takes does to it.
LEMMA TakeEffects ==
    ASSUME EmCard, NEW c, E!Takes(c), E!Take(c)
    PROVE  /\ EmCard' /\ card'.kind = card.kind /\ card'.counted = (c = "CMD23")
           /\ c # "CMD38" => card'.data = card.data
           /\ c = "CMD38" => ErasedFrom(card'.data, card.data, card.from, card.to)
           /\ card'.from = IF c = "CMD32" THEN E!Target ELSE card.from
           /\ card'.to = IF c = "CMD33" THEN E!Target ELSE card.to
           /\ E!Data(c) => card'.ends = (E!Multi(c) => card.counted)
           /\ E!Data(c) /\ c # "ACMD51" => card'.next = E!Target
           /\ c \in {"CMD23", "CMD32", "CMD33", "CMD38"} => card'.state = "tran" /\ card.state = "tran"
           /\ c \in {"CMD17", "CMD18"} /\ ~E!BadAddress => card'.state = "data"
           /\ c \in {"CMD24", "CMD25"} /\ ~E!BadAddress => card'.state = "rcv"
           /\ c = "CMD12" /\ ~E!BadAddress => card'.state = "tran"
<1>1. PICK s \in E!After(c) :
        card' = [card EXCEPT !.state = s, !.app = (c = "CMD55"), !.counted = (c = "CMD23"),
                   !.ends = IF E!Data(c) THEN E!Multi(c) => card.counted ELSE card.ends,
                   !.next = IF E!Data(c) /\ c # "ACMD51" THEN E!Target ELSE card.next,
                   !.from = IF c = "CMD32" THEN E!Target ELSE card.from,
                   !.to = IF c = "CMD33" THEN E!Target ELSE card.to,
                   !.data = IF c = "CMD38" THEN [b \in Blocks |-> IF b \in card.from .. card.to
                                                 THEN "erased" ELSE card.data[b]] ELSE card.data]
  BY DEF E!Take
<1>2. /\ DOMAIN card' = DOMAIN card /\ card'.state = s /\ card'.kind = card.kind
      /\ card'.counted = (c = "CMD23")
      /\ card'.ends = (IF E!Data(c) THEN E!Multi(c) => card.counted ELSE card.ends)
      /\ card'.next = (IF E!Data(c) /\ c # "ACMD51" THEN E!Target ELSE card.next)
      /\ card'.from = (IF c = "CMD32" THEN E!Target ELSE card.from)
      /\ card'.to = (IF c = "CMD33" THEN E!Target ELSE card.to)
      /\ card'.data = (IF c = "CMD38" THEN [b \in Blocks |-> IF b \in card.from .. card.to
                                            THEN "erased" ELSE card.data[b]] ELSE card.data)
  BY <1>1 DEF EmCard
<1>3. card'.data \in [Blocks -> Contents] BY <1>2 DEF EmCard, Contents
<1>4. card'.counted \in BOOLEAN /\ card'.ends \in BOOLEAN BY <1>2 DEF EmCard
<1>5. EmCard' BY <1>2, <1>3, <1>4 DEF EmCard
<1>6. c = "CMD38" => ErasedFrom(card'.data, card.data, card.from, card.to)
  BY <1>2 DEF ErasedFrom
<1>7. /\ c \in {"CMD23", "CMD32", "CMD33", "CMD38"} => s = "tran" /\ card.state = "tran"
      /\ c \in {"CMD17", "CMD18"} /\ ~E!BadAddress => s = "data"
      /\ c \in {"CMD24", "CMD25"} /\ ~E!BadAddress => s = "rcv"
      /\ c = "CMD12" /\ ~E!BadAddress => s = "tran"
  BY DEF E!Takes, E!After, E!App
<1> QED BY <1>2, <1>5, <1>6, <1>7

\* The card answers.
LEMMA EmAnswer ==
    ASSUME EmmcInv, E!Answer PROVE EmmcInv'
<1> USE EmmcConsts, Buffers
<1>1. /\ emmc.cmd = "sent" /\ emmc.int = {} /\ pc \in {"appwait", "cmdwait"}
      /\ E!Takes(E!OnLine) /\ E!Take(E!OnLine)
      /\ emmc' = [emmc EXCEPT !.int = {"cmd_done"}, !.cmd = "none", !.err = E!BadAddress,
                            !.app = (E!OnLine = "CMD55" \/ E!App(E!OnLine)),
                            !.dat = IF E!OnLine = "CMD38" THEN "moving" ELSE emmc.dat]
      /\ UNCHANGED <<stage, pc, idx, resp, sd, op, done, got, passed, was, fresh>>
  <2>1. emmc.cmd = "sent" /\ emmc.int = {} /\ pc \in {"appwait", "cmdwait"}
    BY DEF E!Answer, EmmcInv, EmWire
  <2>2. emmc.int \cup {"cmd_done"} = {"cmd_done"} BY <2>1
  <2> QED BY <2>1, <2>2 DEF E!Answer, E!Driver, E!call
<1>2. /\ DOMAIN emmc' = DOMAIN emmc /\ emmc'.int = {"cmd_done"} /\ emmc'.cmd = "none"
      /\ emmc'.dat = (IF E!OnLine = "CMD38" THEN "moving" ELSE emmc.dat)
      /\ emmc'.left = emmc.left /\ emmc'.buf = emmc.buf /\ emmc'.err = E!BadAddress
  BY <1>1 DEF EmmcInv, EmController
<1>3. /\ EmCard' /\ card'.kind = card.kind /\ card'.counted = (E!OnLine = "CMD23")
      /\ (E!OnLine # "CMD38" => card'.data = card.data)
      /\ card'.from = (IF E!OnLine = "CMD32" THEN E!Target ELSE card.from)
      /\ card'.to = (IF E!OnLine = "CMD33" THEN E!Target ELSE card.to)
      /\ (E!OnLine = "CMD38" => ErasedFrom(card'.data, card.data, card.from, card.to))
      /\ (E!Data(E!OnLine) => card'.ends = (E!Multi(E!OnLine) => card.counted))
      /\ (E!Data(E!OnLine) /\ E!OnLine # "ACMD51" => card'.next = E!Target)
      /\ (E!OnLine \in {"CMD23", "CMD32", "CMD33", "CMD38"} => card'.state = "tran" /\ card.state = "tran")
      /\ (E!OnLine \in {"CMD17", "CMD18"} /\ ~E!BadAddress => card'.state = "data")
      /\ (E!OnLine \in {"CMD24", "CMD25"} /\ ~E!BadAddress => card'.state = "rcv")
      /\ (E!OnLine = "CMD12" /\ ~E!BadAddress => card'.state = "tran")
  BY <1>1, TakeEffects DEF EmmcInv
<1>4. stage \in EmmcInitStages \/ (stage \in EmmcCallStages /\ pc = "cmdwait" /\ E!OnLine = idx)
  BY <1>1 DEF EmmcInv, EmControl, EmType, E!OnLine, EmmcInitStages, EmmcCallStages
<1>5. E!OnLine = "CMD23" => sd.blkcnt /\ op # None
  <2>1. stage \in EmmcInitStages => E!OnLine # "CMD23"
    BY <1>1 DEF EmmcInv, EmControl, E!OnLine
  <2>2. stage = "transfer" => idx # "CMD23"
    BY DEF EmmcInv, EmType, EmControl, EmmcCallStages, E!TransferCmd
  <2> QED BY <1>4, <2>1, <2>2 DEF EmmcInv, EmControl, EmmcCallStages
<1>6. stage \in EmmcCallStages /\ Exactly => E!Target = IF idx = "CMD33" THEN op.start + op.n ELSE op.start
  <2> SUFFICES ASSUME stage \in EmmcCallStages, Exactly
               PROVE  E!Target = IF idx = "CMD33" THEN op.start + op.n ELSE op.start
    OBVIOUS
  <2>1. op \in Ops /\ sd.type \in {"sc", "hc"} /\ E!OnLine = idx
    BY <1>4 DEF EmmcInv, EmType, EmControl, EmKnown, Exactly, EmmcInitStages, EmmcCallStages
  <2> QED BY <2>1, AddressMeans DEF EmmcInv
<1>7. /\ ~Unsent' /\ (Answered' => ~E!BadAddress)
  BY <1>1, <1>2 DEF Unsent, Answered
<1>8. EmType'
  BY <1>1, <1>2, <1>3, <1>4, <1>5, <1>6, <1>7 DEF EmmcInv, EmType, EmController, EmCard,
    EmControl, EmmcInitStages, EmmcCallStages, EmmcFlags, E!Errors, E!Pending
<1>9. EmController'
  BY <1>1, <1>2, <1>3, <1>4, <1>5, <1>6, <1>7 DEF EmmcInv, EmType, EmController, EmCard,
    EmmcInitStages, EmmcCallStages, EmmcFlags, E!Errors, E!Pending
<1>10. EmCard'
  BY <1>3
<1>11. EmControl'
  BY <1>1, <1>2, <1>3, <1>4, <1>5, <1>6, <1>7 DEF EmmcInv, EmType, EmController, EmCard,
    EmControl, E!TransferCmd, EmmcInitStages, EmmcCallStages, EmmcFlags, E!Errors, E!Pending
<1>12. EmWire'
  BY <1>1, <1>2, <1>3, <1>4, <1>5, <1>6, <1>7 DEF EmmcInv, EmType, EmController, EmCard,
    EmControl, EmWire, EmmcInitStages, EmmcCallStages, EmmcFlags, E!Errors, E!Pending
<1>13. EmKnown'
  BY <1>1, <1>2, <1>3, <1>4, <1>5, <1>6, <1>7 DEF EmmcInv, EmType, EmController, EmCard,
    EmControl, EmKnown, EmWire, EmmcInitStages, EmmcCallStages, EmmcFlags, E!Errors,
    E!Pending
<1>14. EmQuiet'
  BY <1>1, <1>2, <1>3, <1>4, <1>5, <1>6, <1>7 DEF EmmcInv, EmType, EmController, EmCard,
    EmControl, EmWire, EmQuiet, Unsent, E!TransferCmd, EmmcInitStages, EmmcCallStages,
    EmmcFlags, E!Errors, E!Pending
<1>15. EmCounted'
  BY <1>1, <1>2, <1>3, <1>4, <1>5, <1>6, <1>7 DEF EmmcInv, EmType, EmController, EmCard,
    EmControl, EmWire, EmKnown, EmCounted, Unsent, Answered, E!TransferCmd, EmmcInitStages,
    EmmcCallStages, EmmcFlags, E!Errors, E!Pending
<1>16. EmErase'
  BY <1>1, <1>2, <1>3, <1>4, <1>5, <1>6, <1>7 DEF EmmcInv, EmType, EmController, EmCard,
    EmControl, EmWire, EmKnown, EmQuiet, EmErase, Unsent, Answered, Exactly, E!TransferCmd,
    ErasedFrom, EmmcInitStages, EmmcCallStages, EmmcFlags, E!Errors, E!Pending
<1>17. EmRead'
  <2> SUFFICES ASSUME stage = "transfer", op.kind = "read", Answered'
               PROVE  (ReadFlow /\ (Exactly => ReadData))'
    BY <1>1 DEF EmRead
  <2>1. /\ op \in Ops /\ op.start \in Nat /\ op.n \in Nat /\ op.n > 0
        /\ pc = "cmdwait" /\ E!OnLine = idx
    BY <1>4 DEF EmmcInv, EmType, EmControl, EmmcInitStages, EmmcCallStages
  <2>2. idx \in {"CMD17", "CMD18"} BY DEF EmmcInv, EmControl, E!TransferCmd
  <2>3. /\ got = <<>> /\ done = 0 /\ card.data = was /\ emmc.left = op.n /\ emmc.buf = <<>>
    BY <1>1, <2>1 DEF EmmcInv, EmQuiet
  <2>4. card'.data = was /\ was \in [Blocks -> Contents] /\ card'.state = "data"
    BY <1>3, <1>7, <2>1, <2>2, <2>3 DEF EmmcInv, EmType
  <2>5. ReadFlow'
    <3>1. /\ emmc'.buf = << >> /\ emmc'.left = op.n /\ done' = 0 /\ op' = op /\ pc' = "cmdwait"
          /\ emmc'.int = {"cmd_done"}
      BY <1>1, <1>2, <2>1, <2>3
    <3>2. op.n \in Nat BY <2>1
    <3> QED BY <2>4, <3>1, <3>2 DEF ReadFlow, InHand
  <2>6. ASSUME Exactly PROVE ReadData'
    <3>1. card'.next = op.start BY <1>3, <1>6, <2>1, <2>2, <2>6 DEF E!Data, EmmcCallStages
    <3>2. op.start + op.n - op.n = op.start /\ op.n - op.n = 0 BY <2>1
    <3> QED BY <1>1, <1>2, <2>1, <2>3, <2>4, <3>1, <3>2, ReadNone DEF ReadData
  <2> QED BY <1>1, <2>5, <2>6 DEF Exactly
<1>18. EmWrite'
  <2> SUFFICES ASSUME stage = "transfer", op.kind = "write", Answered'
               PROVE  (WriteFlow /\ (Exactly => WriteData))'
    BY <1>1 DEF EmWrite
  <2>1. /\ op \in Ops /\ op.start \in Nat /\ op.n \in Nat /\ op.n > 0
        /\ pc = "cmdwait" /\ E!OnLine = idx
    BY <1>4 DEF EmmcInv, EmType, EmControl, EmmcInitStages, EmmcCallStages
  <2>2. idx \in {"CMD24", "CMD25"} BY DEF EmmcInv, EmControl, E!TransferCmd
  <2>3. /\ got = <<>> /\ done = 0 /\ card.data = was /\ emmc.left = op.n /\ emmc.buf = <<>>
    BY <1>1, <2>1 DEF EmmcInv, EmQuiet
  <2>4. card'.data = was /\ was \in [Blocks -> Contents] /\ card'.state = "rcv"
    BY <1>3, <1>7, <2>1, <2>2, <2>3 DEF EmmcInv, EmType
  <2>5. WriteFlow'
    <3>1. /\ emmc'.buf = << >> /\ emmc'.left = op.n /\ done' = 0 /\ op' = op /\ pc' = "cmdwait"
          /\ emmc'.int = {"cmd_done"}
      BY <1>1, <1>2, <2>1, <2>3
    <3>2. op.n \in Nat BY <2>1
    <3> QED BY <2>4, <3>1, <3>2 DEF WriteFlow
  <2>6. ASSUME Exactly PROVE WriteData'
    <3>1. card'.next = op.start BY <1>3, <1>6, <2>1, <2>2, <2>6 DEF E!Data, EmmcCallStages
    <3>2. op.start + op.n - op.n = op.start /\ op.n - op.n = 0 BY <2>1
    <3> QED BY <1>1, <1>2, <2>1, <2>3, <2>4, <3>1, <3>2, WrittenNone DEF WriteData
  <2> QED BY <1>1, <2>5, <2>6 DEF Exactly
<1>19. EmEnds'
  BY <1>1, <1>2, <1>3, <1>4, <1>5, <1>6, <1>7 DEF EmmcInv, EmType, EmController, EmCard,
    EmControl, EmWire, EmKnown, EmCounted, EmEnds, Unsent, Answered, E!TransferCmd, EmQuiet,
    E!Data, E!Multi, EmmcInitStages, EmmcCallStages, EmmcFlags, E!Errors, E!Pending
<1>20. EmDone'
  BY <1>1, <1>2, <1>3, <1>4, <1>5, <1>6, <1>7 DEF EmmcInv, EmType, EmController, EmCard,
    EmControl, EmWire, EmKnown, EmDone, Moved, Answered, Exactly, E!Exact, E!Expected,
    E!Asked, EmmcInitStages, EmmcCallStages, EmmcFlags, E!Errors, E!Pending
<1> QED BY <1>8, <1>9, <1>10, <1>11, <1>12, <1>13, <1>14, <1>15, <1>16, <1>17, <1>18, <1>19,
  <1>20 DEF EmmcInv

\* A command that is lost or refused leaves the card's blocks alone, unless it is the erase.
CardKept == /\ EmCard' /\ card'.kind = card.kind
            /\ card'.counted => card.counted \/ E!OnLine = "CMD23"
            /\ E!OnLine # "CMD38" => card'.data = card.data
            /\ E!OnLine # "CMD32" => card'.from = card.from
            /\ E!OnLine = "CMD33" => card'.state = card.state
LEMMA TakeKeeps ==
    ASSUME EmCard, E!Takes(E!OnLine), E!Take(E!OnLine) PROVE CardKept
BY TakeEffects DEF CardKept

\* A command that was not answered, or not well, never counts as taken.
LEMMA EmUnanswered ==
    ASSUME EmmcInv, emmc.cmd = "sent", CardKept,
           UNCHANGED <<stage, pc, idx, resp, sd, op, done, got, passed, was>>,
           NEW i, NEW k \in {"none", "stuck"}, NEW d \in {emmc.dat, "none"},
           emmc' = [emmc EXCEPT !.int = i, !.cmd = k, !.dat = d],
           i \subseteq {"cmdto", "crc", "cmd_done"}, "cmd_done" \in i => pc = "appwait",
           i \cap E!Errors \subseteq fresh'
    PROVE  EmmcInv'
<1> USE EmmcConsts, Buffers
<1>1. /\ emmc.int = {} /\ pc \in {"appwait", "cmdwait"}
  BY DEF EmmcInv, EmWire
<1>2. /\ DOMAIN emmc' = DOMAIN emmc /\ emmc'.int = i /\ emmc'.cmd = k /\ emmc'.dat = d
      /\ emmc'.left = emmc.left /\ emmc'.buf = emmc.buf /\ emmc'.err = emmc.err
  BY DEF EmmcInv, EmController
<1>3. stage \in EmmcInitStages \/ (stage \in EmmcCallStages /\ pc = "cmdwait" /\ E!OnLine = idx)
  BY <1>1 DEF EmmcInv, EmControl, EmType, E!OnLine, EmmcInitStages, EmmcCallStages
<1>4. E!OnLine = "CMD23" => sd.blkcnt /\ op # None
  <2>1. stage \in EmmcInitStages => E!OnLine # "CMD23"
    BY <1>1 DEF EmmcInv, EmControl, E!OnLine
  <2>2. stage = "transfer" => idx # "CMD23"
    BY DEF EmmcInv, EmType, EmControl, EmmcCallStages, E!TransferCmd
  <2> QED BY <1>3, <2>1, <2>2 DEF EmmcInv, EmControl, EmmcCallStages
<1>5. /\ ~Unsent' /\ ~(stage \in EmmcCallStages /\ Answered')
  BY <1>1, <1>2, <1>3 DEF Unsent, Answered, EmmcInitStages, EmmcCallStages
<1>6. EmType'
  BY <1>1, <1>2, <1>3, <1>4, <1>5 DEF EmmcInv, EmType, EmController, EmCard, EmControl,
    CardKept, EmmcInitStages, EmmcCallStages, EmmcFlags, E!Errors, E!Pending
<1>7. EmController'
  BY <1>1, <1>2, <1>3, <1>4, <1>5 DEF EmmcInv, EmType, EmController, EmCard, CardKept,
    EmmcInitStages, EmmcCallStages, EmmcFlags, E!Errors, E!Pending
<1>8. EmCard'
  BY DEF CardKept
<1>9. EmControl'
  BY <1>1, <1>2, <1>3, <1>4, <1>5 DEF EmmcInv, EmType, EmController, EmCard, EmControl,
    E!TransferCmd, CardKept, EmmcInitStages, EmmcCallStages, EmmcFlags, E!Errors, E!Pending
<1>10. EmWire'
  BY <1>1, <1>2, <1>3, <1>4, <1>5 DEF EmmcInv, EmType, EmController, EmCard, EmControl,
    EmWire, CardKept, EmmcInitStages, EmmcCallStages, EmmcFlags, E!Errors, E!Pending
<1>11. EmKnown'
  BY <1>1, <1>2, <1>3, <1>4, <1>5 DEF EmmcInv, EmType, EmController, EmCard, EmControl,
    EmKnown, EmWire, CardKept, EmmcInitStages, EmmcCallStages, EmmcFlags, E!Errors,
    E!Pending
<1>12. EmQuiet'
  BY <1>1, <1>2, <1>3, <1>4, <1>5 DEF EmmcInv, EmType, EmController, EmCard, EmControl,
    EmWire, EmQuiet, Unsent, E!TransferCmd, CardKept, EmmcInitStages, EmmcCallStages,
    EmmcFlags, E!Errors, E!Pending
<1>13. EmCounted'
  BY <1>1, <1>2, <1>3, <1>4, <1>5 DEF EmmcInv, EmType, EmController, EmCard, EmControl,
    EmWire, EmKnown, EmCounted, Unsent, Answered, E!TransferCmd, CardKept, EmmcInitStages,
    EmmcCallStages, EmmcFlags, E!Errors, E!Pending
<1>14. EmErase'
  BY <1>1, <1>2, <1>3, <1>4, <1>5 DEF EmmcInv, EmType, EmController, EmCard, EmControl,
    EmWire, EmKnown, EmQuiet, EmErase, Unsent, Answered, Exactly, E!TransferCmd, CardKept,
    EmmcInitStages, EmmcCallStages, EmmcFlags, E!Errors, E!Pending
<1>15. EmRead'
  BY <1>1, <1>2, <1>3, <1>4, <1>5 DEF EmRead, EmmcCallStages
<1>16. EmWrite'
  BY <1>1, <1>2, <1>3, <1>4, <1>5 DEF EmWrite, EmmcCallStages
<1>17. EmEnds'
  BY <1>1, <1>2, <1>3, <1>4, <1>5 DEF EmEnds, EmmcCallStages
<1>18. EmDone'
  BY <1>1, <1>2, <1>3, <1>4, <1>5 DEF EmmcInv, EmType, EmController, EmCard, EmControl,
    EmWire, EmKnown, EmDone, Moved, Answered, Exactly, E!Exact, E!Expected, E!Asked,
    CardKept, EmmcInitStages, EmmcCallStages, EmmcFlags, E!Errors, E!Pending
<1> QED BY <1>6, <1>7, <1>8, <1>9, <1>10, <1>11, <1>12, <1>13, <1>14, <1>15, <1>16, <1>17,
  <1>18 DEF EmmcInv

LEMMA EmNoAnswer ==
    ASSUME EmmcInv, emmc.cmd = "sent", CardKept, E!NoAnswer,
           UNCHANGED <<stage, pc, idx, resp, sd, op, done, got, passed, was>>
    PROVE  EmmcInv'
<1>1. emmc.int = {} /\ fresh' = fresh \cup {"cmdto"} BY DEF EmmcInv, EmWire, E!NoAnswer, E!Raise
<1>2. PICK k \in {"none", "stuck"}, d \in {emmc.dat, "none"} :
        emmc' = [emmc EXCEPT !.int = {"cmdto"}, !.cmd = k, !.dat = d]
  <2>1. emmc.int \cup {"cmdto"} = {"cmdto"} BY <1>1
  <2> QED BY <2>1 DEF E!NoAnswer
<1>3. {"cmdto"} \cap E!Errors \subseteq fresh' BY <1>1
<1> QED BY <1>2, <1>3, EmUnanswered

LEMMA EmRefuse ==
    ASSUME EmmcInv, E!Refuse PROVE EmmcInv'
<1>1. /\ emmc.cmd = "sent" /\ emmc.int = {} /\ card' = [card EXCEPT !.app = FALSE]
      /\ UNCHANGED <<stage, pc, idx, resp, sd, op, done, got, passed, was>>
  BY DEF E!Refuse, E!Driver, E!call, EmmcInv, EmWire
<1>2. CardKept
  <2>1. /\ DOMAIN card' = DOMAIN card /\ card'.kind = card.kind /\ card'.counted = card.counted
        /\ card'.data = card.data /\ card'.from = card.from /\ card'.state = card.state
        /\ card'.ends = card.ends
    BY <1>1 DEF EmmcInv, EmCard
  <2> QED BY <2>1 DEF CardKept, EmmcInv, EmCard
<1>3. CASE E!OnLine = "CMD55" /\ ~sd.rca
  <2>1. emmc' = [emmc EXCEPT !.int = {"cmd_done"}, !.cmd = "none", !.dat = emmc.dat]
    <3>1. emmc' = [emmc EXCEPT !.int = emmc.int \cup {"cmd_done"}, !.cmd = "none"]
      BY <1>3 DEF E!Refuse
    <3>2. emmc.int \cup {"cmd_done"} = {"cmd_done"} BY <1>1
    <3> QED BY <3>1, <3>2 DEF EmmcInv, EmController
  <2>2. pc = "appwait"
    <3>1. stage = "transfer" => idx # "CMD55"
      BY EmmcConsts DEF EmmcInv, EmType, EmControl, EmmcCallStages, E!TransferCmd
    <3>2. pc \in {"appwait", "cmdwait"} BY <1>1 DEF EmmcInv, EmWire
    <3> QED BY <1>3, <3>1, <3>2 DEF E!OnLine, EmmcInv, EmControl, EmType, EmmcInitStages, EmmcCallStages
  <2>3. {"cmd_done"} \cap E!Errors \subseteq fresh' BY DEF E!Errors
  <2> QED BY <1>1, <1>2, <2>1, <2>2, <2>3, EmUnanswered
<1>4. CASE ~(E!OnLine = "CMD55" /\ ~sd.rca)
  <2>1. E!NoAnswer BY <1>4 DEF E!Refuse
  <2> QED BY <1>1, <1>2, <2>1, EmNoAnswer
<1> QED BY <1>3, <1>4

LEMMA EmCommandFault ==
    ASSUME EmmcInv, E!CommandFault PROVE EmmcInv'
<1>1. /\ emmc.cmd = "sent" /\ emmc.int = {}
      /\ UNCHANGED <<stage, pc, idx, resp, sd, op, done, got, passed, was>>
  BY DEF E!CommandFault, E!Driver, E!call, EmmcInv, EmWire
<1>2. UNCHANGED card => CardKept BY DEF CardKept, EmmcInv, EmCard
<1>3. E!Takes(E!OnLine) /\ E!Take(E!OnLine) => CardKept BY TakeKeeps DEF EmmcInv
<1>4. CASE (UNCHANGED card \/ (E!Takes(E!OnLine) /\ E!Take(E!OnLine))) /\ E!NoAnswer
  BY <1>1, <1>2, <1>3, <1>4, EmNoAnswer
<1>5. CASE /\ E!Takes(E!OnLine) /\ E!Take(E!OnLine) /\ E!Raise("crc")
           /\ emmc' = [emmc EXCEPT !.int = emmc.int \cup {"crc"}, !.cmd = "none"]
  <2>1. emmc' = [emmc EXCEPT !.int = {"crc"}, !.cmd = "none", !.dat = emmc.dat]
    <3>1. emmc.int \cup {"crc"} = {"crc"} BY <1>1
    <3> QED BY <1>5, <3>1 DEF EmmcInv, EmController
  <2>2. {"crc"} \cap E!Errors \subseteq fresh' BY <1>5 DEF E!Raise
  <2> QED BY <1>1, <1>3, <1>5, <2>1, <2>2, EmUnanswered
<1>6. CASE emmc' = [emmc EXCEPT !.cmd = "stuck"] /\ UNCHANGED <<card, fresh>>
  <2>1. emmc' = [emmc EXCEPT !.int = {}, !.cmd = "stuck", !.dat = emmc.dat]
    BY <1>1, <1>6 DEF EmmcInv, EmController
  <2> QED BY <1>1, <1>2, <1>6, <2>1, EmUnanswered
<1> QED BY <1>4, <1>5, <1>6 DEF E!CommandFault

\* What sdCard holds, and what it says of the card.
SdKnows == /\ DOMAIN sd = {"type", "rca", "power", "capacity", "app", "blkcnt", "wide"}
           /\ sd.power \in BOOLEAN /\ sd.capacity \in BOOLEAN /\ sd.blkcnt \in BOOLEAN
           /\ EmKnown
LEMMA EmSdStays ==
    ASSUME EmmcInv, UNCHANGED <<sd, card, op>> PROVE SdKnows'
BY DEF EmmcInv, EmType, SdKnows, EmKnown
LEMMA SdTakesApp ==
    ASSUME EmmcInv, UNCHANGED <<card, op>>, NEW a, sd' = [sd EXCEPT !.app = a] PROVE SdKnows'
<1>1. /\ DOMAIN sd' = DOMAIN sd /\ sd'.type = sd.type /\ sd'.power = sd.power
      /\ sd'.capacity = sd.capacity /\ sd'.blkcnt = sd.blkcnt
  BY DEF EmmcInv, EmType
<1> QED BY <1>1 DEF EmmcInv, EmType, SdKnows, EmKnown

\* sdInitCard: before the first call only the types and what sdCard says matter.
LEMMA EmInitStep ==
    ASSUME EmmcInv, stage \in EmmcInitStages, UNCHANGED <<card, op, done, got, passed, was>>,
           stage' \in EmmcInitStages \cup {"ready", "failed"}, pc' \in {"idle", "app", "cmd"},
           stage' \in {"reset", "reset_old", "ready", "failed"} => pc' = "idle",
           pc' # "idle" => idx' \notin {"CMD23", "CMD55"},
           EmController', emmc'.cmd # "sent", E!Pending' \subseteq fresh', SdKnows'
    PROVE  EmmcInv'
<1>1. op = None /\ op' = None BY DEF EmmcInv, EmControl
<1>2. EmType' BY DEF EmmcInv, EmType, SdKnows, EmmcInitStages
<1>3. EmCard' BY DEF EmmcInv, EmCard
<1>4. EmControl' BY <1>1 DEF EmmcInv, EmControl, EmmcInitStages, EmmcCallStages
<1>5. EmWire' BY DEF EmWire
<1>6. EmKnown' BY DEF SdKnows
<1>7. /\ EmQuiet' /\ EmCounted' /\ EmErase' /\ EmRead' /\ EmWrite' /\ EmEnds'
  BY DEF EmQuiet, EmCounted, EmErase, EmRead, EmWrite, EmEnds, EmmcInitStages
<1>8. EmDone' BY <1>1 DEF EmDone, EmmcInitStages
<1> QED BY <1>2, <1>3, <1>4, <1>5, <1>6, <1>7, <1>8 DEF EmmcInv

\* sdSendCommandP up to the wait.
LEMMA EmSendCommandP ==
    ASSUME EmmcInv, E!SendCommandP PROVE EmmcInv'
<1> USE EmmcConsts, Buffers
<1>1. /\ pc \in {"app", "cmd"} /\ emmc.cmd # "sent"
      /\ UNCHANGED <<stage, idx, sd, card, op, done, got, passed, was, fresh>>
  BY DEF E!SendCommandP, E!call, EmmcInv, EmWire
<1>2. stage \in EmmcInitStages \/ (stage \in EmmcCallStages /\ pc = "cmd")
  BY <1>1 DEF EmmcInv, EmType, EmControl, EmmcInitStages, EmmcCallStages
<1>3. ASSUME emmc.cmd # "none" \/ E!Pending # {} PROVE EmmcInv'
  <2>1. /\ emmc' = emmc
        /\ ((pc' = "cmd" /\ stage \in EmmcInitStages /\ resp' = resp) \/ (pc' = "idle" /\ resp' = "busy"))
    BY <1>2, <1>3 DEF E!SendCommandP, E!Return, EmmcInv, EmControl, EmmcInitStages,
      EmmcCallStages
  <2>2. EmType'
    BY <2>1, <1>1, <1>2, <1>3 DEF EmmcInv, EmType, EmController, EmCard, EmControl,
      EmmcInitStages, EmmcCallStages, EmmcFlags, E!Errors, E!Pending
  <2>3. EmController'
    BY <2>1, <1>1, <1>2, <1>3 DEF EmmcInv, EmType, EmController, EmCard, EmmcInitStages,
      EmmcCallStages, EmmcFlags, E!Errors, E!Pending
  <2>4. EmCard'
    BY <2>1, <1>1, <1>2, <1>3 DEF EmmcInv, EmType, EmController, EmCard, EmmcInitStages,
      EmmcCallStages, EmmcFlags, E!Errors, E!Pending
  <2>5. EmControl'
    BY <2>1, <1>1, <1>2, <1>3 DEF EmmcInv, EmType, EmController, EmCard, EmControl,
      E!TransferCmd, EmmcInitStages, EmmcCallStages, EmmcFlags, E!Errors, E!Pending
  <2>6. EmWire'
    BY <2>1, <1>1, <1>2, <1>3 DEF EmmcInv, EmType, EmController, EmCard, EmControl, EmWire,
      EmmcInitStages, EmmcCallStages, EmmcFlags, E!Errors, E!Pending
  <2>7. EmKnown'
    BY <2>1, <1>1, <1>2, <1>3 DEF EmmcInv, EmType, EmController, EmCard, EmControl, EmKnown,
      EmWire, EmmcInitStages, EmmcCallStages, EmmcFlags, E!Errors, E!Pending
  <2>8. EmQuiet'
    BY <2>1, <1>1, <1>2, <1>3 DEF EmmcInv, EmType, EmController, EmCard, EmControl, EmWire,
      EmQuiet, Unsent, E!TransferCmd, EmmcInitStages, EmmcCallStages, EmmcFlags, E!Errors,
      E!Pending
  <2>9. EmCounted'
    BY <2>1, <1>1, <1>2, <1>3 DEF EmmcInv, EmType, EmController, EmCard, EmControl, EmWire,
      EmKnown, EmCounted, Unsent, Answered, E!TransferCmd, EmmcInitStages, EmmcCallStages,
      EmmcFlags, E!Errors, E!Pending
  <2>10. EmErase'
    BY <2>1, <1>1, <1>2, <1>3 DEF EmmcInv, EmType, EmController, EmCard, EmControl, EmWire,
      EmKnown, EmQuiet, EmErase, Unsent, Answered, Exactly, E!TransferCmd, EmmcInitStages,
      EmmcCallStages, EmmcFlags, E!Errors, E!Pending
  <2>11. EmRead'
    BY <2>1, <1>1, <1>2, <1>3 DEF EmmcInv, EmType, EmController, EmCard, EmControl, EmWire,
      EmKnown, EmQuiet, EmRead, ReadFlow, ReadData, Answered, Exactly, InHand,
      EmmcInitStages, EmmcCallStages, EmmcFlags, E!Errors, E!Pending
  <2>12. EmWrite'
    BY <2>1, <1>1, <1>2, <1>3 DEF EmmcInv, EmType, EmController, EmCard, EmControl, EmWire,
      EmKnown, EmQuiet, EmWrite, WriteFlow, WriteData, Answered, Exactly, EmmcInitStages,
      EmmcCallStages, EmmcFlags, E!Errors, E!Pending
  <2>13. EmEnds'
    BY <2>1, <1>1, <1>2, <1>3 DEF EmmcInv, EmType, EmController, EmCard, EmControl, EmWire,
      EmKnown, EmCounted, EmEnds, Unsent, Answered, E!TransferCmd, EmmcInitStages,
      EmmcCallStages, EmmcFlags, E!Errors, E!Pending
  <2>14. EmDone'
    BY <2>1, <1>1, <1>2, <1>3 DEF EmmcInv, EmType, EmController, EmCard, EmControl, EmWire,
      EmKnown, EmDone, Moved, Answered, Exactly, E!Exact, E!Expected, E!Asked,
      EmmcInitStages, EmmcCallStages, EmmcFlags, E!Errors, E!Pending
  <2> QED BY <2>2, <2>3, <2>4, <2>5, <2>6, <2>7, <2>8, <2>9, <2>10, <2>11, <2>12, <2>13,
    <2>14 DEF EmmcInv
<1>4. ASSUME ~(emmc.cmd # "none" \/ E!Pending # {}), pc = "cmd", E!Data(idx) PROVE EmmcInv'
  <2>1. /\ pc' = "cmdwait" /\ resp' = resp
        /\ emmc' = [emmc EXCEPT !.int = {}, !.cmd = "sent", !.dat = "moving", !.buf = <<>>,
                             !.left = IF op = None THEN 1 ELSE op.n]
    BY <1>4 DEF E!SendCommandP
  <2>2. /\ DOMAIN emmc' = DOMAIN emmc /\ emmc'.int = {} /\ emmc'.cmd = "sent"
        /\ emmc'.dat = "moving" /\ emmc'.left = (IF op = None THEN 1 ELSE op.n)
        /\ emmc'.buf = <<>> /\ emmc'.err = emmc.err
    BY <2>1 DEF EmmcInv, EmController
  <2>3. EmType'
    BY <2>1, <2>2, <1>1, <1>2, <1>4 DEF EmmcInv, EmType, EmController, EmCard, EmControl,
      EmmcInitStages, EmmcCallStages, EmmcFlags, E!Errors, E!Pending
  <2>4. EmController'
    BY <2>1, <2>2, <1>1, <1>2, <1>4 DEF EmmcInv, EmType, EmController, EmCard,
      EmmcInitStages, EmmcCallStages, EmmcFlags, E!Errors, E!Pending
  <2>5. EmCard'
    BY <2>1, <2>2, <1>1, <1>2, <1>4 DEF EmmcInv, EmType, EmController, EmCard,
      EmmcInitStages, EmmcCallStages, EmmcFlags, E!Errors, E!Pending
  <2>6. EmControl'
    BY <2>1, <2>2, <1>1, <1>2, <1>4 DEF EmmcInv, EmType, EmController, EmCard, EmControl,
      E!TransferCmd, EmmcInitStages, EmmcCallStages, EmmcFlags, E!Errors, E!Pending
  <2>7. EmWire'
    BY <2>1, <2>2, <1>1, <1>2, <1>4 DEF EmmcInv, EmType, EmController, EmCard, EmControl,
      EmWire, EmmcInitStages, EmmcCallStages, EmmcFlags, E!Errors, E!Pending
  <2>8. EmKnown'
    BY <2>1, <2>2, <1>1, <1>2, <1>4 DEF EmmcInv, EmType, EmController, EmCard, EmControl,
      EmKnown, EmWire, EmmcInitStages, EmmcCallStages, EmmcFlags, E!Errors, E!Pending
  <2>9. EmQuiet'
    BY <2>1, <2>2, <1>1, <1>2, <1>4 DEF EmmcInv, EmType, EmController, EmCard, EmControl,
      EmWire, EmQuiet, Unsent, E!TransferCmd, E!Data, E!TransferCmd, EmmcInitStages,
      EmmcCallStages, EmmcFlags, E!Errors, E!Pending
  <2>10. EmCounted'
    BY <2>1, <2>2, <1>1, <1>2, <1>4 DEF EmmcInv, EmType, EmController, EmCard, EmControl,
      EmWire, EmKnown, EmCounted, Unsent, Answered, E!TransferCmd, E!Data, E!TransferCmd,
      EmmcInitStages, EmmcCallStages, EmmcFlags, E!Errors, E!Pending
  <2>11. EmErase'
    BY <2>1, <2>2, <1>1, <1>2, <1>4 DEF EmmcInv, EmType, EmController, EmCard, EmControl,
      EmWire, EmKnown, EmQuiet, EmErase, Unsent, Answered, Exactly, E!TransferCmd, E!Data,
      E!TransferCmd, EmmcInitStages, EmmcCallStages, EmmcFlags, E!Errors, E!Pending
  <2>12. EmRead'
    BY <2>1, <2>2, <1>1, <1>2, <1>4 DEF EmmcInv, EmType, EmController, EmCard, EmControl,
      EmWire, EmKnown, EmQuiet, EmRead, ReadFlow, ReadData, Answered, Exactly, InHand,
      EmmcInitStages, EmmcCallStages, EmmcFlags, E!Errors, E!Pending
  <2>13. EmWrite'
    BY <2>1, <2>2, <1>1, <1>2, <1>4 DEF EmmcInv, EmType, EmController, EmCard, EmControl,
      EmWire, EmKnown, EmQuiet, EmWrite, WriteFlow, WriteData, Answered, Exactly,
      EmmcInitStages, EmmcCallStages, EmmcFlags, E!Errors, E!Pending
  <2>14. EmEnds'
    BY <2>1, <2>2, <1>1, <1>2, <1>4 DEF EmmcInv, EmType, EmController, EmCard, EmControl,
      EmWire, EmKnown, EmCounted, EmEnds, Unsent, Answered, E!TransferCmd, EmmcInitStages,
      EmmcCallStages, EmmcFlags, E!Errors, E!Pending
  <2>15. EmDone'
    BY <2>1, <2>2, <1>1, <1>2, <1>4 DEF EmmcInv, EmType, EmController, EmCard, EmControl,
      EmWire, EmKnown, EmDone, Moved, Answered, Exactly, E!Exact, E!Expected, E!Asked,
      E!Data, E!TransferCmd, EmmcInitStages, EmmcCallStages, EmmcFlags, E!Errors, E!Pending
  <2> QED BY <2>3, <2>4, <2>5, <2>6, <2>7, <2>8, <2>9, <2>10, <2>11, <2>12, <2>13, <2>14,
    <2>15 DEF EmmcInv
<1>5. ASSUME ~(emmc.cmd # "none" \/ E!Pending # {}), ~(pc = "cmd" /\ E!Data(idx)) PROVE EmmcInv'
  <2>1. /\ (pc = "app" => pc' = "appwait") /\ (pc = "cmd" => pc' = "cmdwait")
        /\ resp' = resp /\ emmc' = [emmc EXCEPT !.int = {}, !.cmd = "sent"]
    BY <1>1, <1>5 DEF E!SendCommandP
  <2>2. /\ DOMAIN emmc' = DOMAIN emmc /\ emmc'.int = {} /\ emmc'.cmd = "sent"
        /\ emmc'.dat = emmc.dat /\ emmc'.left = emmc.left /\ emmc'.buf = emmc.buf
        /\ emmc'.err = emmc.err
    BY <2>1 DEF EmmcInv, EmController
  <2>3. stage = "transfer" => op.kind = "erase"
    BY <1>2, <1>5 DEF EmmcInv, EmType, EmControl, E!TransferCmd, E!Data, EmmcInitStages,
      EmmcCallStages
  <2>4. EmType'
    BY <2>1, <2>2, <2>3, <1>1, <1>2, <1>5 DEF EmmcInv, EmType, EmController, EmCard,
      EmControl, EmmcInitStages, EmmcCallStages, EmmcFlags, E!Errors, E!Pending
  <2>5. EmController'
    BY <2>1, <2>2, <2>3, <1>1, <1>2, <1>5 DEF EmmcInv, EmType, EmController, EmCard,
      EmmcInitStages, EmmcCallStages, EmmcFlags, E!Errors, E!Pending
  <2>6. EmCard'
    BY <2>1, <2>2, <2>3, <1>1, <1>2, <1>5 DEF EmmcInv, EmType, EmController, EmCard,
      EmmcInitStages, EmmcCallStages, EmmcFlags, E!Errors, E!Pending
  <2>7. EmControl'
    BY <2>1, <2>2, <2>3, <1>1, <1>2, <1>5 DEF EmmcInv, EmType, EmController, EmCard,
      EmControl, E!TransferCmd, EmmcInitStages, EmmcCallStages, EmmcFlags, E!Errors,
      E!Pending
  <2>8. EmWire'
    BY <2>1, <2>2, <2>3, <1>1, <1>2, <1>5 DEF EmmcInv, EmType, EmController, EmCard,
      EmControl, EmWire, EmmcInitStages, EmmcCallStages, EmmcFlags, E!Errors, E!Pending
  <2>9. EmKnown'
    BY <2>1, <2>2, <2>3, <1>1, <1>2, <1>5 DEF EmmcInv, EmType, EmController, EmCard,
      EmControl, EmKnown, EmWire, EmmcInitStages, EmmcCallStages, EmmcFlags, E!Errors,
      E!Pending
  <2>10. EmQuiet'
    BY <2>1, <2>2, <2>3, <1>1, <1>2, <1>5 DEF EmmcInv, EmType, EmController, EmCard,
      EmControl, EmWire, EmQuiet, Unsent, E!TransferCmd, EmmcInitStages, EmmcCallStages,
      EmmcFlags, E!Errors, E!Pending
  <2>11. EmCounted'
    BY <2>1, <2>2, <2>3, <1>1, <1>2, <1>5 DEF EmmcInv, EmType, EmController, EmCard,
      EmControl, EmWire, EmKnown, EmCounted, Unsent, Answered, E!TransferCmd,
      EmmcInitStages, EmmcCallStages, EmmcFlags, E!Errors, E!Pending
  <2>12. EmErase'
    BY <2>1, <2>2, <2>3, <1>1, <1>2, <1>5 DEF EmmcInv, EmType, EmController, EmCard,
      EmControl, EmWire, EmKnown, EmQuiet, EmErase, Unsent, Answered, Exactly,
      E!TransferCmd, EmmcInitStages, EmmcCallStages, EmmcFlags, E!Errors, E!Pending
  <2>13. EmRead'
    BY <2>1, <2>2, <2>3, <1>1, <1>2, <1>5 DEF EmmcInv, EmType, EmController, EmCard,
      EmControl, EmWire, EmKnown, EmQuiet, EmRead, ReadFlow, ReadData, Answered, Exactly,
      InHand, EmmcInitStages, EmmcCallStages, EmmcFlags, E!Errors, E!Pending
  <2>14. EmWrite'
    BY <2>1, <2>2, <2>3, <1>1, <1>2, <1>5 DEF EmmcInv, EmType, EmController, EmCard,
      EmControl, EmWire, EmKnown, EmQuiet, EmWrite, WriteFlow, WriteData, Answered, Exactly,
      EmmcInitStages, EmmcCallStages, EmmcFlags, E!Errors, E!Pending
  <2>15. EmEnds'
    BY <2>1, <2>2, <2>3, <1>1, <1>2, <1>5 DEF EmmcInv, EmType, EmController, EmCard,
      EmControl, EmWire, EmKnown, EmCounted, EmEnds, Unsent, Answered, E!TransferCmd,
      EmmcInitStages, EmmcCallStages, EmmcFlags, E!Errors, E!Pending
  <2>16. EmDone'
    BY <2>1, <2>2, <2>3, <1>1, <1>2, <1>5 DEF EmmcInv, EmType, EmController, EmCard,
      EmControl, EmWire, EmKnown, EmDone, Moved, Answered, Exactly, E!Exact, E!Expected,
      E!Asked, EmmcInitStages, EmmcCallStages, EmmcFlags, E!Errors, E!Pending
  <2> QED BY <2>4, <2>5, <2>6, <2>7, <2>8, <2>9, <2>10, <2>11, <2>12, <2>13, <2>14, <2>15,
    <2>16 DEF EmmcInv
<1> QED BY <1>3, <1>4, <1>5

\* A wait for CMD_DONE ends only when the command is no longer on the line.
LEMMA EmWaited ==
    ASSUME EmmcInv, E!Waited("cmd_done"), E!Wait("cmd_done")
    PROVE  /\ emmc.cmd # "sent" /\ EmController' /\ emmc'.int \cap E!Errors = {} /\ fresh' = {}
           /\ emmc'.int = E!WaitClears("cmd_done") /\ emmc'.cmd = emmc.cmd /\ emmc'.dat = emmc.dat
           /\ emmc'.left = emmc.left /\ emmc'.buf = emmc.buf
<1>1. emmc.cmd # "sent" BY DEF EmmcInv, EmWire, E!Waited, E!CmdComing
<1>2. emmc' = [emmc EXCEPT !.int = E!WaitClears("cmd_done")] /\ fresh' = {} BY DEF E!Wait
<1>3. /\ DOMAIN emmc' = DOMAIN emmc /\ emmc'.int = E!WaitClears("cmd_done") /\ emmc'.cmd = emmc.cmd
      /\ emmc'.dat = emmc.dat /\ emmc'.left = emmc.left /\ emmc'.buf = emmc.buf
  BY <1>2 DEF EmmcInv, EmController
<1>4. E!WaitClears("cmd_done") \cap E!Errors = {} /\ E!WaitClears("cmd_done") \subseteq emmc.int
  BY WaitForgets
<1> QED BY <1>1, <1>2, <1>3, <1>4 DEF EmmcInv, EmController

LEMMA EmAppDone ==
    ASSUME EmmcInv, E!AppDone PROVE EmmcInv'
<1>1. pc = "appwait" /\ UNCHANGED <<stage, idx, card, op, done, got, passed, was>>
  BY DEF E!AppDone, E!call
<1>2. stage \in EmmcInitStages /\ idx \notin {"CMD23", "CMD55"} BY <1>1 DEF EmmcInv, EmControl
<1>3. emmc.cmd # "sent" /\ EmController' /\ emmc'.int \cap E!Errors = {} /\ emmc'.cmd = emmc.cmd
  BY EmWaited DEF E!AppDone
<1>4. pc' \in {"idle", "cmd"} BY DEF E!AppDone, E!Return
<1>5. SdKnows'
  <2>1. UNCHANGED sd \/ sd' = [sd EXCEPT !.app = emmc.app] BY DEF E!AppDone
  <2> QED BY <1>1, <2>1, EmSdStays, SdTakesApp
<1>6. stage \notin {"reset", "reset_old"} BY <1>1 DEF EmmcInv, EmControl
<1>7. stage' \in EmmcInitStages /\ stage' \notin {"reset", "reset_old", "ready", "failed"}
  BY <1>1, <1>2, <1>6 DEF EmmcInitStages
<1>8. E!Pending' \subseteq fresh' BY <1>3 DEF E!Pending
<1> QED BY <1>1, <1>2, <1>3, <1>4, <1>5, <1>7, <1>8, EmInitStep

\* The answer goes into sdCard.
LEMMA SdDecodes ==
    ASSUME EmmcInv, UNCHANGED <<card, op>>, sd' = E!Decoded
    PROVE  SdKnows' /\ sd'.type = sd.type /\ sd'.blkcnt = sd.blkcnt
<1>1. CASE idx = "ACMD41"
  <2>1. sd' = [sd EXCEPT !.power = (card.state = "ready"), !.app = FALSE, !.capacity = card.kind.hc]
    BY <1>1 DEF E!Decoded
  <2>2. /\ DOMAIN sd' = DOMAIN sd /\ sd'.type = sd.type /\ sd'.power = (card.state = "ready")
        /\ sd'.capacity = card.kind.hc /\ sd'.blkcnt = sd.blkcnt
    BY <2>1 DEF EmmcInv, EmType
  <2>3. card.kind.hc \in BOOLEAN BY EmmcConsts DEF EmmcInv, EmCard
  <2> QED BY <2>2, <2>3 DEF EmmcInv, EmType, SdKnows, EmKnown
<1>2. CASE idx = "CMD3"
  <2>1. sd' = [sd EXCEPT !.rca = TRUE, !.app = emmc.app] BY <1>2 DEF E!Decoded
  <2>2. /\ DOMAIN sd' = DOMAIN sd /\ sd'.type = sd.type /\ sd'.power = sd.power
        /\ sd'.capacity = sd.capacity /\ sd'.blkcnt = sd.blkcnt
    BY <2>1 DEF EmmcInv, EmType
  <2> QED BY <2>2 DEF EmmcInv, EmType, SdKnows, EmKnown
<1>3. CASE idx \notin {"ACMD41", "CMD3"}
  <2>1. sd' = sd \/ \E a : sd' = [sd EXCEPT !.app = a] BY <1>3 DEF E!Decoded
  <2>2. ASSUME NEW a, sd' = [sd EXCEPT !.app = a] PROVE sd'.type = sd.type /\ sd'.blkcnt = sd.blkcnt
    BY <2>2 DEF EmmcInv, EmType
  <2> QED BY <2>1, <2>2, EmSdStays, SdTakesApp
<1> QED BY <1>1, <1>2, <1>3

\* The rest of sdSendCommandP.
LEMMA EmCmdDone ==
    ASSUME EmmcInv, E!CmdDone PROVE EmmcInv'
<1> USE EmmcConsts, Buffers
<1>1. /\ pc = "cmdwait" /\ pc' = "idle"
      /\ UNCHANGED <<stage, idx, card, op, done, got, passed, was>>
  BY DEF E!CmdDone, E!Return, E!call
<1>2. /\ emmc.cmd # "sent" /\ EmController' /\ emmc'.int \cap E!Errors = {}
      /\ emmc'.int = E!WaitClears("cmd_done") /\ emmc'.cmd = emmc.cmd
      /\ emmc'.dat = emmc.dat /\ emmc'.left = emmc.left /\ emmc'.buf = emmc.buf
  BY EmWaited DEF E!CmdDone
<1>3. /\ SdKnows' /\ sd'.type = sd.type /\ sd'.blkcnt = sd.blkcnt
  <2>1. UNCHANGED sd \/ sd' = E!Decoded BY DEF E!CmdDone
  <2> QED BY <1>1, <2>1, EmSdStays, SdDecodes
<1>4. /\ (Answered' => Answered /\ emmc.int \cap E!Errors = {} /\ emmc'.int = emmc.int \ {"cmd_done"})
      /\ ~Unsent'
  <2>1. ASSUME resp' = "ok" PROVE E!WaitResult("cmd_done") = "ok" /\ ~emmc.err
    BY <2>1 DEF E!CmdDone, E!Return
  <2>2. ASSUME Answered' PROVE resp' = "ok" BY <1>1, <2>2 DEF Answered
  <2> QED BY <1>1, <1>2, <2>1, <2>2, WaitSucceeds DEF Answered, Unsent, E!Pending
<1>5. EmType'
  BY <1>1, <1>2, <1>3, <1>4 DEF EmmcInv, EmType, EmController, EmCard, EmControl, SdKnows,
    EmmcInitStages, EmmcCallStages, EmmcFlags, E!Errors, E!Pending
<1>6. EmController'
  BY <1>2
<1>7. EmCard'
  BY <1>1, <1>2, <1>3, <1>4 DEF EmmcInv, EmType, EmController, EmCard, EmmcInitStages,
    EmmcCallStages, EmmcFlags, E!Errors, E!Pending
<1>8. EmControl'
  BY <1>1, <1>2, <1>3, <1>4 DEF EmmcInv, EmType, EmController, EmCard, EmControl,
    E!TransferCmd, EmmcInitStages, EmmcCallStages, EmmcFlags, E!Errors, E!Pending
<1>9. EmWire'
  BY <1>1, <1>2, <1>3, <1>4 DEF EmmcInv, EmType, EmController, EmCard, EmControl, EmWire,
    EmmcInitStages, EmmcCallStages, EmmcFlags, E!Errors, E!Pending
<1>10. EmKnown'
  BY <1>3 DEF SdKnows
<1>11. EmQuiet'
  BY <1>1, <1>2, <1>3, <1>4 DEF EmmcInv, EmType, EmController, EmCard, EmControl, EmWire,
    EmQuiet, Unsent, E!TransferCmd, EmmcInitStages, EmmcCallStages, EmmcFlags, E!Errors,
    E!Pending
<1>12. EmCounted'
  BY <1>1, <1>2, <1>3, <1>4 DEF EmmcInv, EmType, EmController, EmCard, EmControl, EmWire,
    EmKnown, EmCounted, E!TransferCmd, EmmcInitStages, EmmcCallStages, EmmcFlags, E!Errors,
    E!Pending
<1>13. EmErase'
  BY <1>1, <1>2, <1>3, <1>4 DEF EmmcInv, EmType, EmController, EmCard, EmControl, EmWire,
    EmKnown, EmQuiet, EmErase, Exactly, E!TransferCmd, EmmcInitStages, EmmcCallStages,
    EmmcFlags, E!Errors, E!Pending
<1>14. EmRead'
  <2> SUFFICES ASSUME stage = "transfer", op.kind = "read", Answered'
               PROVE  (ReadFlow /\ (Exactly => ReadData))'
    BY <1>1 DEF EmRead
  <2>1. ReadFlow /\ (Exactly => ReadData) BY <1>4 DEF EmmcInv, EmRead
  <2>2. ReadFlow' BY <1>1, <1>2, <1>4, <2>1 DEF ReadFlow, InHand
  <2>3. Exactly' => ReadData' BY <1>1, <1>2, <1>3, <2>1 DEF Exactly, ReadData
  <2> QED BY <2>2, <2>3
<1>15. EmWrite'
  <2> SUFFICES ASSUME stage = "transfer", op.kind = "write", Answered'
               PROVE  (WriteFlow /\ (Exactly => WriteData))'
    BY <1>1 DEF EmWrite
  <2>1. WriteFlow /\ (Exactly => WriteData) BY <1>4 DEF EmmcInv, EmWrite
  <2>2. WriteFlow' BY <1>1, <1>2, <1>4, <2>1 DEF WriteFlow
  <2>3. Exactly' => WriteData' BY <1>1, <1>2, <1>3, <2>1 DEF Exactly, WriteData
  <2> QED BY <2>2, <2>3
<1>16. EmEnds'
  BY <1>1, <1>2, <1>3, <1>4 DEF EmmcInv, EmType, EmController, EmCard, EmControl, EmWire,
    EmKnown, EmCounted, EmEnds, E!TransferCmd, EmmcInitStages, EmmcCallStages, EmmcFlags,
    E!Errors, E!Pending
<1>17. EmDone'
  BY <1>1, <1>2, <1>3, <1>4 DEF EmmcInv, EmType, EmController, EmCard, EmControl, EmWire,
    EmKnown, EmDone, Moved, Exactly, E!Exact, E!Expected, E!Asked, EmmcInitStages,
    EmmcCallStages, EmmcFlags, E!Errors, E!Pending
<1> QED BY <1>5, <1>6, <1>7, <1>8, <1>9, <1>10, <1>11, <1>12, <1>13, <1>14, <1>15, <1>16,
  <1>17 DEF EmmcInv

\* A step of sdInitCard that sends nothing itself: the next command, the end or
\* the failure.
LEMMA EmInitGoes ==
    ASSUME EmmcInv, stage \in EmmcInitStages, pc = "idle", SdKnows',
           UNCHANGED <<emmc, fresh, card, op, done, got, passed, was>>,
           \/ /\ stage' \in EmmcInitStages \ {"reset", "reset_old"} /\ pc' \in {"app", "cmd"}
              /\ idx' \notin {"CMD23", "CMD55"}
           \/ stage' \in {"failed", "ready", "reset_old"} /\ pc' = "idle"
    PROVE  EmmcInv'
<1>1. EmController' /\ emmc'.cmd # "sent" /\ E!Pending' \subseteq fresh'
  BY DEF EmmcInv, EmController, EmWire, E!Pending
<1>2. /\ stage' \in EmmcInitStages \cup {"ready", "failed"} /\ pc' \in {"idle", "app", "cmd"}
      /\ stage' \in {"reset", "reset_old", "ready", "failed"} => pc' = "idle"
      /\ pc' # "idle" => idx' \notin {"CMD23", "CMD55"}
  BY DEF EmmcInitStages
<1> QED BY <1>1, <1>2, EmInitStep

LEMMA EmStep ==
    ASSUME EmmcInv, NEW from \in EmmcInitStages, NEW c, NEW to \in EmmcInitStages \ {"reset", "reset_old"},
           c \notin {"CMD23", "CMD55"}, E!Step(from, c, to)
    PROVE  EmmcInv'
<1>1. stage = from /\ pc = "idle" /\ UNCHANGED <<sd, emmc, fresh, card, op, done, got, passed, was>>
  BY DEF E!Step, E!At, E!InitOnly, E!call
<1>2. \/ stage' = to /\ pc' \in {"app", "cmd"} /\ idx' = c
      \/ stage' = "failed" /\ pc' = "idle"
  BY <1>1 DEF E!Step, E!Issue, E!Fail
<1> QED BY <1>1, <1>2, EmSdStays, EmInitGoes

LEMMA EmResetCard ==
    ASSUME EmmcInv, NEW from \in EmmcInitStages, NEW to \in EmmcInitStages \ {"reset", "reset_old"},
           E!ResetCard(from, to)
    PROVE  EmmcInv'
<1>1. /\ stage = from /\ pc = "idle" /\ UNCHANGED <<fresh, card, op, done, got, passed, was>>
      /\ emmc' = [emmc EXCEPT !.int = {}, !.cmd = "none", !.dat = "none", !.left = 0, !.buf = <<>>]
      /\ sd' = [sd EXCEPT !.rca = FALSE, !.power = FALSE, !.type = "unknown", !.app = FALSE]
  BY DEF E!ResetCard, E!At, E!InitOnly, E!call
<1>2. \/ stage' = to /\ pc' \in {"app", "cmd"} /\ idx' = "CMD0"
      \/ stage' = "failed" /\ pc' = "idle"
  BY <1>1 DEF E!ResetCard, E!Issue, E!Fail
<1>3. /\ DOMAIN emmc' = DOMAIN emmc /\ emmc'.int = {} /\ emmc'.cmd = "none" /\ emmc'.dat = "none"
      /\ emmc'.left = 0
  BY <1>1 DEF EmmcInv, EmController
<1>4. /\ DOMAIN sd' = DOMAIN sd /\ sd'.type = "unknown" /\ sd'.power = FALSE
      /\ sd'.capacity = sd.capacity /\ sd'.blkcnt = sd.blkcnt
  BY <1>1 DEF EmmcInv, EmType
<1>5. op' = None BY <1>1 DEF EmmcInv, EmControl
<1>6. SdKnows' BY <1>1, <1>4, <1>5 DEF EmmcInv, EmType, SdKnows, EmKnown
<1>7. EmController' /\ emmc'.cmd # "sent" /\ E!Pending' \subseteq fresh'
  BY <1>3 DEF EmmcInv, EmController, E!Pending
<1>8. /\ stage' \in EmmcInitStages \cup {"ready", "failed"} /\ pc' \in {"idle", "app", "cmd"}
      /\ stage' \in {"reset", "reset_old", "ready", "failed"} => pc' = "idle"
      /\ pc' # "idle" => idx' \notin {"CMD23", "CMD55"}
  BY <1>2 DEF EmmcInitStages
<1> QED BY <1>1, <1>6, <1>7, <1>8, EmInitStep

LEMMA EmIfCond ==
    ASSUME EmmcInv, E!IfCond \/ E!IdleOld PROVE EmmcInv'
<1>1. /\ stage \in {"ifcond", "idle_old"} /\ pc = "idle"
      /\ UNCHANGED <<sd, emmc, fresh, card, op, done, got, passed, was>>
  BY DEF E!IfCond, E!IdleOld, E!At, E!InitOnly, E!call
<1>2. \/ stage' \in {"opcond_v2", "opcond_old"} /\ pc' \in {"app", "cmd"} /\ idx' = "ACMD41"
      \/ stage' \in {"failed", "reset_old"} /\ pc' = "idle"
  BY <1>1 DEF E!IfCond, E!IdleOld, E!OpCondFirst, E!Issue, E!Fail
<1> QED BY <1>1, <1>2, EmSdStays, EmInitGoes DEF EmmcInitStages

LEMMA EmOpCond ==
    ASSUME EmmcInv, NEW s \in {"opcond_v2", "opcond_old"}, NEW type \in {"1", "hc", "sc"}, E!OpCond(s, type),
           type # "1" => type = IF sd.capacity THEN "hc" ELSE "sc"
    PROVE  EmmcInv'
<1>1. /\ stage = s /\ pc = "idle" /\ UNCHANGED <<emmc, fresh, card, op, done, got, passed, was>>
  BY DEF E!OpCond, E!At, E!InitOnly, E!call
<1>2. \/ stage' \in {s, "cid"} /\ pc' \in {"app", "cmd"} /\ idx' \in {"ACMD41", "CMD2"}
      \/ stage' = "failed" /\ pc' = "idle"
  BY <1>1 DEF E!OpCond, E!Issue, E!Fail
<1>3. SdKnows'
  <2>1. UNCHANGED sd \/ (sd.power /\ sd' = [sd EXCEPT !.type = type]) BY DEF E!OpCond
  <2>2. ASSUME sd.power, sd' = [sd EXCEPT !.type = type] PROVE SdKnows'
    <3>1. /\ DOMAIN sd' = DOMAIN sd /\ sd'.type = type /\ sd'.power = sd.power
          /\ sd'.capacity = sd.capacity /\ sd'.blkcnt = sd.blkcnt
      BY <2>2 DEF EmmcInv, EmType
    <3>2. op' = None BY <1>1 DEF EmmcInv, EmControl, EmmcInitStages
    <3>3. sd.capacity = card.kind.hc BY <2>2 DEF EmmcInv, EmKnown
    <3> QED BY <1>1, <2>2, <3>1, <3>2, <3>3 DEF EmmcInv, EmType, SdKnows, EmKnown
  <2> QED BY <1>1, <2>1, <2>2, EmSdStays
<1> QED BY <1>1, <1>2, <1>3, EmInitGoes DEF EmmcInitStages

LEMMA EmClock ==
    ASSUME EmmcInv, E!Clock \/ E!ReadSCR \/ E!Ready PROVE EmmcInv'
<1>1. /\ stage \in {"csd", "select", "blocklen"} /\ pc = "idle"
      /\ UNCHANGED <<sd, emmc, fresh, card, op, done, got, passed, was>>
  BY DEF E!Clock, E!ReadSCR, E!Ready, E!At, E!InitOnly, E!call
<1>2. \/ stage' \in {"select", "scr"} /\ pc' \in {"app", "cmd"} /\ idx' \in {"CMD7", "ACMD51"}
      \/ stage' \in {"failed", "ready"} /\ pc' = "idle"
  BY <1>1 DEF E!Clock, E!ReadSCR, E!Ready, E!Issue, E!Fail
<1> QED BY <1>1, <1>2, EmSdStays, EmInitGoes DEF EmmcInitStages

LEMMA EmScrBlock ==
    ASSUME EmmcInv, E!ScrBlock PROVE EmmcInv'
<1>1. stage = "scr" /\ pc = "idle" /\ UNCHANGED <<card, op, done, got, passed, was>>
  BY DEF E!ScrBlock, E!At, E!call
<1>2. CASE resp # "ok"
  <2>1. UNCHANGED <<sd, emmc, fresh>> /\ stage' = "failed" /\ pc' = "idle"
    BY <1>1, <1>2 DEF E!ScrBlock, E!Fail
  <2> QED BY <1>1, <2>1, EmSdStays, EmInitGoes DEF EmmcInitStages
<1>3. CASE resp = "ok"
  <2>1. emmc' = [emmc EXCEPT !.int = E!WaitClears("ready"), !.buf = <<>>] /\ fresh' = {}
    BY <1>3 DEF E!ScrBlock
  <2>2. /\ DOMAIN emmc' = DOMAIN emmc /\ emmc'.int = E!WaitClears("ready") /\ emmc'.cmd = emmc.cmd
        /\ emmc'.dat = emmc.dat /\ emmc'.left = emmc.left
    BY <2>1 DEF EmmcInv, EmController
  <2>3. E!WaitClears("ready") \cap E!Errors = {} /\ E!WaitClears("ready") \subseteq emmc.int
    BY WaitForgets
  <2>4. EmController' /\ emmc'.cmd # "sent" /\ E!Pending' \subseteq fresh'
    BY <1>1, <2>1, <2>2, <2>3 DEF EmmcInv, EmController, EmWire, E!Pending
  <2>5. \/ stage' \in {"width", "blocklen"} /\ pc' \in {"app", "cmd"} /\ idx' \in {"ACMD6", "CMD16"}
        \/ stage' = "failed" /\ pc' = "idle"
    BY <1>1, <1>3 DEF E!ScrBlock, E!Issue, E!Fail
  <2>6. SdKnows'
    <3>1. UNCHANGED sd \/ sd' = [sd EXCEPT !.blkcnt = card.kind.blkcnt, !.wide = card.kind.wide]
      BY <1>3 DEF E!ScrBlock
    <3>2. ASSUME sd' = [sd EXCEPT !.blkcnt = card.kind.blkcnt, !.wide = card.kind.wide] PROVE SdKnows'
      <4>1. /\ DOMAIN sd' = DOMAIN sd /\ sd'.type = sd.type /\ sd'.power = sd.power
            /\ sd'.capacity = sd.capacity /\ sd'.blkcnt = card.kind.blkcnt
        BY <3>2 DEF EmmcInv, EmType
      <4>2. op = None BY <1>1 DEF EmmcInv, EmControl, EmmcInitStages
      <4>3. card.kind.blkcnt \in BOOLEAN BY EmmcConsts DEF EmmcInv, EmCard
      <4> QED BY <1>1, <4>1, <4>2, <4>3 DEF EmmcInv, EmType, SdKnows, EmKnown
    <3> QED BY <1>1, <3>1, <3>2, EmSdStays
  <2>7. /\ stage' \in EmmcInitStages \cup {"ready", "failed"} /\ pc' \in {"idle", "app", "cmd"}
        /\ stage' \in {"reset", "reset_old", "ready", "failed"} => pc' = "idle"
        /\ pc' # "idle" => idx' \notin {"CMD23", "CMD55"}
    BY <2>5 DEF EmmcInitStages
  <2>8. stage \in EmmcInitStages BY <1>1 DEF EmmcInitStages
  <2> QED BY <1>1, <2>4, <2>6, <2>7, <2>8, EmInitStep
<1> QED BY <1>2, <1>3

LEMMA EmInitCard ==
    ASSUME EmmcInv, E!InitCard PROVE EmmcInv'
<1> USE DEF EmmcInitStages
<1>1. CASE E!ResetCard("reset", "idle") \/ E!ResetCard("reset_old", "idle_old")
  BY <1>1, EmResetCard
<1>2. CASE E!Step("idle", "CMD8", "ifcond") \/ E!Step("cid", "CMD3", "rca")
  BY <1>2, EmStep
<1>3. CASE E!Step("rca", "CMD9", "csd") \/ E!Step("width", "CMD16", "blocklen")
  BY <1>3, EmStep
<1>4. CASE E!OpCond("opcond_v2", IF sd.capacity THEN "hc" ELSE "sc")
  <2> DEFINE t == IF sd.capacity THEN "hc" ELSE "sc"
  <2>1. t \in {"1", "hc", "sc"} /\ t = IF sd.capacity THEN "hc" ELSE "sc" OBVIOUS
  <2> HIDE DEF t
  <2>2. E!OpCond("opcond_v2", t) BY <1>4 DEF t
  <2> QED BY <2>1, <2>2, EmOpCond
<1>5. CASE E!OpCond("opcond_old", "1") BY <1>5, EmOpCond
<1>6. CASE E!IfCond \/ E!IdleOld BY <1>6, EmIfCond
<1>7. CASE E!Clock \/ E!ReadSCR \/ E!Ready BY <1>7, EmClock
<1>8. CASE E!ScrBlock BY <1>8, EmScrBlock
<1> QED BY <1>1, <1>2, <1>3, <1>4, <1>5, <1>6, <1>7, <1>8 DEF E!InitCard

\* The end of a transfer.
LEMMA EmEnd ==
    ASSUME EmmcInv, stage \in EmmcCallStages, UNCHANGED <<sd, card, op, was>>, done' \in Nat,
           EmController', emmc'.cmd # "sent", E!Pending' \subseteq fresh',
           stage' = "ready", pc' = "idle", EmDone'
    PROVE  EmmcInv'
<1>1. op # None BY DEF EmmcInv, EmControl
<1>2. EmType' BY DEF EmmcInv, EmType
<1>3. EmCard' BY DEF EmmcInv, EmCard
<1>4. EmControl' BY <1>1 DEF EmControl, EmmcInitStages, EmmcCallStages
<1>5. EmWire' BY DEF EmWire
<1>6. EmKnown' BY DEF EmmcInv, EmKnown
<1>7. /\ EmQuiet' /\ EmCounted' /\ EmErase' /\ EmRead' /\ EmWrite' /\ EmEnds'
  BY DEF EmQuiet, EmCounted, EmErase, EmRead, EmWrite, EmEnds
<1> QED BY <1>2, <1>3, <1>4, <1>5, <1>6, <1>7 DEF EmmcInv
\* It ends with an error, after a step that has or has not waited.
LEMMA EmFails ==
    ASSUME EmmcInv, stage \in EmmcCallStages, pc = "idle", NEW r, r # "ok", E!End(r),
           UNCHANGED <<sd, card, op, was, emmc, done, fresh>>
    PROVE  EmmcInv'
<1>1. stage' = "ready" /\ pc' = "idle" /\ passed' # "ok" BY DEF E!End
<1>2. EmController' /\ emmc'.cmd # "sent" /\ E!Pending' \subseteq fresh' /\ done' \in Nat
  BY DEF EmmcInv, EmType, EmController, EmWire, E!Pending
<1>3. EmDone' BY <1>1 DEF EmDone
<1> QED BY <1>1, <1>2, <1>3, EmEnd

\* A call begins.
LEMMA EmBegin ==
    ASSUME EmmcInv, NEW o \in Ops, E!Begin(o) PROVE EmmcInv'
<1> USE EmmcConsts, Buffers
<1>1. /\ pc = "idle" /\ stage \in {"ready", "failed"} /\ sd.type # "unknown"
      /\ UNCHANGED <<sd, emmc, card, fresh>>
  BY DEF E!Begin
<1>2. ASSUME emmc.dat # "none" \/ E!Pending # {} PROVE EmmcInv'
  <2>1. UNCHANGED <<stage, pc, idx, sd, emmc, card, op, done, got, passed, was, fresh>>
    BY <1>2 DEF E!Begin
  <2>2. EmType'
    BY <2>1, <1>1 DEF EmmcInv, EmType, EmController, EmCard, EmControl, EmmcInitStages,
      EmmcCallStages, EmmcFlags, E!Errors, E!Pending
  <2>3. EmController'
    BY <2>1, <1>1 DEF EmmcInv, EmType, EmController, EmCard, EmmcInitStages, EmmcCallStages,
      EmmcFlags, E!Errors, E!Pending
  <2>4. EmCard'
    BY <2>1, <1>1 DEF EmmcInv, EmType, EmController, EmCard, EmmcInitStages, EmmcCallStages,
      EmmcFlags, E!Errors, E!Pending
  <2>5. EmControl'
    BY <2>1, <1>1 DEF EmmcInv, EmType, EmController, EmCard, EmControl, E!TransferCmd,
      EmmcInitStages, EmmcCallStages, EmmcFlags, E!Errors, E!Pending
  <2>6. EmWire'
    BY <2>1, <1>1 DEF EmmcInv, EmType, EmController, EmCard, EmControl, EmWire,
      EmmcInitStages, EmmcCallStages, EmmcFlags, E!Errors, E!Pending
  <2>7. EmKnown'
    BY <2>1, <1>1 DEF EmmcInv, EmType, EmController, EmCard, EmControl, EmKnown, EmWire,
      EmmcInitStages, EmmcCallStages, EmmcFlags, E!Errors, E!Pending
  <2>8. EmQuiet'
    BY <2>1, <1>1 DEF EmmcInv, EmType, EmController, EmCard, EmControl, EmWire, EmQuiet,
      Unsent, E!TransferCmd, EmmcInitStages, EmmcCallStages, EmmcFlags, E!Errors, E!Pending
  <2>9. EmCounted'
    BY <2>1, <1>1 DEF EmmcInv, EmType, EmController, EmCard, EmControl, EmWire, EmKnown,
      EmCounted, Unsent, Answered, E!TransferCmd, EmmcInitStages, EmmcCallStages, EmmcFlags,
      E!Errors, E!Pending
  <2>10. EmErase'
    BY <2>1, <1>1 DEF EmmcInv, EmType, EmController, EmCard, EmControl, EmWire, EmKnown,
      EmQuiet, EmErase, Unsent, Answered, Exactly, E!TransferCmd, EmmcInitStages,
      EmmcCallStages, EmmcFlags, E!Errors, E!Pending
  <2>11. EmRead'
    BY <2>1, <1>1 DEF EmmcInv, EmType, EmController, EmCard, EmControl, EmWire, EmKnown,
      EmQuiet, EmRead, ReadFlow, ReadData, Answered, Exactly, InHand, EmmcInitStages,
      EmmcCallStages, EmmcFlags, E!Errors, E!Pending
  <2>12. EmWrite'
    BY <2>1, <1>1 DEF EmmcInv, EmType, EmController, EmCard, EmControl, EmWire, EmKnown,
      EmQuiet, EmWrite, WriteFlow, WriteData, Answered, Exactly, EmmcInitStages,
      EmmcCallStages, EmmcFlags, E!Errors, E!Pending
  <2>13. EmEnds'
    BY <2>1, <1>1 DEF EmmcInv, EmType, EmController, EmCard, EmControl, EmWire, EmKnown,
      EmCounted, EmEnds, Unsent, Answered, E!TransferCmd, EmmcInitStages, EmmcCallStages,
      EmmcFlags, E!Errors, E!Pending
  <2>14. EmDone'
    BY <2>1, <1>1 DEF EmmcInv, EmType, EmController, EmCard, EmControl, EmWire, EmKnown,
      EmDone, Moved, Answered, Exactly, E!Exact, E!Expected, E!Asked, EmmcInitStages,
      EmmcCallStages, EmmcFlags, E!Errors, E!Pending
  <2> QED BY <2>2, <2>3, <2>4, <2>5, <2>6, <2>7, <2>8, <2>9, <2>10, <2>11, <2>12, <2>13,
    <2>14 DEF EmmcInv
<1>3. ASSUME ~(emmc.dat # "none" \/ E!Pending # {}) PROVE EmmcInv'
  <2>1. /\ op' = o /\ done' = 0 /\ got' = <<>> /\ passed' = "none" /\ was' = card.data
        /\ resp' = resp /\ pc' = "cmd"
        /\ ((o.n > 1 /\ sd.blkcnt /\ o.kind # "erase" /\ idx' = "CMD23" /\ stage' = "blkcnt")
           \/ (~(o.n > 1 /\ sd.blkcnt /\ o.kind # "erase") /\ idx' = E!TransferCmd(o) /\ stage' = "transfer"))
    <3>1. ~E!App("CMD23") /\ ~E!App(E!TransferCmd(o)) BY DEF E!App, E!TransferCmd
    <3> QED BY <1>3, <3>1 DEF E!Begin, E!Issue
  <2>2. o # None
    OBVIOUS
  <2>3. EmType'
    BY <2>1, <2>2, <1>1, <1>3 DEF EmmcInv, EmType, EmController, EmCard, EmControl,
      EmmcInitStages, EmmcCallStages, EmmcFlags, E!Errors, E!Pending
  <2>4. EmController'
    BY <2>1, <2>2, <1>1, <1>3 DEF EmmcInv, EmType, EmController, EmCard, EmmcInitStages,
      EmmcCallStages, EmmcFlags, E!Errors, E!Pending
  <2>5. EmCard'
    BY <2>1, <2>2, <1>1, <1>3 DEF EmmcInv, EmType, EmController, EmCard, EmmcInitStages,
      EmmcCallStages, EmmcFlags, E!Errors, E!Pending
  <2>6. EmControl'
    BY <2>1, <2>2, <1>1, <1>3 DEF EmmcInv, EmType, EmController, EmCard, EmControl,
      E!TransferCmd, EmmcInitStages, EmmcCallStages, EmmcFlags, E!Errors, E!Pending
  <2>7. EmWire'
    BY <2>1, <2>2, <1>1, <1>3 DEF EmmcInv, EmType, EmController, EmCard, EmControl, EmWire,
      EmmcInitStages, EmmcCallStages, EmmcFlags, E!Errors, E!Pending
  <2>8. EmKnown'
    BY <2>1, <2>2, <1>1, <1>3 DEF EmmcInv, EmType, EmController, EmCard, EmControl, EmKnown,
      EmWire, EmmcInitStages, EmmcCallStages, EmmcFlags, E!Errors, E!Pending
  <2>9. EmQuiet'
    BY <2>1, <2>2, <1>1, <1>3 DEF EmmcInv, EmType, EmController, EmCard, EmControl, EmWire,
      EmQuiet, Unsent, E!TransferCmd, EmmcInitStages, EmmcCallStages, EmmcFlags, E!Errors,
      E!Pending
  <2>10. EmCounted'
    BY <2>1, <2>2, <1>1, <1>3 DEF EmmcInv, EmType, EmController, EmCard, EmControl, EmWire,
      EmKnown, EmCounted, Unsent, Answered, E!TransferCmd, EmmcInitStages, EmmcCallStages,
      EmmcFlags, E!Errors, E!Pending
  <2>11. EmErase'
    BY <2>1, <2>2, <1>1, <1>3 DEF EmmcInv, EmType, EmController, EmCard, EmControl, EmWire,
      EmKnown, EmQuiet, EmErase, Unsent, Answered, Exactly, E!TransferCmd, EmmcInitStages,
      EmmcCallStages, EmmcFlags, E!Errors, E!Pending
  <2>12. EmRead'
    BY <2>1, <2>2, <1>1, <1>3 DEF EmmcInv, EmType, EmController, EmCard, EmControl, EmWire,
      EmKnown, EmQuiet, EmRead, ReadFlow, ReadData, Answered, Exactly, InHand,
      EmmcInitStages, EmmcCallStages, EmmcFlags, E!Errors, E!Pending
  <2>13. EmWrite'
    BY <2>1, <2>2, <1>1, <1>3 DEF EmmcInv, EmType, EmController, EmCard, EmControl, EmWire,
      EmKnown, EmQuiet, EmWrite, WriteFlow, WriteData, Answered, Exactly, EmmcInitStages,
      EmmcCallStages, EmmcFlags, E!Errors, E!Pending
  <2>14. EmEnds'
    BY <2>1, <2>2, <1>1, <1>3 DEF EmmcInv, EmType, EmController, EmCard, EmControl, EmWire,
      EmKnown, EmCounted, EmEnds, Unsent, Answered, E!TransferCmd, EmmcInitStages,
      EmmcCallStages, EmmcFlags, E!Errors, E!Pending
  <2>15. EmDone'
    BY <2>1, <2>2, <1>1, <1>3 DEF EmmcInv, EmType, EmController, EmCard, EmControl, EmWire,
      EmKnown, EmDone, Moved, Answered, Exactly, E!Exact, E!Expected, E!Asked,
      EmmcInitStages, EmmcCallStages, EmmcFlags, E!Errors, E!Pending
  <2> QED BY <2>3, <2>4, <2>5, <2>6, <2>7, <2>8, <2>9, <2>10, <2>11, <2>12, <2>13, <2>14,
    <2>15 DEF EmmcInv
<1> QED BY <1>2, <1>3

\* SET_BLOCKCNT is answered.
LEMMA EmBlockCount ==
    ASSUME EmmcInv, E!BlockCount PROVE EmmcInv'
<1> USE EmmcConsts, Buffers
<1>1. /\ pc = "idle" /\ stage = "blkcnt" /\ UNCHANGED <<sd, emmc, card, op, done, got, was, fresh>>
  BY DEF E!BlockCount, E!At, E!Going, E!NoMove
<1>2. ASSUME resp # "ok" PROVE EmmcInv'
  <2>1. E!End(resp) BY <1>2 DEF E!BlockCount
  <2> QED BY <1>1, <1>2, <2>1, EmFails DEF EmmcCallStages
<1>3. ASSUME resp = "ok" PROVE EmmcInv'
  <2>1. op \in Ops
    BY <1>1 DEF EmmcInv, EmType, EmControl, EmmcCallStages
  <2>2. /\ pc' = "cmd" /\ stage' = "transfer" /\ idx' = E!TransferCmd(op)
        /\ UNCHANGED <<resp, passed>>
    <3>1. ~E!App(E!TransferCmd(op)) BY <2>1 DEF E!App, E!TransferCmd
    <3> QED BY <1>3, <3>1 DEF E!BlockCount, E!Issue
  <2>3. EmType'
    BY <2>1, <2>2, <1>1, <1>3 DEF EmmcInv, EmType, EmController, EmCard, EmControl,
      EmmcInitStages, EmmcCallStages, EmmcFlags, E!Errors, E!Pending
  <2>4. EmController'
    BY <2>1, <2>2, <1>1, <1>3 DEF EmmcInv, EmType, EmController, EmCard, EmmcInitStages,
      EmmcCallStages, EmmcFlags, E!Errors, E!Pending
  <2>5. EmCard'
    BY <2>1, <2>2, <1>1, <1>3 DEF EmmcInv, EmType, EmController, EmCard, EmmcInitStages,
      EmmcCallStages, EmmcFlags, E!Errors, E!Pending
  <2>6. EmControl'
    BY <2>1, <2>2, <1>1, <1>3 DEF EmmcInv, EmType, EmController, EmCard, EmControl,
      E!TransferCmd, EmmcInitStages, EmmcCallStages, EmmcFlags, E!Errors, E!Pending
  <2>7. EmWire'
    BY <2>1, <2>2, <1>1, <1>3 DEF EmmcInv, EmType, EmController, EmCard, EmControl, EmWire,
      EmmcInitStages, EmmcCallStages, EmmcFlags, E!Errors, E!Pending
  <2>8. EmKnown'
    BY <2>1, <2>2, <1>1, <1>3 DEF EmmcInv, EmType, EmController, EmCard, EmControl, EmKnown,
      EmWire, EmmcInitStages, EmmcCallStages, EmmcFlags, E!Errors, E!Pending
  <2>9. EmQuiet'
    BY <2>1, <2>2, <1>1, <1>3 DEF EmmcInv, EmType, EmController, EmCard, EmControl, EmWire,
      EmQuiet, Unsent, E!TransferCmd, EmmcInitStages, EmmcCallStages, EmmcFlags, E!Errors,
      E!Pending
  <2>10. EmCounted'
    BY <2>1, <2>2, <1>1, <1>3 DEF EmmcInv, EmType, EmController, EmCard, EmControl, EmWire,
      EmKnown, EmCounted, Unsent, Answered, E!TransferCmd, EmmcInitStages, EmmcCallStages,
      EmmcFlags, E!Errors, E!Pending
  <2>11. EmErase'
    BY <2>1, <2>2, <1>1, <1>3 DEF EmmcInv, EmType, EmController, EmCard, EmControl, EmWire,
      EmKnown, EmQuiet, EmErase, Unsent, Answered, Exactly, E!TransferCmd, EmmcInitStages,
      EmmcCallStages, EmmcFlags, E!Errors, E!Pending
  <2>12. EmRead'
    BY <2>1, <2>2, <1>1, <1>3 DEF EmmcInv, EmType, EmController, EmCard, EmControl, EmWire,
      EmKnown, EmQuiet, EmRead, ReadFlow, ReadData, Answered, Exactly, InHand,
      EmmcInitStages, EmmcCallStages, EmmcFlags, E!Errors, E!Pending
  <2>13. EmWrite'
    BY <2>1, <2>2, <1>1, <1>3 DEF EmmcInv, EmType, EmController, EmCard, EmControl, EmWire,
      EmKnown, EmQuiet, EmWrite, WriteFlow, WriteData, Answered, Exactly, EmmcInitStages,
      EmmcCallStages, EmmcFlags, E!Errors, E!Pending
  <2>14. EmEnds'
    BY <2>1, <2>2, <1>1, <1>3 DEF EmmcInv, EmType, EmController, EmCard, EmControl, EmWire,
      EmKnown, EmCounted, EmEnds, Unsent, Answered, E!TransferCmd, EmmcInitStages,
      EmmcCallStages, EmmcFlags, E!Errors, E!Pending
  <2>15. EmDone'
    BY <2>1, <2>2, <1>1, <1>3 DEF EmmcInv, EmType, EmController, EmCard, EmControl, EmWire,
      EmKnown, EmDone, Moved, Answered, Exactly, E!Exact, E!Expected, E!Asked,
      EmmcInitStages, EmmcCallStages, EmmcFlags, E!Errors, E!Pending
  <2> QED BY <2>3, <2>4, <2>5, <2>6, <2>7, <2>8, <2>9, <2>10, <2>11, <2>12, <2>13, <2>14,
    <2>15 DEF EmmcInv
<1> QED BY <1>2, <1>3

\* The transfer command is answered.
LEMMA EmTransfer ==
    ASSUME EmmcInv, E!Transfer PROVE EmmcInv'
<1> USE EmmcConsts, Buffers
<1>1. /\ pc = "idle" /\ stage = "transfer" /\ UNCHANGED <<sd, emmc, card, op, done, got, was, fresh>>
  BY DEF E!Transfer, E!At, E!Going, E!NoMove
<1>2. ASSUME resp # "ok" PROVE EmmcInv'
  <2>1. E!End(resp) BY <1>2 DEF E!Transfer
  <2> QED BY <1>1, <1>2, <2>1, EmFails DEF EmmcCallStages
<1>3. ASSUME resp = "ok", op.kind = "erase" PROVE EmmcInv'
  <2>1. /\ pc' = "cmd" /\ stage' = "erase_end" /\ idx' = "CMD33"
        /\ UNCHANGED <<resp, passed>>
    BY <1>3 DEF E!Transfer, E!Issue, E!App
  <2>2. EmType'
    BY <2>1, <1>1, <1>3 DEF EmmcInv, EmType, EmController, EmCard, EmControl,
      EmmcInitStages, EmmcCallStages, EmmcFlags, E!Errors, E!Pending
  <2>3. EmController'
    BY <2>1, <1>1, <1>3 DEF EmmcInv, EmType, EmController, EmCard, EmmcInitStages,
      EmmcCallStages, EmmcFlags, E!Errors, E!Pending
  <2>4. EmCard'
    BY <2>1, <1>1, <1>3 DEF EmmcInv, EmType, EmController, EmCard, EmmcInitStages,
      EmmcCallStages, EmmcFlags, E!Errors, E!Pending
  <2>5. EmControl'
    BY <2>1, <1>1, <1>3 DEF EmmcInv, EmType, EmController, EmCard, EmControl, E!TransferCmd,
      EmmcInitStages, EmmcCallStages, EmmcFlags, E!Errors, E!Pending
  <2>6. EmWire'
    BY <2>1, <1>1, <1>3 DEF EmmcInv, EmType, EmController, EmCard, EmControl, EmWire,
      EmmcInitStages, EmmcCallStages, EmmcFlags, E!Errors, E!Pending
  <2>7. EmKnown'
    BY <2>1, <1>1, <1>3 DEF EmmcInv, EmType, EmController, EmCard, EmControl, EmKnown,
      EmWire, EmmcInitStages, EmmcCallStages, EmmcFlags, E!Errors, E!Pending
  <2>8. EmQuiet'
    BY <2>1, <1>1, <1>3 DEF EmmcInv, EmType, EmController, EmCard, EmControl, EmWire,
      EmQuiet, Unsent, E!TransferCmd, EmmcInitStages, EmmcCallStages, EmmcFlags, E!Errors,
      E!Pending
  <2>9. EmCounted'
    BY <2>1, <1>1, <1>3 DEF EmmcInv, EmType, EmController, EmCard, EmControl, EmWire,
      EmKnown, EmCounted, Unsent, Answered, E!TransferCmd, EmmcInitStages, EmmcCallStages,
      EmmcFlags, E!Errors, E!Pending
  <2>10. EmErase'
    BY <2>1, <1>1, <1>3 DEF EmmcInv, EmType, EmController, EmCard, EmControl, EmWire,
      EmKnown, EmQuiet, EmErase, Unsent, Answered, Exactly, E!TransferCmd, EmmcInitStages,
      EmmcCallStages, EmmcFlags, E!Errors, E!Pending
  <2>11. EmRead'
    BY <2>1, <1>1, <1>3 DEF EmmcInv, EmType, EmController, EmCard, EmControl, EmWire,
      EmKnown, EmQuiet, EmRead, ReadFlow, ReadData, Answered, Exactly, InHand,
      EmmcInitStages, EmmcCallStages, EmmcFlags, E!Errors, E!Pending
  <2>12. EmWrite'
    BY <2>1, <1>1, <1>3 DEF EmmcInv, EmType, EmController, EmCard, EmControl, EmWire,
      EmKnown, EmQuiet, EmWrite, WriteFlow, WriteData, Answered, Exactly, EmmcInitStages,
      EmmcCallStages, EmmcFlags, E!Errors, E!Pending
  <2>13. EmEnds'
    BY <2>1, <1>1, <1>3 DEF EmmcInv, EmType, EmController, EmCard, EmControl, EmWire,
      EmKnown, EmCounted, EmEnds, Unsent, Answered, E!TransferCmd, EmmcInitStages,
      EmmcCallStages, EmmcFlags, E!Errors, E!Pending
  <2>14. EmDone'
    BY <2>1, <1>1, <1>3 DEF EmmcInv, EmType, EmController, EmCard, EmControl, EmWire,
      EmKnown, EmDone, Moved, Answered, Exactly, E!Exact, E!Expected, E!Asked,
      EmmcInitStages, EmmcCallStages, EmmcFlags, E!Errors, E!Pending
  <2> QED BY <2>2, <2>3, <2>4, <2>5, <2>6, <2>7, <2>8, <2>9, <2>10, <2>11, <2>12, <2>13,
    <2>14 DEF EmmcInv
<1>4. ASSUME resp = "ok", op.kind # "erase" PROVE EmmcInv'
  <2>1. /\ pc' = "block" /\ UNCHANGED <<stage, idx, resp, passed>>
    BY <1>4 DEF E!Transfer
  <2>2. EmType'
    BY <2>1, <1>1, <1>4 DEF EmmcInv, EmType, EmController, EmCard, EmControl,
      EmmcInitStages, EmmcCallStages, EmmcFlags, E!Errors, E!Pending
  <2>3. EmController'
    BY <2>1, <1>1, <1>4 DEF EmmcInv, EmType, EmController, EmCard, EmmcInitStages,
      EmmcCallStages, EmmcFlags, E!Errors, E!Pending
  <2>4. EmCard'
    BY <2>1, <1>1, <1>4 DEF EmmcInv, EmType, EmController, EmCard, EmmcInitStages,
      EmmcCallStages, EmmcFlags, E!Errors, E!Pending
  <2>5. EmControl'
    BY <2>1, <1>1, <1>4 DEF EmmcInv, EmType, EmController, EmCard, EmControl, E!TransferCmd,
      EmmcInitStages, EmmcCallStages, EmmcFlags, E!Errors, E!Pending
  <2>6. EmWire'
    BY <2>1, <1>1, <1>4 DEF EmmcInv, EmType, EmController, EmCard, EmControl, EmWire,
      EmmcInitStages, EmmcCallStages, EmmcFlags, E!Errors, E!Pending
  <2>7. EmKnown'
    BY <2>1, <1>1, <1>4 DEF EmmcInv, EmType, EmController, EmCard, EmControl, EmKnown,
      EmWire, EmmcInitStages, EmmcCallStages, EmmcFlags, E!Errors, E!Pending
  <2>8. EmQuiet'
    BY <2>1, <1>1, <1>4 DEF EmmcInv, EmType, EmController, EmCard, EmControl, EmWire,
      EmQuiet, Unsent, E!TransferCmd, EmmcInitStages, EmmcCallStages, EmmcFlags, E!Errors,
      E!Pending
  <2>9. EmCounted'
    BY <2>1, <1>1, <1>4 DEF EmmcInv, EmType, EmController, EmCard, EmControl, EmWire,
      EmKnown, EmCounted, Unsent, Answered, E!TransferCmd, EmmcInitStages, EmmcCallStages,
      EmmcFlags, E!Errors, E!Pending
  <2>10. EmErase'
    BY <2>1, <1>1, <1>4 DEF EmmcInv, EmType, EmController, EmCard, EmControl, EmWire,
      EmKnown, EmQuiet, EmErase, Unsent, Answered, Exactly, E!TransferCmd, EmmcInitStages,
      EmmcCallStages, EmmcFlags, E!Errors, E!Pending
  <2>11. EmRead'
    BY <2>1, <1>1, <1>4 DEF EmmcInv, EmType, EmController, EmCard, EmControl, EmWire,
      EmKnown, EmQuiet, EmRead, ReadFlow, ReadData, Answered, Exactly, InHand,
      EmmcInitStages, EmmcCallStages, EmmcFlags, E!Errors, E!Pending
  <2>12. EmWrite'
    BY <2>1, <1>1, <1>4 DEF EmmcInv, EmType, EmController, EmCard, EmControl, EmWire,
      EmKnown, EmQuiet, EmWrite, WriteFlow, WriteData, Answered, Exactly, EmmcInitStages,
      EmmcCallStages, EmmcFlags, E!Errors, E!Pending
  <2>13. EmEnds'
    BY <2>1, <1>1, <1>4 DEF EmmcInv, EmType, EmController, EmCard, EmControl, EmWire,
      EmKnown, EmCounted, EmEnds, Unsent, Answered, E!TransferCmd, EmmcInitStages,
      EmmcCallStages, EmmcFlags, E!Errors, E!Pending
  <2>14. EmDone'
    BY <2>1, <1>1, <1>4 DEF EmmcInv, EmType, EmController, EmCard, EmControl, EmWire,
      EmKnown, EmDone, Moved, Answered, Exactly, E!Exact, E!Expected, E!Asked,
      EmmcInitStages, EmmcCallStages, EmmcFlags, E!Errors, E!Pending
  <2> QED BY <2>2, <2>3, <2>4, <2>5, <2>6, <2>7, <2>8, <2>9, <2>10, <2>11, <2>12, <2>13,
    <2>14 DEF EmmcInv
<1> QED BY <1>2, <1>3, <1>4

\* The end of the range is answered.
LEMMA EmEraseEnd ==
    ASSUME EmmcInv, E!EraseEnd PROVE EmmcInv'
<1> USE EmmcConsts, Buffers
<1>1. /\ pc = "idle" /\ stage = "erase_end" /\ UNCHANGED <<sd, emmc, card, op, done, got, was, fresh>>
  BY DEF E!EraseEnd, E!At, E!Going, E!NoMove
<1>2. ASSUME resp # "ok" PROVE EmmcInv'
  <2>1. E!End(resp) BY <1>2 DEF E!EraseEnd
  <2> QED BY <1>1, <1>2, <2>1, EmFails DEF EmmcCallStages
<1>3. ASSUME resp = "ok" PROVE EmmcInv'
  <2>1. /\ pc' = "cmd" /\ stage' = "erase" /\ idx' = "CMD38" /\ UNCHANGED <<resp, passed>>
    BY <1>3 DEF E!EraseEnd, E!Issue, E!App
  <2>2. EmType'
    BY <2>1, <1>1, <1>3 DEF EmmcInv, EmType, EmController, EmCard, EmControl,
      EmmcInitStages, EmmcCallStages, EmmcFlags, E!Errors, E!Pending
  <2>3. EmController'
    BY <2>1, <1>1, <1>3 DEF EmmcInv, EmType, EmController, EmCard, EmmcInitStages,
      EmmcCallStages, EmmcFlags, E!Errors, E!Pending
  <2>4. EmCard'
    BY <2>1, <1>1, <1>3 DEF EmmcInv, EmType, EmController, EmCard, EmmcInitStages,
      EmmcCallStages, EmmcFlags, E!Errors, E!Pending
  <2>5. EmControl'
    BY <2>1, <1>1, <1>3 DEF EmmcInv, EmType, EmController, EmCard, EmControl, E!TransferCmd,
      EmmcInitStages, EmmcCallStages, EmmcFlags, E!Errors, E!Pending
  <2>6. EmWire'
    BY <2>1, <1>1, <1>3 DEF EmmcInv, EmType, EmController, EmCard, EmControl, EmWire,
      EmmcInitStages, EmmcCallStages, EmmcFlags, E!Errors, E!Pending
  <2>7. EmKnown'
    BY <2>1, <1>1, <1>3 DEF EmmcInv, EmType, EmController, EmCard, EmControl, EmKnown,
      EmWire, EmmcInitStages, EmmcCallStages, EmmcFlags, E!Errors, E!Pending
  <2>8. EmQuiet'
    BY <2>1, <1>1, <1>3 DEF EmmcInv, EmType, EmController, EmCard, EmControl, EmWire,
      EmQuiet, Unsent, E!TransferCmd, EmmcInitStages, EmmcCallStages, EmmcFlags, E!Errors,
      E!Pending
  <2>9. EmCounted'
    BY <2>1, <1>1, <1>3 DEF EmmcInv, EmType, EmController, EmCard, EmControl, EmWire,
      EmKnown, EmCounted, Unsent, Answered, E!TransferCmd, EmmcInitStages, EmmcCallStages,
      EmmcFlags, E!Errors, E!Pending
  <2>10. EmErase'
    BY <2>1, <1>1, <1>3 DEF EmmcInv, EmType, EmController, EmCard, EmControl, EmWire,
      EmKnown, EmQuiet, EmErase, Unsent, Answered, Exactly, E!TransferCmd, EmmcInitStages,
      EmmcCallStages, EmmcFlags, E!Errors, E!Pending
  <2>11. EmRead'
    BY <2>1, <1>1, <1>3 DEF EmmcInv, EmType, EmController, EmCard, EmControl, EmWire,
      EmKnown, EmQuiet, EmRead, ReadFlow, ReadData, Answered, Exactly, InHand,
      EmmcInitStages, EmmcCallStages, EmmcFlags, E!Errors, E!Pending
  <2>12. EmWrite'
    BY <2>1, <1>1, <1>3 DEF EmmcInv, EmType, EmController, EmCard, EmControl, EmWire,
      EmKnown, EmQuiet, EmWrite, WriteFlow, WriteData, Answered, Exactly, EmmcInitStages,
      EmmcCallStages, EmmcFlags, E!Errors, E!Pending
  <2>13. EmEnds'
    BY <2>1, <1>1, <1>3 DEF EmmcInv, EmType, EmController, EmCard, EmControl, EmWire,
      EmKnown, EmCounted, EmEnds, Unsent, Answered, E!TransferCmd, EmmcInitStages,
      EmmcCallStages, EmmcFlags, E!Errors, E!Pending
  <2>14. EmDone'
    BY <2>1, <1>1, <1>3 DEF EmmcInv, EmType, EmController, EmCard, EmControl, EmWire,
      EmKnown, EmDone, Moved, Answered, Exactly, E!Exact, E!Expected, E!Asked,
      EmmcInitStages, EmmcCallStages, EmmcFlags, E!Errors, E!Pending
  <2> QED BY <2>2, <2>3, <2>4, <2>5, <2>6, <2>7, <2>8, <2>9, <2>10, <2>11, <2>12, <2>13,
    <2>14 DEF EmmcInv
<1> QED BY <1>2, <1>3

\* What a transfer that has moved all its blocks leaves.
LEMMA ReadIsMoved ==
    ASSUME EmmcInv, stage = "transfer", op.kind = "read", Answered, done = op.n
    PROVE  Moved
<1>1. op \in Ops /\ op.n \in Nat
  BY EmmcConsts DEF EmmcInv, EmType, EmControl, EmmcCallStages
<1>2. ReadFlow /\ (Exactly => ReadData) BY DEF EmmcInv, EmRead
<1>3. emmc.left = 0 /\ emmc.buf = << >> BY <1>1, <1>2 DEF ReadFlow, InHand, EmmcInv, EmController
<1>4. Exactly => E!Exact BY <1>1, <1>2, ExactRead DEF ReadData
<1> QED BY <1>3, <1>4 DEF Moved
LEMMA WriteIsMoved ==
    ASSUME EmmcInv, stage = "transfer", op.kind = "write", Answered, emmc.left = 0, emmc.buf = << >>
    PROVE  Moved
<1>1. op \in Ops /\ op.n \in Nat /\ op.n - 0 = op.n
  BY EmmcConsts DEF EmmcInv, EmType, EmControl, EmmcCallStages
<1>2. WriteFlow /\ (Exactly => WriteData) BY DEF EmmcInv, EmWrite
<1>3. Exactly => E!Exact BY <1>1, <1>2, ExactWrite DEF WriteData
<1> QED BY <1>3 DEF Moved

\* All blocks are through: the stop command, or the end.
LEMMA EmFinish ==
    ASSUME EmmcInv, E!Finish PROVE EmmcInv'
<1> USE EmmcConsts, Buffers
<1>1. /\ pc = "end" /\ stage = "transfer" /\ op.kind # "erase" /\ op \in Ops /\ op # None
      /\ UNCHANGED <<sd, emmc, card, op, done, got, was, fresh>>
  BY DEF E!Finish, E!Going, E!NoMove, EmmcInv, EmType, EmControl, EmmcCallStages
<1>2. Answered BY <1>1 DEF Answered
<1>3. Moved
  <2>1. CASE op.kind = "read"
    <3>1. done = op.n BY <1>1, <1>2, <2>1 DEF EmmcInv, EmRead, ReadFlow
    <3> QED BY <1>1, <1>2, <2>1, <3>1, ReadIsMoved
  <2>2. CASE op.kind = "write"
    <3>1. emmc.left = 0 /\ emmc.buf = << >> BY <1>1, <1>2, <2>2 DEF EmmcInv, EmWrite, WriteFlow
    <3> QED BY <1>1, <1>2, <2>2, <3>1, WriteIsMoved
  <2> QED BY <1>1, <2>1, <2>2
<1>4. ASSUME op.n > 1 /\ ~sd.blkcnt PROVE EmmcInv'
  <2>1. /\ pc' = "cmd" /\ stage' = "stop" /\ idx' = "CMD12" /\ UNCHANGED <<resp, passed>>
    BY <1>4 DEF E!Finish, E!Issue, E!App
  <2>2. EmType'
    BY <2>1, <1>1, <1>3, <1>4 DEF EmmcInv, EmType, EmController, EmCard, EmControl,
      EmmcInitStages, EmmcCallStages, EmmcFlags, E!Errors, E!Pending
  <2>3. EmController'
    BY <2>1, <1>1, <1>3, <1>4 DEF EmmcInv, EmType, EmController, EmCard, EmmcInitStages,
      EmmcCallStages, EmmcFlags, E!Errors, E!Pending
  <2>4. EmCard'
    BY <2>1, <1>1, <1>3, <1>4 DEF EmmcInv, EmType, EmController, EmCard, EmmcInitStages,
      EmmcCallStages, EmmcFlags, E!Errors, E!Pending
  <2>5. EmControl'
    BY <2>1, <1>1, <1>3, <1>4 DEF EmmcInv, EmType, EmController, EmCard, EmControl,
      E!TransferCmd, EmmcInitStages, EmmcCallStages, EmmcFlags, E!Errors, E!Pending
  <2>6. EmWire'
    BY <2>1, <1>1, <1>3, <1>4 DEF EmmcInv, EmType, EmController, EmCard, EmControl, EmWire,
      EmmcInitStages, EmmcCallStages, EmmcFlags, E!Errors, E!Pending
  <2>7. EmKnown'
    BY <2>1, <1>1, <1>3, <1>4 DEF EmmcInv, EmType, EmController, EmCard, EmControl, EmKnown,
      EmWire, EmmcInitStages, EmmcCallStages, EmmcFlags, E!Errors, E!Pending
  <2>8. EmQuiet'
    BY <2>1, <1>1, <1>3, <1>4 DEF EmmcInv, EmType, EmController, EmCard, EmControl, EmWire,
      EmQuiet, Unsent, E!TransferCmd, EmmcInitStages, EmmcCallStages, EmmcFlags, E!Errors,
      E!Pending
  <2>9. EmCounted'
    BY <2>1, <1>1, <1>3, <1>4 DEF EmmcInv, EmType, EmController, EmCard, EmControl, EmWire,
      EmKnown, EmCounted, Unsent, Answered, E!TransferCmd, EmmcInitStages, EmmcCallStages,
      EmmcFlags, E!Errors, E!Pending
  <2>10. EmErase'
    BY <2>1, <1>1, <1>3, <1>4 DEF EmmcInv, EmType, EmController, EmCard, EmControl, EmWire,
      EmKnown, EmQuiet, EmErase, Unsent, Answered, Exactly, E!TransferCmd, EmmcInitStages,
      EmmcCallStages, EmmcFlags, E!Errors, E!Pending
  <2>11. EmRead'
    BY <2>1, <1>1, <1>3, <1>4 DEF EmmcInv, EmType, EmController, EmCard, EmControl, EmWire,
      EmKnown, EmQuiet, EmRead, ReadFlow, ReadData, Answered, Exactly, InHand,
      EmmcInitStages, EmmcCallStages, EmmcFlags, E!Errors, E!Pending
  <2>12. EmWrite'
    BY <2>1, <1>1, <1>3, <1>4 DEF EmmcInv, EmType, EmController, EmCard, EmControl, EmWire,
      EmKnown, EmQuiet, EmWrite, WriteFlow, WriteData, Answered, Exactly, EmmcInitStages,
      EmmcCallStages, EmmcFlags, E!Errors, E!Pending
  <2>13. EmEnds'
    BY <2>1, <1>1, <1>3, <1>4 DEF EmmcInv, EmType, EmController, EmCard, EmControl, EmWire,
      EmKnown, EmCounted, EmEnds, Unsent, Answered, E!TransferCmd, EmmcInitStages,
      EmmcCallStages, EmmcFlags, E!Errors, E!Pending
  <2>14. EmDone'
    BY <2>1, <1>1, <1>3, <1>4 DEF EmmcInv, EmType, EmController, EmCard, EmControl, EmWire,
      EmKnown, EmDone, Moved, Answered, Exactly, E!Exact, E!Expected, E!Asked,
      EmmcInitStages, EmmcCallStages, EmmcFlags, E!Errors, E!Pending
  <2> QED BY <2>2, <2>3, <2>4, <2>5, <2>6, <2>7, <2>8, <2>9, <2>10, <2>11, <2>12, <2>13,
    <2>14 DEF EmmcInv
<1>5. ASSUME ~(op.n > 1 /\ ~sd.blkcnt) PROVE EmmcInv'
  <2>1. stage' = "ready" /\ pc' = "idle" /\ passed' = "ok" BY <1>5 DEF E!Finish, E!End
  <2>2. EmController' /\ emmc'.cmd # "sent" /\ E!Pending' \subseteq fresh' /\ done' \in Nat
    BY <1>1 DEF EmmcInv, EmType, EmController, EmWire, E!Pending
  <2>3. op.n = 1 \/ sd.blkcnt BY <1>1, <1>5
  <2>4. /\ card.state \in {"tran", "data", "rcv"}
        /\ card.state # "tran" => card.ends /\ (emmc.dat # "none" \/ E!Pending # {})
    BY <1>1, <1>2, <2>3 DEF EmmcInv, EmEnds
  <2>5. Moved' BY <1>1, <1>3 DEF Moved, Exactly, E!Exact, E!Expected, E!Asked
  <2>6. EmDone' BY <1>1, <2>1, <2>4, <2>5 DEF EmDone, E!Pending
  <2> QED BY <1>1, <2>1, <2>2, <2>6, EmEnd DEF EmmcCallStages
<1> QED BY <1>4, <1>5

LEMMA EmStopped ==
    ASSUME EmmcInv, E!Stopped PROVE EmmcInv'
<1>1. /\ pc = "idle" /\ stage = "stop" /\ E!End(resp)
      /\ UNCHANGED <<sd, emmc, card, op, done, got, was, fresh>>
  BY DEF E!Stopped, E!At, E!Going, E!NoMove
<1>2. CASE resp # "ok" BY <1>1, <1>2, EmFails DEF EmmcCallStages
<1>3. CASE resp = "ok"
  <2>1. stage' = "ready" /\ pc' = "idle" BY <1>1 DEF E!End
  <2>2. EmController' /\ emmc'.cmd # "sent" /\ E!Pending' \subseteq fresh' /\ done' \in Nat
    BY <1>1 DEF EmmcInv, EmType, EmController, EmWire, E!Pending
  <2>3. Moved /\ card.state = "tran" BY <1>1, <1>3 DEF EmmcInv, EmDone, Answered
  <2>4. Moved' BY <1>1, <2>3 DEF Moved, Exactly, E!Exact, E!Expected, E!Asked
  <2>5. EmDone' BY <1>1, <2>1, <2>3, <2>4 DEF EmDone
  <2> QED BY <1>1, <2>1, <2>2, <2>5, EmEnd DEF EmmcCallStages
<1> QED BY <1>2, <1>3

LEMMA EmErased ==
    ASSUME EmmcInv, E!Erased PROVE EmmcInv'
<1>1. /\ pc = "idle" /\ stage = "erase" /\ UNCHANGED <<sd, emmc, card, op, done, got, was, fresh>>
      /\ E!End(IF resp = "ok" /\ emmc.dat # "none" THEN "timeout" ELSE resp)
  BY DEF E!Erased, E!At, E!Going, E!NoMove
<1>2. op \in Ops /\ op.kind = "erase" BY <1>1 DEF EmmcInv, EmType, EmControl, EmmcCallStages
<1>3. stage' = "ready" /\ pc' = "idle" /\ (passed' = "ok" => resp = "ok") BY <1>1 DEF E!End
<1>4. EmController' /\ emmc'.cmd # "sent" /\ E!Pending' \subseteq fresh' /\ done' \in Nat
  BY <1>1 DEF EmmcInv, EmType, EmController, EmWire, E!Pending
<1>5. EmDone'
  <2> SUFFICES ASSUME resp = "ok" PROVE Moved' /\ card.state = "tran" BY <1>1, <1>3 DEF EmDone
  <2>1. card.state = "tran" /\ (Exactly => E!Exact)
    BY <1>1, <1>2, ExactErase DEF EmmcInv, EmErase, Answered
  <2> QED BY <1>1, <1>2, <2>1 DEF Moved, Exactly, E!Exact, E!Expected, E!Asked
<1> QED BY <1>1, <1>3, <1>4, <1>5, EmEnd DEF EmmcCallStages

\* One turn of the loop over the blocks.
LEMMA EmBlock ==
    ASSUME EmmcInv, E!Block PROVE EmmcInv'
<1> USE EmmcConsts, Buffers
<1>1. /\ pc = "block" /\ stage = "transfer" /\ op.kind # "erase" /\ op \in Ops /\ op # None
      /\ emmc.cmd # "sent" /\ fresh' = {} /\ UNCHANGED <<sd, card, op, was>>
  BY DEF E!Block, E!Going, EmmcInv, EmType, EmControl, EmWire, EmmcCallStages
<1>2. ASSUME E!WaitResult("ready") # "ok" PROVE EmmcInv'
  <2>1. /\ emmc' = [emmc EXCEPT !.int = E!WaitClears("ready")] /\ done' = done
        /\ stage' = "ready" /\ pc' = "idle" /\ passed' # "ok"
    BY <1>2 DEF E!Block, E!End
  <2>2. /\ DOMAIN emmc' = DOMAIN emmc /\ emmc'.int = E!WaitClears("ready") /\ emmc'.cmd = emmc.cmd
        /\ emmc'.dat = emmc.dat /\ emmc'.left = emmc.left
    BY <2>1 DEF EmmcInv, EmController
  <2>3. E!WaitClears("ready") \cap E!Errors = {} /\ E!WaitClears("ready") \subseteq emmc.int
    BY WaitForgets
  <2>4. EmController' /\ emmc'.cmd # "sent" /\ E!Pending' \subseteq fresh' /\ done' \in Nat
    BY <1>1, <2>1, <2>2, <2>3 DEF EmmcInv, EmType, EmController, E!Pending
  <2>5. EmDone' BY <2>1 DEF EmDone
  <2> QED BY <1>1, <2>1, <2>4, <2>5, EmEnd DEF EmmcCallStages
<1>3. ASSUME E!WaitResult("ready") = "ok" PROVE EmmcInv'
  <2>1. /\ emmc' = [emmc EXCEPT !.int = E!WaitClears("ready"),
                             !.buf = IF op.kind = "write" THEN <<"new">> ELSE <<>>]
        /\ got' = (IF op.kind = "read" THEN Append(got, emmc.buf) ELSE got)
        /\ done' = done + 1
        /\ pc' = (IF done' < op.n THEN "block" ELSE IF op.kind = "write" THEN "data_done" ELSE "end")
        /\ UNCHANGED <<stage, idx, resp, passed>>
    BY <1>3 DEF E!Block
  <2>2. /\ emmc.int \cap E!Errors = {} /\ "ready" \in emmc.int
        /\ E!WaitClears("ready") = emmc.int \ {"ready"}
    BY <1>3, WaitSucceeds
  <2>3. /\ DOMAIN emmc' = DOMAIN emmc /\ emmc'.int = emmc.int \ {"ready"}
        /\ emmc'.cmd = emmc.cmd /\ emmc'.dat = emmc.dat /\ emmc'.left = emmc.left
        /\ emmc'.buf = (IF op.kind = "write" THEN <<"new">> ELSE <<>>)
        /\ emmc'.err = emmc.err
    BY <2>1, <2>2 DEF EmmcInv, EmController
  <2>4. /\ pc' \in {"block", "data_done", "end"} /\ (pc' = "data_done" => op.kind = "write")
        /\ Answered /\ Answered'
    BY <1>1, <2>1 DEF Answered
  <2>5. EmType'
    BY <2>1, <2>2, <2>3, <2>4, <1>1 DEF EmmcInv, EmType, EmController, EmCard, EmControl,
      EmmcInitStages, EmmcCallStages, EmmcFlags, E!Errors, E!Pending
  <2>6. EmController'
    BY <2>1, <2>2, <2>3, <2>4, <1>1 DEF EmmcInv, EmType, EmController, EmCard,
      EmmcInitStages, EmmcCallStages, EmmcFlags, E!Errors, E!Pending
  <2>7. EmCard'
    BY <2>1, <2>2, <2>3, <2>4, <1>1 DEF EmmcInv, EmType, EmController, EmCard,
      EmmcInitStages, EmmcCallStages, EmmcFlags, E!Errors, E!Pending
  <2>8. EmControl'
    BY <2>1, <2>2, <2>3, <2>4, <1>1 DEF EmmcInv, EmType, EmController, EmCard, EmControl,
      E!TransferCmd, EmmcInitStages, EmmcCallStages, EmmcFlags, E!Errors, E!Pending
  <2>9. EmWire'
    BY <2>1, <2>2, <2>3, <2>4, <1>1 DEF EmmcInv, EmType, EmController, EmCard, EmControl,
      EmWire, EmmcInitStages, EmmcCallStages, EmmcFlags, E!Errors, E!Pending
  <2>10. EmKnown'
    BY <2>1, <2>2, <2>3, <2>4, <1>1 DEF EmmcInv, EmType, EmController, EmCard, EmControl,
      EmKnown, EmWire, EmmcInitStages, EmmcCallStages, EmmcFlags, E!Errors, E!Pending
  <2>11. EmQuiet'
    BY <2>1, <2>2, <2>3, <2>4, <1>1 DEF EmmcInv, EmType, EmController, EmCard, EmControl,
      EmWire, EmQuiet, Unsent, E!TransferCmd, EmmcInitStages, EmmcCallStages, EmmcFlags,
      E!Errors, E!Pending
  <2>12. EmCounted'
    BY <2>1, <2>2, <2>3, <2>4, <1>1 DEF EmmcInv, EmType, EmController, EmCard, EmControl,
      EmWire, EmKnown, EmCounted, Unsent, Answered, E!TransferCmd, EmmcInitStages,
      EmmcCallStages, EmmcFlags, E!Errors, E!Pending
  <2>13. EmErase'
    BY <2>1, <2>2, <2>3, <2>4, <1>1 DEF EmmcInv, EmType, EmController, EmCard, EmControl,
      EmWire, EmKnown, EmQuiet, EmErase, Unsent, Answered, Exactly, E!TransferCmd,
      EmmcInitStages, EmmcCallStages, EmmcFlags, E!Errors, E!Pending
  <2>14. EmRead'
    <3> SUFFICES ASSUME op.kind = "read" PROVE (ReadFlow /\ (Exactly => ReadData))'
      BY <1>1 DEF EmRead
    <3>1. /\ op.start \in Nat /\ op.n \in Nat /\ done \in Nat /\ emmc.left \in Int
          /\ \A b \in op.start .. op.start + op.n - 1 : b \in Blocks
      BY <1>1 DEF EmmcInv, EmType, EmController
    <3>2. ReadFlow /\ (Exactly => ReadData) BY <1>1, <2>4 DEF EmmcInv, EmRead
    <3>3. emmc.buf # << >> /\ done + 1 + emmc.left = op.n BY <2>2, <3>1, <3>2 DEF ReadFlow, InHand
    <3>4. ReadFlow' BY <1>1, <2>1, <2>3, <3>1, <3>2, <3>3 DEF ReadFlow, InHand
    <3>5. ASSUME Exactly PROVE ReadData'
      <4>1. /\ card.data = was /\ card.next = op.start + op.n - emmc.left
            /\ ReadFrom(got, was, op.start, done)
            /\ emmc.buf = <<op.start + done, was[op.start + done]>>
        BY <3>2, <3>3, <3>5 DEF ReadData
      <4>2. op.start + done \in Blocks
        <5>1. emmc.left >= 0 BY <3>2 DEF ReadFlow
        <5>2. op.start + done \in op.start .. op.start + op.n - 1 BY <3>1, <3>3, <5>1
        <5> QED BY <3>1, <5>2
      <4>3. was \in [Blocks -> Contents] BY DEF EmmcInv, EmType
      <4>4. ReadFrom(Append(got, emmc.buf), was, op.start, done + 1)
        BY <3>1, <4>1, <4>2, <4>3, ReadMore
      <4>5. got' = Append(got, emmc.buf) /\ emmc'.buf = << >> BY <2>1, <2>3
      <4> QED BY <1>1, <2>1, <2>3, <4>1, <4>4, <4>5 DEF ReadData
    <3> QED BY <1>1, <3>4, <3>5 DEF Exactly
  <2>15. EmWrite'
    <3> SUFFICES ASSUME op.kind = "write" PROVE (WriteFlow /\ (Exactly => WriteData))'
      BY <1>1 DEF EmWrite
    <3>1. op.start \in Nat /\ op.n \in Nat /\ done \in Nat /\ emmc.left \in Int
      BY <1>1 DEF EmmcInv, EmType, EmController
    <3>2. WriteFlow /\ (Exactly => WriteData) BY <1>1, <2>4 DEF EmmcInv, EmWrite
    <3>3. /\ emmc.buf = <<"empty">> /\ emmc.left > 0 /\ done + emmc.left = op.n
          /\ "data_done" \notin emmc.int
      BY <2>2, <3>1, <3>2 DEF WriteFlow
    <3>4. emmc'.buf = <<"new">> BY <2>3
    <3>5. pc' # "end" /\ (pc' = "data_done" => done' = op.n) BY <2>1, <3>1, <3>3
    <3>6. WriteFlow' BY <1>1, <2>1, <2>3, <3>1, <3>2, <3>3, <3>4, <3>5 DEF WriteFlow
    <3>7. Exactly => WriteData' BY <1>1, <2>3, <3>2 DEF WriteData
    <3> QED BY <1>1, <3>6, <3>7 DEF Exactly
  <2>16. EmEnds'
    BY <2>1, <2>2, <2>3, <2>4, <1>1 DEF EmmcInv, EmType, EmController, EmCard, EmControl,
      EmWire, EmKnown, EmCounted, EmEnds, Unsent, Answered, E!TransferCmd, EmmcInitStages,
      EmmcCallStages, EmmcFlags, E!Errors, E!Pending
  <2>17. EmDone'
    BY <2>1, <2>2, <2>3, <2>4, <1>1 DEF EmmcInv, EmType, EmController, EmCard, EmControl,
      EmWire, EmKnown, EmDone, Moved, Answered, Exactly, E!Exact, E!Expected, E!Asked,
      EmmcInitStages, EmmcCallStages, EmmcFlags, E!Errors, E!Pending
  <2> QED BY <2>5, <2>6, <2>7, <2>8, <2>9, <2>10, <2>11, <2>12, <2>13, <2>14, <2>15, <2>16,
    <2>17 DEF EmmcInv
<1> QED BY <1>2, <1>3

\* The wait for DATA_DONE behind a write.
LEMMA EmDataDone ==
    ASSUME EmmcInv, E!DataDone PROVE EmmcInv'
<1> USE EmmcConsts, Buffers
<1>1. /\ pc = "data_done" /\ stage = "transfer" /\ op.kind = "write" /\ op \in Ops /\ op # None
      /\ emmc.cmd # "sent" /\ fresh' = {} /\ UNCHANGED <<sd, card, op, was, idx, done, got>>
      /\ emmc' = [emmc EXCEPT !.int = E!WaitClears("data_done")]
  BY DEF E!DataDone, E!Wait, E!Going, EmmcInv, EmType, EmControl, EmWire, EmmcCallStages
<1>2. /\ DOMAIN emmc' = DOMAIN emmc /\ emmc'.int = E!WaitClears("data_done") /\ emmc'.cmd = emmc.cmd
      /\ emmc'.dat = emmc.dat /\ emmc'.left = emmc.left /\ emmc'.buf = emmc.buf
  BY <1>1 DEF EmmcInv, EmController
<1>3. E!WaitClears("data_done") \cap E!Errors = {} /\ E!WaitClears("data_done") \subseteq emmc.int
  BY WaitForgets
<1>4. ASSUME E!WaitResult("data_done") # "ok" PROVE EmmcInv'
  <2>1. stage' = "ready" /\ pc' = "idle" /\ passed' # "ok" BY <1>4 DEF E!DataDone, E!End
  <2>2. EmController' /\ emmc'.cmd # "sent" /\ E!Pending' \subseteq fresh' /\ done' \in Nat
    BY <1>1, <1>2, <1>3 DEF EmmcInv, EmType, EmController, E!Pending
  <2>3. EmDone' BY <2>1 DEF EmDone
  <2> QED BY <1>1, <2>1, <2>2, <2>3, EmEnd DEF EmmcCallStages
<1>5. ASSUME E!WaitResult("data_done") = "ok" PROVE EmmcInv'
  <2>1. /\ pc' = "end" /\ UNCHANGED <<stage, resp, passed>>
    BY <1>5 DEF E!DataDone
  <2>2. /\ emmc.int \cap E!Errors = {} /\ "data_done" \in emmc.int
    BY <1>5, WaitSucceeds
  <2>3. /\ Answered /\ Answered'
    BY <1>1, <2>1 DEF Answered
  <2>4. EmType'
    BY <2>1, <2>2, <2>3, <1>1, <1>2, <1>3 DEF EmmcInv, EmType, EmController, EmCard,
      EmControl, EmmcInitStages, EmmcCallStages, EmmcFlags, E!Errors, E!Pending
  <2>5. EmController'
    BY <2>1, <2>2, <2>3, <1>1, <1>2, <1>3 DEF EmmcInv, EmType, EmController, EmCard,
      EmmcInitStages, EmmcCallStages, EmmcFlags, E!Errors, E!Pending
  <2>6. EmCard'
    BY <2>1, <2>2, <2>3, <1>1, <1>2, <1>3 DEF EmmcInv, EmType, EmController, EmCard,
      EmmcInitStages, EmmcCallStages, EmmcFlags, E!Errors, E!Pending
  <2>7. EmControl'
    BY <2>1, <2>2, <2>3, <1>1, <1>2, <1>3 DEF EmmcInv, EmType, EmController, EmCard,
      EmControl, E!TransferCmd, EmmcInitStages, EmmcCallStages, EmmcFlags, E!Errors,
      E!Pending
  <2>8. EmWire'
    BY <2>1, <2>2, <2>3, <1>1, <1>2, <1>3 DEF EmmcInv, EmType, EmController, EmCard,
      EmControl, EmWire, EmmcInitStages, EmmcCallStages, EmmcFlags, E!Errors, E!Pending
  <2>9. EmKnown'
    BY <2>1, <2>2, <2>3, <1>1, <1>2, <1>3 DEF EmmcInv, EmType, EmController, EmCard,
      EmControl, EmKnown, EmWire, EmmcInitStages, EmmcCallStages, EmmcFlags, E!Errors,
      E!Pending
  <2>10. EmQuiet'
    BY <2>1, <2>2, <2>3, <1>1, <1>2, <1>3 DEF EmmcInv, EmType, EmController, EmCard,
      EmControl, EmWire, EmQuiet, Unsent, E!TransferCmd, EmmcInitStages, EmmcCallStages,
      EmmcFlags, E!Errors, E!Pending
  <2>11. EmCounted'
    BY <2>1, <2>2, <2>3, <1>1, <1>2, <1>3 DEF EmmcInv, EmType, EmController, EmCard,
      EmControl, EmWire, EmKnown, EmCounted, Unsent, Answered, E!TransferCmd,
      EmmcInitStages, EmmcCallStages, EmmcFlags, E!Errors, E!Pending
  <2>12. EmErase'
    BY <2>1, <2>2, <2>3, <1>1, <1>2, <1>3 DEF EmmcInv, EmType, EmController, EmCard,
      EmControl, EmWire, EmKnown, EmQuiet, EmErase, Unsent, Answered, Exactly,
      E!TransferCmd, EmmcInitStages, EmmcCallStages, EmmcFlags, E!Errors, E!Pending
  <2>13. EmRead'
    BY <2>1, <2>2, <2>3, <1>1, <1>2, <1>3 DEF EmmcInv, EmType, EmController, EmCard,
      EmControl, EmWire, EmKnown, EmQuiet, EmRead, ReadFlow, ReadData, Answered, Exactly,
      InHand, EmmcInitStages, EmmcCallStages, EmmcFlags, E!Errors, E!Pending
  <2>14. EmWrite'
    <3>1. WriteFlow /\ (Exactly => WriteData) BY <1>1, <2>3 DEF EmmcInv, EmWrite
    <3>2. emmc.left = 0 /\ emmc.buf = << >> BY <2>2, <3>1 DEF WriteFlow
    <3>3. WriteFlow' BY <1>1, <1>2, <1>3, <2>1, <3>1, <3>2 DEF WriteFlow
    <3>4. Exactly => WriteData' BY <1>1, <1>2, <3>1 DEF WriteData
    <3> QED BY <1>1, <3>3, <3>4 DEF EmWrite, Exactly
  <2>15. EmEnds'
    BY <2>1, <2>2, <2>3, <1>1, <1>2, <1>3 DEF EmmcInv, EmType, EmController, EmCard,
      EmControl, EmWire, EmKnown, EmCounted, EmEnds, Unsent, Answered, E!TransferCmd,
      EmmcInitStages, EmmcCallStages, EmmcFlags, E!Errors, E!Pending
  <2>16. EmDone'
    BY <2>1, <2>2, <2>3, <1>1, <1>2, <1>3 DEF EmmcInv, EmType, EmController, EmCard,
      EmControl, EmWire, EmKnown, EmDone, Moved, Answered, Exactly, E!Exact, E!Expected,
      E!Asked, EmmcInitStages, EmmcCallStages, EmmcFlags, E!Errors, E!Pending
  <2> QED BY <2>4, <2>5, <2>6, <2>7, <2>8, <2>9, <2>10, <2>11, <2>12, <2>13, <2>14, <2>15,
    <2>16 DEF EmmcInv
<1> QED BY <1>4, <1>5

LEMMA EmStarts == ASSUME E!Init PROVE EmmcInv
<1>1. /\ stage = "reset" /\ pc = "idle" /\ op = None /\ done = 0 /\ fresh = {}
      /\ sd = [type |-> "unknown", rca |-> FALSE, power |-> FALSE, capacity |-> FALSE,
               app |-> FALSE, blkcnt |-> FALSE, wide |-> FALSE]
      /\ emmc = [int |-> {}, cmd |-> "none", dat |-> "none", left |-> 0, buf |-> <<>>,
                 app |-> FALSE, err |-> FALSE]
      /\ was = card.data
  BY DEF E!Init
<1>2. PICK k \in Cards :
        card = [kind |-> k, state |-> "idle", app |-> FALSE, counted |-> FALSE, ends |-> FALSE,
                next |-> 0, from |-> 0, to |-> 0, data |-> [b \in Blocks |-> "old"]]
  BY DEF E!Init
<1>3. EmCard BY <1>2 DEF EmCard, Contents
<1>4. ~card.counted BY <1>2
<1>5. EmType BY <1>1, <1>3 DEF EmType, EmCard, EmmcInitStages
<1>6. EmController BY <1>1 DEF EmController, EmmcFlags
<1>7. EmControl BY <1>1 DEF EmControl, EmmcInitStages, EmmcCallStages
<1>8. EmWire BY <1>1 DEF EmWire, E!Pending
<1>9. EmKnown BY <1>1, <1>4 DEF EmKnown
<1>10. EmQuiet /\ EmCounted /\ EmErase /\ EmRead /\ EmWrite /\ EmEnds /\ EmDone
  BY <1>1 DEF EmQuiet, EmCounted, EmErase, EmRead, EmWrite, EmEnds, EmDone
<1> QED BY <1>3, <1>5, <1>6, <1>7, <1>8, <1>9, <1>10 DEF EmmcInv

\* The variables EmmcInv speaks of.
emmcVars == <<stage, pc, idx, resp, sd, emmc, card, op, done, got, passed, was, fresh>>
LEMMA EmStays == ASSUME EmmcInv, UNCHANGED emmcVars PROVE EmmcInv'
<1> USE DEF emmcVars
<1>1. EmType' /\ EmController' /\ EmCard' /\ EmControl' /\ EmWire' /\ EmKnown'
  <2>1. EmType' /\ EmController' BY DEF EmmcInv, EmType, EmController
  <2>2. EmCard' BY DEF EmmcInv, EmCard
  <2>3. EmControl' BY DEF EmmcInv, EmControl, E!TransferCmd
  <2>4. EmWire' /\ EmKnown' BY DEF EmmcInv, EmWire, EmKnown, E!Pending
  <2> QED BY <2>1, <2>2, <2>3, <2>4
<1>2. EmQuiet' /\ EmCounted' /\ EmErase' /\ EmEnds'
  BY DEF EmmcInv, EmQuiet, EmCounted, EmErase, EmEnds, Unsent, Answered, Exactly, E!Pending
<1>3. EmRead' /\ EmWrite'
  BY DEF EmmcInv, EmRead, EmWrite, ReadFlow, ReadData, WriteFlow, WriteData, InHand, Answered,
    Exactly, E!Pending
<1>4. EmDone'
  BY DEF EmmcInv, EmDone, Moved, Answered, Exactly, E!Pending, E!Exact, E!Expected, E!Asked
<1> QED BY <1>1, <1>2, <1>3, <1>4 DEF EmmcInv

LEMMA EmSteps == ASSUME EmmcInv, E!Next PROVE EmmcInv'
<1>1. CASE E!Transfers
  <2>1. CASE \E o \in Ops : E!Begin(o) BY <2>1, EmBegin
  <2> QED BY <1>1, <2>1, EmBlockCount, EmTransfer, EmBlock, EmDataDone, EmFinish, EmStopped,
    EmEraseEnd, EmErased DEF E!Transfers
<1>2. CASE E!Bus
  BY <1>2, EmAnswer, EmRefuse, EmBlockIn, EmBlockWanted, EmBlockOut, EmDataOver, EmNoData DEF E!Bus
<1> QED BY <1>1, <1>2, EmSendCommandP, EmAppDone, EmCmdDone, EmInitCard, EmCommandFault,
  EmDataFault DEF E!Next

\* sdTransferBlocks and sdClearBlocks: whatever the controller and the card do,
\* for every card, every transfer of blocks the card has and any number of faults,
\* a success means exactly the blocks asked for and leaves the card in its
\* transfer state, and an error that was reported is not held against the next
\* call (EmmcExact of the run storage).
THEOREM EmmcIsExact == StorageSpec => []EmmcExact
<1> DEFINE EI == unit = "emmc" => EmmcInv
<1>1. StorageInit => EI
  BY EmStarts DEF StorageInit
<1>2. EI /\ [StorageNext]_all => EI'
  <2> SUFFICES ASSUME EI, [StorageNext]_all, unit' = "emmc" PROVE EmmcInv'
    OBVIOUS
  <2>1. unit = "emmc"
    BY DEF StorageNext, HostOnly, EmmcOnly, FatOnly, ClockOnly, CsdOnly, all
  <2>2. EmmcInv BY <2>1
  <2>3. CASE StorageNext
    <3>1. E!Next BY <2>1, <2>3 DEF StorageNext, HostOnly, EmmcOnly, FatOnly, ClockOnly, CsdOnly
    <3> QED BY <2>2, <3>1, EmSteps
  <2>4. CASE UNCHANGED all
    <3>1. UNCHANGED emmcVars BY <2>4 DEF all, emmcOnly, shared, emmcVars
    <3> QED BY <2>2, <3>1, EmStays
  <2> QED BY <2>3, <2>4
<1>3. EI => EmmcExact
  <2> SUFFICES ASSUME unit = "emmc", EmmcInv
               PROVE  E!TransferExact /\ E!StoppedAfterTransfer /\ E!ReportedErrorsCleared
    BY DEF EmmcExact
  <2>1. E!ReportedErrorsCleared BY DEF EmmcInv, EmWire, E!ReportedErrorsCleared
  <2>2. E!TransferExact BY DEF EmmcInv, EmDone, Moved, Exactly, E!TransferExact
  <2>3. E!StoppedAfterTransfer BY DEF EmmcInv, EmDone, E!StoppedAfterTransfer
  <2> QED BY <2>1, <2>2, <2>3
<1> QED BY <1>1, <1>2, <1>3, PTL DEF StorageSpec
-----------------------------------------------------------------------------
(* The clocks.                                                             *)

\* What a quotient is.
LEMMA Quotient ==
    ASSUME NEW a \in Nat, NEW d \in Nat \ {0}
    PROVE  a \div d \in Nat /\ d * (a \div d) <= a /\ a < d * (a \div d) + d
BY SMT

\* A bounded set of numbers has a largest one, which is its Max.
LEMMA MaxOf ==
    ASSUME NEW b \in Nat, NEW S \in SUBSET (0 .. b), S # {}
    PROVE  C!Max(S) \in S /\ \A y \in S : y <= C!Max(S)
<1> DEFINE T == {k \in Nat : b - k \in S}
           less == {p \in Nat \X Nat : p[1] < p[2]}
<1>1. IsWellFoundedOn(less, Nat) BY NatLessThanWellFounded DEF OpToRel
<1>2. T \subseteq Nat /\ T # {}
  <2>1. PICK s \in S : TRUE OBVIOUS
  <2>2. b - s \in Nat /\ b - (b - s) = s BY <2>1
  <2> QED BY <2>1, <2>2
<1> HIDE DEF less
<1>3. PICK k \in T : \A y \in T : ~(<<y, k>> \in less) BY <1>1, <1>2, WFMin
<1> USE DEF less
<1>4. \A y \in T : ~(y < k) BY <1>3
<1>5. b - k \in S /\ \A y \in S : y <= b - k
  <2>1. ASSUME NEW y \in S PROVE y <= b - k
    <3>1. y \in Nat /\ b - y \in Nat /\ b - (b - y) = y OBVIOUS
    <3>2. ~(b - y < k) BY <3>1, <1>4
    <3> QED BY <3>1, <3>2, <1>3
  <2> QED BY <1>3, <2>1
<1>6. \E x \in S : \A y \in S : x >= y
  <2>1. \A y \in S : b - k >= y BY <1>3, <1>5
  <2> QED BY <1>5, <2>1
<1>7. C!Max(S) \in S /\ \A y \in S : C!Max(S) >= y BY <1>6 DEF C!Max
<1>8. PICK m \in S : m = C!Max(S) BY <1>7
<1>9. \A y \in S : y <= m
  <2>1. ASSUME NEW y \in S PROVE y <= m
    <3>1. m >= y BY <1>7, <1>8
    <3>2. m \in Nat /\ y \in Nat OBVIOUS
    <3> QED BY <3>1, <3>2
  <2> QED BY <2>1
<1> QED BY <1>8, <1>9

LEMMA MaxOfTwo ==
    ASSUME NEW a \in Nat, NEW b \in Nat
    PROVE  C!Max({a, b}) = IF a >= b THEN a ELSE b
<1>1. {a, b} \subseteq 0 .. (a + b) OBVIOUS
<1>2. C!Max({a, b}) \in {a, b} /\ \A y \in {a, b} : y <= C!Max({a, b}) BY <1>1, MaxOf, a + b \in Nat
<1> QED BY <1>2

LEMMA MinOfTwo ==
    ASSUME NEW a \in Nat, NEW b \in Nat
    PROVE  C!Min({a, b}) = IF a <= b THEN a ELSE b
<1>1. \E x \in {a, b} : \A y \in {a, b} : x <= y OBVIOUS
<1>2. C!Min({a, b}) \in {a, b} /\ \A y \in {a, b} : C!Min({a, b}) <= y BY <1>1 DEF C!Min
<1> QED BY <1>2

\* The divider of bcm2835_set_clock is the smallest that is not too fast, or the
\* largest there is.
LEMMA DividerFits ==
    ASSUME NEW w \in Nat, w > 0
    PROVE  /\ C!Divider(w) \in 0 .. MaxCdiv
           /\ C!Divider(w) # MaxCdiv => C!Rate(C!Divider(w)) <= w
           /\ C!Divider(w) > 0 => w * (C!Divider(w) + 1) < MaxClk
<1> DEFINE q == MaxClk \div w
           div == IF q >= 2 THEN q ELSE 2
           up == IF MaxClk \div div > w THEN div + 1 ELSE div
<1>1. MaxClk \in Nat /\ MaxCdiv \in Nat \ {0} BY StorageConstants DEF C!CardClockConstants
<1>2. q \in Nat /\ w * q <= MaxClk /\ MaxClk < w * q + w BY <1>1, Quotient
<1>3. div = C!Max({q, 2}) BY <1>2, MaxOfTwo
<1>4. div \in Nat \ {0} /\ div >= 2 BY <1>2
<1>5. MaxClk \div div \in Nat /\ div * (MaxClk \div div) <= MaxClk
      /\ MaxClk < div * (MaxClk \div div) + div
  BY <1>1, <1>4, Quotient
<1>6. up \in Nat /\ up >= 2 BY <1>4, <1>5
<1>7. C!Divider(w) = C!Min({up - 2, MaxCdiv}) BY <1>3 DEF C!Divider
<1>8. up - 2 \in Nat BY <1>6
<1> DEFINE dv == C!Divider(w)
<1>9. dv = IF up - 2 <= MaxCdiv THEN up - 2 ELSE MaxCdiv
  <2> HIDE DEF up
  <2> QED BY <1>1, <1>7, <1>8, MinOfTwo
<1>10. dv \in 0 .. MaxCdiv /\ dv <= up - 2 /\ (dv # MaxCdiv => dv = up - 2)
  <2> HIDE DEF up, dv
  <2> QED BY <1>1, <1>6, <1>9
<1>11. MaxClk \div up <= w
  <2>1. CASE MaxClk \div div > w
    <3>1. q >= 2
      <4>1. CASE q < 2
        <5>1. MaxClk < 2 * w BY <1>1, <1>2, <4>1
        <5>2. div = 2 BY <1>2, <4>1
        <5> HIDE DEF q, div
        <5>3. PICK r \in Nat : r = MaxClk \div div BY <1>5
        <5>4. 2 * r <= MaxClk BY <1>5, <5>2, <5>3
        <5>5. r <= w BY <1>1, <5>1, <5>4
        <5> QED BY <5>3, <5>5, <2>1
      <4> QED BY <1>2, <4>1
    <3>2. up = q + 1 BY <2>1, <3>1
    <3>3. MaxClk < w * (q + 1) BY <1>1, <1>2
    <3> HIDE DEF q, up, div
    <3>4. MaxClk \div up \in Nat /\ up * (MaxClk \div up) <= MaxClk BY <1>1, <1>6, Quotient
    <3>5. PICK r \in Nat : r = MaxClk \div up BY <3>4
    <3>6. up * r < w * up BY <1>1, <1>6, <3>2, <3>3, <3>4, <3>5
    <3>7. r <= w BY <1>6, <3>6
    <3> QED BY <3>5, <3>7
  <2>2. CASE ~(MaxClk \div div > w)
    <3>1. up = div BY <2>2
    <3> HIDE DEF div, up
    <3> QED BY <1>5, <2>2, <3>1
  <2> QED BY <2>1, <2>2
<1>12. dv # MaxCdiv => C!Rate(dv) <= w
  <2> HIDE DEF up, dv
  <2>1. SUFFICES ASSUME dv # MaxCdiv PROVE C!Rate(dv) <= w OBVIOUS
  <2>2. dv + 2 = up BY <1>6, <1>10, <2>1
  <2> QED BY <1>11, <2>2 DEF C!Rate
<1>13. up > 2 => w * (up - 1) < MaxClk
  <2>1. SUFFICES ASSUME up > 2 PROVE w * (up - 1) < MaxClk OBVIOUS
  <2>2. CASE MaxClk \div div > w
    <3>1. up - 1 = div BY <1>4, <2>2
    <3> HIDE DEF up, q, div
    <3>2. PICK r \in Nat : r = MaxClk \div div BY <1>5
    <3>3. div * r <= MaxClk /\ r >= w + 1 BY <1>5, <2>2, <3>2
    <3>4. div * (w + 1) <= div * r BY <1>4, <3>3
    <3>5. div * (w + 1) = w * div + div BY <1>4
    <3>6. w * div \in Nat /\ div * r \in Nat BY <1>4
    <3>7. w * div < MaxClk BY <1>1, <1>4, <3>3, <3>4, <3>5, <3>6
    <3> QED BY <3>1, <3>7
  <2>3. CASE ~(MaxClk \div div > w)
    <3>1. up = div BY <2>3
    <3>2. up = q BY <2>1, <3>1
    <3> HIDE DEF up, q, div
    <3>3. w * (q - 1) = w * q - w BY <1>2
    <3>4. w * q \in Nat BY <1>2
    <3> QED BY <1>1, <1>2, <3>2, <3>3, <3>4
  <2> QED BY <2>2, <2>3
<1>14. dv > 0 => w * (dv + 1) < MaxClk
  <2> HIDE DEF up, dv
  <2>1. SUFFICES ASSUME dv > 0 PROVE w * (dv + 1) < MaxClk OBVIOUS
  <2>2. dv \in Nat /\ dv + 1 <= up - 1 /\ up > 2 BY <1>1, <1>6, <1>10, <2>1
  <2>3. w * (dv + 1) <= w * (up - 1) BY <1>6, <2>2
  <2>4. w * (dv + 1) \in Nat /\ w * (up - 1) \in Nat BY <1>6, <2>2
  <2> QED BY <1>1, <1>13, <2>2, <2>3, <2>4
<1> QED BY <1>10, <1>12, <1>14

\* host.clock belongs to the divider in SDCDIV, and the clock wanted is the
\* caller's, or one the host could make of it.
ClockHolds ==
    /\ cdiv # MaxCdiv => /\ C!Rate(cdiv) = hostclock /\ tout = hostclock
                         /\ cdiv > 0 => hostclock * (cdiv + 1) < MaxClk
    /\ cdiv = MaxCdiv => hostclock * MaxCdiv < MaxClk
ClockWanted == (hostclock = mmc \/ mmc = want) /\ (mmc = 0 => want = 0)
ClockInv ==
    /\ mmc \in Nat /\ hostclock \in Nat /\ want \in Nat /\ cdiv \in 0 .. MaxCdiv /\ reset \in BOOLEAN
    /\ ~reset => mmc = 0 /\ want = 0
    /\ reset => ClockHolds /\ ClockWanted
    /\ C!HostClockSet /\ C!EmmcClockWithin

\* The clock a divider makes is a clock, and a little below the limit.
LEMMA RateFits ==
    ASSUME NEW d \in 0 .. MaxCdiv
    PROVE  /\ C!Rate(d) \in Nat /\ C!Rate(d) > 0 /\ C!Rate(d) * (d + 1) < MaxClk
           /\ C!Rate(d) * d < MaxClk
<1>1. MaxClk \in Nat /\ MaxCdiv \in Nat \ {0} /\ 100000 * MaxCdiv <= MaxClk /\ d \in Nat
  BY StorageConstants DEF C!CardClockConstants
<1>2. d + 2 \in Nat \ {0} /\ d + 2 <= MaxClk BY <1>1
<1>3. PICK r \in Nat : r = MaxClk \div (d + 2) BY <1>1, <1>2, Quotient
<1>4. (d + 2) * r <= MaxClk /\ MaxClk < (d + 2) * r + (d + 2)
  <2>1. PICK e \in Nat \ {0} : e = d + 2 BY <1>2
  <2>2. e * (MaxClk \div e) <= MaxClk /\ MaxClk < e * (MaxClk \div e) + e BY <1>1, Quotient
  <2> QED BY <1>3, <2>1, <2>2
<1>5. r > 0
  <2>1. CASE r = 0 BY <1>1, <1>2, <1>4, <2>1
  <2> QED BY <2>1
<1>6. (d + 2) * r = r * (d + 1) + r /\ r * (d + 1) = r * d + r BY <1>1
<1>7. r * (d + 1) \in Nat /\ r * d \in Nat BY <1>1
<1>8. r * (d + 1) < MaxClk /\ r * d < MaxClk BY <1>1, <1>4, <1>5, <1>6, <1>7
<1> QED BY <1>3, <1>5, <1>8 DEF C!Rate

LEMMA ClockStarts == ASSUME C!Init PROVE ClockInv
<1>1. MaxCdiv \in Nat \ {0} BY StorageConstants DEF C!CardClockConstants
<1>2. C!HostClockSet BY DEF C!Init, C!HostClockSet
<1>3. C!EmmcClockWithin
  <2>1. emmcdiv.freq = 0 BY DEF C!Init
  <2> QED BY <2>1 DEF C!EmmcClockWithin
<1>4. mmc = 0 /\ hostclock = 0 /\ want = 0 /\ cdiv = 0 /\ reset = FALSE BY DEF C!Init
<1>5. cdiv \in 0 .. MaxCdiv BY <1>1, <1>4
<1> QED BY <1>2, <1>3, <1>4, <1>5 DEF ClockInv

LEMMA ClockAddHost == ASSUME ClockInv, C!AddHost PROVE ClockInv'
<1>1. MaxCdiv \in Nat \ {0} /\ MaxClk \in Nat /\ 100000 * MaxCdiv <= MaxClk
  BY StorageConstants DEF C!CardClockConstants
<1>2. mmc = 0 /\ want = 0 BY DEF ClockInv, C!AddHost
<1>3. mmc' = 0 /\ hostclock' = 0 /\ want' = 0 /\ cdiv' = MaxCdiv /\ reset' = TRUE /\ emmcdiv' = emmcdiv
  BY <1>2 DEF C!AddHost
<1>4. 0 * MaxCdiv < MaxClk BY <1>1
<1>5. C!EmmcClockWithin' BY <1>3 DEF ClockInv, C!EmmcClockWithin, C!EmmcRate
<1>6. ClockHolds' /\ ClockWanted' /\ C!HostClockSet'
  BY <1>3, <1>4 DEF ClockHolds, ClockWanted, C!HostClockSet
<1> QED BY <1>1, <1>3, <1>5, <1>6 DEF ClockInv

LEMMA ClockAsk == ASSUME ClockInv, NEW c \in Wanted, C!Ask(c) PROVE ClockInv'
<1>1. MaxCdiv \in Nat \ {0} /\ MaxClk \in Nat /\ c \in Nat
  BY StorageConstants DEF C!CardClockConstants
<1>2. reset /\ mmc' = c /\ want' = c /\ UNCHANGED <<hostclock, cdiv, tout, reset, emmcdiv>>
  BY DEF C!Ask
<1>3. ClockHolds BY <1>2 DEF ClockInv
<1>4. C!EmmcClockWithin' BY <1>2 DEF ClockInv, C!EmmcClockWithin, C!EmmcRate
<1>5. ClockHolds' BY <1>2, <1>3 DEF ClockHolds, C!Rate
<1>6. C!HostClockSet'
  <2> SUFFICES ASSUME hostclock = c
               PROVE  /\ cdiv # MaxCdiv => /\ C!Rate(cdiv) <= c /\ C!Rate(cdiv) = c /\ tout = c
                                           /\ cdiv > 0 => c * (cdiv + 1) < MaxClk
                      /\ cdiv = MaxCdiv => c * MaxCdiv < MaxClk
    BY <1>2 DEF C!HostClockSet, C!Rate
  <2> QED BY <1>1, <1>3 DEF ClockHolds
<1>7. ClockWanted' BY <1>2 DEF ClockWanted
<1> QED BY <1>1, <1>2, <1>4, <1>5, <1>6, <1>7 DEF ClockInv

LEMMA ClockSetIos == ASSUME ClockInv, C!SetIos PROVE ClockInv'
<1>1. MaxCdiv \in Nat \ {0} /\ MaxClk \in Nat /\ 100000 * MaxCdiv <= MaxClk
  BY StorageConstants DEF C!CardClockConstants
<1>2. reset /\ UNCHANGED <<reset, want, emmcdiv>> BY DEF C!SetIos
<1>3. ClockHolds /\ ClockWanted BY <1>2 DEF ClockInv
<1>4. C!EmmcClockWithin' BY <1>2 DEF ClockInv, C!EmmcClockWithin, C!EmmcRate
<1>5. CASE ~(mmc = 0 \/ mmc # hostclock)
  <2>1. UNCHANGED <<mmc, tout, cdiv, hostclock>> BY <1>5 DEF C!SetIos
  <2> QED BY <1>2, <1>4, <2>1 DEF ClockInv, ClockHolds, ClockWanted, C!HostClockSet, C!Rate
<1>6. CASE mmc = 0 \/ mmc # hostclock
  <2>1. C!SetClock(mmc) /\ hostclock' = mmc' BY <1>6 DEF C!SetIos
  <2>2. mmc = want /\ mmc \in Nat BY <1>3, <1>6 DEF ClockWanted, ClockInv
  <2>3. CASE mmc < 100000
    <3>1. cdiv' = MaxCdiv /\ mmc' = mmc /\ hostclock' = mmc /\ want' = mmc
      BY <1>2, <2>1, <2>2, <2>3 DEF C!SetClock
    <3>2. mmc * MaxCdiv < MaxClk
      <4>1. mmc <= 99999 /\ mmc * MaxCdiv \in Nat BY <1>1, <2>2, <2>3
      <4>2. mmc * MaxCdiv <= 99999 * MaxCdiv BY <1>1, <2>2, <4>1
      <4> QED BY <1>1, <4>1, <4>2
    <3>3. ClockHolds' /\ ClockWanted' /\ C!HostClockSet'
      BY <3>1, <3>2 DEF ClockHolds, ClockWanted, C!HostClockSet
    <3> QED BY <1>1, <1>2, <1>4, <2>2, <3>1, <3>3 DEF ClockInv
  <2>4. CASE ~(mmc < 100000)
    <3>1. PICK d : d = C!Divider(mmc) OBVIOUS
    <3>2. cdiv' = d /\ mmc' = C!Rate(d) /\ tout' = C!Rate(d) /\ hostclock' = C!Rate(d) /\ want' = mmc
      BY <1>2, <2>1, <2>2, <2>4, <3>1 DEF C!SetClock
    <3>3. /\ d \in 0 .. MaxCdiv /\ (d # MaxCdiv => C!Rate(d) <= mmc)
          /\ d > 0 => mmc * (d + 1) < MaxClk
      BY <2>2, <2>4, <3>1, DividerFits
    <3>4. /\ C!Rate(d) \in Nat /\ C!Rate(d) > 0 /\ C!Rate(d) * (d + 1) < MaxClk
          /\ C!Rate(d) * d < MaxClk
      BY <3>3, RateFits
    <3>5. d = MaxCdiv => mmc * MaxCdiv < MaxClk
      <4>1. SUFFICES ASSUME d = MaxCdiv PROVE mmc * MaxCdiv < MaxClk OBVIOUS
      <4>2. mmc * (MaxCdiv + 1) < MaxClk BY <1>1, <3>3, <4>1
      <4>3. mmc * (MaxCdiv + 1) = mmc * MaxCdiv + mmc BY <1>1, <2>2
      <4>4. mmc * MaxCdiv \in Nat BY <1>1, <2>2
      <4> QED BY <1>1, <2>2, <4>2, <4>3, <4>4
    <3>6. C!Rate(cdiv)' = C!Rate(d) BY <3>2 DEF C!Rate
    <3>7. ClockHolds'
      <4>1. d = MaxCdiv => C!Rate(d) * MaxCdiv < MaxClk BY <3>4
      <4> QED BY <3>2, <3>4, <3>6, <4>1 DEF ClockHolds
    <3>8. ClockWanted'
      <4>1. C!Rate(d) # 0 BY <3>4
      <4> QED BY <3>2, <4>1 DEF ClockWanted
    <3>9. C!HostClockSet' BY <3>2, <3>3, <3>5, <3>6 DEF C!HostClockSet
    <3> QED BY <1>2, <1>4, <2>2, <3>2, <3>3, <3>4, <3>7, <3>8, <3>9 DEF ClockInv
  <2> QED BY <2>3, <2>4
<1> QED BY <1>5, <1>6

\* The powers of two the search of fls_uint32_t meets.
Power(k) == 2 ^ k
LEMMA Powers ==
    /\ Power(0) = 1 /\ Power(1) = 2 /\ Power(2) = 4 /\ Power(3) = 8 /\ Power(4) = 16
    /\ Power(5) = 32 /\ Power(6) = 64 /\ Power(7) = 128 /\ Power(8) = 256 /\ Power(9) = 512
    /\ Power(10) = 1024 /\ Power(11) = 2048 /\ Power(12) = 4096 /\ Power(13) = 8192
    /\ Power(14) = 16384 /\ Power(15) = 32768 /\ Power(16) = 65536 /\ Power(17) = 131072
    /\ Power(18) = 262144 /\ Power(19) = 524288 /\ Power(20) = 1048576 /\ Power(21) = 2097152
    /\ Power(22) = 4194304 /\ Power(23) = 8388608 /\ Power(24) = 16777216 /\ Power(25) = 33554432
    /\ Power(26) = 67108864 /\ Power(27) = 134217728 /\ Power(28) = 268435456
    /\ Power(29) = 536870912 /\ Power(30) = 1073741824
BY SMT DEF Power

\* The highest bit of a number that has one.
LEMMA FlsIs ==
    ASSUME NEW x \in 1 .. 1023
    PROVE  C!Fls(x) \in 1 .. 31 /\ Power(C!Fls(x) - 1) <= x
           /\ \A i \in 1 .. 31 : Power(i - 1) <= x => i <= C!Fls(x)
<1> DEFINE S == {i \in 1 .. 31 : Power(i - 1) <= x}
<1>1. 1 \in S BY Powers
<1>2. S \subseteq 0 .. 31 /\ S # {} BY <1>1
<1>3. C!Max(S) \in S /\ \A y \in S : y <= C!Max(S)
  <2> HIDE DEF S
  <2> QED BY <1>2, MaxOf
<1>4. C!Fls(x) = C!Max(S)
  <2>1. x # 0 OBVIOUS
  <2> QED BY <2>1, Zenon DEF C!Fls, Power
<1> QED BY <1>3, <1>4

\* The divisor of a controller of version 1 or 2: a power of two p with
\* p <= x < 2 * p, or the largest.
Divisors == 1 .. 1023
PowerOf(p, x) == /\ p = 2 ^ C!Min({C!Max({C!Fls(x) - 1, 0}), 7})
                 /\ p <= x /\ (p = 128 \/ x < 2 * p)
LEMMA PowerDivisor ==
    ASSUME NEW x \in 1 .. 1023
    PROVE  \E p \in {1, 2, 4, 8, 16, 32, 64, 128} : PowerOf(p, x)
<1>1. PICK m \in 1 .. 31 : m = C!Fls(x) BY FlsIs
<1>2. Power(m - 1) <= x /\ \A i \in 1 .. 31 : Power(i - 1) <= x => i <= m BY <1>1, FlsIs
<1>3. m - 1 \in Nat /\ C!Max({m - 1, 0}) = m - 1 BY MaxOfTwo
<1>4. PICK k \in 0 .. 7 : k = IF m - 1 <= 7 THEN m - 1 ELSE 7 BY <1>3
<1>5. C!Min({m - 1, 7}) = k BY <1>3, <1>4, MinOfTwo
<1>6. Power(k) \in {1, 2, 4, 8, 16, 32, 64, 128} /\ (k = 7 => Power(k) = 128) BY Powers
<1>7. Power(k) <= x
  <2>1. CASE m - 1 <= 7 BY <1>2, <1>4, <2>1
  <2>2. CASE m - 1 > 7
    <3>1. k = 7 BY <1>4, <2>2
    <3>2. Power(m - 1) >= 128 BY <2>2, Powers, SMTT(30)
    <3> QED BY <1>2, <3>1, <3>2, Powers
  <2> QED BY <2>1, <2>2
<1>8. k < 7 => x < 2 * Power(k)
  <2>1. SUFFICES ASSUME k < 7 PROVE x < 2 * Power(k) OBVIOUS
  <2>2. m = k + 1 BY <1>4, <2>1
  <2>3. (k + 2) - 1 = k + 1 /\ k + 2 \in 1 .. 31 /\ ~(k + 2 <= m) BY <2>2, <2>1
  <2>4. ~(Power(k + 1) <= x) BY <1>2, <2>3
  <2>5. Power(k + 1) = 2 * Power(k) BY <2>1, Powers
  <2> QED BY <1>6, <2>4, <2>5
<1>9. Power(k) = 2 ^ C!Min({C!Max({C!Fls(x) - 1, 0}), 7})
  BY <1>1, <1>3, <1>5, Zenon DEF Power
<1> QED BY <1>4, <1>6, <1>7, <1>8, <1>9 DEF PowerOf

\* (EmmcBase + f - 1) \div f rounds up.
LEMMA RoundedUp ==
    ASSUME NEW f \in Nat \ {0}
    PROVE  \E q \in Nat \ {0} : /\ q = (EmmcBase + f - 1) \div f
                                /\ f * q >= EmmcBase /\ f * q < EmmcBase + f
<1>1. EmmcBase \in Nat \ {0} BY StorageConstants DEF C!CardClockConstants
<1>2. PICK a \in Nat : a = EmmcBase + f - 1 BY <1>1
<1>3. PICK q \in Nat : q = a \div f BY Quotient
<1>4. f * q <= a /\ a < f * q + f BY <1>3, Quotient
<1>5. q # 0 BY <1>1, <1>2, <1>4
<1>6. f * q \in Nat OBVIOUS
<1>7. f * q >= EmmcBase /\ f * q < EmmcBase + f BY <1>1, <1>2, <1>4, <1>6
<1> QED BY <1>2, <1>3, <1>5, <1>7

\* A divisor d makes a clock below f if it is large enough, and above an eighth
\* of it if it is small enough.
LEMMA RateBelow ==
    ASSUME NEW f \in Nat \ {0}, NEW d \in Nat \ {0}, EmmcBase <= 2 * d * f
    PROVE  EmmcBase \div (2 * d) <= f
<1>1. EmmcBase \in Nat BY StorageConstants DEF C!CardClockConstants
<1>2. PICK e \in Nat \ {0} : e = 2 * d OBVIOUS
<1>3. PICK r \in Nat : r = EmmcBase \div e /\ e * r <= EmmcBase BY <1>1, Quotient
<1>4. e * r <= e * f
  <2>1. 2 * d * f = e * f BY <1>2
  <2>2. e * r \in Nat /\ e * f \in Nat OBVIOUS
  <2> QED BY <1>1, <1>3, <2>1, <2>2
<1>5. r <= f BY <1>4
<1> QED BY <1>2, <1>3, <1>5

LEMMA RateAbove ==
    ASSUME NEW f \in Nat \ {0}, NEW d \in Nat \ {0}, d * f <= 4 * EmmcBase
    PROVE  8 * (EmmcBase \div (2 * d) + 1) > f
<1>1. EmmcBase \in Nat BY StorageConstants DEF C!CardClockConstants
<1>2. PICK e \in Nat \ {0} : e = 2 * d OBVIOUS
<1>3. PICK r \in Nat : r = EmmcBase \div e /\ EmmcBase < e * r + e BY <1>1, Quotient
<1>4. d * f < 8 * (d * (r + 1))
  <2>1. e * r + e = 2 * (d * (r + 1)) BY <1>2
  <2>2. d * (r + 1) \in Nat /\ d * f \in Nat OBVIOUS
  <2> QED BY <1>1, <1>3, <2>1, <2>2
<1>5. 8 * (d * (r + 1)) = d * (8 * (r + 1)) OBVIOUS
<1>6. PICK s \in Nat : s = 8 * (r + 1) OBVIOUS
<1>7. d * f < d * s BY <1>4, <1>5, <1>6
<1>8. f < s BY <1>7
<1> QED BY <1>2, <1>3, <1>6, <1>8

\* sdSetClock: what the divisor d of frequency f is for.
Slow(f, v, d) == EmmcBase \div (2 * d) <= f \/ d = (IF v < 2 THEN 128 ELSE MaxDivisor)
Fast(f, d) == 8 * (EmmcBase \div (2 * d) + 1) > f \/ f > EmmcBase
LEMMA DivisorWithin ==
    ASSUME NEW f \in Nat \ {0}, NEW v \in 0 .. 2
    PROVE  \E d \in Divisors : d = C!sdGetClockDivider(f, v) /\ Slow(f, v, d) /\ Fast(f, d)
<1>1. EmmcBase \in Nat \ {0} /\ MaxDivisor \in 128 .. 1023
  BY StorageConstants DEF C!CardClockConstants
<1>2. PICK q \in Nat \ {0} : /\ q = (EmmcBase + f - 1) \div f
                             /\ f * q >= EmmcBase /\ f * q < EmmcBase + f
  BY RoundedUp
<1>3. PICK x \in 1 .. 1023 : x = IF q <= MaxDivisor THEN q ELSE MaxDivisor BY <1>1
<1>4. C!Min({q, MaxDivisor}) = x BY <1>1, <1>3, MinOfTwo
<1>5. f * q \in Nat /\ x <= q /\ x <= MaxDivisor /\ (x = q \/ x = MaxDivisor) BY <1>1, <1>3
<1>6. ASSUME NEW d \in 1 .. 1023, d <= x PROVE Fast(f, d)
  <2>1. SUFFICES ASSUME f <= EmmcBase PROVE 8 * (EmmcBase \div (2 * d) + 1) > f BY <1>1 DEF Fast
  <2>2. d * f <= f * q /\ d * f \in Nat BY <1>5, <1>6
  <2>3. d * f <= 4 * EmmcBase BY <1>1, <1>2, <1>5, <2>1, <2>2
  <2> QED BY <2>3, RateAbove
<1>7. CASE v < 2
  <2>0. PICK p \in {1, 2, 4, 8, 16, 32, 64, 128} : PowerOf(p, x)
    BY PowerDivisor
  <2>1. p = 2 ^ C!Min({C!Max({C!Fls(x) - 1, 0}), 7}) /\ p <= x /\ (p = 128 \/ x < 2 * p)
    BY <2>0 DEF PowerOf
  <2>2. p = C!sdGetClockDivider(f, v) BY <1>2, <1>4, <1>7, <2>1 DEF C!sdGetClockDivider
  <2>3. p \in 1 .. 1023 /\ p \in Divisors BY DEF Divisors
  <2>4. Slow(f, v, p)
    <3>1. SUFFICES ASSUME p # 128 PROVE EmmcBase \div (2 * p) <= f BY <1>7 DEF Slow
    <3>2. x < 2 * p /\ x = q BY <1>1, <1>5, <2>1, <3>1
    <3>3. f * q <= 2 * p * f BY <3>2
    <3>4. EmmcBase <= 2 * p * f BY <1>1, <1>2, <1>5, <3>3
    <3> QED BY <2>3, <3>4, RateBelow
  <2>5. Fast(f, p) BY <1>6, <2>1, <2>3
  <2> QED BY <2>2, <2>3, <2>4, <2>5
<1>8. CASE ~(v < 2) /\ x < 3
  <2>1. C!sdGetClockDivider(f, v) = 4 BY <1>2, <1>4, <1>8 DEF C!sdGetClockDivider
  <2>2. x = q /\ q <= 2 BY <1>1, <1>5, <1>8
  <2>3. EmmcBase <= 2 * f BY <1>1, <1>2, <2>2
  <2>4. EmmcBase \div (2 * 4) <= f BY <1>1, <2>3, RateBelow
  <2>5. 8 * (EmmcBase \div (2 * 4) + 1) > f \/ f > EmmcBase
    <3>1. SUFFICES ASSUME f <= EmmcBase PROVE 8 * (EmmcBase \div (2 * 4) + 1) > f BY <1>1
    <3> QED BY <1>1, <3>1, RateAbove
  <2>6. Slow(f, v, 4) /\ Fast(f, 4) /\ 4 \in Divisors BY <2>4, <2>5 DEF Slow, Fast, Divisors
  <2> QED BY <2>1, <2>6
<1>9. CASE ~(v < 2) /\ ~(x < 3)
  <2>1. C!sdGetClockDivider(f, v) = x BY <1>2, <1>4, <1>9 DEF C!sdGetClockDivider
  <2>2. Slow(f, v, x)
    <3>1. SUFFICES ASSUME x = q PROVE EmmcBase \div (2 * x) <= f BY <1>5, <1>9 DEF Slow
    <3>2. 2 * x * f = 2 * (f * q) BY <3>1
    <3>3. EmmcBase <= 2 * x * f BY <1>1, <1>2, <1>5, <3>2
    <3> QED BY <3>3, RateBelow
  <2>3. Fast(f, x) BY <1>6
  <2>4. x \in Divisors BY DEF Divisors
  <2> QED BY <2>1, <2>2, <2>3, <2>4
<1> QED BY <1>7, <1>8, <1>9

LEMMA ClockSdSetClock ==
    ASSUME ClockInv, NEW f \in Wanted \ {0}, NEW v \in 0 .. 2, C!SdSetClock(f, v)
    PROVE  ClockInv'
<1>1. f \in Nat \ {0} BY StorageConstants DEF C!CardClockConstants
<1>2. PICK d \in Divisors : d = C!sdGetClockDivider(f, v) /\ Slow(f, v, d) /\ Fast(f, d)
  BY <1>1, DivisorWithin
<1>3. d % 1024 = d BY DEF Divisors
<1>4. emmcdiv' = [freq |-> f, version |-> v, div |-> d] BY <1>2, <1>3 DEF C!SdSetClock
<1>5. emmcdiv'.freq = f /\ emmcdiv'.version = v /\ emmcdiv'.div = d BY <1>4
<1>6. C!EmmcClockWithin' BY <1>2, <1>5 DEF C!EmmcClockWithin, C!EmmcRate, Slow, Fast
<1>7. UNCHANGED <<mmc, hostclock, cdiv, tout, reset, want>> BY DEF C!SdSetClock
<1> QED BY <1>6, <1>7 DEF ClockInv, ClockHolds, ClockWanted, C!HostClockSet, C!Rate

\* bcm2835_set_ios and sdSetClock: through any sequence of calls no clock is
\* faster than asked for while a slower one could be set, nor slower than it need
\* be, and SDTOUT belongs to the clock (ClocksWithin of the run storage), for every
\* base clock and largest divider that reach 100 kHz.
THEOREM ClocksAreWithin == StorageSpec => []ClocksWithin
<1> DEFINE CI == unit = "clock" => ClockInv
<1>1. StorageInit => CI
  BY ClockStarts DEF StorageInit
<1>2. CI /\ [StorageNext]_all => CI'
  <2> SUFFICES ASSUME CI, [StorageNext]_all, unit' = "clock" PROVE ClockInv'
    OBVIOUS
  <2>1. unit = "clock"
    BY DEF StorageNext, HostOnly, EmmcOnly, FatOnly, ClockOnly, CsdOnly, all
  <2>2. ClockInv BY <2>1
  <2>3. CASE StorageNext
    <3>1. C!Next BY <2>1, <2>3 DEF StorageNext, HostOnly, EmmcOnly, FatOnly, ClockOnly, CsdOnly
    <3> QED BY <2>2, <3>1, ClockAddHost, ClockSetIos, ClockAsk, ClockSdSetClock DEF C!Next
  <2>4. CASE UNCHANGED all
    <3>1. UNCHANGED <<mmc, hostclock, cdiv, tout, reset, want, emmcdiv>>
      BY <2>4 DEF all, clockOnly
    <3> QED BY <2>2, <3>1 DEF ClockInv, ClockHolds, ClockWanted, C!HostClockSet, C!Rate,
        C!EmmcClockWithin, C!EmmcRate
  <2> QED BY <2>3, <2>4
<1>3. CI => ClocksWithin BY DEF ClocksWithin, ClockInv
<1> QED BY <1>1, <1>2, <1>3, PTL DEF StorageSpec
=============================================================================
