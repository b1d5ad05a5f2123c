----------------------------- MODULE LinkLayer -----------------------------
(***************************************************************************)
(* The way of a received packet: rproc and bcmevent of                     *)
(* src/plan9_ether4330.c, the queues of src/bcm4343.c, the link layer task *)
(* of src/link_layer.c and the client that asks for raw frames.            *)
(*                                                                         *)
(* A queue is the sequence FrameFifo promises (NetQueue implements it).    *)
(* The heap has Heap pieces, and every kernel_allocate takes one: a Block  *)
(* and its buffer are two, an entry of a queue and a pParam one each.      *)
(***************************************************************************)
EXTENDS Naturals, Sequences, FiniteSets, SequencesExt

CONSTANTS Heap,       \* bound: pieces of memory
          MaxPackets, \* bound: packets received
          Addresses, Own, Broadcast,
          Protos      \* protocol types but 0, in the order of the wire

LinkConstants == Heap \in Nat /\ MaxPackets \in Nat

\* What rproc tells apart.  "full": longer than an Ethernet header; "long":
\* longer than FRAME_BUFFER_SIZE; "header": nothing behind the header.
Kinds == {"response", "event", "scan", "short", "bad channel", "data"}
Frames == [to : Addresses, from : Addresses \ {Broadcast}, proto : Protos \cup {0}, size : {"full"}]
            \cup [to : {Own}, from : {Own}, proto : Protos, size : {"long", "header"}]

VARIABLES up,         \* how far the network is set up
          used,       \* pieces of the heap in use
          rpc, rblk,  \* rproc, the packet in its block
          frq, scanq, rx, \* frame_receive_queue, scan_results_queue, rx_net_queue
          lpc, lbuf,  \* link layer task, its Buffer
          raw,        \* raw_protocol_type
          packets,    \* packets received
          heard, got, scans, \* auxiliary: data frames given to etheriq; frames and
                             \* the number of scan results given to the client
          note        \* auxiliary: frames without a sender or memory that was lost;
                      \* was memory short; frames heard when raw was set

vars == <<up, used, rpc, rblk, frq, scanq, rx, lpc, lbuf, raw, packets, heard, got, scans, note>>

NoFrame == [to |-> Own, from |-> Own, proto |-> 0, size |-> "none", id |-> 0]

Init == /\ up = "off" /\ used = 0 /\ rpc = "idle" /\ rblk = [kind |-> "none", frame |-> NoFrame]
        /\ frq = <<>> /\ scanq = <<>> /\ rx = <<>> /\ lpc = "loop" /\ lbuf = NoFrame
        /\ raw = 0 /\ packets = 0 /\ heard = <<>> /\ got = <<>> /\ scans = 0
        /\ note = [extra |-> 0, short |-> FALSE, before |-> 0]

\* kernel_allocate finds n pieces more.
Fits(n) == used + n <= Heap
Short == note' = [note EXCEPT !.short = TRUE]

-----------------------------------------------------------------------------
(* Set up, once: the device, the chip's tasks, the link layer.             *)

Allocate == /\ up = "off" /\ up' = "allocated"
            /\ UNCHANGED <<used, rpc, rblk, frq, scanq, rx, lpc, lbuf, raw, packets, heard, got, scans, note>>
Attach == /\ up = "allocated" /\ up' = "attached"
          /\ UNCHANGED <<used, rpc, rblk, frq, scanq, rx, lpc, lbuf, raw, packets, heard, got, scans, note>>
InitializeLinkLayer ==
    /\ up = "attached" /\ up' = "linked"
    /\ UNCHANGED <<used, rpc, rblk, frq, scanq, rx, lpc, lbuf, raw, packets, heard, got, scans, note>>

\* enable_receive_raw_l2: only the first call with a type has an effect.
EnableRaw == /\ raw = 0 /\ raw' \in Protos /\ note' = [note EXCEPT !.before = Len(heard)]
             /\ UNCHANGED <<up, used, rpc, rblk, frq, scanq, rx, lpc, lbuf, packets, heard, got, scans>>

-----------------------------------------------------------------------------
(* rproc.                                                                  *)

\* wlreadpkt does not look whether allocb returned a block: without memory
\* it reads through a null pointer, and rproc is not followed any further.
ReadPkt ==
    /\ up \in {"attached", "linked"} /\ rpc = "idle" /\ packets < MaxPackets /\ packets' = packets + 1
    /\ \/ /\ Fits(2) /\ used' = used + 2 /\ rpc' = "got" /\ UNCHANGED note
          /\ \E k \in Kinds, f \in Frames :
               /\ k # "data" => f = CHOOSE g \in Frames : TRUE
               /\ rblk' = [kind |-> k, frame |-> [to |-> f.to, from |-> f.from, proto |-> f.proto,
                                                  size |-> f.size, id |-> Len(heard) + 1]]
       \/ /\ ~Fits(2) /\ used' = Heap /\ rpc' = "wild" /\ UNCHANGED rblk
          /\ note' = [note EXCEPT !.short = TRUE, !.extra = @ + (Heap - used)]
    /\ UNCHANGED <<up, frq, scanq, rx, lpc, lbuf, raw, heard, got, scans>>

\* A response goes to wlcmd, which frees the block; an event, too short a
\* packet or one of an unknown channel is handled without memory of its own.
Dispatch ==
    /\ rpc = "got" /\ rblk.kind \notin {"scan", "data"} /\ rpc' = "free"
    /\ UNCHANGED <<up, used, rblk, frq, scanq, rx, lpc, lbuf, raw, packets, heard, got, scans, note>>

\* E_ESCAN_RESULT: bcmevent, wlscanresult, scan_result_received.
ScanResult ==
    /\ rpc = "got" /\ rblk.kind = "scan" /\ rpc' = "free"
    /\ IF Fits(1) THEN scanq' = Append(scanq, rblk.frame.id) /\ used' = used + 1 /\ UNCHANGED note
       ELSE Short /\ UNCHANGED <<scanq, used>>
    /\ UNCHANGED <<up, rblk, frq, rx, lpc, lbuf, raw, packets, heard, got, scans>>

\* The block of an event goes lost too.
FreebNot == /\ rpc = "free" /\ rpc' = "idle"
            /\ UNCHANGED <<up, used, rblk, frq, scanq, rx, lpc, lbuf, raw, packets, heard, got, scans, note>>

Freeb == /\ rpc = "free" /\ rpc' = "idle" /\ used' = used - 2
         /\ UNCHANGED <<up, rblk, frq, scanq, rx, lpc, lbuf, raw, packets, heard, got, scans, note>>

\* etheriq copies the frame into an entry of frame_receive_queue; rproc takes
\* the next packet and never gives the block back.  enqueue_nqueue allocates
\* an entry for a frame that is too long, and forgets it.
EtherIq ==
    /\ rpc = "got" /\ rblk.kind = "data" /\ rpc' = "idle" /\ heard' = Append(heard, rblk.frame)
    /\ CASE ~Fits(1) -> Short /\ UNCHANGED <<used, frq>>
         [] Fits(1) /\ rblk.frame.size = "long" ->
              used' = used + 1 /\ note' = [note EXCEPT !.extra = @ + 1] /\ UNCHANGED frq
         [] OTHER -> used' = used + 1 /\ frq' = Append(frq, rblk.frame) /\ UNCHANGED note
    /\ UNCHANGED <<up, rblk, scanq, rx, lpc, lbuf, raw, packets, got, scans>>

-----------------------------------------------------------------------------
(* process_l2_layer.                                                       *)

\* receive_frame.
Take == /\ up = "linked" /\ lpc = "loop" /\ frq # <<>>
        /\ lbuf' = Head(frq) /\ frq' = Tail(frq) /\ used' = used - 1 /\ lpc' = "look"
        /\ UNCHANGED <<up, rpc, rblk, scanq, rx, raw, packets, heard, got, scans, note>>

\* Frames to everybody are not let through.
ForUsOnly(f) == f.size = "full" /\ f.to = Own

ForUs(f) == f.size = "full" /\ f.to \in {Own, Broadcast}

Look ==
    /\ lpc = "look"
    /\ IF ForUs(lbuf) /\ lbuf.proto = raw
         THEN IF Fits(1) THEN used' = used + 1 /\ lpc' = "pass" /\ UNCHANGED note
              ELSE Short /\ lpc' = "loop" /\ UNCHANGED used
         ELSE lpc' = "loop" /\ UNCHANGED <<used, note>>
    /\ UNCHANGED <<up, rpc, rblk, frq, scanq, rx, lbuf, raw, packets, heard, got, scans>>

\* Without memory for the entry the pParam goes lost with the frame.
Pass ==
    /\ lpc = "pass" /\ lpc' = "loop"
    /\ IF Fits(1) THEN used' = used + 1 /\ rx' = Append(rx, [id |-> lbuf.id, sender |-> lbuf.from]) /\ UNCHANGED note
       ELSE note' = [note EXCEPT !.short = TRUE, !.extra = @ + 1] /\ UNCHANGED <<used, rx>>
    /\ UNCHANGED <<up, rpc, rblk, frq, scanq, lbuf, raw, packets, heard, got, scans>>

-----------------------------------------------------------------------------
(* The client.                                                             *)

\* receive_raw_l2_packet: the sender is copied, and the pParam forgotten.
ReceiveRaw == /\ up = "linked" /\ rx # <<>> /\ got' = Append(got, Head(rx)) /\ rx' = Tail(rx) /\ used' = used - 1
              /\ UNCHANGED <<up, rpc, rblk, frq, scanq, lpc, lbuf, raw, packets, heard, scans, note>>

ReceiveScanResults == /\ scanq # <<>> /\ scanq' = Tail(scanq) /\ used' = used - 1 /\ scans' = scans + 1
                      /\ UNCHANGED <<up, rpc, rblk, frq, rx, lpc, lbuf, raw, packets, heard, got, note>>

-----------------------------------------------------------------------------
Rproc == ReadPkt \/ Dispatch \/ ScanResult \/ Freeb \/ EtherIq
LinkTask == Take \/ Look \/ Pass
Client == ReceiveRaw \/ ReceiveScanResults
Next == Allocate \/ Attach \/ InitializeLinkLayer \/ EnableRaw \/ Rproc \/ LinkTask \/ Client

Spec == Init /\ [][Next]_vars

-----------------------------------------------------------------------------
(* Properties.                                                             *)

Ids(s) == {s[i].id : i \in DOMAIN s}

\* The client gets frames that were received, each once, in their order and
\* with their own sender, to this station or to everybody and of its protocol
\* (or of type 0, which matches raw_protocol_type before it is set), and no
\* such frame goes lost on the way as long as there is memory.
Delivered ==
    LET out     == got \o rx
        wanted  == {f \in Range(heard) : /\ f.size = "full" /\ f.to \in {Own, Broadcast}
                                            /\ f.proto = raw /\ f.id > note.before}
        waiting == Ids(frq) \cup (IF lpc = "loop" THEN {} ELSE {lbuf.id})
    IN  /\ \A i \in DOMAIN out :
             LET f == heard[out[i].id]
             IN  /\ f.size = "full" /\ f.to \in {Own, Broadcast} /\ f.proto \in {raw, 0} /\ f.from = out[i].sender
                 /\ \A j \in 1..(i - 1) : out[j].id < out[i].id
        /\ raw # 0 /\ ~note.short => {f.id : f \in wanted} \subseteq Ids(out) \cup waiting

\* Memory is lost in three places only: the block of every data frame (two
\* pieces), the pParam of every raw frame the client took, and the entry or
\* pParam of a frame that enqueue_nqueue refuses.  All other memory is in the
\* packet in hand or in a queue.
MemoryBooks ==
    used = (IF rpc \in {"got", "free"} THEN 2 ELSE 0) + Len(scanq) + Len(frq)
             + (IF lpc = "pass" THEN 1 ELSE 0) + 2 * Len(rx)
             + 2 * Len(heard) + Len(got) + note.extra
=============================================================================
