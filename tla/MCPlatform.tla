----------------------------- MODULE MCPlatform -----------------------------
(***************************************************************************)
(* The parts of the platform the others stand on, side by side, for one    *)
(* run of TLC: memory (KernelAlloc, FrameAlloc), queues and lists          *)
(* (OutQueue, LinkedList), interrupts and time (Interrupts, SysTimer), the *)
(* mailbox (Mailbox), the link layer above the driver (LinkLayer), the     *)
(* keys of the network (KeyParsing) and formatted text (TextFormat).  In   *)
(* the program each has its own variables, so each behaviour here belongs  *)
(* to one of them, the unit; the variables of the others keep their first  *)
(* value.                                                                  *)
(***************************************************************************)
EXTENDS KernelAlloc, TLC

CONSTANTS None,
          WordBits, TotalFrames, KernelFrames, FrameRequests, Stale, AfterArray,  \* FrameAlloc
          Sender, Reader, NoTask, MaxFrames,                                      \* OutQueue
          NumIrqs, MaxDepth, MaxRaised,                                           \* Interrupts
          Word, MaxCount, PerSecond, Delays, Timeout,                             \* SysTimer
          PtSize, MaxTags, MaxRequests, MaxOther, Full,                           \* Mailbox
          Nodes, Data, MaxSteps,                                                  \* LinkedList
          Heap, MaxPackets,                                                       \* LinkLayer
          KeyLen, MinKeyLen, MaxKeyLen, LongWidth, WordWidth, MaxKeys,            \* KeyParsing
          Wide, Reserve, MaxOps                                                   \* TextFormat

VARIABLES unit,
          at,       \* the pc of OutQueue, SysTimer and Mailbox
          used, available, next_idx, holders, stale, spanned, beyond,
          first, last, nelem, next, tlock, b, n, cnt, passed, out, dropped, stray, overlap,
          line, on, handlers, masked, frames, mpc, raised, owed,
          count, hi, lo, call, from, until, start, res, arm, compare, matched,
          repeat, ticks, secs, tpc, time,
          pt, pt_index, asked, want, index, property, toVc, toArm, vc, requests, others,
          behind,
          lhead, ltail, list_size, lnext, lprev, ldata, live, buffer, contents, lorder, taken,
          steps,
          up, pieces, rpc, rblk, frq, scanq, rx, lpc, lbuf, raw, packets, heard, got, scans, note,
          key, before, kind, text, iv, ret, keys,
          who, spec, fmt, args, value, pos, written, buffer_size, op, rd, meant, ops

F == INSTANCE FrameAlloc WITH Requests <- FrameRequests
O == INSTANCE OutQueue WITH pc <- at
I == INSTANCE Interrupts
T == INSTANCE SysTimer WITH pc <- at
TagSizes   == 100 :> 1 @@ 200 :> 2 @@ 300 :> 3
TagAnswers == 100 :> 7 @@ 200 :> 8 @@ 300 :> 9
AllTags    == {100, 200, 300, 400}
TagArgs    == {1, 2}
M == INSTANCE Mailbox
       WITH pc <- at, Sizes <- TagSizes, Tags <- AllTags, Answers <- TagAnswers, Args <- TagArgs
L == INSTANCE LinkedList
E == INSTANCE LinkLayer
       WITH used <- pieces, Addresses <- {"own", "all", "other"}, Own <- "own",
            Broadcast <- "all", Protos <- {1}

\* Texts of 0, 1, F, @, - and g: every short one, and some longer ones.
WepText == UNION {[1 .. k -> {49, 103}] : k \in 0 .. 4}
             \cup {<<49, 49, 49, 49, 49, 70>>, <<49, 49, 49, 49, 49, 103>>}
WpaText == UNION {[1 .. k -> {48, 49, 64, 45}] : k \in 0 .. 4}
             \cup {<<49, 49, 64, 48, 49>>, <<49, 70, 48, 70, 48, 49, 64, 49, 70>>,
                   <<49, 70, 48, 70, 48, 49, 50, 49, 64, 49>>, <<48, 49, 64, 49, 49, 49>>,
                   <<48, 49, 64, 48, 120, 97>>, <<48, 49, 64, 58>>}
K == INSTANCE KeyParsing WITH WepTexts <- WepText, WpaTexts <- WpaText

\* One conversion to a format: every flag, width, precision and conversion, and
\* the modifiers with fewer of them; ? stands for an unknown conversion.
Convs == {<<"d">>, <<"u">>, <<"x">>, <<"X">>, <<"o">>, <<"b">>, <<"s">>, <<"c">>, <<"?">>, <<>>}
FormatSpecs ==
    [before : {<<"%", "%">>}, flags : {<<>>, <<"-">>, <<"0">>, <<"-", "0">>, <<"0", "-">>},
     width : {<<>>, <<"4">>, <<"*">>}, prec : {<<>>, <<".">>, <<".", "2">>, <<".", "*">>},
     size : {<<>>}, conv : Convs, after : {<<"z">>}]
      \cup [before : {<<>>}, flags : {<<>>, <<"#">>, <<"0">>}, width : {<<>>, <<"1", "2">>},
            prec : {<<>>}, size : {<<>>, <<"l">>, <<"h">>, <<"h", "h">>}, conv : Convs,
            after : {<<>>}]
P == INSTANCE TextFormat
       WITH text <- written, want <- meant, Specs <- FormatSpecs, Values <- {-9, -1, 0, 9, 10, 29},
            Texts <- {<<"s">>, <<"s", "t">>, <<"s", "s">>, <<"s", "s", "t">>}

ASSUME PlatformConstants ==
    /\ F!FrameConstants /\ O!OutQueueConstants /\ T!TimerConstants /\ M!MailboxConstants
    /\ L!ListConstants /\ E!LinkConstants /\ K!KeyConstants

-----------------------------------------------------------------------------
frameVars == <<used, available, next_idx, holders, stale, spanned, beyond>>
queueVars == <<first, last, nelem, next, tlock, b, n, cnt, passed, out, dropped, stray, overlap>>
irqVars   == <<line, on, handlers, masked, frames, mpc, raised, owed>>
timerVars == <<count, hi, lo, call, from, until, start, res, arm, compare, matched, repeat,
               ticks, secs, tpc, time>>
boxVars   == <<pt, pt_index, asked, want, index, property, toVc, toArm, vc, requests, others,
               behind>>
listVars  == <<lhead, ltail, list_size, lnext, lprev, ldata, live, buffer, contents, lorder,
               taken, steps>>
linkVars  == <<up, pieces, rpc, rblk, frq, scanq, rx, lpc, lbuf, raw, packets, heard, got, scans,
               note>>
keyVars   == <<key, before, kind, text, iv, ret, keys>>
textVars  == <<who, spec, fmt, args, value, pos, written, buffer_size, op, rd, meant, ops>>
all == <<unit, at, vars, frameVars, queueVars, irqVars, timerVars, boxVars, listVars, linkVars,
         keyVars, textVars>>

NoFrames == used = None /\ available = None /\ next_idx = None /\ holders = None
            /\ stale = None /\ spanned = None /\ beyond = None
NoQueue  == /\ first = None /\ last = None /\ nelem = None /\ next = None /\ tlock = None
            /\ b = None /\ n = None /\ cnt = None /\ passed = None /\ out = None
            /\ dropped = None /\ stray = None /\ overlap = None
NoIrq    == /\ line = None /\ on = None /\ handlers = None /\ masked = None /\ frames = None
            /\ mpc = None /\ raised = None /\ owed = None
NoTimer  == /\ count = None /\ hi = None /\ lo = None /\ call = None /\ from = None
            /\ until = None /\ start = None /\ res = None /\ arm = None /\ compare = None
            /\ matched = None /\ repeat = None /\ ticks = None /\ secs = None /\ tpc = None
            /\ time = None
NoBox    == /\ pt = None /\ pt_index = None /\ asked = None /\ want = None /\ index = None
            /\ property = None /\ toVc = None /\ toArm = None /\ vc = None /\ requests = None
            /\ others = None /\ behind = None
NoList   == /\ lhead = None /\ ltail = None /\ list_size = None /\ lnext = None /\ lprev = None
            /\ ldata = None /\ live = None /\ buffer = None /\ contents = None /\ lorder = None
            /\ taken = None /\ steps = None
NoLink   == /\ up = None /\ pieces = None /\ rpc = None /\ rblk = None /\ frq = None
            /\ scanq = None /\ rx = None /\ lpc = None /\ lbuf = None /\ raw = None
            /\ packets = None /\ heard = None /\ got = None /\ scans = None /\ note = None
NoKeys   == /\ key = None /\ before = None /\ kind = None /\ text = None /\ iv = None
            /\ ret = None /\ keys = None
NoText   == /\ who = None /\ spec = None /\ fmt = None /\ args = None /\ value = None /\ pos = None
            /\ written = None /\ buffer_size = None /\ op = None /\ rd = None /\ meant = None /\ ops = None

PlatformInit ==
    /\ Init
    /\ unit \in {"heap", "frames", "queue", "irq", "timer", "mailbox", "list", "link", "keys",
                 "text"}
    /\ IF unit = "frames" THEN F!Init ELSE NoFrames
    /\ IF unit = "queue" THEN O!Init ELSE NoQueue
    /\ IF unit = "irq" THEN I!Init ELSE NoIrq
    /\ IF unit = "timer" THEN T!Init ELSE NoTimer
    /\ IF unit = "mailbox" THEN M!Init ELSE NoBox
    /\ IF unit = "list" THEN L!Init ELSE NoList
    /\ IF unit = "link" THEN E!Init ELSE NoLink
    /\ IF unit = "keys" THEN K!Init ELSE NoKeys
    /\ IF unit = "text" THEN P!Init ELSE NoText
    /\ unit \notin {"queue", "timer", "mailbox"} => at = None

PlatformNext ==
    \/ /\ unit = "heap" /\ Next
       /\ UNCHANGED <<unit, at, frameVars, queueVars, irqVars, timerVars, boxVars, listVars, linkVars,
                      keyVars, textVars>>
    \/ /\ unit = "frames" /\ F!Next
       /\ UNCHANGED <<unit, at, vars, queueVars, irqVars, timerVars, boxVars, listVars, linkVars,
                      keyVars, textVars>>
    \/ /\ unit = "queue" /\ O!Next
       /\ UNCHANGED <<unit, vars, frameVars, irqVars, timerVars, boxVars, listVars, linkVars,
                      keyVars, textVars>>
    \/ /\ unit = "irq" /\ I!Next
       /\ UNCHANGED <<unit, at, vars, frameVars, queueVars, timerVars, boxVars, listVars, linkVars,
                      keyVars, textVars>>
    \/ /\ unit = "timer" /\ T!Next
       /\ UNCHANGED <<unit, vars, frameVars, queueVars, irqVars, boxVars, listVars, linkVars,
                      keyVars, textVars>>
    \/ /\ unit = "mailbox" /\ M!Next
       /\ UNCHANGED <<unit, vars, frameVars, queueVars, irqVars, timerVars, listVars, linkVars,
                      keyVars, textVars>>
    \/ /\ unit = "list" /\ L!Next
       /\ UNCHANGED <<unit, at, vars, frameVars, queueVars, irqVars, timerVars, boxVars, linkVars,
                      keyVars, textVars>>
    \/ /\ unit = "link" /\ E!Next
       /\ UNCHANGED <<unit, at, vars, frameVars, queueVars, irqVars, timerVars, boxVars, listVars,
                      keyVars, textVars>>
    \/ /\ unit = "keys" /\ K!Next
       /\ UNCHANGED <<unit, at, vars, frameVars, queueVars, irqVars, timerVars, boxVars, listVars,
                      linkVars, textVars>>
    \/ /\ unit = "text" /\ P!Next
       /\ UNCHANGED <<unit, at, vars, frameVars, queueVars, irqVars, timerVars, boxVars, listVars,
                      linkVars, keyVars>>

PlatformSpec == PlatformInit /\ [][PlatformNext]_all

-----------------------------------------------------------------------------
(* Properties.                                                             *)

\* The heap stays in its region, nothing in it is shared or lost, and blocks on
\* a free list have their bucket's size (KernelAlloc).
HeapExact == HeapContained /\ FreeListShape /\ NothingSharedOrLost

\* No frame has two owners and the books balance, short of the two cases named
\* in FrameAlloc.
FrameBooks == unit = "frames" => F!NotSharedUnlessSpanned /\ F!BooksBalance

\* The queue of blocks keeps its order always, and is exact while qpass and qget
\* do not overlap (OutQueue).
QueueExact == unit = "queue" => O!InOrder /\ O!ExactUnlessOverlapped

\* No interrupt is lost, and only handlers are interrupted (Interrupts).
IrqsHandled == unit = "irq" => I!NoneLost /\ I!OnlyInHandlers

\* Reads of the counter and of the time are right, delays are not cut short
\* and the tick goes on (SysTimer).
TimerExact ==
    unit = "timer" => T!ReadsWithin /\ T!DifferenceExact /\ T!TimeClose /\ T!KeepsRepeating

\* RPI_PropertyGet returns the answer to its own request (Mailbox).
AnswersOwn == unit = "mailbox" => M!OwnAnswer

\* The list holds what was put into it (LinkedList).
ListHolds == unit = "list" => L!ListExact

\* Frames come to the client they are for, and memory is lost only where the
\* code forgets it (LinkLayer).
FramesDelivered == unit = "link" => E!Delivered /\ E!MemoryBooks

\* WEP and WPA keys are read as they are meant (KeyParsing); the formatters print
\* what the format says, agree, and stay inside their buffer (TextFormat).
TextConverted ==
    /\ unit = "keys" => K!WpaKeysRead /\ K!WepKeysRead
    /\ unit = "text" => P!PrintedAsMeant /\ P!FormattersAgree /\ P!CStringExact

\* States past which FrameBooks says nothing are not explored further.
Sound == unit = "frames" => F!Sound
=============================================================================
