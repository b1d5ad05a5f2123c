----------------------------- MODULE MCStorage -----------------------------
(***************************************************************************)
(* The storage parts side by side, for one run of TLC: SdHost (sdhost.c,   *)
(* sd_card.c), Emmc (emmc.c), the clocks of both and the card data both    *)
(* read (CardClock, CsdFields), and Fat (fat.c).  They do not call each    *)
(* other in the program (fat.c takes its block reader as a parameter), so  *)
(* each behaviour belongs to one of them, the unit.  A variable name that  *)
(* two of them have holds the state of the unit; the variables of the      *)
(* others keep their first value.                                          *)
(***************************************************************************)
EXTENDS SdHost, FiniteSets

CONSTANTS Blocks, SectorBytes, OpStarts, OpCounts, Tries, MaxOps, FatPerSector,
          EntriesPerSector, Eoc, Bad,
          MaxCalls, MaxInits, MaxFails, MaxClk, MaxCdiv, EmmcBase, MaxDivisor, Wanted

VARIABLES unit,
          idx, resp, sd, emmc, op, done, passed, was, fresh, ops,             \* Emmc
          media, part, what, path, after, stack, out, failed, stale, calls,   \* Fat
          inits, fails,
          mmc, hostclock, cdiv, tout, reset, want, emmcdiv,                   \* CardClock
          csd, emmcFields, hostFields                                         \* CsdFields

Ops == [kind : {"read", "write", "erase"}, start : OpStarts, n : OpCounts]

Cards == {c \in [v2 : BOOLEAN, hc : BOOLEAN, blkcnt : BOOLEAN, wide : BOOLEAN] : c.hc => c.v2}

Long(first, text) == [lfn |-> TRUE, first |-> first, text |-> text, dir |-> FALSE, cluster |-> 0]
Short(first, c)   == [lfn |-> FALSE, first |-> first, text |-> "sfn", dir |-> FALSE, cluster |-> c]
Dir(c)            == [Short(68, c) EXCEPT !.dir = TRUE]
Free              == Short(0, 0)
Text(t)           == [t |-> t, nul |-> FALSE]
Last(t)           == [t |-> t, nul |-> TRUE]

\* FAT32 behind an MBR: /d/f, /e/f and, in the second cluster of the root, a
\* file with a name of two pieces and three clusters.
Regular ==
  [boot |-> "mbr", bpb |-> TRUE, fat16 |-> FALSE, first |-> 3, hidden |-> 3, reserved |-> 1,
   fats |-> 1, fatSize |-> 6, spc |-> 1, root |-> 2, tidy |-> TRUE,
   fat |-> [c \in 2 .. 10 |-> CASE c = 2 -> 5 [] c = 6 -> 9 [] c = 9 -> 10 [] OTHER -> Eoc],
   sectors |-> [n \in 10 .. 13 |->
      CASE n = 10 -> <<Long(65, "d"), Dir(3), Long(65, "e"), Dir(4)>>
        [] n = 11 -> <<Dir(3), Dir(2), Long(65, "f"), Short(70, 8)>>
        [] n = 12 -> <<Dir(4), Long(65, "f"), Short(70, 7), Free>>
        [] n = 13 -> <<Long(66, "b"), Long(1, "a"), Short(65, 6), Free>>],
   text |-> [c \in 6 .. 10 |-> IF c \in {6, 9} THEN <<Text(10 * c)>> ELSE <<Last(10 * c)>>],
   names |-> {<<"d">>, <<"e">>, <<"f">>, <<"a", "b">>},
   files |-> {[path |-> <<<<"d">>, <<"f">>>>, cluster |-> 8, text |-> <<Last(80)>>],
              [path |-> <<<<"e">>, <<"f">>>>, cluster |-> 7, text |-> <<Last(70)>>],
              [path |-> <<<<"a", "b">>>>, cluster |-> 6, text |-> <<Text(60), Text(90), Last(100)>>]}]

\* FAT32 without an MBR, two sectors in a cluster, with a deleted file and a
\* set of entries that crosses a sector's end.
Untidy ==
  [boot |-> "boot", bpb |-> TRUE, fat16 |-> FALSE, first |-> 0, hidden |-> 0, reserved |-> 2,
   fats |-> 2, fatSize |-> 3, spc |-> 2, root |-> 2, tidy |-> FALSE,
   fat |-> [c \in 2 .. 5 |-> Eoc],
   sectors |-> [n \in {8, 9} |->
      IF n = 8 THEN <<Long(229, "x"), Short(229, 0), Short(65, 3), Long(66, "b")>>
               ELSE <<Long(1, "a"), Short(65, 4), Free, Free>>],
   text |-> [c \in {3, 4} |-> <<Text(1), Last(2)>>],
   names |-> {<<"a", "b">>},
   files |-> {[path |-> <<<<"a", "b">>>>, cluster |-> 4, text |-> <<Text(1), Last(2)>>]}]

\* A tidy card without an MBR.
Plain ==
  [Untidy EXCEPT !.tidy = TRUE,
     !.sectors = [n \in {8, 9} |->
        IF n = 8 THEN <<Short(65, 3), Long(66, "b"), Long(1, "a"), Short(65, 4)>>
                 ELSE <<Free, Free, Free, Free>>]]

Media == [n \in {"regular", "untidy", "plain", "fat16", "no bpb"} |->
            CASE n = "regular" -> Regular [] n = "untidy" -> Untidy [] n = "plain" -> Plain
              [] n = "fat16"   -> [Regular EXCEPT !.fat16 = TRUE]
              [] n = "no bpb"  -> [Regular EXCEPT !.bpb = FALSE]]

Paths == {<<<<"d">>, <<"f">>>>, <<<<"a", "b">>>>, <<<<"f">>>>, <<<<"e">>>>, <<<<"a">>>>}

E == INSTANCE Emmc
F == INSTANCE Fat
C == INSTANCE CardClock
D == INSTANCE CsdFields WITH emmc <- emmcFields, host <- hostFields

ASSUME StorageConstants == SdHostConstants /\ E!EmmcConstants /\ F!FatConstants /\ C!CardClockConstants

-----------------------------------------------------------------------------
hostOnly == <<cmd, ret, response, host, left, reg, req, result, note>>
emmcOnly == <<idx, resp, sd, emmc, op, done, passed, was, fresh, ops>>
fatOnly  == <<media, part, what, path, after, stack, out, failed, stale, calls, inits, fails>>
shared   == <<stage, pc, tries, card, got, faults>>
clockOnly == <<mmc, hostclock, cdiv, tout, reset, want, emmcdiv>>
csdOnly  == <<csd, emmcFields, hostFields>>
all      == <<unit, hostOnly, emmcOnly, fatOnly, shared, clockOnly, csdOnly>>

NoEmmc == /\ idx = None /\ resp = None /\ sd = None /\ emmc = None /\ op = None /\ done = None
          /\ passed = None /\ was = None /\ fresh = None /\ ops = None
NoFat  == /\ media = None /\ part = None /\ what = None /\ path = None /\ after = None
          /\ stack = None /\ out = None /\ failed = None /\ stale = None /\ calls = None
          /\ inits = None /\ fails = None
NoHost == /\ cmd = None /\ ret = None /\ response = None /\ host = None /\ left = None
          /\ reg = None /\ req = None /\ note = None

NoShared == stage = None /\ tries = None /\ card = None /\ got = None /\ faults = None
NoClock  == /\ mmc = None /\ hostclock = None /\ cdiv = None /\ tout = None /\ reset = None
            /\ want = None /\ emmcdiv = None
NoCsd    == csd = None /\ emmcFields = None /\ hostFields = None

StorageInit ==
    \/ unit = "sdhost" /\ Init /\ NoEmmc /\ NoFat /\ NoClock /\ NoCsd
    \/ unit = "emmc" /\ E!Init /\ NoHost /\ result = None /\ NoFat /\ NoClock /\ NoCsd
    \/ unit = "fat" /\ F!Init /\ NoHost /\ NoEmmc /\ NoShared /\ NoClock /\ NoCsd
    \/ /\ unit = "clock" /\ C!Init /\ NoHost /\ result = None /\ NoEmmc /\ NoShared /\ pc = None
       /\ NoFat /\ NoCsd
    \/ /\ unit = "csd" /\ D!Init /\ NoHost /\ result = None /\ NoEmmc /\ NoShared /\ pc = None
       /\ NoFat /\ NoClock

HostOnly(A) == unit = "sdhost" /\ A /\ UNCHANGED <<unit, emmcOnly, fatOnly, clockOnly, csdOnly>>
EmmcOnly(A) == unit = "emmc" /\ A /\ UNCHANGED <<unit, hostOnly, fatOnly, clockOnly, csdOnly>>
FatOnly(A)  == /\ unit = "fat" /\ A
               /\ UNCHANGED <<unit, emmcOnly, cmd, ret, response, host, left, reg, req, note,
                              stage, tries, card, got, faults, clockOnly, csdOnly>>
ClockOnly(A) == /\ unit = "clock" /\ A
                /\ UNCHANGED <<unit, hostOnly, emmcOnly, fatOnly, shared, csdOnly>>
CsdOnly(A)   == /\ unit = "csd" /\ A
                /\ UNCHANGED <<unit, hostOnly, emmcOnly, fatOnly, shared, clockOnly>>

StorageNext == \/ HostOnly(Next) \/ EmmcOnly(E!Next) \/ FatOnly(F!Next)
               \/ ClockOnly(C!Next) \/ CsdOnly(D!Next)

StorageSpec ==
    /\ StorageInit /\ [][StorageNext]_all
    /\ WF_all(HostOnly(Driver)) /\ WF_all(HostOnly(Caller)) /\ WF_all(HostOnly(Controller))
    /\ WF_all(EmmcOnly(E!Driving)) /\ WF_all(EmmcOnly(E!Bus))
    /\ WF_all(FatOnly(F!Walk))

-----------------------------------------------------------------------------
(* Properties.                                                             *)

\* mmc_read_blocks: a success means exactly the blocks asked for, and leaves
\* card and controller ready for the next call (SdHost).
SdExact == unit = "sdhost" => ReadExact /\ ReadyForNext

\* sdTransferBlocks and sdClearBlocks: a success means exactly the blocks asked
\* for, and leaves the card in its transfer state; an error that was reported is
\* not held against the next call (Emmc).
EmmcExact == unit = "emmc" => E!TransferExact /\ E!StoppedAfterTransfer /\ E!ReportedErrorsCleared

\* No card gets a faster clock than was asked for while a slower one could be
\* set (CardClock).
ClocksWithin == unit = "clock" => C!HostClockSet /\ C!EmmcClockWithin

\* Both drivers read the same in the data of a card (CsdFields).
CsdAgrees == unit = "csd" => D!DecodersAgree

\* get_file_size finds what has the name, and nothing else; read_file and the
\* listing print everything, once the card is regular (Fat).
FatExact == unit = "fat" => F!SearchExact /\ F!WholeText

\* bcm2835_send_cmd returns (SdHost), sdInitCard and the transfers return
\* whatever the controller does (Emmc), and a search, a listing and read_file
\* end, whatever reads fail, on cards whose chains have no cycle (Fat).
AtRest == /\ unit = "sdhost" => SendReturned
          /\ unit = "emmc" => E!AtRest
          /\ unit = "fat" => pc \in {"off", "ready"}
StorageCallsReturn == []<>AtRest

\* What the comment on addresses in sdTransferBlocks says (Emmc).
StandardCardsByAddress == unit = "emmc" => E!StandardByAddress
=============================================================================
