------------------------------- MODULE MCBoot -------------------------------
(***************************************************************************)
(* The way of the wifi chip into service, for one run of TLC: ChipBringup  *)
(* (etherbcmattach: clocks, cores, reset), FirmwareLoad (the upload inside *)
(* it, byte by byte) and WifiControl (the commands that configure the      *)
(* firmware afterwards).  One comes after the other in the program, and    *)
(* each module describes the state it starts from, so each behaviour       *)
(* belongs to one of them, the unit.  A variable name that two of them     *)
(* have holds the state of the unit; the variables of the others keep      *)
(* their first value.                                                      *)
(***************************************************************************)
EXTENDS FirmwareLoad

CONSTANTS None, ChipFaults, MaxCommands

VARIABLES unit,
          i, chip, dev, bus, ctl, call, core, size, note,   \* ChipBringup, ...
          cmd, todo, fw, lpc, secs, bufs, count             \* ... WifiControl

Slave(a)   == [ctl |-> FALSE, at |-> a]
Wrap(a)    == [ctl |-> TRUE, at |-> a]
Common     == [id |-> "cc", rev |-> 1, addrs |-> <<Slave(32), Wrap(64)>>]
Sdio       == [id |-> "sdio", rev |-> 2, addrs |-> <<Slave(33), Wrap(65)>>]
D11        == [id |-> "d11", rev |-> 3, addrs |-> <<Slave(34), Wrap(66)>>]
Cm3        == [id |-> "cm3", rev |-> 4, addrs |-> <<Slave(35), Wrap(67), Wrap(69)>>]
Cr4        == [id |-> "cr4", rev |-> 4, addrs |-> <<Wrap(67), Slave(35)>>]
Socram(r)  == [id |-> "socram", rev |-> r, addrs |-> <<Slave(36), Slave(37), Wrap(68)>>]
Other      == [id |-> "other", rev |-> 9, addrs |-> <<Slave(38)>>]
Board(id, rev, wakes, cores, banks) ==
    [id |-> id, rev |-> rev, wakes |-> wakes, cores |-> cores, banks |-> banks]

\* The chip of the Raspberry Pi 3, the other supported ones with their cores
\* in other orders, one without a firmware, a damaged core table, an
\* unsupported chip and a card that never wakes.
Boards == {Board(43430, 1, 2, <<Common, D11, Sdio, Cm3, Socram(16), Other>>, <<2, 3>>),
           Board(17221, 6, 0, <<Sdio, Common, Cr4, D11>>, <<2, 3>>),
           Board(17200, 4, 2, <<Common, Socram(7), D11, Cm3, Sdio>>, <<2>>),
           Board(43362, 9, 2, <<Common, D11, Sdio, Socram(16), Cm3>>, <<2>>),
           Board(43430, 1, 2, <<Other, Common, Cm3, Socram(16)>>, <<2>>),
           Board(1, 1, 2, <<Common>>, <<2>>),
           Board(43430, 1, 9, <<Common>>, <<2>>)}
Firmware == {<<17200, 3>>, <<17200, 4>>, <<43362, 0>>, <<43362, 1>>, <<43430, 1>>, <<17221, 6>>}

JoinText(essid, ether, ok, crypt) ==
    [op |-> "join", essid |-> essid, ether |-> ether, ok |-> ok, chan |-> 6, crypt |-> crypt]
Commands ==
    {[op |-> "auth", ie |-> e] : e \in {"30", "dd", "7f"}}
    \cup {[op |-> "channel", ok |-> TRUE, chan |-> 3], [op |-> "channel", ok |-> FALSE]}
    \cup {[op |-> "crypt", arg |-> a] : a \in {"wep", "off", "aes"}}
    \cup {[op |-> "essid", essid |-> e] : e \in {"net", "default"}}
    \cup {JoinText("net", TRUE, TRUE, "30"), JoinText("net", TRUE, FALSE, "30"),
          JoinText("net", FALSE, TRUE, "off"), JoinText("no change", TRUE, TRUE, "dd"),
          JoinText("default", TRUE, TRUE, "off"), JoinText("net", TRUE, TRUE, "wep")}
    \cup {[op |-> "wepkey", n |-> k, ok |-> k = 1] : k \in {1, 2}}
    \cup {[op |-> "wpakey", id |-> "rxkey", ether |-> TRUE, key |-> k] : k \in {"good", "bad", "no iv"}}
    \cup {[op |-> "wpakey", id |-> "txkey", ether |-> TRUE, key |-> k] : k \in {"good", "bad", "no iv"}}
    \cup {[op |-> "escan", secs |-> s] : s \in {0, 2}}
    \cup {[op |-> "country", ok |-> b] : b \in BOOLEAN} \cup {[op |-> "debug"]}

B == INSTANCE ChipBringup
       WITH Rates <- {0, 25, 16, 13}, Extfreq <- 20, Initfreq <- 1, SDfreq <- 4, Win <- 16,
            Enumbase <- 32, Erom <- 96, OpTries <- 3, HtTries <- 2, ReadyTries <- 2,
            MaxFaults <- ChipFaults

\* One that shares its antenna and one that does not save power.
ControlChips == {17200, 43430}
C == INSTANCE WifiControl WITH ChipIds <- ControlChips

-----------------------------------------------------------------------------
loadOnly    == <<phase, ram, window, buf, cbuf, off, n, so, sp, sl, sn, ro, rl, found, config,
                 fwRet, cfgRet, running, failed>>
chipOnly    == <<i, chip, dev, bus, call, core, size>>
controlOnly == <<cmd, todo, fw, lpc, secs, bufs, count>>
all         == <<unit, loadOnly, chipOnly, controlOnly, pc, faults, ctl, note>>

NoLoad == /\ phase = None /\ ram = None /\ window = None /\ buf = None /\ cbuf = None
          /\ off = None /\ n = None /\ so = None /\ sp = None /\ sl = None /\ sn = None
          /\ ro = None /\ rl = None /\ found = None /\ config = None /\ fwRet = None
          /\ cfgRet = None /\ running = None /\ failed = None
NoChip == /\ i = None /\ chip = None /\ dev = None /\ bus = None /\ call = None
          /\ core = None /\ size = None
NoControl == /\ cmd = None /\ todo = None /\ fw = None /\ lpc = None /\ secs = None
             /\ bufs = None /\ count = None

BootInit ==
    \/ unit = "chip" /\ B!Init /\ NoLoad /\ NoControl
    \/ unit = "load" /\ Init /\ NoChip /\ NoControl /\ ctl = None /\ note = None
    \/ unit = "control" /\ C!Init /\ NoLoad /\ NoChip /\ faults = None

ChipOnly(A)    == unit = "chip" /\ A /\ UNCHANGED <<unit, loadOnly, controlOnly>>
LoadOnly(A)    == unit = "load" /\ A /\ UNCHANGED <<unit, chipOnly, controlOnly, ctl, note>>
ControlOnly(A) == unit = "control" /\ A /\ UNCHANGED <<unit, loadOnly, chipOnly, faults>>

BootNext == ChipOnly(B!Next) \/ LoadOnly(Load) \/ ControlOnly(C!Next)

BootSpec ==
    /\ BootInit /\ [][BootNext]_all
    /\ WF_all(ChipOnly(B!Attach)) /\ WF_all(ChipOnly(B!Ready1)) /\ WF_all(ChipOnly(B!ClockUp))
    /\ WF_all(LoadOnly(Load))
    /\ WF_all(ControlOnly(C!Control)) /\ WF_all(ControlOnly(C!Lproc))

-----------------------------------------------------------------------------
(* Properties.                                                             *)

\* The chip is understood, reached through the right window, and its
\* processor stands still while its RAM is written (ChipBringup).
ChipBroughtUp == unit = "chip" => B!ChipUnderstood /\ B!WindowAtCore /\ B!ProcessorHeld

\* The uploaded configuration is the condensed one, transfers stay in their
\* window, and the processor starts with the image that was uploaded
\* (FirmwareLoad).
UploadExact == unit = "load" => LoadInv /\ ConfigCondensed /\ BootImage

\* The firmware joins with the security of the driver, and a command that is
\* refused changes nothing (WifiControl).
ControlConsistent == unit = "control" => C!SecurityAgrees /\ C!RefusedChangesNothing

\* Attaching and loading come to an end (ChipBringup, FirmwareLoad).
Booted == /\ unit = "chip" => B!Attached
          /\ unit = "load" => running
BootEnds == <>Booted

\* Scans that are asked for are started again and again (WifiControl).
ScansRestart == []<>(unit = "control" => C!Scanning)
=============================================================================
