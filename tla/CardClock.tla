------------------------------ MODULE CardClock ------------------------------
(***************************************************************************)
(* The clocks of the two SD controllers: bcm2835_reset_internal,           *)
(* bcm2835_set_ios and bcm2835_set_clock of sdhost.c, and                  *)
(* sdGetClockDivider of emmc.c with what sdSetClock does with it.          *)
(*                                                                         *)
(* mmc.clock and host.clock of sdhost.c are the clock wanted and the one   *)
(* set; set_clock also stores the clock it could reach as the one wanted.  *)
(* Frequencies are in Hz.  The clocks a divider makes are external.        *)
(***************************************************************************)
EXTENDS Integers, FiniteSetsExt

CONSTANTS MaxClk,       \* the clock both dividers of sdhost.c divide
          MaxCdiv,      \* SDCDIV_MAX_CDIV
          EmmcBase,     \* the clock of emmc.c
          MaxDivisor,   \* the largest of its divisors
          Wanted        \* the clocks that are asked for

\* The largest dividers reach 100 kHz and fit their fields.
CardClockConstants == /\ MaxClk \in Nat /\ MaxCdiv \in Nat \ {0} /\ 100000 * MaxCdiv <= MaxClk
                      /\ EmmcBase \in Nat \ {0} /\ MaxDivisor \in 128 .. 1023
                      /\ \A w \in Wanted : w \in Nat

VARIABLES mmc,       \* host->mmc->clock
          hostclock, \* host->clock
          cdiv,      \* host->cdiv, which is in SDCDIV
          tout,      \* SDTOUT, as the clock it was computed from, 0 after a reset
          reset,     \* bcm2835_add_host has been through
          want,      \* the clock the last call asked for
          emmcdiv    \* the divisor of emmc.c, with its request and version

vars == <<mmc, hostclock, cdiv, tout, reset, want, emmcdiv>>

-----------------------------------------------------------------------------
(* sdhost.c.                                                               *)

Init == /\ mmc = 0 /\ hostclock = 0 /\ cdiv = 0 /\ tout = 0 /\ reset = FALSE /\ want = 0
        /\ emmcdiv = [freq |-> 0, version |-> 0, div |-> 1]

\* The clock on the line, SLOW_CARD being set.
Rate(d) == MaxClk \div (d + 2)

\* The divider is not corrected for the remainder.
DividerDown(clock) == Min({Max({MaxClk \div clock, 2}) - 2, MaxCdiv})

Divider(clock) == LET div == Max({MaxClk \div clock, 2})
                      up  == IF MaxClk \div div > clock THEN div + 1 ELSE div
                  IN  Min({up - 2, MaxCdiv})

\* bcm2835_set_clock: below 100 kHz nothing but the divider changes.
SetClock(clock) ==
    IF clock < 100000 THEN cdiv' = MaxCdiv /\ UNCHANGED <<mmc, tout>>
    ELSE /\ cdiv' = Divider(clock)
         /\ mmc' = Rate(Divider(clock)) /\ tout' = Rate(Divider(clock))

\* bcm2835_set_ios; nothing is set when the clock is the one it was.
SetIos ==
    /\ reset
    /\ IF mmc = 0 \/ mmc # hostclock THEN SetClock(mmc) /\ hostclock' = mmc'
       ELSE UNCHANGED <<mmc, tout, cdiv, hostclock>>
    /\ UNCHANGED <<reset, want, emmcdiv>>

\* bcm2835_add_host: the reset, which calls the clock 250 MHz whatever the
\* divider is, and the first bcm2835_set_ios, for a clock that is not known yet.
AddHost ==
    /\ ~reset /\ reset' = TRUE
    /\ cdiv' = MaxCdiv /\ tout' = 0 /\ hostclock' = mmc /\ UNCHANGED <<mmc, want, emmcdiv>>

\* The caller of bcm2835_set_ios chooses a clock.
Ask(clock) == /\ reset /\ mmc' = clock /\ want' = clock
              /\ UNCHANGED <<hostclock, cdiv, tout, reset, emmcdiv>>

-----------------------------------------------------------------------------
(* emmc.c.                                                                 *)

\* fls_uint32_t: the number of the highest bit that is set, from 1.
Fls(x) == IF x = 0 THEN 0 ELSE Max({i \in 1 .. 31 : 2 ^ (i - 1) <= x})

\* The offset of the shift is taken off twice.
DivisorTwice(freq, version) ==
    LET d == Min({(EmmcBase + freq - 1) \div freq, MaxDivisor})
    IN  IF version < 2 THEN 2 ^ Max({Fls(d) - 2, 0}) ELSE IF d < 3 THEN 4 ELSE d

sdGetClockDivider(freq, version) ==
    LET d == Min({(EmmcBase + freq - 1) \div freq, MaxDivisor})
    IN  IF version < 2 THEN 2 ^ Min({Max({Fls(d) - 1, 0}), 7})
        ELSE IF d < 3 THEN 4 ELSE d

\* sdSetClock, for a controller of the version; ten bits of the divisor are
\* written to CONTROL1.
SdSetClock(freq, version) ==
    /\ emmcdiv' = [freq |-> freq, version |-> version, div |-> sdGetClockDivider(freq, version) % 1024]
    /\ UNCHANGED <<mmc, hostclock, cdiv, tout, reset, want>>

\* The clock on the line.
EmmcRate == EmmcBase \div (2 * emmcdiv.div)

-----------------------------------------------------------------------------
Next == \/ AddHost \/ SetIos
        \/ \E c \in Wanted : Ask(c)
        \/ \E f \in Wanted \ {0}, v \in 0 .. 2 : SdSetClock(f, v)

Spec == Init /\ [][Next]_vars

-----------------------------------------------------------------------------
(* Properties.                                                             *)

\* When host.clock says that the clock is set, the line is not faster than
\* that, nor than what was asked for (up to the 1 Hz of the division), unless
\* the divider is the largest, and the next smaller divider would be too fast.
\* SDTOUT belongs to this clock, unless it is the slowest one.
HostClockSet ==
    reset /\ hostclock = mmc =>
      /\ cdiv # MaxCdiv => /\ Rate(cdiv) <= want /\ Rate(cdiv) = mmc /\ tout = mmc
                           /\ cdiv > 0 => want * (cdiv + 1) < MaxClk
      /\ cdiv = MaxCdiv => want * MaxCdiv < MaxClk

\* The clock of emmc.c is not faster than it was asked to be, unless the
\* divisor is as large as it can be, and not slower than an eighth of it,
\* unless there is nothing as fast.
EmmcClockWithin ==
    emmcdiv.freq > 0 =>
      /\ EmmcRate <= emmcdiv.freq \/ emmcdiv.div = (IF emmcdiv.version < 2 THEN 128 ELSE MaxDivisor)
      /\ 8 * (EmmcRate + 1) > emmcdiv.freq \/ emmcdiv.freq > EmmcBase
=============================================================================
