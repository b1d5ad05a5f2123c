------------------------------ MODULE SysTimer ------------------------------
(***************************************************************************)
(* src/systimer.c: reading the free running counter, delays, the repeated  *)
(* timer interrupt and the local time kept by it.                          *)
(*                                                                         *)
(* The counter has two words of Word values; it goes on between any two    *)
(* reads of the processor.  A task reads; the timer interrupt comes when   *)
(* the compare register meets the low word, and its clearer runs between   *)
(* two steps of the task.                                                  *)
(***************************************************************************)
EXTENDS Integers

CONSTANTS Word,      \* values of a 32-bit word
          MaxCount,  \* bound: the counter does not pass it (a 64-bit counter never wraps)
          PerSecond, \* ticks of a second: 100
          Delays,    \* arguments of MicroDelay
          Timeout    \* the period given to repeat_on_time_out

\* The period of the tick is shorter than the low word's.
TimerConstants == /\ Word \in Nat \ {0} /\ PerSecond \in Nat \ {0} /\ Delays \subseteq Nat
                  /\ Timeout \in 1..(Word - 1)

VARIABLES count,        \* the counter
          pc, hi, lo,   \* timer_getTickCount64: registers read
          call,         \* who called it: "read", or a round of MicroDelay
          from, until,  \* MicroDelay: timer_tick, its end
          start, res,   \* auxiliary: counter when the call began; what it returned
          arm, compare, matched, repeat, \* repeat_on_time_out: where it is; timer1; the line
          ticks, secs,  \* m_nTicks, m_nTime
          tpc, time     \* get_local_time: where it is, nTime and the time when it began

vars == <<count, pc, hi, lo, call, from, until, start, res, arm, compare, matched, repeat, ticks, secs, tpc, time>>

High == count \div Word
Low == count % Word

NoTime == [secs |-> 0, start |-> 0, now |-> 0]

Init == /\ count = 0 /\ pc = "idle" /\ hi = 0 /\ lo = 0 /\ call = "none" /\ from = 0 /\ until = 0
        /\ start = 0 /\ res = 0 /\ arm = "off" /\ compare = -1 /\ matched = FALSE /\ repeat = 0
        /\ ticks = 0 /\ secs = 0 /\ tpc = "idle" /\ time = NoTime

tickVars == <<arm, compare, matched, repeat, ticks, secs>>
readVars == <<pc, hi, lo, call, from, until, start, res>>
timeVars == <<tpc, time>>

\* The hardware.  The line is only raised by equality.
Count == /\ count < MaxCount /\ count' = count + 1
         /\ matched' = (matched \/ compare = (count + 1) % Word)
         /\ UNCHANGED <<readVars, timeVars, arm, compare, repeat, ticks, secs>>

-----------------------------------------------------------------------------
(* timer_getTickCount64 and MicroDelay.                                    *)

Read64 == /\ pc = "idle" /\ tpc = "idle" /\ pc' = "hi" /\ call' = "read" /\ start' = count
          /\ UNCHANGED <<count, hi, lo, from, until, res, tickVars, timeVars>>

MicroDelay(d) == /\ pc = "idle" /\ tpc = "idle" /\ pc' = "hi" /\ call' = "delay" /\ start' = count /\ until' = d
                 /\ UNCHANGED <<count, hi, lo, from, res, tickVars, timeVars>>

ReadHigh == /\ pc = "hi" /\ hi' = High /\ pc' = "lo"
            /\ UNCHANGED <<count, lo, call, from, until, start, res, tickVars, timeVars>>
ReadLow  == /\ pc = "lo" /\ lo' = Low /\ pc' = "check"
            /\ UNCHANGED <<count, hi, call, from, until, start, res, tickVars, timeVars>>

\* The value that was read goes back to its caller.
Back(v) ==
    /\ res' = v
    /\ CASE call = "read" -> pc' = "done" /\ UNCHANGED <<call, from, until>>
         [] call = "delay" -> pc' = "hi" /\ call' = "wait" /\ from' = v /\ until' = v + until
         [] call = "wait" -> pc' = (IF v < until THEN "hi" ELSE "done") /\ UNCHANGED <<call, from, until>>

\* The high word is not read again.
CheckNothing == /\ pc = "check" /\ Back(hi * Word + lo)
                /\ UNCHANGED <<count, hi, lo, start, tickVars, timeVars>>

Check == /\ pc = "check"
         /\ IF High = hi THEN Back(hi * Word + lo)
            ELSE pc' = "hi" /\ UNCHANGED <<call, from, until, res>>
         /\ UNCHANGED <<count, hi, lo, start, tickVars, timeVars>>

Return == /\ pc = "done" /\ pc' = "idle" /\ hi' = 0 /\ lo' = 0 /\ call' = "none" /\ from' = 0 /\ until' = 0
          /\ start' = 0 /\ res' = 0 /\ UNCHANGED <<count, tickVars, timeVars>>

TickDifference(us1, us2, max) == IF us1 > us2 THEN us2 + (max - us1 + 1) ELSE us2 - us1

-----------------------------------------------------------------------------
(* The repeated interrupt.                                                 *)

\* timer_set.
TimerSet == /\ compare' = (Low + Timeout) % Word /\ ticks' = ticks + 1
            /\ secs' = (IF (ticks + 1) % PerSecond = 0 THEN secs + 1 ELSE secs)

\* repeat_on_time_out: the handler is registered, the timer set, and then the
\* period is kept for the clearer.
Arm == /\ arm = "off" /\ arm' = "set" /\ TimerSet
       /\ UNCHANGED <<count, readVars, timeVars, matched, repeat>>
Repeat == /\ arm = "set" /\ arm' = "on" /\ repeat' = Timeout
          /\ UNCHANGED <<count, readVars, timeVars, compare, matched, ticks, secs>>

\* timer_irq_clearer, in an interrupt.  Before repeat is set it sets no timer.
Clearer == /\ matched /\ matched' = FALSE
           /\ IF repeat # 0 THEN TimerSet /\ UNCHANGED arm
              ELSE arm' = "missed" /\ UNCHANGED <<compare, ticks, secs>>
           /\ UNCHANGED <<count, readVars, timeVars, repeat>>

\* get_local_time: nTime, and then nTicks.
Now == secs * PerSecond + (ticks % PerSecond)
GetLocalTime == /\ pc = "idle" /\ tpc = "idle" /\ tpc' = "ticks"
                /\ time' = [secs |-> secs, start |-> Now, now |-> 0]
                /\ UNCHANGED <<count, readVars, tickVars>>
GetTicks == /\ tpc = "ticks" /\ tpc' = "done"
            /\ time' = [time EXCEPT !.now = time.secs * PerSecond + (ticks % PerSecond)]
            /\ UNCHANGED <<count, readVars, tickVars>>
TimeReturn == /\ tpc = "done" /\ tpc' = "idle" /\ time' = NoTime /\ UNCHANGED <<count, readVars, tickVars>>

-----------------------------------------------------------------------------
Reading == Read64 \/ (\E d \in Delays : MicroDelay(d)) \/ ReadHigh \/ ReadLow \/ Check \/ Return
Next == Count \/ Reading \/ Arm \/ Repeat \/ Clearer \/ GetLocalTime \/ GetTicks \/ TimeReturn

Spec == Init /\ [][Next]_vars

-----------------------------------------------------------------------------
(* Properties.                                                             *)

\* What timer_getTickCount64 returns is a value the counter had during the
\* call, although its words are read one after the other; MicroDelay does not
\* return before its time.
ReadsWithin == pc = "done" => /\ call = "read" => start <= res /\ res <= count
                              /\ call = "wait" => count - start >= until - from

\* tick_difference counts around the end of the counter.
DifferenceExact == \A a, b \in 0..(Word - 1) : TickDifference(a, b, Word - 1) = (b - a) % Word

\* get_local_time is never ahead and less than a second behind, although a
\* second may begin between its two reads.
TimeClose == tpc = "done" => time.now <= Now /\ time.start - time.now < PerSecond

\* Once repeat_on_time_out is through, the line is up or the timer is set to
\* a time to come, unless it ran out before the period was kept: then the
\* interrupts stop.
KeepsRepeating == arm = "on" => matched \/ ((compare - Low) % Word) \in 1..Timeout
=============================================================================
