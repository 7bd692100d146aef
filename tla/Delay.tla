-------------------------------- MODULE Delay --------------------------------
(* Waiting on the timer's counter (QTimerLib.c).  The counter is read in    *)
(* two registers, the high one before and after the low one, and wraps;     *)
(* time passes between any two reads, an interrupt included.  The model's   *)
(* registers and second are smaller than the chip's, in proportion.         *)
EXTENDS Naturals

CONSTANTS
    Low, High,          \* how many values the two registers have
    Frequency,          \* qtimer_get_frequency, in ticks per second
    MicroPerSecond, NanoPerMicro,
    Delays,             \* what NanoSecondDelay is asked for
    Lag                 \* bound: ticks between two reads

ASSUME DelayAssumption ==
    /\ {Low, High, Frequency, MicroPerSecond, NanoPerMicro} \subseteq Nat \ {0}
    /\ Lag \in Nat /\ Delays \subseteq Nat

VARIABLES
    ticks,      \* the counter
    elapsed,    \* ticks since the delay began
    wait,       \* where the call is: none, hi1, lo, hi2, or returned
    micros,     \* MicroSeconds
    read,       \* phy_cnt_hi_1 and phy_cnt_lo
    count       \* Count, InitCount, Timeout and whether in the first loop, once the counter has been read

delayVars == <<ticks, elapsed, wait, micros, read, count>>

Turn == Low * High
NotRead == [Count |-> 0, InitCount |-> Turn, Timeout |-> 0, wrapping |-> TRUE]
NanoPerSecond == MicroPerSecond * NanoPerMicro

DelayInit ==
    /\ ticks \in 0..(Turn - 1) /\ elapsed = 0 /\ wait = "none" /\ micros = 0
    /\ read = [hi |-> 0, lo |-> 0] /\ count = NotRead

\* Time that passes with a step; where the call stands it is bounded.
Passing(n) == ticks' = (ticks + n) % Turn /\ elapsed' = elapsed + n

\* NanoSecondDelay: up to whole microseconds; MicroSecondDelay: down to whole ticks.
TicksOf(us) == (us * Frequency) \div MicroPerSecond
NanoSecondDelay ==
    /\ wait = "none" /\ wait' = "hi1"
    /\ \E ns \in Delays : micros' = (ns \div NanoPerMicro) + (IF ns % NanoPerMicro = 0 THEN 0 ELSE 1)
    /\ UNCHANGED <<ticks, elapsed, read, count>>

\* A call that missed the end of its time is followed for one turn of the counter.
ReadHigh == wait = "hi1" /\ elapsed < Turn /\ wait' = "lo" /\ read' = [read EXCEPT !.hi = ticks \div Low]
            /\ UNCHANGED <<micros, count>> /\ \E n \in 0..Lag : Passing(n)

ReadLow == wait = "lo" /\ wait' = "hi2" /\ read' = [read EXCEPT !.lo = ticks % Low]
           /\ UNCHANGED <<micros, count>> /\ \E n \in 0..Lag : Passing(n)

\* The first loop: the time-out lies past the end of the counter, which is not there yet.
Wrapping(c) == c.Timeout < c.Count /\ c.InitCount <= c.Count

\* The second loop follows the first.
Waits(c) == c.wrapping \/ c.Timeout > c.Count

\* Mutant of CounterRead: the high register is read once.
CounterReadOnce == (read.hi * Low) + read.lo

\* qtimer_get_phy_timer_cnt, once both reads of the high register agree.
CounterRead == IF ticks \div Low = read.hi THEN (read.hi * Low) + read.lo ELSE Turn

\* The first count sets the time-out; the first loop, once left, is not entered again.
Look(c) ==
    LET next == IF count = NotRead
                THEN [Count |-> c, InitCount |-> c, Timeout |-> (c + TicksOf(micros)) % Turn, wrapping |-> TRUE]
                ELSE [count EXCEPT !.Count = c]
    IN [next EXCEPT !.wrapping = @ /\ Wrapping(next)]

ReadHighAgain ==
    /\ wait = "hi2" /\ UNCHANGED <<micros, read>>
    /\ \/ CounterRead = Turn /\ wait' = "hi1" /\ UNCHANGED count /\ \E n \in 0..Lag : Passing(n)
       \/ /\ CounterRead # Turn /\ count' = Look(CounterRead)
          /\ \/ Waits(Look(CounterRead)) /\ wait' = "hi1" /\ \E n \in 0..Lag : Passing(n)
             \/ ~Waits(Look(CounterRead)) /\ wait' = "returned" /\ UNCHANGED <<ticks, elapsed>>

DelayNext == NanoSecondDelay \/ ReadHigh \/ ReadLow \/ ReadHighAgain
DelaySpec == DelayInit /\ [][DelayNext]_delayVars

\* GetTimeInNanoSecond: whole seconds first, then the rest.
GetTimeInNanoSecond(t) ==
    ((t \div Frequency) * NanoPerSecond) + (((t % Frequency) * NanoPerSecond) \div Frequency)

-----------------------------------------------------------------------------
(* Properties *)

TimeExact == \A t \in 0..(Turn - 1) : GetTimeInNanoSecond(t) = (t * NanoPerSecond) \div Frequency

\* The delay in ticks has passed when the call returns, wherever the counter
\* stands at its start and between its reads: on the edge of the low
\* register, on the edge of the counter.  Past the time-out the call returns
\* after a few reads, unless the time-out lies so close to the end of the
\* counter that a read can miss it; and the time given for a count is exact
\* (MicroSecondDelay, qtimer_get_phy_timer_cnt, GetTimeInNanoSecond).
DelayKept ==
    /\ wait = "returned" => elapsed >= TicksOf(micros)
    /\ count # NotRead /\ count.Timeout + (6 * Lag) < Turn => elapsed <= TicksOf(micros) + (16 * Lag)
    /\ TimeExact

\* "Wait till the number of ticks is reached": a delay is no shorter than asked for.
DelayNotShort == wait = "returned" => elapsed * MicroPerSecond >= micros * Frequency
=============================================================================
