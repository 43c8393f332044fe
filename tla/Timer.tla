------------------------------- MODULE Timer -------------------------------
(***************************************************************************)
(* The timer interrupt and the sleep system call (sys/timer.c).  sleep is  *)
(* one of the two calls that run with interrupts enabled: it polls         *)
(* current_sec, which the interrupt handler changes under it, until the    *)
(* value it computed when it started is reached.                           *)
(***************************************************************************)
EXTENDS Integers

CONSTANTS HZ,             \* ticks per second: 1000
          HOUR, MINUTE,   \* 3600, 60
          IntBits,        \* width of timer_tic, an int
          Durations       \* arguments of sleep

ASSUME TimerAssumption ==
    /\ {HZ, HOUR, MINUTE, IntBits} \subseteq Nat \ {0} /\ Durations \subseteq Nat
    /\ 2 ^ (IntBits - 1) \in Nat \ {0}
    /\ HOUR % MINUTE = 0

VARIABLES timer_tic, current_sec,
          pc,             \* "user", or "sleep" while in the call
          ti,             \* the local of sleep: when to return
          asked, passed   \* seconds asked for, and ticks since the call

timervars == <<timer_tic, current_sec, pc, ti, asked, passed>>

\* / and % of C, which round towards zero.
Quot(a, b) == IF a >= 0 THEN a \div b ELSE -((-a) \div b)
Rem(a, b) == a - b * Quot(a, b)

IntMin == -(2 ^ (IntBits - 1))
IntMax == 2 ^ (IntBits - 1) - 1

Increment(n) == IF n = IntMax THEN IntMin ELSE n + 1

\* Mutant of SecondOf: the last second of the minute is never shown.
SecondOfShort(n) == Rem(Rem(Quot(n, HZ), HOUR), MINUTE - 1)

SecondOf(n) == Rem(Rem(Quot(n, HZ), HOUR), MINUTE)

\* Mutant of Deadline: the second that has begun counts as a whole one.
DeadlineEarly(val) == current_sec + val - 1

Deadline(val) == current_sec + val

TimerInit == timer_tic = 0 /\ current_sec = 0 /\ pc = "user" /\ ti = 0 /\ asked = 0 /\ passed = 0

\* timer_handler.  passed, which is not in the code, counts every tick of a sleep,
\* up to the seconds asked for.
Tick ==
    /\ timer_tic' = Increment(timer_tic)
    /\ current_sec' = IF Rem(timer_tic', HZ) = 0 THEN SecondOf(timer_tic') ELSE current_sec
    /\ passed' = IF pc = "sleep" /\ passed < asked * HZ THEN passed + 1 ELSE passed
    /\ UNCHANGED <<pc, ti, asked>>

Sleep(val) ==
    /\ pc = "user"
    /\ pc' = "sleep" /\ ti' = Deadline(val) /\ asked' = val /\ passed' = 0
    /\ UNCHANGED <<timer_tic, current_sec>>

\* The poll finds current_sec < ti false.
Return ==
    /\ pc = "sleep" /\ current_sec >= ti
    /\ pc' = "user" /\ ti' = 0 /\ asked' = 0 /\ passed' = 0
    /\ UNCHANGED <<timer_tic, current_sec>>

TimerNext == Tick \/ Return \/ \E val \in Durations : Sleep(val)

\* The timer keeps ticking, and the loop polls many times between two ticks: a
\* poll is not missed every time that it would succeed.
TimerSpec == TimerInit /\ [][TimerNext]_timervars /\ WF_timervars(Tick) /\ SF_timervars(Return)

-----------------------------------------------------------------------------
\* sleep(val) does not return before val - 1 seconds and one tick have passed, also
\* across the end of a minute and of the range of int.  It does not promise val
\* seconds: current_sec may be almost a second old when sleep reads it, so that a
\* sleep(1) that starts at the last tick of a second ends with the next tick.
NotEarly == pc = "sleep" /\ current_sec >= ti => passed > (asked - 1) * HZ

\* A sleep that ends within the minute it starts in does end.
SleepWithinMinuteEnds == (pc = "sleep" /\ ti < MINUTE) ~> (pc = "user")

\* Every sleep ends.
SleepEnds == (pc = "sleep") ~> (pc = "user")
=============================================================================
