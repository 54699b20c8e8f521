---------------------------- MODULE SystemTimer ----------------------------
(***************************************************************************)
(* timer::get_system_timer (src/src/kernel/peripheral/timer.cpp): a 64-bit *)
(* counter that runs on while its two halves are read one after the other. *)
(* The driver looks once whether the upper half moved, and reads both      *)
(* again if it did, but does not look a second time.                       *)
(***************************************************************************)
EXTENDS Integers

CONSTANTS
    Half,        \* values of one half of the counter (2^32)
    MaxCount     \* the counter stops there: its 64 bits are never used up

ASSUME SystemTimerAssumption ==
    /\ Half \in Nat \ {0}
    /\ MaxCount \in Nat

VARIABLES
    count,     \* the counter (external)
    read,      \* the next read, "idle" between two calls
    hi, lo,    \* the locals
    start,     \* the counter when the call began
    time       \* what the last call returned

timerVars == <<count, read, hi, lo, start, time>>

upper(c) == c \div Half
lower(c) == c % Half

TimerTypeOK ==
    /\ count \in Nat
    /\ read \in {"idle", "hi", "lo", "recheck", "hi2", "lo2", "return"}
    /\ hi \in Nat
    /\ lo \in 0 .. Half - 1
    /\ start \in Nat
    /\ time \in Nat

TimerInit ==
    /\ count \in 0 .. MaxCount
    /\ read = "idle"
    /\ hi = 0
    /\ lo = 0
    /\ start = count
    /\ time = 0

(* The counter runs, also during a call and however long the call takes.   *)
Tick ==
    /\ count < MaxCount
    /\ count' = count + 1
    /\ UNCHANGED <<read, hi, lo, start, time>>

CallGetSystemTimer ==
    /\ read = "idle"
    /\ start' = count
    /\ read' = "hi"
    /\ UNCHANGED <<count, hi, lo, time>>

ReadHi ==       \* line 5
    /\ read = "hi"
    /\ hi' = upper(count)
    /\ read' = "lo"
    /\ UNCHANGED <<count, lo, start, time>>

ReadLo ==       \* line 6
    /\ read = "lo"
    /\ lo' = lower(count)
    /\ read' = "recheck"
    /\ UNCHANGED <<count, hi, start, time>>

M_NoRecheck ==
    /\ read = "recheck"
    /\ read' = "return"
    /\ UNCHANGED <<count, hi, lo, start, time>>

Recheck ==      \* line 9
    /\ read = "recheck"
    /\ read' = IF hi # upper(count) THEN "hi2" ELSE "return"
    /\ UNCHANGED <<count, hi, lo, start, time>>

ReadHiAgain ==  \* line 10
    /\ read = "hi2"
    /\ hi' = upper(count)
    /\ read' = "lo2"
    /\ UNCHANGED <<count, lo, start, time>>

ReadLoAgain ==  \* line 11
    /\ read = "lo2"
    /\ lo' = lower(count)
    /\ read' = "return"
    /\ UNCHANGED <<count, hi, start, time>>

ReturnTime ==       \* line 14
    /\ read = "return"
    /\ time' = hi * Half + lo
    /\ read' = "idle"
    /\ UNCHANGED <<count, hi, lo, start>>

TimerNext == \/ Tick \/ CallGetSystemTimer \/ ReadHi \/ ReadLo \/ Recheck
             \/ ReadHiAgain \/ ReadLoAgain \/ ReturnTime

TimerSpec == TimerInit /\ [][TimerNext]_timerVars

-----------------------------------------------------------------------------
(* No torn read: what a call returns is a value the counter had during the *)
(* call, although its halves were read apart and the second pair is not    *)
(* checked again (timer.cpp:4-15): if the upper half moves once more the   *)
(* result is an older value, but not one from before the call.             *)
NotTorn == [][read = "return" /\ read' = "idle" =>
                /\ start \leq time'
                /\ time' \leq count]_timerVars

(* Time does not run backwards from one call to the next.                  *)
Monotonic == [][time \leq time']_timerVars
=============================================================================
