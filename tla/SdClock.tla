------------------------------ MODULE SdClock ------------------------------
(***************************************************************************)
(* emmc::sd::set_clock_rate (src/src/kernel/peripheral/sd.cpp): the clock  *)
(* the driver programs into CONTROL1 for a rate asked of it, and the order *)
(* in which it turns the clock off, changes the divider and turns it on.   *)
(*                                                                         *)
(* Frequencies are in kHz: every rate of sd.h is a multiple of 1 kHz.      *)
(***************************************************************************)
EXTENDS Integers

CONSTANTS
    WordBits,      \* width of u32 (32; TLC has no integer that large)
    BaseRates,     \* what get_base_clock_rate may report, 0 when it failed
    Rates,         \* the rates set_clock_rate is asked for
    InhibitLimit,  \* polls of the inhibit bits (10000)
    StableLimit    \* polls of clk_stable (10000)

ASSUME SdClockAssumption ==
    /\ WordBits \in Nat \ {0}
    /\ BaseRates \subseteq Nat
    /\ Rates \subseteq Nat \ {0}
    /\ InhibitLimit \in Nat \ {0}
    /\ StableLimit \in Nat \ {0}

HostVersions == 0 .. 2            \* host_spec::v1 .. host_spec::v3
v2 == 1

-----------------------------------------------------------------------------
(* The divider (lines 340-403).                                            *)

(* find_lowest_set_bit, which finds the highest one: x is moved up until   *)
(* its top bit is set, by halves of the word.                              *)
MoveUp(s, n) == IF s.x < 2^(WordBits - n)
                THEN [x |-> s.x * 2^n, shift |-> s.shift - n] ELSE s

find_lowest_set_bit(x) ==
    LET top == MoveUp(MoveUp(MoveUp(MoveUp(MoveUp(
                 [x |-> x, shift |-> WordBits], 16), 8), 4), 2), 1).shift
    IN  IF x = 0 THEN 0 ELSE IF top - 1 > 7 THEN 7 ELSE top - 1

Target(base, rate) == base \div rate

(* The u32 subtraction wraps when the rate is above the base clock.        *)
Below(target) == (target + 2^WordBits - 1) % 2^WordBits

AtLeastTwo(d) == IF d <= 2 THEN 2 ELSE d

M_DivisorHalved(version, target) ==
    AtLeastTwo((IF version <= v2 THEN 2^find_lowest_set_bit(Below(target))
                                 ELSE target) \div 2)

Divisor(version, target) ==
    AtLeastTwo(IF version <= v2 THEN 2^find_lowest_set_bit(Below(target))
                                ELSE target)

(* What is written to CONTROL1, in units of bit 6, the lowest bit of       *)
(* clk_div_mask: the low byte of the divisor goes to bits 8..15, and for   *)
(* v3 bits 8 and 9 of THAT value are copied to bits 6 and 7.               *)
M_FieldUnmasked(version, d) ==
    d * 4 + (IF version > v2 THEN d % 4 ELSE 0)

Field(version, d) ==
    (d % 256) * 4 + (IF version > v2 THEN d % 4 ELSE 0)

(* The divider as the host controller reads the field: bits 8..15 are its  *)
(* low byte, bits 6 and 7 its bits 8 and 9 (external).                     *)
HwDivider(field) == (field \div 4) + 256 * (field % 4)

(* The card's clock, base / (2 N) or base for N = 0, is above the rate.    *)
TooFast(base, rate, field) ==
    IF HwDivider(field) = 0 THEN base > rate
                            ELSE base > 2 * HwDivider(field) * rate

-----------------------------------------------------------------------------
VARIABLES
    pc,            \* the next bus access, "idle" between two calls
    version,       \* host_version
    base,          \* base_clock_rate
    rate,          \* the rate asked for
    result,        \* what the last call returned
    tout,          \* the local tout
    inhibited,     \* cmd_inhibit or dat_inhibit
    clk_en,        \* CONTROL1
    clk_stable,
    field          \* the bits of clk_div_mask

vars == <<pc, version, base, rate, result, tout, inhibited, clk_en,
          clk_stable, field>>

TypeOK ==
    /\ pc \in {"idle", "inhibit", "off", "divide", "on", "stable"}
    /\ version \in HostVersions
    /\ base \in BaseRates
    /\ rate \in Rates
    /\ result \in {"none", "busy", "ok", "fail"}
    /\ tout \in Nat /\ (tout < InhibitLimit \/ tout < StableLimit)
    /\ inhibited \in BOOLEAN
    /\ clk_en \in BOOLEAN
    /\ clk_stable \in BOOLEAN
    /\ field \in Nat

Init ==
    /\ pc = "idle"
    /\ version \in HostVersions
    /\ base \in BaseRates
    /\ rate \in Rates
    /\ result = "none"
    /\ tout = 0
    /\ inhibited \in BOOLEAN
    /\ clk_en = FALSE
    /\ clk_stable = FALSE
    /\ field = 0

Return(r) ==
    /\ pc' = "idle"
    /\ result' = r
    /\ tout' = 0

CallSetClockRate ==
    /\ pc = "idle"
    /\ rate' \in Rates
    /\ pc' = "inhibit"
    /\ result' = "busy"
    /\ UNCHANGED <<version, base, tout, inhibited, clk_en, clk_stable, field>>

(* Lines 358-371.                                                          *)
WaitInhibit ==
    /\ pc = "inhibit"
    /\ \/ /\ ~inhibited
          /\ pc' = "off"
          /\ tout' = 0
          /\ UNCHANGED result
       \/ /\ inhibited /\ tout + 1 < InhibitLimit
          /\ tout' = tout + 1
          /\ UNCHANGED <<pc, result>>
       \/ /\ inhibited /\ tout + 1 >= InhibitLimit
          /\ Return("fail")
    /\ UNCHANGED <<version, base, rate, inhibited, clk_en, clk_stable, field>>

(* Line 374.                                                               *)
M_ClockStaysOn ==
    /\ pc = "off"
    /\ pc' = "divide"
    /\ UNCHANGED <<version, base, rate, result, tout, inhibited, clk_en,
                   clk_stable, field>>

ClockOff ==
    /\ pc = "off"
    /\ clk_en' = FALSE
    /\ pc' = "divide"
    /\ UNCHANGED <<version, base, rate, result, tout, inhibited, clk_stable,
                   field>>

(* Lines 376-411.                                                          *)
SetDivider ==
    /\ pc = "divide"
    /\ field' = Field(version, Divisor(version, Target(base, rate)))
    /\ clk_stable' = FALSE
    /\ pc' = "on"
    /\ UNCHANGED <<version, base, rate, result, tout, inhibited, clk_en>>

(* Line 414.                                                               *)
ClockOn ==
    /\ pc = "on"
    /\ clk_en' = TRUE
    /\ pc' = "stable"
    /\ UNCHANGED <<version, base, rate, result, tout, inhibited, clk_stable,
                   field>>

(* Lines 417-429.                                                          *)
WaitStable ==
    /\ pc = "stable"
    /\ \/ /\ clk_stable
          /\ Return("ok")
       \/ /\ ~clk_stable /\ tout + 1 < StableLimit
          /\ tout' = tout + 1
          /\ UNCHANGED <<pc, result>>
       \/ /\ ~clk_stable /\ tout + 1 >= StableLimit
          /\ Return("fail")
    /\ UNCHANGED <<version, base, rate, inhibited, clk_en, clk_stable, field>>

(* The controller (external): the lines come free, or are held by a        *)
(* command sent between two calls; the clock becomes stable.               *)
HwInhibit ==
    /\ inhibited \/ pc = "idle"
    /\ inhibited' = ~inhibited
    /\ UNCHANGED <<pc, version, base, rate, result, tout, clk_en, clk_stable,
                   field>>

HwStable ==
    /\ clk_en /\ ~clk_stable
    /\ clk_stable' = TRUE
    /\ UNCHANGED <<pc, version, base, rate, result, tout, inhibited, clk_en,
                   field>>

Next == \/ CallSetClockRate \/ WaitInhibit \/ ClockOff \/ SetDivider
        \/ ClockOn \/ WaitStable \/ HwInhibit \/ HwStable

Spec == Init /\ [][Next]_vars

-----------------------------------------------------------------------------
(* What is ored into CONTROL1 stays within clk_div_mask, ten bits, so that *)
(* the timeout unit at bits 16..19 and the resets above it are not touched *)
(* (sd.cpp:398-411), whatever base clock the firmware reports.             *)
FieldInMask == field \in 0 .. 1023

(* The divider changes only while the clock is off and no command or data  *)
(* is on the bus (sd.cpp:359-374, 405-411).                                *)
DividerWhileOff == [][field' # field => ~clk_en /\ ~inhibited]_vars

(* After true the clock is on and stable, and the rate is kept where the   *)
(* divisor has it in its reach (sd.cpp:376-429).  A host of v3 clocks the  *)
(* card at the rate asked for, or a slower one, as long as the divisor     *)
(* fits the byte that line 398 keeps of it.  A host before v3 divides by a *)
(* power of 2 of 256 at most, which may round the ratio down: up to there  *)
(* the clock is above the rate by less than one part in that divider.      *)
SlowEnough ==
    (pc = "idle" /\ result = "ok") =>
        /\ clk_en /\ clk_stable
        /\ version > v2 /\ Target(base, rate) < 256
              => ~TooFast(base, rate, field)
        /\ version <= v2 /\ Target(base, rate) <= 256
              => base < (2 * HwDivider(field) + 1) * rate

(* After true a host of v3 does not clock the card above the rate asked    *)
(* for, what the comments of sd.cpp:391 and 401 say.                       *)
NotAboveRate ==
    (pc = "idle" /\ result = "ok" /\ version > v2)
        => ~TooFast(base, rate, field)
=============================================================================
