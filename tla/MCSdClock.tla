----------------------------- MODULE MCSdClock -----------------------------
(* SdClock on the rates of sd.h and base clocks a Raspberry Pi reports     *)
(* (200 and 250 MHz), a few others, and 0 (the mailbox call failed).       *)
EXTENDS SdClock

MCRates == {400, 25000, 50000, 100000, 208000}
MCBaseRates == {0, 1, 800, 41666, 50000, 52000, 100000, 102400, 200000,
                249999, 250000}

(* The bit find_lowest_set_bit is to find, but no higher than 7.           *)
HighBit(x) == IF x = 0 THEN 0
              ELSE IF x >= 128 THEN 7
              ELSE CHOOSE s \in 0 .. 6 : 2^s <= x /\ x < 2^(s + 1)

ASSUME \A x \in 0 .. 2^WordBits - 1 : find_lowest_set_bit(x) = HighBit(x)
=============================================================================
