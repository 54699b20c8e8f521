----------------------------- MODULE ClockProofs -----------------------------
(***************************************************************************)
(* Proofs about SdClock for the code's word of 32 bits, every base clock,  *)
(* every rate and every timeout, and about SystemTimer, for halves of any  *)
(* width and calls of any length.  The two share no name.                  *)
(***************************************************************************)
EXTENDS SdClock, SystemTimer, TLAPS

(* One step of find_lowest_set_bit takes at most n from the shift.         *)
State(least) == [x : Int, shift : least .. 32]

LEMMA MoveUpShift ==
  ASSUME NEW least \in Int, NEW s \in State(least), NEW n \in {1, 2, 4, 8, 16},
         n \leq least
  PROVE  MoveUp(s, n) \in State(least - n)
<1> DEFINE m == s.x * 2^n
           k == s.shift - n
<1>1. 2^n \in Int
  OBVIOUS
<1>2. m \in Int /\ k \in least - n .. 32 /\ s \in State(least - n)
  BY <1>1 DEF State
<1>3. [x |-> m, shift |-> k] \in State(least - n)
  <2> HIDE DEF m, k
  <2> QED
    BY <1>2 DEF State
<1>4. QED
  BY <1>2, <1>3 DEF MoveUp

(* The exponent of the divisor of a host before v3 is in 0..7.             *)
LEMMA ShiftRange ==
  ASSUME NEW x \in Int, WordBits = 32
  PROVE  find_lowest_set_bit(x) \in 0 .. 7
<1> DEFINE s1 == MoveUp([x |-> x, shift |-> WordBits], 16)
           s2 == MoveUp(s1, 8)
           s3 == MoveUp(s2, 4)
           s4 == MoveUp(s3, 2)
           s5 == MoveUp(s4, 1)
<1>0. [x |-> x, shift |-> WordBits] \in State(32)
  BY DEF State
<1>1. s1 \in State(16)
  BY <1>0, MoveUpShift, 32 - 16 = 16
<1>2. s2 \in State(8)
  BY <1>1, MoveUpShift, 16 - 8 = 8
<1>3. s3 \in State(4)
  BY <1>2, MoveUpShift, 8 - 4 = 4
<1>4. s4 \in State(2)
  BY <1>3, MoveUpShift, 4 - 2 = 2
<1>5. s5 \in State(1)
  BY <1>4, MoveUpShift, 2 - 1 = 1
<1>6. find_lowest_set_bit(x)
        = IF x = 0 THEN 0 ELSE IF s5.shift - 1 > 7 THEN 7 ELSE s5.shift - 1
  BY DEF find_lowest_set_bit
<1> HIDE DEF s5
<1>7. QED
  BY <1>5, <1>6 DEF State

LEMMA DivisorInt ==
  ASSUME WordBits = 32, NEW v \in HostVersions, NEW t \in Nat
  PROVE  Divisor(v, t) \in Int
<1>1. Below(t) \in Int
  BY DEF Below
<1>2. find_lowest_set_bit(Below(t)) \in Nat
  BY <1>1, ShiftRange
<1>3. 2^find_lowest_set_bit(Below(t)) \in Int
  BY <1>2
<1>4. QED
  BY <1>3 DEF Divisor, AtLeastTwo

LEMMA FieldRange ==
  ASSUME NEW v \in HostVersions, NEW d \in Int
  PROVE  Field(v, d) \in 0 .. 1023
BY DEF Field, HostVersions

(* The order of the bus accesses: between the wait for the lines and the   *)
(* new divider the clock is off and the lines stay free.                   *)
Order == /\ pc \in {"off", "divide"} => ~inhibited
         /\ pc = "divide" => ~clk_en
         /\ base \in Nat /\ rate \in Nat \ {0} /\ version \in HostVersions

IInv == FieldInMask /\ Order

LEMMA Invariant == ASSUME WordBits = 32 PROVE Spec => []IInv
<1>1. Init => IInv
  BY SdClockAssumption
     DEF SdClockAssumption, Init, IInv, FieldInMask, Order
<1>2. IInv /\ [Next]_vars => IInv'
  <2> SUFFICES ASSUME IInv, [Next]_vars PROVE IInv'
    OBVIOUS
  <2> USE DEF IInv, FieldInMask, Order
  <2>1. CASE CallSetClockRate
    BY <2>1, SdClockAssumption DEF SdClockAssumption, CallSetClockRate
  <2>2. CASE WaitInhibit
    BY <2>2 DEF WaitInhibit, Return
  <2>3. CASE ClockOff
    BY <2>3 DEF ClockOff
  <2>4. CASE SetDivider
    <3>1. Target(base, rate) \in Nat
      BY DEF Target
    <3>2. field' \in 0 .. 1023
      BY <2>4, <3>1, DivisorInt, FieldRange DEF SetDivider
    <3> QED
      BY <2>4, <3>2 DEF SetDivider
  <2>5. CASE ClockOn
    BY <2>5 DEF ClockOn
  <2>6. CASE WaitStable
    BY <2>6 DEF WaitStable, Return
  <2>7. CASE HwInhibit
    BY <2>7 DEF HwInhibit
  <2>8. CASE HwStable
    BY <2>8 DEF HwStable
  <2>9. CASE UNCHANGED vars
    BY <2>9 DEF vars
  <2>10. QED
    BY <2>1, <2>2, <2>3, <2>4, <2>5, <2>6, <2>7, <2>8, <2>9 DEF Next
<1>3. QED
  BY <1>1, <1>2, PTL DEF Spec

(* The polls stay below the limit of the loop they are of, 0 where the     *)
(* next loop starts, for every limit (sd.cpp:358-371, 417-429).            *)
Polls == /\ pc \in {"idle", "off", "divide", "on"} => tout = 0
         /\ pc = "inhibit" => tout < InhibitLimit
         /\ pc = "stable" => tout < StableLimit

THEOREM TypeCorrect == ASSUME WordBits = 32 PROVE Spec => []TypeOK
<1>1. Init => TypeOK /\ Polls
  <2> SUFFICES ASSUME Init PROVE TypeOK /\ Polls
    OBVIOUS
  <2>1. clk_en \in BOOLEAN /\ clk_stable \in BOOLEAN
    BY DEF Init
  <2>2. QED
    BY <2>1, SdClockAssumption DEF SdClockAssumption, Init, TypeOK, Polls
<1>2. TypeOK /\ Polls /\ IInv' /\ [Next]_vars => TypeOK' /\ Polls'
  <2> SUFFICES ASSUME TypeOK, Polls, IInv', [Next]_vars
               PROVE  TypeOK' /\ Polls'
    OBVIOUS
  <2> USE SdClockAssumption DEF SdClockAssumption, TypeOK, Polls
  <2>1. CASE CallSetClockRate
    BY <2>1 DEF CallSetClockRate
  <2>2. CASE WaitInhibit
    BY <2>2 DEF WaitInhibit, Return
  <2>3. CASE ClockOff
    BY <2>3 DEF ClockOff
  <2>4. CASE SetDivider
    <3>1. field' \in Nat
      BY DEF IInv, FieldInMask
    <3>2. QED
      BY <2>4, <3>1 DEF SetDivider
  <2>5. CASE ClockOn
    BY <2>5 DEF ClockOn
  <2>6. CASE WaitStable
    BY <2>6 DEF WaitStable, Return
  <2>7. CASE HwInhibit
    BY <2>7 DEF HwInhibit
  <2>8. CASE HwStable
    BY <2>8 DEF HwStable
  <2>9. CASE UNCHANGED vars
    BY <2>9 DEF vars
  <2>10. QED
    BY <2>1, <2>2, <2>3, <2>4, <2>5, <2>6, <2>7, <2>8, <2>9 DEF Next
<1>3. QED
  BY <1>1, <1>2, Invariant, PTL DEF Spec

(* Whatever base clock the firmware reports and whatever rate is asked     *)
(* for, the divider of sd.cpp:376-403 fits the ten bits of clk_div_mask.   *)
THEOREM DividerInMask == ASSUME WordBits = 32 PROVE Spec => []FieldInMask
<1>1. IInv => FieldInMask
  BY DEF IInv
<1>2. QED
  BY <1>1, Invariant, PTL

(* The divider is written only with the clock off and the lines free       *)
(* (sd.cpp:359-374, 405-411).                                              *)
THEOREM DividerWrittenWhileOff ==
  ASSUME WordBits = 32 PROVE Spec => DividerWhileOff
<1>1. IInv /\ [Next]_vars => [field' # field => ~clk_en /\ ~inhibited]_vars
  BY DEF IInv, Order, Next, CallSetClockRate, WaitInhibit, Return, ClockOff,
         SetDivider, ClockOn, WaitStable, HwInhibit, HwStable, vars
<1>2. QED
  BY <1>1, Invariant, PTL DEF Spec, DividerWhileOff

-----------------------------------------------------------------------------
(* The clock after true.                                                   *)

(* The controller reads back from the field the divisor that line 398      *)
(* wrote, plus 256 times its two low bits, which line 402 copied up.       *)
LEMMA ReadBack ==
  ASSUME NEW v \in HostVersions, v > v2, NEW d \in 0 .. 255
  PROVE  HwDivider(Field(v, d)) = d + 256 * (d % 4)
<1>1. d % 256 = d /\ d % 4 \in 0 .. 3
  OBVIOUS
<1>2. Field(v, d) = d * 4 + (d % 4)
  BY <1>1 DEF Field
<1>3. ASSUME NEW r \in 0 .. 3
      PROVE  (d * 4 + r) \div 4 = d /\ (d * 4 + r) % 4 = r
  OBVIOUS
<1>4. QED
  BY <1>1, <1>2, <1>3 DEF HwDivider

LEMMA Quotient ==
  ASSUME NEW b \in Nat, NEW r \in Nat \ {0}
  PROVE  b \div r \in Nat /\ b < (b \div r + 1) * r
<1>1. b \div r \in Nat /\ b % r \in 0 .. r - 1 /\ b = r * (b \div r) + (b % r)
  OBVIOUS
<1> DEFINE q == b \div r
           m == b % r
<1> HIDE DEF q, m
<1>2. (q + 1) * r = r * q + r
  BY <1>1 DEF q
<1>3. QED
  BY <1>1, <1>2 DEF q, m

(* A host of v3 divides by at least twice what the divisor is rounded      *)
(* down from, so that the rounding of line 379 never makes it too fast.    *)
LEMMA DividedEnough ==
  ASSUME NEW v \in HostVersions, v > v2, NEW b \in Nat, NEW r \in Nat \ {0},
         Target(b, r) < 256
  PROVE  ~TooFast(b, r, Field(v, Divisor(v, Target(b, r))))
<1> DEFINE t == b \div r
           d == AtLeastTwo(t)
           h == HwDivider(Field(v, d))
<1>1. t \in 0 .. 255 /\ b < (t + 1) * r
  BY Quotient DEF Target
<1>2. Divisor(v, Target(b, r)) = d
  BY v \in 0 .. 2 DEF Divisor, Target, v2, HostVersions
<1> HIDE DEF t
<1>3. d \in 2 .. 255 /\ 2 * d >= t + 1
  BY <1>1 DEF AtLeastTwo
<1> HIDE DEF d
<1>4. h \in Nat /\ h >= d
  <2>1. h = d + 256 * (d % 4)
    BY <1>3, ReadBack
  <2>2. d % 4 \in Nat
    BY <1>3
  <2> HIDE DEF h
  <2>3. QED
    BY <1>3, <2>1, <2>2
<1> HIDE DEF h
<1>5. b <= (2 * h) * r
  <2>1. 2 * h >= t + 1 /\ 2 * h \in Nat
    BY <1>1, <1>3, <1>4
  <2>2. ASSUME NEW k \in Nat, NEW n \in Nat, k >= n PROVE k * r >= n * r
    <3>1. (k - n) * r \in Nat
      BY <2>2
    <3>2. k * r = n * r + (k - n) * r
      BY <2>2
    <3>3. n * r \in Nat /\ k * r \in Nat
      OBVIOUS
    <3> DEFINE a == k * r
               b1 == n * r
               c == (k - n) * r
    <3> HIDE DEF a, b1, c
    <3>4. QED
      BY <3>1, <3>2, <3>3 DEF a, b1, c
  <2>3. (2 * h) * r >= (t + 1) * r
    BY <1>1, <2>1, <2>2
  <2>4. QED
    BY <1>1, <2>1, <2>3
<1>6. h # 0 /\ ~(b > 2 * h * r)
  BY <1>3, <1>4, <1>5
<1>7. QED
  BY <1>2, <1>6 DEF TooFast, h

(* A host before v3 divides by a power of 2 that is at least half the      *)
(* ratio: find_lowest_set_bit finds the highest bit of a byte.             *)
St(y, k) == [x |-> y, shift |-> k]

LEMMA Moves ==
  ASSUME WordBits = 32, NEW y \in Int, NEW k \in Int
  PROVE  /\ MoveUp(St(y, k), 16)
               = IF y < 65536 THEN St(y * 65536, k - 16) ELSE St(y, k)
         /\ MoveUp(St(y, k), 8)
               = IF y < 16777216 THEN St(y * 256, k - 8) ELSE St(y, k)
         /\ MoveUp(St(y, k), 4)
               = IF y < 268435456 THEN St(y * 16, k - 4) ELSE St(y, k)
         /\ MoveUp(St(y, k), 2)
               = IF y < 1073741824 THEN St(y * 4, k - 2) ELSE St(y, k)
         /\ MoveUp(St(y, k), 1)
               = IF y < 2147483648 THEN St(y * 2, k - 1) ELSE St(y, k)
<1>1. /\ 2^16 = 65536 /\ 2^8 = 256 /\ 2^4 = 16 /\ 2^2 = 4 /\ 2^1 = 2
      /\ 2^24 = 16777216 /\ 2^28 = 268435456 /\ 2^30 = 1073741824
      /\ 2^31 = 2147483648
  OBVIOUS
<1>2. 32 - 16 = 16 /\ 32 - 8 = 24 /\ 32 - 4 = 28 /\ 32 - 2 = 30 /\ 32 - 1 = 31
  OBVIOUS
<1>3. QED
  BY <1>1, <1>2 DEF MoveUp, St

LEMMA HighestBit ==
  ASSUME WordBits = 32, NEW y \in 1 .. 255
  PROVE  LET top == find_lowest_set_bit(y)
         IN  \/ y = 1 /\ top = 0
             \/ y \in 2 .. 3 /\ top = 1
             \/ y \in 4 .. 7 /\ top = 2
             \/ y \in 8 .. 15 /\ top = 3
             \/ y \in 16 .. 31 /\ top = 4
             \/ y \in 32 .. 63 /\ top = 5
             \/ y \in 64 .. 127 /\ top = 6
             \/ y \in 128 .. 255 /\ top = 7
<1> DEFINE s1 == MoveUp(St(y, 32), 16)
           s2 == MoveUp(s1, 8)
           s3 == MoveUp(s2, 4)
           s4 == MoveUp(s3, 2)
           s5 == MoveUp(s4, 1)
<1>1. s1 = St(y * 65536, 16)
  BY Moves, 32 - 16 = 16
<1>2. s2 = St(y * 16777216, 8)
  <2>1. y * 65536 < 16777216 /\ y * 65536 \in Int /\ 16 - 8 = 8
        /\ (y * 65536) * 256 = y * 16777216
    OBVIOUS
  <2> QED
    BY <1>1, <2>1, Moves
<1>3. s3 = IF y < 16 THEN St(y * 268435456, 4) ELSE St(y * 16777216, 8)
  <2>1. /\ y * 16777216 < 268435456 <=> y < 16
        /\ y * 16777216 \in Int /\ 8 - 4 = 4
        /\ (y * 16777216) * 16 = y * 268435456
    OBVIOUS
  <2> QED
    BY <1>2, <2>1, Moves
<1>4. s4 = IF y < 4 THEN St(y * 1073741824, 2)
           ELSE IF y < 16 THEN St(y * 268435456, 4)
           ELSE IF y < 64 THEN St(y * 67108864, 6)
           ELSE St(y * 16777216, 8)
  <2>1. /\ y * 268435456 < 1073741824 <=> y < 4
        /\ y * 16777216 < 1073741824 <=> y < 64
        /\ y * 268435456 \in Int /\ y * 16777216 \in Int
        /\ 4 - 2 = 2 /\ 8 - 2 = 6
        /\ (y * 268435456) * 4 = y * 1073741824
        /\ (y * 16777216) * 4 = y * 67108864
    OBVIOUS
  <2>2. CASE y < 16
    BY <1>3, <2>1, <2>2, Moves
  <2>3. CASE ~(y < 16)
    BY <1>3, <2>1, <2>3, Moves
  <2> QED
    BY <2>2, <2>3
<1>5. s5.shift = IF y < 2 THEN 1 ELSE IF y < 4 THEN 2 ELSE IF y < 8 THEN 3
                 ELSE IF y < 16 THEN 4 ELSE IF y < 32 THEN 5
                 ELSE IF y < 64 THEN 6 ELSE IF y < 128 THEN 7 ELSE 8
  <2>1. /\ y * 1073741824 < 2147483648 <=> y < 2
        /\ y * 268435456 < 2147483648 <=> y < 8
        /\ y * 67108864 < 2147483648 <=> y < 32
        /\ y * 16777216 < 2147483648 <=> y < 128
        /\ y * 1073741824 \in Int /\ y * 268435456 \in Int
        /\ y * 67108864 \in Int /\ y * 16777216 \in Int
    OBVIOUS
  <2>2. \A z, k \in Int : St(z, k).shift = k
    BY DEF St
  <2>3. CASE y < 4
    <3>1. s4 = St(y * 1073741824, 2)
      BY <1>4, <2>3
    <3>2. s5 = IF y < 2 THEN St((y * 1073741824) * 2, 1) ELSE St(y * 1073741824, 2)
      BY <2>1, <3>1, Moves, 2 - 1 = 1
    <3> QED
      BY <2>1, <2>2, <2>3, <3>2
  <2>4. CASE 4 \leq y /\ y < 16
    <3>1. s4 = St(y * 268435456, 4)
      BY <1>4, <2>4
    <3>2. s5 = IF y < 8 THEN St((y * 268435456) * 2, 3) ELSE St(y * 268435456, 4)
      BY <2>1, <3>1, Moves, 4 - 1 = 3
    <3> QED
      BY <2>1, <2>2, <2>4, <3>2
  <2>5. CASE 16 \leq y /\ y < 64
    <3>1. s4 = St(y * 67108864, 6)
      BY <1>4, <2>5
    <3>2. s5 = IF y < 32 THEN St((y * 67108864) * 2, 5) ELSE St(y * 67108864, 6)
      BY <2>1, <3>1, Moves, 6 - 1 = 5
    <3> QED
      BY <2>1, <2>2, <2>5, <3>2
  <2>6. CASE 64 \leq y
    <3>1. s4 = St(y * 16777216, 8)
      BY <1>4, <2>6
    <3>2. s5 = IF y < 128 THEN St((y * 16777216) * 2, 7) ELSE St(y * 16777216, 8)
      BY <2>1, <3>1, Moves, 8 - 1 = 7
    <3> QED
      BY <2>1, <2>2, <2>6, <3>2
  <2> HIDE DEF s5
  <2> QED
    BY <2>3, <2>4, <2>5, <2>6
<1>6. find_lowest_set_bit(y) = IF s5.shift - 1 > 7 THEN 7 ELSE s5.shift - 1
  BY DEF find_lowest_set_bit, St
<1> HIDE DEF s5
<1>7. QED
  BY <1>5, <1>6

LEMMA PowerEnough ==
  ASSUME WordBits = 32, NEW v \in HostVersions, v <= v2, NEW t \in 0 .. 256
  PROVE  /\ Divisor(v, t) \in 2 .. 128
         /\ t \leq 2 * Divisor(v, t)
<1> DEFINE s == find_lowest_set_bit(Below(t))
           p(n) == 2^n
<1>1. Divisor(v, t) = AtLeastTwo(p(s))
  BY DEF Divisor
<1>2. p(0) = 1 /\ p(1) = 2 /\ p(2) = 4 /\ p(3) = 8 /\ p(4) = 16 /\ p(5) = 32
      /\ p(6) = 64 /\ p(7) = 128
  OBVIOUS
<1> HIDE DEF p
<1>3. 2^32 = 4294967296
  OBVIOUS
<1>4. t > 0 => Below(t) = t - 1
  BY <1>3 DEF Below
<1>5. p(s) \in 1 .. 128
  <2>1. Below(t) \in Int
    BY <1>3 DEF Below
  <2>2. s \in 0 .. 7
    BY <2>1, ShiftRange
  <2> HIDE DEF s
  <2> QED
    BY <1>2, <2>2
<1>6. t \in 2 .. 256 => 2 * p(s) >= t
  <2> SUFFICES ASSUME t \in 2 .. 256 PROVE 2 * p(s) >= t
    OBVIOUS
  <2>1. t - 1 \in 1 .. 255
    OBVIOUS
  <2>2. s = find_lowest_set_bit(t - 1)
    BY <1>4
  <2> HIDE DEF s
  <2> QED
    BY <1>2, <2>1, <2>2, HighestBit
<1> HIDE DEF s
<1>7. QED
  BY <1>1, <1>5, <1>6 DEF AtLeastTwo

LEMMA DividedByPower ==
  ASSUME WordBits = 32, NEW v \in HostVersions, v <= v2, NEW b \in Nat,
         NEW r \in Nat \ {0}, Target(b, r) <= 256
  PROVE  b < (2 * HwDivider(Field(v, Divisor(v, Target(b, r)))) + 1) * r
<1> DEFINE t == b \div r
           d == Divisor(v, t)
<1>1. t \in 0 .. 256 /\ b < (t + 1) * r
  BY Quotient DEF Target
<1> HIDE DEF t
<1>2. d \in 2 .. 128 /\ t \leq 2 * d
  BY <1>1, PowerEnough
<1> HIDE DEF d
<1>3. HwDivider(Field(v, d)) = d
  <2>1. d % 256 = d
    BY <1>2
  <2>2. Field(v, d) = d * 4
    BY <1>2, <2>1 DEF Field, HostVersions, v2
  <2>3. (d * 4) \div 4 = d /\ (d * 4) % 4 = 0
    BY <1>2
  <2> QED
    BY <1>2, <2>2, <2>3 DEF HwDivider
<1>4. (t + 1) * r \leq (2 * d + 1) * r
  <2>1. PICK k \in Nat : 2 * d = t + k
    <3>1. 2 * d - t \in Nat /\ 2 * d = t + (2 * d - t)
      BY <1>1, <1>2
    <3> QED
      BY <3>1
  <2>2. k * r \in Nat /\ (t + 1) * r \in Nat
    BY <1>1
  <2>3. (2 * d + 1) * r = (t + 1) * r + k * r
    BY <1>1, <2>1
  <2> QED
    BY <2>2, <2>3
<1>5. (t + 1) * r \in Nat /\ (2 * d + 1) * r \in Nat
  BY <1>1, <1>2
<1>6. b < (2 * d + 1) * r
  BY <1>1, <1>4, <1>5
<1>7. QED
  BY <1>3, <1>6 DEF Target, t, d

(* From the new divider on, CONTROL1 holds it, and no call that ended with *)
(* true has left the clock off: every part is disturbed by the next call.  *)
Clocking ==
    /\ pc = "stable" => clk_en
    /\ result = "ok" => pc = "idle" /\ clk_en /\ clk_stable
    /\ pc \in {"on", "stable"} \/ result = "ok"
         => field = Field(version, Divisor(version, Target(base, rate)))

LEMMA ClockingInvariant == Spec => []Clocking
<1>1. Init => Clocking
  BY DEF Init, Clocking
<1>2. Clocking /\ [Next]_vars => Clocking'
  <2> SUFFICES ASSUME Clocking, [Next]_vars PROVE Clocking'
    OBVIOUS
  <2> USE DEF Clocking
  <2>1. CASE CallSetClockRate
    BY <2>1 DEF CallSetClockRate
  <2>2. CASE WaitInhibit
    BY <2>2 DEF WaitInhibit, Return
  <2>3. CASE ClockOff
    BY <2>3 DEF ClockOff
  <2>4. CASE SetDivider
    BY <2>4 DEF SetDivider
  <2>5. CASE ClockOn
    BY <2>5 DEF ClockOn
  <2>6. CASE WaitStable
    BY <2>6 DEF WaitStable, Return
  <2>7. CASE HwInhibit
    BY <2>7 DEF HwInhibit
  <2>8. CASE HwStable
    BY <2>8 DEF HwStable
  <2>9. CASE UNCHANGED vars
    BY <2>9 DEF vars
  <2>10. QED
    BY <2>1, <2>2, <2>3, <2>4, <2>5, <2>6, <2>7, <2>8, <2>9 DEF Next
<1>3. QED
  BY <1>1, <1>2, PTL DEF Spec

(* After true the clock is on and stable.  On a host of v3 it is not above *)
(* the rate asked for while the divisor fits the byte that line 398 keeps  *)
(* of it; on an older host it is above it by less than one part in the     *)
(* divider, up to the largest power of 2: for every base clock and rate    *)
(* (sd.cpp:376-429).                                                       *)
THEOREM ClockIsSlowEnough == ASSUME WordBits = 32 PROVE Spec => []SlowEnough
<1>1. IInv /\ Clocking /\ TypeOK => SlowEnough
  <2> SUFFICES ASSUME IInv, Clocking, TypeOK, pc = "idle", result = "ok"
               PROVE  /\ clk_en /\ clk_stable
                      /\ version > v2 /\ Target(base, rate) < 256
                            => ~TooFast(base, rate, field)
                      /\ version <= v2 /\ Target(base, rate) <= 256
                            => base < (2 * HwDivider(field) + 1) * rate
    BY DEF SlowEnough
  <2>1. /\ version \in HostVersions /\ base \in Nat /\ rate \in Nat \ {0}
        /\ clk_en /\ clk_stable
        /\ field = Field(version, Divisor(version, Target(base, rate)))
    BY SdClockAssumption DEF TypeOK, Clocking, SdClockAssumption
  <2> QED
    BY <2>1, DividedEnough, DividedByPower
<1>2. QED
  BY <1>1, TypeCorrect, Invariant, ClockingInvariant, PTL

-----------------------------------------------------------------------------
(* A count is its halves put together, and a smaller upper half means a    *)
(* smaller count.                                                          *)
LEMMA Halves ==
  ASSUME NEW c \in Nat
  PROVE  /\ upper(c) \in Nat /\ lower(c) \in 0 .. Half - 1
         /\ c = upper(c) * Half + lower(c)
BY SystemTimerAssumption DEF SystemTimerAssumption, upper, lower

LEMMA Scale ==
  ASSUME NEW h \in Nat, NEW k \in Nat, h < k
  PROVE  h * Half + Half \leq k * Half
<1>1. PICK d \in Nat : k = h + 1 + d
  <2>1. k - h - 1 \in Nat /\ k = h + 1 + (k - h - 1)
    OBVIOUS
  <2> QED BY <2>1
<1>2. Half \in Nat /\ d * Half \in Nat
  BY SystemTimerAssumption DEF SystemTimerAssumption
<1>3. k * Half = h * Half + Half + d * Half
  BY <1>1, <1>2
<1>4. h * Half \in Nat
  BY <1>2
<1>5. QED
  BY <1>2, <1>3, <1>4

LEMMA UpperGrows ==
  ASSUME NEW c \in Nat, NEW e \in Nat, c \leq e
  PROVE  upper(c) \leq upper(e)
<1> SUFFICES ASSUME upper(e) < upper(c) PROVE FALSE
  BY Halves
<1>1. upper(e) * Half + Half \leq upper(c) * Half
  BY Halves, Scale
<1> DEFINE x == upper(e) * Half
           y == upper(c) * Half
<1>2. Half \in Nat
  BY SystemTimerAssumption DEF SystemTimerAssumption
<1>3. x \in Nat /\ y \in Nat
  <2>1. upper(e) \in Nat /\ upper(c) \in Nat
    BY Halves
  <2> HIDE DEF upper
  <2> QED
    BY <1>2, <2>1
<1>4. e = x + lower(e) /\ c = y + lower(c) /\ x + Half \leq y
  BY Halves, <1>1
<1>5. lower(e) \in 0 .. Half - 1 /\ lower(c) \in 0 .. Half - 1
  BY Halves
<1> HIDE DEF x, y
<1>6. QED
  BY <1>2, <1>3, <1>4, <1>5

(* What the locals hold between two reads.  Up to the recheck lo may be of *)
(* a later hi, but only if the recheck will see it; after it hi * Half is  *)
(* past start, or the two locals are of one moment.                        *)
Word == hi * Half + lo

TimerInv ==
    /\ TimerTypeOK
    /\ start \leq count
    /\ read \in {"lo", "recheck"} => upper(start) \leq hi /\ hi \leq upper(count)
    /\ (read = "recheck" /\ hi = upper(count))
          => start \leq Word /\ Word \leq count
    /\ read = "hi2" => upper(start) < upper(count)
    /\ read = "lo2" => upper(start) < hi /\ hi \leq upper(count)
    /\ read = "return" => start \leq Word /\ Word \leq count
    /\ read # "idle" => time \leq start
    /\ time \leq count

THEOREM TimerInvariant == TimerSpec => []TimerInv
<1>1. TimerInit => TimerInv
  BY SystemTimerAssumption DEF SystemTimerAssumption, TimerInit, TimerInv, TimerTypeOK
<1>2. TimerInv /\ [TimerNext]_timerVars => TimerInv'
  <2> SUFFICES ASSUME TimerInv, [TimerNext]_timerVars PROVE TimerInv'
    OBVIOUS
  <2> USE DEF TimerInv, TimerTypeOK
  <2>0. Half \in Nat \ {0} /\ count \in Nat /\ count' \in Nat /\ start \in Nat
    BY SystemTimerAssumption DEF SystemTimerAssumption, TimerNext, Tick,
       CallGetSystemTimer, ReadHi, ReadLo, Recheck, ReadHiAgain, ReadLoAgain,
       ReturnTime, timerVars
  <2>1. CASE Tick
    <3>1. count \leq count' /\ upper(count) \leq upper(count')
      BY <2>0, <2>1, UpperGrows DEF Tick
    <3>2. upper(count) \in Nat /\ upper(count') \in Nat /\ upper(start) \in Nat
      BY <2>0, Halves
    <3>3. (read = "recheck" /\ hi = upper(count')) => hi = upper(count)
      BY <3>1, <3>2
    <3>4. Word \in Int /\ Word' = Word
      BY <2>0, <2>1 DEF Tick, Word
    <3> HIDE DEF Word
    <3> QED
      BY <2>0, <2>1, <3>1, <3>2, <3>3, <3>4 DEF Tick
  <2>2. CASE CallGetSystemTimer
    BY <2>0, <2>2 DEF CallGetSystemTimer
  <2>3. CASE ReadHi
    <3>1. upper(start) \leq upper(count) /\ upper(count) \in Nat
      BY <2>0, UpperGrows, Halves
    <3> QED
      BY <2>0, <2>3, <3>1 DEF ReadHi
  <2>4. CASE ReadLo
    <3>1. lower(count) \in 0 .. Half - 1
      BY <2>0, Halves
    <3>2. hi = upper(count) => Word' = count
      BY <2>0, <2>4, Halves DEF ReadLo, Word
    <3> HIDE DEF Word
    <3> QED
      BY <2>0, <2>4, <3>1, <3>2 DEF ReadLo
  <2>5. CASE Recheck
    <3>1. upper(count) \in Nat /\ upper(start) \in Nat
      BY <2>0, Halves
    <3>2. Word' = Word
      BY <2>5 DEF Recheck, Word
    <3> HIDE DEF Word
    <3> QED
      BY <2>0, <2>5, <3>1, <3>2 DEF Recheck
  <2>6. CASE ReadHiAgain
    <3>1. upper(count) \in Nat
      BY <2>0, Halves
    <3> QED
      BY <2>0, <2>6, <3>1 DEF ReadHiAgain
  <2>7. CASE ReadLoAgain
    <3> DEFINE h == hi * Half
               u == upper(count) * Half
               s == upper(start) * Half
    <3>1. /\ upper(start) \in Nat /\ upper(count) \in Nat
          /\ lower(start) \in 0 .. Half - 1 /\ lower(count) \in 0 .. Half - 1
          /\ start = s + lower(start) /\ count = u + lower(count)
      BY <2>0, Halves
    <3>2. hi \in Nat /\ upper(start) < hi /\ hi \leq upper(count)
      BY <2>7 DEF ReadLoAgain
    <3>3. s + Half \leq h
      BY <3>1, <3>2, Scale
    <3>4. h \leq u
      <4>1. CASE hi = upper(count)
        BY <2>0, <3>1, <4>1
      <4>2. CASE hi < upper(count)
        <5>1. h + Half \leq u
          BY <3>1, <3>2, <4>2, Scale
        <5>2. h \in Nat /\ u \in Nat
          BY <2>0, <3>1, <3>2
        <5> HIDE DEF h, u
        <5> QED
          BY <2>0, <5>1, <5>2
      <4> QED
        BY <3>1, <3>2, <4>1, <4>2
    <3>5. h \in Nat /\ u \in Nat /\ s \in Nat
      BY <2>0, <3>1, <3>2
    <3>6. Word' = h + lower(count)
      BY <2>7 DEF ReadLoAgain, Word
    <3> HIDE DEF Word, h, u, s
    <3>7. start \leq Word' /\ Word' \leq count
      BY <2>0, <3>1, <3>3, <3>4, <3>5, <3>6
    <3> QED
      BY <2>0, <2>7, <3>1, <3>7 DEF ReadLoAgain
  <2>8. CASE ReturnTime
    <3>1. time' = Word /\ start \leq Word /\ Word \leq count /\ Word \in Nat
      BY <2>0, <2>8 DEF ReturnTime, Word
    <3> HIDE DEF Word
    <3> QED
      BY <2>0, <2>8, <3>1 DEF ReturnTime
  <2>9. CASE UNCHANGED timerVars
    BY <2>9 DEF timerVars, Word
  <2>10. QED
    BY <2>1, <2>2, <2>3, <2>4, <2>5, <2>6, <2>7, <2>8, <2>9 DEF TimerNext
<1>3. QED
  BY <1>1, <1>2, PTL DEF TimerSpec

(* The counter, the locals and what was returned stay in their ranges.     *)
THEOREM TimerTypeCorrect == TimerSpec => []TimerTypeOK
<1>1. TimerInv => TimerTypeOK
  BY DEF TimerInv
<1>2. QED
  BY <1>1, TimerInvariant, PTL

(* get_system_timer returns a value the counter had while it was called,   *)
(* however long the call takes and however often the upper half moves      *)
(* (timer.cpp:4-15).                                                       *)
THEOREM ReadsAreNotTorn == TimerSpec => NotTorn
<1>1. TimerInv /\ [TimerNext]_timerVars => [read = "return" /\ read' = "idle" =>
                                /\ start \leq time'
                                /\ time' \leq count]_timerVars
  <2> SUFFICES ASSUME TimerInv, TimerNext, read = "return", read' = "idle"
               PROVE  start \leq time' /\ time' \leq count
    OBVIOUS
  <2>1. ReturnTime
    BY DEF TimerNext, Tick, CallGetSystemTimer, ReadHi, ReadLo, Recheck,
           ReadHiAgain, ReadLoAgain
  <2>2. QED
    BY <2>1 DEF ReturnTime, TimerInv, Word
<1>2. QED
  BY <1>1, TimerInvariant, PTL DEF TimerSpec, NotTorn

(* Two calls in a row never see time run backwards.                        *)
THEOREM TimeIsMonotonic == TimerSpec => Monotonic
<1>1. TimerInv /\ [TimerNext]_timerVars => [time \leq time']_timerVars
  <2> SUFFICES ASSUME TimerInv, TimerNext PROVE time \leq time'
    OBVIOUS
  <2>1. CASE ReturnTime
    <3>1. time' = Word /\ start \leq Word /\ time \leq start
      BY <2>1 DEF ReturnTime, TimerInv, Word
    <3>2. start \in Nat /\ time \in Nat /\ Word \in Int
      BY SystemTimerAssumption DEF SystemTimerAssumption, TimerInv, TimerTypeOK, Word
    <3> HIDE DEF Word
    <3> QED
      BY <3>1, <3>2
  <2>2. CASE ~ReturnTime
    BY <2>2 DEF TimerInv, TimerTypeOK, TimerNext, Tick, CallGetSystemTimer, ReadHi, ReadLo,
                Recheck, ReadHiAgain, ReadLoAgain
  <2>3. QED
    BY <2>1, <2>2
<1>2. QED
  BY <1>1, TimerInvariant, PTL DEF TimerSpec, Monotonic
=============================================================================
