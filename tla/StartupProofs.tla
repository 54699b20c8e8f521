--------------------------- MODULE StartupProofs ---------------------------
(***************************************************************************)
(* Proofs about Startup, for any number of cores, memories of any size and *)
(* whatever the firmware left.  The recursive functions of Format are      *)
(* shown to exist, and to return texts, by induction over a set of numbers;*)
(* the meaning of a program is the text it still has to say.               *)
(***************************************************************************)
EXTENDS Startup, SequenceTheorems, WellFoundedInduction, TLAPS

LEMMA Least ==
  ASSUME NEW T \in SUBSET Nat, T # {}
  PROVE  \E x \in T : \A y \in T : x \leq y
<1>1. PICK x \in T : \A y \in T : <<y, x>> \notin OpToRel(<, Nat)
  BY NatLessThanWellFounded, WFMin
<1>2. ASSUME NEW y \in T PROVE x \leq y
  <2>1. <<y, x>> \notin OpToRel(<, Nat)
    BY <1>1, <1>2
  <2>2. ~(y < x)
    BY <2>1 DEF OpToRel
  <2>3. QED
    BY <2>2
<1>3. QED
  BY <1>2

(* Induction, over a set of numbers and not over an operator.              *)
LEMMA Induction ==
  ASSUME NEW T \in SUBSET Nat, 0 \in T, \A n \in T : n + 1 \in T
  PROVE  Nat \subseteq T
<1> SUFFICES ASSUME Nat \ T # {} PROVE FALSE
  OBVIOUS
<1>1. PICK x \in Nat \ T : \A y \in Nat \ T : x \leq y
  BY Least
<1>2. x # 0 /\ x - 1 \in Nat /\ x - 1 \in T
  BY <1>1
<1>3. (x - 1) + 1 \in T
  BY <1>2
<1>4. QED
  BY <1>1, <1>3

-----------------------------------------------------------------------------
(* The digits of a number.                                                 *)
Bases == {2, 8, 10, 16}

(* The symbols a text is made of.                                          *)
Numerals == {"0", "1", "2", "3", "4", "5", "6", "7",
             "8", "9", "a", "b", "c", "d", "e", "f", "-"}
Marks    == {"{", "}", ":", "x", " ", "\n", "\r"}
Words    == {"Hello, world!", "EMMC: GPIO set up", "Failed to initialize SD card",
             "SD card size: ", "MB", "Exception: ", "Synchronous",
             "message", "Exception class: ", "class", ", Fault cause: ", "cause", "level",
             "ESR_EL1: ", "ELR_EL1: ", "SPSR_EL1: ", "FAR_EL1: "}
Symbol   == Numerals \cup Marks \cup Words
Text     == Seq(Symbol)

(* What the FIFO may hold: also what the firmware left there.              *)
Sent     == Symbol \cup {"firmware"}

LEMMA Quotient ==
  ASSUME NEW base \in Bases, NEW x \in Nat
  PROVE  /\ x \div base \in Nat /\ x % base \in 0 .. base - 1
         /\ base * (x \div base) \leq x
         /\ x \geq base => x \div base < x
<1>1. CASE base = 2
  BY <1>1
<1>2. CASE base = 8
  BY <1>2
<1>3. CASE base = 10
  BY <1>3
<1>4. CASE base = 16
  BY <1>4
<1>5. QED
  BY <1>1, <1>2, <1>3, <1>4 DEF Bases

LEMMA DigitIsSymbol == \A k \in 1 .. 16 : Digit[k] \in Symbol
<1> SUFFICES ASSUME NEW k \in 1 .. 16 PROVE Digit[k] \in Symbol
  OBVIOUS
<1>1. k \in {1, 2, 3, 4, 5, 6, 7, 8, 9, 10, 11, 12, 13, 14, 15, 16}
  OBVIOUS
<1>2. CASE k \in {1, 2, 3, 4, 5, 6, 7, 8}
  BY <1>2 DEF Digit, Symbol, Numerals
<1>3. CASE k \in {9, 10, 11, 12, 13, 14, 15, 16}
  BY <1>3 DEF Digit, Symbol, Numerals
<1>4. QED
  BY <1>1, <1>2, <1>3

(* One step of the loop, with what it finds at the quotient.               *)
LEMMA OneDigit ==
  ASSUME NEW base \in Bases, NEW x \in Nat, NEW t \in Text
  PROVE  /\ x < base => <<Digit[x + 1]>> \in Text
         /\ Append(t, Digit[(x % base) + 1]) \in Text
         /\ Len(Append(t, Digit[(x % base) + 1])) = Len(t) + 1
<1>1. (x % base) + 1 \in 1 .. 16
  BY Quotient DEF Bases
<1>2. Digit[(x % base) + 1] \in Symbol
  BY <1>1, DigitIsSymbol
<1>3. x < base => x + 1 \in 1 .. 16
  BY DEF Bases
<1>4. x < base => Digit[x + 1] \in Symbol
  BY <1>3, DigitIsSymbol
<1> DEFINE d == Digit[(x % base) + 1]
<1> HIDE DEF d
<1>5. Append(t, d) \in Text /\ Len(Append(t, d)) = Len(t) + 1
  BY <1>2 DEF Text, d
<1>6. QED
  BY <1>4, <1>5 DEF Text, d

LEMMA DigitsExist ==
  ASSUME NEW base \in Bases, NEW v \in Nat
  PROVE  \E g : g = [x \in 0 .. v |->
                      IF x < base THEN <<Digit[x + 1]>>
                      ELSE Append(g[x \div base], Digit[(x % base) + 1])]
<1> DEFINE Next1(g, x) == IF x < base THEN <<Digit[x + 1]>>
                          ELSE Append(g[x \div base], Digit[(x % base) + 1])
           T == {n \in Nat : \E g : g = [x \in 0 .. n |-> Next1(g, x)]}
<1>1. 0 \in T
  <2> DEFINE g == [x \in 0 .. 0 |-> <<Digit[x + 1]>>]
  <2>1. g = [x \in 0 .. 0 |-> Next1(g, x)]
    BY DEF Bases
  <2> QED
    BY <2>1
<1>2. ASSUME NEW n \in T PROVE n + 1 \in T
  <2>1. PICK g : g = [x \in 0 .. n |-> Next1(g, x)]
    OBVIOUS
  <2> DEFINE h == [x \in 0 .. n + 1 |-> IF x = n + 1 THEN Next1(g, x) ELSE g[x]]
  <2>2. ASSUME NEW x \in 0 .. n + 1 PROVE h[x] = Next1(h, x)
    <3>1. x \geq base => x \div base \in 0 .. n
      BY Quotient
    <3>2. x \geq base => h[x \div base] = g[x \div base]
      BY <3>1
    <3>3. Next1(h, x) = Next1(g, x)
      <4> HIDE DEF h
      <4> QED BY <3>2 DEF Bases
    <3>4. x # n + 1 => g[x] = Next1(g, x)
      <4>1. x # n + 1 => x \in 0 .. n
        OBVIOUS
      <4> HIDE DEF Next1
      <4> QED BY <2>1, <4>1
    <3> HIDE DEF Next1
    <3> QED BY <3>3, <3>4
  <2>3. h = [x \in 0 .. n + 1 |-> h[x]]
    OBVIOUS
  <2>4. h = [x \in 0 .. n + 1 |-> Next1(h, x)]
    <3> HIDE DEF Next1, h
    <3> QED BY <2>2, <2>3
  <2>5. \E f : f = [x \in 0 .. n + 1 |-> Next1(f, x)]
    <3> HIDE DEF Next1, h
    <3> QED BY <2>4, Zenon
  <2>6. n + 1 \in Nat
    OBVIOUS
  <2> QED
    <3> HIDE DEF Next1
    <3> QED BY <2>5, <2>6, Zenon
<1>3. v \in T
  <2> HIDE DEF T
  <2> QED BY <1>1, <1>2, Induction DEF T
<1>4. QED
  BY <1>3

(* The powers of a number exist.                                           *)
LEMMA PowerExists ==
  ASSUME NEW base, NEW m \in Nat
  PROVE  \E g : g = [n \in 0 .. m |-> IF n = 0 THEN 1 ELSE base * g[n - 1]]
<1> DEFINE Step(g, n) == IF n = 0 THEN 1 ELSE base * g[n - 1]
           T == {k \in Nat : \E g : g = [n \in 0 .. k |-> Step(g, n)]}
<1>1. 0 \in T
  <2> DEFINE g == [n \in 0 .. 0 |-> 1]
  <2>1. g = [n \in 0 .. 0 |-> Step(g, n)]
    OBVIOUS
  <2> QED
    BY <2>1
<1>2. ASSUME NEW k \in T PROVE k + 1 \in T
  <2>1. PICK g : g = [n \in 0 .. k |-> Step(g, n)]
    OBVIOUS
  <2> DEFINE h == [n \in 0 .. k + 1 |-> IF n = k + 1 THEN base * g[k] ELSE g[n]]
  <2>2. ASSUME NEW n \in 0 .. k + 1 PROVE h[n] = Step(h, n)
    BY <2>1
  <2>3. h = [n \in 0 .. k + 1 |-> h[n]]
    OBVIOUS
  <2>4. h = [n \in 0 .. k + 1 |-> Step(h, n)]
    <3> HIDE DEF Step, h
    <3> QED BY <2>2, <2>3
  <2>5. \E f : f = [n \in 0 .. k + 1 |-> Step(f, n)]
    <3> HIDE DEF Step, h
    <3> QED BY <2>4, Zenon
  <2>6. k + 1 \in Nat
    OBVIOUS
  <2> QED
    <3> HIDE DEF Step
    <3> QED BY <2>5, <2>6, Zenon
<1>3. m \in T
  <2> HIDE DEF T
  <2> QED BY <1>1, <1>2, Induction DEF T
<1>4. QED
  BY <1>3

LEMMA PowerIs ==
  \A n \in 0 .. 2 * HalfDigits :
     power[n] = IF n = 0 THEN 1 ELSE 16 * power[n - 1]
<1>1. 2 * HalfDigits \in Nat
  BY StartupAssumption DEF StartupAssumption
<1>2. \E g : g = [n \in 0 .. 2 * HalfDigits |->
                    IF n = 0 THEN 1 ELSE 16 * g[n - 1]]
  BY <1>1, PowerExists
<1>3. power = [n \in 0 .. 2 * HalfDigits |->
                 IF n = 0 THEN 1 ELSE 16 * power[n - 1]]
  BY <1>2, Zenon DEF power
<1>4. QED
  BY <1>3

LEMMA PowerIsNat == \A n \in 0 .. 2 * HalfDigits : power[n] \in Nat
<1> DEFINE T == {k \in Nat : k \leq 2 * HalfDigits => power[k] \in Nat}
<1>1. 0 \in T
  BY PowerIs, StartupAssumption DEF StartupAssumption
<1>2. ASSUME NEW k \in T PROVE k + 1 \in T
  <2>1. HalfDigits \in Nat
    BY StartupAssumption DEF StartupAssumption
  <2> SUFFICES ASSUME k + 1 \leq 2 * HalfDigits PROVE power[k + 1] \in Nat
    OBVIOUS
  <2>2. power[k] \in Nat /\ power[k + 1] = 16 * power[(k + 1) - 1] /\ (k + 1) - 1 = k
    BY <2>1, PowerIs
  <2> QED
    BY <2>2
<1>3. Nat \subseteq T
  <2> HIDE DEF T
  <2> QED BY <1>1, <1>2, Induction DEF T
<1>4. QED
  BY <1>3, StartupAssumption DEF StartupAssumption

(* What the loop returns: a text, and no more than n digits for a number   *)
(* below 16^n.                                                             *)
LEMMA DigitsAre ==
  ASSUME NEW base \in Bases, NEW v \in Nat
  PROVE  \E g \in [0 .. v -> Text] :
            /\ digits(v, base) = g[v]
            /\ \A x \in 0 .. v :
                 g[x] = IF x < base THEN <<Digit[x + 1]>>
                        ELSE Append(g[x \div base], Digit[(x % base) + 1])
<1> DEFINE Next1(g, x) == IF x < base THEN <<Digit[x + 1]>>
                          ELSE Append(g[x \div base], Digit[(x % base) + 1])
           d == CHOOSE g : g = [x \in 0 .. v |-> Next1(g, x)]
<1>1. digits(v, base) = d[v]
  BY DEF digits
<1>2. d = [x \in 0 .. v |-> Next1(d, x)]
  BY DigitsExist, Zenon
<1> HIDE DEF d
<1>3. ASSUME NEW x \in 0 .. v PROVE d[x] = Next1(d, x)
  BY <1>2
<1> DEFINE T == {n \in Nat : \A x \in 0 .. v : x \leq n => d[x] \in Text}
<1>4. 0 \in T
  <2>0. 0 \in 0 .. v /\ 0 < base
    BY DEF Bases
  <2>1. d[0] = <<Digit[0 + 1]>>
    BY <1>3, <2>0
  <2>2. \A x \in 0 .. v : x \leq 0 => x = 0
    OBVIOUS
  <2>3. <<Digit[0 + 1]>> \in Text
    BY DigitIsSymbol DEF Text
  <2> QED
    BY <2>1, <2>2, <2>3
<1>5. ASSUME NEW n \in T PROVE n + 1 \in T
  <2> SUFFICES ASSUME NEW x \in 0 .. v, x = n + 1 PROVE d[x] \in Text
    OBVIOUS
  <2>1. x \in Nat /\ x \in 0 .. v
    OBVIOUS
  <2>2. x \geq base => x \div base \in 0 .. v /\ x \div base \leq n
    BY <2>1, Quotient
  <2>3. x \geq base => d[x \div base] \in Text
    BY <2>2
  <2>4. d[x] = Next1(d, x)
    BY <2>1, <1>3
  <2>5. CASE x < base
    <3>1. d[x] = <<Digit[x + 1]>>
      BY <2>4, <2>5
    <3>2. << >> \in Text
      BY DEF Text
    <3>3. <<Digit[x + 1]>> \in Text
      BY <2>1, <2>5, <3>2, OneDigit
    <3> QED
      BY <3>1, <3>3
  <2>6. CASE ~(x < base)
    <3>1. d[x] = Append(d[x \div base], Digit[(x % base) + 1])
      BY <2>4, <2>6
    <3>2. d[x \div base] \in Text
      BY <2>1, <2>3, <2>6 DEF Bases
    <3> QED
      BY <2>1, <3>1, <3>2, OneDigit
  <2> QED
    BY <2>5, <2>6
<1>6. Nat \subseteq T
  <2> HIDE DEF T
  <2> QED BY <1>4, <1>5, Induction DEF T
<1>7. \A x \in 0 .. v : d[x] \in Text
  BY <1>6
<1>8. d \in [0 .. v -> Text]
  <2> HIDE DEF Next1, T
  <2> QED BY <1>2, <1>7
<1>9. QED
  BY <1>1, <1>3, <1>8

LEMMA DigitsAreText ==
  ASSUME NEW base \in Bases, NEW v \in Nat
  PROVE  digits(v, base) \in Text
BY DigitsAre

LEMMA DigitsAreFew ==
  ASSUME NEW v \in Nat, v # 0, NEW k \in 0 .. 2 * HalfDigits,
         k < Len(digits(v, 16))
  PROVE  power[k] \leq v
<1>1. PICK g \in [0 .. v -> Text] :
            /\ digits(v, 16) = g[v]
            /\ \A x \in 0 .. v :
                 g[x] = IF x < 16 THEN <<Digit[x + 1]>>
                        ELSE Append(g[x \div 16], Digit[(x % 16) + 1])
  BY DigitsAre DEF Bases
<1> DEFINE T == {n \in Nat : \A x \in 1 .. v, j \in 0 .. 2 * HalfDigits :
                    x \leq n /\ j < Len(g[x]) => power[j] \leq x}
<1>2. HalfDigits \in Nat
  BY StartupAssumption DEF StartupAssumption
<1>3. 0 \in T
  OBVIOUS
<1>4. ASSUME NEW n \in T PROVE n + 1 \in T
  <2> SUFFICES ASSUME NEW x \in 1 .. v, x = n + 1, NEW j \in 0 .. 2 * HalfDigits,
                      j < Len(g[x])
               PROVE  power[j] \leq x
    OBVIOUS
  <2>1. CASE j = 0
    BY <2>1, PowerIs
  <2>2. CASE j # 0
    <3>1. x \geq 16
      <4> SUFFICES ASSUME x < 16 PROVE FALSE
        OBVIOUS
      <4>1. g[x] = <<Digit[x + 1]>>
        BY <1>1
      <4>2. Len(g[x]) = 1
        BY <4>1
      <4> QED
        BY <4>2, <2>2
    <3> DEFINE q == x \div 16
    <3>2. q \in 1 .. v /\ q \leq n /\ 16 * q \leq x
      BY <3>1
    <3>3. g[x] = Append(g[q], Digit[(x % 16) + 1])
      BY <1>1, <3>1
    <3>4. g[q] \in Text
      BY <3>2, <1>1
    <3>5. 16 \in Bases /\ x \in Nat
      BY DEF Bases
    <3> HIDE DEF q
    <3>6. Len(g[x]) = Len(g[q]) + 1
      BY <3>3, <3>4, <3>5, OneDigit
    <3>7. Len(g[q]) \in Nat
      BY <3>4, LenProperties DEF Text
    <3>8. j - 1 \in 0 .. 2 * HalfDigits /\ j - 1 < Len(g[q])
      BY <3>6, <3>7, <2>2, <1>2
    <3>9. power[j - 1] \leq q
      BY <3>2, <3>8
    <3>10. power[j] = 16 * power[j - 1] /\ power[j - 1] \in Nat
      BY <2>2, <3>8, PowerIs, PowerIsNat
    <3> QED
      BY <3>2, <3>9, <3>10
  <2> QED
    BY <2>1, <2>2
<1>5. Nat \subseteq T
  <2> HIDE DEF T
  <2> QED BY <1>3, <1>4, Induction DEF T
<1>6. v \in T /\ v \in 1 .. v
  BY <1>5
<1>7. QED
  BY <1>1, <1>6

-----------------------------------------------------------------------------
(* A number as text.                                                       *)
LEMMA Padding ==
  ASSUME NEW k \in Int
  PROVE  Max({0, k}) = IF k > 0 THEN k ELSE 0
<1> DEFINE m == IF k > 0 THEN k ELSE 0
<1>1. m \in {0, k} /\ \A y \in {0, k} : m \geq y
  OBVIOUS
<1>2. \A x \in {0, k} : (\A y \in {0, k} : x \geq y) => x = m
  OBVIOUS
<1> HIDE DEF m
<1>3. Max({0, k}) = m
  BY <1>1, <1>2, Zenon DEF Max
<1>4. QED
  BY <1>3 DEF m

LEMMA ItosIsText ==
  ASSUME NEW value \in 0 .. Word - 1, NEW base \in Bases, NEW width \in Nat
  PROVE  /\ itos(value, base, width) \in Text
         /\ base # 10 => Len(itos(value, base, width)) =
              IF width % 256 > Len(digits(value, base)) THEN width % 256
              ELSE Len(digits(value, base))
<1> DEFINE negative == base = 10 /\ value \geq Word \div 2
           txt      == digits(IF negative THEN Word - value ELSE value, base)
           byte     == width % 256
           n        == Max({0, byte - Len(txt)})
           zeros    == [k \in 1 .. n |-> "0"]
           sign     == IF negative THEN <<"-">> ELSE << >>
<1>1. itos(value, base, width) = sign \o zeros \o txt
  BY DEF itos
<1>2. (IF negative THEN Word - value ELSE value) \in Nat
  BY FormatAssumption DEF FormatAssumption
<1>3. txt \in Text
  <2> HIDE DEF negative
  <2> QED BY <1>2, DigitsAreText
<1>4. Len(txt) \in Nat
  BY <1>3, LenProperties DEF Text
<1>12. byte \in 0 .. 255
  OBVIOUS
<1>5. n = IF byte - Len(txt) > 0 THEN byte - Len(txt) ELSE 0
  <2> HIDE DEF txt, byte
  <2> QED BY <1>4, <1>12, Padding
<1>6. n \in Nat
  <2> HIDE DEF txt, byte
  <2> QED BY <1>4, <1>5, <1>12
<1>7. zeros \in Text /\ Len(zeros) = n
  <2> HIDE DEF n
  <2>1. "0" \in Symbol
    BY DEF Symbol, Numerals
  <2>2. zeros \in [1 .. n -> Symbol]
    BY <2>1
  <2> HIDE DEF zeros
  <2> QED BY <2>2, <1>6 DEF Text
<1>8. sign \in Text
  <2>1. "-" \in Symbol
    BY DEF Symbol, Numerals
  <2> HIDE DEF negative
  <2> QED BY <2>1 DEF Text
<1>9. base # 10 => Len(sign) = 0 /\ txt = digits(value, base)
  OBVIOUS
<1> HIDE DEF sign, zeros, txt, n, byte
<1>10. /\ sign \o zeros \in Text /\ (sign \o zeros) \o txt \in Text
       /\ Len((sign \o zeros) \o txt) = (Len(sign) + Len(zeros)) + Len(txt)
  BY <1>3, <1>7, <1>8 DEF Text
<1>13. QED
  BY <1>1, <1>4, <1>5, <1>7, <1>9, <1>10, <1>12 DEF byte

(* What the kernel asks for fits the byte.                                 *)
LEMMA WidthIs == HalfDigits \in Nat \ {0} /\ HalfDigits % 256 = HalfDigits
BY StartupAssumption DEF StartupAssumption

IsDigit(c) == \E k \in 1 .. 16 : c \in {Digit[k], Capital[k]}
ValueOf(c) == (CHOOSE k \in 1 .. 16 : c \in {Digit[k], Capital[k]}) - 1

LEMMA StouIs ==
  ASSUME NEW view \in Text
  PROVE  \E n \in 0 .. Len(view) : \E w :
            /\ stou(view, 10) = w[n]
            /\ (\A k \in DOMAIN view : IsDigit(view[k])) => n = Len(view)
            /\ \A k \in 1 .. n : ValueOf(view[k]) \in 0 .. 15
            /\ \A k \in 0 .. n :
                 w[k] = IF k = 0 THEN 0 ELSE w[k - 1] * 10 + ValueOf(view[k])
<1> DEFINE isDigit(c) == \E k \in 1 .. 16 : c \in {Digit[k], Capital[k]}
           number(c)  == (CHOOSE k \in 1 .. 16 : c \in {Digit[k], Capital[k]}) - 1
           end == {k \in DOMAIN view : ~isDigit(view[k])}
           n == IF end = {} THEN Len(view) ELSE Min(end) - 1
           Step(g, k) == IF k = 0 THEN 0 ELSE g[k - 1] * 10 + number(view[k])
           w == CHOOSE g : g = [k \in 0 .. n |-> Step(g, k)]
<1>1. stou(view, 10) = w[n]
  BY DEF stou
<1>2. Len(view) \in Nat /\ DOMAIN view = 1 .. Len(view)
  BY LenProperties DEF Text
<1>3. /\ n \in 0 .. Len(view)
      /\ \A k \in 1 .. n : isDigit(view[k])
  <2>1. CASE end = {}
    BY <1>2, <2>1
  <2>2. CASE end # {}
    <3>1. end \in SUBSET Nat /\ end \subseteq 1 .. Len(view)
      <4> HIDE DEF isDigit
      <4> QED BY <1>2
    <3>2. PICK m \in end : \A y \in end : m \leq y
      <4> HIDE DEF end
      <4> QED BY <3>1, <2>2, Least
    <3>3. Min(end) \in end /\ \A y \in end : Min(end) \leq y
      <4> HIDE DEF end
      <4> QED BY <3>2, Zenon DEF Min
    <3> DEFINE first == Min(end)
    <3>4. n = first - 1 /\ n \in 0 .. Len(view)
      <4>1. n = first - 1
        BY <2>2
      <4>2. first \in 1 .. Len(view)
        <5> HIDE DEF end
        <5> QED BY <3>1, <3>3
      <4> HIDE DEF end, n, first
      <4> QED BY <4>1, <4>2, <1>2
    <3>5. \A k \in 1 .. n : k \notin end
      <4>1. first \in 1 .. Len(view) /\ \A y \in end : first \leq y
        <5> HIDE DEF end
        <5> QED BY <3>1, <3>3
      <4> HIDE DEF end, n, first
      <4> QED BY <3>4, <4>1, <1>2
    <3>6. \A k \in 1 .. n : k \in DOMAIN view
      <4> HIDE DEF end, n
      <4> QED BY <3>4, <1>2
    <3> QED
      <4> HIDE DEF isDigit, n
      <4> QED BY <3>4, <3>5, <3>6
  <2> QED
    BY <2>1, <2>2
<1>4. \A k \in 1 .. n : number(view[k]) \in 0 .. 15
  <2> HIDE DEF n
  <2> SUFFICES ASSUME NEW k \in 1 .. n PROVE number(view[k]) \in 0 .. 15
    OBVIOUS
  <2>1. isDigit(view[k])
    BY <1>3
  <2>2. (CHOOSE j \in 1 .. 16 : view[k] \in {Digit[j], Capital[j]}) \in 1 .. 16
    BY <2>1, Zenon
  <2> QED
    BY <2>2
<1>14. (\A k \in DOMAIN view : IsDigit(view[k])) => n = Len(view)
  <2>1. (\A k \in DOMAIN view : IsDigit(view[k])) => end = {}
    BY DEF IsDigit
  <2> HIDE DEF end
  <2> QED
    BY <2>1
<1>15. \A k : number(view[k]) = ValueOf(view[k])
  BY DEF ValueOf
<1> HIDE DEF n, number, end
<1> DEFINE E == {m \in Nat : m \leq n => \E g : g = [k \in 0 .. m |-> Step(g, k)]}
<1>5. 0 \in E
  <2> DEFINE g == [k \in 0 .. 0 |-> 0]
  <2>1. g = [k \in 0 .. 0 |-> Step(g, k)]
    OBVIOUS
  <2> QED
    BY <2>1
<1>6. ASSUME NEW m \in E PROVE m + 1 \in E
  <2> SUFFICES ASSUME m + 1 \leq n
               PROVE  \E g : g = [k \in 0 .. m + 1 |-> Step(g, k)]
    OBVIOUS
  <2>0. m \in Nat /\ m \leq n
    <3>1. m \in Nat /\ n \in Int
      BY <1>2, <1>3
    <3> QED
      BY <3>1
  <2>1. PICK g : g = [k \in 0 .. m |-> Step(g, k)]
    <3> HIDE DEF Step, isDigit
    <3> QED
      BY <2>0
  <2> DEFINE h == [k \in 0 .. m + 1 |-> IF k = m + 1 THEN Step(g, k) ELSE g[k]]
  <2>2. ASSUME NEW k \in 0 .. m + 1 PROVE h[k] = Step(h, k)
    <3>1. k # 0 => k - 1 \in 0 .. m /\ k - 1 # m + 1
      OBVIOUS
    <3>2. k # 0 => h[k - 1] = g[k - 1]
      BY <3>1
    <3>3. Step(h, k) = Step(g, k)
      <4> HIDE DEF h
      <4> QED BY <3>2
    <3>4. k # m + 1 => g[k] = Step(g, k)
      <4>1. k # m + 1 => k \in 0 .. m
        OBVIOUS
      <4> HIDE DEF Step
      <4> QED BY <2>1, <4>1
    <3> HIDE DEF Step
    <3> QED BY <3>3, <3>4
  <2>3. h = [k \in 0 .. m + 1 |-> h[k]]
    OBVIOUS
  <2>4. h = [k \in 0 .. m + 1 |-> Step(h, k)]
    <3> HIDE DEF Step, h
    <3> QED BY <2>2, <2>3
  <2> QED
    <3> HIDE DEF Step, h
    <3> QED BY <2>4, Zenon
<1>7. \E g : g = [k \in 0 .. n |-> Step(g, k)]
  <2>1. Nat \subseteq E
    <3> HIDE DEF E
    <3> QED BY <1>5, <1>6, Induction DEF E
  <2>2. n \in Nat
    BY <1>2, <1>3
  <2> HIDE DEF Step
  <2> QED
    BY <2>1, <2>2
<1>8. w = [k \in 0 .. n |-> Step(w, k)]
  <2> HIDE DEF Step
  <2> QED BY <1>7, Zenon
<1> HIDE DEF w
<1>9. \A k \in 0 .. n : w[k] = Step(w, k)
  <2> HIDE DEF Step
  <2> QED BY <1>8
<1>16. \A k \in 0 .. n : w[k] = IF k = 0 THEN 0 ELSE w[k - 1] * 10 + ValueOf(view[k])
  BY <1>9, <1>15
<1>17. \A k \in 1 .. n : ValueOf(view[k]) \in 0 .. 15
  BY <1>4, <1>15
<1>18. QED
  BY <1>1, <1>3, <1>14, <1>16, <1>17

LEMMA StouIsNat ==
  ASSUME NEW view \in Text
  PROVE  stou(view, 10) \in Nat
<1>1. Len(view) \in Nat
  BY LenProperties DEF Text
<1>7. PICK n \in 0 .. Len(view) : \E w :
         /\ stou(view, 10) = w[n]
         /\ \A k \in 1 .. n : ValueOf(view[k]) \in 0 .. 15
         /\ \A k \in 0 .. n :
              w[k] = IF k = 0 THEN 0 ELSE w[k - 1] * 10 + ValueOf(view[k])
  BY StouIs
<1>2. PICK w :
         /\ stou(view, 10) = w[n]
         /\ \A k \in 1 .. n : ValueOf(view[k]) \in 0 .. 15
         /\ \A k \in 0 .. n :
              w[k] = IF k = 0 THEN 0 ELSE w[k - 1] * 10 + ValueOf(view[k])
  BY <1>7
<1> DEFINE T == {m \in Nat : m \leq n => w[m] \in Nat}
<1>3. 0 \in T
  BY <1>1, <1>2
<1>4. ASSUME NEW m \in T PROVE m + 1 \in T
  <2> SUFFICES ASSUME m + 1 \leq n PROVE w[m + 1] \in Nat
    OBVIOUS
  <2>1. m + 1 \in 0 .. n /\ m + 1 \in 1 .. n /\ (m + 1) - 1 = m /\ m \leq n
    BY <1>1
  <2>2. w[m + 1] = w[m] * 10 + ValueOf(view[m + 1])
    BY <1>2, <2>1
  <2>3. w[m] \in Nat
    BY <2>1
  <2>4. ValueOf(view[m + 1]) \in 0 .. 15
    BY <1>2, <2>1
  <2>5. \A x \in Nat, y \in 0 .. 15 : x * 10 + y \in Nat
    OBVIOUS
  <2> QED
    BY <2>2, <2>3, <2>4, <2>5
<1>5. Nat \subseteq T
  <2> HIDE DEF T
  <2> QED BY <1>3, <1>4, Induction DEF T
<1>6. QED
  BY <1>1, <1>2, <1>5

LEMMA CommonIntegerFormatIsText ==
  ASSUME NEW view \in Text, NEW value \in 0 .. Word - 1
  PROVE  common_integer_format(view, value) \in Text
<1> DEFINE base  == IF view = << >> THEN 10
                    ELSE IF Last(view) = "x" THEN 16
                    ELSE IF Last(view) = "o" THEN 8
                    ELSE IF Last(view) = "b" THEN 2 ELSE 10
           width == IF Len(view) > 1 THEN stou(Front(view), 10) ELSE 0
<1>1. common_integer_format(view, value) = itos(value, base, width)
  BY DEF common_integer_format
<1>2. base \in Bases
  BY DEF Bases
<1>3. Front(view) \in Text
  BY LenProperties, SubSeqProperties DEF Front, Text
<1>4. width \in Nat
  BY <1>3, StouIsNat
<1> HIDE DEF base, width
<1>5. QED
  BY <1>1, <1>2, <1>4, ItosIsText

(* A format closes the braces it opens.                                    *)
Formed(fmt) ==
    \A p \in 1 .. Len(fmt) : fmt[p] = "{" =>
        /\ p + 1 \leq Len(fmt)
        /\ fmt[p + 1] = ":" => \E q \in p .. Len(fmt) : fmt[q] = "}"

LEMMA TextConcat == \A s, t \in Text : s \o t \in Text
BY ConcatProperties DEF Text

LEMMA OneSymbol == \A s \in Symbol : <<s>> \in Text
BY DEF Text

LEMMA Between ==
  ASSUME NEW p \in Nat, NEW m \in Nat, NEW k \in p .. m
  PROVE  /\ \A i \in p .. k - 1 : i \in p .. m /\ ~(k \leq i)
         /\ k # p /\ k # p + 1 => k \in p + 2 .. m
OBVIOUS

(* What format does at a position, with what it does further on.           *)
closing(fmt, p) == CHOOSE q \in p .. Len(fmt) :
                      fmt[q] = "}" /\ \A k \in p .. q - 1 : fmt[k] # "}"

From(fmt, args, g, p, a) ==
    IF p > Len(fmt) THEN << >>
    ELSE IF a > Len(args) \/ fmt[p] # "{"
    THEN <<fmt[p]>> \o g[p + 1][a]
    ELSE IF fmt[p + 1] = ":"
    THEN common_integer_format(SubSeq(fmt, p + 2, closing(fmt, p) - 1), args[a])
           \o g[closing(fmt, p) + 1][a + 1]
    ELSE IF fmt[p + 1] = "{" THEN <<"{">> \o g[p + 1][a]
    ELSE common_integer_format(<< >>, args[a]) \o g[p + 2][a + 1]

LEMMA FormatSteps ==
  ASSUME NEW fmt \in Text, NEW args \in Seq(0 .. Word - 1), Formed(fmt)
  PROVE  \E g : /\ format(fmt, args) = g[1][1]
                /\ \A p \in 1 .. Len(fmt) + 2, a \in 1 .. Len(args) + 1 :
                      g[p][a] \in Text /\ g[p][a] = From(fmt, args, g, p, a)
<1> DEFINE end(p) == CHOOSE q \in p .. Len(fmt) :
                        fmt[q] = "}" /\ \A k \in p .. q - 1 : fmt[k] # "}"
           long(p, a) == common_integer_format(SubSeq(fmt, p + 2, end(p) - 1), args[a])
           short(a) == common_integer_format(<< >>, args[a])
           Step(g, p, a) ==
             IF p > Len(fmt) THEN << >>
             ELSE IF a > Len(args) \/ fmt[p] # "{"
             THEN <<fmt[p]>> \o g[p + 1][a]
             ELSE IF fmt[p + 1] = ":"
             THEN long(p, a) \o g[end(p) + 1][a + 1]
             ELSE IF fmt[p + 1] = "{" THEN <<"{">> \o g[p + 1][a]
             ELSE short(a) \o g[p + 2][a + 1]
           P == 1 .. Len(fmt) + 2
           A == 1 .. Len(args) + 1
           f == CHOOSE g : g = [p \in P |-> [a \in A |-> Step(g, p, a)]]
<1>1. format(fmt, args) = f[1][1]
  BY DEF format
<1>2. /\ Len(fmt) \in Nat /\ \A p \in 1 .. Len(fmt) : fmt[p] \in Symbol
      /\ Len(args) \in Nat /\ \A a \in 1 .. Len(args) : args[a] \in 0 .. Word - 1
  <2>1. fmt \in Seq(Symbol)
    BY DEF Text
  <2>2. /\ Len(fmt) \in Nat /\ fmt \in [1 .. Len(fmt) -> Symbol]
        /\ Len(args) \in Nat /\ args \in [1 .. Len(args) -> 0 .. Word - 1]
    BY <2>1, LenProperties
  <2> QED
    BY <2>2
<1>3. ASSUME NEW p \in 1 .. Len(fmt), fmt[p] = "{", fmt[p + 1] = ":"
      PROVE  end(p) \in p + 2 .. Len(fmt)
  <2> DEFINE Q == {q \in p .. Len(fmt) : fmt[q] = "}"}
  <2>0. Len(fmt) \in Nat /\ p \in Nat
    BY <1>2
  <2>1. Q # {}
    <3>1. \E q \in p .. Len(fmt) : fmt[q] = "}"
      BY <1>3 DEF Formed
    <3> QED
      BY <3>1
  <2>2. Q \in SUBSET Nat
    <3>1. \A m \in Nat : \A k \in p .. m : k \in Nat
      OBVIOUS
    <3> QED
      BY <2>0, <3>1
  <2>3. PICK q \in Q : \A k \in Q : q \leq k
    <3> HIDE DEF Q
    <3> QED BY <2>1, <2>2, Least
  <2>4. q \in p .. Len(fmt) /\ fmt[q] = "}" /\ \A k \in p .. q - 1 : k \in p .. Len(fmt)
    <3>1. q \in p .. Len(fmt) /\ fmt[q] = "}"
      OBVIOUS
    <3> QED
      BY <2>0, <3>1, Between
  <2>5. \A k \in p .. q - 1 : fmt[k] # "}"
    <3> SUFFICES ASSUME NEW k \in p .. q - 1, fmt[k] = "}" PROVE FALSE
      OBVIOUS
    <3>1. k \in Q
      BY <2>4
    <3>2. q \leq k
      BY <2>3, <3>1
    <3> QED
      BY <2>0, <2>4, <3>2, Between
  <2>6. end(p) \in p .. Len(fmt) /\ fmt[end(p)] = "}"
    <3> HIDE DEF Q
    <3> QED BY <2>4, <2>5, Zenon
  <2>7. PICK e : e = end(p)
    OBVIOUS
  <2>8. e \in p .. Len(fmt) /\ fmt[e] = "}"
    BY <2>6, <2>7
  <2> HIDE DEF end
  <2>9. e # p /\ e # p + 1
    BY <2>8, <1>3
  <2> QED
    <3>1. e \in p + 2 .. Len(fmt)
      BY <2>0, <2>8, <2>9, Between
    <3> QED
      BY <2>7, <3>1
<1>4. ASSUME NEW p \in 1 .. Len(fmt), NEW a \in 1 .. Len(args)
      PROVE  /\ fmt[p] = "{" /\ fmt[p + 1] = ":" => long(p, a) \in Text
             /\ short(a) \in Text
  <2>1. << >> \in Text
    BY DEF Text
  <2>2. short(a) \in Text
    BY <1>2, <2>1, CommonIntegerFormatIsText
  <2>3. ASSUME fmt[p] = "{", fmt[p + 1] = ":" PROVE long(p, a) \in Text
    <3> DEFINE e == end(p)
    <3>1. e \in p + 2 .. Len(fmt)
      BY <1>3, <2>3
    <3> HIDE DEF e
    <3>2. SubSeq(fmt, p + 2, e - 1) \in Text
      <4>1. \A k \in p + 2 .. e - 1 : fmt[k] \in Symbol
        BY <1>2, <3>1
      <4>2. p + 2 \in Int /\ e - 1 \in Int
        BY <3>1
      <4> QED
        BY <4>1, <4>2, SubSeqProperties DEF Text
    <3>3. args[a] \in 0 .. Word - 1
      BY <1>2
    <3> QED
      BY <3>2, <3>3, CommonIntegerFormatIsText DEF e
  <2> QED
    BY <2>2, <2>3
<1>17. \A g, p, a : Step(g, p, a) = From(fmt, args, g, p, a)
  BY DEF From, closing
<1> HIDE DEF end, long, short
<1>5. ASSUME NEW g, NEW p \in P, NEW a \in A,
             \A q \in p + 1 .. Len(fmt) + 2, b \in A : g[q][b] \in Text
      PROVE  Step(g, p, a) \in Text
  <2>1. CASE p > Len(fmt)
    BY <2>1 DEF Text
  <2>2. CASE ~(p > Len(fmt))
    <3>1. p \in 1 .. Len(fmt) /\ p + 1 \in p + 1 .. Len(fmt) + 2
          /\ p + 2 \in p + 1 .. Len(fmt) + 2
      BY <2>2, <1>2
    <3>2. <<fmt[p]>> \in Text /\ g[p + 1][a] \in Text
      <4>1. fmt[p] \in Symbol
        BY <3>1, <1>2
      <4>2. g[p + 1][a] \in Text
        BY <3>1, <1>5
      <4> QED
        BY <4>1, <4>2, OneSymbol
    <3>3. CASE a > Len(args) \/ fmt[p] # "{"
      <4>1. Step(g, p, a) = <<fmt[p]>> \o g[p + 1][a]
        BY <2>2, <3>3
      <4> QED
        BY <3>2, <4>1, TextConcat
    <3>4. CASE ~(a > Len(args) \/ fmt[p] # "{")
      <4>1. a \in 1 .. Len(args) /\ a + 1 \in A
        <5>1. Len(args) \in Nat
          BY <1>2
        <5>2. ~(a > Len(args))
          BY <3>4
        <5>3. \A m \in Nat : \A b \in 1 .. m + 1 : ~(b > m) => b \in 1 .. m /\ b + 1 \in 1 .. m + 1
          OBVIOUS
        <5> QED
          BY <5>1, <5>2, <5>3
      <4>2. CASE fmt[p + 1] = ":"
        <5>1. end(p) + 1 \in p + 1 .. Len(fmt) + 2
          <6>1. end(p) \in p + 2 .. Len(fmt)
            BY <1>3, <3>1, <3>4, <4>2
          <6>2. Len(fmt) \in Nat
            BY <1>2
          <6> QED
            BY <6>1, <6>2
        <5>2. long(p, a) \in Text /\ g[end(p) + 1][a + 1] \in Text
          BY <1>4, <1>5, <3>1, <3>4, <4>1, <4>2, <5>1
        <5>3. Step(g, p, a) = long(p, a) \o g[end(p) + 1][a + 1]
          BY <2>2, <3>4, <4>2
        <5> QED
          BY <5>2, <5>3, TextConcat
      <4>3. CASE fmt[p + 1] = "{"
        <5>1. <<"{">> \in Text
          BY OneSymbol DEF Symbol, Marks
        <5>2. Step(g, p, a) = <<"{">> \o g[p + 1][a]
          BY <2>2, <3>4, <4>3
        <5> QED
          BY <3>2, <5>1, <5>2, TextConcat
      <4>4. CASE fmt[p + 1] # ":" /\ fmt[p + 1] # "{"
        <5>1. short(a) \in Text /\ g[p + 2][a + 1] \in Text
          BY <1>4, <1>5, <3>1, <4>1
        <5>2. Step(g, p, a) = short(a) \o g[p + 2][a + 1]
          BY <2>2, <3>4, <4>4
        <5> QED
          BY <5>1, <5>2, TextConcat
      <4> QED
        BY <4>2, <4>3, <4>4
    <3> QED
      BY <3>3, <3>4
  <2> QED
    BY <2>1, <2>2
<1>6. ASSUME NEW g, NEW h, NEW p \in P, NEW a \in A,
             \A q \in p + 1 .. Len(fmt) + 2 : h[q] = g[q]
      PROVE  Step(h, p, a) = Step(g, p, a)
  <2>1. CASE p > Len(fmt)
    BY <2>1
  <2>2. CASE ~(p > Len(fmt))
    <3>1. p \in 1 .. Len(fmt) /\ h[p + 1] = g[p + 1] /\ h[p + 2] = g[p + 2]
      BY <2>2, <1>2, <1>6
    <3>2. ASSUME fmt[p] = "{", fmt[p + 1] = ":"
          PROVE  h[end(p) + 1] = g[end(p) + 1]
      <4>1. end(p) \in p + 2 .. Len(fmt)
        BY <3>1, <3>2, <1>3
      <4>2. end(p) + 1 \in p + 1 .. Len(fmt) + 2
        BY <4>1, <1>2
      <4> QED
        BY <4>2, <1>6
    <3> QED
      BY <3>1, <3>2
  <2> QED
    BY <2>1, <2>2
<1> HIDE DEF Step
<1> DEFINE last(j) == Len(fmt) + 2 - j
           Solves(g, j) == \A p \in P : last(j) \leq p =>
                              g[p] = [a \in A |-> Step(g, p, a)]
           E == {j \in Nat : j < Len(fmt) + 2 => \E g : Solves(g, j)}
<1>7. 0 \in E
  <2> DEFINE z == [p \in P |-> << >>]
             g == [p \in P |-> [a \in A |-> Step(z, p, a)]]
  <2>1. ASSUME NEW p \in P, last(0) \leq p
        PROVE  g[p] = [a \in A |-> Step(g, p, a)]
    <3>1. \A q \in p + 1 .. Len(fmt) + 2 : g[q] = z[q]
      BY <1>2, <2>1
    <3>2. g[p] = [a \in A |-> Step(z, p, a)]
      OBVIOUS
    <3> HIDE DEF g, z, A, P
    <3>3. \A a \in A : Step(g, p, a) = Step(z, p, a)
      BY <3>1, <1>6 DEF P, A
    <3> QED
      BY <3>2, <3>3
  <2> HIDE DEF g
  <2>2. Solves(g, 0)
    BY <2>1
  <2> HIDE DEF Solves
  <2> QED
    BY <2>2
<1>8. ASSUME NEW j \in E PROVE j + 1 \in E
  <2>0. j \in Nat /\ j + 1 \in Nat /\ (j < Len(fmt) + 2 => \E g : Solves(g, j))
    <3> HIDE DEF Solves
    <3> QED OBVIOUS
  <2> SUFFICES ASSUME j + 1 < Len(fmt) + 2 PROVE \E g : Solves(g, j + 1)
    <3> HIDE DEF Solves
    <3> QED BY <2>0
  <2>1. PICK g : Solves(g, j)
    <3>1. j < Len(fmt) + 2
      BY <2>0, <1>2
    <3> HIDE DEF Solves
    <3> QED BY <2>0, <3>1
  <2> DEFINE new == last(j + 1)
             h == [p \in P |-> IF p = new THEN [a \in A |-> Step(g, p, a)] ELSE g[p]]
  <2>2. new \in Int /\ new + 1 = last(j)
    BY <1>2
  <2>3. ASSUME NEW p \in P, new \leq p
        PROVE  h[p] = [a \in A |-> Step(h, p, a)]
    <3>1. \A q \in p + 1 .. Len(fmt) + 2 : q \in P /\ q # new
      BY <2>2, <2>3, <1>2
    <3>2. \A q \in p + 1 .. Len(fmt) + 2 : h[q] = g[q]
      BY <3>1
    <3>3. h[p] = [a \in A |-> Step(g, p, a)]
      <4>1. CASE p = new
        BY <4>1
      <4>2. CASE p # new
        <5>1. last(j) \leq p
          BY <4>2, <2>2, <2>3, <1>2
        <5>2. h[p] = g[p]
          BY <4>2
        <5> HIDE DEF last, h, new
        <5> QED
          BY <2>1, <5>1, <5>2
      <4> QED
        BY <4>1, <4>2
    <3> HIDE DEF h, A, P
    <3>4. \A a \in A : Step(h, p, a) = Step(g, p, a)
      BY <3>2, <1>6 DEF P, A
    <3> QED
      BY <3>3, <3>4
  <2> HIDE DEF h
  <2>4. Solves(h, j + 1)
    BY <2>3
  <2> QED
    BY <2>4
<1>9. \E g : g = [p \in P |-> [a \in A |-> Step(g, p, a)]]
  <2>1. Nat \subseteq E
    <3> HIDE DEF E
    <3> QED BY <1>7, <1>8, Induction DEF E
  <2> DEFINE j == Len(fmt) + 1
  <2>2. j \in Nat /\ j < Len(fmt) + 2 /\ \A p \in P : last(j) \leq p
    BY <1>2
  <2> HIDE DEF j
  <2>3. PICK g : Solves(g, j)
    BY <2>1, <2>2
  <2> DEFINE h == [p \in P |-> g[p]]
  <2>4. \A p \in P : g[p] = [a \in A |-> Step(g, p, a)]
    <3> HIDE DEF last, P, A
    <3> QED BY <2>2, <2>3
  <2>5. ASSUME NEW p \in P PROVE h[p] = [a \in A |-> Step(h, p, a)]
    <3>1. \A q \in p + 1 .. Len(fmt) + 2 : h[q] = g[q]
      BY <1>2
    <3>2. h[p] = [a \in A |-> Step(g, p, a)]
      BY <2>4
    <3> HIDE DEF h, A, P
    <3>3. \A a \in A : Step(h, p, a) = Step(g, p, a)
      BY <3>1, <1>6 DEF P, A
    <3> QED
      BY <3>2, <3>3
  <2>6. h = [p \in P |-> h[p]]
    OBVIOUS
  <2>7. h = [p \in P |-> [a \in A |-> Step(h, p, a)]]
    <3> HIDE DEF h, A, P
    <3> QED BY <2>5, <2>6
  <2> HIDE DEF h, A, P
  <2> QED
    BY <2>7, Zenon
<1>10. f = [p \in P |-> [a \in A |-> Step(f, p, a)]]
  BY <1>9, Zenon
<1> HIDE DEF f
<1>11. \A p \in P, a \in A : f[p][a] = Step(f, p, a)
  <2> HIDE DEF A, P
  <2> QED BY <1>10
<1> DEFINE T == {j \in Nat : \A p \in P, a \in A :
                    last(j) \leq p => f[p][a] \in Text}
<1>12. 0 \in T
  <2> SUFFICES ASSUME NEW p \in P, NEW a \in A, last(0) \leq p
               PROVE  f[p][a] \in Text
    OBVIOUS
  <2>1. \A q \in p + 1 .. Len(fmt) + 2, b \in A : f[q][b] \in Text
    BY <1>2
  <2> HIDE DEF A, P
  <2> QED
    BY <1>5, <1>11, <2>1 DEF A, P
<1>13. ASSUME NEW j \in T PROVE j + 1 \in T
  <2> SUFFICES ASSUME NEW p \in P, NEW a \in A, last(j + 1) \leq p
               PROVE  f[p][a] \in Text
    OBVIOUS
  <2>1. \A q \in p + 1 .. Len(fmt) + 2, b \in A : f[q][b] \in Text
    <3>1. \A q \in p + 1 .. Len(fmt) + 2 : q \in P /\ last(j) \leq q
      BY <1>2
    <3> QED
      BY <3>1
  <2> HIDE DEF A, P
  <2> QED
    BY <1>5, <1>11, <2>1 DEF A, P
<1>14. Nat \subseteq T
  <2> HIDE DEF T
  <2> QED BY <1>12, <1>13, Induction DEF T
<1>15. \A p \in P, a \in A : f[p][a] \in Text /\ f[p][a] = From(fmt, args, f, p, a)
  <2> SUFFICES ASSUME NEW p \in P, NEW a \in A
               PROVE  f[p][a] \in Text /\ f[p][a] = From(fmt, args, f, p, a)
    OBVIOUS
  <2>1. Len(fmt) + 1 \in Nat /\ last(Len(fmt) + 1) \leq p
    BY <1>2
  <2>2. f[p][a] \in Text
    <3> HIDE DEF A, P, last
    <3> QED BY <2>1, <1>14
  <2> HIDE DEF A, P, last
  <2> QED
    BY <2>2, <1>11, <1>17
<1>16. QED
  BY <1>1, <1>15

LEMMA FormatIsText ==
  ASSUME NEW fmt \in Text, NEW args \in Seq(0 .. Word - 1), Formed(fmt)
  PROVE  format(fmt, args) \in Text
<1>1. Len(fmt) \in Nat /\ Len(args) \in Nat
  BY LenProperties DEF Text
<1>2. 1 \in 1 .. Len(fmt) + 2 /\ 1 \in 1 .. Len(args) + 1
  BY <1>1
<1>3. QED
  BY <1>2, FormatSteps

-----------------------------------------------------------------------------
(* The operations of a program: those of init, of the rest of kernel_main, *)
(* and of exc_handler.                                                     *)
InitOp  == {init[k] : k \in 1 .. 16}
PutOp   == {"put"} \X Symbol
ClockOp == {"clock"} \X (48 .. 53)
PlainOp == PutOp
    \cup {<<"gppud", 0>>, <<"gppud", 2>>, <<"clock", None>>}
    \cup ({"fsel"} \X (48 .. 53) \X {alt3})
    \cup ({"pin"} \X (48 .. 53))
    \cup ({"byte"} \X Nat \X (0 .. 255))
    \cup ({"format"} \X {SizeFormat} \X {<<size>> : size \in Sizes})
    \cup ({"format"} \X {ByteFormat} \X {<<byte>> : byte \in 0 .. 255})
    \cup ({"call"} \X {"framebuffer", "sd", "read"})
LaterOp == PlainOp \cup ClockOp
Op == InitOp \cup LaterOp \cup ({"number"} \X (0 .. Word - 1))

(* From an index on a program is what comes after init, and clocks a pin   *)
(* only when it has just asked for a pull up.                              *)
Later(s, first, pud) ==
    \A k \in first .. Len(s) :
       /\ s[k] \in LaterOp
       /\ s[k] \in ClockOp =>
            IF k = first THEN pud = 2 ELSE s[k - 1] = <<"gppud", 2>>

(* init has done n of its 16 operations.                                   *)
Done(n) ==
    /\ n \geq 1 => mu.enable = 1
    /\ n \in 2 .. 15 => mu.cntl = 0
    /\ n \geq 3 => mu.lcr = 3
    /\ n \geq 7 => mu.baud = 270
    /\ n \geq 8 => function(14) = alt5
    /\ n \geq 9 => function(15) = alt5
    /\ n \in {10, 13} => gppud = 0
    /\ n \geq 11 => pull[14] = 0
    /\ n \geq 14 => pull[15] = 0

Position(n) ==
    /\ n \in 0 .. 16 /\ Len(todo) \geq 16 - n
    /\ \A k \in 1 .. 16 - n : todo[k] = init[n + k]
    /\ Later(todo, 17 - n, IF n = 16 THEN gppud ELSE 0)
    /\ Done(n)

registers(f) == {f.esr, f.elr, f.spsr, f.far}
HandlerOp(f) == PutOp
    \cup ({"number"} \X (registers(f) \cup {r \div Half : r \in registers(f)}))

Program ==
    /\ todo \in Seq(Op)
    /\ at \notin {"kernel", "handler", "lost"} => todo = << >>
    /\ at = "kernel" => \E n \in 0 .. 16 : Position(n)
    /\ at = "handler" => \A k \in 1 .. Len(todo) : todo[k] \in HandlerOp(fault)

Where ==
    /\ machine \in Machines
    /\ core \in [Cores -> {"entry", "parked", "running"}]
    /\ at \in {"entry", "level", "setup", "stack", "data", "bss", "kernel",
               "handler", "wfe", "lost"}
    /\ \A c \in Cores : core[c] = "running" => c = 0
    /\ core[0] = "entry" <=> at = "entry"
    /\ x0 \in {0, 4, 8, 12} /\ vbar \in BOOLEAN
    /\ at \in {"entry", "level"} => el = machine.el
    /\ at = "setup" => el = 2
    /\ at \notin {"entry", "level", "setup"} => el = 1 /\ (machine.el > 1 => vbar)

(* The words below x1 are loaded, whichever loop is running.               *)
Memory ==
    /\ ram \in [0 .. bssEnd -> {"junk", "image", "zero"}]
    /\ x1 \in 0 .. bssEnd + 1
    /\ at \in {"entry", "level", "setup", "stack"} => x1 = 0
    /\ at = "data" => x1 < dataEnd
    /\ at = "bss" => dataEnd \leq x1 /\ (x1 < bssEnd \/ x1 = dataEnd)
    /\ at \in {"kernel", "wfe"} => bssEnd \leq x1
    /\ \A w \in 0 .. dataEnd - 1 : w < x1 => ram[w] = "image"
    /\ \A w \in dataEnd .. bssEnd - 1 : w < x1 => ram[w] = "zero"

Lines ==
    /\ mu \in [{"enable", "cntl", "lcr", "mcr", "ier", "iir", "baud"} -> Nat]
    /\ fifo \in Seq(Sent) /\ Len(fifo) \leq FifoDepth
    /\ gppud \in {0, 2}
    /\ fsel \in [0 .. 5 -> [0 .. 9 -> 0 .. 7]] /\ pull \in [Pin -> 0 .. 2]
    /\ PinsApart

Excess ==
    /\ overrun \in BOOLEAN
    /\ at \notin {"handler", "lost"} => ~overrun
    /\ at = "handler" => fault \in Faults
    /\ OverrunOnlyFull

IInv == Where /\ Memory /\ Lines /\ Program /\ Excess

-----------------------------------------------------------------------------
(* Where core 0 is, and what it has loaded.                                *)
LEMMA MachineIs ==
  ASSUME NEW m \in Machines
  PROVE  /\ m.el \in 1 .. 3 /\ m.cntl \in Nat /\ m.func \in 0 .. 7
         /\ m.left \in Seq({"firmware"}) /\ Len(m.left) \leq FifoDepth
         /\ m.data \in Nat /\ m.bss \in Nat
BY StartupAssumption DEF StartupAssumption

LEMMA WhereInv ==
  ASSUME Where, [Next]_vars
  PROVE  Where'
<1>1. 0 \in Cores /\ machine.el \in 1 .. 3
  BY MachineIs, StartupAssumption DEF StartupAssumption, Where
<1>2. CASE Enter(0)
  BY <1>1, <1>2 DEF Where, Enter
<1>3. CASE \E c \in Cores \ {0} : Enter(c)
  BY <1>1, <1>3 DEF Where, Enter
<1>4. CASE ReadLevel
  BY <1>1, <1>4 DEF Where, ReadLevel
<1>5. CASE SetUpEl2
  BY <1>1, <1>5 DEF Where, SetUpEl2
<1>6. CASE CopyData
  BY <1>6 DEF Where, CopyData
<1>7. CASE ZeroBss
  BY <1>7 DEF Where, ZeroBss
<1>8. CASE KernelReturns
  BY <1>8 DEF Where, KernelReturns
<1>9. CASE Fault
  BY <1>9 DEF Where, Fault
<1>10. CASE SecondFault
  BY <1>10 DEF Where, SecondFault
<1>11. CASE UNCHANGED <<coreVars, machine>>
  BY <1>11 DEF Where, coreVars
<1>13. CASE Running /\ Lost /\ machine' = machine
  BY <1>13 DEF Where, Running, Lost
<1>12. QED
  BY <1>2, <1>3, <1>4, <1>5, <1>6, <1>7, <1>8, <1>9, <1>10, <1>11, <1>13
     DEF Next, Core0, Write, WriteNumber, WriteFormat, SetUpPin, DumpByte,
         Framebuffer, InitCard, ReadSector, Call, Sends, vars

LEMMA MemoryInv ==
  ASSUME Where, Memory, [Next]_vars
  PROVE  Memory'
<1>1. dataEnd \in Nat /\ bssEnd \in Nat /\ dataEnd \leq bssEnd
  BY MachineIs DEF Where, dataEnd, bssEnd
<1>2. machine' = machine => dataEnd' = dataEnd /\ bssEnd' = bssEnd
  BY DEF dataEnd, bssEnd
<1> HIDE DEF dataEnd, bssEnd
<1>3. CASE CopyData
  <2>1. x1 \in 0 .. bssEnd /\ x1 \leq dataEnd
    BY <1>1, <1>3 DEF Memory, CopyData
  <2>2. /\ ram' \in [0 .. bssEnd -> {"junk", "image", "zero"}]
        /\ \A w \in 0 .. bssEnd : ram'[w] = IF w = x1 THEN "image" ELSE ram[w]
    BY <1>3, <2>1 DEF Memory, CopyData
  <2>3. /\ x1' = IF x1 + 1 < dataEnd THEN x1 + 1 ELSE dataEnd
        /\ at' = IF x1 + 1 < dataEnd THEN "data" ELSE "bss"
        /\ dataEnd' = dataEnd /\ bssEnd' = bssEnd
    BY <1>2, <1>3 DEF CopyData
  <2>4. \A w \in 0 .. dataEnd - 1 : w < x1' => ram'[w] = "image"
    BY <1>1, <2>1, <2>2, <2>3 DEF Memory
  <2>5. \A w \in dataEnd .. bssEnd - 1 : ~(w < x1')
    BY <1>1, <2>1, <2>3
  <2>6. /\ x1' \in 0 .. bssEnd + 1
        /\ at' = "data" => x1' < dataEnd
        /\ at' = "bss" => x1' = dataEnd
        /\ at' \in {"data", "bss"}
    BY <1>1, <2>1, <2>3
  <2> QED
    BY <1>1, <2>2, <2>3, <2>4, <2>5, <2>6 DEF Memory
<1>4. CASE ZeroBss
  <2>1. x1 \in 0 .. bssEnd /\ dataEnd \leq x1
    BY <1>1, <1>4 DEF Memory, ZeroBss
  <2>2. /\ ram' \in [0 .. bssEnd -> {"junk", "image", "zero"}]
        /\ \A w \in 0 .. bssEnd : ram'[w] = IF w = x1 THEN "zero" ELSE ram[w]
    BY <1>4, <2>1 DEF Memory, ZeroBss
  <2>3. /\ x1' = x1 + 1
        /\ at' = IF x1 + 1 < bssEnd THEN "bss" ELSE "kernel"
        /\ dataEnd' = dataEnd /\ bssEnd' = bssEnd
    BY <1>2, <1>4 DEF ZeroBss
  <2>4. \A w \in 0 .. dataEnd - 1 : ram'[w] = "image"
    BY <1>1, <2>1, <2>2 DEF Memory
  <2>5. \A w \in dataEnd .. bssEnd - 1 : w < x1' => ram'[w] = "zero"
    BY <1>1, <2>1, <2>2, <2>3 DEF Memory
  <2> QED
    BY <1>1, <2>1, <2>2, <2>3, <2>4, <2>5 DEF Memory
<1>5. CASE UNCHANGED <<ram, x1, machine>> /\ ~CopyData /\ ~ZeroBss
  <2>1. /\ at' \in {"entry", "level", "setup", "stack"} =>
              at \in {"entry", "level", "setup", "stack"}
        /\ at' \in {"data", "bss"} => at' = at
        /\ at' \in {"kernel", "wfe"} => at \in {"kernel", "wfe"}
    BY <1>5 DEF Next, Core0, Enter, ReadLevel, SetUpEl2, KernelReturns, Fault,
       SecondFault, Write, WriteNumber, WriteFormat, SetUpPin, DumpByte,
       Framebuffer, InitCard, ReadSector, Lost, Sends, coreVars, vars, Where
  <2> QED
    BY <1>2, <1>5, <2>1 DEF Memory
<1>6. QED
  BY <1>3, <1>4, <1>5
     DEF Next, Core0, Enter, ReadLevel, SetUpEl2, KernelReturns, Fault,
         SecondFault, Write, WriteNumber, WriteFormat, SetUpPin, DumpByte,
         Framebuffer, InitCard, ReadSector, Lost, Sends, coreVars, vars

LEMMA InitBoot == Init => Where /\ Memory
<1> SUFFICES ASSUME Init PROVE Where /\ Memory
  OBVIOUS
<1>1. machine.el \in 1 .. 3 /\ dataEnd \in Nat /\ bssEnd \in Nat
  BY MachineIs DEF Init, dataEnd, bssEnd
<1>2. Where
  BY <1>1, StartupAssumption DEF StartupAssumption, Init, Where
<1>3. Memory
  BY <1>1 DEF Init, Memory
<1>4. QED
  BY <1>2, <1>3

(* Whatever the sizes of .data and .bss, either of them 0 too, kernel_main *)
(* starts with the one copied and the other zero, on core 0 alone, at EL1  *)
(* and with the vectors where the code installs them (boot.S:6-84).        *)
THEOREM KernelStartsLoaded == Spec => []Loaded
<1>1. Where /\ Memory /\ [Next]_vars => (Where /\ Memory)'
  BY WhereInv, MemoryInv
<1>2. Where /\ Memory => Loaded
  <2> SUFFICES ASSUME Where, Memory, at \in {"kernel", "wfe"} PROVE Loaded
    BY DEF Loaded
  <2>1. dataEnd \in Nat /\ bssEnd \in Nat /\ dataEnd \leq bssEnd
    BY MachineIs DEF Where, dataEnd, bssEnd
  <2> HIDE DEF dataEnd, bssEnd
  <2>2. /\ \A w \in 0 .. dataEnd - 1 : ram[w] = "image"
        /\ \A w \in dataEnd .. bssEnd - 1 : ram[w] = "zero"
    BY <2>1 DEF Memory
  <2> QED
    BY <2>2 DEF Where, Loaded
<1>3. QED
  BY <1>1, <1>2, InitBoot, PTL DEF Spec

-----------------------------------------------------------------------------
(* The programs.                                                           *)
LEMMA InitIs ==
  /\ Len(init) = 16
  /\ init[1] = <<"mu", "enable", 1>> /\ init[2] = <<"mu", "cntl", 0>>
  /\ init[3] = <<"mu", "lcr", 3>>    /\ init[4] = <<"mu", "mcr", 0>>
  /\ init[5] = <<"mu", "ier", 0>>    /\ init[6] = <<"mu", "iir", 198>>
  /\ init[7] = <<"mu", "baud", 270>>
  /\ init[8] = <<"fsel", 14, alt5>>  /\ init[9] = <<"fsel", 15, alt5>>
  /\ init[10] = <<"gppud", 0>> /\ init[11] = <<"clock", 14>>
  /\ init[12] = <<"clock", None>>
  /\ init[13] = <<"gppud", 0>> /\ init[14] = <<"clock", 15>>
  /\ init[15] = <<"clock", None>>
  /\ init[16] = <<"mu", "cntl", 3>>
BY DEF init, set_function, disable_pulling

LEMMA InitIsSeq == init \in Seq(InitOp)
<1>1. DOMAIN init = 1 .. 16 /\ init = [k \in 1 .. 16 |-> init[k]]
  BY DEF init, set_function, disable_pulling
<1>2. \A k \in 1 .. 16 : init[k] \in InitOp
  BY DEF InitOp
<1>3. \A f, S : f = [k \in 1 .. 16 |-> f[k]] /\ (\A k \in 1 .. 16 : f[k] \in S)
               => f \in Seq(S)
  <2> SUFFICES ASSUME NEW f, NEW S, f = [k \in 1 .. 16 |-> f[k]],
                      \A k \in 1 .. 16 : f[k] \in S
               PROVE  f \in [1 .. 16 -> S]
    OBVIOUS
  <2> QED
    OBVIOUS
<1>4. QED
  BY ONLY <1>1, <1>2, <1>3, Zenon

LEMMA Tags ==
  /\ \A op \in InitOp : op[1] \in {"mu", "fsel", "gppud", "clock"}
  /\ \A op \in PutOp : op[1] = "put" /\ op[2] \in Symbol
  /\ \A op \in ClockOp : op[1] = "clock"
  /\ \A op \in LaterOp : op[1] \notin {"mu", "number"}
<1>1. ASSUME NEW op \in InitOp PROVE op[1] \in {"mu", "fsel", "gppud", "clock"}
  <2>1. PICK k \in 1 .. 16 : op = init[k]
    BY DEF InitOp
  <2>2. k \in {1, 2, 3, 4, 5, 6, 7, 8} \/ k \in {9, 10, 11, 12, 13, 14, 15, 16}
    OBVIOUS
  <2> QED
    BY <2>1, <2>2, InitIs
<1>2. QED
  BY <1>1 DEF PutOp, ClockOp, LaterOp, PlainOp

LEMMA Joined ==
  ASSUME NEW S, NEW s \in Seq(S), NEW t \in Seq(S)
  PROVE  /\ s \o t \in Seq(S) /\ Len(s \o t) = Len(s) + Len(t)
         /\ \A k \in 1 .. Len(s) : (s \o t)[k] = s[k]
         /\ \A k \in Len(s) + 1 .. Len(s) + Len(t) : (s \o t)[k] = t[k - Len(s)]
BY ConcatProperties, LenProperties

LEMMA WriteIs ==
  ASSUME NEW txt \in Text
  PROVE  write(txt) \in Seq(PutOp)
<1>1. Len(txt) \in Nat /\ txt \in [1 .. Len(txt) -> Symbol] /\ DOMAIN txt = 1 .. Len(txt)
  BY LenProperties DEF Text
<1>2. write(txt) \in [1 .. Len(txt) -> PutOp]
  BY <1>1 DEF write, PutOp
<1>3. QED
  BY <1>1, <1>2

LEMMA SeqOfMore ==
  ASSUME NEW S, NEW T, S \subseteq T, NEW s \in Seq(S)
  PROVE  s \in Seq(T)
<1>1. s \in [1 .. Len(s) -> S] /\ Len(s) \in Nat
  BY LenProperties
<1>2. s \in [1 .. Len(s) -> T]
  BY <1>1
<1>3. QED
  BY <1>1, <1>2

LEMMA SeqOfLength ==
  ASSUME NEW S, NEW n \in Nat, NEW f \in [1 .. n -> S]
  PROVE  f \in Seq(S)
OBVIOUS

LEMMA OpsAre ==
  /\ PutOp \subseteq PlainOp /\ PlainOp \subseteq LaterOp /\ ClockOp \subseteq LaterOp
  /\ LaterOp \subseteq Op /\ InitOp \subseteq Op /\ PutOp \subseteq Op
  /\ \A f \in Faults : PutOp \subseteq HandlerOp(f)
BY DEF PlainOp, LaterOp, Op, HandlerOp

LEMMA WriteIsPlain ==
  ASSUME NEW txt \in Text
  PROVE  write(txt) \in Seq(PlainOp)
BY WriteIs, SeqOfMore, OpsAre

LEMMA Texts ==
  /\ Greeting \in Text /\ GpioSetUp \in Text /\ FailedText \in Text
  /\ SizeFormat \in Text /\ ByteFormat \in Text
  /\ Formed(SizeFormat) /\ Formed(ByteFormat)
<1>1. Greeting \in Text /\ GpioSetUp \in Text /\ FailedText \in Text
  BY DEF Greeting, GpioSetUp, FailedText, Text, Symbol, Words, Marks
<1>2. SizeFormat \in Text
  BY DEF SizeFormat, Text, Symbol, Words, Marks
<1>3. ByteFormat \in Text
  BY DEF ByteFormat, Text, Symbol, Numerals, Marks
<1>4. Formed(SizeFormat)
  <2>1. /\ Len(SizeFormat) = 5 /\ SizeFormat[1] # "{" /\ SizeFormat[2] = "{"
        /\ SizeFormat[3] = "}" /\ SizeFormat[4] # "{" /\ SizeFormat[5] # "{"
    BY DEF SizeFormat
  <2>2. \A p \in 1 .. 5 : p \in {1, 2, 3, 4, 5}
    OBVIOUS
  <2> HIDE DEF SizeFormat
  <2>3. ASSUME NEW p \in 1 .. Len(SizeFormat), SizeFormat[p] = "{"
        PROVE  p = 2
    <3>1. p \in {1, 2, 3, 4, 5}
      BY <2>1, <2>2
    <3> QED
      BY <2>1, <2>3, <3>1
  <2>4. SizeFormat[3] # ":"
    <3>1. SizeFormat[3] = "}"
      BY <2>1
    <3>2. "}" # ":"
      OBVIOUS
    <3> QED
      BY <3>1, <3>2, Zenon
  <2>5. 2 + 1 \leq Len(SizeFormat) /\ 2 + 1 = 3
    <3>1. Len(SizeFormat) = 5
      BY DEF SizeFormat
    <3>2. \A n : n = 5 => 2 + 1 \leq n /\ 2 + 1 = 3
      OBVIOUS
    <3> QED
      BY <3>1, <3>2
  <2> QED
    BY <2>3, <2>4, <2>5 DEF Formed
<1>5. Formed(ByteFormat)
  <2>1. /\ Len(ByteFormat) = 7 /\ ByteFormat[1] = "{" /\ ByteFormat[2] = ":"
        /\ ByteFormat[3] = "0" /\ ByteFormat[4] = "2" /\ ByteFormat[5] = "x"
        /\ ByteFormat[6] = "}" /\ ByteFormat[7] = " "
    BY DEF ByteFormat
  <2>2. \A p \in 1 .. 7 : p \in {1, 2, 3, 4, 5, 6, 7}
    OBVIOUS
  <2>3. ASSUME NEW p \in 1 .. Len(ByteFormat), ByteFormat[p] = "{"
        PROVE  p = 1
    <3>1. p \in {1, 2, 3, 4, 5, 6, 7}
      BY <2>1, <2>2
    <3> QED
      BY <2>1, <2>3, <3>1
  <2>4. /\ 1 + 1 \leq Len(ByteFormat)
        /\ \E q \in 1 .. Len(ByteFormat) : ByteFormat[q] = "}"
    <3>1. Len(ByteFormat) = 7 /\ ByteFormat[6] = "}"
      BY DEF ByteFormat
    <3>2. \A n : n = 7 => 1 + 1 \leq n /\ 6 \in 1 .. n
      OBVIOUS
    <3> QED
      BY <3>1, <3>2
  <2> QED
    BY <2>3, <2>4 DEF Formed
<1>6. QED
  BY <1>1, <1>2, <1>3, <1>4, <1>5

(* init and then nothing that clocks a pin.                                *)
InitThen(s) ==
    /\ s \in Seq(Op) /\ Len(s) \geq 16
    /\ \A k \in 1 .. 16 : s[k] = init[k]
    /\ \A k \in 17 .. Len(s) : s[k] \in PlainOp

LEMMA InitThenPlain ==
  ASSUME NEW s, InitThen(s), NEW t \in Seq(PlainOp)
  PROVE  InitThen(s \o t)
<1>1. t \in Seq(Op) /\ s \in Seq(Op)
  BY SeqOfMore, OpsAre DEF InitThen
<1>2. Len(s) \in Nat /\ Len(t) \in Nat /\ t \in [1 .. Len(t) -> PlainOp]
  BY <1>1, LenProperties
<1>3. /\ s \o t \in Seq(Op) /\ Len(s \o t) = Len(s) + Len(t)
      /\ \A k \in 1 .. Len(s) : (s \o t)[k] = s[k]
      /\ \A k \in Len(s) + 1 .. Len(s) + Len(t) : (s \o t)[k] = t[k - Len(s)]
  BY <1>1, Joined
<1> DEFINE u == s \o t
<1> HIDE DEF u
<1>4. ASSUME NEW k \in 17 .. Len(u) PROVE u[k] \in PlainOp
  <2>1. CASE k \leq Len(s)
    <3>1. k \in 1 .. Len(s) /\ k \in 17 .. Len(s)
      BY <1>2, <1>4, <2>1
    <3>2. u[k] = s[k]
      BY <1>3, <3>1 DEF u
    <3> QED
      BY <3>1, <3>2 DEF InitThen
  <2>2. CASE ~(k \leq Len(s))
    <3>1. k \in Len(s) + 1 .. Len(s) + Len(t) /\ k - Len(s) \in 1 .. Len(t)
      BY <1>2, <1>3, <1>4, <2>2 DEF u
    <3>2. u[k] = t[k - Len(s)]
      BY <1>3, <3>1 DEF u
    <3> QED
      BY <1>2, <3>1, <3>2
  <2> QED
    BY <2>1, <2>2
<1>5. \A k \in 1 .. 16 : k \in 1 .. Len(s) /\ s[k] = init[k]
  BY <1>2 DEF InitThen
<1>6. \A k \in 1 .. 16 : u[k] = init[k]
  BY <1>3, <1>5 DEF u
<1>7. u \in Seq(Op) /\ Len(u) \geq 16
  BY <1>2, <1>3 DEF u, InitThen
<1>8. QED
  BY <1>4, <1>6, <1>7 DEF u, InitThen

LEMMA PinsArePlain == pins_of_card \in Seq(PlainOp)
<1>1. \A i \in 1 .. 6 : 47 + i \in 48 .. 53
  OBVIOUS
<1>2. \A i \in 1 .. 6 : <<"pin", 47 + i>> \in PlainOp
  BY <1>1 DEF PlainOp
<1>3. pins_of_card \in [1 .. 6 -> PlainOp]
  BY <1>2 DEF pins_of_card
<1>4. QED
  BY <1>3, SeqOfLength, Zenon

LEMMA KernelMainIs == InitThen(kernel_main)
<1>1. InitThen(init)
  BY InitIs, InitIsSeq, SeqOfMore, OpsAre DEF InitThen
<1> DEFINE c(name) == << <<"call", name>> >>
<1>2. \A name \in {"framebuffer", "sd"} : c(name) \in Seq(PlainOp)
  <2> SUFFICES ASSUME NEW name \in {"framebuffer", "sd"}
               PROVE  <<"call", name>> \in PlainOp
    OBVIOUS
  <2> QED
    BY DEF PlainOp
<1>3. pins_of_card \in Seq(PlainOp)
  BY PinsArePlain
<1>4. write(Greeting) \in Seq(PlainOp) /\ write(GpioSetUp) \in Seq(PlainOp)
  BY Texts, WriteIsPlain
<1>5. kernel_main = ((((init \o write(Greeting)) \o c("framebuffer"))
                        \o pins_of_card) \o write(GpioSetUp)) \o c("sd")
  BY DEF kernel_main
<1> HIDE DEF c
<1>6. InitThen(init \o write(Greeting))
  BY <1>1, <1>4, InitThenPlain
<1>7. InitThen((init \o write(Greeting)) \o c("framebuffer"))
  BY <1>2, <1>6, InitThenPlain
<1>8. InitThen(((init \o write(Greeting)) \o c("framebuffer")) \o pins_of_card)
  BY <1>3, <1>7, InitThenPlain
<1>9. InitThen((((init \o write(Greeting)) \o c("framebuffer")) \o pins_of_card)
                \o write(GpioSetUp))
  BY <1>4, <1>8, InitThenPlain
<1>10. InitThen(((((init \o write(Greeting)) \o c("framebuffer")) \o pins_of_card)
                \o write(GpioSetUp)) \o c("sd"))
  BY <1>2, <1>9, InitThenPlain
<1>11. QED
  BY <1>5, <1>10

(* What takes the place of the head of a program.                          *)
LEMMA Replaced ==
  ASSUME NEW S, NEW s \in Seq(S), s # << >>, NEW x \in Seq(S)
  PROVE  /\ x \o Tail(s) \in Seq(S) /\ Len(x \o Tail(s)) = Len(x) + Len(s) - 1
         /\ Len(x) \in Nat /\ Len(s) \in Nat \ {0} /\ Head(s) = s[1]
         /\ \A k \in 1 .. Len(x) : (x \o Tail(s))[k] = x[k]
         /\ \A k \in Len(x) + 1 .. Len(x) + Len(s) - 1 :
               /\ (x \o Tail(s))[k] = s[k - Len(x) + 1]
               /\ k - Len(x) + 1 \in 2 .. Len(s)
<1>1. /\ Tail(s) \in Seq(S) /\ Len(Tail(s)) = Len(s) - 1
      /\ \A i \in 1 .. Len(Tail(s)) : Tail(s)[i] = s[i + 1]
  BY HeadTailProperties
<1>2. Len(x) \in Nat /\ Len(s) \in Nat \ {0} /\ Head(s) = s[1]
  BY LenProperties
<1> DEFINE t == Tail(s)
<1> HIDE DEF t
<1>3. /\ x \o t \in Seq(S) /\ Len(x \o t) = Len(x) + Len(t)
      /\ \A k \in 1 .. Len(x) : (x \o t)[k] = x[k]
      /\ \A k \in Len(x) + 1 .. Len(x) + Len(t) : (x \o t)[k] = t[k - Len(x)]
  BY <1>1, Joined DEF t
<1>4. ASSUME NEW k \in Len(x) + 1 .. Len(x) + Len(s) - 1
      PROVE  /\ (x \o t)[k] = s[k - Len(x) + 1]
             /\ k - Len(x) + 1 \in 2 .. Len(s)
  <2>1. /\ k \in Len(x) + 1 .. Len(x) + Len(t) /\ k - Len(x) \in 1 .. Len(t)
        /\ k - Len(x) + 1 \in 2 .. Len(s)
    BY <1>1, <1>2, <1>4 DEF t
  <2> QED
    BY <1>1, <1>3, <2>1 DEF t
<1>5. QED
  BY <1>1, <1>2, <1>3, <1>4 DEF t

LEMMA LaterReplaced ==
  ASSUME NEW s \in Seq(Op), s # << >>, NEW pud, Later(s, 1, pud),
         NEW x \in Seq(Op), NEW g, Later(x, 1, 0),
         IF x = << >> THEN s[1] = <<"gppud", 2>> => g = 2 ELSE s[1] # <<"gppud", 2>>
  PROVE  Later(x \o Tail(s), 1, g)
<1> DEFINE t == x \o Tail(s)
<1>1. /\ t \in Seq(Op) /\ Len(t) = Len(x) + Len(s) - 1
      /\ Len(x) \in Nat /\ Len(s) \in Nat \ {0}
      /\ \A k \in 1 .. Len(x) : t[k] = x[k]
      /\ \A k \in Len(x) + 1 .. Len(x) + Len(s) - 1 :
            t[k] = s[k - Len(x) + 1] /\ k - Len(x) + 1 \in 2 .. Len(s)
  BY Replaced
<1> HIDE DEF t
<1>2. x = << >> <=> Len(x) = 0
  BY LenProperties
<1>3. ASSUME NEW k \in 1 .. Len(t)
      PROVE  /\ t[k] \in LaterOp
             /\ t[k] \in ClockOp => IF k = 1 THEN g = 2 ELSE t[k - 1] = <<"gppud", 2>>
  <2>1. CASE k \leq Len(x)
    <3>1. k \in 1 .. Len(x) /\ (k # 1 => k - 1 \in 1 .. Len(x)) /\ x # << >>
      BY <1>1, <1>2, <2>1
    <3>2. t[k] = x[k] /\ (k # 1 => t[k - 1] = x[k - 1])
      BY <1>1, <3>1
    <3>3. /\ x[k] \in LaterOp
          /\ x[k] \in ClockOp => k # 1 /\ x[k - 1] = <<"gppud", 2>>
      BY <3>1 DEF Later
    <3> QED
      BY <3>2, <3>3
  <2>2. CASE ~(k \leq Len(x))
    <3> DEFINE j == k - Len(x) + 1
    <3>1. k \in Len(x) + 1 .. Len(x) + Len(s) - 1 /\ j \in 2 .. Len(s)
      BY <1>1, <2>2
    <3>2. t[k] = s[j]
      BY <1>1, <3>1
    <3>3. j - 1 = k - Len(x) /\ j \in 1 .. Len(s) /\ j # 1
      BY <1>1, <3>1
    <3> HIDE DEF j
    <3>4. /\ s[j] \in LaterOp
          /\ s[j] \in ClockOp => s[j - 1] = <<"gppud", 2>>
      BY <3>3 DEF Later
    <3>5. CASE k = Len(x) + 1
      <4>1. j - 1 = 1 /\ (x = << >> <=> k = 1)
        BY <1>1, <1>2, <3>3, <3>5
      <4>2. s[j] \in ClockOp => s[1] = <<"gppud", 2>>
        BY <3>4, <4>1
      <4> QED
        BY <3>2, <3>4, <4>1, <4>2
    <3>6. CASE k # Len(x) + 1
      <4>1. /\ k - 1 \in Len(x) + 1 .. Len(x) + Len(s) - 1
            /\ (k - 1) - Len(x) + 1 = j - 1 /\ k # 1
        BY <1>1, <3>1, <3>3, <3>6
      <4>2. t[k - 1] = s[j - 1]
        BY <1>1, <4>1
      <4> QED
        BY <3>2, <3>4, <4>1, <4>2
    <3> QED
      BY <3>5, <3>6
  <2> QED
    BY <2>1, <2>2
<1>4. Later(t, 1, g)
  BY <1>3 DEF Later
<1>5. QED
  BY <1>4 DEF t

LEMMA PlainIsNoClock ==
  \A op \in PlainOp : op \in LaterOp /\ op \notin ClockOp /\ op \in Op
<1>1. ASSUME NEW op \in PlainOp, op \in ClockOp PROVE FALSE
  <2>1. op[1] = "clock" /\ op[2] \in 48 .. 53
    BY <1>1 DEF ClockOp
  <2> QED
    BY <2>1, <1>1 DEF PlainOp, PutOp, None
<1>2. QED
  BY <1>1, OpsAre

LEMMA PlainIsLater ==
  ASSUME NEW x \in Seq(PlainOp), NEW g
  PROVE  x \in Seq(Op) /\ Later(x, 1, g)
<1>1. x \in Seq(Op)
  <2>1. PlainOp \subseteq Op
    BY OpsAre
  <2> QED
    BY <2>1, SeqOfMore
<1>2. \A k \in 1 .. Len(x) : x[k] \in PlainOp
  BY LenProperties
<1>3. \A op \in PlainOp : op \in LaterOp /\ op \notin ClockOp
  BY PlainIsNoClock
<1>4. QED
  BY <1>1, <1>2, <1>3 DEF Later

LEMMA PinIs ==
  ASSUME NEW p \in 48 .. 53
  PROVE  /\ pin_of_card(p) \in Seq(Op) /\ pin_of_card(p) # << >>
         /\ Later(pin_of_card(p), 1, 0)
<1> DEFINE x == pin_of_card(p)
<1>1. /\ Len(x) = 5
      /\ x[1] = <<"fsel", p, alt3>> /\ x[2] = <<"gppud", 2>>
      /\ x[3] = <<"clock", p>> /\ x[4] = <<"gppud", 0>> /\ x[5] = <<"clock", None>>
  BY DEF pin_of_card, set_function, pull_up
<1>2. <<"fsel", p, alt3>> \in PlainOp
  BY DEF PlainOp
<1>3. <<"gppud", 2>> \in PlainOp /\ <<"gppud", 0>> \in PlainOp
      /\ <<"clock", None>> \in PlainOp
  BY DEF PlainOp
<1>4. <<"clock", p>> \in ClockOp
  BY DEF ClockOp
<1>5. \A op \in PlainOp : op \in LaterOp /\ op \notin ClockOp /\ op \in Op
  BY PlainIsNoClock
<1>6. \A op \in ClockOp : op \in LaterOp /\ op \in Op
  BY OpsAre
<1>7. x \in Seq(Op)
  <2> DEFINE o1 == <<"fsel", p, alt3>>
             o2 == <<"gppud", 2>>
             o3 == <<"clock", p>>
             o4 == <<"gppud", 0>>
             o5 == <<"clock", None>>
  <2>1. o1 \in Op /\ o2 \in Op /\ o3 \in Op /\ o4 \in Op /\ o5 \in Op
    BY <1>2, <1>3, <1>4, <1>5, <1>6
  <2>2. x = <<o1>> \o <<o2, o3, o4, o5>>
    BY DEF pin_of_card, set_function, pull_up
  <2> HIDE DEF o1, o2, o3, o4, o5, x
  <2>3. <<o1>> \in Seq(Op) /\ <<o2, o3, o4, o5>> \in Seq(Op)
    BY <2>1
  <2> QED
    BY <2>2, <2>3, Joined
<1> HIDE DEF x
<1>8. ASSUME NEW k \in 1 .. Len(x)
      PROVE  /\ x[k] \in LaterOp
             /\ x[k] \in ClockOp => IF k = 1 THEN 0 = 2 ELSE x[k - 1] = <<"gppud", 2>>
  <2>1. Len(x) = 5
    BY <1>1
  <2>2. \A n : n = 5 => \A j \in 1 .. n : j = 1 \/ j = 2 \/ j = 3 \/ j = 4 \/ j = 5
    OBVIOUS
  <2>3. k = 1 \/ k = 2 \/ k = 3 \/ k = 4 \/ k = 5
    BY <2>1, <2>2
  <2>4. /\ x[1] \in PlainOp /\ x[2] \in PlainOp /\ x[4] \in PlainOp /\ x[5] \in PlainOp
        /\ x[3] \in ClockOp /\ x[2] = <<"gppud", 2>>
    BY <1>1, <1>2, <1>3, <1>4
  <2>5. k = 3 => k # 1 /\ k - 1 = 2
    OBVIOUS
  <2> QED
    BY <1>5, <1>6, <2>3, <2>4, <2>5
<1>9. Later(x, 1, 0)
  BY <1>8 DEF Later
<1>10. x # << >>
  BY <1>1
<1>11. QED
  BY <1>7, <1>9, <1>10 DEF x

LEMMA KernelMainLater == Later(kernel_main, 17, 0)
BY KernelMainIs, PlainIsNoClock DEF Later, InitThen

(* What the other operations become.                                       *)
LEMMA HalfIs == Half \in Nat /\ 16 \leq Half /\ Word = Half * Half /\ 256 \leq Word
<1>1. HalfDigits \in Nat \ {0} /\ Word = Half * Half
  BY StartupAssumption DEF StartupAssumption
<1>2. /\ HalfDigits \in 0 .. 2 * HalfDigits /\ HalfDigits - 1 \in 0 .. 2 * HalfDigits
      /\ 0 \in 0 .. 2 * HalfDigits
  BY <1>1
<1>3. power[HalfDigits] = 16 * power[HalfDigits - 1]
  BY <1>1, <1>2, PowerIs
<1>4. power[HalfDigits - 1] \in Nat /\ power[HalfDigits] \in Nat
  BY <1>2, PowerIsNat
<1>5. power[HalfDigits] # 0
  <2>1. Word # 0
    BY FormatAssumption DEF FormatAssumption
  <2> QED
    BY <1>1, <2>1 DEF Half
<1>6. Half \in Nat /\ 16 \leq Half
  BY <1>3, <1>4, <1>5 DEF Half
<1>7. \A h \in Nat : 16 \leq h => 256 \leq h * h
  <2> SUFFICES ASSUME NEW h \in Nat, 16 \leq h PROVE 256 \leq h * h
    OBVIOUS
  <2>1. h * h \in Nat /\ 16 * h \leq h * h
    OBVIOUS
  <2> QED
    BY <2>1
<1>8. QED
  BY <1>1, <1>6, <1>7

LEMMA FormatIs ==
  ASSUME NEW op \in LaterOp, op[1] = "format"
  PROVE  format(op[2], op[3]) \in Text
<1>1. \/ op[2] = SizeFormat /\ \E v \in Sizes : op[3] = <<v>>
      \/ op[2] = ByteFormat /\ \E v \in 0 .. 255 : op[3] = <<v>>
  <2>1. \/ op \in {"format"} \X {SizeFormat} \X {<<size>> : size \in Sizes}
        \/ op \in {"format"} \X {ByteFormat} \X {<<byte>> : byte \in 0 .. 255}
    BY DEF LaterOp, PlainOp, PutOp, ClockOp
  <2> QED
    BY <2>1
<1>2. Word \in Nat /\ 256 \leq Word
  BY HalfIs, FormatAssumption DEF FormatAssumption
<1>3. \A v \in Sizes : v \in 0 .. Word - 1
  <2>1. Sizes \subseteq 0 .. (Word \div 2) - 1
    BY StartupAssumption DEF StartupAssumption
  <2> QED
    BY <1>2, <2>1
<1>4. \A v \in 0 .. 255 : v \in 0 .. Word - 1
  BY <1>2
<1>5. \A v \in 0 .. Word - 1 : <<v>> \in Seq(0 .. Word - 1)
  OBVIOUS
<1>6. op[2] \in Text /\ Formed(op[2]) /\ op[3] \in Seq(0 .. Word - 1)
  <2> HIDE DEF SizeFormat, ByteFormat
  <2> QED
    BY <1>1, <1>3, <1>4, <1>5, Texts
<1>7. QED
  BY <1>6, FormatIsText

LEMMA DumpIs ==
  ASSUME NEW buf \in Sectors
  PROVE  dump(buf) \in Seq(PlainOp)
<1>1. buf \in Seq(0 .. 255)
  BY StartupAssumption DEF StartupAssumption
<1>2. Len(buf) \in Nat /\ DOMAIN buf = 1 .. Len(buf)
      /\ \A i \in 1 .. Len(buf) : buf[i] \in 0 .. 255
  BY <1>1, LenProperties
<1>3. \A i \in 1 .. Len(buf) : <<"byte", i, buf[i]>> \in PlainOp
  <2>1. \A i \in Nat, b \in 0 .. 255 : <<"byte", i, b>> \in PlainOp
    BY DEF PlainOp
  <2>2. \A i \in 1 .. Len(buf) : i \in Nat
    BY <1>2
  <2> QED
    BY <1>2, <2>1, <2>2
<1>4. dump(buf) \in [1 .. Len(buf) -> PlainOp]
  BY <1>2, <1>3 DEF dump
<1>5. QED
  BY <1>2, <1>4, SeqOfLength, Zenon

LEMMA DumpByteIs ==
  ASSUME NEW op \in LaterOp, op[1] = "byte"
  PROVE  dump_byte(op[2], op[3]) \in Seq(PlainOp)
<1>1. op[2] \in Nat /\ op[3] \in 0 .. 255
  BY DEF LaterOp, PlainOp, PutOp, ClockOp
<1>2. <<"put", "\n">> \in PlainOp
  BY DEF PlainOp, PutOp, Symbol, Marks
<1>3. \A b \in 0 .. 255 : <<"format", ByteFormat, <<b>> >> \in PlainOp
  BY DEF PlainOp
<1> DEFINE line == <<"put", "\n">>
           fmtOp == <<"format", ByteFormat, <<op[3]>> >>
<1>4. dump_byte(op[2], op[3]) = (IF (op[2] - 1) % 16 = 0 THEN <<line>> ELSE << >>) \o <<fmtOp>>
  BY DEF dump_byte, text
<1>5. line \in PlainOp /\ fmtOp \in PlainOp
  BY <1>1, <1>2, <1>3
<1> HIDE DEF line, fmtOp
<1>6. <<line>> \in Seq(PlainOp) /\ << >> \in Seq(PlainOp) /\ <<fmtOp>> \in Seq(PlainOp)
  BY <1>5
<1>7. QED
  BY <1>4, <1>6, Joined

LEMMA SizeIs ==
  ASSUME NEW size \in Sizes
  PROVE  size_of_card(size) \in Seq(PlainOp)
<1> DEFINE a == <<"format", SizeFormat, <<size>> >>
           b == <<"call", "read">>
<1>1. a \in PlainOp
  BY DEF PlainOp
<1>2. b \in PlainOp
  BY DEF PlainOp
<1>3. size_of_card(size) = <<a, b>>
  BY DEF size_of_card
<1> HIDE DEF a, b
<1>4. QED
  BY <1>1, <1>2, <1>3

LEMMA PrintsAreText ==
  ASSUME NEW print \in Prints
  PROVE  print \in Text
<1>1. print \in Seq({"message", "\n"})
  BY StartupAssumption DEF StartupAssumption
<1>2. {"message", "\n"} \subseteq Symbol
  BY DEF Symbol, Words, Marks
<1>3. QED
  BY <1>1, <1>2, SeqOfMore DEF Text

LEMMA OutcomeIs ==
  ASSUME NEW size \in Sizes \cup {None}
  PROVE  outcome(size) \in Seq(PlainOp)
<1>1. CASE size = None
  BY <1>1, Texts, WriteIsPlain DEF outcome
<1>2. CASE size # None
  BY <1>2, SizeIs DEF outcome
<1>3. QED
  BY <1>1, <1>2

LEMMA RestartIs ==
  ASSUME NEW print \in Prints
  PROVE  restart(print) \in Seq(PlainOp)
<1>1. GpioSetUp \o print \in Text
  BY PrintsAreText, Texts, TextConcat
<1>2. write(GpioSetUp \o print) \in Seq(PlainOp)
  BY <1>1, WriteIsPlain
<1>3. QED
  BY <1>2, PinsArePlain, Joined DEF restart

LEMMA ReportIs ==
  ASSUME NEW f \in Faults
  PROVE  exc_handler(f) \in Seq(Op \cap HandlerOp(f))
<1> DEFINE H == Op \cap HandlerOp(f)
<1>1. /\ Half \in Nat /\ 16 \leq Half /\ Word \in Nat /\ registers(f) \subseteq 0 .. Word - 1
  BY HalfIs, FormatAssumption, StartupAssumption
     DEF FormatAssumption, StartupAssumption, registers
<1>2. ASSUME NEW v \in registers(f) PROVE register(v) \in Seq(H)
  <2> DEFINE a == <<"number", v \div Half>>
             b == <<"number", v>>
  <2>1. v \in 0 .. Word - 1
    BY <1>1
  <2>2. v \div Half \in 0 .. Word - 1
    <3>1. \A h \in Nat, w \in Nat : 16 \leq h => w \div h \in Nat /\ w \div h \leq w
      OBVIOUS
    <3> QED
      BY <1>1, <2>1, <3>1
  <2>3. a \in H
    BY <2>2 DEF Op, HandlerOp
  <2>4. b \in H
    BY <2>1 DEF Op, HandlerOp
  <2>5. register(v) = <<a, b>>
    BY DEF register
  <2> HIDE DEF a, b, H
  <2> QED
    BY <2>3, <2>4, <2>5
<1>3. ASSUME NEW txt \in Text PROVE write(txt) \in Seq(H)
  <2>1. PutOp \subseteq H
    BY OpsAre DEF HandlerOp
  <2> HIDE DEF H
  <2> QED
    BY <2>1, WriteIs, SeqOfMore
<1>4. ASSUME NEW w \in Symbol PROVE text(w) \in Seq(H)
  <2>1. <<"put", w>> \in H
    BY OpsAre DEF PutOp, HandlerOp
  <2> HIDE DEF H
  <2> QED
    BY <2>1 DEF text
<1> DEFINE t1 == <<"Exception: ", "Synchronous", "\n", "Exception class: ", "class">>
           t2 == <<", Fault cause: ", "cause", "level">>
<1>5. t1 \in Text
  BY DEF Text, Symbol, Words, Marks
<1>6. t2 \in Text
  BY DEF Text, Symbol, Words
<1>7. /\ "\n" \in Symbol /\ "ESR_EL1: " \in Symbol /\ "ELR_EL1: " \in Symbol
      /\ "SPSR_EL1: " \in Symbol /\ "FAR_EL1: " \in Symbol
  BY DEF Symbol, Words, Marks
<1>8. /\ f.esr \in registers(f) /\ f.elr \in registers(f)
      /\ f.spsr \in registers(f) /\ f.far \in registers(f)
  BY DEF registers
<1> DEFINE s1 == IF f.abort THEN write(t2) ELSE << >>
           n  == text("\n")
           u1 == text("ESR_EL1: ")
           u2 == text("ELR_EL1: ")
           u3 == text("SPSR_EL1: ")
           u4 == text("FAR_EL1: ")
<1>9. exc_handler(f) =
        (((((((((((( write(t1) \o s1) \o n) \o u1) \o register(f.esr))
          \o n) \o u2) \o register(f.elr)) \o n) \o u3) \o register(f.spsr))
          \o n) \o u4) \o register(f.far)
  BY DEF exc_handler
<1> HIDE DEF t1, t2, H
<1>10. write(t1) \in Seq(H) /\ write(t2) \in Seq(H) /\ << >> \in Seq(H)
  BY <1>3, <1>5, <1>6
<1>11. /\ s1 \in Seq(H) /\ n \in Seq(H) /\ u1 \in Seq(H) /\ u2 \in Seq(H)
       /\ u3 \in Seq(H) /\ u4 \in Seq(H)
  BY <1>4, <1>7, <1>10
<1>12. /\ register(f.esr) \in Seq(H) /\ register(f.elr) \in Seq(H)
       /\ register(f.spsr) \in Seq(H) /\ register(f.far) \in Seq(H)
  BY <1>2, <1>8
<1> HIDE DEF s1, n, u1, u2, u3, u4
<1>13. \A s, t \in Seq(H) : s \o t \in Seq(H)
  BY Joined
<1>14. (((((write(t1) \o s1) \o n) \o u1) \o register(f.esr)) \o n) \o u2 \in Seq(H)
  BY <1>10, <1>11, <1>12, <1>13
<1>15. QED
  BY <1>9, <1>11, <1>12, <1>13, <1>14 DEF H

-----------------------------------------------------------------------------
(* The UART and the pins.                                                  *)
Registers == {"enable", "cntl", "lcr", "mcr", "ier", "iir", "baud"}

(* An operation that leaves a pin with the pull it asks for.               *)
Safe(op) ==
    \/ op[1] = "mu" /\ op[2] \in Registers /\ op[3] \in Nat
    \/ op[1] = "fsel" /\ op[2] \in {14, 15} /\ op[3] = alt5
    \/ op[1] = "fsel" /\ op[2] \in 48 .. 53 /\ op[3] = alt3
    \/ op[1] = "gppud" /\ op[2] \in {0, 2}
    \/ op[1] = "clock" /\ op[2] = None
    \/ op[1] = "clock" /\ op[2] \in {14, 15} /\ gppud = 0
    \/ op[1] = "clock" /\ op[2] \in 48 .. 53 /\ gppud = 2
    \/ op[1] = "put" /\ op[2] \in Symbol

LEMMA FieldOf ==
  \A p \in Pin : p \div 10 \in 0 .. 5 /\ (p % 10) \in 0 .. 9
                   /\ p = 10 * (p \div 10) + (p % 10)
<1> SUFFICES ASSUME NEW p \in 0 .. 53
             PROVE  p \div 10 \in 0 .. 5 /\ (p % 10) \in 0 .. 9
                      /\ p = 10 * (p \div 10) + (p % 10)
  BY DEF Pin
<1> QED
  OBVIOUS

(* One pin's function changes and no other's, in the same register too.    *)
Fields == [0 .. 5 -> [0 .. 9 -> 0 .. 7]]
Func == 0 .. 7
Field(f, q) == f[q \div 10][q % 10]
Written(f, p, v) == [f EXCEPT ![p \div 10][p % 10] = v]

LEMMA FunctionWritten ==
  ASSUME NEW old \in Fields, NEW p \in Pin, NEW v \in Func
  PROVE  /\ Written(old, p, v) \in Fields
         /\ \A q \in Pin : Field(Written(old, p, v), q) =
                            IF q = p THEN v ELSE Field(old, q)
<1> DEFINE new == Written(old, p, v)
<1> USE DEF Written, Fields, Func, Field
<1>1. p \div 10 \in 0 .. 5 /\ p % 10 \in 0 .. 9
  BY FieldOf
<1>2. new \in [0 .. 5 -> [0 .. 9 -> 0 .. 7]]
  BY <1>1
<1>3. ASSUME NEW q \in Pin
      PROVE  new[q \div 10][q % 10] = IF q = p THEN v ELSE old[q \div 10][q % 10]
  <2>1. q \div 10 \in 0 .. 5 /\ (q % 10) \in 0 .. 9
    BY FieldOf
  <2>2. q # p => q \div 10 # p \div 10 \/ (q % 10) # (p % 10)
    <3>1. p = 10 * (p \div 10) + (p % 10) /\ q = 10 * (q \div 10) + (q % 10)
      BY FieldOf
    <3> QED
      BY <3>1
  <2> QED
    BY <1>1, <2>1, <2>2
<1>4. QED
  BY <1>2, <1>3

LEMMA LinesAfterOp ==
  ASSUME Lines, machine' = machine, NEW op, Safe(op), Do(op)
  PROVE  Lines'
<1> USE DEF alt3, alt5, None
<1>1. CASE WriteUart(op)
  <2>1. op[1] = "mu" /\ op[2] \in Registers /\ op[3] \in Nat
    BY <1>1 DEF WriteUart, Safe
  <2>2. mu' \in [Registers -> Nat]
    BY <1>1, <2>1 DEF WriteUart, Lines, Registers
  <2>3. fifo' \in Seq(Sent) /\ Len(fifo') \leq FifoDepth
    <3>1. << >> \in Seq(Sent) /\ Len(<< >>) = 0
      OBVIOUS
    <3>2. FifoDepth \in Nat
      BY UartAssumption DEF UartAssumption
    <3>3. fifo' = fifo \/ fifo' = << >>
      BY <1>1 DEF WriteUart
    <3>4. fifo \in Seq(Sent) /\ Len(fifo) \leq FifoDepth
      BY DEF Lines
    <3>5. CASE fifo' = fifo
      BY <3>4, <3>5
    <3>6. CASE fifo' = << >>
      <4>1. 0 \leq FifoDepth
        BY <3>2
      <4> QED
        BY <3>1, <3>6, <4>1, Zenon
    <3> QED
      BY <3>3, <3>5, <3>6
  <2>4. UNCHANGED <<fsel, gppud, pull>>
    BY <1>1 DEF WriteUart
  <2> QED
    BY <2>2, <2>3, <2>4 DEF Lines, PinsApart, function, Registers
<1>2. CASE WriteFunction(op)
  <2>1. op[1] = "fsel"
    BY <1>2 DEF WriteFunction
  <2>2. /\ op[2] \in Pin /\ op[3] \in 0 .. 7
        /\ \/ op[2] \in {14, 15} /\ op[3] = alt5
           \/ op[2] \in 48 .. 53 /\ op[3] = alt3
    BY <2>1 DEF Safe, Pin
  <2>3. /\ fsel' = Written(fsel, op[2], op[3])
        /\ UNCHANGED <<mu, fifo, gppud, pull>>
    BY <1>2 DEF WriteFunction, Written
  <2>4. fsel \in Fields /\ op[2] \in Pin /\ op[3] \in Func
    BY <2>2 DEF Lines, Fields, Func
  <2>5. /\ fsel' \in Fields
        /\ \A q \in Pin : Field(fsel', q) = IF q = op[2] THEN op[3] ELSE Field(fsel, q)
    <3>1. /\ Written(fsel, op[2], op[3]) \in Fields
          /\ \A q \in Pin : Field(Written(fsel, op[2], op[3]), q) =
                 IF q = op[2] THEN op[3] ELSE Field(fsel, q)
      BY <2>4, FunctionWritten, Zenon
    <3> QED
      BY <2>3, <3>1, Zenon
  <2>6. \A q \in Pin : function(q)' = IF q = op[2] THEN op[3] ELSE function(q)
    BY <2>5 DEF function, Field
  <2> HIDE DEF function
  <2>7. PinsApart'
    BY <2>2, <2>3, <2>6 DEF Lines, PinsApart
  <2> QED
    BY <2>3, <2>5, <2>7 DEF Lines, Fields
<1>3. CASE WritePull(op)
  <2>1. UNCHANGED <<mu, fifo, fsel>>
    BY <1>3 DEF WritePull
  <2> DEFINE Pulled(q) == \/ q \in {14, 15} /\ gppud = 0
                          \/ q \in 48 .. 53 /\ gppud = 2
  <2>2. gppud \in {0, 2} /\ pull \in [Pin -> 0 .. 2]
    BY DEF Lines
  <2>3. \/ gppud' \in {0, 2} /\ pull' = pull
        \/ /\ gppud' = gppud
           /\ \E q \in Pin : Pulled(q) /\ pull' = [pull EXCEPT ![q] = gppud]
    <3>1. CASE op[1] = "gppud"
      <4>1. op[2] \in {0, 2}
        BY <3>1 DEF Safe
      <4> QED
        BY <1>3, <3>1, <4>1 DEF WritePull
    <3>2. CASE op[1] = "clock"
      <4>1. op[2] = None \/ Pulled(op[2])
        BY <3>2 DEF Safe
      <4>2. \A q : Pulled(q) => q \in Pin /\ q # None
        BY DEF Pin
      <4>3. /\ gppud' = gppud
            /\ pull' = IF op[2] = None THEN pull ELSE [pull EXCEPT ![op[2]] = gppud]
        BY <1>3, <3>2 DEF WritePull
      <4> HIDE DEF Pulled, None
      <4> QED
        BY <2>2, <4>1, <4>2, <4>3
    <3> QED
      BY <1>3, <3>1, <3>2 DEF WritePull
  <2>4. /\ gppud' \in {0, 2} /\ pull' \in [Pin -> 0 .. 2]
        /\ \A p \in Pin : \/ pull'[p] = pull[p]
                          \/ p \in {14, 15} /\ pull'[p] = 0
                          \/ p \in 48 .. 53 /\ pull'[p] = 2
    <3>1. CASE gppud' \in {0, 2} /\ pull' = pull
      BY <2>2, <3>1
    <3>2. ASSUME NEW q \in Pin, Pulled(q), pull' = [pull EXCEPT ![q] = gppud],
                 gppud' = gppud
          PROVE  /\ gppud' \in {0, 2} /\ pull' \in [Pin -> 0 .. 2]
                 /\ \A p \in Pin : \/ pull'[p] = pull[p]
                                   \/ p \in {14, 15} /\ pull'[p] = 0
                                   \/ p \in 48 .. 53 /\ pull'[p] = 2
      BY <2>2, <3>2
    <3> QED
      BY <2>3, <3>1, <3>2
  <2>5. \A p \in Pin : function(p)' = function(p)
    BY <2>1 DEF function
  <2> HIDE DEF function
  <2>6. PinsApart'
    <3> SUFFICES ASSUME NEW p \in Pin
                 PROVE  /\ \/ function(p)' = machine.func
                           \/ p \in {14, 15} /\ function(p)' = alt5
                           \/ p \in 48 .. 53 /\ function(p)' = alt3
                        /\ pull'[p] # 1 => IF p \in {14, 15} THEN pull'[p] = 0
                                           ELSE p \in 48 .. 53 /\ pull'[p] = 2
      BY DEF PinsApart
    <3>1. /\ \/ function(p) = machine.func
             \/ p \in {14, 15} /\ function(p) = alt5
             \/ p \in 48 .. 53 /\ function(p) = alt3
          /\ pull[p] # 1 => IF p \in {14, 15} THEN pull[p] = 0
                            ELSE p \in 48 .. 53 /\ pull[p] = 2
      BY DEF Lines, PinsApart
    <3>2. p \in {14, 15} => p \notin 48 .. 53
      OBVIOUS
    <3> QED
      BY <2>4, <2>5, <3>1, <3>2
  <2> QED
    BY <2>1, <2>4, <2>6 DEF Lines
<1>4. CASE Put(op)
  <2>1. op[2] \in Symbol /\ Len(fifo) < FifoDepth /\ fifo' = Append(fifo, op[2])
        /\ UNCHANGED <<mu, fsel, gppud, pull>>
    BY <1>4 DEF Put, Safe
  <2>2. fifo \in Seq(Sent) /\ op[2] \in Sent
    BY <2>1 DEF Lines, Sent
  <2>3. fifo' \in Seq(Sent) /\ Len(fifo') = Len(fifo) + 1 /\ Len(fifo) \in Nat
    BY <2>1, <2>2, AppendProperties, LenProperties
  <2>4. Len(fifo') \leq FifoDepth
    BY <2>1, <2>3, UartAssumption DEF UartAssumption
  <2> QED
    BY <2>1, <2>3, <2>4 DEF Lines, PinsApart, function
<1>5. QED
  BY <1>1, <1>2, <1>3, <1>4 DEF Do

LEMMA LinesAfterTransmit ==
  ASSUME Lines, machine' = machine, Transmit
  PROVE  Lines'
<1>1. fifo # << >> /\ fifo' = Tail(fifo) /\ UNCHANGED <<mu, fsel, gppud, pull>>
  BY DEF Transmit
<1>2. fifo \in Seq(Sent) /\ Len(fifo) \leq FifoDepth
  BY DEF Lines
<1>3. fifo' \in Seq(Sent) /\ Len(fifo') = Len(fifo) - 1 /\ Len(fifo) \in Nat
  BY <1>1, <1>2, HeadTailProperties, LenProperties
<1>4. Len(fifo') \leq FifoDepth
  BY <1>2, <1>3, UartAssumption DEF UartAssumption
<1>5. QED
  BY <1>1, <1>3, <1>4 DEF Lines, PinsApart, function

-----------------------------------------------------------------------------
(* init, one operation after another.                                      *)
LEMMA AfterMu ==
  ASSUME Lines, NEW r \in Registers, NEW v, Do(<<"mu", r, v>>),
         r = "enable" \/ mu.enable = 1
  PROVE  /\ mu' = [mu EXCEPT ![r] = v]
         /\ UNCHANGED <<fsel, gppud, pull>>
BY DEF Do, WriteUart, WriteFunction, WritePull, Put

LEMMA AfterPin ==
  ASSUME NEW op, Do(op)
  PROVE  /\ op[1] \in {"fsel", "gppud", "clock", "put"} => mu' = mu
         /\ op[1] \in {"gppud", "clock", "mu", "put"} => fsel' = fsel
         /\ op[1] \in {"fsel", "mu", "put"} => gppud' = gppud /\ pull' = pull
         /\ op[1] = "gppud" => gppud' = op[2] /\ pull' = pull
         /\ op[1] = "clock" =>
              /\ gppud' = gppud
              /\ pull' = IF op[2] = None THEN pull ELSE [pull EXCEPT ![op[2]] = gppud]
         /\ op[1] = "fsel" => fsel' = Written(fsel, op[2], op[3])
BY DEF Do, WriteUart, WriteFunction, WritePull, Put, Written

(* A pin's function after an operation.                                    *)
LEMMA AfterFunction ==
  ASSUME Lines, NEW p \in Pin, NEW v \in Func, fsel' = Written(fsel, p, v)
  PROVE  \A q \in Pin : function(q)' = IF q = p THEN v ELSE function(q)
<1>1. fsel \in Fields
  BY DEF Lines, Fields
<1>2. \A q \in Pin : Field(Written(fsel, p, v), q) = IF q = p THEN v ELSE Field(fsel, q)
  BY <1>1, FunctionWritten, Zenon
<1>3. \A q \in Pin : Field(fsel', q) = IF q = p THEN v ELSE Field(fsel, q)
  BY <1>2
<1>4. QED
  BY <1>3 DEF Field, function

LEMMA DoneStep ==
  ASSUME Lines, NEW n \in 0 .. 15, Done(n), Do(init[n + 1])
  PROVE  /\ Safe(init[n + 1])
         /\ Done(n + 1)'
         /\ mu.cntl # 3 /\ mu'.cntl = 3 => Line = <<270, 3, alt5, alt5, 0, 0>>
         /\ Line' # Line => mu.cntl = 0
<1>1. ASSUME NEW r \in Registers, NEW v \in Nat, init[n + 1] = <<"mu", r, v>>,
             r = "enable" \/ n \geq 1
      PROVE  /\ Safe(init[n + 1])
             /\ mu' = [mu EXCEPT ![r] = v]
             /\ mu \in [Registers -> Nat]
             /\ function(14)' = function(14) /\ function(15)' = function(15)
             /\ gppud' = gppud /\ pull' = pull
  <2>1. r = "enable" \/ mu.enable = 1
    BY <1>1 DEF Done
  <2>2. mu' = [mu EXCEPT ![r] = v] /\ UNCHANGED <<fsel, gppud, pull>>
    BY <1>1, <2>1, AfterMu
  <2>3. Safe(init[n + 1])
    BY <1>1 DEF Safe
  <2>4. mu \in [Registers -> Nat]
    BY DEF Lines, Registers
  <2> QED
    BY <2>2, <2>3, <2>4 DEF function
<1>2. ASSUME NEW p \in {14, 15}, init[n + 1] = <<"fsel", p, alt5>>
      PROVE  /\ Safe(init[n + 1])
             /\ mu' = mu /\ gppud' = gppud /\ pull' = pull
             /\ function(p)' = alt5
             /\ \A q \in {14, 15} \ {p} : function(q)' = function(q)
  <2>1. p \in Pin /\ 14 \in Pin /\ 15 \in Pin /\ alt5 \in Func
    BY DEF Pin, Func, alt5
  <2>2. fsel' = Written(fsel, p, alt5) /\ mu' = mu /\ gppud' = gppud /\ pull' = pull
    BY <1>2, AfterPin
  <2>3. \A q \in Pin : function(q)' = IF q = p THEN alt5 ELSE function(q)
    BY <2>1, <2>2, AfterFunction
  <2>4. Safe(init[n + 1])
    BY <1>2 DEF Safe
  <2> QED
    BY <2>1, <2>2, <2>3, <2>4
<1>3. ASSUME init[n + 1] = <<"gppud", 0>>
      PROVE  /\ Safe(init[n + 1])
             /\ mu' = mu /\ gppud' = 0 /\ pull' = pull
             /\ function(14)' = function(14) /\ function(15)' = function(15)
  <2>1. fsel' = fsel /\ mu' = mu /\ gppud' = 0 /\ pull' = pull
    BY <1>3, AfterPin
  <2>2. Safe(init[n + 1])
    BY <1>3 DEF Safe
  <2> QED
    BY <2>1, <2>2 DEF function
<1>4. ASSUME init[n + 1] = <<"clock", None>>
      PROVE  /\ Safe(init[n + 1])
             /\ mu' = mu /\ gppud' = gppud /\ pull' = pull
             /\ function(14)' = function(14) /\ function(15)' = function(15)
  <2>1. fsel' = fsel /\ mu' = mu /\ gppud' = gppud /\ pull' = pull
    BY <1>4, AfterPin
  <2>2. Safe(init[n + 1])
    BY <1>4 DEF Safe
  <2> QED
    BY <2>1, <2>2 DEF function
<1>5. ASSUME NEW p \in {14, 15}, init[n + 1] = <<"clock", p>>, gppud = 0
      PROVE  /\ Safe(init[n + 1])
             /\ mu' = mu /\ gppud' = 0 /\ pull'[p] = 0
             /\ \A q \in {14, 15} \ {p} : pull'[q] = pull[q]
             /\ function(14)' = function(14) /\ function(15)' = function(15)
  <2>1. fsel' = fsel /\ mu' = mu /\ gppud' = gppud
        /\ pull' = IF p = None THEN pull ELSE [pull EXCEPT ![p] = gppud]
    BY <1>5, AfterPin
  <2>2. pull \in [Pin -> 0 .. 2] /\ p \in Pin /\ 14 \in Pin /\ 15 \in Pin /\ p # None
    <3>1. pull \in [Pin -> 0 .. 2]
      BY DEF Lines
    <3>2. p \in Pin /\ 14 \in Pin /\ 15 \in Pin /\ p # None
      BY DEF Pin, None
    <3> QED
      BY <3>1, <3>2
  <2>3. Safe(init[n + 1])
    BY <1>5 DEF Safe
  <2>4. pull' = [pull EXCEPT ![p] = 0]
    BY <1>5, <2>1, <2>2
  <2> HIDE DEF None
  <2> QED
    BY <1>5, <2>1, <2>2, <2>3, <2>4 DEF function
<1> USE DEF Done, Line
<1>6. CASE n = 0
  <2>1. init[n + 1] = <<"mu", "enable", 1>> /\ "enable" \in Registers /\ 1 \in Nat
    BY <1>6, InitIs DEF Registers
  <2> QED
    BY <1>1, <1>6, <2>1 DEF Registers
<1>7. CASE n = 1
  <2>1. init[n + 1] = <<"mu", "cntl", 0>> /\ "cntl" \in Registers /\ 0 \in Nat
    BY <1>7, InitIs DEF Registers
  <2> QED
    BY <1>1, <1>7, <2>1 DEF Registers
<1>8. CASE n = 2
  <2>1. init[n + 1] = <<"mu", "lcr", 3>> /\ "lcr" \in Registers /\ 3 \in Nat
    BY <1>8, InitIs DEF Registers
  <2> QED
    BY <1>1, <1>8, <2>1 DEF Registers
<1>9. CASE n = 3
  <2>1. init[n + 1] = <<"mu", "mcr", 0>> /\ "mcr" \in Registers /\ 0 \in Nat
    BY <1>9, InitIs DEF Registers
  <2> QED
    BY <1>1, <1>9, <2>1 DEF Registers
<1>10. CASE n = 4
  <2>1. init[n + 1] = <<"mu", "ier", 0>> /\ "ier" \in Registers /\ 0 \in Nat
    BY <1>10, InitIs DEF Registers
  <2> QED
    BY <1>1, <1>10, <2>1 DEF Registers
<1>11. CASE n = 5
  <2>1. init[n + 1] = <<"mu", "iir", 198>> /\ "iir" \in Registers /\ 198 \in Nat
    BY <1>11, InitIs DEF Registers
  <2> QED
    BY <1>1, <1>11, <2>1 DEF Registers
<1>12. CASE n = 6
  <2>1. init[n + 1] = <<"mu", "baud", 270>> /\ "baud" \in Registers /\ 270 \in Nat
    BY <1>12, InitIs DEF Registers
  <2> QED
    BY <1>1, <1>12, <2>1 DEF Registers
<1>13. CASE n = 7
  <2>1. init[n + 1] = <<"fsel", 14, alt5>>
    BY <1>13, InitIs
  <2> QED
    BY <1>2, <1>13, <2>1
<1>14. CASE n = 8
  <2>1. init[n + 1] = <<"fsel", 15, alt5>>
    BY <1>14, InitIs
  <2> QED
    BY <1>2, <1>14, <2>1
<1>15. CASE n = 9
  <2>1. init[n + 1] = <<"gppud", 0>>
    BY <1>15, InitIs
  <2> QED
    BY <1>3, <1>15, <2>1
<1>16. CASE n = 10
  <2>1. init[n + 1] = <<"clock", 14>> /\ gppud = 0
    BY <1>16, InitIs
  <2> QED
    BY <1>5, <1>16, <2>1
<1>17. CASE n = 11
  <2>1. init[n + 1] = <<"clock", None>>
    BY <1>17, InitIs
  <2> QED
    BY <1>4, <1>17, <2>1
<1>18. CASE n = 12
  <2>1. init[n + 1] = <<"gppud", 0>>
    BY <1>18, InitIs
  <2> QED
    BY <1>3, <1>18, <2>1
<1>19. CASE n = 13
  <2>1. init[n + 1] = <<"clock", 15>> /\ gppud = 0
    BY <1>19, InitIs
  <2> QED
    BY <1>5, <1>19, <2>1
<1>20. CASE n = 14
  <2>1. init[n + 1] = <<"clock", None>>
    BY <1>20, InitIs
  <2> QED
    BY <1>4, <1>20, <2>1
<1>21. CASE n = 15
  <2>1. init[n + 1] = <<"mu", "cntl", 3>> /\ "cntl" \in Registers /\ 3 \in Nat
    BY <1>21, InitIs DEF Registers
  <2> QED
    BY <1>1, <1>21, <2>1 DEF Registers
<1>22. n = 0 \/ n = 1 \/ n = 2 \/ n = 3 \/ n = 4 \/ n = 5 \/ n = 6 \/ n = 7
      \/ n = 8 \/ n = 9 \/ n = 10 \/ n = 11 \/ n = 12 \/ n = 13 \/ n = 14 \/ n = 15
  OBVIOUS
<1> HIDE DEF Done, Line
<1>23. QED
  BY <1>6, <1>7, <1>8, <1>9, <1>10, <1>11, <1>12, <1>13, <1>14, <1>15, <1>16, <1>17, <1>18, <1>19, <1>20, <1>21, <1>22

(* What is not of init changes neither the UART nor its pins.              *)
LEMMA LaterStep ==
  ASSUME Lines, Done(16), NEW op \in LaterOp, op \in ClockOp => gppud = 2, Do(op)
  PROVE  /\ Safe(op) /\ Done(16)'
         /\ mu' = mu /\ Line' = Line
         /\ op = <<"gppud", 2>> => gppud' = 2
<1>1. pull \in [Pin -> 0 .. 2] /\ 14 \in Pin /\ 15 \in Pin
  <2>1. pull \in [Pin -> 0 .. 2]
    BY DEF Lines
  <2> QED
    BY <2>1 DEF Pin
<1>2. ASSUME op \in PutOp
      PROVE  /\ Safe(op) /\ op # <<"gppud", 2>>
             /\ mu' = mu /\ fsel' = fsel /\ gppud' = gppud /\ pull' = pull
  <2>1. op[1] = "put" /\ op[2] \in Symbol
    BY <1>2, Tags
  <2> QED
    BY <2>1, AfterPin DEF Safe
<1>3. ASSUME NEW v \in {0, 2}, op = <<"gppud", v>>
      PROVE  Safe(op) /\ mu' = mu /\ fsel' = fsel /\ gppud' = v /\ pull' = pull
  BY <1>3, AfterPin DEF Safe
<1>4. ASSUME op = <<"clock", None>>
      PROVE  /\ Safe(op) /\ op # <<"gppud", 2>>
             /\ mu' = mu /\ fsel' = fsel /\ gppud' = gppud /\ pull' = pull
  <2>1. op[1] = "clock" /\ op[2] = None
    BY <1>4
  <2> HIDE DEF None
  <2> QED
    BY <2>1, AfterPin DEF Safe
<1>5. ASSUME NEW p \in 48 .. 53, op = <<"clock", p>>
      PROVE  /\ Safe(op) /\ op # <<"gppud", 2>>
             /\ mu' = mu /\ fsel' = fsel /\ gppud' = gppud
             /\ pull'[14] = pull[14] /\ pull'[15] = pull[15]
  <2>1. op[1] = "clock" /\ op[2] = p /\ op \in ClockOp
    BY <1>5 DEF ClockOp
  <2>2. p \in Pin /\ p # None /\ p # 14 /\ p # 15
    BY DEF Pin, None
  <2>3. gppud = 2
    BY <2>1
  <2>4. Safe(op)
    BY <2>1, <2>3 DEF Safe
  <2> HIDE DEF None
  <2>5. mu' = mu /\ fsel' = fsel /\ gppud' = gppud /\ pull' = [pull EXCEPT ![p] = gppud]
    BY <2>1, <2>2, AfterPin
  <2> QED
    BY <1>1, <2>1, <2>2, <2>4, <2>5
<1>6. ASSUME NEW p \in 48 .. 53, op = <<"fsel", p, alt3>>
      PROVE  /\ Safe(op) /\ op # <<"gppud", 2>>
             /\ mu' = mu /\ gppud' = gppud /\ pull' = pull
             /\ function(14)' = function(14) /\ function(15)' = function(15)
  <2>1. op[1] = "fsel" /\ op[2] = p /\ op[3] = alt3
    BY <1>6
  <2>2. p \in Pin /\ p # 14 /\ p # 15 /\ alt3 \in Func
    BY DEF Pin, alt3, Func
  <2>3. fsel' = Written(fsel, p, alt3) /\ mu' = mu /\ gppud' = gppud /\ pull' = pull
    BY <2>1, AfterPin
  <2>4. \A q \in Pin : function(q)' = IF q = p THEN alt3 ELSE function(q)
    BY <2>2, <2>3, AfterFunction
  <2>5. Safe(op)
    BY <2>1 DEF Safe
  <2> QED
    BY <1>1, <2>1, <2>2, <2>3, <2>4, <2>5
<1>7. \/ op \in PutOp \/ op = <<"gppud", 0>> \/ op = <<"gppud", 2>>
      \/ op = <<"clock", None>>
      \/ \E p \in 48 .. 53 : op = <<"clock", p>>
      \/ \E p \in 48 .. 53 : op = <<"fsel", p, alt3>>
  <2>1. op[1] \notin {"pin", "byte", "format", "call"}
    BY DEF Do, WriteUart, WriteFunction, WritePull, Put
  <2>2. \/ op \in PutOp \/ op = <<"gppud", 0>> \/ op = <<"gppud", 2>>
        \/ op = <<"clock", None>>
        \/ op \in {"clock"} \X (48 .. 53)
        \/ op \in {"fsel"} \X (48 .. 53) \X {alt3}
    BY <2>1 DEF LaterOp, PlainOp, ClockOp
  <2> QED
    BY <2>2
<1> USE DEF Done, Line
<1>8. ASSUME mu' = mu, gppud' = gppud, pull'[14] = pull[14], pull'[15] = pull[15],
             function(14)' = function(14), function(15)' = function(15)
      PROVE  Done(16)' /\ Line' = Line
  BY <1>8
<1>9. ASSUME mu' = mu, pull' = pull, fsel' = fsel
      PROVE  Done(16)' /\ Line' = Line
  BY <1>9 DEF function
<1>10. fsel' = fsel => function(14)' = function(14) /\ function(15)' = function(15)
  BY DEF function
<1> HIDE DEF Done, Line
<1>11. CASE op \in PutOp \/ op = <<"clock", None>>
  BY <1>2, <1>4, <1>9, <1>11
<1>12. CASE op = <<"gppud", 0>> \/ op = <<"gppud", 2>>
  BY <1>3, <1>9, <1>12
<1>13. CASE \E p \in 48 .. 53 : op = <<"clock", p>>
  BY <1>5, <1>8, <1>10, <1>13
<1>14. CASE \E p \in 48 .. 53 : op = <<"fsel", p, alt3>>
  BY <1>6, <1>8, <1>14
<1>15. QED
  BY <1>7, <1>11, <1>12, <1>13, <1>14

(* Where init goes on, and where it is over.                               *)
LEMMA DoneKept ==
  ASSUME UNCHANGED <<mu, fsel, gppud, pull>>
  PROVE  (\A n : Done(n)' <=> Done(n)) /\ Line' = Line
BY DEF Done, Line, function

LEMMA Dropped ==
  ASSUME NEW S, NEW s \in Seq(S), s # << >>
  PROVE  /\ << >> \o Tail(s) \in Seq(S)
         /\ Len(<< >> \o Tail(s)) = Len(s) - 1 /\ Len(s) \in Nat
         /\ \A k \in 1 .. Len(s) - 1 : (<< >> \o Tail(s))[k] = s[k + 1]
<1> DEFINE t == << >> \o Tail(s)
<1>1. << >> \in Seq(S) /\ Len(<< >>) = 0
  BY LenProperties
<1>2. /\ t \in Seq(S) /\ Len(t) = Len(<< >>) + Len(s) - 1 /\ Len(s) \in Nat
      /\ \A k \in Len(<< >>) + 1 .. Len(<< >>) + Len(s) - 1 :
            t[k] = s[k - Len(<< >>) + 1]
  BY <1>1, Replaced
<1>3. Len(t) = Len(s) - 1 /\ Len(s) \in Nat
  BY <1>1, <1>2
<1>4. \A k \in 0 + 1 .. 0 + Len(s) - 1 : t[k] = s[k - 0 + 1]
  BY <1>1, <1>2
<1> HIDE DEF t
<1>5. \A k \in 1 .. Len(s) - 1 : t[k] = s[k + 1]
  BY <1>3, <1>4
<1>6. QED
  BY <1>2, <1>3, <1>5 DEF t

LEMMA LaterShifted ==
  ASSUME NEW s \in Seq(Op), NEW first \in 2 .. 17, first - 1 \leq Len(s), Later(s, first, 0),
         NEW g
  PROVE  Later(<< >> \o Tail(s), first - 1, g)
<1> DEFINE t == << >> \o Tail(s)
<1>1. s # << >>
  BY LenProperties
<1>2. /\ Len(t) = Len(s) - 1 /\ Len(s) \in Nat
      /\ \A k \in 1 .. Len(s) - 1 : t[k] = s[k + 1]
  BY <1>1, Dropped
<1> HIDE DEF t
<1>3. ASSUME NEW k \in first - 1 .. Len(t)
      PROVE  /\ t[k] \in LaterOp
             /\ t[k] \in ClockOp => IF k = first - 1 THEN g = 2 ELSE t[k - 1] = <<"gppud", 2>>
  <2>1. k \in 1 .. Len(s) - 1 /\ k + 1 \in first .. Len(s) /\ (k + 1) - 1 = k
    BY <1>2
  <2>2. t[k] = s[k + 1]
    BY <1>2, <2>1
  <2>3. /\ s[k + 1] \in LaterOp
        /\ s[k + 1] \in ClockOp => k + 1 # first /\ s[k] = <<"gppud", 2>>
    BY <2>1 DEF Later
  <2>4. k # first - 1 => k - 1 \in 1 .. Len(s) - 1 /\ (k - 1) + 1 = k
    BY <2>1
  <2>5. k # first - 1 => t[k - 1] = s[k]
    BY <1>2, <2>4
  <2> QED
    BY <2>2, <2>3, <2>5
<1>4. QED
  BY <1>3 DEF Later, t

(* The head of a program gives way to what it becomes, after init.         *)
LEMMA LaterPosition ==
  ASSUME todo \in Seq(Op), todo # << >>, Position(16),
         NEW x \in Seq(Op), Later(x, 1, 0), todo' = x \o Tail(todo), Done(16)',
         IF x = << >> THEN todo[1] = <<"gppud", 2>> => gppud' = 2
         ELSE todo[1] # <<"gppud", 2>>
  PROVE  todo' \in Seq(Op) /\ Position(16)'
<1>1. Later(todo, 1, gppud)
  BY DEF Position
<1>2. Later(x \o Tail(todo), 1, gppud')
  BY <1>1, LaterReplaced
<1>3. todo' \in Seq(Op)
  BY Replaced
<1>4. Len(todo') \in Nat
  BY <1>3, LenProperties
<1>5. Later(todo', 1, gppud')
  BY <1>2
<1>6. QED
  BY <1>3, <1>4, <1>5 DEF Position

LEMMA PlainPosition ==
  ASSUME todo' \in Seq(PlainOp), Done(16)'
  PROVE  todo' \in Seq(Op) /\ Position(16)'
<1>1. todo' \in Seq(Op) /\ Later(todo', 1, gppud')
  BY PlainIsLater
<1>2. Len(todo') \in Nat
  BY <1>1, LenProperties
<1>3. QED
  BY <1>1, <1>2 DEF Position

LEMMA RestIs ==
  /\ \A op : op[1] # "put" => rest(op) = << >>
  /\ \A op : rest(op) \in Seq(PutOp) /\ (rest(op) # << >> => op[1] = "put")
<1>1. <<"put", "\r">> \in PutOp
  BY DEF PutOp, Symbol, Marks
<1>2. QED
  BY <1>1 DEF rest

(* What a write of the running program does to the UART and the pins.      *)
Orderly ==
    /\ mu.cntl # 3 /\ mu'.cntl = 3 => Line = <<270, 3, alt5, alt5, 0, 0>>
    /\ Line' # Line => mu.cntl = 0

LEMMA HeadIs ==
  ASSUME todo \in Seq(Op), todo # << >>
  PROVE  Len(todo) \in Nat \ {0} /\ Head(todo) = todo[1] /\ todo[1] \in Op
<1>1. Len(todo) \in Nat \ {0} /\ Head(todo) = todo[1] /\ Head(todo) \in Op
  BY LenProperties, HeadTailProperties
<1>2. QED
  BY <1>1

LEMMA InitWrite ==
  ASSUME Lines, todo \in Seq(Op), todo # << >>, NEW n \in 0 .. 15, Position(n),
         Do(Head(todo)), todo' = rest(Head(todo)) \o Tail(todo)
  PROVE  /\ Safe(Head(todo)) /\ Orderly
         /\ todo' \in Seq(Op) /\ Position(n + 1)'
<1>1. Len(todo) \in Nat \ {0} /\ Head(todo) = todo[1]
  BY HeadIs
<1>2. Head(todo) = init[n + 1] /\ n + 1 \in 1 .. 16
  <2>1. 1 \in 1 .. 16 - n
    OBVIOUS
  <2> QED
    BY <1>1, <2>1 DEF Position
<1>3. Safe(Head(todo)) /\ Done(n + 1)' /\ Orderly
  BY <1>2, DoneStep DEF Position, Orderly
<1>4. rest(Head(todo)) = << >>
  <2>1. init[n + 1] \in InitOp
    BY <1>2 DEF InitOp
  <2>2. init[n + 1][1] # "put"
    BY <2>1, Tags
  <2> QED
    BY <1>2, <2>2, RestIs
<1>5. todo' = << >> \o Tail(todo)
  BY <1>4
<1>6. /\ todo' \in Seq(Op) /\ Len(todo') = Len(todo) - 1
      /\ \A k \in 1 .. Len(todo) - 1 : todo'[k] = todo[k + 1]
  <2> DEFINE t == << >> \o Tail(todo)
  <2>1. /\ t \in Seq(Op) /\ Len(t) = Len(todo) - 1
        /\ \A k \in 1 .. Len(todo) - 1 : t[k] = todo[k + 1]
    BY Dropped
  <2>2. todo' = t
    BY <1>5
  <2> HIDE DEF t
  <2> QED
    BY <2>1, <2>2
<1>7. Len(todo) \geq 16 - n /\ \A k \in 1 .. 16 - n : todo[k] = init[n + k]
  BY DEF Position
<1>8. ASSUME NEW k \in 1 .. 16 - (n + 1) PROVE todo'[k] = init[(n + 1) + k]
  <2>1. k \in 1 .. Len(todo) - 1 /\ k + 1 \in 1 .. 16 - n /\ n + (k + 1) = (n + 1) + k
    BY <1>1, <1>7
  <2> QED
    BY <1>6, <1>7, <2>1
<1>9. Later(todo, 17 - n, 0)
  <2>1. n # 16
    OBVIOUS
  <2> QED
    BY <2>1 DEF Position
<1>10. \A g : Later(todo', (17 - n) - 1, g)
  <2>1. 17 - n \in 2 .. 17 /\ (17 - n) - 1 \leq Len(todo)
    BY <1>1, <1>7
  <2> QED
    BY <1>5, <1>9, <2>1, LaterShifted
<1>11. (17 - n) - 1 = 17 - (n + 1) /\ n + 1 \in 0 .. 16 /\ Len(todo') \geq 16 - (n + 1)
  BY <1>1, <1>6, <1>7
<1>12. Position(n + 1)'
  BY <1>3, <1>8, <1>10, <1>11 DEF Position
<1>13. QED
  BY <1>3, <1>6, <1>12

LEMMA LaterHead ==
  ASSUME todo \in Seq(Op), todo # << >>, Position(16)
  PROVE  /\ Head(todo) = todo[1] /\ Head(todo) \in LaterOp
         /\ Head(todo) \in ClockOp => gppud = 2
<1>1. Len(todo) \in Nat \ {0} /\ Head(todo) = todo[1]
  BY HeadIs
<1>2. 1 \in 1 .. Len(todo) /\ Later(todo, 1, gppud)
  BY <1>1 DEF Position
<1>3. QED
  BY <1>1, <1>2 DEF Later

LEMMA LaterWrite ==
  ASSUME Lines, todo \in Seq(Op), todo # << >>, Position(16),
         Do(Head(todo)), todo' = rest(Head(todo)) \o Tail(todo)
  PROVE  /\ Safe(Head(todo)) /\ Orderly
         /\ todo' \in Seq(Op) /\ Position(16)'
<1> DEFINE op == Head(todo)
           x  == rest(op)
<1>1. op = todo[1] /\ op \in LaterOp /\ (op \in ClockOp => gppud = 2)
  BY LaterHead
<1>2. Done(16)
  BY DEF Position
<1>3. /\ Safe(op) /\ Done(16)' /\ mu' = mu /\ Line' = Line
      /\ op = <<"gppud", 2>> => gppud' = 2
  BY <1>1, <1>2, LaterStep
<1>4. Orderly
  BY <1>3 DEF Orderly
<1>5. x \in Seq(PutOp) /\ (x # << >> => op[1] = "put")
  BY RestIs
<1> HIDE DEF x
<1>6. x \in Seq(PlainOp)
  BY <1>5, OpsAre, SeqOfMore
<1>7. x \in Seq(Op) /\ Later(x, 1, 0)
  BY <1>6, PlainIsLater
<1>8. x # << >> => op # <<"gppud", 2>>
  BY <1>5
<1>9. IF x = << >> THEN todo[1] = <<"gppud", 2>> => gppud' = 2
      ELSE todo[1] # <<"gppud", 2>>
  BY <1>1, <1>3, <1>8
<1>10. todo' = x \o Tail(todo)
  BY DEF x
<1>11. todo' \in Seq(Op) /\ Position(16)'
  BY <1>3, <1>7, <1>9, <1>10, LaterPosition
<1>12. QED
  BY <1>3, <1>4, <1>11

(* An operation of kernel_main that is not a write is not one of init.     *)
LEMMA AfterInit ==
  ASSUME todo \in Seq(Op), todo # << >>, NEW n \in 0 .. 16, Position(n),
         Head(todo)[1] \notin {"mu", "fsel", "gppud", "clock"}
  PROVE  n = 16
<1> SUFFICES ASSUME n # 16 PROVE FALSE
  OBVIOUS
<1>1. Len(todo) \in Nat \ {0} /\ Head(todo) = todo[1]
  BY HeadIs
<1>2. 1 \in 1 .. 16 - n /\ n + 1 \in 1 .. 16
  OBVIOUS
<1>3. Head(todo) = init[n + 1]
  BY <1>1, <1>2 DEF Position
<1>4. init[n + 1] \in InitOp
  BY <1>2 DEF InitOp
<1>5. QED
  BY <1>3, <1>4, Tags

(* Formats, pins and bytes: the head gives way to a plain or a pin's text. *)
LEMMA Expanded ==
  ASSUME todo \in Seq(Op), todo # << >>, NEW n \in 0 .. 16, Position(n),
         NEW x \in Seq(Op), Later(x, 1, 0), todo' = x \o Tail(todo),
         Head(todo)[1] \in {"format", "pin", "byte", "call"},
         UNCHANGED <<mu, fsel, gppud, pull>>
  PROVE  todo' \in Seq(Op) /\ Position(16)'
<1>1. n = 16
  BY AfterInit
<1>2. Head(todo) = todo[1]
  BY HeadIs
<1>3. Done(16)'
  BY <1>1, DoneKept DEF Position
<1>4. todo[1] # <<"gppud", 2>>
  BY <1>2
<1>5. QED
  BY <1>1, <1>3, <1>4, LaterPosition

LEMMA KernelExpands ==
  ASSUME Program, at = "kernel", Next, at' \in {at, "lost"}, UNCHANGED uartVars,
         ~Write, ~Sends, ~(\E c \in Cores : Enter(c)), ~Fault
  PROVE  todo' \in Seq(Op) /\ Position(16)'
<1>1. PICK n \in 0 .. 16 : Position(n)
  BY DEF Program
<1>2. todo \in Seq(Op) /\ UNCHANGED <<mu, fsel, gppud, pull>>
  BY DEF Program, uartVars
<1>3. ASSUME Running, Head(todo)[1] \in {"format", "pin", "byte", "call"}
      PROVE  /\ todo # << >> /\ n = 16 /\ Head(todo) \in LaterOp
             /\ Done(16)'
  <2>1. todo # << >>
    BY <1>3 DEF Running
  <2>2. n = 16
    BY <1>1, <1>2, <1>3, <2>1, AfterInit
  <2>3. Head(todo) \in LaterOp
    BY <1>1, <1>2, <2>1, <2>2, LaterHead
  <2>4. Done(16)'
    BY <1>1, <1>2, <2>2, DoneKept DEF Position
  <2> QED
    BY <2>1, <2>2, <2>3, <2>4
<1>4. ASSUME NEW x \in Seq(Op), Later(x, 1, 0), todo' = x \o Tail(todo),
             Running, Head(todo)[1] \in {"format", "pin", "byte", "call"}
      PROVE  todo' \in Seq(Op) /\ Position(16)'
  BY <1>1, <1>2, <1>3, <1>4, Expanded
<1>5. ASSUME NEW x \in Seq(PlainOp), todo' = x \o Tail(todo),
             Running, Head(todo)[1] \in {"format", "pin", "byte", "call"}
      PROVE  todo' \in Seq(Op) /\ Position(16)'
  BY <1>4, <1>5, PlainIsLater
<1>6. CASE WriteNumber
  <2>1. Running /\ Head(todo)[1] = "number"
    BY <1>6 DEF WriteNumber
  <2>2. todo # << >>
    BY <2>1 DEF Running
  <2>3. n = 16
    BY <1>1, <1>2, <2>1, <2>2, AfterInit
  <2>4. Head(todo) \in LaterOp
    BY <1>1, <1>2, <2>2, <2>3, LaterHead
  <2> QED
    BY <2>1, <2>4, Tags
<1>7. CASE WriteFormat
  <2> DEFINE f == format(Head(todo)[2], Head(todo)[3])
  <2>1. Running /\ Head(todo)[1] = "format" /\ todo' = write(f) \o Tail(todo)
    BY <1>7 DEF WriteFormat
  <2>2. f \in Text
    BY <1>3, <2>1, FormatIs
  <2> HIDE DEF f
  <2>3. write(f) \in Seq(PlainOp)
    BY <2>2, WriteIsPlain
  <2> QED
    BY <1>5, <2>1, <2>3
<1>8. CASE SetUpPin
  <2>1. Running /\ Head(todo)[1] = "pin" /\ todo' = pin_of_card(Head(todo)[2]) \o Tail(todo)
    BY <1>8 DEF SetUpPin
  <2>2. Head(todo) \in LaterOp
    BY <1>3, <2>1
  <2>3. Head(todo)[2] \in 48 .. 53
    BY <2>1, <2>2 DEF LaterOp, PlainOp, PutOp, ClockOp
  <2>4. pin_of_card(Head(todo)[2]) \in Seq(Op) /\ Later(pin_of_card(Head(todo)[2]), 1, 0)
    BY <2>3, PinIs
  <2> QED
    BY <1>4, <2>1, <2>4
<1>9. CASE DumpByte
  <2> DEFINE d == dump_byte(Head(todo)[2], Head(todo)[3])
  <2>1. Running /\ Head(todo)[1] = "byte" /\ todo' = d \o Tail(todo)
    BY <1>9 DEF DumpByte
  <2>2. d \in Seq(PlainOp)
    BY <1>3, <2>1, DumpByteIs
  <2> HIDE DEF d
  <2> QED
    BY <1>5, <2>1, <2>2
<1>10. CASE Framebuffer
  <2>1. Running /\ Head(todo)[1] = "call" /\ todo' = Tail(todo) /\ todo # << >>
    BY <1>10 DEF Framebuffer, Call, Running
  <2>2. << >> \in Seq(PlainOp)
    OBVIOUS
  <2>3. Tail(todo) \in Seq(Op)
    BY <1>2, <2>1, HeadTailProperties
  <2>4. todo' = << >> \o Tail(todo)
    BY <2>1, <2>3
  <2> QED
    BY <1>5, <2>1, <2>2, <2>4
<1>11. ASSUME todo' \in Seq(PlainOp), Running, Head(todo)[1] = "call"
       PROVE  todo' \in Seq(Op) /\ Position(16)'
  BY <1>3, <1>11, PlainPosition
<1>12. CASE InitCard
  <2>1. Running /\ Head(todo)[1] = "call"
    BY <1>12 DEF InitCard, Call
  <2>2. PICK print \in Prints, s \in Sizes \cup {None} :
           \/ todo' = write(print) \o outcome(s)
           \/ \E again \in Prints : todo' = write(print) \o restart(again) \o outcome(s)
    BY <1>12 DEF InitCard
  <2>4. write(print) \in Seq(PlainOp) /\ outcome(s) \in Seq(PlainOp)
    BY PrintsAreText, WriteIsPlain, OutcomeIs
  <2>3. todo' \in Seq(PlainOp)
    <3>1. CASE todo' = write(print) \o outcome(s)
      BY <2>4, <3>1, Joined
    <3>2. CASE \E again \in Prints : todo' = write(print) \o restart(again) \o outcome(s)
      <4>1. PICK again \in Prints : todo' = write(print) \o restart(again) \o outcome(s)
        BY <3>2
      <4>2. restart(again) \in Seq(PlainOp)
        BY RestartIs
      <4>3. write(print) \o restart(again) \in Seq(PlainOp)
        BY <2>4, <4>2, Joined
      <4> QED
        BY <2>4, <4>1, <4>3, Joined
    <3> QED
      BY <2>2, <3>1, <3>2
  <2> QED
    BY <1>11, <2>1, <2>3
<1>13. CASE ReadSector
  <2>1. Running /\ Head(todo)[1] = "call"
        /\ \E print \in Prints, buf \in Sectors : todo' = write(print) \o dump(buf)
    BY <1>13 DEF ReadSector, Call
  <2>3. PICK print \in Prints, buf \in Sectors : todo' = write(print) \o dump(buf)
    BY <2>1
  <2>4. write(print) \in Seq(PlainOp) /\ dump(buf) \in Seq(PlainOp)
    BY PrintsAreText, WriteIsPlain, DumpIs
  <2>2. todo' \in Seq(PlainOp)
    BY <2>3, <2>4, Joined
  <2> QED
    BY <1>11, <2>1, <2>2
<1>14. \/ WriteNumber \/ WriteFormat \/ SetUpPin \/ DumpByte
       \/ Framebuffer \/ InitCard \/ ReadSector
  <2>1. ~Enter(0) /\ ~(\E c \in Cores \ {0} : Enter(c))
    BY StartupAssumption DEF StartupAssumption
  <2>2. ~ReadLevel /\ ~SetUpEl2 /\ ~CopyData /\ ~ZeroBss /\ ~KernelReturns
        /\ ~Fault /\ ~SecondFault
    BY DEF ReadLevel, SetUpEl2, CopyData, ZeroBss, KernelReturns, SecondFault
  <2> QED
    BY <2>1, <2>2 DEF Next, Core0
<1>15. QED
  BY <1>6, <1>7, <1>8, <1>9, <1>10, <1>12, <1>13, <1>14

(* In the handler.                                                         *)
LEMMA HandlerHead ==
  ASSUME Program, at = "handler", todo # << >>
  PROVE  /\ todo \in Seq(Op \cap HandlerOp(fault))
         /\ Head(todo)[1] \in {"put", "number"}
         /\ Head(todo)[1] = "put" => Head(todo)[2] \in Symbol
         /\ Head(todo)[1] = "number" =>
              /\ Head(todo)[2] \in 0 .. Word - 1
              /\ \E r \in registers(fault) :
                    Head(todo)[2] = r \/ Head(todo)[2] = r \div Half
<1> DEFINE S == Op \cap HandlerOp(fault)
           op == Head(todo)
<1>1. /\ todo \in Seq(Op) /\ Len(todo) \in Nat \ {0} /\ op = todo[1]
      /\ \A k \in 1 .. Len(todo) : todo[k] \in HandlerOp(fault)
  BY HeadIs DEF Program
<1>2. todo \in [1 .. Len(todo) -> Op]
  BY <1>1, LenProperties
<1>3. todo \in Seq(S)
  <2> HIDE DEF S
  <2>1. \A k \in 1 .. Len(todo) : todo[k] \in S
    BY <1>1, <1>2 DEF S
  <2>2. todo \in [1 .. Len(todo) -> S]
    BY <1>2, <2>1
  <2> QED
    BY <1>1, <2>2, SeqOfLength
<1>4. op \in Op /\ op \in HandlerOp(fault)
  BY <1>1, <1>2
<1> HIDE DEF op
<1>5. \/ op[1] = "put" /\ op[2] \in Symbol
      \/ op[1] = "number" /\ op \notin InitOp /\ op \notin LaterOp
  BY <1>4, Tags DEF HandlerOp, PutOp
<1>6. op[1] = "number" => op[2] \in 0 .. Word - 1
  BY <1>4, <1>5 DEF Op
<1>7. op[1] = "number" =>
        \E r \in registers(fault) : op[2] = r \/ op[2] = r \div Half
  BY <1>4 DEF HandlerOp, PutOp
<1>8. QED
  BY <1>3, <1>5, <1>6, <1>7 DEF op

LEMMA HandlerOnlyWrites ==
  ASSUME Program, at = "handler", Next, at' \in {at, "lost"}, ~Sends, ~SecondFault,
         ~(\E c \in Cores : Enter(c))
  PROVE  Write \/ WriteNumber
<1>1. Running => Head(todo)[1] \in {"put", "number"}
  BY HandlerHead DEF Running
<1>2. ~WriteFormat /\ ~SetUpPin /\ ~DumpByte /\ ~Framebuffer /\ ~InitCard /\ ~ReadSector
  BY <1>1 DEF WriteFormat, SetUpPin, DumpByte, Framebuffer, InitCard, ReadSector, Call
<1>3. ~Enter(0) /\ ~(\E c \in Cores \ {0} : Enter(c))
  BY StartupAssumption DEF StartupAssumption
<1>4. ~ReadLevel /\ ~SetUpEl2 /\ ~CopyData /\ ~ZeroBss /\ ~KernelReturns
      /\ ~Fault /\ ~SecondFault
  BY DEF ReadLevel, SetUpEl2, CopyData, ZeroBss, KernelReturns, Fault
<1>5. QED
  BY <1>2, <1>3, <1>4 DEF Next, Core0

LEMMA HandlerStep ==
  ASSUME Program, at = "handler", Write \/ WriteNumber
  PROVE  Program'
<1> DEFINE S == Op \cap HandlerOp(fault)
<1>1. (Write \/ WriteNumber) /\ at' \in {at, "lost"} /\ fault' = fault
  BY DEF Write, WriteNumber, coreVars, Lost
<1>2. todo # << >> /\ todo \in Seq(S)
  BY <1>1, HandlerHead DEF Write, WriteNumber, Running
<1>3. PutOp \subseteq S
  BY OpsAre DEF HandlerOp
<1>4. \E x \in Seq(PutOp) : todo' = x \o Tail(todo)
  <2>1. CASE Write
    BY <2>1, RestIs DEF Write
  <2>2. CASE WriteNumber
    <3> DEFINE d == itos(Head(todo)[2], 16, HalfDigits)
    <3>1. Head(todo)[1] = "number" /\ todo' = write(d) \o Tail(todo)
      BY <2>2 DEF WriteNumber
    <3>2. Head(todo)[2] \in 0 .. Word - 1 /\ HalfDigits \in Nat /\ 16 \in Bases
      BY <1>2, <3>1, HandlerHead, StartupAssumption DEF StartupAssumption, Bases
    <3>3. d \in Text
      BY <3>2, ItosIsText
    <3> HIDE DEF d
    <3> QED
      BY <3>1, <3>3, WriteIs
  <2> QED
    BY <1>1, <2>1, <2>2
<1> HIDE DEF S
<1>5. PICK x \in Seq(S) : todo' = x \o Tail(todo)
  BY <1>3, <1>4, SeqOfMore
<1>6. todo' \in Seq(S)
  BY <1>2, <1>5, Replaced
<1>7. todo' \in Seq(Op)
  <2>1. S \subseteq Op
    BY DEF S
  <2> QED
    BY <1>6, <2>1, SeqOfMore
<1>8. \A k \in 1 .. Len(todo') : todo'[k] \in HandlerOp(fault)
  <2>1. \A k \in 1 .. Len(todo') : todo'[k] \in S
    BY <1>6, LenProperties
  <2> QED
    BY <2>1 DEF S
<1>9. QED
  BY <1>1, <1>7, <1>8 DEF Program, HandlerOp, registers

-----------------------------------------------------------------------------
(* The step that writes: a register or a character that is Safe.           *)
LEMMA WriteStep ==
  ASSUME Lines, Program, Write
  PROVE  Safe(Head(todo)) /\ Orderly /\ Program'
<1>1. /\ at \in {"kernel", "handler"} /\ todo # << >> /\ todo \in Seq(Op)
      /\ Do(Head(todo)) /\ todo' = rest(Head(todo)) \o Tail(todo)
      /\ at' = at /\ fault' = fault
  BY DEF Write, Running, Program, coreVars
<1>2. CASE at = "kernel"
  <2>1. PICK n \in 0 .. 16 : Position(n)
    BY <1>2 DEF Program
  <2>2. CASE n \in 0 .. 15
    <3>1. Safe(Head(todo)) /\ Orderly /\ todo' \in Seq(Op) /\ Position(n + 1)'
      BY <1>1, <2>1, <2>2, InitWrite
    <3>2. n + 1 \in 0 .. 16
      BY <2>2
    <3> QED
      BY <1>1, <1>2, <3>1, <3>2 DEF Program
  <2>3. CASE n = 16
    <3>1. Safe(Head(todo)) /\ Orderly /\ todo' \in Seq(Op) /\ Position(16)'
      BY <1>1, <2>1, <2>3, LaterWrite
    <3>2. 16 \in 0 .. 16
      OBVIOUS
    <3> QED
      BY <1>1, <1>2, <3>1, <3>2 DEF Program
  <2>4. n \in 0 .. 15 \/ n = 16
    OBVIOUS
  <2> QED
    BY <2>2, <2>3, <2>4
<1>3. CASE at = "handler"
  <2>1. Head(todo)[1] \in {"put", "number"} /\ (Head(todo)[1] = "put" => Head(todo)[2] \in Symbol)
    BY <1>1, <1>3, HandlerHead
  <2>2. Head(todo)[1] = "put"
    BY <1>1, <2>1 DEF Do, WriteUart, WriteFunction, WritePull, Put
  <2>3. Safe(Head(todo))
    BY <2>1, <2>2 DEF Safe
  <2>4. UNCHANGED <<mu, fsel, gppud, pull>>
    BY <1>1, <2>2, AfterPin
  <2>5. Orderly
    BY <2>4, DoneKept DEF Orderly
  <2>6. Program'
    BY <1>3, HandlerStep
  <2> QED
    BY <2>3, <2>5, <2>6
<1>4. QED
  BY <1>1, <1>2, <1>3

(* No other step touches a register or a pin.                              *)
LEMMA OthersLeave ==
  ASSUME [Next]_vars, ~Write
  PROVE  UNCHANGED <<mu, fsel, gppud, pull>> /\ (UNCHANGED fifo \/ Sends)
<1> USE DEF uartVars
<1>1. CASE Core0
  BY <1>1 DEF Core0, Enter, ReadLevel, SetUpEl2, CopyData, ZeroBss, WriteNumber,
              WriteFormat, SetUpPin, DumpByte, Framebuffer, InitCard, ReadSector,
              KernelReturns
<1>2. CASE \E c \in Cores \ {0} : Enter(c)
  BY <1>2 DEF Enter
<1>3. CASE Fault \/ SecondFault
  BY <1>3 DEF Fault, SecondFault
<1>4. CASE Sends
  BY <1>4 DEF Sends, Transmit
<1>5. CASE UNCHANGED vars
  BY <1>5 DEF vars
<1>6. QED
  BY <1>1, <1>2, <1>3, <1>4, <1>5 DEF Next

LEMMA MachineStays == [Next]_vars => machine' = machine
BY DEF Next, Core0, vars, Enter, ReadLevel, SetUpEl2, CopyData, ZeroBss, Write,
       WriteNumber, WriteFormat, SetUpPin, DumpByte, Framebuffer, InitCard,
       ReadSector, KernelReturns, Fault, SecondFault, Sends

LEMMA LinesInv ==
  ASSUME Lines, Program, [Next]_vars
  PROVE  Lines'
<1>1. machine' = machine
  BY MachineStays
<1>2. CASE Write
  <2>1. Safe(Head(todo)) /\ Do(Head(todo))
    BY <1>2, WriteStep DEF Write
  <2> QED
    BY <1>1, <2>1, LinesAfterOp
<1>3. CASE Sends
  BY <1>1, <1>3, LinesAfterTransmit DEF Sends
<1>4. CASE ~Write /\ ~Sends
  BY <1>1, <1>4, OthersLeave DEF Lines, PinsApart, function
<1>5. QED
  BY <1>2, <1>3, <1>4

(* A step that leaves the program and the registers as they are.           *)
LEMMA ProgramKept ==
  ASSUME Program, UNCHANGED <<todo, at, fault, mu, fsel, gppud, pull>>
  PROVE  Program'
<1>1. \A n : Done(n)' <=> Done(n)
  BY DoneKept
<1>2. \A n : Position(n)' <=> Position(n)
  BY <1>1 DEF Position
<1>3. QED
  BY <1>2 DEF Program, HandlerOp, registers

LEMMA ProgramInv ==
  ASSUME Where, Lines, Program, [Next]_vars
  PROVE  Program'
<1>0. todo \in Seq(Op) /\ (at \notin {"kernel", "handler", "lost"} => todo = << >>)
  BY DEF Program
<1>1. CASE Write
  BY <1>1, WriteStep
<1>2. CASE UNCHANGED vars \/ Sends
  BY <1>2, ProgramKept DEF vars, uartVars, coreVars, Sends, Transmit
<1>3. CASE \E c \in Cores : Enter(c)
  <2>1. PICK c \in Cores : Enter(c)
    BY <1>3
  <2>2. /\ UNCHANGED <<todo, fault, mu, fsel, gppud, pull>>
        /\ core[c] = "entry" /\ at' = IF c = 0 THEN "level" ELSE at
    BY <2>1 DEF Enter, uartVars
  <2>3. CASE c = 0
    <3>1. at = "entry"
      BY <2>2, <2>3 DEF Where
    <3> QED
      BY <1>0, <2>2, <2>3, <3>1 DEF Program
  <2>4. CASE c # 0
    BY <2>2, <2>4, ProgramKept
  <2> QED
    BY <2>3, <2>4
<1>4. CASE ReadLevel \/ SetUpEl2 \/ CopyData
  <2>1. /\ at \notin {"kernel", "handler", "lost"} /\ todo' = todo
        /\ at' \notin {"kernel", "handler", "lost"}
    BY <1>4 DEF ReadLevel, SetUpEl2, CopyData
  <2> QED
    BY <1>0, <2>1 DEF Program
<1>5. CASE ZeroBss
  <2>1. CASE at' = "kernel"
    <3>1. todo' = kernel_main
      BY <1>5, <2>1 DEF ZeroBss
    <3>2. /\ kernel_main \in Seq(Op) /\ Len(kernel_main) \geq 16
          /\ \A k \in 1 .. 16 : kernel_main[k] = init[k]
          /\ Later(kernel_main, 17, 0)
      BY KernelMainIs, KernelMainLater DEF InitThen
    <3>3. Done(0)'
      BY DEF Done
    <3>4. Position(0)'
      <4>1. /\ 16 - 0 = 16 /\ 17 - 0 = 17 /\ 0 \in 0 .. 16 /\ 0 # 16
            /\ \A k \in 1 .. 16 : 0 + k = k
        OBVIOUS
      <4> HIDE DEF kernel_main, init
      <4> QED
        BY <3>1, <3>2, <3>3, <4>1 DEF Position
    <3>5. 0 \in 0 .. 16
      OBVIOUS
    <3> QED
      BY <2>1, <3>1, <3>2, <3>4, <3>5 DEF Program
  <2>2. CASE at' # "kernel"
    <3>1. at' = "bss" /\ todo' = << >>
      BY <1>5, <2>2 DEF ZeroBss
    <3>2. << >> \in Seq(Op)
      OBVIOUS
    <3> QED
      BY <3>1, <3>2 DEF Program
  <2> QED
    BY <2>1, <2>2
<1>6. CASE KernelReturns
  BY <1>0, <1>6 DEF Program, KernelReturns
<1>7. CASE SecondFault
  BY <1>0, <1>7 DEF Program, SecondFault
<1>8. CASE Fault
  <2>1. PICK f \in Faults :
           /\ fault' = f /\ todo' = (IF vbar THEN exc_handler(f) ELSE todo)
           /\ at' = IF vbar THEN "handler" ELSE "lost"
    BY <1>8 DEF Fault
  <2>2. CASE vbar
    <3> DEFINE s == exc_handler(f)
               S == Op \cap HandlerOp(f)
    <3>1. todo' = s /\ at' = "handler"
      BY <2>1, <2>2
    <3>2. s \in Seq(S) /\ S \subseteq Op
      BY ReportIs
    <3>3. s \in Seq(Op)
      <4> HIDE DEF s, S
      <4> QED
        BY <3>2, SeqOfMore
    <3>4. \A k \in 1 .. Len(s) : s[k] \in HandlerOp(f)
      <4>1. \A k \in 1 .. Len(s) : s[k] \in S
        <5> HIDE DEF s, S
        <5> QED
          BY <3>2, LenProperties
      <4> QED
        BY <4>1
    <3> HIDE DEF s, S
    <3>5. \A k \in 1 .. Len(todo') : todo'[k] \in HandlerOp(fault')
      BY <2>1, <3>1, <3>4
    <3> QED
      BY <3>1, <3>3, <3>5 DEF Program, HandlerOp, registers
  <2>3. CASE ~vbar
    BY <1>0, <2>1, <2>3 DEF Program
  <2> QED
    BY <2>2, <2>3
<1>9. CASE WriteNumber \/ WriteFormat \/ SetUpPin \/ DumpByte
           \/ Framebuffer \/ InitCard \/ ReadSector
  <2>1. /\ Running /\ at' \in {at, "lost"} /\ UNCHANGED uartVars /\ Next
    BY <1>9 DEF WriteNumber, WriteFormat, SetUpPin, DumpByte, Framebuffer,
                InitCard, ReadSector, Call, coreVars, Lost, Next, Core0
  <2>2. CASE \/ Write \/ Sends \/ Fault \/ SecondFault
             \/ \E c \in Cores : Enter(c)
    BY <1>1, <1>2, <1>3, <1>7, <1>8, <2>2
  <2>3. CASE ~Write /\ ~Sends /\ ~Fault /\ ~SecondFault /\ ~(\E c \in Cores : Enter(c))
    <3>1. CASE at = "kernel"
      <4>1. todo' \in Seq(Op) /\ Position(16)' /\ 16 \in 0 .. 16
        BY <2>1, <2>3, <3>1, KernelExpands
      <4> QED
        BY <2>1, <3>1, <4>1 DEF Program
    <3>2. CASE at = "handler"
      <4>1. WriteNumber
        BY <2>1, <2>3, <3>2, HandlerOnlyWrites
      <4> QED
        BY <3>2, <4>1, HandlerStep
    <3> QED
      BY <2>1, <3>1, <3>2 DEF Running
  <2> QED
    BY <2>2, <2>3
<1>10. Next \/ UNCHANGED vars
  OBVIOUS
<1>11. Next =>
         \/ Write \/ Sends \/ ReadLevel \/ SetUpEl2 \/ CopyData \/ ZeroBss \/ KernelReturns
         \/ SecondFault \/ Fault \/ \E c \in Cores : Enter(c)
         \/ WriteNumber \/ WriteFormat \/ SetUpPin \/ DumpByte
         \/ Framebuffer \/ InitCard \/ ReadSector
  BY StartupAssumption DEF Next, Core0, StartupAssumption
<1>12. QED
  BY <1>1, <1>2, <1>3, <1>4, <1>5, <1>6, <1>7, <1>8, <1>9, <1>10, <1>11

-----------------------------------------------------------------------------
(* A number longer than the local of write_number has all the digits a     *)
(* register can have.                                                      *)
LEMMA PowerOfWord ==
  /\ power[2 * HalfDigits - 1] \in Nat
  /\ 16 * power[2 * HalfDigits - 1] = Word
<1> DEFINE H == HalfDigits
           T == {k \in Nat : k \leq H => power[H + k] = power[H] * power[k]}
<1>1. H \in Nat \ {0} /\ Word = power[H] * power[H] /\ power[H] \in Nat
  <2>1. H \in Nat \ {0} /\ Word = power[H] * power[H]
    BY StartupAssumption DEF StartupAssumption, Half
  <2>2. H \in 0 .. 2 * H
    BY <2>1
  <2> QED
    BY <2>1, <2>2, PowerIsNat
<1> HIDE DEF H
<1>2. \A n \in 0 .. 2 * H : /\ power[n] \in Nat
                            /\ power[n] = IF n = 0 THEN 1 ELSE 16 * power[n - 1]
  BY PowerIs, PowerIsNat DEF H
<1>3. 0 \in T
  BY <1>1, <1>2
<1>4. ASSUME NEW k \in T PROVE k + 1 \in T
  <2> SUFFICES ASSUME k + 1 \leq H PROVE power[H + (k + 1)] = power[H] * power[k + 1]
    OBVIOUS
  <2>1. /\ k \in 0 .. 2 * H /\ k + 1 \in 0 .. 2 * H /\ H + (k + 1) \in 0 .. 2 * H
        /\ k + 1 # 0 /\ H + (k + 1) # 0 /\ (k + 1) - 1 = k /\ (H + (k + 1)) - 1 = H + k
        /\ k \leq H
    BY <1>1
  <2>2. power[k] \in Nat /\ power[k + 1] = 16 * power[k]
        /\ power[H + (k + 1)] = 16 * power[H + k]
    BY <1>2, <2>1
  <2>3. power[H + k] = power[H] * power[k]
    BY <2>1
  <2>4. \A p, q \in Nat : 16 * (p * q) = p * (16 * q)
    OBVIOUS
  <2> QED
    BY <1>1, <2>2, <2>3, <2>4
<1>5. H \in T
  <2>1. H \in Nat
    BY <1>1
  <2> HIDE DEF T
  <2> QED BY <1>3, <1>4, <2>1, Induction DEF T
<1>6. power[H + H] = Word
  BY <1>1, <1>5
<1>7. /\ H + H = 2 * H /\ 2 * H \in 0 .. 2 * H /\ 2 * H - 1 \in 0 .. 2 * H /\ 2 * H # 0
  BY <1>1
<1>8. power[2 * H] = 16 * power[2 * H - 1] /\ power[2 * H - 1] \in Nat
  BY <1>2, <1>7
<1>9. QED
  BY <1>6, <1>7, <1>8 DEF H

LEMMA OverrunNeedsAll ==
  ASSUME NEW v \in 0 .. Word - 1,
         Len(itos(v, 16, HalfDigits)) + 1 > 2 * HalfDigits
  PROVE  v \geq Word \div 16
<1>1. /\ HalfDigits \in Nat \ {0} /\ HalfDigits % 256 = HalfDigits
      /\ 16 \in Bases /\ 16 # 10 /\ v \in Nat /\ Word \in Nat
  BY WidthIs, FormatAssumption DEF FormatAssumption, Bases
<1>2. digits(v, 16) \in Text
  BY <1>1, DigitsAreText
<1>3. Len(digits(v, 16)) \in Nat
  BY <1>2, LenProperties DEF Text
<1>4. Len(itos(v, 16, HalfDigits)) =
        IF HalfDigits > Len(digits(v, 16)) THEN HalfDigits ELSE Len(digits(v, 16))
  BY <1>1, ItosIsText
<1> DEFINE n == Len(digits(v, 16))
           m == Len(itos(v, 16, HalfDigits))
<1>5. n \geq 2 * HalfDigits
  <2>1. n \in Nat /\ m = (IF HalfDigits > n THEN HalfDigits ELSE n)
        /\ m + 1 > 2 * HalfDigits
    BY <1>3, <1>4
  <2> HIDE DEF n, m
  <2> QED
    BY <1>1, <2>1
<1>6. v # 0
  <2> SUFFICES ASSUME v = 0 PROVE FALSE
    OBVIOUS
  <2>1. PICK g \in [0 .. v -> Text] :
            /\ digits(v, 16) = g[v]
            /\ \A x \in 0 .. v :
                 g[x] = IF x < 16 THEN <<Digit[x + 1]>>
                        ELSE Append(g[x \div 16], Digit[(x % 16) + 1])
    BY <1>1, DigitsAre
  <2>2. digits(v, 16) = <<Digit[v + 1]>>
    <3>1. v \in 0 .. v /\ v < 16
      OBVIOUS
    <3> QED
      BY <2>1, <3>1
  <2>3. n = 1
    BY <2>2
  <2> HIDE DEF n
  <2> QED
    BY <1>1, <1>5, <2>3
<1>7. 2 * HalfDigits - 1 \in 0 .. 2 * HalfDigits /\ 2 * HalfDigits - 1 < n
  <2> HIDE DEF n
  <2> QED
    BY <1>1, <1>3, <1>5 DEF n
<1>8. power[2 * HalfDigits - 1] \leq v
  BY <1>1, <1>6, <1>7, DigitsAreFew
<1>9. \A p, w \in Nat : 16 * p = w => w \div 16 = p
  OBVIOUS
<1>10. QED
  BY <1>1, <1>8, <1>9, PowerOfWord

LEMMA ExcessInv ==
  ASSUME Where, Program, Excess, [Next]_vars
  PROVE  Excess'
<1>1. CASE WriteNumber /\ at = "handler"
  <2> DEFINE v == Head(todo)[2]
             d == itos(v, 16, HalfDigits)
  <2>1. /\ todo # << >> /\ Head(todo)[1] = "number" /\ at' \in {at, "lost"} /\ fault' = fault
        /\ overrun' = (overrun \/ Len(d) + 1 > 2 * HalfDigits)
    BY <1>1 DEF WriteNumber, Running, coreVars, Lost
  <2>2. fault \in Faults /\ overrun \in BOOLEAN
    BY <1>1 DEF Excess
  <2>3. overrun' \in BOOLEAN
    BY <2>1, <2>2
  <2>4. PICK r \in registers(fault) : v = r \/ v = r \div Half
    BY <1>1, <2>1, HandlerHead
  <2>5. v \in 0 .. Word - 1
    BY <1>1, <2>1, HandlerHead
  <2>6. r \in Nat /\ Half \in Nat /\ 16 \leq Half /\ Word \in Nat
    BY <2>2, HalfIs, StartupAssumption, FormatAssumption
       DEF registers, StartupAssumption, FormatAssumption
  <2> HIDE DEF v
  <2>7. ASSUME Len(d) + 1 > 2 * HalfDigits PROVE r \geq Word \div 16
    <3>1. v \geq Word \div 16
      BY <2>5, <2>7, OverrunNeedsAll
    <3>2. \A x, h \in Nat : 16 \leq h => x \div h \leq x /\ x \div h \in Nat
      OBVIOUS
    <3>3. v \leq r /\ v \in Nat
      BY <2>4, <2>6, <3>2
    <3>4. \A w \in Nat : w \div 16 \in Nat
      OBVIOUS
    <3> QED
      BY <2>6, <3>1, <3>3, <3>4
  <2> HIDE DEF d
  <2>8. OverrunOnlyFull'
    BY <2>1, <2>4, <2>7 DEF Excess, OverrunOnlyFull, registers
  <2> QED
    BY <1>1, <2>1, <2>2, <2>3, <2>8 DEF Excess
<1>2. CASE WriteNumber /\ at # "handler"
  <2>1. /\ at = "kernel" /\ todo # << >> /\ Head(todo)[1] = "number" /\ todo \in Seq(Op)
    BY <1>2 DEF WriteNumber, Running, Program
  <2>2. PICK n \in 0 .. 16 : Position(n)
    BY <2>1 DEF Program
  <2>3. n = 16
    BY <2>1, <2>2, AfterInit
  <2>4. Head(todo) \in LaterOp
    BY <2>1, <2>2, <2>3, LaterHead
  <2> QED
    BY <2>1, <2>4, Tags
<1>3. CASE Fault
  BY <1>3 DEF Fault, Excess, OverrunOnlyFull
<1>4. CASE SecondFault
  BY <1>4 DEF SecondFault, Excess, OverrunOnlyFull
<1>5. ASSUME UNCHANGED <<overrun, fault>>, at' = "handler" <=> at = "handler",
             at' = "lost" <=> at = "lost"
      PROVE  Excess'
  BY <1>5 DEF Excess, OverrunOnlyFull
<1>6. CASE \E c \in Cores : Enter(c)
  <2>1. PICK c \in Cores : Enter(c)
    BY <1>6
  <2>2. /\ UNCHANGED <<overrun, fault>>
        /\ core[c] = "entry" /\ at' = IF c = 0 THEN "level" ELSE at
    BY <2>1 DEF Enter
  <2>3. c = 0 => at = "entry"
    BY <2>2 DEF Where
  <2> QED
    BY <1>5, <2>2, <2>3
<1>7. CASE ReadLevel \/ SetUpEl2 \/ CopyData \/ ZeroBss \/ KernelReturns
  <2>1. /\ UNCHANGED <<overrun, fault>>
        /\ at \notin {"handler", "lost"} /\ at' \notin {"handler", "lost"}
    BY <1>7 DEF ReadLevel, SetUpEl2, CopyData, ZeroBss, KernelReturns
  <2> QED
    BY <1>5, <2>1
<1>8. CASE \/ Write \/ WriteFormat \/ SetUpPin \/ DumpByte
           \/ InitCard \/ Sends \/ UNCHANGED vars
  <2>1. UNCHANGED <<overrun, fault, at>>
    BY <1>8 DEF Write, WriteFormat, SetUpPin, DumpByte, InitCard,
                Sends, coreVars, vars
  <2> QED
    BY <1>5, <2>1
<1>10. CASE Framebuffer \/ ReadSector
  <2>1. UNCHANGED <<overrun, fault>> /\ at' \in {at, "lost"}
    BY <1>10 DEF Framebuffer, ReadSector, coreVars, Lost
  <2> QED
    BY <2>1 DEF Excess, OverrunOnlyFull
<1>9. QED
  BY <1>1, <1>2, <1>3, <1>4, <1>6, <1>7, <1>8, <1>10, StartupAssumption
     DEF Next, Core0, StartupAssumption

-----------------------------------------------------------------------------
LEMMA InitProgram == Init => Lines /\ Program /\ Excess
<1> SUFFICES ASSUME Init PROVE Lines /\ Program /\ Excess
  OBVIOUS
<1>1. /\ machine.cntl \in Nat /\ machine.func \in 0 .. 7
      /\ machine.left \in Seq({"firmware"}) /\ Len(machine.left) \leq FifoDepth
  BY MachineIs DEF Init
<1>2. mu \in [Registers -> Nat]
  BY <1>1 DEF Init, Registers
<1>3. fifo \in Seq(Sent) /\ Len(fifo) \leq FifoDepth
  <2>1. {"firmware"} \subseteq Sent
    BY DEF Sent
  <2> QED
    BY <1>1, <2>1, SeqOfMore DEF Init
<1>4. fsel \in [0 .. 5 -> [0 .. 9 -> 0 .. 7]] /\ gppud \in {0, 2} /\ pull \in [Pin -> 0 .. 2]
  BY <1>1 DEF Init
<1>5. \A p \in Pin : function(p) = machine.func /\ pull[p] = 1
  BY FieldOf DEF Init, function
<1>6. Lines
  BY <1>2, <1>3, <1>4, <1>5 DEF Lines, PinsApart, Registers
<1>7. Program
  <2>1. << >> \in Seq(Op)
    OBVIOUS
  <2> QED
    BY <2>1 DEF Init, Program
<1>8. Excess
  BY DEF Init, Excess, OverrunOnlyFull
<1>9. QED
  BY <1>6, <1>7, <1>8

LEMMA Invariant == Spec => []IInv
<1>1. Init => IInv
  BY InitBoot, InitProgram DEF IInv
<1>2. IInv /\ [Next]_vars => IInv'
  BY WhereInv, MemoryInv, LinesInv, ProgramInv, ExcessInv DEF IInv
<1>3. QED
  BY <1>1, <1>2, PTL DEF Spec

(* The types of the registers, the pins, the memory and the program        *)
(* counter, for every machine the firmware may leave.                      *)
THEOREM TypeCorrect == Spec => []TypeOK
<1>1. IInv => TypeOK
  <2> SUFFICES ASSUME IInv PROVE TypeOK
    OBVIOUS
  <2>1. el \in 1 .. 3
    BY MachineIs DEF IInv, Where
  <2>2. Len(fifo) \leq FifoDepth /\ gppud \in 0 .. 2
    BY DEF IInv, Lines
  <2> QED
    BY <2>1, <2>2 DEF IInv, Where, Memory, Lines, Excess, TypeOK
<1>2. QED
  BY <1>1, Invariant, PTL

(* Each pin has the function and the pull the firmware or the kernel gave  *)
(* it, although ten pins share a register that is read, changed and        *)
(* written back (gpio.cpp:13-42).                                          *)
THEOREM PinsStayApart == Spec => []PinsApart
<1>1. IInv => PinsApart
  BY DEF IInv, Lines
<1>2. QED
  BY <1>1, Invariant, PTL

(* The transmitter is switched on with its pins, its speed, its word       *)
(* length and the pulls as the code wants them, and none of them changes   *)
(* while it is on, whatever state the firmware left the UART in            *)
(* (uart1.cpp:10-25).                                                      *)
THEOREM SwitchedOnWhenReady == Spec => OnWhenReady
<1>1. IInv /\ [Next]_vars =>
        [/\ mu.cntl # 3 /\ mu'.cntl = 3 => Line = <<270, 3, alt5, alt5, 0, 0>>
         /\ Line' # Line => mu.cntl = 0]_vars
  <2> SUFFICES ASSUME IInv, [Next]_vars PROVE Orderly
    BY DEF Orderly
  <2>1. CASE Write
    BY <2>1, WriteStep DEF IInv
  <2>2. CASE ~Write
    BY <2>2, OthersLeave, DoneKept DEF Orderly
  <2> QED
    BY <2>1, <2>2
<1>2. QED
  BY <1>1, Invariant, PTL DEF Spec, OnWhenReady

(* The local of write_number is overrun only by a register in which every  *)
(* hexadecimal digit is used, for every width of a word (uart1.cpp:49-53). *)
THEOREM OverrunIsFull == Spec => []OverrunOnlyFull
<1>1. IInv => OverrunOnlyFull
  BY DEF IInv, Excess
<1>2. QED
  BY <1>1, Invariant, PTL
-----------------------------------------------------------------------------
(* The digits of a number by the weights of their places.                  *)
LEMMA QuotientIs ==
  ASSUME NEW b \in Nat \ {0}, NEW x \in Nat, NEW q \in Nat,
         b * q \leq x, x < b * q + b
  PROVE  x \div b = q
OBVIOUS

LEMMA QuotientInNat ==
  ASSUME NEW b \in Nat \ {0}, NEW x \in Nat
  PROVE  /\ x \div b \in Nat /\ x % b \in 0 .. b - 1
         /\ b * (x \div b) \leq x /\ x < b * (x \div b) + b
<1>1. x \div b \in Nat
  OBVIOUS
<1>2. x % b \in 0 .. b - 1
  OBVIOUS
<1>3. b * (x \div b) \leq x
  OBVIOUS
<1>4. x < b * (x \div b) + b
  OBVIOUS
<1>5. QED
  BY <1>1, <1>2, <1>3, <1>4

LEMMA NestedQuotient ==
  ASSUME NEW a \in Nat \ {0}, NEW b \in Nat \ {0}, NEW x \in Nat
  PROVE  (x \div a) \div b = x \div (a * b)
<1>1. PICK q \in Nat : q = x \div a /\ a * q \leq x /\ x < a * q + a
  BY QuotientInNat
<1>2. PICK d \in Nat : d = q \div b /\ b * d \leq q /\ q < b * d + b
  BY QuotientInNat
<1>3. PICK c \in Nat \ {0} : c = a * b
  <2>1. a * b \in Nat /\ a * b # 0
    OBVIOUS
  <2> QED
    BY <2>1
<1>4. c * d \leq x
  <2>1. a * (b * d) \leq a * q
    BY <1>2
  <2>2. a * (b * d) = c * d
    BY <1>3
  <2> QED
    BY <1>1, <2>1, <2>2
<1>5. x < c * d + c
  <2>1. q + 1 \leq b * d + b
    BY <1>2
  <2>2. a * (q + 1) \leq a * (b * d + b)
    BY <2>1
  <2>3. a * (q + 1) = a * q + a
    OBVIOUS
  <2>4. a * (b * d + b) = c * d + c
    BY <1>3
  <2>5. a * q + a \leq c * d + c
    BY <2>2, <2>3, <2>4
  <2>6. c * d + c \in Int /\ a * q + a \in Int
    OBVIOUS
  <2> QED
    BY <1>1, <2>5, <2>6
<1>6. x \div c = d
  BY <1>4, <1>5, QuotientIs
<1>7. QED
  BY <1>1, <1>2, <1>3, <1>6

(* The powers of the base, up to m.                                        *)
Weights(p, base, m) ==
    \A k \in 0 .. m : p[k] = IF k = 0 THEN 1 ELSE base * p[k - 1]

LEMMA WeightsAre ==
  ASSUME NEW base \in Nat \ {0, 1}, NEW m \in Nat, NEW p, Weights(p, base, m)
  PROVE  \A k \in 0 .. m : p[k] \in Nat \ {0}
<1> DEFINE T == {k \in Nat : k \leq m => p[k] \in Nat \ {0}}
<1>1. 0 \in T
  BY DEF Weights
<1>2. ASSUME NEW k \in T PROVE k + 1 \in T
  <2> SUFFICES ASSUME k + 1 \leq m PROVE p[k + 1] \in Nat \ {0}
    OBVIOUS
  <2>1. p[k] \in Nat \ {0} /\ k + 1 \in 0 .. m /\ k + 1 # 0 /\ (k + 1) - 1 = k
    OBVIOUS
  <2>2. p[k + 1] = base * p[k]
    BY <2>1 DEF Weights
  <2>3. \A y \in Nat \ {0} : base * y \in Nat \ {0}
    OBVIOUS
  <2> QED
    BY <2>1, <2>2, <2>3
<1>3. Nat \subseteq T
  <2> HIDE DEF T
  <2> QED BY <1>1, <1>2, Induction DEF T
<1>4. QED
  BY <1>3

LEMMA WeightsGrow ==
  ASSUME NEW base \in Nat \ {0, 1}, NEW m \in Nat, NEW p, Weights(p, base, m)
  PROVE  \A i \in 0 .. m, j \in 0 .. m : i \leq j => p[i] \leq p[j]
<1>1. \A k \in 0 .. m : p[k] \in Nat \ {0}
  BY WeightsAre
<1> DEFINE T == {j \in Nat : j \leq m => \A i \in 0 .. j : p[i] \leq p[j]}
<1>2. 0 \in T
  <2>1. p[0] \in Nat /\ \A i \in 0 .. 0 : i = 0
    BY <1>1
  <2> QED
    BY <2>1
<1>3. ASSUME NEW j \in T PROVE j + 1 \in T
  <2> SUFFICES ASSUME j + 1 \leq m, NEW i \in 0 .. j + 1 PROVE p[i] \leq p[j + 1]
    OBVIOUS
  <2>1. j + 1 \in 0 .. m /\ j \in 0 .. m /\ j + 1 # 0 /\ (j + 1) - 1 = j
    OBVIOUS
  <2>2. p[j + 1] = base * p[j]
    BY <2>1 DEF Weights
  <2>3. p[j] \in Nat \ {0} /\ p[j + 1] \in Nat
    BY <1>1, <2>1
  <2>4. \A y \in Nat : y \leq base * y
    OBVIOUS
  <2>5. p[j] \leq p[j + 1]
    BY <2>2, <2>3, <2>4
  <2>6. CASE i = j + 1
    BY <2>3, <2>6
  <2>7. CASE i # j + 1
    <3>1. i \in 0 .. j /\ i \in 0 .. m
      BY <2>1, <2>7
    <3>2. p[i] \leq p[j] /\ p[i] \in Nat
      BY <1>1, <2>1, <3>1
    <3> QED
      BY <2>3, <2>5, <3>2
  <2> QED
    BY <2>6, <2>7
<1>4. Nat \subseteq T
  <2> HIDE DEF T
  <2> QED BY <1>2, <1>3, Induction DEF T
<1>5. \A j \in 0 .. m : j \in T
  BY <1>4
<1>6. QED
  BY <1>5

(* A number has n digits.                                                  *)
Needs(x, p, n) == n \geq 1 /\ x < p[n] /\ (n > 1 => p[n - 1] \leq x)

LEMMA NeedsOne ==
  ASSUME NEW base \in Nat \ {0, 1}, NEW m \in Nat, NEW p, Weights(p, base, m),
         NEW x \in Nat, NEW i \in 1 .. m, NEW j \in 1 .. m, Needs(x, p, i), Needs(x, p, j)
  PROVE  i = j
<1>1. ASSUME NEW a \in 1 .. m, NEW b \in 1 .. m, Needs(x, p, a), Needs(x, p, b), a < b
      PROVE  FALSE
  <2>1. a \in 0 .. m /\ b - 1 \in 0 .. m /\ a \leq b - 1 /\ b > 1
    BY <1>1
  <2>2. p[a] \leq p[b - 1] /\ p[a] \in Nat /\ p[b - 1] \in Nat
    BY <2>1, WeightsGrow, WeightsAre
  <2>3. x < p[a] /\ p[b - 1] \leq x
    BY <1>1, <2>1 DEF Needs
  <2> QED
    BY <2>2, <2>3
<1>2. QED
  BY <1>1

(* The digits of v are those of its quotients by the weights.              *)
Weighed(v, base, p) ==
    \E n \in 1 .. v + 1 :
       /\ Needs(v, p, n) /\ digits(v, base) \in Text /\ Len(digits(v, base)) = n
       /\ \A k \in 1 .. n : digits(v, base)[k] = Digit[((v \div p[n - k]) % base) + 1]

(* The digits of a number are those of its quotient and one more.          *)
LEMMA DigitsByWeight ==
  ASSUME NEW base \in {10, 16}, NEW v \in Nat, NEW m \in Nat, v + 1 \leq m,
         NEW p, Weights(p, base, m)
  PROVE  Weighed(v, base, p)
<1>1. base \in Bases /\ base \in Nat \ {0, 1}
  BY DEF Bases
<1>2. PICK g \in [0 .. v -> Text] :
            /\ digits(v, base) = g[v]
            /\ \A x \in 0 .. v :
                 g[x] = IF x < base THEN <<Digit[x + 1]>>
                        ELSE Append(g[x \div base], Digit[(x % base) + 1])
  BY <1>1, DigitsAre
<1>3. \A k \in 0 .. m : p[k] \in Nat \ {0}
  BY <1>1, WeightsAre
<1>4. p[0] = 1 /\ p[1] = base
  <2>1. 0 \in 0 .. m /\ 1 \in 0 .. m /\ 1 # 0 /\ 1 - 1 = 0
    OBVIOUS
  <2>2. p[0] = 1
    BY <2>1 DEF Weights
  <2>3. p[1] = base * p[0]
    BY <2>1 DEF Weights
  <2> QED
    BY <1>1, <2>2, <2>3
<1> DEFINE Place(x, n, k) == Digit[((x \div p[n - k]) % base) + 1]
           Good(x) == \E n \in 1 .. x + 1 :
                        /\ Needs(x, p, n) /\ Len(g[x]) = n
                        /\ \A k \in 1 .. n : g[x][k] = Place(x, n, k)
           T == {j \in Nat : \A x \in 0 .. v : x \leq j => Good(x)}
<1>5. ASSUME NEW x \in 0 .. v, x < base PROVE Good(x)
  <2>1. g[x] = <<Digit[x + 1]>>
    BY <1>2, <1>5
  <2>2. Len(g[x]) = 1 /\ g[x][1] = Digit[x + 1]
    BY <2>1
  <2>3. Needs(x, p, 1)
    BY <1>4, <1>5 DEF Needs
  <2>4. (x \div p[1 - 1]) % base = x
    <3>1. x \div 1 = x /\ x % base = x /\ 1 - 1 = 0
      BY <1>1, <1>5
    <3> QED
      BY <1>4, <3>1
  <2>5. \A k \in 1 .. 1 : k = 1
    OBVIOUS
  <2>6. \A k \in 1 .. 1 : g[x][k] = Place(x, 1, k)
    BY <2>2, <2>4, <2>5
  <2>7. 1 \in 1 .. x + 1
    OBVIOUS
  <2> HIDE DEF Place
  <2> QED
    BY <2>2, <2>3, <2>6, <2>7
<1>6. ASSUME NEW x \in 0 .. v, ~(x < base), Good(x \div base) PROVE Good(x)
  <2>1. PICK q \in 0 .. v : q = x \div base /\ q < x /\ base * q \leq x /\ x < base * q + base
    <3>3. x \in Nat /\ base \in Nat \ {0}
      BY <1>1
    <3>1. x \div base \in Nat /\ base * (x \div base) \leq x /\ x < base * (x \div base) + base
      BY <3>3, QuotientInNat
    <3>2. x \div base < x
      <4>1. x \geq base
        BY <1>1, <1>6
      <4> QED
        BY <1>1, <3>3, <4>1, Quotient
    <3> QED
      BY <3>1, <3>2
  <2>2. PICK n \in 1 .. q + 1 :
          /\ Needs(q, p, n) /\ Len(g[q]) = n
          /\ \A k \in 1 .. n : g[q][k] = Place(q, n, k)
    BY <1>6, <2>1
  <2>3. g[x] = Append(g[q], Digit[(x % base) + 1]) /\ g[q] \in Text
    BY <1>2, <1>6, <2>1
  <2>4. PICK d : d = Digit[(x % base) + 1]
    OBVIOUS
  <2>5. /\ Len(g[x]) = n + 1 /\ g[x][n + 1] = d
        /\ \A k \in 1 .. n : g[x][k] = g[q][k]
    <3>1. d \in Symbol
      <4>1. (x % base) + 1 \in 1 .. 16
        BY <1>1, QuotientInNat
      <4> QED
        BY <2>4, <4>1, DigitIsSymbol
    <3>2. PICK s \in Seq(Symbol) : s = g[q] /\ Len(s) = n
      BY <2>2, <2>3 DEF Text
    <3>3. g[x] = Append(s, d)
      BY <2>3, <2>4, <3>2
    <3> HIDE DEF Symbol
    <3>4. /\ Len(Append(s, d)) = Len(s) + 1
          /\ \A k \in 1 .. Len(s) : Append(s, d)[k] = s[k]
          /\ Append(s, d)[Len(s) + 1] = d
      BY <3>1, AppendProperties
    <3> QED
      BY <3>2, <3>3, <3>4
  <2>6. n \in 1 .. v /\ n + 1 \in 1 .. m /\ n + 1 \in 1 .. x + 1 /\ n \in 0 .. m /\ n - 1 \in 0 .. m
        /\ n + 1 \in 0 .. m /\ n + 1 # 0 /\ (n + 1) - 1 = n
    BY <2>1
  <2>7. PICK w \in Nat : w = p[n]
    BY <1>3, <2>6
  <2>8. p[n + 1] = base * w
    BY <2>6, <2>7 DEF Weights
  <2>9. x < p[n + 1]
    <3>1. q + 1 \leq w
      BY <2>2, <2>7 DEF Needs
    <3>2. base * (q + 1) \leq base * w
      BY <3>1
    <3>3. base * (q + 1) = base * q + base
      OBVIOUS
    <3> QED
      BY <2>1, <2>8, <3>2, <3>3
  <2>10. p[n] \leq x
    <3>1. CASE n = 1
      BY <1>4, <1>6, <3>1
    <3>2. CASE n # 1
      <4>1. PICK u \in Nat : u = p[n - 1]
        BY <1>3, <2>6
      <4>2. u \leq q
        BY <2>2, <3>2, <4>1 DEF Needs
      <4>3. p[n] = base * u
        <5>1. n # 0
          OBVIOUS
        <5> QED
          BY <2>6, <4>1, <5>1 DEF Weights
      <4>4. base * u \leq base * q
        BY <4>2
      <4> QED
        BY <2>1, <4>3, <4>4
    <3> QED
      BY <3>1, <3>2
  <2>11. Needs(x, p, n + 1)
    BY <2>6, <2>9, <2>10 DEF Needs
  <2>12. ASSUME NEW k \in 1 .. n + 1 PROVE g[x][k] = Place(x, n + 1, k)
    <3>1. CASE k = n + 1
      <4>1. p[(n + 1) - k] = 1
        <5>1. (n + 1) - k = 0
          BY <3>1
        <5> QED
          BY <1>4, <5>1
      <4>2. x \div 1 = x
        OBVIOUS
      <4> QED
        BY <2>4, <2>5, <3>1, <4>1, <4>2
    <3>2. CASE k # n + 1
      <4>1. k \in 1 .. n /\ n - k \in 0 .. m /\ (n + 1) - k \in 0 .. m /\ (n + 1) - k # 0
            /\ ((n + 1) - k) - 1 = n - k
        BY <2>6, <3>2
      <4>2. PICK u \in Nat \ {0} : u = p[n - k]
        BY <1>3, <4>1
      <4>3. p[(n + 1) - k] = base * u
        BY <4>1, <4>2 DEF Weights
      <4>4. (x \div base) \div u = x \div (base * u)
        BY <1>1, NestedQuotient
      <4>5. x \div p[(n + 1) - k] = q \div p[n - k]
        BY <2>1, <4>2, <4>3, <4>4
      <4>6. g[x][k] = Place(q, n, k)
        BY <2>2, <2>5, <4>1
      <4> QED
        BY <4>5, <4>6
    <3> QED
      BY <3>1, <3>2
  <2> HIDE DEF Place
  <2>13. \A k \in 1 .. n + 1 : g[x][k] = Place(x, n + 1, k)
    BY <2>12
  <2> QED
    BY <2>5, <2>6, <2>11, <2>13
<1>7. 0 \in T
  <2>1. 0 \in 0 .. v /\ 0 < base /\ \A x \in 0 .. v : x \leq 0 => x = 0
    BY <1>1
  <2> HIDE DEF Good
  <2> QED
    BY <1>5, <2>1
<1>8. ASSUME NEW j \in T PROVE j + 1 \in T
  <2> SUFFICES ASSUME NEW x \in 0 .. v, x = j + 1 PROVE Good(x)
    <3> HIDE DEF Good
    <3> QED
      OBVIOUS
  <2>1. CASE x < base
    BY <1>5, <2>1
  <2>2. CASE ~(x < base)
    <3>1. x \div base \in 0 .. v /\ x \div base \leq j
      <4>1. x \div base \in Nat /\ x \div base < x
        <5>1. x \geq base /\ x \in Nat
          BY <1>1, <2>2
        <5> QED
          BY <1>1, <5>1, Quotient
      <4> QED
        BY <4>1
    <3> HIDE DEF Good
    <3>2. Good(x \div base)
      BY <3>1
    <3> QED
      BY <1>6, <2>2, <3>2
  <2> QED
    BY <2>1, <2>2
<1>9. Nat \subseteq T
  <2> HIDE DEF T
  <2> QED BY <1>7, <1>8, Induction DEF T
<1>10. Good(v)
  <2> HIDE DEF Good
  <2>1. v \in T /\ v \in 0 .. v /\ v \leq v
    BY <1>9
  <2> QED
    BY <2>1
<1>11. digits(v, base) = g[v] /\ g[v] \in Text
  BY <1>2
<1>12. QED
  BY <1>10, <1>11 DEF Weighed

-----------------------------------------------------------------------------
(* The texts of a sequence of texts, one after the other.                  *)
LEMMA FlattenExists ==
  ASSUME NEW s, NEW n \in Nat
  PROVE  \E g : g = [i \in 1 .. n |-> IF i = 1 THEN s[i] ELSE g[i - 1] \o s[i]]
<1> DEFINE Step(g, i) == IF i = 1 THEN s[i] ELSE g[i - 1] \o s[i]
           T == {k \in Nat : \E g : g = [i \in 1 .. k |-> Step(g, i)]}
<1>1. 0 \in T
  <2> DEFINE g == [i \in 1 .. 0 |-> << >>]
  <2>1. g = [i \in 1 .. 0 |-> Step(g, i)]
    OBVIOUS
  <2> QED
    BY <2>1
<1>2. ASSUME NEW k \in T PROVE k + 1 \in T
  <2>1. PICK g : g = [i \in 1 .. k |-> Step(g, i)]
    OBVIOUS
  <2> DEFINE h == [i \in 1 .. k + 1 |-> IF i = k + 1 THEN Step(g, i) ELSE g[i]]
  <2>2. ASSUME NEW i \in 1 .. k + 1 PROVE h[i] = Step(h, i)
    <3>1. i # 1 => i - 1 \in 1 .. k /\ i - 1 # k + 1 /\ i - 1 \in 1 .. k + 1
      OBVIOUS
    <3>2. i # 1 => h[i - 1] = g[i - 1]
      BY <3>1
    <3>3. Step(h, i) = Step(g, i)
      <4> HIDE DEF h
      <4> QED BY <3>2
    <3>4. i # k + 1 => g[i] = Step(g, i)
      <4>1. i # k + 1 => i \in 1 .. k
        OBVIOUS
      <4> HIDE DEF Step
      <4> QED BY <2>1, <4>1
    <3> HIDE DEF Step
    <3> QED BY <3>3, <3>4
  <2>3. h = [i \in 1 .. k + 1 |-> h[i]]
    OBVIOUS
  <2>4. h = [i \in 1 .. k + 1 |-> Step(h, i)]
    <3> HIDE DEF Step, h
    <3> QED BY <2>2, <2>3
  <2>5. \E f : f = [i \in 1 .. k + 1 |-> Step(f, i)]
    <3> HIDE DEF Step, h
    <3> QED BY <2>4, Zenon
  <2>6. k + 1 \in Nat
    OBVIOUS
  <2> QED
    <3> HIDE DEF Step
    <3> QED BY <2>5, <2>6, Zenon
<1>3. n \in T
  <2> HIDE DEF T
  <2> QED BY <1>1, <1>2, Induction DEF T
<1>4. QED
  BY <1>3

(* What is joined after each member.                                       *)
Joins(j, s, n, S) ==
    /\ \A i \in 0 .. n : j[i] \in Seq(S)
    /\ j[0] = << >>
    /\ \A i \in 1 .. n : j[i] = j[i - 1] \o s[i]

LEMMA FlattenIs ==
  ASSUME NEW S, NEW s \in Seq(Seq(S))
  PROVE  \E j : Joins(j, s, Len(s), S) /\ FlattenSeq(s) = j[Len(s)]
<1>1. PICK n \in Nat : n = Len(s)
  BY LenProperties
<1>2. \A i \in 1 .. n : s[i] \in Seq(S)
  BY <1>1, LenProperties
<1>3. CASE n = 0
  <2>1. s = << >> /\ FlattenSeq(s) = << >>
    BY <1>1, <1>3, EmptySeq DEF FlattenSeq
  <2> DEFINE j == [i \in 0 .. 0 |-> << >>]
  <2>2. Joins(j, s, 0, S) /\ j[0] = << >>
    BY DEF Joins
  <2> HIDE DEF j
  <2> QED
    BY <1>1, <1>3, <2>1, <2>2
<1>4. CASE n # 0
  <2> DEFINE Step(g, i) == IF i = 1 THEN s[i] ELSE g[i - 1] \o s[i]
             f == CHOOSE g : g = [i \in 1 .. n |-> Step(g, i)]
  <2>1. FlattenSeq(s) = f[n]
    BY <1>1, <1>4 DEF FlattenSeq
  <2>2. f = [i \in 1 .. n |-> Step(f, i)]
    BY FlattenExists, Zenon
  <2> HIDE DEF f
  <2>3. \A i \in 1 .. n : f[i] = Step(f, i)
    <3> HIDE DEF Step
    <3> QED BY <2>2
  <2> DEFINE j == [i \in 0 .. n |-> IF i = 0 THEN << >> ELSE f[i]]
  <2>4. j[0] = << >>
    BY <1>4
  <2>5. ASSUME NEW i \in 1 .. n PROVE j[i] = j[i - 1] \o s[i]
    <3>1. i \in 0 .. n /\ i # 0 /\ i - 1 \in 0 .. n
      OBVIOUS
    <3>2. j[i] = Step(f, i)
      BY <2>3, <3>1
    <3>3. CASE i = 1
      <4>1. j[i - 1] = << >> /\ s[i] \in Seq(S) /\ j[i] = s[i]
        BY <1>2, <2>4, <3>2, <3>3
      <4> HIDE DEF j
      <4> QED
        BY <4>1, ConcatEmptySeq
    <3>4. CASE i # 1
      <4>1. j[i - 1] = f[i - 1]
        BY <3>1, <3>4
      <4> HIDE DEF j
      <4> QED
        BY <3>2, <3>4, <4>1
    <3> QED
      BY <3>3, <3>4
  <2>6. j[n] = f[n]
    BY <1>4
  <2> HIDE DEF j
  <2> DEFINE T == {i \in Nat : i \leq n => j[i] \in Seq(S)}
  <2>7. 0 \in T
    <3>1. << >> \in Seq(S)
      OBVIOUS
    <3> QED
      BY <2>4, <3>1
  <2>8. ASSUME NEW i \in T PROVE i + 1 \in T
    <3> SUFFICES ASSUME i + 1 \leq n PROVE j[i + 1] \in Seq(S)
      OBVIOUS
    <3>1. i + 1 \in 1 .. n /\ (i + 1) - 1 = i /\ j[i] \in Seq(S)
      OBVIOUS
    <3>2. j[i + 1] = j[i] \o s[i + 1] /\ s[i + 1] \in Seq(S)
      BY <1>2, <2>5, <3>1
    <3> QED
      BY <3>1, <3>2, ConcatProperties
  <2>9. Nat \subseteq T
    <3> HIDE DEF T
    <3> QED BY <2>7, <2>8, Induction DEF T
  <2>11. \A i \in 0 .. n : j[i] \in Seq(S)
    BY <2>9
  <2> HIDE DEF T
  <2>10. Joins(j, s, n, S)
    BY <2>4, <2>5, <2>11, Zenon DEF Joins
  <2> QED
    BY <1>1, <2>1, <2>6, <2>10
<1>5. QED
  BY <1>3, <1>4

LEMMA FlattenInSeq ==
  ASSUME NEW S, NEW s \in Seq(Seq(S))
  PROVE  FlattenSeq(s) \in Seq(S)
<1>1. PICK j : Joins(j, s, Len(s), S) /\ FlattenSeq(s) = j[Len(s)]
  BY FlattenIs
<1>2. Len(s) \in 0 .. Len(s)
  <2>1. Len(s) \in Nat
    BY LenProperties
  <2> QED
    BY <2>1
<1>3. QED
  BY <1>1, <1>2 DEF Joins

LEMMA FlattenConcat ==
  ASSUME NEW S, NEW s \in Seq(Seq(S)), NEW t \in Seq(Seq(S))
  PROVE  FlattenSeq(s \o t) = FlattenSeq(s) \o FlattenSeq(t)
<1>1. PICK m \in Nat, n \in Nat : m = Len(s) /\ n = Len(t)
  BY LenProperties
<1>2. PICK u : u = s \o t
  OBVIOUS
<1>3. /\ u \in Seq(Seq(S)) /\ Len(u) = m + n
      /\ \A k \in 1 .. m : u[k] = s[k]
      /\ \A k \in m + 1 .. m + n : u[k] = t[k - m]
  BY <1>1, <1>2, Joined
<1>4. PICK a : Joins(a, s, m, S) /\ FlattenSeq(s) = a[m]
  BY <1>1, FlattenIs
<1>5. PICK b : Joins(b, t, n, S) /\ FlattenSeq(t) = b[n]
  BY <1>1, FlattenIs
<1>6. PICK c : Joins(c, u, m + n, S) /\ FlattenSeq(u) = c[m + n]
  BY <1>3, FlattenIs
<1>7. \A k \in 1 .. n : t[k] \in Seq(S)
  BY <1>1, LenProperties
<1> DEFINE T == {i \in Nat : i \leq m => c[i] = a[i]}
<1>8. 0 \in T
  BY <1>4, <1>6 DEF Joins
<1>9. ASSUME NEW i \in T PROVE i + 1 \in T
  <2> SUFFICES ASSUME i + 1 \leq m PROVE c[i + 1] = a[i + 1]
    OBVIOUS
  <2>1. /\ i + 1 \in 1 .. m /\ i + 1 \in 1 .. m + n /\ (i + 1) - 1 = i
        /\ c[i] = a[i]
    OBVIOUS
  <2>2. c[i + 1] = c[i] \o u[i + 1]
    BY <1>6, <2>1 DEF Joins
  <2>3. a[i + 1] = a[i] \o s[i + 1]
    BY <1>4, <2>1 DEF Joins
  <2> QED
    BY <1>3, <2>1, <2>2, <2>3
<1>10. Nat \subseteq T
  <2> HIDE DEF T
  <2> QED BY <1>8, <1>9, Induction DEF T
<1>11. c[m] = a[m] /\ a[m] \in Seq(S)
  <2>1. m \in T /\ m \in 0 .. m
    BY <1>10
  <2> QED
    BY <1>4, <2>1 DEF Joins
<1> DEFINE Both(i) == c[m + i] = a[m] \o b[i]
           R == {i \in Nat : i \leq n => Both(i)}
<1>12. 0 \in R
  <2>1. a[m] \o << >> = a[m]
    BY <1>11, ConcatEmptySeq
  <2>2. b[0] = << >> /\ m + 0 = m
    BY <1>5 DEF Joins
  <2> QED
    BY <1>11, <2>1, <2>2
<1>13. ASSUME NEW i \in R PROVE i + 1 \in R
  <2> SUFFICES ASSUME i + 1 \leq n PROVE Both(i + 1)
    <3> HIDE DEF Both
    <3> QED
      OBVIOUS
  <2>0. Both(i) /\ i \in Nat
    <3> HIDE DEF Both
    <3> QED
      OBVIOUS
  <2>1. /\ i + 1 \in 1 .. n /\ (i + 1) - 1 = i /\ i \in 0 .. n
        /\ m + (i + 1) \in 1 .. m + n /\ (m + (i + 1)) - 1 = m + i
        /\ m + (i + 1) \in m + 1 .. m + n /\ (m + (i + 1)) - m = i + 1
    BY <2>0
  <2>2. c[m + (i + 1)] = c[m + i] \o t[i + 1]
    <3>1. c[m + (i + 1)] = c[m + i] \o u[m + (i + 1)]
      BY <1>6, <2>1 DEF Joins
    <3>2. u[m + (i + 1)] = t[i + 1]
      BY <1>3, <2>1
    <3> QED
      BY <3>1, <3>2
  <2>3. b[i + 1] = b[i] \o t[i + 1] /\ b[i] \in Seq(S) /\ t[i + 1] \in Seq(S)
    BY <1>5, <1>7, <2>1 DEF Joins
  <2>4. \A x, y, z \in Seq(S) : (x \o y) \o z = x \o (y \o z)
    BY ConcatAssociative
  <2>5. (a[m] \o b[i]) \o t[i + 1] = a[m] \o (b[i] \o t[i + 1])
    BY <1>11, <2>3, <2>4, Zenon
  <2> QED
    BY <2>0, <2>2, <2>3, <2>5, Zenon
<1>14. Nat \subseteq R
  <2> HIDE DEF R
  <2> QED BY <1>12, <1>13, Induction DEF R
<1>15. c[m + n] = a[m] \o b[n]
  <2>1. n \in R /\ n \leq n
    <3> HIDE DEF R
    <3> QED
      BY <1>14
  <2> QED
    BY <2>1, Zenon
<1>16. QED
  BY <1>2, <1>4, <1>5, <1>6, <1>15

LEMMA FlattenOne ==
  ASSUME NEW S, NEW x \in Seq(S)
  PROVE  FlattenSeq(<<x>>) = x /\ FlattenSeq(<< >>) = << >>
<1>1. FlattenSeq(<< >>) = << >>
  BY DEF FlattenSeq
<1>2. <<x>> \in Seq(Seq(S)) /\ Len(<<x>>) = 1 /\ <<x>>[1] = x
  OBVIOUS
<1>3. PICK s : s = <<x>>
  OBVIOUS
<1>4. PICK j : Joins(j, s, 1, S) /\ FlattenSeq(s) = j[1]
  BY <1>2, <1>3, FlattenIs
<1>5. j[1] = j[0] \o s[1] /\ j[0] = << >>
  <2>1. 1 \in 1 .. 1 /\ 1 - 1 = 0
    OBVIOUS
  <2> QED
    BY <1>4, <2>1 DEF Joins
<1>6. << >> \o x = x
  BY ConcatEmptySeq
<1>7. QED
  BY <1>1, <1>2, <1>3, <1>4, <1>5, <1>6

(* Each member of s gives way to what h makes of it.                       *)
Maps(h, A, S) == h \in [A -> Seq(S)]
FlatMap(h, s) == FlattenSeq([k \in DOMAIN s |-> h[s[k]]])

MapOf(f, h, s, S) ==
    /\ f \in Seq(Seq(S)) /\ Len(f) = Len(s) /\ FlatMap(h, s) = FlattenSeq(f)
    /\ \A k \in 1 .. Len(s) : f[k] = h[s[k]]

LEMMA FunctionIsSeq ==
  ASSUME NEW S, NEW n \in Nat, NEW f \in [1 .. n -> S]
  PROVE  f \in Seq(S) /\ Len(f) = n
<1>1. f \in Seq(S) /\ DOMAIN f = 1 .. n
  BY SeqOfLength
<1>2. Len(f) \in Nat /\ DOMAIN f = 1 .. Len(f)
  BY <1>1, LenProperties
<1>3. QED
  BY <1>1, <1>2

LEMMA Mapped ==
  ASSUME NEW A, NEW S, NEW h, Maps(h, A, S), NEW s \in Seq(A)
  PROVE  \E f : MapOf(f, h, s, S)
<1>1. PICK n \in Nat : n = Len(s) /\ DOMAIN s = 1 .. n
  BY LenProperties
<1>2. \A k \in 1 .. n : s[k] \in A
  BY <1>1, LenProperties
<1>3. PICK f : f = [k \in 1 .. n |-> h[s[k]]]
  OBVIOUS
<1>4. f \in [1 .. n -> Seq(S)]
  BY <1>2, <1>3 DEF Maps
<1>5. f \in Seq(Seq(S)) /\ Len(f) = n
  BY <1>4, FunctionIsSeq
<1>6. f = [k \in DOMAIN s |-> h[s[k]]]
  BY <1>1, <1>3
<1>7. FlatMap(h, s) = FlattenSeq(f)
  BY <1>6, Zenon DEF FlatMap
<1>8. \A k \in 1 .. n : f[k] = h[s[k]]
  BY <1>3
<1>9. QED
  BY <1>1, <1>5, <1>7, <1>8, Zenon DEF MapOf

LEMMA FlatMapInSeq ==
  ASSUME NEW A, NEW S, NEW h, Maps(h, A, S), NEW s \in Seq(A)
  PROVE  FlatMap(h, s) \in Seq(S)
<1>4. \E f : MapOf(f, h, s, S)
  BY Mapped, Zenon
<1>1. PICK f : f \in Seq(Seq(S)) /\ FlatMap(h, s) = FlattenSeq(f)
  BY <1>4, Zenon DEF MapOf
<1>2. FlattenSeq(f) \in Seq(S)
  BY <1>1, FlattenInSeq
<1>3. QED
  BY <1>1, <1>2

LEMMA FlatMapConcat ==
  ASSUME NEW A, NEW S, NEW h, Maps(h, A, S), NEW s \in Seq(A), NEW t \in Seq(A)
  PROVE  FlatMap(h, s \o t) = FlatMap(h, s) \o FlatMap(h, t)
<1>1. PICK m \in Nat, n \in Nat : m = Len(s) /\ n = Len(t)
  BY LenProperties
<1>2. PICK u : u = s \o t
  OBVIOUS
<1>3. /\ u \in Seq(A) /\ Len(u) = m + n
      /\ \A k \in 1 .. m : u[k] = s[k]
      /\ \A k \in m + 1 .. m + n : u[k] = t[k - m]
  BY <1>1, <1>2, Joined
<1>13. /\ \E f : MapOf(f, h, s, S)
       /\ \E f : MapOf(f, h, t, S)
       /\ \E f : MapOf(f, h, u, S)
  BY <1>3, Mapped, Zenon
<1>4. PICK f : /\ f \in Seq(Seq(S)) /\ Len(f) = m /\ FlatMap(h, s) = FlattenSeq(f)
               /\ \A k \in 1 .. m : f[k] = h[s[k]]
  BY <1>1, <1>13, Zenon DEF MapOf
<1>5. PICK g : /\ g \in Seq(Seq(S)) /\ Len(g) = n /\ FlatMap(h, t) = FlattenSeq(g)
               /\ \A k \in 1 .. n : g[k] = h[t[k]]
  BY <1>1, <1>13, Zenon DEF MapOf
<1>14. PICK e : MapOf(e, h, u, S)
  BY <1>13, Zenon
<1>6. /\ e \in Seq(Seq(S)) /\ Len(e) = m + n /\ FlatMap(h, u) = FlattenSeq(e)
      /\ \A k \in 1 .. m + n : e[k] = h[u[k]]
  <2>1. Len(u) = m + n
    BY <1>3
  <2> QED
    BY <2>1, <1>14 DEF MapOf
<1>7. PICK c : c = f \o g
  OBVIOUS
<1>8. /\ c \in Seq(Seq(S)) /\ Len(c) = m + n
      /\ \A k \in 1 .. m : c[k] = f[k]
      /\ \A k \in m + 1 .. m + n : c[k] = g[k - m]
  <2>1. /\ f \o g \in Seq(Seq(S)) /\ Len(f \o g) = Len(f) + Len(g)
        /\ \A k \in 1 .. Len(f) : (f \o g)[k] = f[k]
        /\ \A k \in Len(f) + 1 .. Len(f) + Len(g) : (f \o g)[k] = g[k - Len(f)]
    BY <1>4, <1>5, Joined, Zenon
  <2> QED
    BY <1>4, <1>5, <1>7, <2>1, Zenon
<1>9. \A k \in 1 .. m + n : e[k] = c[k]
  <2> TAKE k \in 1 .. m + n
  <2>1. CASE k \leq m
    <3>1. k \in 1 .. m
      BY <2>1
    <3>2. e[k] = h[u[k]]
      BY <1>6
    <3>3. u[k] = s[k]
      BY <1>3, <3>1
    <3>4. c[k] = f[k] /\ f[k] = h[s[k]]
      BY <1>4, <1>8, <3>1
    <3> QED
      BY <3>2, <3>3, <3>4
  <2>2. CASE ~(k \leq m)
    <3>1. k \in m + 1 .. m + n /\ k - m \in 1 .. n
      BY <2>2
    <3>2. e[k] = h[u[k]]
      BY <1>6
    <3>3. u[k] = t[k - m]
      BY <1>3, <3>1
    <3>4. c[k] = g[k - m] /\ g[k - m] = h[t[k - m]]
      BY <1>5, <1>8, <3>1
    <3> QED
      BY <3>2, <3>3, <3>4
  <2> QED
    BY <2>1, <2>2
<1>10. e = c
  BY <1>6, <1>8, <1>9, SeqEqual
<1>11. FlattenSeq(c) = FlattenSeq(f) \o FlattenSeq(g)
  BY <1>4, <1>5, <1>7, FlattenConcat
<1>12. QED
  BY <1>2, <1>4, <1>5, <1>6, <1>10, <1>11, Zenon

LEMMA FlatMapOne ==
  ASSUME NEW A, NEW S, NEW h, Maps(h, A, S), NEW x \in A
  PROVE  FlatMap(h, <<x>>) = h[x] /\ FlatMap(h, << >>) = << >>
<1>1. h[x] \in Seq(S)
  BY DEF Maps
<1>2. [k \in DOMAIN <<x>> |-> h[<<x>>[k]]] = <<h[x]>>
  OBVIOUS
<1>3. [k \in DOMAIN << >> |-> h[<< >>[k]]] = << >>
  OBVIOUS
<1>4. FlattenSeq(<<h[x]>>) = h[x] /\ FlattenSeq(<< >>) = << >>
  BY <1>1, FlattenOne
<1>5. QED
  BY <1>2, <1>3, <1>4 DEF FlatMap

-----------------------------------------------------------------------------
(* What the UART makes of a character.                                     *)
Return == [c \in Symbol |-> IF c = "\n" THEN <<"\n", "\r">> ELSE <<c>>]

LEMMA ReturnIs ==
  /\ Maps(Return, Symbol, Symbol)
  /\ "\n" \in Symbol /\ "\r" \in Symbol /\ Return["\n"] = <<"\n", "\r">>
  /\ \A c \in Symbol : c # "\n" => Return[c] = <<c>>
<1>1. "\n" \in Symbol /\ "\r" \in Symbol
  BY DEF Symbol, Marks
<1>2. ASSUME NEW c \in Symbol
      PROVE  (IF c = "\n" THEN <<"\n", "\r">> ELSE <<c>>) \in Seq(Symbol)
  <2>1. <<"\n", "\r">> \in Seq(Symbol)
    <3> HIDE DEF Symbol
    <3> QED BY <1>1
  <2>2. <<c>> \in Seq(Symbol)
    <3> HIDE DEF Symbol
    <3> QED OBVIOUS
  <2> HIDE DEF Symbol
  <2> QED
    BY <2>1, <2>2
<1> HIDE DEF Symbol
<1>3. Return \in [Symbol -> Seq(Symbol)]
  BY <1>2 DEF Return
<1>4. Return["\n"] = <<"\n", "\r">>
  BY <1>1 DEF Return
<1>5. \A c \in Symbol : c # "\n" => Return[c] = <<c>>
  BY DEF Return
<1>6. QED
  BY <1>1, <1>3, <1>4, <1>5 DEF Maps

LEMMA ReturnedIs ==
  ASSUME NEW s \in Text
  PROVE  Returned(s) = FlatMap(Return, s) /\ Returned(s) \in Text
<1>1. s \in Seq(Symbol)
  BY DEF Text
<1> HIDE DEF Symbol
<1>2. \A k \in DOMAIN s : s[k] \in Symbol
  BY <1>1, LenProperties
<1>3. \A k \in DOMAIN s : Return[s[k]] = IF s[k] = "\n" THEN <<"\n", "\r">> ELSE <<s[k]>>
  BY <1>2 DEF Return
<1>4. [k \in DOMAIN s |-> Return[s[k]]]
        = [k \in DOMAIN s |-> IF s[k] = "\n" THEN <<"\n", "\r">> ELSE <<s[k]>>]
  BY <1>3, Zenon
<1>5. Returned(s) = FlatMap(Return, s)
  BY <1>4 DEF Returned, FlatMap
<1>6. FlatMap(Return, s) \in Seq(Symbol)
  BY <1>1, ReturnIs, FlatMapInSeq
<1>7. QED
  BY <1>5, <1>6 DEF Text

LEMMA ReturnedConcat ==
  ASSUME NEW s \in Text, NEW t \in Text
  PROVE  Returned(s \o t) = Returned(s) \o Returned(t)
<1>1. s \in Seq(Symbol) /\ t \in Seq(Symbol) /\ s \o t \in Text
  BY TextConcat DEF Text
<1> HIDE DEF Symbol
<1>2. FlatMap(Return, s \o t) = FlatMap(Return, s) \o FlatMap(Return, t)
  BY <1>1, ReturnIs, FlatMapConcat
<1>3. /\ Returned(s \o t) = FlatMap(Return, s \o t)
      /\ Returned(s) = FlatMap(Return, s) /\ Returned(t) = FlatMap(Return, t)
  BY <1>1, ReturnedIs
<1>4. QED
  BY <1>2, <1>3

LEMMA ReturnedOne ==
  ASSUME NEW c \in Symbol
  PROVE  Returned(<< >>) = << >> /\ Returned(<<c>>) = Return[c]
<1>1. << >> \in Text /\ <<c>> \in Text
  BY OneSymbol DEF Text
<1> HIDE DEF Symbol
<1>2. FlatMap(Return, <<c>>) = Return[c] /\ FlatMap(Return, << >>) = << >>
  BY ReturnIs, FlatMapOne
<1>3. Returned(<<c>>) = FlatMap(Return, <<c>>) /\ Returned(<< >>) = FlatMap(Return, << >>)
  BY <1>1, ReturnedIs
<1>4. QED
  BY <1>2, <1>3

-----------------------------------------------------------------------------
(* The weights of a numeral are the powers of its base.                    *)
WeightsOf(base, m) ==
    CHOOSE g : g = [k \in 0 .. m |-> IF k = 0 THEN 1 ELSE base * g[k - 1]]

LEMMA WeightsOfAre ==
  ASSUME NEW base, NEW m \in Nat
  PROVE  Weights(WeightsOf(base, m), base, m)
<1> DEFINE wt == CHOOSE g : g = [k \in 0 .. m |-> IF k = 0 THEN 1 ELSE base * g[k - 1]]
<1>1. \E g : g = [k \in 0 .. m |-> IF k = 0 THEN 1 ELSE base * g[k - 1]]
  BY PowerExists, Zenon
<1>2. wt = [k \in 0 .. m |-> IF k = 0 THEN 1 ELSE base * wt[k - 1]]
  BY <1>1, Zenon
<1>3. WeightsOf(base, m) = wt
  BY DEF WeightsOf
<1> HIDE DEF wt
<1>4. QED
  BY <1>2, <1>3 DEF Weights

(* str::itos returns the numeral of the value: the digits at their weights,*)
(* in as many places as it needs or was asked for, up to the 255 a u8 holds*)
(* (string.cpp:5-44).                                                      *)
THEOREM ItosIsNumeral ==
  ASSUME NEW v \in 0 .. Word - 1, NEW base \in {10, 16}, base = 10 => v < Word \div 2,
         NEW w \in 0 .. 255, NEW u \in Nat, u = IF w = 0 THEN 1 ELSE w
  PROVE  itos(v, base, w) = Numeral(v, base, u)
<1> DEFINE wt == CHOOSE g : g = [k \in 0 .. v + u |->
                                   IF k = 0 THEN 1 ELSE base * g[k - 1]]
           cond(k) == v < wt[k] /\ (k > 1 => v \geq wt[k - 1])
           needed == CHOOSE k \in 1 .. v + u : cond(k)
           places(N) == [k \in 1 .. N |-> Digit[((v \div wt[N - k]) % base) + 1]]
           long == IF needed > u THEN needed ELSE u
           negative == base = 10 /\ v \geq Word \div 2
           txt == digits(v, base)
           zeros(z) == [k \in 1 .. z |-> "0"]
<1>1. v \in Nat /\ base \in Nat \ {0, 1} /\ u \in Nat \ {0} /\ v + 1 \leq v + u /\ v + u \in Nat
  BY FormatAssumption DEF FormatAssumption
<1>2. Numeral(v, base, u) = places(long)
  BY DEF Numeral
<1>3. itos(v, base, w) = (<< >> \o zeros(Max({0, w - Len(txt)}))) \o txt
  <2>1. ~negative
    BY <1>1, FormatAssumption DEF FormatAssumption
  <2> DEFINE value == IF negative THEN Word - v ELSE v
             shown == digits(value, base)
             sign == IF negative THEN <<"-">> ELSE << >>
  <2>2. itos(v, base, w) = (sign \o zeros(Max({0, (w % 256) - Len(shown)}))) \o shown
    BY DEF itos
  <2>3. value = v /\ sign = << >>
    <3> HIDE DEF negative
    <3> QED BY <2>1
  <2>4. w % 256 = w
    OBVIOUS
  <2> HIDE DEF negative, value, sign, zeros
  <2> QED
    BY <2>2, <2>3, <2>4
<1>4. wt = WeightsOf(base, v + u)
  BY DEF WeightsOf
<1> HIDE DEF wt
<1>5. Weights(wt, base, v + u)
  BY <1>1, <1>4, WeightsOfAre
<1>6. PICK n \in 1 .. v + 1 :
         /\ Needs(v, wt, n) /\ txt \in Text /\ Len(txt) = n
         /\ \A k \in 1 .. n : txt[k] = Digit[((v \div wt[n - k]) % base) + 1]
  <2>1. PICK m \in Nat : m = v + u
    BY <1>1
  <2>2. Weights(wt, base, m) /\ v + 1 \leq m /\ v \in Nat
    BY <1>1, <1>5, <2>1
  <2>3. Weighed(v, base, wt)
    BY <2>2, DigitsByWeight
  <2> QED
    BY <2>3 DEF Weighed
<1> HIDE DEF txt
<1>7. \A k \in 0 .. v + u : wt[k] \in Nat \ {0}
  BY <1>1, <1>5, WeightsAre
<1>8. needed = n
  <2>1. n \in 1 .. v + u
    BY <1>1, <1>6
  <2>2. cond(n)
    BY <1>6 DEF Needs
  <2>3. ASSUME NEW k \in 1 .. v + u, cond(k) PROVE k = n
    <3>1. Needs(v, wt, k)
      BY <2>3 DEF Needs
    <3> QED
      BY <1>1, <1>5, <1>6, <2>1, <3>1, NeedsOne
  <2> HIDE DEF cond
  <2> QED
    BY <2>1, <2>2, <2>3, Zenon
<1>9. PICK z \in Nat : z = Max({0, w - Len(txt)}) /\ long = z + n
  <2>1. w - n \in Int
    BY <1>6
  <2>2. Max({0, w - n}) = IF w - n > 0 THEN w - n ELSE 0
    BY <2>1, Padding
  <2> HIDE DEF needed
  <2>3. Max({0, w - n}) \in Nat /\ long = Max({0, w - n}) + n
    BY <1>1, <1>6, <1>8, <2>2
  <2> QED
    BY <1>6, <2>3
<1> HIDE DEF needed, long, cond
<1>10. PICK N \in Nat : N = z + n /\ long = N /\ n \leq N /\ N \leq v + u /\ N \geq 1
  <2>1. long \leq v + u
    BY <1>1, <1>6, <1>8, <1>9 DEF long
  <2> QED
    BY <1>6, <1>9, <2>1
<1>11. \A k \in 1 .. N : ((v \div wt[N - k]) % base) + 1 \in 1 .. 16
  <2> TAKE k \in 1 .. N
  <2>1. wt[N - k] \in Nat \ {0}
    BY <1>7, <1>10
  <2>2. v \div wt[N - k] \in Nat
    BY <1>1, <2>1, QuotientInNat
  <2>3. (v \div wt[N - k]) % base \in 0 .. base - 1
    BY <1>1, <2>2, QuotientInNat
  <2> QED
    BY <2>3
<1>12. PICK f : f = places(N)
  OBVIOUS
<1>13. f \in Seq(Symbol) /\ Len(f) = N
  <2> HIDE DEF Symbol
  <2>1. \A k \in 1 .. N : Digit[((v \div wt[N - k]) % base) + 1] \in Symbol
    BY <1>11, DigitIsSymbol
  <2>2. f \in [1 .. N -> Symbol]
    BY <1>12, <2>1
  <2> QED
    BY <2>2, FunctionIsSeq
<1>14. PICK g : g = zeros(z)
  OBVIOUS
<1>15. g \in Seq(Symbol) /\ Len(g) = z /\ \A k \in 1 .. z : g[k] = "0"
  <2>1. "0" \in Symbol
    BY DEF Symbol, Numerals
  <2> HIDE DEF Symbol
  <2>2. g \in [1 .. z -> Symbol]
    BY <1>14, <2>1
  <2>3. g \in Seq(Symbol) /\ Len(g) = z
    BY <2>2, FunctionIsSeq
  <2> QED
    BY <1>14, <2>3
<1>16. PICK s : s = g \o txt
  OBVIOUS
<1>17. /\ s \in Seq(Symbol) /\ Len(s) = N
       /\ \A k \in 1 .. z : s[k] = g[k]
       /\ \A k \in z + 1 .. N : s[k] = txt[k - z]
  <2> HIDE DEF Symbol
  <2>1. txt \in Seq(Symbol) /\ Len(txt) = n
    BY <1>6 DEF Text
  <2> HIDE DEF places, zeros, negative
  <2>2. /\ g \o txt \in Seq(Symbol) /\ Len(g \o txt) = Len(g) + Len(txt)
        /\ \A k \in 1 .. Len(g) : (g \o txt)[k] = g[k]
        /\ \A k \in Len(g) + 1 .. Len(g) + Len(txt) : (g \o txt)[k] = txt[k - Len(g)]
    BY <1>15, <2>1, Joined
  <2> QED
    BY <1>10, <1>15, <1>16, <2>1, <2>2
<1>18. \A k \in 1 .. N : f[k] = s[k]
  <2> TAKE k \in 1 .. N
  <2>1. f[k] = Digit[((v \div wt[N - k]) % base) + 1]
    BY <1>12
  <2>2. CASE k \leq z
    <3>1. N - k \in 0 .. v + u /\ n \in 0 .. v + u /\ n \leq N - k
      BY <1>6, <1>10, <2>2
    <3>2. PICK a \in Nat \ {0} : a = wt[N - k]
      BY <1>7, <3>1
    <3>3. PICK b \in Nat \ {0} : b = wt[n]
      BY <1>7, <3>1
    <3>4. b \leq a
      BY <1>1, <1>5, <3>1, <3>2, <3>3, WeightsGrow
    <3>5. v < b
      BY <1>6, <3>3 DEF Needs
    <3>6. a * 0 \leq v /\ v < a * 0 + a
      BY <1>1, <3>4, <3>5
    <3>7. v \div a = 0
      BY <1>1, <3>6, QuotientIs
    <3>8. 0 % base = 0
      BY <1>1
    <3>9. Digit[0 + 1] = "0"
      BY DEF Digit
    <3>10. k \in 1 .. z
      BY <2>2
    <3>11. f[k] = "0"
      BY <2>1, <3>2, <3>7, <3>8, <3>9
    <3>12. s[k] = "0"
      BY <1>15, <1>17, <3>10
    <3> QED
      BY <3>11, <3>12
  <2>3. CASE ~(k \leq z)
    <3>1. k \in z + 1 .. N /\ k - z \in 1 .. n /\ n - (k - z) = N - k
      BY <1>6, <1>10, <2>3
    <3>2. s[k] = txt[k - z]
      BY <1>17, <3>1
    <3>3. txt[k - z] = Digit[((v \div wt[n - (k - z)]) % base) + 1]
      BY <1>6, <3>1
    <3> QED
      BY <2>1, <3>1, <3>2, <3>3
  <2> QED
    BY <2>2, <2>3
<1>19. f = s
  BY <1>13, <1>17, <1>18, SeqEqual
<1>20. << >> \o g = g
  BY <1>15, ConcatEmptySeq
<1> HIDE DEF places, zeros
<1>21. Numeral(v, base, u) = f
  BY <1>2, <1>10, <1>12
<1>22. itos(v, base, w) = (<< >> \o g) \o txt
  BY <1>3, <1>9, <1>14
<1>23. QED
  BY <1>16, <1>19, <1>20, <1>21, <1>22

-----------------------------------------------------------------------------
(* The two formats of the kernel.                                          *)
LEMMA TwoOf ==
  ASSUME NEW S, NEW a \in S, NEW b \in S
  PROVE  <<a>> \o <<b>> = <<a, b>>
<1>1. PICK x, y, z : x = <<a>> /\ y = <<b>> /\ z = <<a, b>>
  OBVIOUS
<1>2. /\ x \in Seq(S) /\ y \in Seq(S) /\ z \in Seq(S) /\ Len(x) = 1 /\ Len(y) = 1
      /\ Len(z) = 2 /\ x[1] = a /\ y[1] = b /\ z[1] = a /\ z[2] = b
  BY <1>1
<1>3. /\ x \o y \in Seq(S) /\ Len(x \o y) = Len(x) + Len(y)
      /\ \A k \in 1 .. Len(x) : (x \o y)[k] = x[k]
      /\ \A k \in Len(x) + 1 .. Len(x) + Len(y) : (x \o y)[k] = y[k - Len(x)]
  BY <1>2, Joined
<1>4. Len(x \o y) = 2 /\ (x \o y)[1] = a /\ (x \o y)[2] = b
  BY <1>2, <1>3
<1>5. \A k \in 1 .. 2 : (x \o y)[k] = z[k]
  <2>1. \A k \in 1 .. 2 : k = 1 \/ k = 2
    OBVIOUS
  <2> QED
    BY <1>2, <1>4, <2>1
<1>6. x \o y = z
  BY <1>2, <1>3, <1>4, <1>5, SeqEqual
<1>7. QED
  BY <1>1, <1>6

LEMMA TwoSymbols ==
  ASSUME NEW a \in Symbol, NEW b \in Symbol
  PROVE  /\ <<a>> \o (<<b>> \o << >>) = <<a, b>>
         /\ <<a>> \o << >> = <<a>>
         /\ <<a, b>> \in Text
<1> HIDE DEF Symbol
<1>1. <<a>> \o << >> = <<a>> /\ <<b>> \o << >> = <<b>>
  OBVIOUS
<1>2. <<a>> \o <<b>> = <<a, b>>
  BY TwoOf
<1>3. <<a, b>> \in Text
  BY DEF Text
<1>4. QED
  BY <1>1, <1>2, <1>3

LEMMA SizeOfWord ==
  /\ \A size \in Sizes : size \in 0 .. Word - 1 /\ size < Word \div 2 /\ <<size>> \in Seq(0 .. Word - 1)
  /\ \A byte \in 0 .. 255 : byte \in 0 .. Word - 1 /\ <<byte>> \in Seq(0 .. Word - 1)
<1>1. Word \in Nat /\ 256 \leq Word
  BY HalfIs, FormatAssumption DEF FormatAssumption
<1>2. \A v \in Sizes : v \in 0 .. Word - 1 /\ v < Word \div 2
  <2>1. Sizes \subseteq 0 .. (Word \div 2) - 1
    BY StartupAssumption DEF StartupAssumption
  <2> QED
    BY <1>1, <2>1
<1>3. \A v \in 0 .. 255 : v \in 0 .. Word - 1
  BY <1>1
<1>4. \A v \in 0 .. Word - 1 : <<v>> \in Seq(0 .. Word - 1)
  OBVIOUS
<1>5. QED
  BY <1>2, <1>3, <1>4

(* What the kernel says of the size of a card is the size (kernel.cpp:57). *)
THEOREM SizeTextIs ==
  ASSUME NEW size \in Sizes
  PROVE  /\ format(SizeFormat, <<size>>)
              = (<<"SD card size: ">> \o Numeral(size, 10, 1)) \o <<"MB", "\n">>
         /\ format(SizeFormat, <<size>>) \in Text
<1>1. size \in 0 .. Word - 1 /\ size < Word \div 2 /\ <<size>> \in Seq(0 .. Word - 1)
  BY SizeOfWord
<1>2. PICK args \in Seq(0 .. Word - 1) : args = <<size>> /\ Len(args) = 1 /\ args[1] = size
  BY <1>1
<1>3. PICK fmt \in Text : fmt = SizeFormat /\ Formed(fmt) /\ Len(fmt) = 5
  <2>1. Len(SizeFormat) = 5
    BY DEF SizeFormat
  <2> HIDE DEF SizeFormat
  <2> QED
    BY <2>1, Texts
<1>4. /\ fmt[1] = "SD card size: " /\ fmt[2] = "{" /\ fmt[3] = "}"
      /\ fmt[4] = "MB" /\ fmt[5] = "\n"
  BY <1>3 DEF SizeFormat
<1>5. PICK g : /\ format(fmt, args) = g[1][1]
               /\ \A p \in 1 .. Len(fmt) + 2, a \in 1 .. Len(args) + 1 :
                     g[p][a] \in Text /\ g[p][a] = From(fmt, args, g, p, a)
  BY <1>3, FormatSteps
<1>6. /\ 1 \in 1 .. Len(fmt) + 2 /\ 2 \in 1 .. Len(fmt) + 2 /\ 4 \in 1 .. Len(fmt) + 2
      /\ 5 \in 1 .. Len(fmt) + 2 /\ 6 \in 1 .. Len(fmt) + 2
      /\ 1 \in 1 .. Len(args) + 1 /\ 2 \in 1 .. Len(args) + 1
  BY <1>2, <1>3
<1>7. g[1][1] = <<"SD card size: ">> \o g[2][1]
  <2>1. g[1][1] = From(fmt, args, g, 1, 1)
    BY <1>5, <1>6
  <2>2. ~(1 > Len(fmt)) /\ 1 + 1 = 2
    BY <1>3
  <2>3. fmt[1] # "{"
    <3>1. "SD card size: " # "{"
      OBVIOUS
    <3> QED
      BY <1>4, <3>1
  <2> QED
    BY <1>4, <2>1, <2>2, <2>3 DEF From
<1>8. g[2][1] = common_integer_format(<< >>, size) \o g[4][2]
  <2>1. g[2][1] = From(fmt, args, g, 2, 1)
    BY <1>5, <1>6
  <2>2. ~(2 > Len(fmt)) /\ ~(1 > Len(args)) /\ 2 + 1 = 3 /\ 2 + 2 = 4 /\ 1 + 1 = 2
    BY <1>2, <1>3
  <2>3. fmt[3] # ":" /\ fmt[3] # "{"
    <3>1. "}" # ":" /\ "}" # "{"
      OBVIOUS
    <3> QED
      BY <1>4, <3>1
  <2> QED
    BY <1>2, <1>4, <2>1, <2>2, <2>3 DEF From
<1>9. g[4][2] = <<"MB">> \o g[5][2] /\ g[5][2] = <<"\n">> \o g[6][2] /\ g[6][2] = << >>
  <2>1. /\ g[4][2] = From(fmt, args, g, 4, 2) /\ g[5][2] = From(fmt, args, g, 5, 2)
        /\ g[6][2] = From(fmt, args, g, 6, 2)
    BY <1>5, <1>6
  <2>2. ~(4 > Len(fmt)) /\ ~(5 > Len(fmt)) /\ 6 > Len(fmt) /\ 2 > Len(args)
        /\ 4 + 1 = 5 /\ 5 + 1 = 6
    BY <1>2, <1>3
  <2>3. g[4][2] = <<"MB">> \o g[5][2]
    BY <1>4, <2>1, <2>2 DEF From
  <2>4. g[5][2] = <<"\n">> \o g[6][2]
    BY <1>4, <2>1, <2>2 DEF From
  <2>5. g[6][2] = << >>
    BY <2>1, <2>2 DEF From
  <2> QED
    BY <2>3, <2>4, <2>5
<1>10. /\ "MB" \in Symbol /\ "\n" \in Symbol /\ "SD card size: " \in Symbol
  BY DEF Symbol, Words, Marks
<1>11. g[4][2] = <<"MB", "\n">> /\ <<"MB", "\n">> \in Text
  BY <1>9, <1>10, TwoSymbols
<1>12. PICK num \in Text : num = Numeral(size, 10, 1) /\ common_integer_format(<< >>, size) = num
  <2>1. common_integer_format(<< >>, size) = itos(size, 10, 0)
    <3>1. ~(Len(<< >>) > 1)
      OBVIOUS
    <3> QED
      BY <3>1, Zenon DEF common_integer_format
  <2>0. 0 \in 0 .. 255
    OBVIOUS
  <2>2. itos(size, 10, 0) = Numeral(size, 10, 1)
    BY <1>1, <2>0, ItosIsNumeral
  <2>3. itos(size, 10, 0) \in Text
    BY <1>1, ItosIsText DEF Bases
  <2> QED
    BY <2>1, <2>2, <2>3
<1>13. <<"SD card size: ">> \in Text
  BY <1>10, OneSymbol
<1>14. \A a, b, c \in Text : (a \o b) \o c = a \o (b \o c)
  BY ConcatAssociative DEF Text
<1>15. format(SizeFormat, <<size>>) = <<"SD card size: ">> \o (num \o <<"MB", "\n">>)
  BY <1>2, <1>3, <1>5, <1>7, <1>8, <1>11, <1>12
<1>16. <<"SD card size: ">> \o (num \o <<"MB", "\n">>)
         = (<<"SD card size: ">> \o num) \o <<"MB", "\n">>
  BY <1>11, <1>13, <1>14, Zenon
<1>17. <<"SD card size: ">> \o (num \o <<"MB", "\n">>) \in Text
  BY <1>11, <1>13, TextConcat
<1>18. QED
  BY <1>12, <1>15, <1>16, <1>17

LEMMA WidthOfByte == stou(<<"0", "2">>, 10) = 2
<1>1. PICK view \in Text : /\ view = <<"0", "2">> /\ Len(view) = 2 /\ DOMAIN view = 1 .. 2
                           /\ view[1] = "0" /\ view[2] = "2"
  <2>1. "0" \in Symbol /\ "2" \in Symbol
    BY DEF Symbol, Numerals
  <2>2. <<"0", "2">> \in Text
    BY <2>1, TwoSymbols
  <2> QED
    BY <2>2
<1>2. /\ Digit[1] = "0" /\ Digit[3] = "2" /\ Capital[1] = "0" /\ Capital[3] = "2"
      /\ \A k \in {2, 4, 5, 6, 7, 8, 9, 10, 11, 12, 13, 14, 15, 16} :
            Digit[k] \notin {"0", "2"} /\ Capital[k] \notin {"0", "2"}
  BY DEF Digit, Capital
<1>3. 1 .. 16 = {1, 3} \cup {2, 4, 5, 6, 7, 8, 9, 10, 11, 12, 13, 14, 15, 16}
  OBVIOUS
<1>4. \A k \in 1 .. 16 : /\ "0" \in {Digit[k], Capital[k]} => k = 1
                         /\ "2" \in {Digit[k], Capital[k]} => k = 3
  <2>1. "0" # "2"
    OBVIOUS
  <2> QED
    BY <1>2, <1>3, <2>1
<1>5. ValueOf("0") = 0 /\ ValueOf("2") = 2 /\ IsDigit("0") /\ IsDigit("2")
  <2>1. 1 \in 1 .. 16 /\ 3 \in 1 .. 16 /\ 1 - 1 = 0 /\ 3 - 1 = 2
    OBVIOUS
  <2>2. "0" \in {Digit[1], Capital[1]} /\ "2" \in {Digit[3], Capital[3]}
    BY <1>2
  <2>3. (CHOOSE k \in 1 .. 16 : "0" \in {Digit[k], Capital[k]}) = 1
    BY <1>4, <2>1, <2>2, Zenon
  <2>4. (CHOOSE k \in 1 .. 16 : "2" \in {Digit[k], Capital[k]}) = 3
    BY <1>4, <2>1, <2>2, Zenon
  <2> QED
    BY <2>1, <2>2, <2>3, <2>4 DEF ValueOf, IsDigit
<1>6. \A k \in DOMAIN view : IsDigit(view[k])
  <2>1. \A k \in 1 .. 2 : k = 1 \/ k = 2
    OBVIOUS
  <2> QED
    BY <1>1, <1>5, <2>1
<1>7. PICK n \in 0 .. Len(view) : \E w :
         /\ stou(view, 10) = w[n] /\ n = Len(view)
         /\ \A k \in 0 .. n : w[k] = IF k = 0 THEN 0 ELSE w[k - 1] * 10 + ValueOf(view[k])
  <2>1. PICK n \in 0 .. Len(view) : \E w :
            /\ stou(view, 10) = w[n]
            /\ (\A k \in DOMAIN view : IsDigit(view[k])) => n = Len(view)
            /\ \A k \in 1 .. n : ValueOf(view[k]) \in 0 .. 15
            /\ \A k \in 0 .. n :
                 w[k] = IF k = 0 THEN 0 ELSE w[k - 1] * 10 + ValueOf(view[k])
    BY StouIs
  <2> QED
    BY <1>6, <2>1
<1>8. PICK w : /\ stou(view, 10) = w[2]
               /\ \A k \in 0 .. 2 : w[k] = IF k = 0 THEN 0 ELSE w[k - 1] * 10 + ValueOf(view[k])
  BY <1>1, <1>7
<1>9. w[0] = 0 /\ w[1] = w[0] * 10 + ValueOf(view[1]) /\ w[2] = w[1] * 10 + ValueOf(view[2])
  <2>1. 0 \in 0 .. 2 /\ 1 \in 0 .. 2 /\ 2 \in 0 .. 2 /\ 1 # 0 /\ 2 # 0 /\ 1 - 1 = 0 /\ 2 - 1 = 1
    OBVIOUS
  <2> QED
    BY <1>8, <2>1
<1>10. w[2] = 2
  BY <1>1, <1>5, <1>9
<1>11. QED
  BY <1>1, <1>8, <1>10

(* What the kernel says of a byte is the byte in two digits (kernel.cpp:79)*)
THEOREM ByteTextIs ==
  ASSUME NEW byte \in 0 .. 255
  PROVE  /\ format(ByteFormat, <<byte>>) = Numeral(byte, 16, 2) \o <<" ">>
         /\ format(ByteFormat, <<byte>>) \in Text
<1>1. byte \in 0 .. Word - 1 /\ <<byte>> \in Seq(0 .. Word - 1)
  BY SizeOfWord
<1>2. PICK args \in Seq(0 .. Word - 1) : args = <<byte>> /\ Len(args) = 1 /\ args[1] = byte
  BY <1>1
<1>3. PICK fmt \in Text : fmt = ByteFormat /\ Formed(fmt) /\ Len(fmt) = 7
  <2>1. Len(ByteFormat) = 7
    BY DEF ByteFormat
  <2> HIDE DEF ByteFormat
  <2> QED
    BY <2>1, Texts
<1>4. /\ fmt[1] = "{" /\ fmt[2] = ":" /\ fmt[3] = "0" /\ fmt[4] = "2"
      /\ fmt[5] = "x" /\ fmt[6] = "}" /\ fmt[7] = " "
  BY <1>3 DEF ByteFormat
<1>5. PICK g : /\ format(fmt, args) = g[1][1]
               /\ \A p \in 1 .. Len(fmt) + 2, a \in 1 .. Len(args) + 1 :
                     g[p][a] \in Text /\ g[p][a] = From(fmt, args, g, p, a)
  BY <1>3, FormatSteps
<1>6. /\ 1 \in 1 .. Len(fmt) + 2 /\ 7 \in 1 .. Len(fmt) + 2 /\ 8 \in 1 .. Len(fmt) + 2
      /\ 1 \in 1 .. Len(args) + 1 /\ 2 \in 1 .. Len(args) + 1
  BY <1>2, <1>3
<1>7. closing(fmt, 1) = 6
  <2> DEFINE cond(q) == fmt[q] = "}" /\ \A k \in 1 .. q - 1 : fmt[k] # "}"
  <2>1. 1 .. Len(fmt) = {1, 2, 3, 4, 5, 6, 7} /\ 6 \in 1 .. Len(fmt) /\ 6 - 1 = 5
    BY <1>3
  <2>2. "{" # "}" /\ ":" # "}" /\ "0" # "}" /\ "2" # "}" /\ "x" # "}" /\ " " # "}"
    OBVIOUS
  <2>3. /\ fmt[1] # "}" /\ fmt[2] # "}" /\ fmt[3] # "}" /\ fmt[4] # "}"
        /\ fmt[5] # "}" /\ fmt[7] # "}"
    BY <1>4, <2>2
  <2>4. \A k \in 1 .. 5 : k \in {1, 2, 3, 4, 5}
    OBVIOUS
  <2>5. \A k \in 1 .. 5 : fmt[k] # "}"
    BY <2>3, <2>4
  <2>6. cond(6)
    BY <1>4, <2>1, <2>5
  <2>7. ASSUME NEW q \in 1 .. Len(fmt), fmt[q] = "}" PROVE q = 6
    BY <2>1, <2>3, <2>7
  <2>8. (CHOOSE q \in 1 .. Len(fmt) : cond(q)) = 6
    BY <2>1, <2>6, <2>7, Zenon
  <2> QED
    BY <2>8 DEF closing
<1>8. PICK view \in Text : /\ view = SubSeq(fmt, 3, 5) /\ Len(view) = 3
                           /\ view[1] = "0" /\ view[2] = "2" /\ view[3] = "x"
  <2>1. fmt \in Seq(Symbol)
    BY DEF Text
  <2> HIDE DEF Symbol
  <2>2. /\ SubSeq(fmt, 3, 5) \in Seq(Symbol) /\ Len(SubSeq(fmt, 3, 5)) = (5 - 3) + 1
        /\ \A k \in 1 .. (5 - 3) + 1 : SubSeq(fmt, 3, 5)[k] = fmt[(3 + k) - 1]
    <3>1. 3 \in 1 .. Len(fmt) + 1 /\ 5 \in 3 - 1 .. Len(fmt) /\ 3 \leq 5
      BY <1>3
    <3> QED
      BY <2>1, <3>1, SubSeqProperties
  <2>3. /\ 1 \in 1 .. (5 - 3) + 1 /\ 2 \in 1 .. (5 - 3) + 1 /\ 3 \in 1 .. (5 - 3) + 1
        /\ (3 + 1) - 1 = 3 /\ (3 + 2) - 1 = 4 /\ (3 + 3) - 1 = 5 /\ (5 - 3) + 1 = 3
    OBVIOUS
  <2>4. /\ SubSeq(fmt, 3, 5)[1] = fmt[3] /\ SubSeq(fmt, 3, 5)[2] = fmt[4]
        /\ SubSeq(fmt, 3, 5)[3] = fmt[5]
    BY <2>2, <2>3
  <2> QED
    BY <1>4, <2>2, <2>3, <2>4 DEF Text
<1>9. Front(view) = <<"0", "2">>
  <2>1. view \in Seq(Symbol)
    BY DEF Text
  <2> HIDE DEF Symbol
  <2>2. /\ SubSeq(view, 1, 2) \in Seq(Symbol) /\ Len(SubSeq(view, 1, 2)) = (2 - 1) + 1
        /\ \A k \in 1 .. (2 - 1) + 1 : SubSeq(view, 1, 2)[k] = view[(1 + k) - 1]
    BY <1>8, <2>1, SubSeqProperties
  <2>3. /\ 1 \in 1 .. (2 - 1) + 1 /\ 2 \in 1 .. (2 - 1) + 1
        /\ (1 + 1) - 1 = 1 /\ (1 + 2) - 1 = 2 /\ (2 - 1) + 1 = 2 /\ 3 - 1 = 2
    OBVIOUS
  <2>4. PICK s \in Seq(Symbol) : s = SubSeq(view, 1, 2) /\ Len(s) = 2 /\ s[1] = "0" /\ s[2] = "2"
    BY <1>8, <2>2, <2>3
  <2>5. Front(view) = s
    BY <1>8, <2>3, <2>4 DEF Front
  <2>6. "0" \in Symbol /\ "2" \in Symbol
    BY DEF Symbol, Numerals
  <2>7. PICK z : z = <<"0", "2">>
    OBVIOUS
  <2>8. z \in Seq(Symbol) /\ Len(z) = 2 /\ z[1] = "0" /\ z[2] = "2"
    BY <2>6, <2>7
  <2>9. \A k \in 1 .. 2 : s[k] = z[k]
    <3>1. \A k \in 1 .. 2 : k = 1 \/ k = 2
      OBVIOUS
    <3> QED
      BY <2>4, <2>8, <3>1
  <2>10. s = z
    BY <2>4, <2>8, <2>9, SeqEqual
  <2> QED
    BY <2>5, <2>7, <2>10
<1>10. PICK num \in Text : num = Numeral(byte, 16, 2) /\ common_integer_format(view, byte) = num
  <2>1. Last(view) = "x" /\ view # << >> /\ Len(view) > 1
    <3>1. Last(view) = view[3]
      BY <1>8 DEF Last
    <3>2. view # << >>
      <4>1. view \in Seq(Symbol) /\ Len(view) # 0
        BY <1>8 DEF Text
      <4> HIDE DEF Symbol
      <4> QED
        BY <4>1, EmptySeq
    <3> QED
      BY <1>8, <3>1, <3>2
  <2>2. stou(Front(view), 10) = 2
    BY <1>9, WidthOfByte
  <2>3. common_integer_format(view, byte) = itos(byte, 16, 2)
    BY <2>1, <2>2, Zenon DEF common_integer_format
  <2>0. 2 \in 0 .. 255
    OBVIOUS
  <2>4. itos(byte, 16, 2) = Numeral(byte, 16, 2)
    BY <1>1, <2>0, ItosIsNumeral
  <2>5. itos(byte, 16, 2) \in Text
    BY <1>1, ItosIsText DEF Bases
  <2> QED
    BY <2>3, <2>4, <2>5
<1>11. g[1][1] = num \o g[7][2]
  <2>1. g[1][1] = From(fmt, args, g, 1, 1)
    BY <1>5, <1>6
  <2>2. /\ ~(1 > Len(fmt)) /\ ~(1 > Len(args)) /\ 1 + 1 = 2 /\ 1 + 2 = 3 /\ 6 - 1 = 5
        /\ 6 + 1 = 7
    BY <1>2, <1>3
  <2> QED
    BY <1>2, <1>4, <1>7, <1>8, <1>10, <2>1, <2>2 DEF From
<1>12. g[7][2] = <<" ">> \o g[8][2] /\ g[8][2] = << >>
  <2>1. g[7][2] = From(fmt, args, g, 7, 2) /\ g[8][2] = From(fmt, args, g, 8, 2)
    BY <1>5, <1>6
  <2>2. ~(7 > Len(fmt)) /\ 8 > Len(fmt) /\ 2 > Len(args) /\ 7 + 1 = 8
    BY <1>2, <1>3
  <2> QED
    BY <1>4, <2>1, <2>2 DEF From
<1>13. " " \in Symbol
  BY DEF Symbol, Marks
<1>14. g[7][2] = <<" ">> /\ <<" ">> \in Text
  BY <1>12, <1>13, TwoSymbols, OneSymbol
<1>15. format(ByteFormat, <<byte>>) = num \o <<" ">>
  BY <1>2, <1>3, <1>5, <1>11, <1>14
<1>16. num \o <<" ">> \in Text
  BY <1>14, TextConcat
<1>17. QED
  BY <1>10, <1>15, <1>16

-----------------------------------------------------------------------------
(* What a program still has to say.                                        *)
Row(i, byte) == (IF (i - 1) % 16 = 0 THEN <<"\n">> ELSE << >>)
                  \o format(ByteFormat, <<byte>>)

(* The card is taken to fail, and a sector to be empty, until they are     *)
(* known: the call for the card stands for the text of its failure.        *)
Means(op) ==
    IF op[1] = "put" THEN Return[op[2]]
    ELSE IF op[1] = "number" THEN Returned(itos(op[2], 16, HalfDigits))
    ELSE IF op[1] = "format" THEN Returned(format(op[2], op[3]))
    ELSE IF op[1] = "byte" THEN Returned(Row(op[2], op[3]))
    ELSE IF op[1] = "call" /\ op[2] = "sd" THEN Returned(FailedText)
    ELSE << >>

Meaning == [op \in Op |-> Means(op)]
Meant(s) == FlatMap(Meaning, s)

LEMMA RowIs ==
  ASSUME NEW i \in Nat, NEW byte \in 0 .. 255
  PROVE  Row(i, byte) \in Text
<1>1. <<"\n">> \in Text /\ << >> \in Text
  BY ReturnIs, OneSymbol DEF Text
<1>2. format(ByteFormat, <<byte>>) \in Text
  BY ByteTextIs
<1>3. QED
  BY <1>1, <1>2, TextConcat DEF Row

LEMMA TagsOfOp ==
  ASSUME NEW op \in Op
  PROVE  /\ op[1] = "put" => op \in PutOp
         /\ op[1] = "number" => op[2] \in 0 .. Word - 1
         /\ op[1] \in {"format", "byte", "pin", "call"} => op \in LaterOp
<1>1. CASE op \in InitOp
  <2>1. op[1] \in {"mu", "fsel", "gppud", "clock"}
    BY <1>1, Tags
  <2> QED
    BY <2>1
<1>2. CASE op \in LaterOp
  <2>1. op[1] # "number"
    BY <1>2, Tags
  <2>2. op[1] = "put" => op \in PutOp
    BY <1>2 DEF LaterOp, PlainOp, ClockOp
  <2> QED
    BY <1>2, <2>1, <2>2
<1>3. CASE op \in {"number"} \X (0 .. Word - 1)
  BY <1>3
<1>4. QED
  BY <1>1, <1>2, <1>3 DEF Op

LEMMA MeansIs ==
  ASSUME NEW op \in Op
  PROVE  Means(op) \in Text
<1>1. CASE op[1] = "put"
  <2>1. op[2] \in Symbol
    BY <1>1, TagsOfOp, Tags
  <2>2. Return[op[2]] \in Text
    <3> HIDE DEF Symbol
    <3> QED BY <2>1, ReturnIs DEF Maps, Text
  <2> QED
    BY <1>1, <2>2 DEF Means
<1>2. CASE op[1] = "number"
  <2>1. op[2] \in 0 .. Word - 1
    BY <1>2, TagsOfOp
  <2>2. HalfDigits \in Nat
    BY StartupAssumption DEF StartupAssumption
  <2>3. itos(op[2], 16, HalfDigits) \in Text
    BY <2>1, <2>2, ItosIsText DEF Bases
  <2>4. Returned(itos(op[2], 16, HalfDigits)) \in Text
    BY <2>3, ReturnedIs
  <2> QED
    BY <1>2, <2>4 DEF Means
<1>3. CASE op[1] = "format"
  <2>1. format(op[2], op[3]) \in Text
    BY <1>3, TagsOfOp, FormatIs
  <2>2. Returned(format(op[2], op[3])) \in Text
    BY <2>1, ReturnedIs
  <2> QED
    BY <1>3, <2>2 DEF Means
<1>4. CASE op[1] = "byte"
  <2>1. op \in LaterOp
    BY <1>4, TagsOfOp
  <2>2. op[2] \in Nat /\ op[3] \in 0 .. 255
    BY <1>4, <2>1 DEF LaterOp, PlainOp, PutOp, ClockOp
  <2>3. Returned(Row(op[2], op[3])) \in Text
    BY <2>2, RowIs, ReturnedIs
  <2> QED
    BY <1>4, <2>3 DEF Means
<1>5. Returned(FailedText) \in Text /\ << >> \in Text
  BY Texts, ReturnedIs DEF Text
<1>6. QED
  BY <1>1, <1>2, <1>3, <1>4, <1>5 DEF Means

LEMMA MeaningIs == Maps(Meaning, Op, Symbol) /\ \A op \in Op : Meaning[op] = Means(op)
<1> HIDE DEF Op, Symbol
<1>1. \A op \in Op : Means(op) \in Seq(Symbol)
  BY MeansIs DEF Text
<1>2. Meaning \in [Op -> Seq(Symbol)] /\ \A op \in Op : Meaning[op] = Means(op)
  BY <1>1 DEF Meaning
<1>3. QED
  BY <1>2 DEF Maps

LEMMA MeantIsText ==
  ASSUME NEW s \in Seq(Op)
  PROVE  Meant(s) \in Text
<1> HIDE DEF Op, Symbol
<1>1. FlatMap(Meaning, s) \in Seq(Symbol)
  BY MeaningIs, FlatMapInSeq
<1>2. QED
  BY <1>1 DEF Meant, Text

LEMMA MeantConcat ==
  ASSUME NEW s \in Seq(Op), NEW t \in Seq(Op)
  PROVE  Meant(s \o t) = Meant(s) \o Meant(t) /\ s \o t \in Seq(Op)
<1> HIDE DEF Op, Symbol
<1>1. FlatMap(Meaning, s \o t) = FlatMap(Meaning, s) \o FlatMap(Meaning, t)
  BY MeaningIs, FlatMapConcat
<1>2. s \o t \in Seq(Op)
  BY Joined
<1>3. QED
  BY <1>1, <1>2 DEF Meant

LEMMA MeantOne ==
  /\ Meant(<< >>) = << >>
  /\ \A op \in Op : Meant(<<op>>) = Means(op) /\ <<op>> \in Seq(Op)
<1> HIDE DEF Op, Symbol
<1>1. ASSUME NEW op \in Op PROVE Meant(<<op>>) = Means(op) /\ Meant(<< >>) = << >>
  <2>1. FlatMap(Meaning, <<op>>) = Meaning[op] /\ FlatMap(Meaning, << >>) = << >>
    BY MeaningIs, FlatMapOne
  <2> QED
    BY <2>1, MeaningIs DEF Meant
<1>2. \E op : op \in Op
  <2>1. <<"gppud", 0>> \in Op
    BY OpsAre DEF PlainOp
  <2> QED
    BY <2>1
<1>3. \A op \in Op : <<op>> \in Seq(Op)
  OBVIOUS
<1>4. QED
  BY <1>1, <1>2, <1>3

LEMMA MeantHead ==
  ASSUME NEW s \in Seq(Op), s # << >>
  PROVE  /\ Head(s) \in Op /\ Tail(s) \in Seq(Op)
         /\ Meant(s) = Means(Head(s)) \o Meant(Tail(s))
<1> HIDE DEF Op, Symbol
<1>1. Head(s) \in Op /\ Tail(s) \in Seq(Op) /\ Head(s) = s[1]
  BY HeadTailProperties, LenProperties
<1>2. PICK x \in Seq(Op) : x = <<Head(s)>> /\ Len(x) = 1 /\ x[1] = Head(s)
  <2>1. PICK op \in Op : op = Head(s)
    BY <1>1
  <2>2. <<op>> \in Seq(Op) /\ Len(<<op>>) = 1 /\ <<op>>[1] = op
    OBVIOUS
  <2> QED
    BY <2>1, <2>2
<1>3. /\ x \o Tail(s) \in Seq(Op) /\ Len(x \o Tail(s)) = Len(x) + Len(s) - 1
      /\ Len(x) \in Nat /\ Len(s) \in Nat \ {0}
      /\ \A k \in 1 .. Len(x) : (x \o Tail(s))[k] = x[k]
      /\ \A k \in Len(x) + 1 .. Len(x) + Len(s) - 1 : (x \o Tail(s))[k] = s[k - Len(x) + 1]
  BY Replaced
<1>4. \A k \in 1 .. Len(s) : (x \o Tail(s))[k] = s[k]
  <2> TAKE k \in 1 .. Len(s)
  <2>1. CASE k = 1
    BY <1>1, <1>2, <1>3, <2>1
  <2>2. CASE k # 1
    <3>1. k \in Len(x) + 1 .. Len(x) + Len(s) - 1 /\ k - Len(x) + 1 = k
      BY <1>2, <1>3, <2>2
    <3> QED
      BY <1>3, <3>1
  <2> QED
    BY <2>1, <2>2
<1>5. Len(x \o Tail(s)) = Len(s)
  BY <1>2, <1>3
<1>6. x \o Tail(s) = s
  BY <1>3, <1>4, <1>5, SeqEqual
<1>7. Meant(x \o Tail(s)) = Meant(x) \o Meant(Tail(s))
  BY <1>1, MeantConcat
<1>8. Meant(x) = Means(Head(s))
  BY <1>1, <1>2, MeantOne
<1>9. QED
  BY <1>1, <1>6, <1>7, <1>8

LEMMA WriteMeans ==
  ASSUME NEW txt \in Text
  PROVE  write(txt) \in Seq(Op) /\ Meant(write(txt)) = Returned(txt)
<1>1. write(txt) \in Seq(Op)
  BY WriteIs, SeqOfMore, OpsAre
<1>2. txt \in Seq(Symbol)
  BY DEF Text
<1> HIDE DEF Symbol
<1>3. \A k \in DOMAIN txt : txt[k] \in Symbol
  BY <1>2, LenProperties
<1>4. \A c \in Symbol : <<"put", c>> \in Op /\ Means(<<"put", c>>) = Return[c]
  <2>1. \A c \in Symbol : <<"put", c>> \in PutOp
    BY DEF PutOp
  <2>2. \A c \in Symbol : Means(<<"put", c>>) = Return[c]
    BY DEF Means
  <2> QED
    BY <2>1, <2>2, OpsAre
<1>5. DOMAIN write(txt) = DOMAIN txt /\ \A k \in DOMAIN txt : write(txt)[k] = <<"put", txt[k]>>
  BY DEF write
<1>6. \A k \in DOMAIN txt : Meaning[write(txt)[k]] = Return[txt[k]]
  <2> HIDE DEF Op
  <2> QED
    BY <1>3, <1>4, <1>5, MeaningIs
<1>7. [k \in DOMAIN write(txt) |-> Meaning[write(txt)[k]]] = [k \in DOMAIN txt |-> Return[txt[k]]]
  BY <1>5, <1>6, Zenon
<1>8. Meant(write(txt)) = FlatMap(Return, txt)
  BY <1>7, Zenon DEF Meant, FlatMap
<1>9. QED
  BY <1>1, <1>8, ReturnedIs

-----------------------------------------------------------------------------
(* A program says a text.                                                  *)
Tells(s, txt) == s \in Seq(Op) /\ txt \in Text /\ Meant(s) = Returned(txt)

LEMMA TellsBoth ==
  ASSUME NEW s, NEW x, NEW t, NEW y, Tells(s, x), Tells(t, y)
  PROVE  Tells(s \o t, x \o y)
<1>1. s \in Seq(Op) /\ t \in Seq(Op) /\ x \in Text /\ y \in Text
      /\ Meant(s) = Returned(x) /\ Meant(t) = Returned(y)
  BY DEF Tells
<1> HIDE DEF Op
<1>2. Meant(s \o t) = Meant(s) \o Meant(t) /\ s \o t \in Seq(Op)
  BY <1>1, MeantConcat
<1>3. Returned(x \o y) = Returned(x) \o Returned(y) /\ x \o y \in Text
  BY <1>1, ReturnedConcat, TextConcat
<1>4. QED
  BY <1>1, <1>2, <1>3 DEF Tells

LEMMA TellsWrite ==
  ASSUME NEW txt \in Text
  PROVE  Tells(write(txt), txt)
BY WriteMeans DEF Tells

LEMMA TellsOne ==
  ASSUME NEW op \in Op, NEW txt \in Text, Means(op) = Returned(txt)
  PROVE  Tells(<<op>>, txt)
<1> HIDE DEF Op
<1>1. Meant(<<op>>) = Means(op) /\ <<op>> \in Seq(Op)
  BY MeantOne
<1>2. QED
  BY <1>1 DEF Tells

LEMMA TellsNothing == Tells(<< >>, << >>)
<1>1. << >> \in Text /\ << >> \in Seq(Op)
  BY DEF Text
<1>2. Returned(<< >>) = << >>
  BY ReturnIs, ReturnedOne
<1>3. QED
  BY <1>1, <1>2, MeantOne DEF Tells

LEMMA TellsSymbol ==
  ASSUME NEW c \in Symbol
  PROVE  Tells(text(c), <<c>>)
<1> HIDE DEF Symbol
<1>1. <<c>> \in Text /\ Returned(<<c>>) = Return[c]
  BY OneSymbol, ReturnedOne
<1>2. <<"put", c>> \in Op
  <2>1. <<"put", c>> \in PutOp
    BY DEF PutOp
  <2> QED
    BY <2>1, OpsAre
<1>3. Means(<<"put", c>>) = Return[c]
  BY DEF Means
<1>4. Tells(<< <<"put", c>> >>, <<c>>)
  BY <1>1, <1>2, <1>3, TellsOne
<1>5. QED
  BY <1>4 DEF text

(* What says nothing.                                                      *)
Silent(op) == op \in Op /\ Means(op) = << >>

LEMMA TellsSilent ==
  ASSUME NEW op, Silent(op)
  PROVE  Tells(<<op>>, << >>)
<1> HIDE DEF Op
<1>1. << >> \in Text /\ Returned(<< >>) = << >>
  BY TellsNothing, MeantOne DEF Tells
<1>2. op \in Op /\ Means(op) = Returned(<< >>)
  BY <1>1 DEF Silent
<1>3. QED
  BY <1>1, <1>2, TellsOne

LEMMA NothingIsText ==
  << >> \in Text /\ \A s \in Text : << >> \o s = s /\ s \o << >> = s
<1>1. << >> \in Text
  BY DEF Text
<1>2. \A s \in Text : << >> \o s = s /\ s \o << >> = s
  BY ConcatEmptySeq DEF Text
<1>3. QED
  BY <1>1, <1>2

LEMMA TextAssociative == \A x, y, z \in Text : (x \o y) \o z = x \o (y \o z)
BY ConcatAssociative DEF Text

LEMMA TellsAllSilent ==
  ASSUME NEW s \in Seq(Op), \A k \in 1 .. Len(s) : Silent(s[k])
  PROVE  Tells(s, << >>)
<1> HIDE DEF Op
<1> DEFINE T == {n \in Nat : \A t \in Seq(Op) :
                   Len(t) = n /\ (\A k \in 1 .. Len(t) : Silent(t[k])) => Meant(t) = << >>}
<1>1. 0 \in T
  <2>1. \A t \in Seq(Op) : Len(t) = 0 => t = << >>
    BY EmptySeq
  <2> QED
    BY <2>1, MeantOne
<1>2. ASSUME NEW n \in T PROVE n + 1 \in T
  <2> SUFFICES ASSUME NEW t \in Seq(Op), Len(t) = n + 1, \A k \in 1 .. Len(t) : Silent(t[k])
               PROVE  Meant(t) = << >>
    OBVIOUS
  <2>1. t # << >>
    BY EmptySeq
  <2>2. /\ Tail(t) \in Seq(Op) /\ Len(Tail(t)) = n /\ Head(t) = t[1]
        /\ \A k \in 1 .. n : Tail(t)[k] = t[k + 1]
    BY <2>1, HeadTailProperties
  <2>3. \A k \in 1 .. Len(Tail(t)) : Silent(Tail(t)[k])
    <3>1. \A k \in 1 .. n : k + 1 \in 1 .. Len(t)
      OBVIOUS
    <3> QED
      BY <2>2, <3>1
  <2>4. Meant(Tail(t)) = << >>
    BY <2>2, <2>3
  <2>5. Means(Head(t)) = << >>
    <3>1. 1 \in 1 .. Len(t)
      OBVIOUS
    <3> QED
      BY <2>2, <3>1 DEF Silent
  <2>6. Meant(t) = Means(Head(t)) \o Meant(Tail(t))
    BY <2>1, MeantHead
  <2> QED
    BY <2>4, <2>5, <2>6, NothingIsText
<1>3. Nat \subseteq T
  <2> HIDE DEF T
  <2> QED BY <1>1, <1>2, Induction DEF T
<1>4. Meant(s) = << >>
  <2>1. Len(s) \in T
    BY <1>3, LenProperties
  <2> QED
    BY <2>1
<1>5. QED
  BY <1>4, TellsNothing, MeantOne DEF Tells

-----------------------------------------------------------------------------
(* What the operations that become others say.                             *)
LEMMA DumpByteMeans ==
  ASSUME NEW i \in Nat, NEW byte \in 0 .. 255
  PROVE  Tells(dump_byte(i, byte), Row(i, byte))
<1>1. Tells(text("\n"), <<"\n">>)
  BY ReturnIs, TellsSymbol
<1>2. PICK op : op = <<"format", ByteFormat, <<byte>> >>
  OBVIOUS
<1>3. op \in Op /\ op[1] = "format" /\ op[2] = ByteFormat /\ op[3] = <<byte>>
  <2>1. op \in PlainOp
    BY <1>2 DEF PlainOp
  <2> QED
    BY <1>2, <2>1, PlainIsNoClock
<1>4. Means(op) = Returned(format(ByteFormat, <<byte>>))
  BY <1>3 DEF Means
<1>5. Tells(<<op>>, format(ByteFormat, <<byte>>))
  <2> HIDE DEF Op
  <2> QED BY <1>3, <1>4, ByteTextIs, TellsOne
<1>6. CASE (i - 1) % 16 = 0
  <2>1. dump_byte(i, byte) = text("\n") \o <<op>>
    BY <1>2, <1>6 DEF dump_byte
  <2>2. Row(i, byte) = <<"\n">> \o format(ByteFormat, <<byte>>)
    BY <1>6 DEF Row
  <2>3. Tells(text("\n") \o <<op>>, <<"\n">> \o format(ByteFormat, <<byte>>))
    BY <1>1, <1>5, TellsBoth
  <2> QED
    BY <2>1, <2>2, <2>3
<1>7. CASE (i - 1) % 16 # 0
  <2>1. dump_byte(i, byte) = << >> \o <<op>>
    BY <1>2, <1>7 DEF dump_byte
  <2>2. Row(i, byte) = << >> \o format(ByteFormat, <<byte>>)
    BY <1>7 DEF Row
  <2>3. Tells(<< >> \o <<op>>, << >> \o format(ByteFormat, <<byte>>))
    BY <1>5, TellsNothing, TellsBoth
  <2> QED
    BY <2>1, <2>2, <2>3
<1>8. QED
  BY <1>6, <1>7

LEMMA SilentOps ==
  /\ \A op \in InitOp : Silent(op)
  /\ \A op \in LaterOp : op[1] \in {"gppud", "clock", "fsel", "pin"} => Silent(op)
  /\ Silent(<<"call", "framebuffer">>) /\ Silent(<<"call", "read">>)
<1>1. \A op : op[1] \in {"mu", "gppud", "clock", "fsel", "pin"} => Means(op) = << >>
  BY DEF Means
<1>2. \A op \in InitOp : Silent(op)
  <2>1. \A op \in InitOp : op \in Op
    BY OpsAre
  <2>2. \A op \in InitOp : op[1] \in {"mu", "fsel", "gppud", "clock"}
    BY Tags
  <2> HIDE DEF Op, InitOp
  <2> QED
    BY <1>1, <2>1, <2>2 DEF Silent
<1>3. \A op \in LaterOp : op[1] \in {"gppud", "clock", "fsel", "pin"} => Silent(op)
  <2>1. \A op \in LaterOp : op \in Op
    BY OpsAre
  <2> HIDE DEF Op, LaterOp
  <2> QED
    BY <1>1, <2>1 DEF Silent
<1>4. ASSUME NEW name \in {"framebuffer", "read"} PROVE Silent(<<"call", name>>)
  <2>1. <<"call", name>> \in PlainOp
    BY DEF PlainOp
  <2>2. <<"call", name>> \in Op
    BY <2>1, PlainIsNoClock
  <2>3. Means(<<"call", name>>) = << >>
    BY DEF Means
  <2> QED
    BY <2>2, <2>3 DEF Silent
<1>5. QED
  BY <1>2, <1>3, <1>4

LEMMA PinMeans ==
  ASSUME NEW p \in 48 .. 53
  PROVE  Tells(pin_of_card(p), << >>)
<1>1. PICK x \in Seq(Op) : x = pin_of_card(p) /\ Later(x, 1, 0)
  BY PinIs
<1>2. /\ Len(x) = 5
      /\ x[1] = <<"fsel", p, alt3>> /\ x[2] = <<"gppud", 2>>
      /\ x[3] = <<"clock", p>> /\ x[4] = <<"gppud", 0>> /\ x[5] = <<"clock", None>>
  BY <1>1 DEF pin_of_card, set_function, pull_up
<1>3. \A k \in 1 .. 5 : k = 1 \/ k = 2 \/ k = 3 \/ k = 4 \/ k = 5
  OBVIOUS
<1>4. \A k \in 1 .. 5 : x[k][1] \in {"fsel", "gppud", "clock"}
  BY <1>2, <1>3
<1>5. \A k \in 1 .. 5 : x[k] \in LaterOp
  BY <1>1, <1>2 DEF Later
<1>6. \A k \in 1 .. Len(x) : Silent(x[k])
  <2> HIDE DEF LaterOp
  <2> QED BY <1>2, <1>4, <1>5, SilentOps
<1>7. QED
  BY <1>1, <1>6, TellsAllSilent

LEMMA SizeMeans ==
  ASSUME NEW size \in Sizes
  PROVE  Tells(size_of_card(size), format(SizeFormat, <<size>>))
<1>1. PICK a : a = <<"format", SizeFormat, <<size>> >>
  OBVIOUS
<1>2. PICK b : b = <<"call", "read">>
  OBVIOUS
<1>3. a \in Op /\ Means(a) = Returned(format(SizeFormat, <<size>>))
  <2>1. a \in PlainOp
    BY <1>1 DEF PlainOp
  <2>2. a[1] = "format" /\ a[2] = SizeFormat /\ a[3] = <<size>>
    BY <1>1
  <2>3. Means(a) = Returned(format(SizeFormat, <<size>>))
    BY <2>2 DEF Means
  <2> QED
    BY <2>1, <2>3, PlainIsNoClock
<1> HIDE DEF Op
<1>4. Tells(<<a>>, format(SizeFormat, <<size>>))
  BY <1>3, SizeTextIs, TellsOne
<1>5. Tells(<<b>>, << >>)
  BY <1>2, SilentOps, TellsSilent
<1>6. <<a>> \o <<b>> = <<a, b>>
  <2>1. b \in Op
    BY <1>2, SilentOps DEF Silent
  <2> QED
    BY <1>3, <2>1, TwoOf
<1>7. size_of_card(size) = <<a>> \o <<b>>
  BY <1>1, <1>2, <1>6 DEF size_of_card
<1>8. Tells(<<a>> \o <<b>>, format(SizeFormat, <<size>>) \o << >>)
  BY <1>4, <1>5, TellsBoth
<1>9. QED
  BY <1>7, <1>8, SizeTextIs, NothingIsText

LEMMA ReturnedFlatten ==
  ASSUME NEW r \in Seq(Text), NEW m \in Seq(Text), Len(m) = Len(r),
         \A k \in 1 .. Len(r) : m[k] = Returned(r[k])
  PROVE  Returned(FlattenSeq(r)) = FlattenSeq(m) /\ FlattenSeq(r) \in Text
<1>1. PICK n \in Nat : n = Len(r) /\ \A k \in 1 .. n : r[k] \in Text
  BY LenProperties
<1>2. r \in Seq(Seq(Symbol)) /\ m \in Seq(Seq(Symbol))
  BY DEF Text
<1> HIDE DEF Symbol
<1>3. PICK a : Joins(a, r, n, Symbol) /\ FlattenSeq(r) = a[n]
  BY <1>1, <1>2, FlattenIs
<1>4. PICK b : Joins(b, m, n, Symbol) /\ FlattenSeq(m) = b[n]
  BY <1>1, <1>2, FlattenIs
<1> DEFINE T == {i \in Nat : i \leq n => b[i] = Returned(a[i])}
<1>5. 0 \in T
  <2>1. a[0] = << >> /\ b[0] = << >>
    BY <1>3, <1>4 DEF Joins
  <2>2. Returned(<< >>) = << >>
    BY TellsNothing, MeantOne DEF Tells
  <2> QED
    BY <2>1, <2>2
<1>6. ASSUME NEW i \in T PROVE i + 1 \in T
  <2> SUFFICES ASSUME i + 1 \leq n PROVE b[i + 1] = Returned(a[i + 1])
    OBVIOUS
  <2>1. i + 1 \in 1 .. n /\ (i + 1) - 1 = i /\ i \in 0 .. n /\ b[i] = Returned(a[i])
    OBVIOUS
  <2>2. a[i + 1] = a[i] \o r[i + 1] /\ a[i] \in Text
    BY <1>3, <2>1 DEF Joins, Text
  <2>3. b[i + 1] = b[i] \o m[i + 1]
    BY <1>4, <2>1 DEF Joins
  <2>4. m[i + 1] = Returned(r[i + 1]) /\ r[i + 1] \in Text
    BY <1>1, <2>1
  <2>5. Returned(a[i] \o r[i + 1]) = Returned(a[i]) \o Returned(r[i + 1])
    BY <2>2, <2>4, ReturnedConcat
  <2> QED
    BY <2>1, <2>2, <2>3, <2>4, <2>5
<1>7. Nat \subseteq T
  <2> HIDE DEF T
  <2> QED BY <1>5, <1>6, Induction DEF T
<1>8. b[n] = Returned(a[n])
  <2>1. n \in T
    BY <1>7
  <2> QED
    BY <2>1
<1>9. FlattenSeq(r) \in Text
  BY <1>2, FlattenInSeq DEF Text
<1>10. QED
  BY <1>3, <1>4, <1>8, <1>9

(* The lines of a sector.                                                  *)
RowsOf(buf) == FlattenSeq([i \in DOMAIN buf |-> Row(i, buf[i])])

LEMMA DumpMeans ==
  ASSUME NEW buf \in Sectors
  PROVE  Tells(dump(buf), RowsOf(buf))
<1>1. buf \in Seq(0 .. 255)
  BY StartupAssumption DEF StartupAssumption
<1>2. PICK n \in Nat : n = Len(buf) /\ DOMAIN buf = 1 .. n /\ \A i \in 1 .. n : buf[i] \in 0 .. 255
  BY <1>1, LenProperties
<1>3. PICK r : r = [i \in 1 .. n |-> Row(i, buf[i])]
  OBVIOUS
<1>4. r \in Seq(Text) /\ Len(r) = n
  <2>1. \A i \in 1 .. n : Row(i, buf[i]) \in Text
    <3>1. \A i \in 1 .. n : i \in Nat
      OBVIOUS
    <3> QED
      BY <1>2, <3>1, RowIs
  <2> HIDE DEF Text
  <2>2. r \in [1 .. n -> Text]
    BY <1>3, <2>1
  <2> QED
    BY <2>2, FunctionIsSeq
<1>5. RowsOf(buf) = FlattenSeq(r)
  BY <1>2, <1>3, Zenon DEF RowsOf
<1>6. PICK d \in Seq(Op) : /\ d = dump(buf) /\ Len(d) = n
                           /\ \A i \in 1 .. n : d[i] = <<"byte", i, buf[i]>>
  <2>1. dump(buf) \in Seq(Op)
    BY DumpIs, PlainIsLater
  <2>2. DOMAIN dump(buf) = 1 .. n /\ \A i \in 1 .. n : dump(buf)[i] = <<"byte", i, buf[i]>>
    BY <1>2 DEF dump
  <2> HIDE DEF Op
  <2>3. Len(dump(buf)) = n
    <3>1. Len(dump(buf)) \in Nat /\ DOMAIN dump(buf) = 1 .. Len(dump(buf))
      BY <2>1, LenProperties
    <3> QED
      BY <2>2, <3>1
  <2> QED
    BY <2>1, <2>2, <2>3
<1>7. \A i \in 1 .. n : Meaning[d[i]] = Returned(r[i])
  <2> TAKE i \in 1 .. n
  <2>1. d[i] \in Op
    BY <1>6, LenProperties
  <2>2. d[i][1] = "byte" /\ d[i][2] = i /\ d[i][3] = buf[i]
    BY <1>6
  <2>3. Means(d[i]) = Returned(Row(i, buf[i]))
    BY <2>2 DEF Means
  <2>4. Meaning[d[i]] = Means(d[i])
    <3> HIDE DEF Op
    <3> QED BY <2>1, MeaningIs
  <2> QED
    BY <1>3, <2>3, <2>4
<1> HIDE DEF Op, Symbol
<1>8. PICK f : MapOf(f, Meaning, d, Symbol)
  BY MeaningIs, Mapped
<1>9. /\ f \in Seq(Text) /\ Len(f) = n /\ Meant(d) = FlattenSeq(f)
      /\ \A i \in 1 .. n : f[i] = Returned(r[i])
  BY <1>6, <1>7, <1>8 DEF MapOf, Meant, Text
<1>10. Returned(FlattenSeq(r)) = FlattenSeq(f) /\ FlattenSeq(r) \in Text
  BY <1>4, <1>9, ReturnedFlatten
<1>11. QED
  BY <1>5, <1>6, <1>9, <1>10 DEF Tells

-----------------------------------------------------------------------------
(* A register in all its digits.  The weights of a number are the powers.  *)
LEMMA WeightsAgree ==
  ASSUME NEW base \in Nat \ {0, 1}, NEW m \in Nat, NEW n \in Nat, NEW u \in Nat,
         u \leq m, u \leq n, NEW p, NEW q, Weights(p, base, m), Weights(q, base, n)
  PROVE  \A k \in 0 .. u : p[k] = q[k]
<1> DEFINE T == {k \in Nat : k \leq u => p[k] = q[k]}
<1>1. 0 \in T
  <2>1. p[0] = 1 /\ q[0] = 1
    BY DEF Weights
  <2> QED
    BY <2>1
<1>2. ASSUME NEW k \in T PROVE k + 1 \in T
  <2> SUFFICES ASSUME k + 1 \leq u PROVE p[k + 1] = q[k + 1]
    OBVIOUS
  <2>1. /\ k + 1 \in 0 .. m /\ k + 1 \in 0 .. n /\ k + 1 # 0 /\ (k + 1) - 1 = k
        /\ p[k] = q[k]
    OBVIOUS
  <2>2. p[k + 1] = base * p[k]
    BY <2>1 DEF Weights
  <2>3. q[k + 1] = base * q[k]
    BY <2>1 DEF Weights
  <2> QED
    BY <2>1, <2>2, <2>3
<1>3. Nat \subseteq T
  <2> HIDE DEF T
  <2> QED BY <1>1, <1>2, Induction DEF T
<1>4. QED
  BY <1>3

(* A number that is not too long for the places it gets has a digit in     *)
(* each of them.                                                           *)
LEMMA ShortNumeral ==
  ASSUME NEW v \in Nat, NEW u \in Nat \ {0}, NEW m \in Nat, u \leq m,
         NEW p, Weights(p, 16, m), v < p[u]
  PROVE  Numeral(v, 16, u) = [k \in 1 .. u |-> Digit[((v \div p[u - k]) % 16) + 1]]
<1> DEFINE wt == CHOOSE g : g = [k \in 0 .. v + u |->
                                   IF k = 0 THEN 1 ELSE 16 * g[k - 1]]
           cond(k) == v < wt[k] /\ (k > 1 => v \geq wt[k - 1])
           needed == CHOOSE k \in 1 .. v + u : cond(k)
           places(N) == [k \in 1 .. N |-> Digit[((v \div wt[N - k]) % 16) + 1]]
           long == IF needed > u THEN needed ELSE u
<1>1. Numeral(v, 16, u) = places(long)
  BY DEF Numeral
<1>2. PICK w \in Nat : w = v + u /\ v + 1 \leq w /\ u \leq w
  OBVIOUS
<1>3. Weights(wt, 16, w)
  <2>1. wt = WeightsOf(16, w)
    BY <1>2 DEF WeightsOf
  <2> HIDE DEF wt
  <2> QED
    BY <2>1, WeightsOfAre
<1> HIDE DEF wt
<1>4. \A k \in 0 .. w : wt[k] \in Nat \ {0}
  BY <1>3, WeightsAre
<1>5. \A k \in 0 .. u : wt[k] = p[k]
  BY <1>2, <1>3, WeightsAgree
<1>6. PICK n \in 1 .. v + 1 : Needs(v, wt, n)
  <2>1. Weighed(v, 16, wt)
    BY <1>2, <1>3, DigitsByWeight
  <2> QED
    BY <2>1 DEF Weighed
<1>7. needed = n
  <2>1. n \in 1 .. v + u
    BY <1>6
  <2>2. cond(n)
    BY <1>6 DEF Needs
  <2>3. ASSUME NEW k \in 1 .. v + u, cond(k) PROVE k = n
    <3>1. Needs(v, wt, k)
      BY <2>3 DEF Needs
    <3> QED
      BY <1>2, <1>3, <1>6, <2>1, <3>1, NeedsOne
  <2> HIDE DEF cond
  <2> QED
    BY <2>1, <2>2, <2>3, Zenon
<1>8. ~(n > u)
  <2> SUFFICES ASSUME n > u PROVE FALSE
    OBVIOUS
  <2>1. wt[n - 1] \leq v
    BY <1>6 DEF Needs
  <2>2. u \in 0 .. w /\ n - 1 \in 0 .. w /\ u \leq n - 1
    BY <1>2, <1>6
  <2>3. wt[u] \leq wt[n - 1]
    BY <1>3, <2>2, WeightsGrow
  <2>4. v < wt[u]
    <3>1. u \in 0 .. u
      OBVIOUS
    <3> QED
      BY <1>5, <3>1
  <2>5. wt[u] \in Nat /\ wt[n - 1] \in Nat
    BY <1>4, <2>2
  <2> QED
    BY <2>1, <2>3, <2>4, <2>5
<1> HIDE DEF needed
<1>9. long = u
  BY <1>7, <1>8
<1>10. places(u) = [k \in 1 .. u |-> Digit[((v \div p[u - k]) % 16) + 1]]
  <2>1. \A k \in 1 .. u : u - k \in 0 .. u
    OBVIOUS
  <2>2. \A k \in 1 .. u : Digit[((v \div wt[u - k]) % 16) + 1] = Digit[((v \div p[u - k]) % 16) + 1]
    BY <1>5, <2>1, Zenon
  <2> QED
    BY <2>2, Zenon
<1> HIDE DEF long, places
<1>11. QED
  BY <1>1, <1>9, <1>10

LEMMA PowersAre ==
  /\ Weights(power, 16, 2 * HalfDigits) /\ Half = power[HalfDigits]
  /\ 2 * HalfDigits \in Nat /\ HalfDigits \in 1 .. 2 * HalfDigits
<1>1. 2 * HalfDigits \in Nat /\ HalfDigits \in 1 .. 2 * HalfDigits
  BY StartupAssumption DEF StartupAssumption
<1>2. Weights(power, 16, 2 * HalfDigits)
  BY PowerIs DEF Weights
<1>3. QED
  BY <1>1, <1>2 DEF Half

(* A register with an empty upper half is the one number of all its digits.*)
THEOREM LowRegister ==
  ASSUME NEW r \in Nat, r < Half
  PROVE  Numeral(0, 16, HalfDigits) \o Numeral(r, 16, HalfDigits)
            = Numeral(r, 16, 2 * HalfDigits)
<1>1. PICK h \in Nat \ {0}, m \in Nat : h = HalfDigits /\ m = 2 * HalfDigits /\ m = h + h
  BY StartupAssumption DEF StartupAssumption
<1>2. PICK p : p = power
  OBVIOUS
<1>3. Weights(p, 16, m) /\ r < p[h]
  BY <1>1, <1>2, PowersAre
<1>4. h \in 0 .. m /\ m \in 0 .. m /\ h \leq m
  BY <1>1
<1>5. \A k \in 0 .. m : p[k] \in Nat \ {0}
  BY <1>3, WeightsAre
<1>6. \A k \in 0 .. m : h \leq k => r < p[k]
  <2>1. \A k \in 0 .. m : h \leq k => p[h] \leq p[k]
    BY <1>3, <1>4, WeightsGrow
  <2> QED
    BY <1>3, <1>4, <1>5, <2>1
<1>7. 0 < p[h] /\ r < p[m]
  BY <1>4, <1>5, <1>6
<1> DEFINE place(x, n, k) == Digit[((x \div p[n - k]) % 16) + 1]
<1>8. PICK a : a = Numeral(0, 16, h)
  OBVIOUS
<1>9. PICK b : b = Numeral(r, 16, h)
  OBVIOUS
<1>10. PICK c : c = Numeral(r, 16, m)
  OBVIOUS
<1>11. a = [k \in 1 .. h |-> place(0, h, k)]
  BY <1>3, <1>4, <1>7, <1>8, ShortNumeral
<1>12. b = [k \in 1 .. h |-> place(r, h, k)]
  BY <1>3, <1>4, <1>9, ShortNumeral
<1>13. c = [k \in 1 .. m |-> place(r, m, k)]
  <2>1. m \in Nat \ {0} /\ m \leq m
    BY <1>1
  <2> QED
    BY <1>3, <1>7, <1>10, <2>1, ShortNumeral
<1>14. \A x \in Nat, n \in 0 .. m : \A k \in 1 .. n : place(x, n, k) \in Symbol
  <2> TAKE x \in Nat, n \in 0 .. m
  <2> TAKE k \in 1 .. n
  <2>1. n - k \in 0 .. m
    OBVIOUS
  <2>2. p[n - k] \in Nat \ {0}
    BY <1>5, <2>1
  <2>3. PICK y \in Nat : y = x \div p[n - k]
    BY <2>2, QuotientInNat
  <2>4. (y % 16) + 1 \in 1 .. 16
    OBVIOUS
  <2> QED
    BY <2>3, <2>4, DigitIsSymbol
<1> HIDE DEF Symbol, place
<1>15. /\ a \in Seq(Symbol) /\ Len(a) = h /\ b \in Seq(Symbol) /\ Len(b) = h
       /\ c \in Seq(Symbol) /\ Len(c) = m
  <2>1. a \in [1 .. h -> Symbol]
    BY <1>4, <1>11, <1>14
  <2>2. b \in [1 .. h -> Symbol]
    BY <1>4, <1>12, <1>14
  <2>3. c \in [1 .. m -> Symbol]
    BY <1>4, <1>13, <1>14
  <2> QED
    BY <2>1, <2>2, <2>3, FunctionIsSeq
<1>16. /\ a \o b \in Seq(Symbol) /\ Len(a \o b) = h + h
       /\ \A k \in 1 .. h : (a \o b)[k] = a[k]
       /\ \A k \in h + 1 .. h + h : (a \o b)[k] = b[k - h]
  <2>1. /\ a \o b \in Seq(Symbol) /\ Len(a \o b) = Len(a) + Len(b)
        /\ \A k \in 1 .. Len(a) : (a \o b)[k] = a[k]
        /\ \A k \in Len(a) + 1 .. Len(a) + Len(b) : (a \o b)[k] = b[k - Len(a)]
    BY <1>15, Joined, Zenon
  <2> QED
    BY <1>15, <2>1
<1>17. \A k \in 1 .. m : (a \o b)[k] = c[k]
  <2> TAKE k \in 1 .. m
  <2>1. c[k] = place(r, m, k)
    BY <1>13
  <2>2. CASE k \leq h
    <3>1. m - k \in 0 .. m /\ h \leq m - k /\ h - k \in 0 .. m /\ k \in 1 .. h
      BY <1>1, <2>2
    <3>2. PICK x \in Nat \ {0} : x = p[m - k] /\ r < x
      BY <1>5, <1>6, <3>1
    <3>3. PICK y \in Nat \ {0} : y = p[h - k]
      BY <1>5, <3>1
    <3>4. r \div x = 0
      <4>1. x * 0 \leq r /\ r < x * 0 + x
        BY <3>2
      <4> QED
        BY <4>1, QuotientIs
    <3>5. 0 \div y = 0
      <4>1. y * 0 \leq 0 /\ 0 < y * 0 + y
        OBVIOUS
      <4> QED
        BY <4>1, QuotientIs
    <3>6. place(r, m, k) = Digit[(0 % 16) + 1]
      BY <3>2, <3>4 DEF place
    <3>7. place(0, h, k) = Digit[(0 % 16) + 1]
      BY <3>3, <3>5 DEF place
    <3>8. (a \o b)[k] = place(0, h, k)
      BY <1>11, <1>16, <3>1
    <3> QED
      BY <2>1, <3>6, <3>7, <3>8
  <2>3. CASE ~(k \leq h)
    <3>1. k \in h + 1 .. h + h /\ k - h \in 1 .. h /\ h - (k - h) = m - k
      BY <1>1, <2>3
    <3>2. (a \o b)[k] = place(r, h, k - h)
      BY <1>12, <1>16, <3>1
    <3>3. place(r, h, k - h) = place(r, m, k)
      BY <3>1 DEF place
    <3> QED
      BY <2>1, <3>2, <3>3
  <2> QED
    BY <2>2, <2>3
<1>18. a \o b = c
  <2>1. Len(a \o b) = Len(c)
    BY <1>1, <1>15, <1>16
  <2>2. \A k \in 1 .. Len(c) : (a \o b)[k] = c[k]
    BY <1>15, <1>17
  <2> QED
    BY <1>15, <1>16, <2>1, <2>2, SeqEqual
<1>19. QED
  BY <1>1, <1>8, <1>9, <1>10, <1>18

-----------------------------------------------------------------------------
(* What kernel_main and exc_handler say.                                   *)
LEMMA PinsMean == Tells(pins_of_card, << >>)
<1>1. \A i \in 1 .. 6 : 47 + i \in 48 .. 53
  OBVIOUS
<1>2. \A i \in 1 .. 6 : <<"pin", 47 + i>> \in LaterOp
  BY <1>1 DEF LaterOp, PlainOp
<1>3. \A i \in 1 .. 6 : Silent(<<"pin", 47 + i>>)
  <2>1. \A i \in 1 .. 6 : <<"pin", 47 + i>>[1] = "pin"
    OBVIOUS
  <2> HIDE DEF LaterOp
  <2> QED
    BY <1>2, <2>1, SilentOps
<1>4. PICK f : f = pins_of_card
  OBVIOUS
<1>5. f \in [1 .. 6 -> Op] /\ \A i \in 1 .. 6 : Silent(f[i])
  <2>1. f = [i \in 1 .. 6 |-> <<"pin", 47 + i>>]
    BY <1>4 DEF pins_of_card
  <2>2. \A i \in 1 .. 6 : <<"pin", 47 + i>> \in Op
    BY <1>3 DEF Silent
  <2> HIDE DEF Op
  <2> QED
    BY <1>3, <2>1, <2>2
<1> HIDE DEF Op
<1>6. f \in Seq(Op) /\ Len(f) = 6
  BY <1>5, FunctionIsSeq
<1>7. QED
  BY <1>4, <1>5, <1>6, TellsAllSilent

LEMMA InitMeans == Tells(init, << >>)
<1>1. init \in Seq(Op)
  BY InitIsSeq, SeqOfMore, OpsAre
<1>2. \A k \in 1 .. Len(init) : init[k] \in InitOp
  BY InitIsSeq, LenProperties
<1>3. \A k \in 1 .. Len(init) : Silent(init[k])
  <2> HIDE DEF InitOp, init
  <2> QED BY <1>2, SilentOps
<1> HIDE DEF Op, init
<1>4. QED
  BY <1>1, <1>3, TellsAllSilent

(* kernel_main says the greeting, and then the line after the pins, before *)
(* it knows of a card.                                                     *)
LEMMA KernelMainMeans == Tells(kernel_main, (Greeting \o GpioSetUp) \o FailedText)
<1> DEFINE c(name) == << <<"call", name>> >>
<1>1. Tells(init, << >>)
  BY InitMeans
<1>2. Tells(write(Greeting), Greeting)
  BY Texts, TellsWrite
<1>3. Tells(c("framebuffer"), << >>)
  BY SilentOps, TellsSilent
<1>4. Tells(write(GpioSetUp), GpioSetUp)
  BY Texts, TellsWrite
<1>5. Tells(c("sd"), FailedText)
  <2>1. PICK op : op = <<"call", "sd">>
    OBVIOUS
  <2>2. op \in PlainOp
    BY <2>1 DEF PlainOp
  <2>3. op \in Op
    BY <2>2, PlainIsNoClock
  <2>4. op[1] = "call" /\ op[2] = "sd"
    BY <2>1
  <2>5. Means(op) = Returned(FailedText)
    BY <2>4 DEF Means
  <2> HIDE DEF Op
  <2>6. Tells(<<op>>, FailedText)
    BY <2>3, <2>5, Texts, TellsOne
  <2> QED
    BY <2>1, <2>6
<1>6. kernel_main = ((((init \o write(Greeting)) \o c("framebuffer"))
                        \o pins_of_card) \o write(GpioSetUp)) \o c("sd")
  BY DEF kernel_main
<1> HIDE DEF c
<1>7. Tells(init \o write(Greeting), << >> \o Greeting)
  BY <1>1, <1>2, TellsBoth
<1>8. Tells((init \o write(Greeting)) \o c("framebuffer"), (<< >> \o Greeting) \o << >>)
  BY <1>3, <1>7, TellsBoth
<1>9. (<< >> \o Greeting) \o << >> = Greeting
  BY Texts, NothingIsText
<1>10. Tells(((init \o write(Greeting)) \o c("framebuffer")) \o pins_of_card, Greeting \o << >>)
  BY <1>8, <1>9, PinsMean, TellsBoth
<1>11. Greeting \o << >> = Greeting
  BY Texts, NothingIsText
<1>12. Tells((((init \o write(Greeting)) \o c("framebuffer")) \o pins_of_card)
               \o write(GpioSetUp), Greeting \o GpioSetUp)
  BY <1>4, <1>10, <1>11, TellsBoth
<1>13. Tells(((((init \o write(Greeting)) \o c("framebuffer")) \o pins_of_card)
               \o write(GpioSetUp)) \o c("sd"), (Greeting \o GpioSetUp) \o FailedText)
  BY <1>5, <1>12, TellsBoth
<1>14. QED
  BY <1>6, <1>13

LEMMA NumberMeans ==
  ASSUME NEW v \in 0 .. Word - 1
  PROVE  Tells(<< <<"number", v>> >>, Numeral(v, 16, HalfDigits))
<1>1. PICK op : op = <<"number", v>>
  OBVIOUS
<1>2. op \in Op /\ op[1] = "number" /\ op[2] = v
  BY <1>1 DEF Op
<1>3. HalfDigits \in Nat \ {0} /\ HalfDigits \in 0 .. 255
  BY StartupAssumption DEF StartupAssumption
<1>4. itos(v, 16, HalfDigits) = Numeral(v, 16, HalfDigits)
  BY <1>3, ItosIsNumeral
<1>5. itos(v, 16, HalfDigits) \in Text
  BY <1>3, ItosIsText DEF Bases
<1>6. Means(op) = Returned(Numeral(v, 16, HalfDigits))
  BY <1>2, <1>4 DEF Means
<1> HIDE DEF Op
<1>7. Tells(<<op>>, Numeral(v, 16, HalfDigits))
  BY <1>2, <1>4, <1>5, <1>6, TellsOne
<1>8. QED
  BY <1>1, <1>7

LEMMA RegisterMeans ==
  ASSUME NEW r \in 0 .. Word - 1
  PROVE  Tells(register(r), Shown(r))
<1>1. r \div Half \in 0 .. Word - 1
  <2>1. \A h \in Nat, w \in Nat : 16 \leq h => w \div h \in Nat /\ w \div h \leq w
    OBVIOUS
  <2>2. Word \in Nat
    BY FormatAssumption DEF FormatAssumption
  <2> QED
    BY <2>1, <2>2, HalfIs
<1>2. PICK a, b : a = <<"number", r \div Half>> /\ b = <<"number", r>>
  OBVIOUS
<1>3. Tells(<<a>>, Numeral(r \div Half, 16, HalfDigits)) /\ Tells(<<b>>, Numeral(r, 16, HalfDigits))
  BY <1>1, <1>2, NumberMeans
<1>4. Tells(<<a>> \o <<b>>, Numeral(r \div Half, 16, HalfDigits) \o Numeral(r, 16, HalfDigits))
  BY <1>3, TellsBoth
<1>5. <<a>> \o <<b>> = <<a, b>>
  <2>1. a \in {a, b} /\ b \in {a, b}
    OBVIOUS
  <2> QED
    BY <2>1, TwoOf
<1>6. Tells(register(r), Numeral(r \div Half, 16, HalfDigits) \o Numeral(r, 16, HalfDigits))
  BY <1>2, <1>4, <1>5 DEF register
<1>7. CASE r < Half
  <2>1. r \in Nat /\ Half \in Nat \ {0}
    BY HalfIs
  <2>2. Half * 0 \leq r /\ r < Half * 0 + Half
    BY <1>7, <2>1
  <2>3. r \div Half = 0
    BY <2>1, <2>2, QuotientIs
  <2>4. Shown(r) = Numeral(r, 16, 2 * HalfDigits)
    BY <1>7 DEF Shown
  <2>5. Shown(r) = Numeral(0, 16, HalfDigits) \o Numeral(r, 16, HalfDigits)
    BY <1>7, <2>1, <2>4, LowRegister
  <2> QED
    BY <1>6, <2>3, <2>5
<1>8. CASE ~(r < Half)
  <2>1. Shown(r) = Numeral(r \div Half, 16, HalfDigits) \o Numeral(r, 16, HalfDigits)
    BY <1>8 DEF Shown
  <2> QED
    BY <1>6, <2>1
<1>9. QED
  BY <1>7, <1>8

LEMMA SectionIs ==
  ASSUME NEW s, NEW txt, Tells(s, txt), NEW c \in Symbol, NEW r \in 0 .. Word - 1
  PROVE  Tells(((s \o text("\n")) \o text(c)) \o register(r), (txt \o <<"\n", c>>) \o Shown(r))
<1> HIDE DEF Symbol
<1>1. "\n" \in Symbol
  BY ReturnIs
<1>2. Tells(text("\n"), <<"\n">>) /\ Tells(text(c), <<c>>)
  BY <1>1, TellsSymbol
<1>3. Tells(s \o text("\n"), txt \o <<"\n">>)
  BY <1>2, TellsBoth
<1>4. Tells((s \o text("\n")) \o text(c), (txt \o <<"\n">>) \o <<c>>)
  BY <1>2, <1>3, TellsBoth
<1>5. (txt \o <<"\n">>) \o <<c>> = txt \o <<"\n", c>>
  <2>1. <<"\n">> \in Text /\ <<c>> \in Text /\ txt \in Text
    BY <1>1, OneSymbol DEF Tells
  <2>2. <<"\n">> \o <<c>> = <<"\n", c>>
    BY <1>1, TwoOf
  <2>3. (txt \o <<"\n">>) \o <<c>> = txt \o (<<"\n">> \o <<c>>)
    BY <2>1, TextAssociative
  <2> QED
    BY <2>2, <2>3
<1>6. QED
  BY <1>4, <1>5, RegisterMeans, TellsBoth

(* What exc_handler says is the report.  A register below 2^32 is in it as *)
(* the numeral of all its digits, another with its upper half twice        *)
(* (exception.cpp:23-69, uart1.cpp:49-53).                                 *)
THEOREM ReportMeans ==
  ASSUME NEW f \in Faults
  PROVE  /\ exc_handler(f) \in Seq(Op) /\ Meant(exc_handler(f)) = ReportText(f)
         /\ ReportText(f) \in Text
<1>1. registers(f) \subseteq 0 .. Word - 1
  BY StartupAssumption DEF StartupAssumption, registers
<1>2. /\ f.esr \in 0 .. Word - 1 /\ f.elr \in 0 .. Word - 1
      /\ f.spsr \in 0 .. Word - 1 /\ f.far \in 0 .. Word - 1
  BY <1>1 DEF registers
<1> DEFINE t1 == <<"Exception: ", "Synchronous", "\n", "Exception class: ", "class">>
           t2 == <<", Fault cause: ", "cause", "level">>
           s2 == IF f.abort THEN write(t2) ELSE << >>
           u2 == IF f.abort THEN t2 ELSE << >>
           y1 == ((t1 \o u2) \o <<"\n", "ESR_EL1: ">>) \o Shown(f.esr)
           y2 == (y1 \o <<"\n", "ELR_EL1: ">>) \o Shown(f.elr)
           y3 == (y2 \o <<"\n", "SPSR_EL1: ">>) \o Shown(f.spsr)
           y4 == (y3 \o <<"\n", "FAR_EL1: ">>) \o Shown(f.far)
           z1 == (((write(t1) \o s2) \o text("\n")) \o text("ESR_EL1: ")) \o register(f.esr)
           z2 == ((z1 \o text("\n")) \o text("ELR_EL1: ")) \o register(f.elr)
           z3 == ((z2 \o text("\n")) \o text("SPSR_EL1: ")) \o register(f.spsr)
           z4 == ((z3 \o text("\n")) \o text("FAR_EL1: ")) \o register(f.far)
<1>3. exc_handler(f) = z4
  BY DEF exc_handler
<1>4. ReportText(f) = Returned(y4)
  BY DEF ReportText
<1>5. t1 \in Text
  BY DEF Text, Symbol, Words, Marks
<1>6. t2 \in Text
  BY DEF Text, Symbol, Words
<1>7. /\ "ESR_EL1: " \in Symbol /\ "ELR_EL1: " \in Symbol
      /\ "SPSR_EL1: " \in Symbol /\ "FAR_EL1: " \in Symbol
  BY DEF Symbol, Words
<1> HIDE DEF t1, t2, Symbol
<1>8. Tells(s2, u2)
  <2>1. Tells(write(t2), t2)
    BY <1>6, TellsWrite
  <2> QED
    BY <2>1, TellsNothing
<1> HIDE DEF s2, u2
<1>9. Tells(write(t1) \o s2, t1 \o u2)
  BY <1>5, <1>8, TellsWrite, TellsBoth
<1>10. Tells(z1, y1)
  BY <1>2, <1>7, <1>9, SectionIs
<1> HIDE DEF y1, z1
<1>11. Tells(z2, y2)
  BY <1>2, <1>7, <1>10, SectionIs
<1> HIDE DEF y2, z2
<1>12. Tells(z3, y3)
  BY <1>2, <1>7, <1>11, SectionIs
<1> HIDE DEF y3, z3
<1>13. Tells(z4, y4)
  BY <1>2, <1>7, <1>12, SectionIs
<1> HIDE DEF y4, z4
<1>14. z4 \in Seq(Op) /\ Meant(z4) = Returned(y4) /\ y4 \in Text
  BY <1>13 DEF Tells
<1>15. QED
  BY <1>3, <1>4, <1>14, ReturnedIs

-----------------------------------------------------------------------------
(* What the kernel and its drivers say in all.                             *)
KernelSays(c) == Returned(
    Greeting \o GpioSetUp \o c.init
    \o (IF c.size = None THEN FailedText
        ELSE <<"SD card size: ">> \o Numeral(c.size, 10, 1) \o <<"MB", "\n">>)
    \o c.read
    \o FlattenSeq([i \in DOMAIN c.sector |->
           (IF (i - 1) % 16 = 0 THEN <<"\n">> ELSE << >>)
             \o Numeral(c.sector[i], 16, 2) \o <<" ">>]))

Outcome(c) == IF c.size = None THEN FailedText ELSE format(SizeFormat, <<c.size>>)
Card(c)    == c.init \o Outcome(c)
Rows(c)    == RowsOf(c.sector)

Chosen == [init : Text, size : Sizes \cup {None}, read : Text,
            sector : Sectors \cup {<< >>}]

Choice(c) == c \in Chosen

LEMMA ChoiceIs ==
  ASSUME NEW c, Choice(c)
  PROVE  /\ c.init \in Text /\ c.read \in Text /\ c.size \in Sizes \cup {None}
         /\ c.sector \in Sectors \cup {<< >>}
<1> HIDE DEF Text
<1>1. QED
  BY DEF Choice, Chosen

LEMMA SectorIs ==
  ASSUME NEW c, Choice(c)
  PROVE  \E n \in Nat : /\ DOMAIN c.sector = 1 .. n
                        /\ \A i \in 1 .. n : c.sector[i] \in 0 .. 255
                        /\ c.sector = << >> => n = 0
<1>1. c.sector \in Seq(0 .. 255)
  <2>1. \A buf \in Sectors : buf \in Seq(0 .. 255)
    BY StartupAssumption DEF StartupAssumption
  <2>2. << >> \in Seq(0 .. 255)
    OBVIOUS
  <2>3. c.sector \in Sectors \/ c.sector = << >>
    BY ChoiceIs
  <2> QED
    BY <2>1, <2>2, <2>3
<1>2. PICK n \in Nat : n = Len(c.sector)
  BY <1>1, LenProperties
<1>3. DOMAIN c.sector = 1 .. n /\ \A i \in 1 .. n : c.sector[i] \in 0 .. 255
  BY <1>1, <1>2, LenProperties
<1>4. c.sector = << >> => n = 0
  BY <1>2, EmptySeq
<1>5. QED
  BY <1>3, <1>4

LEMMA RowsAre ==
  ASSUME NEW c, Choice(c)
  PROVE  /\ Rows(c) \in Text
         /\ Rows(c) = FlattenSeq([i \in DOMAIN c.sector |->
              ((IF (i - 1) % 16 = 0 THEN <<"\n">> ELSE << >>)
                 \o Numeral(c.sector[i], 16, 2)) \o <<" ">>])
         /\ c.sector = << >> => Rows(c) = << >>
<1>1. PICK n \in Nat : /\ DOMAIN c.sector = 1 .. n
                       /\ \A i \in 1 .. n : c.sector[i] \in 0 .. 255
                       /\ c.sector = << >> => n = 0
  BY SectorIs
<1> DEFINE start(i) == IF (i - 1) % 16 = 0 THEN <<"\n">> ELSE << >>
<1>2. ASSUME NEW i \in 1 .. n
      PROVE  /\ Row(i, c.sector[i]) = (start(i) \o Numeral(c.sector[i], 16, 2)) \o <<" ">>
             /\ Row(i, c.sector[i]) \in Text
  <2>1. PICK byte \in 0 .. 255 : byte = c.sector[i]
    BY <1>1
  <2>2. format(ByteFormat, <<byte>>) = Numeral(byte, 16, 2) \o <<" ">>
    BY ByteTextIs
  <2>3. Numeral(byte, 16, 2) \in Text
    <3>1. byte \in 0 .. Word - 1
      BY SizeOfWord
    <3>2. itos(byte, 16, 2) = Numeral(byte, 16, 2)
      BY <3>1, ItosIsNumeral
    <3>3. itos(byte, 16, 2) \in Text
      BY <3>1, ItosIsText DEF Bases
    <3> QED
      BY <3>2, <3>3
  <2>4. <<" ">> \in Text /\ start(i) \in Text
    <3>1. " " \in Symbol /\ "\n" \in Symbol
      BY DEF Symbol, Marks
    <3>2. <<" ">> \in Text /\ <<"\n">> \in Text
      BY <3>1, OneSymbol
    <3> HIDE DEF Text
    <3> QED
      BY <3>2, NothingIsText
  <2> HIDE DEF start
  <2>5. (start(i) \o Numeral(byte, 16, 2)) \o <<" ">>
          = start(i) \o (Numeral(byte, 16, 2) \o <<" ">>)
    BY <2>3, <2>4, TextAssociative
  <2>6. Row(i, byte) = start(i) \o format(ByteFormat, <<byte>>)
    BY DEF Row, start
  <2>7. Row(i, byte) \in Text
    <3>1. i \in Nat
      OBVIOUS
    <3> QED
      BY <3>1, RowIs
  <2> QED
    BY <2>1, <2>2, <2>5, <2>6, <2>7
<1>3. PICK r : r = [i \in 1 .. n |-> Row(i, c.sector[i])]
  OBVIOUS
<1>4. r \in Seq(Seq(Symbol))
  <2> HIDE DEF Symbol
  <2>1. \A i \in 1 .. n : Row(i, c.sector[i]) \in Seq(Symbol)
    BY <1>2 DEF Text
  <2>2. r \in [1 .. n -> Seq(Symbol)]
    BY <1>3, <2>1
  <2> QED
    BY <2>2, FunctionIsSeq
<1>5. Rows(c) = FlattenSeq(r)
  BY <1>1, <1>3, Zenon DEF Rows, RowsOf
<1>6. Rows(c) \in Text
  <2> HIDE DEF Symbol
  <2> QED BY <1>4, <1>5, FlattenInSeq DEF Text
<1>7. r = [i \in 1 .. n |-> (start(i) \o Numeral(c.sector[i], 16, 2)) \o <<" ">>]
  <2> HIDE DEF start
  <2> QED BY <1>2, <1>3, Zenon
<1>8. Rows(c) = FlattenSeq([i \in DOMAIN c.sector |->
                  (start(i) \o Numeral(c.sector[i], 16, 2)) \o <<" ">>])
  <2> HIDE DEF start
  <2> QED BY <1>1, <1>5, <1>7, Zenon
<1>9. ASSUME c.sector = << >> PROVE Rows(c) = << >>
  <2>1. n = 0
    BY <1>1, <1>9
  <2>2. r = << >>
    BY <1>3, <2>1
  <2> QED
    BY <1>5, <2>2, FlattenOne, NothingIsText DEF Text
<1>10. QED
  BY <1>6, <1>8, <1>9

LEMMA OutcomeText ==
  ASSUME NEW c, Choice(c)
  PROVE  /\ Outcome(c) \in Text
         /\ Outcome(c) = IF c.size = None THEN FailedText
              ELSE (<<"SD card size: ">> \o Numeral(c.size, 10, 1)) \o <<"MB", "\n">>
<1>1. CASE c.size = None
  BY <1>1, Texts DEF Outcome
<1>2. CASE c.size # None
  <2>1. PICK size \in Sizes : size = c.size
    BY <1>2, ChoiceIs
  <2>2. Outcome(c) = format(SizeFormat, <<size>>)
    BY <1>2, <2>1 DEF Outcome
  <2> QED
    BY <1>2, <2>1, <2>2, SizeTextIs
<1>3. QED
  BY <1>1, <1>2

(* The text the wire is compared with is the one the formats produce.      *)
LEMMA KernelSaysIs ==
  ASSUME NEW c, Choice(c)
  PROVE  /\ Card(c) \in Text /\ c.read \o Rows(c) \in Text /\ KernelSays(c) \in Text
         /\ KernelSays(c) = Returned((Greeting \o GpioSetUp) \o Card(c))
                              \o Returned(c.read \o Rows(c))
<1> DEFINE lines == FlattenSeq([i \in DOMAIN c.sector |->
              ((IF (i - 1) % 16 = 0 THEN <<"\n">> ELSE << >>)
                 \o Numeral(c.sector[i], 16, 2)) \o <<" ">>])
           told == IF c.size = None THEN FailedText
                   ELSE (<<"SD card size: ">> \o Numeral(c.size, 10, 1)) \o <<"MB", "\n">>
<1>1. lines = Rows(c) /\ told = Outcome(c)
  BY OutcomeText, RowsAre
<1>2. KernelSays(c) =
        Returned(((((Greeting \o GpioSetUp) \o c.init) \o told) \o c.read) \o lines)
  BY DEF KernelSays
<1> HIDE DEF lines, told
<1>3. PICK w \in Text, i \in Text, o \in Text, r \in Text, l \in Text :
        /\ w = Greeting \o GpioSetUp /\ i = c.init /\ o = Outcome(c)
        /\ r = c.read /\ l = Rows(c)
  <2>1. Greeting \o GpioSetUp \in Text
    BY Texts, TextConcat
  <2> QED
    BY <2>1, OutcomeText, RowsAre, ChoiceIs
<1>4. KernelSays(c) = Returned((((w \o i) \o o) \o r) \o l)
  BY <1>1, <1>2, <1>3
<1> HIDE DEF Text
<1>5. /\ w \o i \in Text /\ i \o o \in Text /\ r \o l \in Text
      /\ (w \o i) \o o = w \o (i \o o)
  BY TextConcat, TextAssociative
<1>6. w \o (i \o o) \in Text
  BY <1>5, TextConcat
<1>7. ((w \o (i \o o)) \o r) \o l = (w \o (i \o o)) \o (r \o l)
  BY <1>6, TextAssociative
<1>8. KernelSays(c) = Returned((w \o (i \o o)) \o (r \o l))
  BY <1>4, <1>5, <1>7
<1>9. Returned((w \o (i \o o)) \o (r \o l)) = Returned(w \o (i \o o)) \o Returned(r \o l)
  BY <1>5, <1>6, ReturnedConcat
<1>10. (w \o (i \o o)) \o (r \o l) \in Text
  BY <1>5, <1>6, TextConcat
<1>11. Returned((w \o (i \o o)) \o (r \o l)) \in Text
  BY <1>10, ReturnedIs
<1>12. Card(c) = i \o o /\ c.read \o Rows(c) = r \o l
  BY <1>3 DEF Card
<1>13. QED
  BY <1>3, <1>5, <1>8, <1>9, <1>11, <1>12

-----------------------------------------------------------------------------
(* The calls that decide what is said are the last of what is left of the  *)
(* program, and nothing is decided before them.                            *)
Deciding == {<<"call", "sd">>, <<"call", "read">>}
Other    == Op \ Deciding

(* What the call has yet to decide.                                        *)
Blank(op, c) ==
    /\ c.sector = << >> /\ c.read = << >>
    /\ op = <<"call", "sd">> => c.size = None /\ c.init = << >>

Undecided(t, c) ==
    \A k \in 1 .. Len(t) : t[k] \in Deciding => k = Len(t) /\ Blank(t[k], c)

LEMMA OthersAre ==
  /\ Other \subseteq Op /\ InitOp \subseteq Other /\ PutOp \subseteq Other
  /\ \A op \in Other : op \notin Deciding
  /\ \A op \in Op : op[1] # "call" => op \in Other
  /\ <<"call", "framebuffer">> \in Other
<1>1. \A op \in Deciding : op[1] = "call"
  BY DEF Deciding
<1>2. Other \subseteq Op /\ \A op \in Other : op \notin Deciding
  BY DEF Other
<1>3. \A op \in Op : op[1] # "call" => op \in Other
  <2> HIDE DEF Op, Deciding
  <2> QED BY <1>1 DEF Other
<1>4. InitOp \subseteq Other
  <2>1. \A op \in InitOp : op \in Op /\ op[1] \in {"mu", "fsel", "gppud", "clock"}
    BY Tags, OpsAre
  <2> HIDE DEF InitOp, Other, Op
  <2>2. \A op \in InitOp : op \in Op /\ op[1] # "call"
    BY <2>1
  <2> QED
    BY <1>3, <2>2
<1>5. PutOp \subseteq Other
  <2>1. \A op \in PutOp : op \in Op /\ op[1] = "put"
    BY Tags, OpsAre
  <2> HIDE DEF PutOp, Other, Op
  <2>2. \A op \in PutOp : op \in Op /\ op[1] # "call"
    BY <2>1
  <2> QED
    BY <1>3, <2>2
<1>6. <<"call", "framebuffer">> \in Other
  <2>1. PICK op : op = <<"call", "framebuffer">>
    OBVIOUS
  <2>2. op \in Op
    BY <2>1, SilentOps DEF Silent
  <2>3. op[2] = "framebuffer" /\ \A o \in Deciding : o[2] # "framebuffer"
    BY <2>1 DEF Deciding
  <2> HIDE DEF Op, Deciding
  <2> QED
    BY <2>1, <2>2, <2>3 DEF Other
<1>7. QED
  BY <1>2, <1>3, <1>4, <1>5, <1>6

LEMMA NoCalls ==
  ASSUME NEW s \in Seq(Op), \A k \in 1 .. Len(s) : s[k][1] # "call"
  PROVE  s \in Seq(Other)
<1> HIDE DEF Op, Other
<1>1. Len(s) \in Nat /\ s \in [1 .. Len(s) -> Op]
  BY LenProperties
<1>2. \A k \in 1 .. Len(s) : s[k] \in Other
  BY <1>1, OthersAre
<1>3. s \in [1 .. Len(s) -> Other]
  BY <1>1, <1>2
<1>4. QED
  BY <1>1, <1>3, SeqOfLength

LEMMA OthersUndecided ==
  ASSUME NEW x \in Seq(Other), NEW c
  PROVE  x \in Seq(Op) /\ Undecided(x, c)
<1> HIDE DEF Op, Other
<1>1. x \in Seq(Op)
  BY OthersAre, SeqOfMore
<1>2. \A k \in 1 .. Len(x) : x[k] \in Other
  BY LenProperties
<1>3. QED
  BY <1>1, <1>2, OthersAre DEF Undecided

LEMMA StillUndecided ==
  ASSUME NEW s \in Seq(Op), s # << >>, NEW x \in Seq(Other), NEW c, Undecided(s, c)
  PROVE  Undecided(x \o Tail(s), c)
<1> HIDE DEF Op, Other, Deciding
<1>1. x \in Seq(Op) /\ \A k \in 1 .. Len(x) : x[k] \notin Deciding
  <2>1. \A k \in 1 .. Len(x) : x[k] \in Other
    BY LenProperties
  <2> QED
    BY <2>1, OthersUndecided, OthersAre
<1>2. PICK t : t = x \o Tail(s)
  OBVIOUS
<1>3. /\ Len(t) = Len(x) + Len(s) - 1 /\ Len(x) \in Nat /\ Len(s) \in Nat \ {0}
      /\ \A k \in 1 .. Len(x) : t[k] = x[k]
      /\ \A k \in Len(x) + 1 .. Len(x) + Len(s) - 1 :
            /\ t[k] = s[k - Len(x) + 1]
            /\ k - Len(x) + 1 \in 2 .. Len(s)
  BY <1>1, <1>2, Replaced
<1>4. ASSUME NEW k \in 1 .. Len(t), t[k] \in Deciding
      PROVE  k = Len(t) /\ Blank(t[k], c)
  <2>1. k \notin 1 .. Len(x)
    BY <1>1, <1>3, <1>4
  <2>2. k \in Len(x) + 1 .. Len(x) + Len(s) - 1
    BY <1>3, <2>1
  <2>3. PICK j \in 2 .. Len(s) : j = k - Len(x) + 1 /\ t[k] = s[j]
    BY <1>3, <2>2
  <2>4. j \in 1 .. Len(s)
    OBVIOUS
  <2>5. j = Len(s) /\ Blank(s[j], c)
    BY <1>4, <2>3, <2>4 DEF Undecided
  <2> QED
    BY <1>3, <2>3, <2>5
<1>5. Undecided(t, c)
  BY <1>4 DEF Undecided
<1>6. QED
  BY <1>2, <1>5

LEMMA ThenDecided ==
  ASSUME NEW x \in Seq(Other), NEW op \in Op, NEW c, Blank(op, c)
  PROVE  Undecided(x \o <<op>>, c)
<1> HIDE DEF Op, Other, Deciding
<1>1. x \in Seq(Op) /\ Len(x) \in Nat /\ \A k \in 1 .. Len(x) : x[k] \notin Deciding
  <2>1. \A k \in 1 .. Len(x) : x[k] \in Other
    BY LenProperties
  <2> QED
    BY <2>1, OthersUndecided, OthersAre, LenProperties
<1>2. PICK y \in Seq(Op) : y = <<op>> /\ Len(y) = 1 /\ y[1] = op
  <2>1. <<op>> \in Seq(Op) /\ Len(<<op>>) = 1 /\ <<op>>[1] = op
    OBVIOUS
  <2> QED
    BY <2>1
<1>3. PICK t : t = x \o y
  OBVIOUS
<1>4. /\ Len(t) = Len(x) + 1
      /\ \A k \in 1 .. Len(x) : t[k] = x[k]
      /\ t[Len(x) + 1] = op
  <2>1. /\ Len(t) = Len(x) + Len(y)
        /\ \A k \in 1 .. Len(x) : t[k] = x[k]
        /\ \A k \in Len(x) + 1 .. Len(x) + Len(y) : t[k] = y[k - Len(x)]
    BY <1>1, <1>3, Joined
  <2>2. Len(x) + 1 \in Len(x) + 1 .. Len(x) + 1 /\ (Len(x) + 1) - Len(x) = 1
    BY <1>1
  <2> QED
    BY <1>2, <2>1, <2>2
<1>5. ASSUME NEW k \in 1 .. Len(t), t[k] \in Deciding
      PROVE  k = Len(t) /\ Blank(t[k], c)
  <2>1. k \notin 1 .. Len(x)
    BY <1>1, <1>4, <1>5
  <2>2. k = Len(x) + 1
    BY <1>1, <1>4, <2>1
  <2> QED
    BY <1>4, <2>2
<1>6. Undecided(t, c)
  BY <1>5 DEF Undecided
<1>7. QED
  BY <1>2, <1>3, <1>6

LEMMA WriteDecidesNothing ==
  ASSUME NEW txt \in Text
  PROVE  write(txt) \in Seq(Other)
BY WriteIs, SeqOfMore, OthersAre

LEMMA PinDecidesNothing ==
  ASSUME NEW p \in 48 .. 53
  PROVE  pin_of_card(p) \in Seq(Other)
<1>1. PICK x \in Seq(Op) : x = pin_of_card(p)
  BY PinIs
<1>2. /\ Len(x) = 5
      /\ x[1] = <<"fsel", p, alt3>> /\ x[2] = <<"gppud", 2>>
      /\ x[3] = <<"clock", p>> /\ x[4] = <<"gppud", 0>> /\ x[5] = <<"clock", None>>
  BY <1>1 DEF pin_of_card, set_function, pull_up
<1>3. \A k \in 1 .. 5 : k = 1 \/ k = 2 \/ k = 3 \/ k = 4 \/ k = 5
  OBVIOUS
<1>4. \A k \in 1 .. 5 : x[k][1] # "call"
  BY <1>2, <1>3
<1>5. \A k \in 1 .. Len(x) : x[k][1] # "call"
  BY <1>2, <1>4
<1> HIDE DEF Op, Other
<1>6. QED
  BY <1>1, <1>5, NoCalls

LEMMA DumpByteDecidesNothing ==
  ASSUME NEW i \in Nat, NEW byte \in 0 .. 255
  PROVE  dump_byte(i, byte) \in Seq(Other)
<1>1. PICK op : op = <<"format", ByteFormat, <<byte>> >>
  OBVIOUS
<1>2. op \in PlainOp
  BY <1>1 DEF PlainOp
<1>3. op \in Op /\ op[1] # "call"
  BY <1>1, <1>2, PlainIsNoClock
<1>4. op \in Other
  <2> HIDE DEF Op, Other
  <2> QED BY <1>3, OthersAre
<1>5. <<"put", "\n">> \in Other
  <2>1. <<"put", "\n">> \in PutOp
    BY ReturnIs DEF PutOp
  <2> QED
    BY <2>1, OthersAre
<1> HIDE DEF Other
<1>6. <<op>> \in Seq(Other) /\ text("\n") \in Seq(Other) /\ << >> \in Seq(Other)
  BY <1>4, <1>5 DEF text
<1>7. dump_byte(i, byte) = (IF (i - 1) % 16 = 0 THEN text("\n") ELSE << >>) \o <<op>>
  BY <1>1 DEF dump_byte
<1>8. QED
  BY <1>6, <1>7, Joined

LEMMA DumpDecidesNothing ==
  ASSUME NEW buf \in Sectors
  PROVE  dump(buf) \in Seq(Other)
<1>1. dump(buf) \in Seq(Op)
  BY DumpIs, PlainIsLater
<1>2. \A k \in 1 .. Len(dump(buf)) : dump(buf)[k][1] # "call"
  <2>1. DOMAIN dump(buf) = 1 .. Len(dump(buf))
    <3> HIDE DEF Op
    <3> QED BY <1>1, LenProperties
  <2>2. DOMAIN dump(buf) = DOMAIN buf
        /\ \A k \in DOMAIN buf : dump(buf)[k] = <<"byte", k, buf[k]>>
    BY DEF dump
  <2>3. \A k \in DOMAIN buf : dump(buf)[k][1] = "byte"
    BY <2>2
  <2> QED
    BY <2>1, <2>2, <2>3
<1> HIDE DEF Op, Other
<1>3. QED
  BY <1>1, <1>2, NoCalls

LEMMA SizeUndecided ==
  ASSUME NEW size \in Sizes, NEW c, c.sector = << >>, c.read = << >>
  PROVE  Undecided(size_of_card(size), c)
<1>1. PICK a, b : a = <<"format", SizeFormat, <<size>> >> /\ b = <<"call", "read">>
  OBVIOUS
<1>2. a \in PlainOp
  BY <1>1 DEF PlainOp
<1>3. a \in Op /\ a[1] # "call"
  BY <1>1, <1>2, PlainIsNoClock
<1>4. b \in Op /\ b # <<"call", "sd">>
  BY <1>1, SilentOps DEF Silent
<1>a. Blank(b, c)
  BY <1>4 DEF Blank
<1> HIDE DEF Op, Other
<1>5. a \in Other
  BY <1>3, OthersAre
<1>6. <<a>> \in Seq(Other)
  BY <1>5
<1>7. Undecided(<<a>> \o <<b>>, c)
  BY <1>4, <1>a, <1>6, ThenDecided
<1>8. <<a>> \o <<b>> = <<a, b>>
  BY <1>3, <1>4, TwoOf
<1>9. QED
  BY <1>1, <1>7, <1>8 DEF size_of_card

LEMMA OthersThen ==
  ASSUME NEW x \in Seq(Other), NEW t \in Seq(Op), NEW c, Undecided(t, c)
  PROVE  Undecided(x \o t, c)
<1> HIDE DEF Op, Other, Deciding
<1>1. x \in Seq(Op) /\ Len(x) \in Nat /\ \A k \in 1 .. Len(x) : x[k] \notin Deciding
  <2>1. \A k \in 1 .. Len(x) : x[k] \in Other
    BY LenProperties
  <2> QED
    BY <2>1, OthersUndecided, OthersAre, LenProperties
<1>2. PICK y : y = x \o t
  OBVIOUS
<1>3. /\ Len(y) = Len(x) + Len(t) /\ Len(t) \in Nat
      /\ \A k \in 1 .. Len(x) : y[k] = x[k]
      /\ \A k \in Len(x) + 1 .. Len(x) + Len(t) : y[k] = t[k - Len(x)]
  BY <1>1, <1>2, Joined, LenProperties
<1>4. ASSUME NEW k \in 1 .. Len(y), y[k] \in Deciding
      PROVE  k = Len(y) /\ Blank(y[k], c)
  <2>1. k \notin 1 .. Len(x)
    BY <1>1, <1>3, <1>4
  <2>2. k \in Len(x) + 1 .. Len(x) + Len(t) /\ k - Len(x) \in 1 .. Len(t)
    BY <1>1, <1>3, <2>1
  <2>3. y[k] = t[k - Len(x)]
    BY <1>3, <2>2
  <2>4. k - Len(x) = Len(t) /\ Blank(t[k - Len(x)], c)
    BY <1>4, <2>2, <2>3 DEF Undecided
  <2> QED
    BY <1>1, <1>3, <2>2, <2>3, <2>4
<1>5. Undecided(y, c)
  BY <1>4 DEF Undecided
<1>6. QED
  BY <1>2, <1>5

LEMMA PinsDecideNothing == pins_of_card \in Seq(Other)
<1>1. PICK f : f = pins_of_card
  OBVIOUS
<1>2. f = [i \in 1 .. 6 |-> <<"pin", 47 + i>>]
  BY <1>1 DEF pins_of_card
<1>3. \A i \in 1 .. 6 : <<"pin", 47 + i>> \in Other
  <2>1. \A i \in 1 .. 6 : 47 + i \in 48 .. 53
    OBVIOUS
  <2>2. \A i \in 1 .. 6 : <<"pin", 47 + i>> \in PlainOp
    BY <2>1 DEF PlainOp
  <2>3. \A i \in 1 .. 6 : <<"pin", 47 + i>>[1] # "call"
    OBVIOUS
  <2> HIDE DEF Op, Other, PlainOp
  <2> QED
    BY <2>2, <2>3, PlainIsNoClock, OthersAre
<1> HIDE DEF Other
<1>4. f \in [1 .. 6 -> Other]
  BY <1>2, <1>3
<1> QED
  BY <1>1, <1>4, FunctionIsSeq

LEMMA KernelMainUndecided == Undecided(kernel_main, Unset)
<1>1. init \in Seq(Other)
  BY InitIsSeq, SeqOfMore, OthersAre
<1>2. write(Greeting) \in Seq(Other) /\ write(GpioSetUp) \in Seq(Other)
  BY Texts, WriteDecidesNothing
<1>3. pins_of_card \in Seq(Other)
  BY PinsDecideNothing
<1> DEFINE c(name) == << <<"call", name>> >>
<1>4. c("framebuffer") \in Seq(Other)
  <2> HIDE DEF Other
  <2> QED BY OthersAre
<1>5. kernel_main = ((((init \o write(Greeting)) \o c("framebuffer"))
                        \o pins_of_card) \o write(GpioSetUp)) \o c("sd")
  BY DEF kernel_main
<1>6. PICK op : op = <<"call", "sd">>
  OBVIOUS
<1>7. op \in Op
  <2>1. op \in PlainOp
    BY <1>6 DEF PlainOp
  <2> QED
    BY <2>1, PlainIsNoClock
<1>8. c("sd") = <<op>>
  BY <1>6
<1> HIDE DEF c, Op, Other
<1>9. \A s, t \in Seq(Other) : s \o t \in Seq(Other)
  BY Joined
<1>10. (((init \o write(Greeting)) \o c("framebuffer")) \o pins_of_card) \o write(GpioSetUp)
         \in Seq(Other)
  BY <1>1, <1>2, <1>3, <1>4, <1>9
<1>11. Blank(op, Unset)
  BY DEF Blank, Unset
<1>12. QED
  BY <1>5, <1>7, <1>8, <1>10, <1>11, ThenDecided

-----------------------------------------------------------------------------
(* What was sent or waits to be: what the firmware left, and then s.       *)
Left(n) == [k \in 1 .. n |-> "firmware"]
Said(s) == \E n \in Nat : wire \o fifo = Left(n) \o s
Begins(a, t) == \E u \in Text : a \o u = t

LEMMA LeftIs ==
  ASSUME NEW n \in Nat
  PROVE  /\ Left(n) \in Seq(Sent) /\ Len(Left(n)) = n
         /\ \A k \in 1 .. n : Left(n)[k] = "firmware"
<1>1. PICK f : f = Left(n)
  OBVIOUS
<1>2. f = [k \in 1 .. n |-> "firmware"]
  BY <1>1 DEF Left
<1>3. "firmware" \in Sent
  BY DEF Sent
<1> HIDE DEF Sent
<1>4. f \in [1 .. n -> Sent] /\ \A k \in 1 .. n : f[k] = "firmware"
  BY <1>2, <1>3
<1>5. f \in Seq(Sent) /\ Len(f) = n
  BY <1>4, FunctionIsSeq
<1>6. QED
  BY <1>1, <1>4, <1>5

LEMMA TextIsSent == \A s \in Text : s \in Seq(Sent)
<1>1. Symbol \subseteq Sent
  BY DEF Sent
<1> HIDE DEF Symbol, Sent
<1>2. QED
  BY <1>1, SeqOfMore DEF Text

(* The beginning of what the firmware left is as much of it.               *)
LEMMA AllLeft ==
  ASSUME NEW x \in Seq(Sent), NEW y \in Seq(Sent), NEW n \in Nat, x \o y = Left(n)
  PROVE  x = Left(Len(x)) /\ Len(x) \in Nat
<1> HIDE DEF Sent
<1>1. PICK f \in Seq(Sent) : f = Left(n) /\ Len(f) = n /\ \A k \in 1 .. n : f[k] = "firmware"
  BY LeftIs
<1>2. /\ Len(x) \in Nat /\ Len(y) \in Nat /\ Len(f) = Len(x) + Len(y)
      /\ \A k \in 1 .. Len(x) : f[k] = x[k]
  <2>1. Len(x) \in Nat /\ Len(y) \in Nat
    BY LenProperties
  <2>2. PICK z : z = x \o y /\ Len(z) = Len(x) + Len(y) /\ \A k \in 1 .. Len(x) : z[k] = x[k]
    BY Joined
  <2>3. f = z
    BY <1>1, <2>2
  <2> QED
    BY <2>1, <2>2, <2>3
<1>3. PICK g \in Seq(Sent) : /\ g = Left(Len(x)) /\ Len(g) = Len(x)
                             /\ \A k \in 1 .. Len(x) : g[k] = "firmware"
  BY <1>2, LeftIs
<1>4. \A k \in 1 .. Len(x) : x[k] = g[k]
  <2>1. \A k \in 1 .. Len(x) : k \in 1 .. n
    BY <1>1, <1>2
  <2> QED
    BY <1>1, <1>2, <1>3, <2>1
<1>5. x = g
  BY <1>3, <1>4, SeqEqual
<1>6. QED
  BY <1>2, <1>3, <1>5

LEMMA SentAssociative ==
  \A p, q, r \in Seq(Sent) : (p \o q) \o r = p \o (q \o r)
BY ConcatAssociative

LEMMA SaidMore ==
  ASSUME wire \in Seq(Sent), fifo \in Seq(Sent), NEW s \in Text, Said(s), NEW c \in Symbol,
         wire' = wire, fifo' = Append(fifo, c)
  PROVE  Said(s \o <<c>>)' /\ s \o <<c>> \in Text
<1>1. <<c>> \in Text /\ s \o <<c>> \in Text
  BY OneSymbol, TextConcat
<1>2. PICK y \in Seq(Sent) : y = <<c>>
  BY <1>1, TextIsSent
<1>3. PICK n \in Nat : wire \o fifo = Left(n) \o s
  BY DEF Said
<1>4. Left(n) \in Seq(Sent) /\ s \in Seq(Sent)
  BY LeftIs, TextIsSent
<1> HIDE DEF Sent, Symbol
<1>5. fifo' = fifo \o y
  <2>1. c \in Sent
    BY DEF Sent
  <2> QED
    BY <1>2, <2>1, AppendIsConcat
<1>7. wire' \o fifo' = (wire \o fifo) \o y
  BY <1>5, SentAssociative
<1>8. (Left(n) \o s) \o y = Left(n) \o (s \o y)
  BY <1>4, <1>2, SentAssociative
<1>9. wire' \o fifo' = Left(n) \o (s \o <<c>>)
  BY <1>2, <1>3, <1>7, <1>8
<1>10. QED
  BY <1>1, <1>9 DEF Said, Left

LEMMA SaidNothing ==
  ASSUME wire \in Seq(Sent), fifo \in Seq(Sent), Said(<< >>),
         wire' = wire, fifo' = << >>
  PROVE  Said(<< >>)'
<1>1. PICK n \in Nat : wire \o fifo = Left(n) \o << >>
  BY DEF Said
<1> HIDE DEF Sent
<1>2. wire \o fifo = Left(n)
  BY <1>1, LeftIs, ConcatEmptySeq
<1>3. PICK m \in Nat : wire = Left(m)
  BY <1>2, AllLeft
<1>4. wire' \o fifo' = Left(m) \o << >>
  BY <1>3
<1>5. QED
  BY <1>4 DEF Said, Left

LEMMA SaidSent ==
  ASSUME wire \in Seq(Sent), fifo \in Seq(Sent), fifo # << >>, NEW s, Said(s),
         wire' = Append(wire, Head(fifo)), fifo' = Tail(fifo)
  PROVE  Said(s)' /\ wire' \in Seq(Sent)
<1> HIDE DEF Sent
<1>1. Head(fifo) \in Sent /\ Tail(fifo) \in Seq(Sent) /\ fifo = <<Head(fifo)>> \o Tail(fifo)
  BY HeadTailProperties
<1>2. PICK h \in Sent, t \in Seq(Sent) : h = Head(fifo) /\ t = Tail(fifo) /\ fifo = <<h>> \o t
  BY <1>1
<1>a. <<h>> \in Seq(Sent)
  OBVIOUS
<1>3. PICK y \in Seq(Sent) : y = <<h>>
  BY <1>a
<1>4. wire' = wire \o y /\ wire' \in Seq(Sent)
  <2>1. Append(wire, h) = wire \o <<h>> /\ Append(wire, h) \in Seq(Sent)
    BY AppendIsConcat, AppendProperties
  <2> QED
    BY <1>2, <1>3, <2>1
<1>5. (wire \o y) \o t = wire \o (y \o t)
  BY ConcatAssociative
<1>6. wire' \o fifo' = wire \o fifo
  BY <1>2, <1>3, <1>4, <1>5
<1>7. QED
  BY <1>4, <1>6 DEF Said, Left

LEMMA SaidStill ==
  ASSUME UNCHANGED <<wire, fifo>>, NEW s, Said(s)
  PROVE  Said(s)'
BY DEF Said, Left

-----------------------------------------------------------------------------
(* What was said so far and what the program still has to say make up the  *)
(* text; nothing is said before the UART is set up.                        *)
Ahead(s) ==
    /\ s \o Meant(todo) = KernelText
    /\ s = << >> \/ Position(16)
    /\ Undecided(todo, choice)

(* After an exception: what the kernel said up to there, then the report.  *)
Reports(s) ==
    \E a, b \in Text : /\ s = a \o b /\ Begins(a, KernelText)
                       /\ b \o Meant(todo) = ReportText(fault)

Stage(s) ==
    /\ Choice(choice)
    /\ at \in {"entry", "level", "setup", "stack", "data", "bss"} =>
         s = << >> /\ choice = Unset
    /\ at = "kernel" => Ahead(s)
    /\ at = "wfe" => s = KernelText
    /\ at = "handler" => Reports(s)

Spoken == wire \in Seq(Sent) /\ \E s \in Text : Said(s) /\ Stage(s)

LEMMA UnsetIs ==
  /\ Choice(Unset) /\ Unset.size = None /\ Unset.sector = << >>
  /\ Unset.init = << >> /\ Unset.read = << >>
<1>1. << >> \in Text
  BY NothingIsText
<1> HIDE DEF Text
<1>2. QED
  BY <1>1 DEF Choice, Chosen, Unset

LEMMA KernelTextIs == KernelText = KernelSays(choice) /\ KernelText' = KernelSays(choice')
BY Zenon DEF KernelText, KernelSays

LEMMA GivesWay ==
  ASSUME NEW t \in Seq(Op), t # << >>, NEW x \in Seq(Other), Meant(x) = Means(Head(t))
  PROVE  Meant(x \o Tail(t)) = Meant(t)
<1> HIDE DEF Op, Other
<1>1. x \in Seq(Op)
  BY OthersAre, SeqOfMore
<1>2. Tail(t) \in Seq(Op) /\ Meant(t) = Means(Head(t)) \o Meant(Tail(t))
  BY MeantHead
<1>3. QED
  BY <1>1, <1>2, MeantConcat

(* A write says the character it puts, and otherwise nothing.              *)
LEMMA PutSays ==
  ASSUME todo \in Seq(Op), todo # << >>, Do(Head(todo)), Head(todo)[1] = "put",
         todo' = rest(Head(todo)) \o Tail(todo)
  PROVE  \E c \in Symbol : /\ wire' = wire /\ fifo' = Append(fifo, c)
                           /\ Meant(todo) = <<c>> \o Meant(todo')
<1> HIDE DEF Op
<1>1. Head(todo) \in Op /\ Tail(todo) \in Seq(Op)
      /\ Meant(todo) = Means(Head(todo)) \o Meant(Tail(todo))
  BY MeantHead
<1>2. PICK c \in Symbol : Head(todo) = <<"put", c>>
  BY <1>1, TagsOfOp DEF PutOp
<1>3. wire' = wire /\ fifo' = Append(fifo, c)
  BY <1>2 DEF Do, WriteUart, WriteFunction, WritePull, Put
<1>4. Means(Head(todo)) = Return[c]
  BY <1>2 DEF Means
<1>5. Meant(Tail(todo)) \in Text
  BY <1>1, MeantIsText
<1>6. Meant(todo) = <<c>> \o Meant(todo')
  <2>1. CASE c = "\n"
    <3>1. PICK op : op = <<"put", "\r">>
      OBVIOUS
    <3>2. op \in PutOp
      BY <3>1, ReturnIs DEF PutOp
    <3>3. op \in Op /\ Means(op) = <<"\r">>
      <4>1. Means(op) = Return["\r"]
        BY <3>1 DEF Means
      <4> QED
        BY <3>2, <4>1, ReturnIs, OpsAre
    <3>4. rest(Head(todo)) = <<op>>
      BY <1>2, <2>1, <3>1 DEF rest
    <3>5. Meant(<<op>>) = <<"\r">> /\ <<op>> \in Seq(Op)
      BY <3>3, MeantOne
    <3>6. Meant(todo') = <<"\r">> \o Meant(Tail(todo))
      BY <1>1, <3>4, <3>5, MeantConcat
    <3>7. Return[c] = <<"\n">> \o <<"\r">>
      BY <2>1, ReturnIs, TwoOf
    <3>8. <<"\n">> \in Text /\ <<"\r">> \in Text
      BY ReturnIs, OneSymbol
    <3>9. (<<"\n">> \o <<"\r">>) \o Meant(Tail(todo)) = <<"\n">> \o (<<"\r">> \o Meant(Tail(todo)))
      BY <1>5, <3>8, TextAssociative
    <3> QED
      BY <1>1, <1>4, <2>1, <3>6, <3>7, <3>9
  <2>2. CASE c # "\n"
    <3>1. rest(Head(todo)) = << >>
      BY <1>2, <2>2 DEF rest
    <3>2. todo' = Tail(todo)
      BY <1>1, <3>1, ConcatEmptySeq
    <3> QED
      BY <1>1, <1>4, <2>2, <3>2, ReturnIs
  <2> QED
    BY <2>1, <2>2
<1>7. QED
  BY <1>3, <1>6

LEMMA RegisterSays ==
  ASSUME todo \in Seq(Op), todo # << >>, Do(Head(todo)), Head(todo)[1] # "put",
         todo' = rest(Head(todo)) \o Tail(todo)
  PROVE  /\ wire' = wire /\ (fifo' = fifo \/ (fifo' = << >> /\ Head(todo)[1] = "mu"))
         /\ Meant(todo') = Meant(todo)
         /\ Head(todo)[1] \in {"mu", "fsel", "gppud", "clock"}
<1> HIDE DEF Op
<1>1. Head(todo) \in Op /\ Tail(todo) \in Seq(Op)
      /\ Meant(todo) = Means(Head(todo)) \o Meant(Tail(todo))
  BY MeantHead
<1>2. /\ wire' = wire /\ (fifo' = fifo \/ (fifo' = << >> /\ Head(todo)[1] = "mu"))
      /\ Head(todo)[1] \in {"mu", "fsel", "gppud", "clock"}
  BY DEF Do, WriteUart, WriteFunction, WritePull, Put
<1>3. Means(Head(todo)) = << >>
  BY <1>2 DEF Means
<1>4. rest(Head(todo)) = << >>
  BY RestIs
<1>5. todo' = Tail(todo)
  BY <1>1, <1>4, ConcatEmptySeq
<1>6. Meant(Tail(todo)) \in Text
  BY <1>1, MeantIsText
<1>7. QED
  BY <1>1, <1>2, <1>3, <1>5, <1>6, NothingIsText

LEMMA RestDecidesNothing ==
  ASSUME NEW op
  PROVE  rest(op) \in Seq(Other)
<1>1. rest(op) \in Seq(PutOp)
  BY RestIs
<1> HIDE DEF Other, PutOp
<1>2. QED
  BY <1>1, SeqOfMore, OthersAre

-----------------------------------------------------------------------------
(* The character that is put moves from what is left to what was said.     *)
LEMMA SaysAfter ==
  ASSUME NEW s \in Text, NEW c \in Symbol, NEW m \in Text
  PROVE  /\ s \o <<c>> \in Text
         /\ (s \o <<c>>) \o m = s \o (<<c>> \o m)
<1>1. <<c>> \in Text
  BY OneSymbol
<1>2. QED
  BY <1>1, TextConcat, TextAssociative

LEMMA KernelWriteSays ==
  ASSUME Lines, Program, at = "kernel", Write,
         wire \in Seq(Sent), NEW s \in Text, Said(s), Stage(s)
  PROVE  wire' \in Seq(Sent) /\ \E r \in Text : Said(r)' /\ Stage(r)'
<1> HIDE DEF Op, Other, Symbol, Sent
<1>1. /\ todo # << >> /\ todo \in Seq(Op) /\ Do(Head(todo))
      /\ todo' = rest(Head(todo)) \o Tail(todo)
      /\ at' = "kernel" /\ choice' = choice /\ KernelText' = KernelText
  <2>1. choice' = choice /\ at' = at
    BY DEF Write, coreVars
  <2>2. KernelText' = KernelText
    BY <2>1, KernelTextIs
  <2> QED
    BY <2>1, <2>2 DEF Write, Running, Program
<1>2. Ahead(s) /\ Choice(choice) /\ fifo \in Seq(Sent)
  BY DEF Stage, Lines
<1>3. Undecided(todo', choice')
  <2>1. Undecided(rest(Head(todo)) \o Tail(todo), choice)
    BY <1>1, <1>2, RestDecidesNothing, StillUndecided DEF Ahead
  <2> QED
    BY <1>1, <2>1
<1>4. ASSUME NEW r \in Text, r \o Meant(todo') = KernelText, r = << >> \/ Position(16)'
      PROVE  Stage(r)'
  BY <1>1, <1>2, <1>3, <1>4 DEF Stage, Ahead, Meant, Meaning
<1>5. todo' \in Seq(Op)
  <2>1. Program'
    BY WriteStep
  <2> QED
    BY <2>1 DEF Program
<1>6. CASE Head(todo)[1] = "put"
  <2>1. PICK c \in Symbol : /\ wire' = wire /\ fifo' = Append(fifo, c)
                            /\ Meant(todo) = <<c>> \o Meant(todo')
    BY <1>1, <1>6, PutSays
  <2>2. Meant(todo') \in Text
    BY <1>5, MeantIsText
  <2>3. Position(16)'
    <3>1. PICK n \in 0 .. 16 : Position(n)
      BY DEF Program
    <3>2. n = 16
      BY <1>1, <1>6, <3>1, AfterInit
    <3> QED
      BY <1>1, <3>1, <3>2, LaterWrite
  <2>4. (s \o <<c>>) \o Meant(todo') = KernelText
    <3>1. PICK m \in Text : m = Meant(todo')
      BY <2>2
    <3>2. (s \o <<c>>) \o m = s \o (<<c>> \o m)
      BY SaysAfter
    <3>3. s \o Meant(todo) = KernelText
      BY <1>2 DEF Ahead
    <3> QED
      BY <2>1, <3>1, <3>2, <3>3
  <2>5. Said(s \o <<c>>)' /\ s \o <<c>> \in Text
    BY <1>2, <2>1, SaidMore
  <2>6. Stage(s \o <<c>>)'
    BY <1>4, <2>3, <2>4, <2>5
  <2> QED
    BY <2>1, <2>5, <2>6
<1>7. CASE Head(todo)[1] # "put"
  <2>1. /\ wire' = wire /\ (fifo' = fifo \/ (fifo' = << >> /\ Head(todo)[1] = "mu"))
        /\ Meant(todo') = Meant(todo)
    BY <1>1, <1>7, RegisterSays
  <2>2. CASE Position(16)
    <3>1. Position(16)' /\ Head(todo) \in LaterOp
      BY <1>1, <2>2, LaterWrite, LaterHead
    <3>2. fifo' = fifo
      BY <2>1, <3>1, Tags
    <3>3. Said(s)'
      BY <2>1, <3>2, SaidStill
    <3>4. Stage(s)'
      BY <1>2, <1>4, <2>1, <3>1 DEF Ahead
    <3> QED
      BY <2>1, <3>3, <3>4
  <2>3. CASE ~Position(16)
    <3>1. s = << >>
      BY <1>2, <2>3 DEF Ahead
    <3>2. Said(s)'
      <4>1. CASE fifo' = fifo
        BY <2>1, <4>1, SaidStill
      <4>2. CASE fifo' = << >>
        <5>1. Said(<< >>)'
          BY <1>2, <2>1, <3>1, <4>2, SaidNothing
        <5> QED
          BY <3>1, <5>1
      <4> QED
        BY <2>1, <4>1, <4>2
    <3>3. Stage(s)'
      BY <1>2, <1>4, <2>1, <3>1 DEF Ahead
    <3> QED
      BY <2>1, <3>2, <3>3
  <2> QED
    BY <2>2, <2>3
<1>8. QED
  BY <1>6, <1>7

LEMMA HandlerWriteSays ==
  ASSUME Lines, Program, at = "handler", Write,
         wire \in Seq(Sent), NEW s \in Text, Said(s), Stage(s)
  PROVE  wire' \in Seq(Sent) /\ \E r \in Text : Said(r)' /\ Stage(r)'
<1> HIDE DEF Op, Other, Symbol, Sent
<1>1. /\ todo # << >> /\ todo \in Seq(Op) /\ Do(Head(todo))
      /\ todo' = rest(Head(todo)) \o Tail(todo)
      /\ at' = "handler" /\ choice' = choice /\ KernelText' = KernelText /\ fault' = fault
  <2>1. choice' = choice /\ at' = at
    BY DEF Write, coreVars
  <2>2. KernelText' = KernelText
    BY <2>1, KernelTextIs
  <2> QED
    BY <2>1, <2>2 DEF Write, Running, Program
<1>2. Reports(s) /\ Choice(choice) /\ fifo \in Seq(Sent)
  BY DEF Stage, Lines
<1>3. Head(todo)[1] = "put"
  <2>1. Head(todo)[1] \in {"put", "number"}
    BY <1>1, HandlerHead
  <2> QED
    BY <1>1, <2>1 DEF Do, WriteUart, WriteFunction, WritePull, Put
<1>4. PICK c \in Symbol : /\ wire' = wire /\ fifo' = Append(fifo, c)
                          /\ Meant(todo) = <<c>> \o Meant(todo')
  BY <1>1, <1>3, PutSays
<1>5. Meant(todo') \in Text
  <2>1. Program'
    BY WriteStep
  <2> QED
    BY <2>1, MeantIsText DEF Program, Meant, Meaning
<1>6. PICK a \in Text, b \in Text : /\ s = a \o b /\ Begins(a, KernelText)
                                    /\ b \o Meant(todo) = ReportText(fault)
  BY <1>2 DEF Reports
<1>7. b \o <<c>> \in Text /\ (b \o <<c>>) \o Meant(todo') = ReportText(fault)
  <2>1. PICK m \in Text : m = Meant(todo')
    BY <1>5
  <2>2. (b \o <<c>>) \o m = b \o (<<c>> \o m) /\ b \o <<c>> \in Text
    BY SaysAfter
  <2> QED
    BY <1>4, <1>6, <2>1, <2>2
<1>8. s \o <<c>> = a \o (b \o <<c>>)
  BY <1>6, OneSymbol, TextAssociative
<1>9. Said(s \o <<c>>)' /\ s \o <<c>> \in Text
  BY <1>2, <1>4, SaidMore
<1>10. Reports(s \o <<c>>)'
  <2>1. ReportText(fault') = ReportText(fault)
    BY <1>1
  <2>2. Begins(a, KernelText')
    BY <1>1, <1>6
  <2>3. (b \o <<c>>) \o Meant(todo') = ReportText(fault')
    BY <1>7, <2>1
  <2> QED
    BY <1>6, <1>7, <1>8, <2>2, <2>3 DEF Reports, Begins, Meant, Meaning
<1>11. Stage(s \o <<c>>)'
  BY <1>1, <1>2, <1>10 DEF Stage
<1>12. QED
  BY <1>4, <1>9, <1>11

-----------------------------------------------------------------------------
(* The operations that become others: the text they stand for is the same. *)
LEMMA CancelRight ==
  \A x, y, z \in Text : x \o z = y \o z => x = y
<1> HIDE DEF Symbol
<1>1. QED
  BY ConcatSimplifications DEF Text

LEMMA HandlerNumberSays ==
  ASSUME Program, at = "handler", WriteNumber, NEW s \in Text, Stage(s)
  PROVE  Stage(s)'
<1> HIDE DEF Op, Other, Symbol
<1>1. /\ todo # << >> /\ todo \in Seq(Op) /\ Head(todo)[1] = "number"
      /\ todo' = write(itos(Head(todo)[2], 16, HalfDigits)) \o Tail(todo)
      /\ at' \in {"handler", "lost"} /\ choice' = choice /\ KernelText' = KernelText
      /\ fault' = fault
  <2>1. choice' = choice /\ at' \in {at, "lost"}
    BY DEF WriteNumber, Lost, coreVars
  <2>2. KernelText' = KernelText
    BY <2>1, KernelTextIs
  <2> QED
    BY <2>1, <2>2 DEF WriteNumber, Running, Program
<1>2. PICK d \in Text : d = itos(Head(todo)[2], 16, HalfDigits)
  <2>1. Head(todo)[2] \in 0 .. Word - 1 /\ HalfDigits \in Nat
    BY <1>1, HandlerHead, StartupAssumption DEF StartupAssumption
  <2> QED
    BY <2>1, ItosIsText DEF Bases
<1>3. Meant(write(d)) = Means(Head(todo)) /\ write(d) \in Seq(Other)
  <2>1. Means(Head(todo)) = Returned(d)
    BY <1>1, <1>2 DEF Means
  <2> QED
    BY <2>1, WriteMeans, WriteDecidesNothing
<1>4. Meant(todo') = Meant(todo)
  <2>1. Meant(write(d) \o Tail(todo)) = Meant(todo)
    BY <1>1, <1>3, GivesWay
  <2> QED
    BY <1>1, <1>2, <2>1
<1>5. Reports(s) /\ Choice(choice)
  BY DEF Stage
<1>6. Reports(s)'
  <2>1. PICK a \in Text, b \in Text : /\ s = a \o b /\ Begins(a, KernelText)
                                      /\ b \o Meant(todo) = ReportText(fault)
    BY <1>5 DEF Reports
  <2>2. Begins(a, KernelText') /\ b \o Meant(todo') = ReportText(fault')
    BY <1>1, <1>4, <2>1
  <2> QED
    BY <2>1, <2>2 DEF Reports, Begins, Meant, Meaning
<1>7. QED
  BY <1>1, <1>5, <1>6 DEF Stage

LEMMA KernelGoesOn ==
  ASSUME at' = "kernel", Choice(choice'), NEW s, s \o Meant(todo') = KernelText',
         Position(16)', Undecided(todo', choice')
  PROVE  Stage(s)'
BY DEF Stage, Ahead, Meant, Meaning

LEMMA ExpandSays ==
  ASSUME todo \in Seq(Op), todo # << >>, at' = "kernel", choice' = choice, Position(16)',
         NEW s \in Text, Choice(choice), Ahead(s),
         NEW x \in Seq(Other), Meant(x) = Means(Head(todo)), todo' = x \o Tail(todo)
  PROVE  Stage(s)'
<1> HIDE DEF Op, Other
<1>1. Meant(todo') = Meant(todo)
  BY GivesWay
<1>2. Undecided(todo', choice')
  <2>1. Undecided(x \o Tail(todo), choice)
    BY StillUndecided DEF Ahead
  <2> QED
    BY <2>1
<1>3. s \o Meant(todo') = KernelText'
  <2>1. KernelText' = KernelText
    BY KernelTextIs
  <2> QED
    BY <1>1, <2>1 DEF Ahead
<1>4. QED
  BY <1>2, <1>3, KernelGoesOn

(* The calls for the card and for a sector are the last of the program.    *)
LEMMA LastCall ==
  ASSUME todo \in Seq(Op), todo # << >>, Undecided(todo, choice), Head(todo) \in Deciding
  PROVE  Meant(todo) = Means(Head(todo)) /\ Blank(Head(todo), choice)
<1> HIDE DEF Op, Deciding
<1>1. Len(todo) \in Nat \ {0} /\ Head(todo) = todo[1]
  BY HeadIs
<1>2. 1 = Len(todo) /\ Blank(Head(todo), choice)
  <2>1. 1 \in 1 .. Len(todo)
    BY <1>1
  <2> QED
    BY <1>1, <2>1 DEF Undecided
<1>3. Head(todo) \in Op /\ Tail(todo) \in Seq(Op)
      /\ Meant(todo) = Means(Head(todo)) \o Meant(Tail(todo))
  BY MeantHead
<1>4. Tail(todo) = << >>
  <2>1. Len(Tail(todo)) = 0
    BY <1>2, HeadTailProperties
  <2> QED
    BY <1>3, <2>1, EmptySeq
<1>5. Means(Head(todo)) \in Text
  BY <1>3, MeansIs
<1>6. QED
  BY <1>2, <1>3, <1>4, <1>5, MeantOne, NothingIsText

-----------------------------------------------------------------------------
(* The calls: what they decide is what the kernel then says.               *)
Opening == Returned(Greeting \o GpioSetUp)

LEMMA OpeningIs ==
  ASSUME NEW c, Choice(c)
  PROVE  /\ Opening \in Text /\ Returned(Card(c)) \in Text
         /\ KernelSays(c) = (Opening \o Returned(Card(c))) \o Returned(c.read \o Rows(c))
<1>1. Greeting \o GpioSetUp \in Text /\ Card(c) \in Text
  BY Texts, TextConcat, KernelSaysIs
<1>2. Opening \in Text /\ Returned(Card(c)) \in Text
  BY <1>1, ReturnedIs DEF Opening
<1>3. Returned((Greeting \o GpioSetUp) \o Card(c)) = Opening \o Returned(Card(c))
  BY <1>1, ReturnedConcat DEF Opening
<1>4. QED
  BY <1>2, <1>3, KernelSaysIs

(* Before the call for a sector there are neither prints nor rows of it.   *)
LEMMA NoRows ==
  ASSUME NEW c, Choice(c), c.sector = << >>, c.read = << >>
  PROVE  KernelSays(c) = Opening \o Returned(Card(c))
<1>1. Returned(c.read \o Rows(c)) = << >>
  <2>1. c.read \o Rows(c) = << >>
    BY RowsAre, NothingIsText
  <2>2. Returned(<< >>) = << >>
    BY ReturnIs, ReturnedOne
  <2> QED
    BY <2>1, <2>2
<1>2. Opening \in Text /\ Returned(Card(c)) \in Text
  BY OpeningIs
<1>3. Opening \o Returned(Card(c)) \in Text
  BY <1>2, TextConcat
<1>4. QED
  BY <1>1, <1>3, OpeningIs, NothingIsText

(* Before the call for the card there is only the text of its failure.     *)
LEMMA NoCard ==
  ASSUME NEW c, Choice(c), c.sector = << >>, c.read = << >>, c.init = << >>, c.size = None
  PROVE  KernelSays(c) = Opening \o Returned(FailedText)
<1>1. Card(c) = << >> \o FailedText
  BY DEF Card, Outcome
<1>2. << >> \o FailedText = FailedText
  BY Texts, NothingIsText
<1>3. QED
  BY <1>1, <1>2, NoRows

LEMMA OutcomeMeans ==
  ASSUME NEW size \in Sizes \cup {None}, NEW c, c.size = size, c.sector = << >>, c.read = << >>
  PROVE  Tells(outcome(size), Outcome(c)) /\ Undecided(outcome(size), c)
<1>1. CASE size = None
  <2>1. outcome(size) = write(FailedText) /\ Outcome(c) = FailedText
    BY <1>1 DEF outcome, Outcome
  <2> QED
    BY <2>1, Texts, TellsWrite, WriteDecidesNothing, OthersUndecided
<1>2. CASE size # None
  <2>1. outcome(size) = size_of_card(size) /\ Outcome(c) = format(SizeFormat, <<size>>)
    BY <1>2 DEF outcome, Outcome
  <2> QED
    BY <1>2, <2>1, SizeMeans, SizeUndecided
<1>3. QED
  BY <1>1, <1>2

LEMMA RestartMeans ==
  ASSUME NEW again \in Text
  PROVE  Tells(restart(again), GpioSetUp \o again) /\ restart(again) \in Seq(Other)
<1>1. GpioSetUp \o again \in Text
  BY Texts, TextConcat
<1>2. Tells(write(GpioSetUp \o again), GpioSetUp \o again)
  BY <1>1, TellsWrite
<1>3. Tells(pins_of_card \o write(GpioSetUp \o again), << >> \o (GpioSetUp \o again))
  BY <1>2, PinsMean, TellsBoth
<1>4. << >> \o (GpioSetUp \o again) = GpioSetUp \o again
  BY <1>1, NothingIsText
<1>5. write(GpioSetUp \o again) \in Seq(Other)
  BY <1>1, WriteDecidesNothing
<1> HIDE DEF Other
<1>6. pins_of_card \o write(GpioSetUp \o again) \in Seq(Other)
  BY <1>5, PinsDecideNothing, Joined
<1>7. QED
  BY <1>3, <1>4, <1>6 DEF restart

(* What the card prints and its outcome, with a restart or without.        *)
LEMMA InitCardTells ==
  ASSUME InitCard
  PROVE  \E i \in Text, size \in Sizes \cup {None} :
           /\ choice' = [choice EXCEPT !.init = i, !.size = size]
           /\ \E x \in Seq(Other) : todo' = x \o outcome(size) /\ Tells(x, i)
<1> HIDE DEF Other
<1>1. PICK print \in Prints, size \in Sizes \cup {None} :
         \/ /\ choice' = [choice EXCEPT !.init = print, !.size = size]
            /\ todo' = write(print) \o outcome(size)
         \/ \E again \in Prints :
              /\ choice' = [choice EXCEPT !.init = print \o GpioSetUp \o again, !.size = size]
              /\ todo' = write(print) \o restart(again) \o outcome(size)
  BY Zenon DEF InitCard
<1>2. print \in Text
  BY PrintsAreText
<1>3. write(print) \in Seq(Other) /\ Tells(write(print), print)
  BY <1>2, WriteDecidesNothing, TellsWrite
<1>4. CASE /\ choice' = [choice EXCEPT !.init = print, !.size = size]
           /\ todo' = write(print) \o outcome(size)
  <2> HIDE DEF Text
  <2> QED
    BY <1>2, <1>3, <1>4, Zenon
<1>5. ASSUME NEW again \in Prints,
             choice' = [choice EXCEPT !.init = print \o GpioSetUp \o again, !.size = size],
             todo' = write(print) \o restart(again) \o outcome(size)
      PROVE  \E i \in Text : /\ choice' = [choice EXCEPT !.init = i, !.size = size]
                             /\ \E x \in Seq(Other) : todo' = x \o outcome(size) /\ Tells(x, i)
  <2>1. again \in Text
    BY PrintsAreText
  <2>2. Tells(restart(again), GpioSetUp \o again) /\ restart(again) \in Seq(Other)
    BY <2>1, RestartMeans
  <2>3. Tells(write(print) \o restart(again), print \o (GpioSetUp \o again))
    BY <1>3, <2>2, TellsBoth
  <2>4. PICK i \in Text : i = (print \o GpioSetUp) \o again
    BY <1>2, <2>1, Texts, TextConcat
  <2>5. i = print \o (GpioSetUp \o again)
    BY <1>2, <2>1, <2>4, Texts, TextAssociative
  <2>6. PICK x \in Seq(Other) : x = write(print) \o restart(again)
    BY <1>3, <2>2, Joined
  <2>7. Tells(x, i)
    BY <2>3, <2>5, <2>6
  <2>8. todo' = x \o outcome(size) /\ choice' = [choice EXCEPT !.init = i, !.size = size]
    BY <1>5, <2>4, <2>6
  <2> HIDE DEF Text
  <2> QED
    BY <2>7, <2>8, Zenon
<1>6. QED
  BY <1>1, <1>4, <1>5, Zenon

LEMMA CardSays ==
  ASSUME todo \in Seq(Op), todo # << >>, InitCard, at' = "kernel", Position(16)',
         NEW s \in Text, Choice(choice), Ahead(s)
  PROVE  Stage(s)'
<1> HIDE DEF Op, Other, Symbol
<1>1. Head(todo)[1] = "call" /\ Head(todo)[2] = "sd"
  BY DEF InitCard, Call
<1>2. Head(todo) = <<"call", "sd">>
  <2>1. Head(todo) \in LaterOp
    BY <1>1, MeantHead, TagsOfOp
  <2> QED
    BY <1>1, <2>1 DEF LaterOp, PlainOp, PutOp, ClockOp
<1>3. /\ Meant(todo) = Means(Head(todo)) /\ choice.sector = << >> /\ choice.read = << >>
      /\ choice.size = None /\ choice.init = << >>
  <2>1. Head(todo) \in Deciding
    BY <1>2 DEF Deciding
  <2> QED
    BY <1>2, <2>1, LastCall DEF Ahead, Blank
<1>4. s \o Returned(FailedText) = KernelText
  BY <1>2, <1>3 DEF Means, Ahead
<1>5. PICK i \in Text, size \in Sizes \cup {None} :
         /\ choice' = [choice EXCEPT !.init = i, !.size = size]
         /\ \E x \in Seq(Other) : todo' = x \o outcome(size) /\ Tells(x, i)
  BY InitCardTells
<1>6. PICK x \in Seq(Other) : todo' = x \o outcome(size) /\ Tells(x, i)
  BY <1>5
<1>7. PICK c : c = [choice EXCEPT !.init = i, !.size = size]
  OBVIOUS
<1>8. /\ Choice(c) /\ c.size = size /\ c.init = i /\ c.sector = << >> /\ c.read = << >>
  <2> HIDE DEF Text
  <2>1. choice \in Chosen
    BY DEF Choice
  <2>2. /\ c \in Chosen /\ c.size = size /\ c.init = i
        /\ c.sector = choice.sector /\ c.read = choice.read
    BY <1>7, <2>1 DEF Chosen
  <2> QED
    BY <1>3, <2>2 DEF Choice
<1>9. s = Opening
  <2>1. Opening \in Text /\ Returned(FailedText) \in Text
    BY OpeningIs, Texts, ReturnedIs
  <2>2. KernelText = Opening \o Returned(FailedText)
    BY <1>3, NoCard, KernelTextIs
  <2>3. PICK y \in Text, z \in Text : y = Opening /\ z = Returned(FailedText)
    BY <2>1
  <2>4. s \o z = y \o z => s = y
    BY CancelRight
  <2> QED
    BY <1>4, <2>2, <2>3, <2>4
<1>10. Tells(outcome(size), Outcome(c)) /\ Undecided(outcome(size), c)
  BY <1>8, OutcomeMeans
<1>11. s \o Meant(todo') = KernelText'
  <2>1. Tells(x \o outcome(size), i \o Outcome(c))
    BY <1>6, <1>10, TellsBoth
  <2>2. Meant(todo') = Returned(Card(c))
    BY <1>6, <1>8, <2>1 DEF Tells, Card
  <2>3. KernelSays(c) = Opening \o Returned(Card(c))
    BY <1>8, NoRows
  <2>4. KernelText' = KernelSays(c)
    BY <1>5, <1>7, KernelTextIs
  <2> QED
    BY <1>9, <2>2, <2>3, <2>4
<1>12. Undecided(todo', choice') /\ Choice(choice')
  <2>1. outcome(size) \in Seq(Op)
    BY <1>10 DEF Tells
  <2>2. Undecided(x \o outcome(size), c)
    BY <1>10, <2>1, OthersThen
  <2> QED
    BY <1>5, <1>6, <1>7, <1>8, <2>2
<1>13. QED
  BY <1>11, <1>12, KernelGoesOn

LEMMA SectorSays ==
  ASSUME todo \in Seq(Op), todo # << >>, ReadSector, at' \in {"kernel", "lost"}, Position(16)',
         NEW s \in Text, Choice(choice), Ahead(s)
  PROVE  Stage(s)'
<1> HIDE DEF Op, Other, Symbol
<1>1. Head(todo)[1] = "call" /\ Head(todo)[2] = "read"
  BY DEF ReadSector, Call
<1>2. Head(todo) = <<"call", "read">>
  <2>1. Head(todo) \in LaterOp
    BY <1>1, MeantHead, TagsOfOp
  <2> QED
    BY <1>1, <2>1 DEF LaterOp, PlainOp, PutOp, ClockOp
<1>3. Meant(todo) = Means(Head(todo)) /\ choice.sector = << >> /\ choice.read = << >>
  <2>1. Head(todo) \in Deciding
    BY <1>2 DEF Deciding
  <2> QED
    BY <2>1, LastCall DEF Ahead, Blank
<1>4. Meant(todo) = << >>
  BY <1>3, <1>2, SilentOps DEF Silent
<1>5. s = KernelText
  BY <1>4, NothingIsText DEF Ahead
<1>6. PICK print \in Prints, buf \in Sectors :
         /\ choice' = [choice EXCEPT !.read = print, !.sector = buf]
         /\ todo' = write(print) \o dump(buf)
  BY DEF ReadSector
<1>7. PICK c : c = [choice EXCEPT !.read = print, !.sector = buf]
  OBVIOUS
<1>8. /\ Choice(c) /\ c.size = choice.size /\ c.init = choice.init
      /\ c.read = print /\ c.sector = buf
  <2>1. print \in Text
    BY PrintsAreText
  <2> HIDE DEF Text
  <2>2. choice \in Chosen
    BY DEF Choice
  <2>3. /\ c \in Chosen /\ c.size = choice.size /\ c.init = choice.init
        /\ c.read = print /\ c.sector = buf
    BY <1>7, <2>1, <2>2 DEF Chosen
  <2> QED
    BY <2>3 DEF Choice
<1>9. CASE at' = "lost"
  BY <1>6, <1>7, <1>8, <1>9 DEF Stage
<1>10. s = Opening \o Returned(Card(choice)) /\ Card(c) = Card(choice)
  <2>1. KernelSays(choice) = Opening \o Returned(Card(choice))
    BY <1>3, NoRows
  <2>2. Card(c) = Card(choice)
    BY <1>8 DEF Card, Outcome
  <2> QED
    BY <1>5, <2>1, <2>2, KernelTextIs
<1>11. s \o Meant(todo') = KernelText'
  <2>1. Tells(write(print), print) /\ Tells(dump(buf), RowsOf(buf))
    BY PrintsAreText, TellsWrite, DumpMeans
  <2>2. Tells(write(print) \o dump(buf), print \o RowsOf(buf))
    BY <2>1, TellsBoth
  <2>3. Meant(todo') = Returned(c.read \o Rows(c))
    BY <1>6, <1>8, <2>2 DEF Tells, Rows
  <2>4. KernelSays(c) = (Opening \o Returned(Card(c))) \o Returned(c.read \o Rows(c))
    BY <1>8, OpeningIs
  <2>5. KernelText' = KernelSays(c)
    BY <1>6, <1>7, KernelTextIs
  <2> QED
    BY <1>10, <2>3, <2>4, <2>5
<1>12. Undecided(todo', choice') /\ Choice(choice')
  <2>1. write(print) \in Seq(Other) /\ dump(buf) \in Seq(Other)
    BY PrintsAreText, WriteDecidesNothing, DumpDecidesNothing
  <2>2. write(print) \o dump(buf) \in Seq(Other)
    BY <2>1, Joined
  <2>3. Undecided(write(print) \o dump(buf), c)
    BY <2>2, OthersUndecided
  <2> QED
    BY <1>6, <1>7, <1>8, <2>3
<1>13. CASE at' = "kernel"
  BY <1>11, <1>12, <1>13, KernelGoesOn
<1>14. QED
  BY <1>9, <1>13

-----------------------------------------------------------------------------
(* The other steps of kernel_main.                                         *)
LEMMA ByteIs ==
  ASSUME NEW op \in LaterOp, op[1] = "byte"
  PROVE  op[2] \in Nat /\ op[3] \in 0 .. 255
BY DEF LaterOp, PlainOp, PutOp, ClockOp

LEMMA KernelExpandSays ==
  ASSUME Program, at = "kernel", Next, at' \in {at, "lost"}, UNCHANGED uartVars,
         ~Write, ~Sends, ~(\E c \in Cores : Enter(c)), ~Fault,
         NEW s \in Text, Stage(s)
  PROVE  Stage(s)'
<1> HIDE DEF Op, Other, Symbol
<1>1. todo' \in Seq(Op) /\ Position(16)'
  BY KernelExpands
<1>2. Ahead(s) /\ Choice(choice) /\ todo \in Seq(Op) /\ at' \in {"kernel", "lost"}
  BY DEF Stage, Program
<1>3. PICK n \in 0 .. 16 : Position(n)
  BY DEF Program
<1>4. ASSUME Running, Head(todo)[1] \in {"format", "pin", "byte", "call", "number"}
      PROVE  todo # << >> /\ Head(todo) \in LaterOp
  <2>1. todo # << >>
    BY <1>4 DEF Running
  <2>2. n = 16
    BY <1>2, <1>3, <1>4, <2>1, AfterInit
  <2>3. Head(todo) \in LaterOp
    BY <1>2, <1>3, <2>1, <2>2, LaterHead
  <2> QED
    BY <2>1, <2>3
<1>5. ASSUME NEW x \in Seq(Other), Meant(x) = Means(Head(todo)), todo' = x \o Tail(todo),
             todo # << >>, choice' = choice
      PROVE  Stage(s)'
  <2>1. CASE at' = "kernel"
    BY <1>1, <1>2, <1>5, <2>1, ExpandSays
  <2>2. CASE at' = "lost"
    BY <1>2, <1>5, <2>2 DEF Stage
  <2> QED
    BY <1>2, <2>1, <2>2
<1>6. CASE WriteNumber
  <2>1. Running /\ Head(todo)[1] = "number"
    BY <1>6 DEF WriteNumber
  <2>2. Head(todo) \in LaterOp
    BY <1>4, <2>1
  <2> QED
    BY <2>1, <2>2, Tags
<1>7. CASE WriteFormat
  <2> DEFINE f == format(Head(todo)[2], Head(todo)[3])
  <2>1. Running /\ Head(todo)[1] = "format" /\ todo' = write(f) \o Tail(todo)
        /\ choice' = choice
    BY <1>7 DEF WriteFormat
  <2>2. todo # << >> /\ f \in Text
    BY <1>4, <2>1, FormatIs
  <2>3. Means(Head(todo)) = Returned(f)
    BY <2>1 DEF Means
  <2> HIDE DEF f
  <2>4. write(f) \in Seq(Other) /\ Meant(write(f)) = Returned(f)
    BY <2>2, WriteMeans, WriteDecidesNothing
  <2> QED
    BY <1>5, <2>1, <2>2, <2>3, <2>4
<1>8. CASE SetUpPin
  <2>1. Running /\ Head(todo)[1] = "pin" /\ todo' = pin_of_card(Head(todo)[2]) \o Tail(todo)
        /\ choice' = choice
    BY <1>8 DEF SetUpPin
  <2>2. todo # << >> /\ Head(todo) \in LaterOp
    BY <1>4, <2>1
  <2>3. PICK p \in 48 .. 53 : p = Head(todo)[2]
    BY <2>1, <2>2 DEF LaterOp, PlainOp, PutOp, ClockOp
  <2>4. Meant(pin_of_card(p)) = << >>
    <3>1. Tells(pin_of_card(p), << >>)
      BY PinMeans
    <3>2. Returned(<< >>) = << >>
      BY ReturnIs, ReturnedOne
    <3> QED
      BY <3>1, <3>2 DEF Tells
  <2>5. Means(Head(todo)) = << >>
    BY <2>1 DEF Means
  <2>6. pin_of_card(p) \in Seq(Other)
    BY PinDecidesNothing
  <2> QED
    BY <1>5, <2>1, <2>2, <2>3, <2>4, <2>5, <2>6
<1>9. CASE DumpByte
  <2>1. Running /\ Head(todo)[1] = "byte" /\ choice' = choice
        /\ todo' = dump_byte(Head(todo)[2], Head(todo)[3]) \o Tail(todo)
    BY <1>9 DEF DumpByte
  <2>2. todo # << >> /\ Head(todo) \in LaterOp
    BY <1>4, <2>1
  <2>3. PICK i \in Nat, byte \in 0 .. 255 : i = Head(todo)[2] /\ byte = Head(todo)[3]
    <3>1. Head(todo)[2] \in Nat /\ Head(todo)[3] \in 0 .. 255
      BY <2>1, <2>2, ByteIs
    <3> QED
      BY <3>1
  <2>4. Meant(dump_byte(i, byte)) = Returned(Row(i, byte))
    BY DumpByteMeans DEF Tells
  <2>5. Means(Head(todo)) = Returned(Row(i, byte))
    BY <2>1, <2>3 DEF Means
  <2>6. dump_byte(i, byte) \in Seq(Other)
    BY DumpByteDecidesNothing
  <2> QED
    BY <1>5, <2>1, <2>2, <2>3, <2>4, <2>5, <2>6
<1>10. CASE Framebuffer
  <2>1. Running /\ Head(todo)[1] = "call" /\ Head(todo)[2] = "framebuffer"
        /\ todo' = Tail(todo) /\ choice' = choice
    BY <1>10 DEF Framebuffer, Call
  <2>2. todo # << >>
    BY <2>1 DEF Running
  <2>3. todo' = << >> \o Tail(todo)
    BY <1>2, <2>1, <2>2, HeadTailProperties, ConcatEmptySeq
  <2>4. Means(Head(todo)) = << >>
    BY <2>1 DEF Means
  <2>5. << >> \in Seq(Other)
    OBVIOUS
  <2> QED
    BY <1>5, <2>2, <2>3, <2>4, <2>5, <2>1, MeantOne
<1>11. CASE InitCard
  <2>1. todo # << >> /\ at' = "kernel"
    BY <1>11 DEF InitCard, Call, Running, coreVars
  <2> QED
    BY <1>1, <1>2, <1>11, <2>1, CardSays
<1>12. CASE ReadSector
  <2>1. todo # << >>
    BY <1>12 DEF ReadSector, Call, Running
  <2> QED
    BY <1>1, <1>2, <1>12, <2>1, SectorSays
<1>13. \/ WriteNumber \/ WriteFormat \/ SetUpPin \/ DumpByte
       \/ Framebuffer \/ InitCard \/ ReadSector
  <2>1. ~Enter(0) /\ ~(\E c \in Cores \ {0} : Enter(c))
    BY StartupAssumption DEF StartupAssumption
  <2>2. ~ReadLevel /\ ~SetUpEl2 /\ ~CopyData /\ ~ZeroBss /\ ~KernelReturns
        /\ ~SecondFault
    BY DEF ReadLevel, SetUpEl2, CopyData, ZeroBss, KernelReturns, SecondFault
  <2> QED
    BY <2>1, <2>2 DEF Next, Core0
<1>14. QED
  BY <1>6, <1>7, <1>8, <1>9, <1>10, <1>11, <1>12, <1>13

LEMMA ReturnSays ==
  ASSUME KernelReturns, NEW s \in Text, Stage(s)
  PROVE  Stage(s)'
<1>1. at = "kernel" /\ todo = << >> /\ at' = "wfe" /\ choice' = choice
  BY DEF KernelReturns
<1>2. s = KernelText /\ Choice(choice)
  BY <1>1, MeantOne, NothingIsText DEF Stage, Ahead
<1>3. KernelText' = KernelText
  BY <1>1, KernelTextIs
<1>4. QED
  BY <1>1, <1>2, <1>3 DEF Stage

-----------------------------------------------------------------------------
(* The steps before kernel_main, and the exceptions.                       *)
LEMMA StageKept ==
  ASSUME UNCHANGED <<todo, at, fault, choice, mu, fsel, gppud, pull>>, NEW s, Stage(s)
  PROVE  Stage(s)'
<1>1. \A n : Done(n)' <=> Done(n)
  BY DoneKept
<1>2. Position(16)' <=> Position(16)
  BY <1>1 DEF Position
<1>3. KernelText' = KernelText
  BY KernelTextIs
<1>4. Ahead(s) => Ahead(s)'
  BY <1>2, <1>3 DEF Ahead, Meant, Meaning
<1>5. Reports(s) => Reports(s)'
  BY <1>3 DEF Reports, Begins, Meant, Meaning
<1>6. QED
  BY <1>3, <1>4, <1>5 DEF Stage

LEMMA BootSays ==
  ASSUME NEW s, Stage(s), choice' = choice,
         at \in {"entry", "level", "setup", "stack", "data", "bss"},
         at' \in {"entry", "level", "setup", "stack", "data", "bss", "lost"}
  PROVE  Stage(s)'
BY DEF Stage

LEMMA StartSays ==
  ASSUME ZeroBss, at' = "kernel", NEW s, Stage(s)
  PROVE  Stage(s)'
<1> HIDE DEF Op, Other, Symbol
<1>1. s = << >> /\ choice' = Unset /\ todo' = kernel_main
  BY DEF Stage, ZeroBss
<1>2. Meant(kernel_main) = Returned((Greeting \o GpioSetUp) \o FailedText)
      /\ Meant(kernel_main) \in Text
  BY KernelMainMeans, MeantIsText DEF Tells
<1>3. Meant(kernel_main) = Opening \o Returned(FailedText)
  BY <1>2, Texts, TextConcat, ReturnedConcat DEF Opening
<1>4. KernelSays(Unset) = Opening \o Returned(FailedText)
  BY UnsetIs, NoCard
<1>5. s \o Meant(todo') = KernelText'
  <2>1. KernelText' = KernelSays(Unset)
    BY <1>1, KernelTextIs
  <2> QED
    BY <1>1, <1>2, <1>3, <1>4, <2>1, NothingIsText
<1>6. Undecided(todo', choice') /\ Choice(choice')
  BY <1>1, KernelMainUndecided, UnsetIs
<1>7. QED
  BY <1>1, <1>5, <1>6 DEF Stage, Ahead, Meant, Meaning

LEMMA FaultSays ==
  ASSUME Program, Fault, NEW s \in Text, Stage(s)
  PROVE  Stage(s)'
<1> HIDE DEF Op, Other, Symbol
<1>1. PICK f \in Faults :
         /\ fault' = f /\ todo' = (IF vbar THEN exc_handler(f) ELSE todo)
         /\ at' = IF vbar THEN "handler" ELSE "lost"
  BY DEF Fault
<1>2. at \in {"stack", "data", "bss", "kernel"} /\ choice' = choice /\ Choice(choice)
  BY DEF Fault, Stage
<1>3. CASE ~vbar
  BY <1>1, <1>2, <1>3 DEF Stage
<1>4. CASE vbar
  <2>1. todo' = exc_handler(f) /\ at' = "handler"
    BY <1>1, <1>4
  <2>2. Begins(s, KernelText)
    <3>1. CASE at = "kernel"
      <4>1. s \o Meant(todo) = KernelText
        BY <3>1 DEF Stage, Ahead
      <4>2. Meant(todo) \in Text
        BY MeantIsText DEF Program
      <4> QED
        BY <4>1, <4>2 DEF Begins
    <3>2. CASE at # "kernel"
      <4>1. s = << >>
        BY <1>2, <3>2 DEF Stage
      <4>2. KernelText \in Text
        BY <1>2, KernelTextIs, KernelSaysIs
      <4> QED
        BY <4>1, <4>2, NothingIsText DEF Begins
    <3> QED
      BY <3>1, <3>2
  <2>3. KernelText' = KernelText
    BY <1>2, KernelTextIs
  <2>4. << >> \o Meant(todo') = ReportText(fault')
    <3>1. Meant(exc_handler(f)) = ReportText(f) /\ ReportText(f) \in Text
      BY ReportMeans
    <3> QED
      BY <1>1, <2>1, <3>1, NothingIsText
  <2>5. s = s \o << >> /\ << >> \in Text
    BY NothingIsText
  <2>6. Reports(s)'
    BY <2>2, <2>3, <2>4, <2>5 DEF Reports, Begins, Meant, Meaning
  <2> QED
    BY <1>2, <2>1, <2>6 DEF Stage
<1>5. QED
  BY <1>3, <1>4

LEMMA OthersSilent ==
  ASSUME [Next]_vars, ~Write, ~Sends
  PROVE  UNCHANGED <<wire, fifo>>
<1> USE DEF uartVars
<1>1. CASE Core0
  BY <1>1 DEF Core0, Enter, ReadLevel, SetUpEl2, CopyData, ZeroBss, WriteNumber,
              WriteFormat, SetUpPin, DumpByte, Framebuffer, InitCard, ReadSector,
              KernelReturns
<1>2. CASE \E c \in Cores \ {0} : Enter(c)
  BY <1>2 DEF Enter
<1>3. CASE Fault \/ SecondFault
  BY <1>3 DEF Fault, SecondFault
<1>4. CASE UNCHANGED vars
  BY <1>4 DEF vars
<1>5. QED
  BY <1>1, <1>2, <1>3, <1>4 DEF Next

(* A step that writes nothing and sends nothing.                           *)
LEMMA StageAfter ==
  ASSUME Where, Lines, Program, [Next]_vars, ~Write, ~Sends, NEW s \in Text, Stage(s)
  PROVE  Stage(s)'
<1>1. CASE UNCHANGED vars
  <2>1. UNCHANGED <<todo, at, fault, choice, mu, fsel, gppud, pull>>
    BY <1>1 DEF vars, uartVars, coreVars
  <2> QED
    BY <2>1, StageKept
<1>2. ASSUME NEW c \in Cores, Enter(c) PROVE Stage(s)'
  <2>1. /\ UNCHANGED <<todo, fault, choice, mu, fsel, gppud, pull>>
        /\ core[c] = "entry" /\ at' = IF c = 0 THEN "level" ELSE at
    BY <1>2 DEF Enter, uartVars
  <2>2. CASE c = 0
    <3>1. at = "entry" /\ at' = "level" /\ choice' = choice
      BY <2>1, <2>2 DEF Where
    <3> QED
      BY <3>1, BootSays
  <2>3. CASE c # 0
    BY <2>1, <2>3, StageKept
  <2> QED
    BY <2>2, <2>3
<1>3. CASE ReadLevel \/ SetUpEl2 \/ CopyData
  <2>1. /\ choice' = choice /\ at \in {"entry", "level", "setup", "stack", "data", "bss"}
        /\ at' \in {"entry", "level", "setup", "stack", "data", "bss", "lost"}
    BY <1>3 DEF ReadLevel, SetUpEl2, CopyData
  <2> QED
    BY <2>1, BootSays
<1>4. CASE ZeroBss
  <2>1. choice' = choice /\ at = "bss" /\ at' \in {"bss", "kernel"}
    BY <1>4 DEF ZeroBss
  <2>2. CASE at' = "kernel"
    BY <1>4, <2>2, StartSays
  <2>3. CASE at' = "bss"
    BY <2>1, <2>3, BootSays
  <2> QED
    BY <2>1, <2>2, <2>3
<1>5. CASE KernelReturns
  BY <1>5, ReturnSays
<1>6. CASE SecondFault
  BY <1>6 DEF SecondFault, Stage
<1>7. CASE Fault
  BY <1>7, FaultSays
<1>8. CASE WriteNumber \/ WriteFormat \/ SetUpPin \/ DumpByte
           \/ Framebuffer \/ InitCard \/ ReadSector
  <2>1. /\ Running /\ at' \in {at, "lost"} /\ UNCHANGED uartVars /\ Next
    BY <1>8 DEF WriteNumber, WriteFormat, SetUpPin, DumpByte, Framebuffer,
                InitCard, ReadSector, Call, Lost, coreVars, Next, Core0
  <2>2. CASE \E c \in Cores : Enter(c)
    BY <1>2, <2>2
  <2>3. CASE ~(\E c \in Cores : Enter(c)) /\ ~Fault /\ ~SecondFault
    <3>1. CASE at = "kernel"
      BY <2>1, <2>3, <3>1, KernelExpandSays
    <3>2. CASE at = "handler"
      <4>1. WriteNumber
        BY <2>1, <2>3, <3>2, HandlerOnlyWrites
      <4> QED
        BY <3>2, <4>1, HandlerNumberSays
    <3> QED
      BY <2>1, <3>1, <3>2 DEF Running
  <2> QED
    BY <1>6, <1>7, <2>2, <2>3
<1>9. Next =>
         \/ ReadLevel \/ SetUpEl2 \/ CopyData \/ ZeroBss \/ KernelReturns
         \/ SecondFault \/ Fault \/ (\E c \in Cores : Enter(c))
         \/ WriteNumber \/ WriteFormat \/ SetUpPin \/ DumpByte
         \/ Framebuffer \/ InitCard \/ ReadSector
  BY StartupAssumption DEF Next, Core0, StartupAssumption
<1>10. QED
  BY <1>1, <1>2, <1>3, <1>4, <1>5, <1>6, <1>7, <1>8, <1>9

-----------------------------------------------------------------------------
LEMMA SpokenInv ==
  ASSUME Where, Lines, Program, Spoken, [Next]_vars
  PROVE  Spoken'
<1>1. PICK s \in Text : Said(s) /\ Stage(s)
  BY DEF Spoken
<1>2. wire \in Seq(Sent) /\ fifo \in Seq(Sent)
  BY DEF Spoken, Lines
<1>3. CASE Write
  <2>1. CASE at = "kernel"
    <3>1. wire' \in Seq(Sent) /\ \E r \in Text : Said(r)' /\ Stage(r)'
      BY <1>1, <1>2, <1>3, <2>1, KernelWriteSays
    <3> QED
      BY <3>1 DEF Spoken, Said, Left
  <2>2. CASE at = "handler"
    <3>1. wire' \in Seq(Sent) /\ \E r \in Text : Said(r)' /\ Stage(r)'
      BY <1>1, <1>2, <1>3, <2>2, HandlerWriteSays
    <3> QED
      BY <3>1 DEF Spoken, Said, Left
  <2> QED
    BY <1>3, <2>1, <2>2 DEF Write, Running
<1>4. CASE Sends
  <2>1. /\ fifo # << >> /\ wire' = Append(wire, Head(fifo)) /\ fifo' = Tail(fifo)
        /\ UNCHANGED <<todo, at, fault, choice, mu, fsel, gppud, pull>>
    BY <1>4 DEF Sends, Transmit, coreVars
  <2>2. Said(s)' /\ wire' \in Seq(Sent)
    BY <1>1, <1>2, <2>1, SaidSent
  <2>3. Stage(s)'
    BY <1>1, <2>1, StageKept
  <2> QED
    BY <1>1, <2>2, <2>3 DEF Spoken
<1>5. CASE ~Write /\ ~Sends
  <2>1. UNCHANGED <<wire, fifo>>
    BY <1>5, OthersSilent
  <2>2. Said(s)'
    BY <1>1, <2>1, SaidStill
  <2>3. Stage(s)'
    BY <1>1, <1>5, StageAfter
  <2> QED
    BY <1>1, <1>2, <2>1, <2>2, <2>3 DEF Spoken
<1>6. QED
  BY <1>3, <1>4, <1>5

LEMMA InitSpoken == Init => Spoken
<1> SUFFICES ASSUME Init PROVE Spoken
  OBVIOUS
<1>1. machine.left \in Seq({"firmware"}) /\ wire = << >> /\ fifo = machine.left
      /\ at = "entry" /\ choice = Unset
  BY MachineIs DEF Init
<1>2. PICK n \in Nat : n = Len(machine.left)
  BY <1>1, LenProperties
<1>3. machine.left = Left(n)
  <2>1. PICK f : f = Left(n)
    OBVIOUS
  <2>2. f \in Seq({"firmware"}) /\ Len(f) = n /\ \A k \in 1 .. n : f[k] = "firmware"
    <3>1. f = [k \in 1 .. n |-> "firmware"]
      BY <2>1 DEF Left
    <3>2. f \in [1 .. n -> {"firmware"}] /\ \A k \in 1 .. n : f[k] = "firmware"
      BY <3>1
    <3> QED
      BY <3>2, FunctionIsSeq
  <2>3. \A k \in 1 .. n : machine.left[k] = "firmware"
    BY <1>1, <1>2, LenProperties
  <2>4. machine.left = f
    BY <1>1, <1>2, <2>2, <2>3, SeqEqual
  <2> QED
    BY <2>1, <2>4
<1>4. wire \o fifo = Left(n) \o << >> /\ wire \in Seq(Sent)
  <2>1. Left(n) \in Seq(Sent) /\ << >> \in Seq(Sent)
    BY LeftIs
  <2> HIDE DEF Sent
  <2>2. Left(n) \o << >> = Left(n) /\ << >> \o Left(n) = Left(n)
    BY <2>1, ConcatEmptySeq
  <2> QED
    BY <1>1, <1>3, <2>1, <2>2
<1>5. Said(<< >>)
  BY <1>4 DEF Said
<1>6. Stage(<< >>)
  BY <1>1, UnsetIs DEF Stage
<1>7. QED
  BY <1>4, <1>5, <1>6, NothingIsText DEF Spoken

(* The parts of a sequence, as WireIsText takes them.                      *)
LEMMA Parts ==
  ASSUME NEW S, NEW x \in Seq(S), NEW y \in Seq(S)
  PROVE  /\ x \o y \in Seq(S) /\ Len(x \o y) = Len(x) + Len(y)
         /\ Len(x) \in Nat /\ Len(y) \in Nat
         /\ SubSeq(x \o y, 1, Len(x)) = x
         /\ SubSeq(x \o y, Len(x) + 1, Len(x \o y)) = y
<1>a. PICK z : z = x \o y
  OBVIOUS
<1>1. /\ z = x \o y /\ z \in Seq(S) /\ Len(z) = Len(x) + Len(y)
      /\ \A k \in 1 .. Len(x) : z[k] = x[k]
      /\ \A k \in Len(x) + 1 .. Len(x) + Len(y) : z[k] = y[k - Len(x)]
  BY <1>a, Joined
<1>2. PICK n \in Nat, m \in Nat : n = Len(x) /\ m = Len(y)
  BY LenProperties
<1>3. \A k \in 1 .. n + m : z[k] \in S
  BY <1>1, <1>2, LenProperties
<1>4. SubSeq(z, 1, n) = x
  <2>1. /\ SubSeq(z, 1, n) \in Seq(S) /\ Len(SubSeq(z, 1, n)) = IF 1 <= n THEN n - 1 + 1 ELSE 0
        /\ \A i \in 1 .. n - 1 + 1 : SubSeq(z, 1, n)[i] = z[1 + i - 1]
    <3>1. \A i \in 1 .. n : z[i] \in S
      BY <1>3
    <3> QED
      BY <3>1, SubSeqProperties
  <2>2. Len(SubSeq(z, 1, n)) = n /\ \A i \in 1 .. n : SubSeq(z, 1, n)[i] = z[i]
    <3>1. (IF 1 <= n THEN n - 1 + 1 ELSE 0) = n /\ n - 1 + 1 = n /\ \A i \in 1 .. n : 1 + i - 1 = i
      OBVIOUS
    <3> QED
      BY <2>1, <3>1
  <2>3. \A i \in 1 .. n : SubSeq(z, 1, n)[i] = x[i]
    BY <1>1, <1>2, <2>2
  <2> QED
    BY <1>2, <2>1, <2>2, <2>3, SeqEqual
<1>5. SubSeq(z, n + 1, n + m) = y
  <2> DEFINE w == SubSeq(z, n + 1, n + m)
  <2>1. /\ w \in Seq(S) /\ Len(w) = IF n + 1 <= n + m THEN (n + m) - (n + 1) + 1 ELSE 0
        /\ \A i \in 1 .. (n + m) - (n + 1) + 1 : w[i] = z[(n + 1) + i - 1]
    <3>1. \A i \in n + 1 .. n + m : z[i] \in S
      BY <1>3
    <3>2. n + 1 \in Int /\ n + m \in Int
      OBVIOUS
    <3> QED
      BY <3>1, <3>2, SubSeqProperties
  <2>2. /\ (IF n + 1 <= n + m THEN (n + m) - (n + 1) + 1 ELSE 0) = m
        /\ (n + m) - (n + 1) + 1 = m
        /\ \A i \in 1 .. m : (n + 1) + i - 1 \in n + 1 .. n + m /\ ((n + 1) + i - 1) - n = i
    OBVIOUS
  <2> HIDE DEF w
  <2>3. Len(w) = m /\ \A i \in 1 .. m : w[i] = y[i]
    BY <1>1, <1>2, <2>1, <2>2
  <2>4. w = y
    BY <1>2, <2>1, <2>3, SeqEqual
  <2> QED
    BY <2>4 DEF w
<1>6. QED
  BY <1>1, <1>2, <1>4, <1>5

LEMMA BeginsIs ==
  ASSUME NEW a \in Text, NEW t, Begins(a, t)
  PROVE  IsPrefix(a, t)
<1>1. PICK u \in Text : a \o u = t
  BY DEF Begins
<1> HIDE DEF Symbol
<1>2. /\ Len(a \o u) = Len(a) + Len(u) /\ Len(a) \in Nat /\ Len(u) \in Nat
      /\ SubSeq(a \o u, 1, Len(a)) = a
  BY Parts DEF Text
<1>3. SubSeq(a, 1, Len(a)) = a
  BY SubSeqFull DEF Text
<1>4. QED
  BY <1>1, <1>2, <1>3 DEF IsPrefix

LEMMA SpokenIsText ==
  ASSUME Where, Program, Spoken
  PROVE  WireIsText
<1>0. PICK s \in Text : Said(s) /\ Stage(s)
  BY DEF Spoken
<1>a. Meant(todo) \in Text
  BY MeantIsText DEF Program
<1>1. PICK n \in Nat : wire \o fifo = Left(n) \o s
  BY <1>0 DEF Said
<1>2. PICK x \in Seq(Sent) : x = Left(n) /\ Len(x) = n /\ \A k \in 1 .. n : x[k] = "firmware"
  BY LeftIs
<1>3. s \in Seq(Sent) /\ s \in Seq(Symbol)
  BY TextIsSent DEF Text
<1>4. \A c \in Symbol : c # "firmware"
  BY DEF Symbol, Numerals, Marks, Words, Digit
<1> HIDE DEF Sent, Symbol
<1>5. PICK sent : sent = wire \o fifo /\ sent = x \o s
  BY <1>1, <1>2
<1>6. /\ sent \in Seq(Sent) /\ Len(sent) = n + Len(s) /\ Len(s) \in Nat
      /\ SubSeq(sent, n + 1, Len(sent)) = s
  <2>1. /\ x \o s \in Seq(Sent) /\ Len(x \o s) = Len(x) + Len(s) /\ Len(s) \in Nat
        /\ SubSeq(x \o s, Len(x) + 1, Len(x \o s)) = s
    BY <1>3, Parts
  <2> QED
    BY <1>2, <1>5, <2>1
<1>7. \A k \in DOMAIN sent : sent[k] = "firmware" <=> k \leq n
  <2>1. /\ \A k \in 1 .. Len(x) : (x \o s)[k] = x[k]
        /\ \A k \in Len(x) + 1 .. Len(x) + Len(s) : (x \o s)[k] = s[k - Len(x)]
    BY <1>3, Joined
  <2>2. /\ \A k \in 1 .. n : sent[k] = x[k]
        /\ \A k \in n + 1 .. n + Len(s) : sent[k] = s[k - n]
    BY <1>2, <1>5, <2>1
  <2>3. DOMAIN sent = 1 .. n + Len(s)
    BY <1>6, LenProperties
  <2>4. \A k \in n + 1 .. n + Len(s) : sent[k] \in Symbol
    <3>1. \A k \in n + 1 .. n + Len(s) : k - n \in 1 .. Len(s)
      BY <1>6
    <3>2. \A j \in 1 .. Len(s) : s[j] \in Symbol
      BY <1>3, LenProperties
    <3> QED
      BY <2>2, <3>1, <3>2
  <2>5. \A k \in 1 .. n : sent[k] = "firmware"
    BY <1>2, <2>2
  <2>6. \A k \in 1 .. n + Len(s) : k \in 1 .. n \/ (k \in n + 1 .. n + Len(s) /\ ~(k \leq n))
    BY <1>6
  <2> QED
    BY <1>4, <2>3, <2>4, <2>5, <2>6
<1>8. n \in 0 .. Len(sent)
  BY <1>6
<1>9. at \notin {"handler", "lost"} => IsPrefix(s, KernelText)
  <2>1. Choice(choice)
    BY <1>0 DEF Stage
  <2>2. KernelText \in Text
    BY <2>1, KernelTextIs, KernelSaysIs
  <2>3. CASE at \in {"entry", "level", "setup", "stack", "data", "bss"}
    <3>1. s = << >>
      BY <1>0, <2>3 DEF Stage
    <3>2. s \o KernelText = KernelText
      BY <2>2, <3>1, NothingIsText
    <3> QED
      BY <2>2, <3>2, BeginsIs DEF Begins
  <2>4. CASE at = "kernel"
    <3>1. s \o Meant(todo) = KernelText
      BY <1>0, <2>4 DEF Stage, Ahead
    <3> QED
      BY <1>a, <3>1, BeginsIs DEF Begins
  <2>5. CASE at = "wfe"
    <3>1. s \o << >> = KernelText /\ << >> \in Text
      BY <1>0, <2>2, <2>5, NothingIsText DEF Stage
    <3> QED
      BY <3>1, BeginsIs DEF Begins
  <2> QED
    BY <2>3, <2>4, <2>5 DEF Where
<1>10. ASSUME at = "handler"
       PROVE  \E m \in 0 .. Len(s) :
                /\ IsPrefix(SubSeq(s, 1, m), KernelText)
                /\ IsPrefix(SubSeq(s, m + 1, Len(s)), ReportText(fault))
  <2>1. PICK a \in Text, b \in Text : /\ s = a \o b /\ Begins(a, KernelText)
                                      /\ b \o Meant(todo) = ReportText(fault)
    BY <1>0, <1>10 DEF Stage, Reports
  <2>2. PICK m \in Nat : m = Len(a)
    BY LenProperties DEF Text
  <2>3. /\ Len(s) = m + Len(b) /\ Len(b) \in Nat
        /\ SubSeq(s, 1, m) = a /\ SubSeq(s, m + 1, Len(s)) = b
    <3>1. /\ Len(a \o b) = Len(a) + Len(b) /\ Len(b) \in Nat
          /\ SubSeq(a \o b, 1, Len(a)) = a /\ SubSeq(a \o b, Len(a) + 1, Len(a \o b)) = b
      BY Parts DEF Text
    <3> QED
      BY <2>1, <2>2, <3>1
  <2>4. m \in 0 .. Len(s)
    BY <2>3
  <2>5. IsPrefix(a, KernelText) /\ IsPrefix(b, ReportText(fault))
    BY <1>a, <2>1, BeginsIs DEF Begins
  <2> QED
    BY <2>3, <2>4, <2>5
<1>11. at = "wfe" => s = KernelText
  BY <1>0 DEF Stage
<1>12. SubSeq(wire \o fifo, n + 1, Len(wire \o fifo)) = s
  BY <1>5, <1>6
<1>13. \A k \in DOMAIN (wire \o fifo) : (wire \o fifo)[k] = "firmware" <=> k \leq n
  BY <1>5, <1>7
<1>14. n \in 0 .. Len(wire \o fifo)
  BY <1>5, <1>8
<1>15. QED
  BY <1>9, <1>10, <1>11, <1>12, <1>13, <1>14, Zenon DEF WireIsText

(* On the wire and in the FIFO is what the firmware left, or nothing of    *)
(* it, and then what kernel_main and its drivers print, every character    *)
(* once and in order, and all of it when kernel_main has returned; after an*)
(* exception it is what was printed up to there and then the report of     *)
(* exc_handler (kernel.cpp:33-82, exception.cpp:23-69, uart1.cpp:36-53).   *)
(* Whatever machine the firmware leaves, whatever the drivers print and    *)
(* answer, wherever the exception strikes, as long as core 0 is not lost.  *)
THEOREM WireCarriesText == Spec => []WireIsText
<1>1. Init => Spoken
  BY InitSpoken
<1>2. IInv /\ Spoken /\ [Next]_vars => Spoken'
  BY SpokenInv DEF IInv
<1>3. IInv /\ Spoken => WireIsText
  BY SpokenIsText DEF IInv
<1>4. QED
  BY <1>1, <1>2, <1>3, Invariant, PTL DEF Spec

=============================================================================
