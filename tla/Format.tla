------------------------------- MODULE Format -------------------------------
(***************************************************************************)
(* Numbers as text (src/src/common/string.cpp, src/src/common/format.cpp,  *)
(* src/include/common/format.h).  A text is a sequence of symbols: a digit,*)
(* a brace, a line end, or a run of other characters.  The buffers that    *)
(* format writes to are larger than anything the kernel formats, so their  *)
(* sizes are left out here, and so are the modifiers X, O and B, which the *)
(* kernel does not use.  The local of itos holds 64 characters, as many as *)
(* a u64 has bits: only a width above that, which the kernel does not ask  *)
(* for, runs over it (string.cpp:6).                                       *)
(***************************************************************************)
EXTENDS Integers, SequencesExt

CONSTANT Word    \* values of a u64: 2^64

ASSUME FormatAssumption == Word \in Nat \ {0} /\ Word % 2 = 0

Digit == <<"0", "1", "2", "3", "4", "5", "6", "7",
           "8", "9", "a", "b", "c", "d", "e", "f">>

(* str::itos: the loop over the digits, the zeros in front of them, as far *)
(* as the low byte of the width asks for them, and the sign, which a value *)
(* from 2^63 on gets in base 10.                                           *)
digits(v, base) ==
    LET d[x \in 0 .. v] == IF x < base THEN <<Digit[x + 1]>>
                           ELSE Append(d[x \div base], Digit[(x % base) + 1])
    IN  d[v]

itos(value, base, width) ==
    LET negative == base = 10 /\ value \geq Word \div 2
        text     == digits(IF negative THEN Word - value ELSE value, base)
        zeros    == [k \in 1 .. Max({0, (width % 256) - Len(text)}) |-> "0"]
    IN  (IF negative THEN <<"-">> ELSE << >>) \o zeros \o text

(* str::stou: up to the first character that is no digit.  Letters are     *)
(* digits in every base.  What wraps in the u64, and is cut off where the  *)
(* width becomes an int, lies above the byte itos looks at.                *)
Capital == <<"0", "1", "2", "3", "4", "5", "6", "7",
             "8", "9", "A", "B", "C", "D", "E", "F">>

stou(view, base) ==
    LET isDigit(c) == \E n \in 1 .. 16 : c \in {Digit[n], Capital[n]}
        number(c)  == (CHOOSE n \in 1 .. 16 : c \in {Digit[n], Capital[n]}) - 1
        end == {k \in DOMAIN view : ~isDigit(view[k])}
        n   == IF end = {} THEN Len(view) ELSE Min(end) - 1
        v[k \in 0 .. n] == IF k = 0 THEN 0 ELSE v[k - 1] * base + number(view[k])
    IN  v[n]

(* The base is the last character of the modifier, the width all before it.*)
common_integer_format(view, value) ==
    LET base  == IF view = << >> THEN 10
                 ELSE IF Last(view) = "x" THEN 16
                 ELSE IF Last(view) = "o" THEN 8
                 ELSE IF Last(view) = "b" THEN 2 ELSE 10
        width == IF Len(view) > 1 THEN stou(Front(view), 10) ELSE 0
    IN  itos(value, base, width)

(* From position p of the format on, with the arguments from a on.  The    *)
(* second brace of {{ is looked at again.  With no argument left the rest  *)
(* is copied, and with no place left for one the rest is nothing.          *)
format(fmt, args) ==
    LET end(p) == CHOOSE q \in p .. Len(fmt) :
                     fmt[q] = "}" /\ \A k \in p .. q - 1 : fmt[k] # "}"
        f[p \in 1 .. Len(fmt) + 2] == [a \in 1 .. Len(args) + 1 |->
            IF p > Len(fmt) THEN << >>
            ELSE IF a > Len(args) \/ fmt[p] # "{"
            THEN <<fmt[p]>> \o f[p + 1][a]
            ELSE IF fmt[p + 1] = ":"
            THEN common_integer_format(SubSeq(fmt, p + 2, end(p) - 1), args[a])
                   \o f[end(p) + 1][a + 1]
            ELSE IF fmt[p + 1] = "{" THEN <<"{">> \o f[p + 1][a]
            ELSE common_integer_format(<< >>, args[a]) \o f[p + 2][a + 1]]
    IN  f[1][1]
=============================================================================
