------------------------------- MODULE BigInts -------------------------------
(***************************************************************************)
(* BigInt values and their operators (builtins/bigint_num.rs, bigint.rs,   *)
(* and the operators in interpreter/exec.rs).  A value is a text; every    *)
(* operator parses its operands into limbs, computes, and prints.  Limbs   *)
(* are little-endian, with the least significant one at 1.                 *)
(*                                                                         *)
(* W and DECIMAL are 32 and 10 in the code; the algorithms depend on them  *)
(* only through DECIMAL < 2^W.                                             *)
(***************************************************************************)
EXTENDS Integers, Sequences, SequencesExt, FiniteSetsExt, Bitwise

CONSTANTS
    W,                \* bits of a limb
    DECIMAL,          \* the radix of the text
    MAX_EXP_BITS,     \* more bits in an exponent are refused
    MAX_SHIFT_BITS,   \* and in a shift count
    MAX_MASK,         \* more bits are not masked
    FirstValues,      \* integers a program starts from
    MaxValue,         \* what it goes on computing with
    Operands,         \* right operands
    BitCounts,        \* first arguments of asIntN and asUintN
    Halves,           \* Numbers to compare with, times two
    Radices           \* of texts that are printed and read again

ASSUME BigIntAssumption ==
    /\ W \in Nat \ {0, 1} /\ DECIMAL \in 2 .. 2^W - 1
    /\ Radices \subseteq 2 .. 2^W - 1

-----------------------------------------------------------------------------
(* Magnitudes.                                                             *)

Base == 2^W
Limb(m, i) == IF i \in DOMAIN m THEN m[i] ELSE 0

(* Both products and sums are computed in words of two limbs. *)
Wide(n) == n % (Base * Base)

(* Passes a carry through columns, from the least significant one. *)
Carried(columns, carry) ==
    FoldLeft(LAMBDA r, col : [limbs |-> Append(r.limbs, (col + r.carry) % Base),
                              carry |-> Wide(col + r.carry) \div Base],
             [limbs |-> <<>>, carry |-> carry], columns)

CarriedOut(columns, carry) ==
    LET r == Carried(columns, carry)
    IN  IF r.carry > 0 THEN Append(r.limbs, r.carry) ELSE r.limbs

(* The significant limbs. *)
Trim(m) == SubSeq(m, 1, Max({0} \cup {i \in DOMAIN m : m[i] # 0}))

Big(neg, m) ==
    LET mag == Trim(m)
    IN  [neg |-> neg /\ mag # <<>>, mag |-> mag]
Zero == [neg |-> FALSE, mag |-> <<>>]
One == [neg |-> FALSE, mag |-> <<1>>]
IsZero(x) == x.mag = <<>>
Negated(x) == Big(~x.neg, x.mag)

(* -1, 0 or 1. *)
CmpMag(a, b) ==
    LET sa == Trim(a)
        sb == Trim(b)
        differing == {i \in DOMAIN sa : sa[i] # sb[i]}
    IN  CASE Len(sa) < Len(sb) -> -1
          [] Len(sa) > Len(sb) -> 1
          [] sa = sb -> 0
          [] OTHER -> IF sa[Max(differing)] < sb[Max(differing)] THEN -1 ELSE 1

Cmp(x, y) ==
    CASE x.neg # y.neg -> IF x.neg THEN -1 ELSE 1
      [] x.neg -> -CmpMag(x.mag, y.mag)
      [] OTHER -> CmpMag(x.mag, y.mag)

AddMag(a, b) ==
    CarriedOut([i \in 1 .. Max({Len(a), Len(b)}) |-> Limb(a, i) + Limb(b, i)], 0)

(* Only for |a| >= |b|.  A negative column borrows. *)
SubMag(a, b) ==
    Trim(FoldLeft(LAMBDA r, i :
             LET cur == a[i] - r.borrow - Limb(b, i)
             IN  [limbs |-> Append(r.limbs, cur % Base), borrow |-> IF cur < 0 THEN 1 ELSE 0],
           [limbs |-> <<>>, borrow |-> 0], [i \in 1 .. Len(a) |-> i]).limbs)

Zeros(n) == [i \in 1 .. n |-> 0]

(* One row of the product after the other. *)
MulMag(a, b) ==
    FoldLeft(LAMBDA mag, i :
               SubSeq(mag, 1, i - 1) \o
               Carried([j \in 1 .. Len(mag) - i + 1 |->
                          mag[i + j - 1] + a[i] * Limb(b, j)], 0).limbs,
             Zeros(Len(a) + Len(b)), [i \in 1 .. Len(a) |-> i])

Add(x, y) ==
    CASE x.neg = y.neg -> Big(x.neg, AddMag(x.mag, y.mag))
      [] CmpMag(x.mag, y.mag) = 0 -> Zero
      [] CmpMag(x.mag, y.mag) = 1 -> Big(x.neg, SubMag(x.mag, y.mag))
      [] OTHER -> Big(y.neg, SubMag(y.mag, x.mag))
Sub(x, y) == Add(x, Negated(y))
Mul(x, y) ==
    IF IsZero(x) \/ IsZero(y) THEN Zero ELSE Big(x.neg # y.neg, MulMag(x.mag, y.mag))

-----------------------------------------------------------------------------
(* Bits, counted from 0.                                                   *)

BitAt(m, k) == (Limb(m, k \div W + 1) \div 2^(k % W)) % 2

(* Sets a bit that is clear. *)
SetBit(m, k) ==
    [i \in DOMAIN m |-> IF i = k \div W + 1 THEN m[i] + 2^(k % W) ELSE m[i]]

BitLength(x) ==
    LET n == Len(x.mag)
    IN  IF n = 0 THEN 0
        ELSE (n - 1) * W + Max({k \in 1 .. W : x.mag[n] >= 2^(k - 1)})

Pow2(k) == Big(FALSE, Append(Zeros(k \div W), 2^(k % W)))

(* Long division, one bit of the dividend at a time, the highest first. *)
DivMod(x, y) ==
    LET step(r, k) ==
          LET shifted == CarriedOut([i \in DOMAIN r.rem |-> 2 * r.rem[i]], 0)
              rem == IF BitAt(x.mag, k) = 0 THEN Trim(shifted)
                     ELSE IF shifted = <<>> THEN <<1>> ELSE [shifted EXCEPT ![1] = @ + 1]
          IN  IF CmpMag(rem, y.mag) = -1
              THEN [quot |-> r.quot, rem |-> rem]
              ELSE [quot |-> SetBit(r.quot, k), rem |-> SubMag(rem, y.mag)]
        bits == Len(x.mag) * W
        r == FoldLeft(step, [quot |-> Zeros(Max({Len(x.mag), Len(y.mag)}) + 1), rem |-> <<>>],
                      [i \in 1 .. bits |-> bits - i])
    IN  IF IsZero(x) THEN <<Zero, Zero>>
        ELSE <<Big(x.neg # y.neg, r.quot), Big(x.neg, r.rem)>>

(* By squaring; e is a natural number below 2^n. *)
PowBits(x, e, n) ==
    FoldLeft(LAMBDA r, k : [result |-> IF (e \div 2^k) % 2 = 1 THEN Mul(r.result, r.base)
                                       ELSE r.result,
                            base |-> Mul(r.base, r.base)],
             [result |-> One, base |-> x], [i \in 1 .. n |-> i - 1]).result

Shl(x, k) ==
    IF IsZero(x) THEN Zero
    ELSE Big(x.neg, Zeros(k \div W)
                      \o CarriedOut([i \in DOMAIN x.mag |-> x.mag[i] * 2^(k % W)], 0))

(* Rounds towards minus infinity: a negative value that lost bits is one   *)
(* less.                                                                   *)
LostInLimb(m, k) == Limb(m, k \div W + 1) % 2^(k % W) # 0   \* mutant
Lost(m, k) ==
    \/ \E i \in 1 .. Min({k \div W, Len(m)}) : m[i] # 0
    \/ Limb(m, k \div W + 1) % 2^(k % W) # 0

Shr(x, k) ==
    LET off == k % W
        kept == SubSeq(x.mag, k \div W + 1, Len(x.mag))
        dropped == Big(FALSE, [i \in DOMAIN kept |->
                     (kept[i] \div 2^off) + ((Limb(kept, i + 1) * 2^(W - off)) % Base)])
    IN  IF x.neg THEN Negated(IF Lost(x.mag, k) THEN Add(dropped, One) ELSE dropped)
        ELSE dropped

Masked(x, k) ==
    Big(FALSE, [i \in 1 .. k \div W |-> Limb(x.mag, i)]
                 \o IF k % W = 0 THEN <<>>
                    ELSE <<Limb(x.mag, k \div W + 1) % 2^(k % W)>>)
ModPow2(x, k) ==
    LET masked == Masked(x, k)
    IN  IF x.neg /\ ~IsZero(masked) THEN Sub(Pow2(k), masked) ELSE masked

(* The bit operators, in n limbs of two's complement. *)
TwosComplement(x, n) ==
    IF x.neg
    THEN Carried([i \in 1 .. n |-> IF i \in DOMAIN x.mag THEN Base - 1 - x.mag[i] ELSE 0], 1).limbs
    ELSE [i \in 1 .. n |-> Limb(x.mag, i)]

OnLimbs(op, a, b) ==
    CASE op = "&" -> a & b
      [] op = "|" -> a | b
      [] op = "^" -> a ^^ b

BitOp(op, x, y) ==
    LET n == (Max({BitLength(x), BitLength(y)}) + 2) \div W + 2
        a == TwosComplement(x, n)
        b == TwosComplement(y, n)
        out == [i \in 1 .. n |-> OnLimbs(op, a[i], b[i])]
    IN  IF out[n] >= Base \div 2
        THEN Big(TRUE, Carried([i \in 1 .. n |-> Base - 1 - out[i]], 1).limbs)
        ELSE Big(FALSE, out)

-----------------------------------------------------------------------------
(* Text: a sign and digits, the most significant first.                    *)

(* Digits are gathered in a chunk below 2^W before they go to the limbs. *)
Fold(r) ==
    [mag |-> CarriedOut(CarriedOut([i \in DOMAIN r.mag |-> r.mag[i] * r.mul], 0), r.chunk),
     mul |-> 1, chunk |-> 0]
Parse(text, radix) ==
    LET digit(r, d) ==
          LET next == [mag |-> r.mag, mul |-> r.mul * radix, chunk |-> r.chunk * radix + d]
          IN  IF next.mul * radix >= Base THEN Fold(next) ELSE next
        r == FoldLeft(digit, [mag |-> <<>>, mul |-> 1, chunk |-> 0], text.digits)
    IN  Big(text.neg, IF r.mul > 1 THEN Fold(r).mag ELSE r.mag)

(* The largest number of digits that always fit in a limb. *)
ChunkDigits(radix) == Max({k \in 1 .. W : k = 1 \/ radix^k < Base})

(* Quotient and remainder by a divisor of one limb. *)
DivModSmall(m, d) ==
    LET r == FoldLeft(LAMBDA s, i :
               LET cur == s.rem * Base + m[i]
               IN  [quot |-> <<cur \div d>> \o s.quot, rem |-> cur % d],
               [quot |-> <<>>, rem |-> 0], [i \in 1 .. Len(m) |-> Len(m) + 1 - i])
    IN  [r EXCEPT !.quot = Trim(@)]

RECURSIVE Chunks(_, _)
Chunks(m, d) ==
    IF m = <<>> THEN <<>>
    ELSE LET r == DivModSmall(m, d) IN Append(Chunks(r.quot, d), r.rem)

(* The digits of a chunk, at least `least` of them. *)
FormatChunk(c, radix, least) ==
    LET n == Min({k \in least .. W + least : c < radix^k})
    IN  [i \in 1 .. n |-> (c \div radix^(n - i)) % radix]
Rendered(x, radix) ==
    LET k == ChunkDigits(radix)
        chunks == Chunks(x.mag, radix^k)
        parts == [i \in DOMAIN chunks |-> FormatChunk(chunks[i], radix, IF i = 1 THEN 1 ELSE k)]
    IN  IF IsZero(x) THEN [neg |-> FALSE, digits |-> <<0>>]
        ELSE [neg |-> x.neg, digits |-> FlattenSeq(parts)]

-----------------------------------------------------------------------------
(* A program computes with one value, one operator after the other.        *)

VARIABLES
    value,     \* its text
    op, arg,   \* the operator about to run, with its right operand
    failed,    \* whether the last one threw a RangeError
    order      \* what the last comparison said

bigIntVars == <<value, op, arg, failed, order>>

Arithmetic == {"+", "-", "*", "/", "%", "**", "<<", ">>"}
Bitwise2 == {"&", "|", "^"}
Unary == {"-x", "~x", "++", "--"}

Abs(n) == IF n < 0 THEN -n ELSE n

(* The texts of integers, as a program writes them. *)
MaxDigits == 15
TextOf(n) ==
    LET k == Min({j \in 1 .. MaxDigits : Abs(n) < DECIMAL^j})
    IN  [neg |-> n < 0, digits |-> [i \in 1 .. k |-> (Abs(n) \div DECIMAL^(k - i)) % DECIMAL]]
IntOf(text) ==
    LET abs == FoldLeft(LAMBDA n, d : n * DECIMAL + d, 0, text.digits)
    IN  IF text.neg THEN -abs ELSE abs
BigOf(n) == Parse(TextOf(n), DECIMAL)

ArgsOf(o) ==
    CASE o \in Arithmetic \cup Bitwise2 -> Operands
      [] o \in Unary -> {0}
      [] o \in {"asIntN", "asUintN"} -> BitCounts
      [] o = "compare" -> Halves
      [] o = "reparse" -> Radices

BigIntsInit ==
    /\ \E n \in FirstValues : value = TextOf(n)
    /\ op = "none" /\ arg = 0 /\ failed = FALSE /\ order = "none"

Another ==
    /\ op = "none"
    /\ \E n \in FirstValues : value' = TextOf(n)
    /\ UNCHANGED <<op, arg, failed, order>>

Choose ==
    /\ op = "none" /\ IntOf(value) \in FirstValues \cup -MaxValue .. MaxValue
    /\ \E o \in Arithmetic \cup Bitwise2 \cup Unary \cup {"asIntN", "asUintN", "compare", "reparse"} :
         \E n \in ArgsOf(o) : op' = o /\ arg' = n
    /\ failed' = FALSE /\ order' = "none"
    /\ UNCHANGED value

Done == op' = "none" /\ arg' = 0
Gives(x) ==
    /\ value' = Rendered(x, DECIMAL)
    /\ Done /\ UNCHANGED <<failed, order>>
Throws == failed' = TRUE /\ Done /\ UNCHANGED <<value, order>>

Left == Parse(value, DECIMAL)
Right == BigOf(arg)

(* eval_bigint_binary. *)
AddSubMul ==
    \/ op = "+" /\ Gives(Add(Left, Right))
    \/ op = "-" /\ Gives(Sub(Left, Right))
    \/ op = "*" /\ Gives(Mul(Left, Right))

Divide ==
    /\ op \in {"/", "%"}
    /\ IF IsZero(Right) THEN Throws
       ELSE Gives(DivMod(Left, Right)[IF op = "/" THEN 1 ELSE 2])

Power ==
    /\ op = "**"
    /\ IF Right.neg \/ BitLength(Right) > MAX_EXP_BITS THEN Throws
       ELSE Gives(PowBits(Left, arg, BitLength(Right)))

(* A negative count is taken as 0. *)
ShiftBy ==
    /\ op \in {"<<", ">>"}
    /\ LET count == IF Right.neg THEN 0 ELSE arg
       IN  IF ~Right.neg /\ BitLength(Right) > MAX_SHIFT_BITS THEN Throws
           ELSE Gives(IF op = "<<" THEN Shl(Left, count) ELSE Shr(Left, count))

Bits == op \in Bitwise2 /\ Gives(BitOp(op, Left, Right))

OneOperand ==
    \/ op = "-x" /\ Gives(Negated(Left))
    \/ op = "~x" /\ Gives(Sub(Negated(Left), One))
    \/ op = "++" /\ Gives(Add(Left, One))
    \/ op = "--" /\ Gives(Sub(Left, One))

(* asIntN and asUintN. *)
AsN ==
    /\ op \in {"asIntN", "asUintN"}
    /\ LET m == ModPow2(Left, arg)
       IN  CASE arg > MAX_MASK -> IF Left.neg THEN Throws ELSE Gives(Left)
             [] arg <= MAX_MASK /\ op = "asIntN" /\ arg > 0 /\ BitAt(m.mag, arg - 1) = 1
                  -> Gives(Sub(m, Pow2(arg)))
             [] OTHER -> Gives(m)

(* cmp_number_bigint: the Number arg / 2 against the value.  A fraction is *)
(* cut off, and counts as less if what is left is equal.                   *)
CompareNumber ==
    /\ op = "compare"
    /\ LET whole == IF arg >= 0 THEN arg \div 2 ELSE -((-arg) \div 2)
           c == Cmp(BigOf(whole), Left)
       IN  order' = CASE c = 1 -> "greater"
                      [] c = 0 /\ arg % 2 = 0 -> "equal"
                      [] OTHER -> "less"
    /\ Done /\ UNCHANGED <<value, failed>>

(* toString with a radix, and the text read back. *)
Reparse == op = "reparse" /\ Gives(Parse(Rendered(Left, arg), arg))

BigIntsNext ==
    \/ Another \/ Choose
    \/ AddSubMul \/ Divide \/ Power \/ ShiftBy \/ Bits \/ OneOperand \/ AsN \/ CompareNumber \/ Reparse
BigIntsSpec == BigIntsInit /\ [][BigIntsNext]_bigIntVars

-----------------------------------------------------------------------------
(* Properties.                                                             *)

(* Integers as infinitely many bits, the sign repeated; no more than       *)
(* MaxBits differ from the sign.                                           *)
MaxBits == 15
BitsAgree(o, x, n, r) ==
    \A k \in 0 .. MaxBits :
        (r \div 2^k) % 2 = OnLimbs(o, (x \div 2^k) % 2, (n \div 2^k) % 2)

(* The result of an operator on integers. *)
Exactly(o, x, n, r) ==
    CASE o = "+" -> r = x + n
      [] o = "-" -> r = x - n
      [] o = "*" -> r = x * n
      [] o = "/" -> r = (IF (x < 0) = (n < 0) THEN 1 ELSE -1) * (Abs(x) \div Abs(n))
      [] o = "%" -> r = (IF x < 0 THEN -1 ELSE 1) * (Abs(x) % Abs(n))
      [] o = "**" -> r = (IF n = 0 THEN 1 ELSE x^n)
      [] o = "<<" -> r = x * 2^Max({n, 0})
      [] o = ">>" -> r = x \div 2^Max({n, 0})
      [] o = "-x" -> r = -x
      [] o = "~x" -> r = -x - 1
      [] o = "++" -> r = x + 1
      [] o = "--" -> r = x - 1
      [] o = "asUintN" -> r = x % 2^n
      [] o = "asIntN" -> r = ((x + 2^n \div 2) % 2^n) - 2^n \div 2
      [] o = "reparse" -> r = x
      [] o \in Bitwise2 -> BitsAgree(o, x, n, r)

Refused(o, x, n) ==
    \/ o \in {"/", "%"} /\ n = 0
    \/ o = "**" /\ (n < 0 \/ n >= 2^MAX_EXP_BITS)
    \/ o \in {"<<", ">>"} /\ n >= 2^MAX_SHIFT_BITS
    \/ o \in {"asIntN", "asUintN"} /\ n > MAX_MASK /\ x < 0

(* How half of n compares with x. *)
Ordered(n, x) ==
    CASE n < 2 * x -> "less" [] n = 2 * x -> "equal" [] n > 2 * x -> "greater"

(* What the code gets wrong: bitwise operators with a negative operand and *)
(* comparisons with a positive fraction.                                   *)
Excepted(o, x, n) ==
    \/ o \in Bitwise2 /\ (x < 0 \/ n < 0)
    \/ o = "compare" /\ n > 0 /\ n % 2 = 1

(* There is one text for each integer: no zero in front, and no negative   *)
(* zero.  Values are equal if their texts are, and only "0" is falsy       *)
(* (value/convert.rs).                                                     *)
IsCanonical(text) ==
    /\ \A i \in DOMAIN text.digits : text.digits[i] \in 0 .. DECIMAL - 1
    /\ text.digits[1] = 0 => text = [neg |-> FALSE, digits |-> <<0>>]

(***************************************************************************)
(* Operators compute what they compute on integers, whatever carries,      *)
(* borrows and chunks of digits are on the way; they leave the one text of *)
(* the result, and throw only where they refuse.                           *)
(***************************************************************************)
OperatorsExact ==
    [][LET x == IntOf(value)
       IN  op # "none" /\ ~Excepted(op, x, arg) =>
             /\ IsCanonical(value')
             /\ IF failed' THEN Refused(op, x, arg)
                ELSE IF op = "compare" THEN order' = Ordered(arg, x)
                ELSE Exactly(op, x, arg, IntOf(value'))]_bigIntVars


(***************************************************************************)
(* "BigInt bitwise operations via fixed-width two's complement" (exec.rs): *)
(* the operators work on the integers' bits, negative ones included.       *)
(***************************************************************************)
BitwiseExact ==
    [][(op \in Bitwise2) => BitsAgree(op, IntOf(value), arg, IntOf(value'))]_bigIntVars
==============================================================================
