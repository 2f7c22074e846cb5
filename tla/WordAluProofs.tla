---------------------------- MODULE WordAluProofs ----------------------------
(***************************************************************************)
(* The arithmetic of words, for every pair of 16-bit operands: what        *)
(* MCWordAlu tries on operands around the boundaries holds of all of them. *)
(***************************************************************************)
EXTENDS WordAlu, TLAPS

(* The quotient and the remainder, from where a number lies between          *)
(* multiples of d.                                                           *)
LEMMA Quotient ==
  ASSUME NEW d \in Nat \ {0}, NEW q \in Int, NEW v \in Int,
         q * d <= v, v < q * d + d
  PROVE  v \div d = q /\ v % d = v - q * d
<1> DEFINE p == v \div d
           r == v % d
<1>1. p \in Int /\ r \in 0 .. d - 1 /\ v = p * d + r
  OBVIOUS
<1> HIDE DEF p, r
<1>2. (p - q) * d <= d - 1 /\ (p - q) * d >= 1 - d
  BY <1>1
<1>3. p - q >= 1 => (p - q) * d >= d
  BY <1>1
<1>4. p - q <= -1 => (p - q) * d <= -d
  BY <1>1
<1>5. p = q
  BY <1>1, <1>2, <1>3, <1>4
<1> QED BY <1>1, <1>5 DEF p, r

(* The bits looked at, of any number. *)
LEMMA BitsAre ==
  ASSUME NEW v \in Int
  PROVE  /\ Bit(v, 8) = (v \div 256) % 2
         /\ Sign(v) = (v \div 128) % 2
         /\ Bit(v, 4) = (v \div 16) % 2
         /\ Bit(v, 3) = (v \div 8) % 2
<1>1. 2^3 = 8 /\ 2^4 = 16 /\ 2^7 = 128 /\ 2^8 = 256
  OBVIOUS
<1> QED BY <1>1 DEF Bit, Sign

(* A number of nine bits: its byte, bit 8 and bit 7. *)
LEMMA NineBits ==
  ASSUME NEW v \in Int, 0 <= v, v < 512
  PROVE  /\ v % 256 = IF v < 256 THEN v ELSE v - 256
         /\ Bit(v, 8) = IF v < 256 THEN 0 ELSE 1
         /\ Sign(v) = IF v % 256 >= 128 THEN 1 ELSE 0
<1>0. Bit(v, 8) = (v \div 256) % 2 /\ Sign(v) = (v \div 128) % 2
  BY BitsAre
<1>1. CASE v < 128
  <2>1. v \div 256 = 0 /\ v % 256 = v
    BY <1>1, Quotient, 256 \in Nat \ {0}, 0 \in Int
  <2>2. v \div 128 = 0
    BY <1>1, Quotient, 128 \in Nat \ {0}, 0 \in Int
  <2>3. 0 % 2 = 0 /\ 0 % 2 = 0
    OBVIOUS
  <2>4. Bit(v, 8) = 0 /\ Sign(v) = 0
    BY <1>0, <2>1, <2>2, <2>3
  <2> QED BY <1>1, <2>1, <2>4
<1>2. CASE 128 <= v /\ v < 256
  <2>1. v \div 256 = 0 /\ v % 256 = v
    BY <1>2, Quotient, 256 \in Nat \ {0}, 0 \in Int
  <2>2. v \div 128 = 1
    BY <1>2, Quotient, 128 \in Nat \ {0}, 1 \in Int
  <2>3. 0 % 2 = 0 /\ 1 % 2 = 1
    OBVIOUS
  <2>4. Bit(v, 8) = 0 /\ Sign(v) = 1
    BY <1>0, <2>1, <2>2, <2>3
  <2> QED BY <1>2, <2>1, <2>4
<1>3. CASE 256 <= v /\ v < 384
  <2>1. v \div 256 = 1 /\ v % 256 = v - 256
    BY <1>3, Quotient, 256 \in Nat \ {0}, 1 \in Int
  <2>2. v \div 128 = 2
    BY <1>3, Quotient, 128 \in Nat \ {0}, 2 \in Int
  <2>3. 1 % 2 = 1 /\ 2 % 2 = 0
    OBVIOUS
  <2>4. Bit(v, 8) = 1 /\ Sign(v) = 0
    BY <1>0, <2>1, <2>2, <2>3
  <2> QED BY <1>3, <2>1, <2>4
<1>4. CASE 384 <= v
  <2>1. v \div 256 = 1 /\ v % 256 = v - 256
    BY <1>4, Quotient, 256 \in Nat \ {0}, 1 \in Int
  <2>2. v \div 128 = 3
    BY <1>4, Quotient, 128 \in Nat \ {0}, 3 \in Int
  <2>3. 1 % 2 = 1 /\ 3 % 2 = 1
    OBVIOUS
  <2>4. Bit(v, 8) = 1 /\ Sign(v) = 1
    BY <1>0, <2>1, <2>2, <2>3
  <2> QED BY <1>4, <2>1, <2>4
<1> QED BY <1>1, <1>2, <1>3, <1>4

(* A negative number of at most 256, in 16 bits: bit 8 is set. *)
LEMMA NegativeBits ==
  ASSUME NEW v \in Int, 65280 <= v, v < 65536
  PROVE  /\ v % 256 = v - 65280
         /\ Bit(v, 8) = 1
         /\ Sign(v) = IF v % 256 >= 128 THEN 1 ELSE 0
<1>0. Bit(v, 8) = (v \div 256) % 2 /\ Sign(v) = (v \div 128) % 2
  BY BitsAre
<1>1. CASE v < 65408
  <2>1. v \div 256 = 255 /\ v % 256 = v - 65280
    BY <1>1, Quotient, 256 \in Nat \ {0}, 255 \in Int
  <2>2. v \div 128 = 510
    BY <1>1, Quotient, 128 \in Nat \ {0}, 510 \in Int
  <2>3. 255 % 2 = 1 /\ 510 % 2 = 0
    OBVIOUS
  <2>4. Bit(v, 8) = 1 /\ Sign(v) = 0
    BY <1>0, <2>1, <2>2, <2>3
  <2> QED BY <1>1, <2>1, <2>4
<1>2. CASE v >= 65408
  <2>1. v \div 256 = 255 /\ v % 256 = v - 65280
    BY <1>2, Quotient, 256 \in Nat \ {0}, 255 \in Int
  <2>2. v \div 128 = 511
    BY <1>2, Quotient, 128 \in Nat \ {0}, 511 \in Int
  <2>3. 255 % 2 = 1 /\ 511 % 2 = 1
    OBVIOUS
  <2>4. Bit(v, 8) = 1 /\ Sign(v) = 1
    BY <1>0, <2>1, <2>2, <2>3
  <2> QED BY <1>2, <2>1, <2>4
<1> QED BY <1>1, <1>2

(* In 16 bits. *)
LEMMA Wraps ==
  ASSUME NEW v \in Int
  PROVE  /\ 0 <= v /\ v < 65536 => v % 65536 = v
         /\ 65536 <= v /\ v < 131072 => v % 65536 = v - 65536
         /\ -65536 <= v /\ v < 0 => v % 65536 = v + 65536
<1>1. 0 <= v /\ v < 65536 => v % 65536 = v
  BY Quotient, 65536 \in Nat \ {0}, 0 \in Int
<1>2. 65536 <= v /\ v < 131072 => v % 65536 = v - 65536
  BY Quotient, 65536 \in Nat \ {0}, 1 \in Int
<1>3. -65536 <= v /\ v < 0 => v % 65536 = v + 65536
  BY Quotient, 65536 \in Nat \ {0}, -1 \in Int
<1> QED BY <1>1, <1>2, <1>3

-----------------------------------------------------------------------------
Logic == AndCmds \cup OrCmds \cup XorCmds

(* The commands are numbers of their own.                                    *)
LEMMA CommandsDiffer ==
  /\ add \notin {adc, sub, sbc, neg, not, shl, shlc, shr, shrc} \cup Logic
  /\ adc \notin {add, sub, sbc, neg, not, shl, shlc, shr, shrc} \cup Logic
  /\ sub \notin {add, adc, sbc, neg, not, shl, shlc, shr, shrc} \cup Logic
  /\ sbc \notin {add, adc, sub, neg, not, shl, shlc, shr, shrc} \cup Logic
  /\ shl \notin {add, adc, sub, sbc, neg, not, shlc, shr, shrc} \cup Logic
  /\ shlc \notin {add, adc, sub, sbc, neg, not, shl, shr, shrc} \cup Logic
  /\ shr \notin {add, adc, sub, sbc, neg, not, shl, shlc, shrc} \cup Logic
  /\ shrc \notin {add, adc, sub, sbc, neg, not, shl, shlc, shr} \cup Logic
  BY DEF add, adc, sub, sbc, neg, not, shl, shlc, shr, shrc, AndCmds, OrCmds, XorCmds, Logic

LEMMA RawCases ==
  ASSUME NEW c, NEW x, NEW y
  PROVE  /\ Raw(add, c, x, y) = x + y
         /\ Raw(adc, c, x, y) = x + y + c
         /\ Raw(sub, c, x, y) = (x + Negated(sub, c, y)) % 65536
         /\ Raw(sbc, c, x, y) = (x + Negated(sbc, c, y)) % 65536
         /\ Raw(shl, c, x, y) = 2 * x
         /\ Raw(shlc, c, x, y) = 2 * x + c
         /\ Raw(shr, c, x, y) = x \div 2 + 256 * (x % 2)
         /\ Raw(shrc, c, x, y) = x \div 2 + 128 * c + 256 * (x % 2)
<1>1. Raw(add, c, x, y) = x + y /\ Raw(adc, c, x, y) = x + y + c
  BY CommandsDiffer, SMT DEF Raw, Logic
<1>2. /\ Raw(sub, c, x, y) = (x + Negated(sub, c, y)) % 65536
      /\ Raw(sbc, c, x, y) = (x + Negated(sbc, c, y)) % 65536
  BY CommandsDiffer, SMT DEF Raw, Logic
<1>3. Raw(shl, c, x, y) = 2 * x /\ Raw(shlc, c, x, y) = 2 * x + c
  BY CommandsDiffer, SMT DEF Raw, Logic
<1>4. /\ Raw(shr, c, x, y) = x \div 2 + 256 * (x % 2)
      /\ Raw(shrc, c, x, y) = x \div 2 + 128 * c + 256 * (x % 2)
  BY CommandsDiffer, SMT DEF Raw, Logic
<1> QED BY <1>1, <1>2, <1>3, <1>4

(* The addend of a subtraction: minus k in 16 bits. *)
LEMMA NegatedIs ==
  ASSUME NEW c \in Bits, NEW y \in Bytes
  PROVE  /\ Negated(sub, c, y) = IF y = 0 THEN 0 ELSE 65536 - y
         /\ Negated(sbc, c, y) = IF y + c = 0 THEN 0 ELSE 65536 - y - c
<1>1. sub # sbc
  BY DEF sub, sbc
<1>2. ASSUME NEW k \in Int, 0 <= k, k <= 256
      PROVE  (65536 - k) % 65536 = IF k = 0 THEN 0 ELSE 65536 - k
  BY <1>2, Wraps
<1>3. Negated(sub, c, y) = (65536 - y) % 65536
  BY <1>1 DEF Negated, Bytes
<1>4. Negated(sbc, c, y) = (65536 - (y + c)) % 65536
  BY DEF Negated, Bytes, Bits
<1>5. (65536 - y) % 65536 = IF y = 0 THEN 0 ELSE 65536 - y
  BY <1>2 DEF Bytes
<1>6. (65536 - (y + c)) % 65536 = IF y + c = 0 THEN 0 ELSE 65536 - (y + c)
  BY <1>2 DEF Bytes, Bits
<1> QED BY <1>3, <1>4, <1>5, <1>6 DEF Bits, Bytes

(* Raw of a subtraction: the difference in 16 bits. *)
LEMMA RawSubtracts ==
  ASSUME NEW c \in Bits, NEW x \in Bytes, NEW y \in Bytes
  PROVE  /\ Raw(sub, c, x, y) = IF x >= y THEN x - y ELSE 65536 + x - y
         /\ Raw(sbc, c, x, y) = IF x >= y + c THEN x - y - c ELSE 65536 + x - y - c
<1>1. ASSUME NEW k \in Int, 0 <= k, k <= 256, NEW n \in Int, n = IF k = 0 THEN 0 ELSE 65536 - k
      PROVE  (x + n) % 65536 = IF x >= k THEN x - k ELSE 65536 + x - k
  <2>1. CASE k = 0
    <3>1. x + n = x
      BY <1>1, <2>1 DEF Bytes
    <3>2. x % 65536 = x
      BY Wraps DEF Bytes
    <3> QED BY <2>1, <3>1, <3>2 DEF Bytes
  <2>2. CASE k > 0
    <3>1. x + n = x - k + 65536
      BY <1>1, <2>2 DEF Bytes
    <3>2. x < k => (x - k + 65536) % 65536 = x - k + 65536
      BY <1>1, Wraps DEF Bytes
    <3>3. x >= k => (x - k + 65536) % 65536 = x - k
      BY <1>1, Wraps DEF Bytes
    <3> QED BY <1>1, <3>1, <3>2, <3>3 DEF Bytes
  <2> QED BY <1>1, <2>1, <2>2
<1>2. Raw(sub, c, x, y) = IF x >= y THEN x - y ELSE 65536 + x - y
  <2> DEFINE n == Negated(sub, c, y)
  <2>1. n \in Int /\ n = IF y = 0 THEN 0 ELSE 65536 - y
    BY NegatedIs DEF Bytes
  <2>2. Raw(sub, c, x, y) = (x + n) % 65536
    BY RawCases
  <2> HIDE DEF n
  <2>3. (x + n) % 65536 = IF x >= y THEN x - y ELSE 65536 + x - y
    BY <1>1, <2>1 DEF Bytes
  <2> QED BY <2>2, <2>3
<1>3. Raw(sbc, c, x, y) = IF x >= y + c THEN x - y - c ELSE 65536 + x - y - c
  <2> DEFINE n == Negated(sbc, c, y)
             k == y + c
  <2>1. n \in Int /\ n = IF k = 0 THEN 0 ELSE 65536 - k
    BY NegatedIs DEF Bytes, Bits
  <2>2. Raw(sbc, c, x, y) = (x + n) % 65536
    BY RawCases
  <2>3. k \in Int /\ 0 <= k /\ k <= 256
    BY DEF Bytes, Bits
  <2> HIDE DEF n, k
  <2>4. (x + n) % 65536 = IF x >= k THEN x - k ELSE 65536 + x - k
    BY <1>1, <2>1, <2>3
  <2>5. k = y + c
    BY DEF k
  <2> QED BY <2>2, <2>4, <2>5 DEF Bytes, Bits
<1> QED BY <1>2, <1>3

(* The byte and the carry of a sum, and of a difference.                     *)
SumByte(v)  == IF v < 256 THEN v ELSE v - 256
SumCarry(v) == IF v < 256 THEN 0 ELSE 1
DiffByte(d) == IF d >= 0 THEN d ELSE 256 + d
Borrow(d)   == IF d >= 0 THEN 0 ELSE 1

(* A command on bytes gives this byte and this carry, zero and sign flag.    *)
Gives(cmd, c, x, y, byte, carry) ==
  LET r == ResultFlags(cmd, c, x, y)
  IN  /\ Result(cmd, c, x, y) = byte /\ byte \in Bytes
      /\ r \in Flags
      /\ r.c = carry
      /\ r.z = IF byte = 0 THEN 1 ELSE 0
      /\ r.s = IF byte >= 128 THEN 1 ELSE 0

LEMMA FlagsAre ==
  ASSUME NEW cmd, NEW c, NEW x, NEW y, NEW byte \in Bytes, NEW carry \in Bits,
         Raw(cmd, c, x, y) % 256 = byte,
         Bit(Raw(cmd, c, x, y), 8) = carry,
         Sign(Raw(cmd, c, x, y)) = IF byte >= 128 THEN 1 ELSE 0
  PROVE  Gives(cmd, c, x, y, byte, carry)
<1>1. Result(cmd, c, x, y) = byte
  BY DEF Result
<1>2. ResultFlags(cmd, c, x, y) =
        [c |-> carry, z |-> IF byte = 0 THEN 1 ELSE 0, s |-> IF byte >= 128 THEN 1 ELSE 0,
         o |-> IF Overflows(cmd, c, x, y) THEN 1 ELSE 0]
  BY DEF ResultFlags
<1> QED BY <1>1, <1>2 DEF Gives, Flags, Bits

LEMMA OfNineBits ==
  ASSUME NEW cmd, NEW c, NEW x, NEW y, NEW v \in Int, 0 <= v, v < 512,
         Raw(cmd, c, x, y) = v
  PROVE  Gives(cmd, c, x, y, SumByte(v), SumCarry(v))
<1>1. SumByte(v) \in Bytes /\ SumCarry(v) \in Bits
  BY DEF Bytes, Bits, SumByte, SumCarry
<1>2. /\ v % 256 = SumByte(v) /\ Bit(v, 8) = SumCarry(v)
      /\ Sign(v) = IF SumByte(v) >= 128 THEN 1 ELSE 0
  BY NineBits DEF SumByte, SumCarry
<1> QED BY <1>1, <1>2, FlagsAre

LEMMA OfDifference ==
  ASSUME NEW cmd, NEW c, NEW x, NEW y, NEW d \in Int, -256 <= d, d < 256,
         Raw(cmd, c, x, y) = IF d >= 0 THEN d ELSE 65536 + d
  PROVE  Gives(cmd, c, x, y, DiffByte(d), Borrow(d))
<1>1. CASE d >= 0
  <2>1. Gives(cmd, c, x, y, SumByte(d), SumCarry(d))
    BY <1>1, OfNineBits
  <2>2. SumByte(d) = DiffByte(d) /\ SumCarry(d) = Borrow(d)
    BY <1>1 DEF SumByte, SumCarry, DiffByte, Borrow
  <2> QED BY <2>1, <2>2
<1>2. CASE d < 0
  <2> DEFINE v == 65536 + d
  <2>1. v \in Int /\ 65280 <= v /\ v < 65536 /\ Raw(cmd, c, x, y) = v /\ v - 65280 = 256 + d
    BY <1>2
  <2>2. DiffByte(d) = 256 + d /\ Borrow(d) = 1 /\ DiffByte(d) \in Bytes /\ Borrow(d) \in Bits
    BY <1>2 DEF Bytes, Bits, DiffByte, Borrow
  <2> HIDE DEF v
  <2>3. v % 256 = 256 + d /\ Bit(v, 8) = 1 /\ Sign(v) = IF 256 + d >= 128 THEN 1 ELSE 0
    BY <2>1, NegativeBits
  <2> QED BY <2>1, <2>2, <2>3, FlagsAre
<1> QED BY <1>1, <1>2

(* What each command that words are made with gives.                         *)
LEMMA AddGives ==
  ASSUME NEW c \in Bits, NEW x \in Bytes, NEW y \in Bytes
  PROVE  Gives(add, c, x, y, SumByte(x + y), SumCarry(x + y))
<1> DEFINE v == x + y
<1>0. /\ c \in Int /\ x \in Int /\ y \in Int
      /\ 0 <= c /\ c <= 1 /\ 0 <= x /\ x <= 255 /\ 0 <= y /\ y <= 255
  BY DEF Bits, Bytes
<1>1. v \in Int /\ 0 <= v /\ v < 512
  BY <1>0
<1>2. Raw(add, c, x, y) = v
  BY RawCases
<1> HIDE DEF v
<1>3. Gives(add, c, x, y, SumByte(v), SumCarry(v))
  BY <1>1, <1>2, OfNineBits
<1> QED BY <1>3 DEF v

LEMMA AdcGives ==
  ASSUME NEW c \in Bits, NEW x \in Bytes, NEW y \in Bytes
  PROVE  Gives(adc, c, x, y, SumByte(x + y + c), SumCarry(x + y + c))
<1> DEFINE v == x + y + c
<1>0. /\ c \in Int /\ x \in Int /\ y \in Int
      /\ 0 <= c /\ c <= 1 /\ 0 <= x /\ x <= 255 /\ 0 <= y /\ y <= 255
  BY DEF Bits, Bytes
<1>1. v \in Int /\ 0 <= v /\ v < 512
  BY <1>0
<1>2. Raw(adc, c, x, y) = v
  BY RawCases
<1> HIDE DEF v
<1>3. Gives(adc, c, x, y, SumByte(v), SumCarry(v))
  BY <1>1, <1>2, OfNineBits
<1> QED BY <1>3 DEF v

LEMMA SubGives ==
  ASSUME NEW c \in Bits, NEW x \in Bytes, NEW y \in Bytes
  PROVE  Gives(sub, c, x, y, DiffByte(x - y), Borrow(x - y))
<1> DEFINE d == x - y
<1>0. /\ c \in Int /\ x \in Int /\ y \in Int
      /\ 0 <= c /\ c <= 1 /\ 0 <= x /\ x <= 255 /\ 0 <= y /\ y <= 255
  BY DEF Bits, Bytes
<1>1. d \in Int /\ -256 <= d /\ d < 256
  BY <1>0
<1>2. Raw(sub, c, x, y) = IF d >= 0 THEN d ELSE 65536 + d
  <2>1. Raw(sub, c, x, y) = IF x >= y THEN x - y ELSE 65536 + x - y
    BY RawSubtracts
  <2>2. (x >= y <=> d >= 0) /\ 65536 + d = 65536 + x - y
    BY <1>0
  <2> QED BY <2>1, <2>2
<1> HIDE DEF d
<1>3. Gives(sub, c, x, y, DiffByte(d), Borrow(d))
  BY <1>1, <1>2, OfDifference
<1> QED BY <1>3 DEF d

LEMMA SbcGives ==
  ASSUME NEW c \in Bits, NEW x \in Bytes, NEW y \in Bytes
  PROVE  Gives(sbc, c, x, y, DiffByte(x - y - c), Borrow(x - y - c))
<1> DEFINE d == x - y - c
<1>0. /\ c \in Int /\ x \in Int /\ y \in Int
      /\ 0 <= c /\ c <= 1 /\ 0 <= x /\ x <= 255 /\ 0 <= y /\ y <= 255
  BY DEF Bits, Bytes
<1>1. d \in Int /\ -256 <= d /\ d < 256
  BY <1>0
<1>2. Raw(sbc, c, x, y) = IF d >= 0 THEN d ELSE 65536 + d
  <2>1. Raw(sbc, c, x, y) = IF x >= y + c THEN x - y - c ELSE 65536 + x - y - c
    BY RawSubtracts
  <2>2. (x >= y + c <=> d >= 0) /\ 65536 + d = 65536 + x - y - c
    BY <1>0
  <2> QED BY <2>1, <2>2
<1> HIDE DEF d
<1>3. Gives(sbc, c, x, y, DiffByte(d), Borrow(d))
  BY <1>1, <1>2, OfDifference
<1> QED BY <1>3 DEF d

LEMMA ShlGives ==
  ASSUME NEW c \in Bits, NEW x \in Bytes, NEW y \in Bytes
  PROVE  Gives(shl, c, x, y, SumByte(2 * x), SumCarry(2 * x))
<1> DEFINE v == 2 * x
<1>0. /\ c \in Int /\ x \in Int /\ y \in Int
      /\ 0 <= c /\ c <= 1 /\ 0 <= x /\ x <= 255 /\ 0 <= y /\ y <= 255
  BY DEF Bits, Bytes
<1>1. v \in Int /\ 0 <= v /\ v < 512
  BY <1>0
<1>2. Raw(shl, c, x, y) = v
  BY RawCases
<1> HIDE DEF v
<1>3. Gives(shl, c, x, y, SumByte(v), SumCarry(v))
  BY <1>1, <1>2, OfNineBits
<1> QED BY <1>3 DEF v

LEMMA ShlcGives ==
  ASSUME NEW c \in Bits, NEW x \in Bytes, NEW y \in Bytes
  PROVE  Gives(shlc, c, x, y, SumByte(2 * x + c), SumCarry(2 * x + c))
<1> DEFINE v == 2 * x + c
<1>0. /\ c \in Int /\ x \in Int /\ y \in Int
      /\ 0 <= c /\ c <= 1 /\ 0 <= x /\ x <= 255 /\ 0 <= y /\ y <= 255
  BY DEF Bits, Bytes
<1>1. v \in Int /\ 0 <= v /\ v < 512
  BY <1>0
<1>2. Raw(shlc, c, x, y) = v
  BY RawCases
<1> HIDE DEF v
<1>3. Gives(shlc, c, x, y, SumByte(v), SumCarry(v))
  BY <1>1, <1>2, OfNineBits
<1> QED BY <1>3 DEF v

LEMMA ShrGives ==
  ASSUME NEW c \in Bits, NEW x \in Bytes, NEW y \in Bytes
  PROVE  Gives(shr, c, x, y, x \div 2, x % 2)
<1> DEFINE q == x \div 2
           r == x % 2
<1>0. /\ c \in Int /\ x \in Int /\ y \in Int
      /\ 0 <= c /\ c <= 1 /\ 0 <= x /\ x <= 255 /\ 0 <= y /\ y <= 255
  BY DEF Bits, Bytes
<1>1. q \in Int /\ 0 <= q /\ q < 128 /\ r \in 0 .. 1
  BY <1>0
<1>2. Raw(shr, c, x, y) = q + 256 * r
  BY RawCases
<1> HIDE DEF q, r
<1> DEFINE v == q + 256 * r
<1>3. v \in Int /\ 0 <= v /\ v < 512
  BY <1>0, <1>1
<1>4. Gives(shr, c, x, y, SumByte(v), SumCarry(v))
  BY <1>2, <1>3, OfNineBits
<1>5. SumByte(v) = q /\ SumCarry(v) = r
  BY <1>0, <1>1 DEF SumByte, SumCarry
<1>6. Gives(shr, c, x, y, q, r)
  BY <1>4, <1>5
<1> QED BY <1>6 DEF q, r

LEMMA ShrcGives ==
  ASSUME NEW c \in Bits, NEW x \in Bytes, NEW y \in Bytes
  PROVE  Gives(shrc, c, x, y, x \div 2 + 128 * c, x % 2)
<1> DEFINE q == x \div 2
           r == x % 2
<1>0. /\ c \in Int /\ x \in Int /\ y \in Int
      /\ 0 <= c /\ c <= 1 /\ 0 <= x /\ x <= 255 /\ 0 <= y /\ y <= 255
  BY DEF Bits, Bytes
<1>1. q \in Int /\ 0 <= q /\ q < 128 /\ r \in 0 .. 1
  BY <1>0
<1>2. Raw(shrc, c, x, y) = q + 128 * c + 256 * r
  BY RawCases
<1> HIDE DEF q, r
<1> DEFINE v == q + 128 * c + 256 * r
<1>3. v \in Int /\ 0 <= v /\ v < 512
  BY <1>0, <1>1
<1>4. Gives(shrc, c, x, y, SumByte(v), SumCarry(v))
  BY <1>2, <1>3, OfNineBits
<1>5. SumByte(v) = q + 128 * c /\ SumCarry(v) = r
  BY <1>0, <1>1 DEF SumByte, SumCarry
<1>6. Gives(shrc, c, x, y, q + 128 * c, r)
  BY <1>4, <1>5
<1> QED BY <1>6 DEF q, r

-----------------------------------------------------------------------------
LEMMA WordParts ==
  ASSUME NEW w \in Words
  PROVE  /\ Low(w) \in Bytes /\ High(w) \in Bytes
         /\ w = Low(w) + 256 * High(w)
<1> DEFINE q == w \div 256
           r == w % 256
<1>1. w \in Int /\ 0 <= w /\ w < 65536
  BY WordAluAssumption
<1>2. q \in Int /\ r \in Int /\ 0 <= r /\ r < 256 /\ w = q * 256 + r
  BY <1>1
<1> HIDE DEF q, r
<1>3. 0 <= q /\ q < 256
  BY <1>1, <1>2
<1>4. q \in Bytes /\ r \in Bytes
  BY <1>2, <1>3 DEF Bytes
<1> QED BY <1>2, <1>4 DEF Low, High, q, r

(* What the first command leaves: its byte, and the carry for the second.    *)
Halfway ==
  /\ op = "add" => low = SumByte(Low(a) + Low(b)) /\ f.c = SumCarry(Low(a) + Low(b))
  /\ op = "sub" => low = DiffByte(Low(a) - Low(b)) /\ f.c = Borrow(Low(a) - Low(b))
  /\ op = "shl" => low = SumByte(2 * Low(a)) /\ f.c = SumCarry(2 * Low(a))
  /\ op = "shr" => high = High(a) \div 2 /\ f.c = High(a) % 2
  /\ f.z = IF (IF LowFirst THEN low ELSE high) = 0 THEN 1 ELSE 0

TypeOK ==
  /\ op \in Ops /\ a \in Words /\ b \in Words
  /\ f \in Flags /\ low \in Bytes /\ high \in Bytes
  /\ pc \in {"first", "second", "done"}

WordInv ==
  /\ TypeOK
  /\ pc = "second" => Halfway
  /\ WordResult
  /\ JumpsCompare

LEMMA InitWord == Init => WordInv
<1> SUFFICES ASSUME Init PROVE WordInv
  OBVIOUS
<1>1. TypeOK
  BY WordAluAssumption DEF Init, TypeOK, Bytes
<1>2. pc = "first"
  BY DEF Init
<1> QED BY <1>1, <1>2 DEF WordInv, WordResult, JumpsCompare

(* The first commands are even: the flags are those of ResultFlags.          *)
LEMMA FirstFlags ==
  ASSUME NEW cmd \in {add, sub, shl, shr}, NEW g, NEW x, NEW y
  PROVE  NextFlags(cmd, g, x, y) = ResultFlags(cmd, g.c, x, y)
<1>1. 0 % 2 = 0 /\ 2 % 2 = 0 /\ 12 % 2 = 0 /\ 14 % 2 = 0
  OBVIOUS
<1>2. cmd % 2 # 1
  BY <1>1 DEF add, sub, shl, shr
<1> QED BY <1>2 DEF NextFlags

(* The second ones are odd: zero is kept only if it was set.                 *)
LEMMA SecondFlags ==
  ASSUME NEW cmd \in {adc, sbc, shlc, shrc}, NEW g, NEW x, NEW y
  PROVE  NextFlags(cmd, g, x, y) = [ResultFlags(cmd, g.c, x, y) EXCEPT !.z = @ * g.z]
<1>1. 1 % 2 = 1 /\ 3 % 2 = 1 /\ 13 % 2 = 1 /\ 15 % 2 = 1
  OBVIOUS
<1>2. cmd % 2 = 1
  BY <1>1 DEF adc, sbc, shlc, shrc
<1> QED BY <1>2 DEF NextFlags

LEMMA FirstLeaves ==
  ASSUME WordInv, First
  PROVE  TypeOK' /\ Halfway'
<1>1. /\ op \in Ops /\ a \in Words /\ b \in Words /\ f \in Flags
      /\ low \in Bytes /\ high \in Bytes /\ f.c \in Bits
      /\ pc' = "second" /\ op' = op /\ a' = a /\ b' = b
  BY DEF WordInv, TypeOK, First, Flags
<1>2. Low(a) \in Bytes /\ High(a) \in Bytes /\ Low(b) \in Bytes /\ High(b) \in Bytes
  BY <1>1, WordParts
<1>3. CASE op = "add"
  <2> DEFINE byte == SumByte(Low(a) + Low(b))
             carry == SumCarry(Low(a) + Low(b))
  <2>1. Gives(add, f.c, Low(a), Low(b), byte, carry)
    BY <1>1, <1>2, AddGives
  <2>2. /\ low' = Result(add, f.c, Low(a), Low(b)) /\ high' = high
        /\ f' = ResultFlags(add, f.c, Low(a), Low(b))
    BY <1>3, FirstFlags DEF First, LowFirst, DoLow, FirstCmd
  <2> HIDE DEF byte, carry
  <2>3. /\ low' = byte /\ byte \in Bytes /\ f' \in Flags /\ f'.c = carry
        /\ f'.z = IF byte = 0 THEN 1 ELSE 0
    BY <2>1, <2>2 DEF Gives
  <2>4. Halfway'
    BY <1>1, <1>3, <2>3 DEF Halfway, LowFirst, byte, carry
  <2> QED BY <1>1, <2>2, <2>3, <2>4 DEF TypeOK
<1>4. CASE op = "sub"
  <2> DEFINE byte == DiffByte(Low(a) - Low(b))
             carry == Borrow(Low(a) - Low(b))
  <2>1. Gives(sub, f.c, Low(a), Low(b), byte, carry)
    BY <1>1, <1>2, SubGives
  <2>2. /\ low' = Result(sub, f.c, Low(a), Low(b)) /\ high' = high
        /\ f' = ResultFlags(sub, f.c, Low(a), Low(b))
    BY <1>4, FirstFlags DEF First, LowFirst, DoLow, FirstCmd
  <2> HIDE DEF byte, carry
  <2>3. /\ low' = byte /\ byte \in Bytes /\ f' \in Flags /\ f'.c = carry
        /\ f'.z = IF byte = 0 THEN 1 ELSE 0
    BY <2>1, <2>2 DEF Gives
  <2>4. Halfway'
    BY <1>1, <1>4, <2>3 DEF Halfway, LowFirst, byte, carry
  <2> QED BY <1>1, <2>2, <2>3, <2>4 DEF TypeOK
<1>5. CASE op = "shl"
  <2> DEFINE byte == SumByte(2 * Low(a))
             carry == SumCarry(2 * Low(a))
  <2>1. Gives(shl, f.c, Low(a), Low(b), byte, carry)
    BY <1>1, <1>2, ShlGives
  <2>2. /\ low' = Result(shl, f.c, Low(a), Low(b)) /\ high' = high
        /\ f' = ResultFlags(shl, f.c, Low(a), Low(b))
    BY <1>5, FirstFlags DEF First, LowFirst, DoLow, FirstCmd
  <2> HIDE DEF byte, carry
  <2>3. /\ low' = byte /\ byte \in Bytes /\ f' \in Flags /\ f'.c = carry
        /\ f'.z = IF byte = 0 THEN 1 ELSE 0
    BY <2>1, <2>2 DEF Gives
  <2>4. Halfway'
    BY <1>1, <1>5, <2>3 DEF Halfway, LowFirst, byte, carry
  <2> QED BY <1>1, <2>2, <2>3, <2>4 DEF TypeOK
<1>6. CASE op = "shr"
  <2> DEFINE byte == High(a) \div 2
             carry == High(a) % 2
  <2>1. Gives(shr, f.c, High(a), High(b), byte, carry)
    BY <1>1, <1>2, ShrGives
  <2>2. /\ high' = Result(shr, f.c, High(a), High(b)) /\ low' = low
        /\ f' = ResultFlags(shr, f.c, High(a), High(b))
    BY <1>6, FirstFlags DEF First, LowFirst, DoHigh, FirstCmd
  <2> HIDE DEF byte, carry
  <2>3. /\ high' = byte /\ byte \in Bytes /\ f' \in Flags /\ f'.c = carry
        /\ f'.z = IF byte = 0 THEN 1 ELSE 0
    BY <2>1, <2>2 DEF Gives
  <2>4. Halfway'
    BY <1>1, <1>6, <2>3 DEF Halfway, LowFirst, byte, carry
  <2> QED BY <1>1, <2>2, <2>3, <2>4 DEF TypeOK
<1> QED BY <1>1, <1>3, <1>4, <1>5, <1>6 DEF Ops

LEMMA FirstKeeps == WordInv /\ First => WordInv'
<1> SUFFICES ASSUME WordInv, First PROVE WordInv'
  OBVIOUS
<1>1. TypeOK' /\ Halfway' /\ pc' = "second"
  BY FirstLeaves DEF First
<1> QED BY <1>1 DEF WordInv, WordResult, JumpsCompare

-----------------------------------------------------------------------------
(* Two bytes and a carry make a word: the arithmetic of Second.              *)
LEMMA WordSum ==
  ASSUME NEW l \in Bytes, NEW h \in Bytes, NEW m \in Bytes, NEW k \in Bytes
  PROVE  LET c == SumCarry(l + m)
             v == (l + 256 * h) + (m + 256 * k)
         IN  /\ SumByte(l + m) + 256 * SumByte(h + k + c) = v % 65536
             /\ SumCarry(h + k + c) = 1 <=> v > 65535
<1> DEFINE c  == SumCarry(l + m)
           d  == SumCarry(h + k + c)
           lo == SumByte(l + m)
           hi == SumByte(h + k + c)
           v  == (l + 256 * h) + (m + 256 * k)
<1>1. /\ l \in Int /\ h \in Int /\ m \in Int /\ k \in Int
      /\ 0 <= l /\ l <= 255 /\ 0 <= h /\ h <= 255 /\ 0 <= m /\ m <= 255 /\ 0 <= k /\ k <= 255
  BY DEF Bytes
<1>2. v \in Int /\ 0 <= v /\ v < 131072
  BY <1>1
<1>3. /\ v = IF d = 1 THEN lo + 256 * hi + 65536 ELSE lo + 256 * hi
      /\ d \in {0, 1} /\ lo \in Int /\ hi \in Int
      /\ 0 <= lo /\ lo < 256 /\ 0 <= hi /\ hi < 256
  BY <1>1 DEF SumByte, SumCarry
<1> HIDE DEF c, d, lo, hi, v
<1>4. d = 1 <=> v >= 65536
  BY <1>2, <1>3
<1>5. lo + 256 * hi = v % 65536
  <2>1. d = 1 => v % 65536 = v - 65536
    BY <1>2, <1>4, Wraps
  <2>2. d # 1 => v % 65536 = v
    BY <1>2, <1>4, Wraps
  <2> QED BY <1>2, <1>3, <2>1, <2>2
<1>6. d = 1 <=> v > 65535
  BY <1>2, <1>4
<1> QED BY <1>5, <1>6 DEF c, d, lo, hi, v

LEMMA WordDifference ==
  ASSUME NEW l \in Bytes, NEW h \in Bytes, NEW m \in Bytes, NEW k \in Bytes
  PROVE  LET c == Borrow(l - m)
             x == l + 256 * h
             y == m + 256 * k
         IN  /\ DiffByte(l - m) + 256 * DiffByte(h - k - c) = (x - y) % 65536
             /\ Borrow(h - k - c) = 1 <=> x < y
<1> DEFINE c  == Borrow(l - m)
           d  == Borrow(h - k - c)
           lo == DiffByte(l - m)
           hi == DiffByte(h - k - c)
           x  == l + 256 * h
           y  == m + 256 * k
           v  == x - y
<1>1. /\ l \in Int /\ h \in Int /\ m \in Int /\ k \in Int
      /\ 0 <= l /\ l <= 255 /\ 0 <= h /\ h <= 255 /\ 0 <= m /\ m <= 255 /\ 0 <= k /\ k <= 255
  BY DEF Bytes
<1>2. v \in Int /\ -65536 <= v /\ v < 65536 /\ (x < y <=> v < 0)
  BY <1>1
<1>3. /\ v = IF d = 1 THEN lo + 256 * hi - 65536 ELSE lo + 256 * hi
      /\ d \in {0, 1} /\ lo \in Int /\ hi \in Int
      /\ 0 <= lo /\ lo < 256 /\ 0 <= hi /\ hi < 256
  BY <1>1 DEF DiffByte, Borrow
<1> HIDE DEF c, d, lo, hi, v, x, y
<1>4. d = 1 <=> v < 0
  BY <1>2, <1>3
<1>5. lo + 256 * hi = v % 65536
  <2>1. d = 1 => v % 65536 = v + 65536
    BY <1>2, <1>4, Wraps
  <2>2. d # 1 => v % 65536 = v
    BY <1>2, <1>4, Wraps
  <2> QED BY <1>2, <1>3, <2>1, <2>2
<1>6. d = 1 <=> x < y
  BY <1>2, <1>4
<1> QED BY <1>5, <1>6 DEF c, d, lo, hi, v, x, y

LEMMA WordDouble ==
  ASSUME NEW l \in Bytes, NEW h \in Bytes
  PROVE  LET c == SumCarry(2 * l)
             x == l + 256 * h
         IN  /\ SumByte(2 * l) + 256 * SumByte(2 * h + c) = (2 * x) % 65536
             /\ SumCarry(2 * h + c) = 1 <=> x > 32767
<1> DEFINE c  == SumCarry(2 * l)
           d  == SumCarry(2 * h + c)
           lo == SumByte(2 * l)
           hi == SumByte(2 * h + c)
           x  == l + 256 * h
           v  == 2 * x
<1>1. l \in Int /\ h \in Int /\ 0 <= l /\ l <= 255 /\ 0 <= h /\ h <= 255
  BY DEF Bytes
<1>2. v \in Int /\ 0 <= v /\ v < 131072 /\ (v >= 65536 <=> x > 32767)
  BY <1>1
<1>3. /\ v = IF d = 1 THEN lo + 256 * hi + 65536 ELSE lo + 256 * hi
      /\ d \in {0, 1} /\ lo \in Int /\ hi \in Int
      /\ 0 <= lo /\ lo < 256 /\ 0 <= hi /\ hi < 256
  BY <1>1 DEF SumByte, SumCarry
<1> HIDE DEF c, d, lo, hi, v, x
<1>4. d = 1 <=> v >= 65536
  BY <1>2, <1>3
<1>5. lo + 256 * hi = v % 65536
  <2>1. d = 1 => v % 65536 = v - 65536
    BY <1>2, <1>4, Wraps
  <2>2. d # 1 => v % 65536 = v
    BY <1>2, <1>4, Wraps
  <2> QED BY <1>2, <1>3, <2>1, <2>2
<1>6. d = 1 <=> x > 32767
  BY <1>2, <1>4
<1> QED BY <1>5, <1>6 DEF c, d, lo, hi, v, x

(* Halving: the low bit of the high byte goes into the low one.              *)
LEMMA WordHalf ==
  ASSUME NEW l \in Bytes, NEW h \in Bytes
  PROVE  LET x == l + 256 * h
         IN  /\ (l \div 2 + 128 * (h % 2)) + 256 * (h \div 2) = x \div 2
             /\ l % 2 = x % 2
<1> DEFINE x == l + 256 * h
           p == l \div 2
           r == l % 2
           q == h \div 2
           s == h % 2
<1>1. /\ l \in Int /\ h \in Int
      /\ 0 <= l /\ l <= 255 /\ 0 <= h /\ h <= 255
  BY DEF Bytes
<1>2. p \in Int /\ q \in Int /\ r \in 0 .. 1 /\ s \in 0 .. 1 /\ l = p * 2 + r /\ h = q * 2 + s
  BY <1>1
<1> HIDE DEF p, q, r, s
<1> DEFINE n == p + 128 * s + 256 * q
<1>3. n \in Int /\ x \in Int /\ x = n * 2 + r /\ n * 2 <= x /\ x < n * 2 + 2
  BY <1>2
<1> HIDE DEF n, x
<1>4. x \div 2 = n /\ x % 2 = x - n * 2
  BY <1>3, Quotient, 2 \in Nat \ {0}
<1>5. x - n * 2 = r
  BY <1>2, <1>3
<1>6. p + 128 * s + 256 * q = x \div 2 /\ r = x % 2
  BY <1>4, <1>5 DEF n
<1> QED BY <1>6 DEF p, q, r, s, x

LEMMA SecondGives ==
  ASSUME NEW cmd \in {adc, sbc, shlc, shrc}, NEW g \in Flags, NEW x, NEW y,
         NEW byte, NEW carry, Gives(cmd, g.c, x, y, byte, carry),
         NEW n, n = NextFlags(cmd, g, x, y)
  PROVE  /\ n \in Flags /\ n.c = carry
         /\ n.z = (IF byte = 0 THEN g.z ELSE 0)
         /\ n.s = (IF byte >= 128 THEN 1 ELSE 0)
         /\ n.o = ResultFlags(cmd, g.c, x, y).o
<1> DEFINE r == ResultFlags(cmd, g.c, x, y)
<1>1. n = [r EXCEPT !.z = @ * g.z]
  BY SecondFlags
<1>2. r \in Flags /\ r.c = carry /\ r.z = (IF byte = 0 THEN 1 ELSE 0)
      /\ r.s = (IF byte >= 128 THEN 1 ELSE 0)
  BY DEF Gives
<1> HIDE DEF r
<1>3. r.z * g.z = IF byte = 0 THEN g.z ELSE 0
  <2>1. g.z \in Bits
    BY DEF Flags
  <2> QED BY <1>2, <2>1 DEF Bits
<1>4. g.z \in Bits /\ 0 \in Bits
  BY DEF Flags, Bits
<1>5. n = [c |-> r.c, z |-> IF byte = 0 THEN g.z ELSE 0, s |-> r.s, o |-> r.o]
  BY <1>1, <1>2, <1>3 DEF Flags
<1> QED BY <1>2, <1>4, <1>5 DEF Flags, r

(* Both bytes are zero when the number is.                                   *)
LEMMA ZeroWord ==
  ASSUME NEW l \in Bytes, NEW h \in Bytes
  PROVE  l + 256 * h = 0 <=> l = 0 /\ h = 0
  BY DEF Bytes

LEMMA SecondLeaves ==
  ASSUME WordInv, Second
  PROVE  TypeOK' /\ WordResult'
<1>1. /\ op \in Ops /\ a \in Words /\ b \in Words /\ f \in Flags
      /\ low \in Bytes /\ high \in Bytes /\ f.c \in Bits /\ Halfway
      /\ pc' = "done" /\ op' = op /\ a' = a /\ b' = b
  BY DEF WordInv, TypeOK, Second, Flags
<1>2. /\ Low(a) \in Bytes /\ High(a) \in Bytes /\ Low(b) \in Bytes /\ High(b) \in Bytes
      /\ a = Low(a) + 256 * High(a) /\ b = Low(b) + 256 * High(b)
  BY <1>1, WordParts
<1>3. TypeOK' <=> f' \in Flags /\ low' \in Bytes /\ high' \in Bytes
  BY <1>1 DEF TypeOK
<1>4. low' \in Bytes /\ high' \in Bytes => (Value' = 0 <=> low' = 0 /\ high' = 0)
  BY ZeroWord DEF Value
<1>5. CASE op = "add"
  <2> DEFINE byte == SumByte(High(a) + High(b) + f.c)
             carry == SumCarry(High(a) + High(b) + f.c)
  <2>1. low = SumByte(Low(a) + Low(b)) /\ f.c = SumCarry(Low(a) + Low(b))
    BY <1>1, <1>5 DEF Halfway
  <2>2. f.z = IF low = 0 THEN 1 ELSE 0
    BY <1>1, <1>5 DEF Halfway, LowFirst
  <2>3. Gives(adc, f.c, High(a), High(b), byte, carry)
    BY <1>1, <1>2, AdcGives
  <2>4. /\ high' = Result(adc, f.c, High(a), High(b)) /\ low' = low
        /\ f' = NextFlags(adc, f, High(a), High(b))
    BY <1>5 DEF Second, LowFirst, DoHigh, SecondCmd
  <2>5. low + 256 * byte = (a + b) % 65536 /\ (carry = 1 <=> a + b > 65535)
    BY <1>1, <1>2, <2>1, WordSum
  <2> HIDE DEF byte, carry
  <2>6. high' = byte /\ byte \in Bytes
    BY <2>3, <2>4 DEF Gives
  <2>7. f' \in Flags /\ f'.c = carry /\ f'.z = IF byte = 0 THEN f.z ELSE 0
    BY <1>1, <2>3, <2>4, SecondGives
  <2>8. low' \in Bytes /\ high' \in Bytes /\ (f'.z = 1 <=> Value' = 0)
    BY <1>1, <1>4, <2>2, <2>4, <2>6, <2>7
  <2>9. Value' = (a + b) % 65536 /\ (f'.c = 1) = (a + b > 65535)
    BY <2>4, <2>5, <2>6, <2>7 DEF Value
  <2> QED BY <1>1, <1>3, <1>5, <2>7, <2>8, <2>9 DEF WordResult
<1>6. CASE op = "sub"
  <2> DEFINE byte == DiffByte(High(a) - High(b) - f.c)
             carry == Borrow(High(a) - High(b) - f.c)
  <2>1. low = DiffByte(Low(a) - Low(b)) /\ f.c = Borrow(Low(a) - Low(b))
    BY <1>1, <1>6 DEF Halfway
  <2>2. f.z = IF low = 0 THEN 1 ELSE 0
    BY <1>1, <1>6 DEF Halfway, LowFirst
  <2>3. Gives(sbc, f.c, High(a), High(b), byte, carry)
    BY <1>1, <1>2, SbcGives
  <2>4. /\ high' = Result(sbc, f.c, High(a), High(b)) /\ low' = low
        /\ f' = NextFlags(sbc, f, High(a), High(b))
    BY <1>6 DEF Second, LowFirst, DoHigh, SecondCmd
  <2>5. low + 256 * byte = (a - b) % 65536 /\ (carry = 1 <=> a < b)
    BY <1>1, <1>2, <2>1, WordDifference
  <2> HIDE DEF byte, carry
  <2>6. high' = byte /\ byte \in Bytes
    BY <2>3, <2>4 DEF Gives
  <2>7. f' \in Flags /\ f'.c = carry /\ f'.z = IF byte = 0 THEN f.z ELSE 0
    BY <1>1, <2>3, <2>4, SecondGives
  <2>8. low' \in Bytes /\ high' \in Bytes /\ (f'.z = 1 <=> Value' = 0)
    BY <1>1, <1>4, <2>2, <2>4, <2>6, <2>7
  <2>9. Value' = (a - b) % 65536 /\ (f'.c = 1) = (a < b)
    BY <2>4, <2>5, <2>6, <2>7 DEF Value
  <2> QED BY <1>1, <1>3, <1>6, <2>7, <2>8, <2>9 DEF WordResult
<1>7. CASE op = "shl"
  <2> DEFINE byte == SumByte(2 * High(a) + f.c)
             carry == SumCarry(2 * High(a) + f.c)
  <2>1. low = SumByte(2 * Low(a)) /\ f.c = SumCarry(2 * Low(a))
    BY <1>1, <1>7 DEF Halfway
  <2>2. f.z = IF low = 0 THEN 1 ELSE 0
    BY <1>1, <1>7 DEF Halfway, LowFirst
  <2>3. Gives(shlc, f.c, High(a), High(b), byte, carry)
    BY <1>1, <1>2, ShlcGives
  <2>4. /\ high' = Result(shlc, f.c, High(a), High(b)) /\ low' = low
        /\ f' = NextFlags(shlc, f, High(a), High(b))
    BY <1>7 DEF Second, LowFirst, DoHigh, SecondCmd
  <2>5. low + 256 * byte = (2 * a) % 65536 /\ (carry = 1 <=> a > 32767)
    BY <1>1, <1>2, <2>1, WordDouble
  <2> HIDE DEF byte, carry
  <2>6. high' = byte /\ byte \in Bytes
    BY <2>3, <2>4 DEF Gives
  <2>7. f' \in Flags /\ f'.c = carry /\ f'.z = IF byte = 0 THEN f.z ELSE 0
    BY <1>1, <2>3, <2>4, SecondGives
  <2>8. low' \in Bytes /\ high' \in Bytes /\ (f'.z = 1 <=> Value' = 0)
    BY <1>1, <1>4, <2>2, <2>4, <2>6, <2>7
  <2>9. Value' = (2 * a) % 65536 /\ (f'.c = 1) = (a > 32767)
    BY <2>4, <2>5, <2>6, <2>7 DEF Value
  <2> QED BY <1>1, <1>3, <1>7, <2>7, <2>8, <2>9 DEF WordResult
<1>8. CASE op = "shr"
  <2> DEFINE byte == Low(a) \div 2 + 128 * f.c
             carry == Low(a) % 2
  <2>1. high = High(a) \div 2 /\ f.c = High(a) % 2
    BY <1>1, <1>8 DEF Halfway
  <2>2. f.z = IF high = 0 THEN 1 ELSE 0
    BY <1>1, <1>8 DEF Halfway, LowFirst
  <2>3. Gives(shrc, f.c, Low(a), Low(b), byte, carry)
    BY <1>1, <1>2, ShrcGives
  <2>4. /\ low' = Result(shrc, f.c, Low(a), Low(b)) /\ high' = high
        /\ f' = NextFlags(shrc, f, Low(a), Low(b))
    BY <1>8 DEF Second, LowFirst, DoLow, SecondCmd
  <2>5. byte + 256 * high = a \div 2 /\ (carry = 1 <=> a % 2 = 1)
    <3>1. /\ (Low(a) \div 2 + 128 * (High(a) % 2)) + 256 * (High(a) \div 2)
               = (Low(a) + 256 * High(a)) \div 2
          /\ Low(a) % 2 = (Low(a) + 256 * High(a)) % 2
      BY <1>2, WordHalf
    <3>2. /\ byte + 256 * high = (Low(a) + 256 * High(a)) \div 2
          /\ carry = (Low(a) + 256 * High(a)) % 2
      BY <2>1, <3>1
    <3> QED BY <1>2, <3>2
  <2> HIDE DEF byte, carry
  <2>6. low' = byte /\ byte \in Bytes
    BY <2>3, <2>4 DEF Gives
  <2>7. f' \in Flags /\ f'.c = carry /\ f'.z = IF byte = 0 THEN f.z ELSE 0
    BY <1>1, <2>3, <2>4, SecondGives
  <2>8. low' \in Bytes /\ high' \in Bytes /\ (f'.z = 1 <=> Value' = 0)
    BY <1>1, <1>4, <2>2, <2>4, <2>6, <2>7
  <2>9. Value' = a \div 2 /\ (f'.c = 1) = (a % 2 = 1)
    BY <2>4, <2>5, <2>6, <2>7 DEF Value
  <2> QED BY <1>1, <1>3, <1>8, <2>7, <2>8, <2>9 DEF WordResult
<1> QED BY <1>1, <1>5, <1>6, <1>7, <1>8 DEF Ops

-----------------------------------------------------------------------------
(* The overflow flag of a subtraction: both addends, of which the second is  *)
(* minus y + c in 16 bits, have one sign, and the result has the other.      *)
LEMMA OverflowIs ==
  ASSUME NEW c \in Bits, NEW x \in Bytes, NEW y \in Bytes
  PROVE  /\ ResultFlags(sbc, c, x, y).o \in Bits
         /\ ResultFlags(sbc, c, x, y).o = 1 <=>
              /\ x >= 128 <=> 1 <= y + c /\ y + c <= 128
              /\ ~ (x >= 128 <=> DiffByte(x - y - c) >= 128)
<1> DEFINE n == Negated(sbc, c, y)
           k == y + c
           R == Raw(sbc, c, x, y)
           big == DiffByte(x - y - c) >= 128
<1>1. k \in Int /\ 0 <= k /\ k <= 256 /\ x \in Int /\ 0 <= x /\ x <= 255
  BY DEF Bits, Bytes
<1>2. n = IF k = 0 THEN 0 ELSE 65536 - k
  <2>1. n = IF y + c = 0 THEN 0 ELSE 65536 - y - c
    BY NegatedIs
  <2>2. 65536 - k = 65536 - y - c
    BY <1>1 DEF Bits, Bytes
  <2> QED BY <2>1, <2>2
<1>3. Sign(R) = IF big THEN 1 ELSE 0
  <2>1. Gives(sbc, c, x, y, DiffByte(x - y - c), Borrow(x - y - c))
    BY SbcGives
  <2>2. ResultFlags(sbc, c, x, y).s = Sign(R)
    BY DEF ResultFlags
  <2> QED BY <2>1, <2>2 DEF Gives
<1>4. ResultFlags(sbc, c, x, y).o = IF Overflows(sbc, c, x, y) THEN 1 ELSE 0
  BY DEF ResultFlags
<1>5. Overflows(sbc, c, x, y) <=> Sign(x) = Sign(n) /\ Sign(x) # Sign(R)
  BY DEF Overflows
<1> HIDE DEF n, k, R, big
<1>6. Sign(x) = IF x >= 128 THEN 1 ELSE 0
  <2>1. x % 256 = x /\ Sign(x) = IF x % 256 >= 128 THEN 1 ELSE 0
    BY <1>1, NineBits
  <2> QED BY <2>1
<1>7. Sign(n) = IF 1 <= k /\ k <= 128 THEN 1 ELSE 0
  <2>1. CASE k = 0
    <3>1. 0 % 256 = 0 /\ Sign(0) = IF 0 % 256 >= 128 THEN 1 ELSE 0
      BY NineBits
    <3> QED BY <1>2, <2>1, <3>1
  <2>2. CASE k # 0
    <3>1. n \in Int /\ 65280 <= n /\ n < 65536 /\ n = 65536 - k
      BY <1>1, <1>2, <2>2
    <3>2. n % 256 = n - 65280 /\ Sign(n) = IF n % 256 >= 128 THEN 1 ELSE 0
      BY <3>1, NegativeBits
    <3>3. n - 65280 >= 128 <=> 1 <= k /\ k <= 128
      BY <1>1, <2>2, <3>1
    <3> QED BY <3>2, <3>3
  <2> QED BY <2>1, <2>2
<1>8. Overflows(sbc, c, x, y) <=>
        (x >= 128 <=> 1 <= k /\ k <= 128) /\ ~ (x >= 128 <=> big)
  BY <1>3, <1>5, <1>6, <1>7
<1> QED BY <1>4, <1>8 DEF k, big, Bits

(* The sign and the overflow of the high byte order the numbers, unless the  *)
(* high byte taken away is 0x80 and nothing is borrowed.                     *)
LEMMA SignedOrder ==
  ASSUME NEW l \in Bytes, NEW h \in Bytes, NEW m \in Bytes, NEW k \in Bytes,
         ~ (k = 128 /\ l >= m)
  PROVE  LET c == Borrow(l - m)
             sign == DiffByte(h - k - c) >= 128
             over == /\ h >= 128 <=> 1 <= k + c /\ k + c <= 128
                     /\ ~ (h >= 128 <=> sign)
         IN  (sign <=> over) <=> Signed(l + 256 * h) >= Signed(m + 256 * k)
<1> DEFINE c == Borrow(l - m)
           d == h - k - c
           sign == DiffByte(d) >= 128
           x == l + 256 * h
           y == m + 256 * k
           sh == IF h < 128 THEN h ELSE h - 256
           sk == IF k < 128 THEN k ELSE k - 256
<1>1. /\ l \in Int /\ h \in Int /\ m \in Int /\ k \in Int
      /\ 0 <= l /\ l <= 255 /\ 0 <= h /\ h <= 255 /\ 0 <= m /\ m <= 255 /\ 0 <= k /\ k <= 255
  BY DEF Bytes
<1>2. c = (IF l >= m THEN 0 ELSE 1) /\ c \in {0, 1}
  BY <1>1 DEF Borrow
<1>3. Signed(x) = l + 256 * sh /\ Signed(y) = m + 256 * sk
  BY <1>1 DEF Signed
<1>4. Signed(x) >= Signed(y) <=> sh - sk - c >= 0
  BY <1>1, <1>2, <1>3
<1>5. sign <=> (d >= 128 \/ (d < 0 /\ d >= -128))
  BY <1>1, <1>2 DEF DiffByte
<1>6. k = 128 => c = 1
  BY <1>2
<1>7. (sign <=> (/\ h >= 128 <=> 1 <= k + c /\ k + c <= 128
                 /\ ~ (h >= 128 <=> sign)))
      <=> sh - sk - c >= 0
  <2> HIDE DEF c, sign
  <2>1. CASE h < 128 /\ k < 128
    BY <1>1, <1>2, <1>5, <1>6, <2>1
  <2>2. CASE h < 128 /\ k >= 128
    BY <1>1, <1>2, <1>5, <1>6, <2>2
  <2>3. CASE h >= 128 /\ k < 128
    BY <1>1, <1>2, <1>5, <1>6, <2>3
  <2>4. CASE h >= 128 /\ k >= 128
    BY <1>1, <1>2, <1>5, <1>6, <2>4
  <2> QED BY <1>1, <2>1, <2>2, <2>3, <2>4
<1> QED BY <1>4, <1>7

LEMMA ConditionsAre ==
  ASSUME NEW g
  PROVE  /\ Condition(0, g) <=> g.z = 0
         /\ Condition(8, g) <=> g.z # 0
         /\ Condition(1, g) <=> g.c = 0
         /\ Condition(9, g) <=> g.c # 0
         /\ Condition(3, g) <=> g.z = 0 /\ g.c = 0
         /\ Condition(11, g) <=> ~ (g.z = 0 /\ g.c = 0)
         /\ Condition(2, g) <=> g.z = 0 /\ g.s = g.o
         /\ Condition(10, g) <=> ~ (g.z = 0 /\ g.s = g.o)
         /\ Condition(4, g) <=> g.s = g.o
         /\ Condition(12, g) <=> g.s # g.o
<1>1. /\ 0 % 8 = 0 /\ 8 % 8 = 0 /\ 1 % 8 = 1 /\ 9 % 8 = 1 /\ 2 % 8 = 2 /\ 10 % 8 = 2
      /\ 3 % 8 = 3 /\ 11 % 8 = 3 /\ 4 % 8 = 4 /\ 12 % 8 = 4
  OBVIOUS
<1>2. (Condition(0, g) <=> g.z = 0) /\ (Condition(8, g) <=> g.z # 0)
  BY <1>1 DEF Condition, Holds
<1>3. (Condition(1, g) <=> g.c = 0) /\ (Condition(9, g) <=> g.c # 0)
  BY <1>1 DEF Condition, Holds
<1>4. (Condition(3, g) <=> g.z = 0 /\ g.c = 0) /\ (Condition(11, g) <=> ~ (g.z = 0 /\ g.c = 0))
  BY <1>1 DEF Condition, Holds
<1>5. (Condition(2, g) <=> g.z = 0 /\ g.s = g.o) /\ (Condition(10, g) <=> ~ (g.z = 0 /\ g.s = g.o))
  BY <1>1 DEF Condition, Holds
<1>6. (Condition(4, g) <=> g.s = g.o) /\ (Condition(12, g) <=> g.s # g.o)
  BY <1>1 DEF Condition, Holds
<1> QED BY <1>2, <1>3, <1>4, <1>5, <1>6

(* A difference is zero exactly when the words are equal.                    *)
LEMMA ZeroDifference ==
  ASSUME NEW x \in Words, NEW y \in Words
  PROVE  (x - y) % 65536 = 0 <=> x = y
<1>1. x \in Int /\ y \in Int /\ 0 <= x /\ x < 65536 /\ 0 <= y /\ y < 65536
  BY WordAluAssumption
<1> DEFINE v == x - y
<1>2. v \in Int /\ -65536 < v /\ v < 65536 /\ (v = 0 <=> x = y)
  BY <1>1
<1> HIDE DEF v
<1>3. v < 0 => v % 65536 = v + 65536
  BY <1>2, Wraps
<1>4. v >= 0 => v % 65536 = v
  BY <1>2, Wraps
<1>5. v % 65536 = 0 <=> v = 0
  BY <1>2, <1>3, <1>4
<1> QED BY <1>2, <1>5 DEF v

LEMMA SecondJumps ==
  ASSUME WordInv, Second
  PROVE  JumpsCompare'
<1> SUFFICES ASSUME op = "sub"
             PROVE  UnsignedJumps' /\ (SignedJumps' \/ (High(b) = 128 /\ Low(a) >= Low(b)))
  BY DEF Second, JumpsCompare
<1>1. /\ a \in Words /\ b \in Words /\ f \in Flags /\ f.c \in Bits
      /\ pc' = "done" /\ op' = op /\ a' = a /\ b' = b
      /\ f.c = Borrow(Low(a) - Low(b))
  BY DEF WordInv, TypeOK, Second, Flags, Halfway
<1>2. /\ Low(a) \in Bytes /\ High(a) \in Bytes /\ Low(b) \in Bytes /\ High(b) \in Bytes
      /\ a = Low(a) + 256 * High(a) /\ b = Low(b) + 256 * High(b)
  BY <1>1, WordParts
<1>3. a \in Int /\ b \in Int
  BY <1>1, WordAluAssumption
<1>4. /\ f' \in Flags
      /\ f'.c = 1 <=> a < b
      /\ f'.z = 1 <=> a = b
  <2>1. f' \in Flags /\ WordResult'
    BY SecondLeaves DEF TypeOK
  <2>2. /\ Value' = (a - b) % 65536
        /\ (f'.c = 1) = (a < b)
        /\ f'.z = 1 <=> Value' = 0
    BY <1>1, <2>1 DEF WordResult
  <2> QED BY <1>1, <2>1, <2>2, ZeroDifference
<1>5. f'.c \in {0, 1} /\ f'.z \in {0, 1}
  BY <1>4 DEF Flags, Bits
<1>6. UnsignedJumps'
  BY <1>1, <1>3, <1>4, <1>5, ConditionsAre DEF UnsignedJumps
<1> DEFINE sign == DiffByte(High(a) - High(b) - f.c) >= 128
           over == /\ High(a) >= 128 <=> 1 <= High(b) + f.c /\ High(b) + f.c <= 128
                   /\ ~ (High(a) >= 128 <=> sign)
<1>7. f'.s = f'.o <=> (sign <=> over)
  <2>1. f' = NextFlags(sbc, f, High(a), High(b))
    BY DEF Second, LowFirst, DoHigh, SecondCmd
  <2>2. Gives(sbc, f.c, High(a), High(b), DiffByte(High(a) - High(b) - f.c), Borrow(High(a) - High(b) - f.c))
    BY <1>1, <1>2, SbcGives
  <2>3. /\ f'.s = (IF sign THEN 1 ELSE 0)
        /\ f'.o = ResultFlags(sbc, f.c, High(a), High(b)).o
    BY <1>1, <2>1, <2>2, SecondGives
  <2>4. f'.o \in Bits /\ (f'.o = 1 <=> over)
    BY <1>1, <1>2, <2>3, OverflowIs
  <2> HIDE DEF sign, over
  <2> QED BY <2>3, <2>4 DEF Bits
<1>8. CASE ~ (High(b) = 128 /\ Low(a) >= Low(b))
  <2>1. (sign <=> over) <=> Signed(a) >= Signed(b)
    <3>1. (sign <=> over) <=> Signed(Low(a) + 256 * High(a)) >= Signed(Low(b) + 256 * High(b))
      BY <1>1, <1>2, <1>8, SignedOrder
    <3> QED BY <1>2, <3>1
  <2> HIDE DEF sign, over
  <2>2. f'.s = f'.o <=> Signed(a) >= Signed(b)
    BY <1>7, <2>1
  <2>3. Signed(a) \in Int /\ Signed(b) \in Int /\ (Signed(a) = Signed(b) <=> a = b)
    BY <1>1, <1>3, WordAluAssumption DEF Signed
  <2>4. SignedJumps'
    BY <1>1, <1>4, <1>5, <2>2, <2>3, ConditionsAre DEF SignedJumps
  <2> QED BY <1>6, <2>4
<1> QED BY <1>6, <1>8

LEMMA NextKeeps == WordInv /\ [Next]_vars => WordInv'
<1>1. ASSUME WordInv, Second PROVE WordInv'
  <2>1. pc' = "done"
    BY <1>1 DEF Second
  <2> QED BY <1>1, <2>1, SecondLeaves, SecondJumps DEF WordInv
<1>2. ASSUME WordInv, UNCHANGED vars PROVE WordInv'
  <2>1. UNCHANGED <<op, a, b, f, low, high, pc>>
    BY <1>2 DEF vars
  <2>2. TypeOK' /\ (pc' = "second" => Halfway')
    BY <1>2, <2>1 DEF WordInv, TypeOK, Halfway, LowFirst
  <2>3. ASSUME pc = "done" PROVE WordResult'
    <3> DEFINE Z == f.z = 1 <=> Value = 0
    <3>1. WordResult /\ Value' = Value /\ op \in Ops
      BY <1>2, <2>1 DEF WordInv, TypeOK, Value
    <3>2. CASE op = "add"
      <4>1. Value = (a + b) % 65536 /\ (f.c = 1) = (a + b > 65535) /\ Z
        BY <2>3, <3>1, <3>2 DEF WordResult
      <4> QED BY <2>1, <3>1, <3>2, <4>1 DEF WordResult
    <3>3. CASE op = "sub"
      <4>1. Value = (a - b) % 65536 /\ (f.c = 1) = (a < b) /\ Z
        BY <2>3, <3>1, <3>3 DEF WordResult
      <4> QED BY <2>1, <3>1, <3>3, <4>1 DEF WordResult
    <3>4. CASE op = "shl"
      <4>1. Value = (2 * a) % 65536 /\ (f.c = 1) = (a > 32767) /\ Z
        BY <2>3, <3>1, <3>4 DEF WordResult
      <4> QED BY <2>1, <3>1, <3>4, <4>1 DEF WordResult
    <3>5. CASE op = "shr"
      <4>1. Value = a \div 2 /\ (f.c = 1) = (a % 2 = 1) /\ Z
        BY <2>3, <3>1, <3>5 DEF WordResult
      <4> QED BY <2>1, <3>1, <3>5, <4>1 DEF WordResult
    <3> QED BY <3>1, <3>2, <3>3, <3>4, <3>5 DEF Ops
  <2>4. JumpsCompare'
    BY <1>2, <2>1, Zenon DEF WordInv, JumpsCompare, UnsignedJumps, SignedJumps
  <2>5. ASSUME pc # "done" PROVE WordResult'
    <3>1. pc' # "done"
      BY <2>1, <2>5
    <3> QED BY <3>1 DEF WordResult
  <2> QED BY <2>2, <2>3, <2>4, <2>5 DEF WordInv
<1> QED BY <1>1, <1>2, FirstKeeps DEF Next

(* Two commands on bytes make one on words, for every pair of 16-bit         *)
(* operands and whatever flags were there: result, carry and zero flag.      *)
THEOREM WordArithmetic == Spec => []WordResult
<1>1. WordInv => WordResult
  BY DEF WordInv
<1> QED BY <1>1, InitWord, NextKeeps, PTL DEF Spec

(* After a subtraction every jump compares the numbers, the signed ones but  *)
(* for the words whose high byte is 0x80 (evaluate_alu).                     *)
THEOREM JumpsAreRight == Spec => []JumpsCompare
<1>1. WordInv => JumpsCompare
  BY DEF WordInv
<1> QED BY <1>1, InitWord, NextKeeps, PTL DEF Spec

-----------------------------------------------------------------------------
(* The two chips: what each gives, and that together they give the byte.     *)
Nibbles == 0 .. 15

LEMMA Halves ==
  ASSUME NEW x \in Bytes
  PROVE  /\ x % 16 \in Nibbles /\ x \div 16 \in Nibbles
         /\ x = (x % 16) + 16 * (x \div 16)
<1> DEFINE q == x \div 16
           r == x % 16
<1>1. x \in Int /\ 0 <= x /\ x < 256
  BY DEF Bytes
<1>2. q \in Int /\ r \in Int /\ 0 <= r /\ r < 16 /\ x = q * 16 + r
  BY <1>1
<1> HIDE DEF q, r
<1>3. 0 <= q /\ q < 16
  BY <1>1, <1>2
<1>4. q \in Nibbles /\ r \in Nibbles /\ x = r + 16 * q
  BY <1>2, <1>3 DEF Nibbles
<1> QED BY <1>4 DEF q, r

LEMMA BitsOf ==
  ASSUME NEW v \in Int
  PROVE  /\ Bit(v, 0) = v % 2            /\ Bit(v, 1) = (v \div 2) % 2
         /\ Bit(v, 2) = (v \div 4) % 2   /\ Bit(v, 3) = (v \div 8) % 2
         /\ Bit(v, 4) = (v \div 16) % 2  /\ Bit(v, 5) = (v \div 32) % 2
         /\ Bit(v, 6) = (v \div 64) % 2  /\ Bit(v, 7) = (v \div 128) % 2
<1>1. /\ 2^0 = 1 /\ 2^1 = 2 /\ 2^2 = 4 /\ 2^3 = 8
      /\ 2^4 = 16 /\ 2^5 = 32 /\ 2^6 = 64 /\ 2^7 = 128
  OBVIOUS
<1>2. v \div 1 = v
  OBVIOUS
<1> QED BY <1>1, <1>2 DEF Bit

(* The bits of the halves of a byte are those of the byte.                   *)
LEMMA Digits ==
  ASSUME NEW x \in Bytes, NEW i \in 0 .. 7
  PROVE  /\ Bit(x, i) \in Bits
         /\ Bit(x % 16, i) = IF i < 4 THEN Bit(x, i) ELSE 0
         /\ Bit(x \div 16, i) = IF i < 4 THEN Bit(x, i + 4) ELSE 0
<1> DEFINE l == x % 16
           h == x \div 16
<1>1. x = l + 16 * h /\ x \in Int /\ l \in Int /\ h \in Int
      /\ 0 <= l /\ l < 16 /\ 0 <= h /\ h < 16
  BY Halves DEF Nibbles, Bytes
<1> HIDE DEF l, h
<1>2. Bit(l, 0) = Bit(x, 0) /\ Bit(h, 0) = Bit(x, 4) /\ Bit(x, 0) \in {0, 1}
  <2>1. l % 2 = x % 2 /\ h % 2 = (x \div 16) % 2 /\ x % 2 \in {0, 1}
    BY <1>1
  <2>2. /\ Bit(l, 0) = l % 2 /\ Bit(h, 0) = h % 2
        /\ Bit(x, 0) = x % 2 /\ Bit(x, 4) = (x \div 16) % 2
    BY <1>1, BitsOf
  <2> QED BY <2>1, <2>2, Zenon
<1>3. Bit(l, 1) = Bit(x, 1) /\ Bit(h, 1) = Bit(x, 5) /\ Bit(x, 1) \in {0, 1}
  <2>1. (l \div 2) % 2 = (x \div 2) % 2 /\ (h \div 2) % 2 = (x \div 32) % 2 /\ (x \div 2) % 2 \in {0, 1}
    BY <1>1
  <2>2. /\ Bit(l, 1) = (l \div 2) % 2 /\ Bit(h, 1) = (h \div 2) % 2
        /\ Bit(x, 1) = (x \div 2) % 2 /\ Bit(x, 5) = (x \div 32) % 2
    BY <1>1, BitsOf
  <2> QED BY <2>1, <2>2, Zenon
<1>4. Bit(l, 2) = Bit(x, 2) /\ Bit(h, 2) = Bit(x, 6) /\ Bit(x, 2) \in {0, 1}
  <2>1. (l \div 4) % 2 = (x \div 4) % 2 /\ (h \div 4) % 2 = (x \div 64) % 2 /\ (x \div 4) % 2 \in {0, 1}
    BY <1>1
  <2>2. /\ Bit(l, 2) = (l \div 4) % 2 /\ Bit(h, 2) = (h \div 4) % 2
        /\ Bit(x, 2) = (x \div 4) % 2 /\ Bit(x, 6) = (x \div 64) % 2
    BY <1>1, BitsOf
  <2> QED BY <2>1, <2>2, Zenon
<1>5. Bit(l, 3) = Bit(x, 3) /\ Bit(h, 3) = Bit(x, 7) /\ Bit(x, 3) \in {0, 1}
  <2>1. (l \div 8) % 2 = (x \div 8) % 2 /\ (h \div 8) % 2 = (x \div 128) % 2 /\ (x \div 8) % 2 \in {0, 1}
    BY <1>1
  <2>2. /\ Bit(l, 3) = (l \div 8) % 2 /\ Bit(h, 3) = (h \div 8) % 2
        /\ Bit(x, 3) = (x \div 8) % 2 /\ Bit(x, 7) = (x \div 128) % 2
    BY <1>1, BitsOf
  <2> QED BY <2>1, <2>2, Zenon
<1>6. Bit(l, 4) = 0 /\ Bit(h, 4) = 0 /\ Bit(x, 4) \in {0, 1}
  <2>1. (l \div 16) % 2 = 0 /\ (h \div 16) % 2 = 0 /\ (x \div 16) % 2 \in {0, 1}
    BY <1>1
  <2>2. /\ Bit(l, 4) = (l \div 16) % 2 /\ Bit(h, 4) = (h \div 16) % 2
        /\ Bit(x, 4) = (x \div 16) % 2
    BY <1>1, BitsOf
  <2> QED BY <2>1, <2>2, Zenon
<1>7. Bit(l, 5) = 0 /\ Bit(h, 5) = 0 /\ Bit(x, 5) \in {0, 1}
  <2>1. (l \div 32) % 2 = 0 /\ (h \div 32) % 2 = 0 /\ (x \div 32) % 2 \in {0, 1}
    BY <1>1
  <2>2. /\ Bit(l, 5) = (l \div 32) % 2 /\ Bit(h, 5) = (h \div 32) % 2
        /\ Bit(x, 5) = (x \div 32) % 2
    BY <1>1, BitsOf
  <2> QED BY <2>1, <2>2, Zenon
<1>8. Bit(l, 6) = 0 /\ Bit(h, 6) = 0 /\ Bit(x, 6) \in {0, 1}
  <2>1. (l \div 64) % 2 = 0 /\ (h \div 64) % 2 = 0 /\ (x \div 64) % 2 \in {0, 1}
    BY <1>1
  <2>2. /\ Bit(l, 6) = (l \div 64) % 2 /\ Bit(h, 6) = (h \div 64) % 2
        /\ Bit(x, 6) = (x \div 64) % 2
    BY <1>1, BitsOf
  <2> QED BY <2>1, <2>2, Zenon
<1>9. Bit(l, 7) = 0 /\ Bit(h, 7) = 0 /\ Bit(x, 7) \in {0, 1}
  <2>1. (l \div 128) % 2 = 0 /\ (h \div 128) % 2 = 0 /\ (x \div 128) % 2 \in {0, 1}
    BY <1>1
  <2>2. /\ Bit(l, 7) = (l \div 128) % 2 /\ Bit(h, 7) = (h \div 128) % 2
        /\ Bit(x, 7) = (x \div 128) % 2
    BY <1>1, BitsOf
  <2> QED BY <2>1, <2>2, Zenon
<1> DEFINE Right(k) == /\ Bit(x, k) \in Bits
                       /\ Bit(l, k) = IF k < 4 THEN Bit(x, k) ELSE 0
                       /\ Bit(h, k) = IF k < 4 THEN Bit(x, k + 4) ELSE 0
<1>10. Right(0)
  BY <1>2 DEF Bits
<1>11. Right(1)
  BY <1>3 DEF Bits
<1>12. Right(2)
  BY <1>4 DEF Bits
<1>13. Right(3)
  BY <1>5 DEF Bits
<1>14. Right(4)
  BY <1>6 DEF Bits
<1>15. Right(5)
  BY <1>7 DEF Bits
<1>16. Right(6)
  BY <1>8 DEF Bits
<1>17. Right(7)
  BY <1>9 DEF Bits
<1> HIDE DEF Right
<1>18. Right(i)
  BY <1>10, <1>11, <1>12, <1>13, <1>14, <1>15, <1>16, <1>17
<1> QED BY <1>18 DEF Right, l, h

(* Eight bits: the sum of the low four, and of the high ones.                *)
LEMMA BitSumSplits ==
  ASSUME NEW e \in [0 .. 7 -> Bits], NEW lo, NEW hi,
         lo = [i \in 0 .. 7 |-> IF i < 4 THEN e[i] ELSE 0],
         hi = [i \in 0 .. 7 |-> IF i < 4 THEN e[i + 4] ELSE 0]
  PROVE  /\ BitSum(lo) \in Nibbles /\ BitSum(hi) \in Nibbles
         /\ BitSum(e) = BitSum(lo) + 16 * BitSum(hi)
<1>1. \A i \in 0 .. 7 : e[i] \in Bits
  OBVIOUS
<1>2. /\ lo[0] = e[0] /\ lo[1] = e[1] /\ lo[2] = e[2] /\ lo[3] = e[3]
      /\ lo[4] = 0 /\ lo[5] = 0 /\ lo[6] = 0 /\ lo[7] = 0
  OBVIOUS
<1>3. /\ hi[0] = e[4] /\ hi[1] = e[5] /\ hi[2] = e[6] /\ hi[3] = e[7]
      /\ hi[4] = 0 /\ hi[5] = 0 /\ hi[6] = 0 /\ hi[7] = 0
  OBVIOUS
<1> QED BY <1>1, <1>2, <1>3 DEF BitSum, Nibbles, Bits

LEMMA BitOrSplits ==
  ASSUME NEW x \in Bytes, NEW y \in Bytes
  PROVE  /\ BitOr(x % 16, y % 16) \in Nibbles /\ BitOr(x \div 16, y \div 16) \in Nibbles
         /\ BitOr(x, y) = BitOr(x % 16, y % 16) + 16 * BitOr(x \div 16, y \div 16)
<1> DEFINE e == [i \in 0 .. 7 |-> IF Bit(x, i) + Bit(y, i) > 0 THEN 1 ELSE 0]
           lo == [i \in 0 .. 7 |-> IF Bit(x % 16, i) + Bit(y % 16, i) > 0 THEN 1 ELSE 0]
           hi == [i \in 0 .. 7 |-> IF Bit(x \div 16, i) + Bit(y \div 16, i) > 0 THEN 1 ELSE 0]
<1>1. \A i \in 0 .. 7 : Bit(x, i) \in Bits /\ Bit(y, i) \in Bits
  BY Digits
<1>2. e \in [0 .. 7 -> Bits]
  BY <1>1 DEF Bits
<1>3. ASSUME NEW i \in 0 .. 7
      PROVE  lo[i] = (IF i < 4 THEN e[i] ELSE 0) /\ hi[i] = (IF i < 4 THEN e[i + 4] ELSE 0)
  <2>1. /\ Bit(x % 16, i) = (IF i < 4 THEN Bit(x, i) ELSE 0)
        /\ Bit(y % 16, i) = (IF i < 4 THEN Bit(y, i) ELSE 0)
        /\ Bit(x \div 16, i) = (IF i < 4 THEN Bit(x, i + 4) ELSE 0)
        /\ Bit(y \div 16, i) = (IF i < 4 THEN Bit(y, i + 4) ELSE 0)
    BY Digits
  <2>2. i < 4 => i + 4 \in 0 .. 7
    OBVIOUS
  <2> QED BY <2>1, <2>2
<1>4. /\ lo = [i \in 0 .. 7 |-> IF i < 4 THEN e[i] ELSE 0]
      /\ hi = [i \in 0 .. 7 |-> IF i < 4 THEN e[i + 4] ELSE 0]
  <2> HIDE DEF e
  <2>1. \A i \in 0 .. 7 : /\ lo[i] = (IF i < 4 THEN e[i] ELSE 0)
                          /\ hi[i] = (IF i < 4 THEN e[i + 4] ELSE 0)
    BY <1>3
  <2> QED BY <2>1
<1>5. BitOr(x, y) = BitSum(e) /\ BitOr(x % 16, y % 16) = BitSum(lo)
      /\ BitOr(x \div 16, y \div 16) = BitSum(hi)
  BY DEF BitOr
<1> HIDE DEF e, lo, hi
<1> QED BY <1>2, <1>4, <1>5, BitSumSplits

LEMMA BitXorSplits ==
  ASSUME NEW x \in Bytes, NEW y \in Bytes
  PROVE  /\ BitXor(x % 16, y % 16) \in Nibbles /\ BitXor(x \div 16, y \div 16) \in Nibbles
         /\ BitXor(x, y) = BitXor(x % 16, y % 16) + 16 * BitXor(x \div 16, y \div 16)
<1> DEFINE e == [i \in 0 .. 7 |-> (Bit(x, i) + Bit(y, i)) % 2]
           lo == [i \in 0 .. 7 |-> (Bit(x % 16, i) + Bit(y % 16, i)) % 2]
           hi == [i \in 0 .. 7 |-> (Bit(x \div 16, i) + Bit(y \div 16, i)) % 2]
<1>1. \A i \in 0 .. 7 : Bit(x, i) \in Bits /\ Bit(y, i) \in Bits
  BY Digits
<1>2. e \in [0 .. 7 -> Bits]
  BY <1>1 DEF Bits
<1>3. ASSUME NEW i \in 0 .. 7
      PROVE  lo[i] = (IF i < 4 THEN e[i] ELSE 0) /\ hi[i] = (IF i < 4 THEN e[i + 4] ELSE 0)
  <2>1. /\ Bit(x % 16, i) = (IF i < 4 THEN Bit(x, i) ELSE 0)
        /\ Bit(y % 16, i) = (IF i < 4 THEN Bit(y, i) ELSE 0)
        /\ Bit(x \div 16, i) = (IF i < 4 THEN Bit(x, i + 4) ELSE 0)
        /\ Bit(y \div 16, i) = (IF i < 4 THEN Bit(y, i + 4) ELSE 0)
    BY Digits
  <2>2. i < 4 => i + 4 \in 0 .. 7
    OBVIOUS
  <2> QED BY <2>1, <2>2
<1>4. /\ lo = [i \in 0 .. 7 |-> IF i < 4 THEN e[i] ELSE 0]
      /\ hi = [i \in 0 .. 7 |-> IF i < 4 THEN e[i + 4] ELSE 0]
  <2> HIDE DEF e
  <2>1. \A i \in 0 .. 7 : /\ lo[i] = (IF i < 4 THEN e[i] ELSE 0)
                          /\ hi[i] = (IF i < 4 THEN e[i + 4] ELSE 0)
    BY <1>3
  <2> QED BY <2>1
<1>5. BitXor(x, y) = BitSum(e) /\ BitXor(x % 16, y % 16) = BitSum(lo)
      /\ BitXor(x \div 16, y \div 16) = BitSum(hi)
  BY DEF BitXor
<1> HIDE DEF e, lo, hi
<1> QED BY <1>2, <1>4, <1>5, BitSumSplits

LEMMA BitAndSplits ==
  ASSUME NEW x \in Bytes, NEW y \in Bytes
  PROVE  /\ BitAnd(x % 16, y % 16) \in Nibbles /\ BitAnd(x \div 16, y \div 16) \in Nibbles
         /\ BitAnd(x, y) = BitAnd(x % 16, y % 16) + 16 * BitAnd(x \div 16, y \div 16)
<1> DEFINE e == [i \in 0 .. 7 |-> Bit(x, i) * Bit(y, i)]
           lo == [i \in 0 .. 7 |-> Bit(x % 16, i) * Bit(y % 16, i)]
           hi == [i \in 0 .. 7 |-> Bit(x \div 16, i) * Bit(y \div 16, i)]
<1>1. \A i \in 0 .. 7 : Bit(x, i) \in Bits /\ Bit(y, i) \in Bits
  BY Digits
<1>2. e \in [0 .. 7 -> Bits]
  BY <1>1 DEF Bits
<1>3. ASSUME NEW i \in 0 .. 7
      PROVE  lo[i] = (IF i < 4 THEN e[i] ELSE 0) /\ hi[i] = (IF i < 4 THEN e[i + 4] ELSE 0)
  <2>1. /\ Bit(x % 16, i) = (IF i < 4 THEN Bit(x, i) ELSE 0)
        /\ Bit(y % 16, i) = (IF i < 4 THEN Bit(y, i) ELSE 0)
        /\ Bit(x \div 16, i) = (IF i < 4 THEN Bit(x, i + 4) ELSE 0)
        /\ Bit(y \div 16, i) = (IF i < 4 THEN Bit(y, i + 4) ELSE 0)
    BY Digits
  <2>2. i < 4 => i + 4 \in 0 .. 7
    OBVIOUS
  <2> QED BY <2>1, <2>2
<1>4. /\ lo = [i \in 0 .. 7 |-> IF i < 4 THEN e[i] ELSE 0]
      /\ hi = [i \in 0 .. 7 |-> IF i < 4 THEN e[i + 4] ELSE 0]
  <2> HIDE DEF e
  <2>1. \A i \in 0 .. 7 : /\ lo[i] = (IF i < 4 THEN e[i] ELSE 0)
                          /\ hi[i] = (IF i < 4 THEN e[i + 4] ELSE 0)
    BY <1>3
  <2> QED BY <2>1
<1>5. BitAnd(x, y) = BitSum(e) /\ BitAnd(x % 16, y % 16) = BitSum(lo)
      /\ BitAnd(x \div 16, y \div 16) = BitSum(hi)
  BY DEF BitAnd
<1> HIDE DEF e, lo, hi
<1> QED BY <1>2, <1>4, <1>5, BitSumSplits

(* A number by its byte and what stands above it. *)
LEMMA BitsOfByte ==
  ASSUME NEW q \in Nat, NEW r \in Bytes, NEW v, v = 256 * q + r
  PROVE  v % 256 = r /\ Bit(v, 8) = q % 2 /\ Sign(v) = IF r >= 128 THEN 1 ELSE 0
<1>0. r \in Int /\ 0 <= r /\ r < 256
  BY DEF Bytes
<1>1. r \in Int /\ 0 <= r /\ r < 256 /\ v \in Int
  BY <1>0
<1>2. v \div 256 = q /\ v % 256 = v - q * 256
  BY <1>1, Quotient, 256 \in Nat \ {0}
<1>3. v - q * 256 = r
  BY <1>1
<1>4. (v \div 128) % 2 = IF r >= 128 THEN 1 ELSE 0
  BY <1>1
<1>5. Bit(v, 8) = (v \div 256) % 2 /\ Sign(v) = (v \div 128) % 2
  BY <1>1, BitsAre, ZenonT(60)
<1>6. v % 256 = r
  BY <1>2, <1>3, Zenon
<1>7. Bit(v, 8) = q % 2
  BY <1>2, <1>5, Zenon
<1>8. Sign(v) = IF r >= 128 THEN 1 ELSE 0
  BY <1>4, <1>5, Zenon
<1> QED BY <1>6, <1>7, <1>8

(* A number by its four bits and what stands above them. *)
LEMMA BitsOfNibble ==
  ASSUME NEW q \in Nat, NEW r \in Nibbles, NEW v, v = 16 * q + r
  PROVE  v % 16 = r /\ Bit(v, 4) = q % 2 /\ Bit(v, 3) = IF r >= 8 THEN 1 ELSE 0
<1>1. r \in Int /\ 0 <= r /\ r < 16 /\ v \in Int
  BY DEF Nibbles
<1>2. v \div 16 = q /\ v % 16 = v - q * 16
  BY <1>1, Quotient, 16 \in Nat \ {0}
<1>3. v - q * 16 = r
  BY <1>1
<1>4. (v \div 8) % 2 = IF r >= 8 THEN 1 ELSE 0
  BY <1>1
<1>5. Bit(v, 4) = (v \div 16) % 2 /\ Bit(v, 3) = (v \div 8) % 2
  BY <1>1, BitsAre
<1>6. v % 16 = r
  BY <1>2, <1>3, Zenon
<1>7. Bit(v, 4) = q % 2
  BY <1>2, <1>5, Zenon
<1>8. Bit(v, 3) = IF r >= 8 THEN 1 ELSE 0
  BY <1>4, <1>5, Zenon
<1> QED BY <1>6, <1>7, <1>8

(* A chip gives these four bits and this carry, zero and sign flag.          *)
Shows(isLow, c, ci, x, y, nibble, carry) ==
  LET g == Gen(isLow, c, ci, x, y)
  IN  /\ g.r = nibble /\ nibble \in Nibbles
      /\ g.c = carry
      /\ g.z = IF nibble = 0 THEN 1 ELSE 0
      /\ g.s = IF nibble >= 8 THEN 1 ELSE 0

LEMMA ChipShows ==
  ASSUME NEW isLow, NEW c, NEW ci, NEW x, NEW y, NEW q \in Nat, NEW r \in Nibbles,
         ChipRaw(isLow, c, ci, x, y) = 16 * q + r
  PROVE  Shows(isLow, c, ci, x, y, r, q % 2)
<1> DEFINE raw == ChipRaw(isLow, c, ci, x, y)
<1>1. raw % 16 = r /\ Bit(raw, 4) = q % 2 /\ Bit(raw, 3) = IF r >= 8 THEN 1 ELSE 0
  BY BitsOfNibble
<1>2. LET g == Gen(isLow, c, ci, x, y)
      IN  g.r = raw % 16 /\ g.c = Bit(raw, 4) /\ g.s = Bit(raw, 3)
          /\ g.z = IF raw % 16 = 0 THEN 1 ELSE 0
  BY DEF Gen
<1> HIDE DEF raw
<1> QED BY <1>1, <1>2 DEF Shows

(* Two chips whose four bits make up the byte agree with evaluate_alu.       *)
LEMMA ChipsMakeByte ==
  ASSUME NEW cmd, NEW ci, NEW x, NEW y, NEW l, NEW k, NEW h, NEW carry,
         Shows(TRUE, cmd, ci, x % 16, y % 16, l, k),
         Shows(FALSE, cmd, k, x \div 16, y \div 16, h, carry),
         Gives(cmd, ci, x, y, l + 16 * h, carry)
  PROVE  LET g == ChipByte(cmd, ci, x, y)
             r == ResultFlags(cmd, ci, x, y)
         IN  g.r = Result(cmd, ci, x, y) /\ g.c = r.c /\ g.z = r.z /\ g.s = r.s
<1> DEFINE lows  == Gen(TRUE, cmd, ci, x % 16, y % 16)
           highs == Gen(FALSE, cmd, k, x \div 16, y \div 16)
           g == ChipByte(cmd, ci, x, y)
           r == ResultFlags(cmd, ci, x, y)
<1>1. /\ lows.r = l /\ lows.c = k /\ l \in Nibbles
      /\ lows.z = IF l = 0 THEN 1 ELSE 0
  BY DEF Shows
<1>2. /\ highs.r = h /\ highs.c = carry /\ h \in Nibbles
      /\ highs.z = IF h = 0 THEN 1 ELSE 0
      /\ highs.s = IF h >= 8 THEN 1 ELSE 0
  BY DEF Shows
<1>3. g.r = lows.r + 16 * highs.r /\ g.c = highs.c /\ g.z = lows.z * highs.z /\ g.s = highs.s
  BY <1>1 DEF ChipByte
<1>4. /\ Result(cmd, ci, x, y) = l + 16 * h /\ r.c = carry
      /\ r.z = IF l + 16 * h = 0 THEN 1 ELSE 0
      /\ r.s = IF l + 16 * h >= 128 THEN 1 ELSE 0
  BY DEF Gives
<1> HIDE DEF lows, highs, g, r
<1>5. /\ l + 16 * h = 0 <=> l = 0 /\ h = 0
      /\ l + 16 * h >= 128 <=> h >= 8
  BY <1>1, <1>2 DEF Nibbles
<1>6. lows.z * highs.z = IF l = 0 /\ h = 0 THEN 1 ELSE 0
  BY <1>1, <1>2
<1>7. g.r = Result(cmd, ci, x, y) /\ g.c = r.c /\ g.z = r.z /\ g.s = r.s
  BY <1>1, <1>2, <1>3, <1>4, <1>5, <1>6
<1> QED BY <1>7 DEF g, r

-----------------------------------------------------------------------------
Adding == {add, adc}
Taking == {sub, sbc}
Shifts == {shl, shlc, shr, shrc}

LEMMA KindsDiffer ==
  /\ Cmds = Adding \cup Taking \cup {neg, not} \cup AndCmds \cup OrCmds \cup XorCmds
  /\ \A cmd \in Shifts : cmd \notin Cmds
  /\ \A cmd \in Taking : cmd \notin Adding
  /\ neg \notin Adding \cup Taking
  /\ not \notin Adding \cup Taking \cup {neg}
  /\ \A cmd \in AndCmds : cmd \notin Adding \cup Taking \cup {neg, not}
  /\ \A cmd \in OrCmds : cmd \notin Adding \cup Taking \cup {neg, not} \cup AndCmds
  /\ \A cmd \in XorCmds : cmd \notin Adding \cup Taking \cup {neg, not} \cup AndCmds \cup OrCmds
  BY DEF Cmds, Adding, Taking, Shifts, add, adc, sub, sbc, neg, not, shl, shlc, shr, shrc,
         AndCmds, OrCmds, XorCmds

(* Raw, for the commands that are not made into those of words.              *)
LEMMA RawOthers ==
  ASSUME NEW cmd \in Cmds, NEW c, NEW x, NEW y
  PROVE  /\ cmd = neg => Raw(cmd, c, x, y) = IF x = 0 THEN 256 ELSE 65536 - x - 256
         /\ cmd = not => Raw(cmd, c, x, y) = 65535 - x
         /\ cmd \in AndCmds => Raw(cmd, c, x, y) = BitAnd(x, y)
         /\ cmd \in OrCmds => Raw(cmd, c, x, y) = BitOr(x, y)
         /\ cmd \in XorCmds => Raw(cmd, c, x, y) = BitXor(x, y)
<1>1. cmd # shl /\ cmd # shlc /\ cmd # shr /\ cmd # shrc
  BY KindsDiffer DEF Shifts
<1>2. cmd = neg => Raw(cmd, c, x, y) = IF x = 0 THEN 256 ELSE 65536 - x - 256
  BY <1>1, KindsDiffer, SMT DEF Raw, Adding, Taking
<1>3. cmd = not => Raw(cmd, c, x, y) = 65535 - x
  BY <1>1, KindsDiffer, SMT DEF Raw, Adding, Taking
<1>4. cmd \in AndCmds => Raw(cmd, c, x, y) = BitAnd(x, y)
  BY <1>1, KindsDiffer, SMT DEF Raw, Adding, Taking
<1>5. cmd \in OrCmds => Raw(cmd, c, x, y) = BitOr(x, y)
  BY <1>1, KindsDiffer, SMT DEF Raw, Adding, Taking
<1>6. cmd \in XorCmds => Raw(cmd, c, x, y) = BitXor(x, y)
  BY <1>1, KindsDiffer, SMT DEF Raw, Adding, Taking
<1> QED BY <1>2, <1>3, <1>4, <1>5, <1>6

LEMMA ChipCases ==
  ASSUME NEW isLow, NEW c, NEW ci, NEW x, NEW y
  PROVE  /\ c \in Adding => ChipRaw(isLow, c, ci, x, y) = x + y + CarryIn(isLow, c, ci)
         /\ c \in Taking => ChipRaw(isLow, c, ci, x, y) = (x + ChipAddend(isLow, c, ci, y)) % 256
         /\ c = neg => ChipRaw(isLow, c, ci, x, y)
                         = FlipCarry((255 - x + (IF isLow THEN 1 ELSE ci)) % 256)
         /\ c = not => ChipRaw(isLow, c, ci, x, y) = 255 - x
         /\ c \in AndCmds => ChipRaw(isLow, c, ci, x, y) = BitAnd(x, y)
         /\ c \in OrCmds => ChipRaw(isLow, c, ci, x, y) = BitOr(x, y)
         /\ c \in XorCmds => ChipRaw(isLow, c, ci, x, y) = BitXor(x, y)
<1>1. c \in Adding => ChipRaw(isLow, c, ci, x, y) = x + y + CarryIn(isLow, c, ci)
  BY KindsDiffer, SMT DEF ChipRaw, Adding, Taking
<1>2. c \in Taking => ChipRaw(isLow, c, ci, x, y) = (x + ChipAddend(isLow, c, ci, y)) % 256
  BY KindsDiffer, SMT DEF ChipRaw, Adding, Taking
<1>3. c = neg => ChipRaw(isLow, c, ci, x, y)
                   = FlipCarry((255 - x + (IF isLow THEN 1 ELSE ci)) % 256)
  BY KindsDiffer, SMT DEF ChipRaw, Adding, Taking
<1>4. c = not => ChipRaw(isLow, c, ci, x, y) = 255 - x
  BY KindsDiffer, SMT DEF ChipRaw, Adding, Taking
<1>5. c \in AndCmds => ChipRaw(isLow, c, ci, x, y) = BitAnd(x, y)
  BY KindsDiffer, SMT DEF ChipRaw, Adding, Taking
<1>6. c \in OrCmds => ChipRaw(isLow, c, ci, x, y) = BitOr(x, y)
  BY KindsDiffer, SMT DEF ChipRaw, Adding, Taking
<1>7. c \in XorCmds => ChipRaw(isLow, c, ci, x, y) = BitXor(x, y)
  BY KindsDiffer, SMT DEF ChipRaw, Adding, Taking
<1> QED BY <1>1, <1>2, <1>3, <1>4, <1>5, <1>6, <1>7

(* The four bits and the carry of a sum, and of a difference.                *)
SumNibble(v)   == IF v < 16 THEN v ELSE v - 16
NibbleCarry(v) == IF v < 16 THEN 0 ELSE 1
DiffNibble(d)  == IF d >= 0 THEN d ELSE 16 + d

LEMMA AddingShows ==
  ASSUME NEW isLow, NEW c \in Adding, NEW ci, NEW x \in Nibbles, NEW y \in Nibbles,
         NEW k \in Bits, CarryIn(isLow, c, ci) = k
  PROVE  Shows(isLow, c, ci, x, y, SumNibble(x + y + k), NibbleCarry(x + y + k))
<1> DEFINE v == x + y + k
           q == NibbleCarry(v)
<1>1. ChipRaw(isLow, c, ci, x, y) = v
  BY ChipCases
<1>2. v \in Int /\ 0 <= v /\ v < 32
  BY DEF Nibbles, Bits
<1> HIDE DEF v
<1>3. SumNibble(v) \in Nibbles /\ q \in Nat /\ v = 16 * q + SumNibble(v) /\ q % 2 = q
  BY <1>2 DEF SumNibble, NibbleCarry, Nibbles
<1> HIDE DEF q
<1>4. Shows(isLow, c, ci, x, y, SumNibble(v), q)
  BY <1>1, <1>3, ChipShows
<1> QED BY <1>4 DEF v, q

LEMMA TakingShows ==
  ASSUME NEW isLow, NEW c \in Taking, NEW ci, NEW x \in Nibbles, NEW y \in Nibbles,
         NEW k \in Bits, CarryIn(isLow, c, ci) = k
  PROVE  Shows(isLow, c, ci, x, y, DiffNibble(x - y - k), Borrow(x - y - k))
<1> DEFINE d == x - y - k
           q == IF d >= 0 THEN 0 ELSE 15
           n == ChipAddend(isLow, c, ci, y)
<1>1. /\ x \in Int /\ y \in Int /\ k \in Int
      /\ 0 <= x /\ x < 16 /\ 0 <= y /\ y < 16 /\ 0 <= k /\ k <= 1
  BY DEF Nibbles, Bits
<1>2. n = IF y + k = 0 THEN 0 ELSE 256 - y - k
  <2>1. n = (256 - y - k) % 256
    BY DEF ChipAddend, Taking
  <2> QED BY <1>1, <2>1
<1>3. ChipRaw(isLow, c, ci, x, y) = (x + n) % 256
  BY ChipCases
<1> HIDE DEF n
<1>4. (x + n) % 256 = IF d >= 0 THEN d ELSE 256 + d
  BY <1>1, <1>2
<1>5. /\ DiffNibble(d) \in Nibbles /\ q \in Nat
      /\ 16 * q + DiffNibble(d) = (IF d >= 0 THEN d ELSE 256 + d)
      /\ q % 2 = Borrow(d)
  BY <1>1 DEF DiffNibble, Borrow, Nibbles
<1> HIDE DEF d, q
<1>6. Shows(isLow, c, ci, x, y, DiffNibble(d), q % 2)
  BY <1>3, <1>4, <1>5, ChipShows
<1> QED BY <1>5, <1>6 DEF d

LEMMA NotShows ==
  ASSUME NEW isLow, NEW ci, NEW x \in Nibbles, NEW y
  PROVE  Shows(isLow, not, ci, x, y, 15 - x, 1)
<1>1. ChipRaw(isLow, not, ci, x, y) = 255 - x
  BY ChipCases
<1>2. 15 - x \in Nibbles /\ 255 - x = 16 * 15 + (15 - x) /\ 15 % 2 = 1 /\ 15 \in Nat
  BY DEF Nibbles
<1> QED BY <1>1, <1>2, ChipShows

LEMMA Complement ==
  ASSUME NEW x \in Int, NEW k \in Int, 0 <= x, x < 16, 0 <= k, k <= x
  PROVE  15 - x + k \in Int /\ 0 <= 15 - x + k /\ 15 - x + k <= 15
OBVIOUS

(* neg: with a carry minus x, without one its complement.                    *)
LEMMA NegShows ==
  ASSUME NEW isLow, NEW ci, NEW x \in Nibbles, NEW y,
         NEW k \in Bits, k = IF isLow THEN 1 ELSE ci
  PROVE  Shows(isLow, neg, ci, x, y, IF x = 0 /\ k = 1 THEN 0 ELSE 15 - x + k,
               IF x = 0 /\ k = 1 THEN 1 ELSE 0)
<1> DEFINE v == (255 - x + k) % 256
<1>0. x \in Int /\ k \in Int /\ 0 <= x /\ x < 16 /\ 0 <= k /\ k <= 1
  BY DEF Nibbles, Bits
<1>1. ChipRaw(isLow, neg, ci, x, y) = FlipCarry(v)
  BY ChipCases
<1>2. CASE x = 0 /\ k = 1
  <2>1. v = 0
    BY <1>2
  <2>2. Bit(0, 4) = 0
    <3>1. 0 = 16 * 0 + 0 /\ 0 \in Nibbles /\ 0 \in Nat /\ 0 % 2 = 0
      BY DEF Nibbles
    <3> QED BY <3>1, BitsOfNibble
  <2>3. FlipCarry(v) = 16 * 1 + 0
    BY <2>1, <2>2 DEF FlipCarry
  <2>4. Shows(isLow, neg, ci, x, y, 0, 1 % 2)
    <3>1. 0 \in Nibbles /\ 1 \in Nat
      BY DEF Nibbles
    <3> QED BY <1>1, <2>3, <3>1, ChipShows
  <2>5. 1 % 2 = 1
    OBVIOUS
  <2> QED BY <1>2, <2>4, <2>5
<1>3. CASE ~ (x = 0 /\ k = 1)
  <2> DEFINE r == 15 - x + k
  <2>1. r \in Nibbles /\ r \in Int
    <3>1. k <= x
      BY <1>0, <1>3
    <3>2. r \in Int /\ 0 <= r /\ r <= 15
      BY <1>0, <3>1, Complement
    <3> HIDE DEF r
    <3> QED BY <3>2 DEF Nibbles
  <2>2. v = 16 * 15 + r
    <3> DEFINE n == 255 - x + k
    <3>1. n = 240 + r /\ n \in Int
      BY <1>0
    <3> HIDE DEF n, r
    <3>2. n \in Int /\ 0 <= n /\ n < 256
      BY <2>1, <3>1 DEF Nibbles
    <3>3. n % 256 = n
      BY <3>2
    <3>4. v = n
      BY <3>3 DEF n
    <3> HIDE DEF v
    <3> QED BY <2>1, <3>1, <3>4
  <2> HIDE DEF r, v
  <2>3. Bit(v, 4) = 1
    <3>1. 15 % 2 = 1 /\ 15 \in Nat
      OBVIOUS
    <3> QED BY <2>1, <2>2, <3>1, BitsOfNibble, ZenonT(60)
  <2>4. FlipCarry(v) = 16 * 14 + r
    BY <2>1, <2>2, <2>3 DEF FlipCarry
  <2>5. Shows(isLow, neg, ci, x, y, r, 14 % 2)
    BY <1>1, <2>1, <2>4, ChipShows, 14 \in Nat
  <2>6. 14 % 2 = 0
    OBVIOUS
  <2> QED BY <1>3, <2>5, <2>6 DEF r
<1> QED BY <1>2, <1>3

LEMMA LogicShows ==
  ASSUME NEW isLow, NEW c, NEW ci, NEW x, NEW y, NEW r \in Nibbles,
         ChipRaw(isLow, c, ci, x, y) = r
  PROVE  Shows(isLow, c, ci, x, y, r, 0)
<1>1. r = 16 * 0 + r /\ 0 % 2 = 0 /\ 0 \in Nat
  BY DEF Nibbles
<1> QED BY <1>1, ChipShows

LEMMA BitShows ==
  ASSUME NEW isLow, NEW c, NEW ci, NEW x, NEW y, NEW r \in Nibbles,
         \/ c \in AndCmds /\ BitAnd(x, y) = r
         \/ c \in OrCmds /\ BitOr(x, y) = r
         \/ c \in XorCmds /\ BitXor(x, y) = r
  PROVE  Shows(isLow, c, ci, x, y, r, 0)
BY ChipCases, LogicShows

(* Nibbles make the sum and the difference of bytes as bytes make those of   *)
(* words.                                                                    *)
LEMMA NibbleSum ==
  ASSUME NEW l \in Nibbles, NEW h \in Nibbles, NEW m \in Nibbles, NEW n \in Nibbles,
         NEW k \in Bits
  PROVE  LET c == NibbleCarry(l + m + k)
             v == (l + 16 * h) + (m + 16 * n) + k
         IN  /\ SumByte(v) = SumNibble(l + m + k) + 16 * SumNibble(h + n + c)
             /\ SumCarry(v) = NibbleCarry(h + n + c)
             /\ c \in Bits
<1>1. /\ l \in Int /\ h \in Int /\ m \in Int /\ n \in Int /\ k \in Int
      /\ 0 <= l /\ l < 16 /\ 0 <= h /\ h < 16 /\ 0 <= m /\ m < 16 /\ 0 <= n /\ n < 16
      /\ 0 <= k /\ k <= 1
  BY DEF Nibbles, Bits
<1> QED BY <1>1 DEF SumByte, SumCarry, SumNibble, NibbleCarry, Bits

LEMMA NibbleDifference ==
  ASSUME NEW l \in Nibbles, NEW h \in Nibbles, NEW m \in Nibbles, NEW n \in Nibbles,
         NEW k \in Bits
  PROVE  LET c == Borrow(l - m - k)
             d == (l + 16 * h) - (m + 16 * n) - k
         IN  /\ DiffByte(d) = DiffNibble(l - m - k) + 16 * DiffNibble(h - n - c)
             /\ Borrow(d) = Borrow(h - n - c)
             /\ c \in Bits
<1>1. /\ l \in Int /\ h \in Int /\ m \in Int /\ n \in Int /\ k \in Int
      /\ 0 <= l /\ l < 16 /\ 0 <= h /\ h < 16 /\ 0 <= m /\ m < 16 /\ 0 <= n /\ n < 16
      /\ 0 <= k /\ k <= 1
  BY DEF Nibbles, Bits
<1> QED BY <1>1 DEF DiffByte, DiffNibble, Borrow, Bits

(* What neg, not and the bit commands give.                                  *)
LEMMA RawGives ==
  ASSUME NEW cmd, NEW c, NEW x, NEW y, NEW q \in Nat, NEW r \in Bytes,
         Raw(cmd, c, x, y) = 256 * q + r
  PROVE  Gives(cmd, c, x, y, r, q % 2)
<1> DEFINE v == 256 * q + r
<1>1. v % 256 = r /\ Bit(v, 8) = q % 2 /\ Sign(v) = IF r >= 128 THEN 1 ELSE 0
  <2>1. v = 256 * q + r
    OBVIOUS
  <2> HIDE DEF v
  <2> QED BY <2>1, BitsOfByte
<1>2. q % 2 \in Bits
  BY DEF Bits
<1>3. Raw(cmd, c, x, y) = v
  OBVIOUS
<1> HIDE DEF v
<1> QED BY <1>1, <1>2, <1>3, FlagsAre

LEMMA NegGives ==
  ASSUME NEW c, NEW x \in Bytes, NEW y
  PROVE  Gives(neg, c, x, y, IF x = 0 THEN 0 ELSE 256 - x, IF x = 0 THEN 1 ELSE 0)
<1>0. x \in Int /\ 0 <= x /\ x < 256
  BY DEF Bytes
<1>1. Raw(neg, c, x, y) = IF x = 0 THEN 256 ELSE 65536 - x - 256
  BY RawOthers, KindsDiffer
<1>2. CASE x = 0
  <2>1. Raw(neg, c, x, y) = 256 * 1 + 0 /\ 0 \in Bytes /\ 1 \in Nat
    BY <1>1, <1>2 DEF Bytes
  <2>2. Gives(neg, c, x, y, 0, 1 % 2)
    BY <2>1, RawGives
  <2>3. 1 % 2 = 1
    OBVIOUS
  <2> QED BY <1>2, <2>2, <2>3
<1>3. CASE x # 0
  <2> DEFINE r == 256 - x
  <2>1. Raw(neg, c, x, y) = 256 * 254 + r /\ r \in Bytes /\ 254 \in Nat
    BY <1>0, <1>1, <1>3 DEF Bytes
  <2> HIDE DEF r
  <2>2. Gives(neg, c, x, y, r, 254 % 2)
    BY <2>1, RawGives
  <2>3. 254 % 2 = 0
    OBVIOUS
  <2> QED BY <1>3, <2>2, <2>3 DEF r
<1> QED BY <1>2, <1>3

LEMMA NotGives ==
  ASSUME NEW c, NEW x \in Bytes, NEW y
  PROVE  Gives(not, c, x, y, 255 - x, 1)
<1> DEFINE r == 255 - x
<1>1. Raw(not, c, x, y) = 65535 - x
  BY RawOthers, KindsDiffer
<1>2. Raw(not, c, x, y) = 256 * 255 + r /\ r \in Bytes /\ 255 \in Nat
  BY <1>1 DEF Bytes
<1> HIDE DEF r
<1>3. Gives(not, c, x, y, r, 255 % 2)
  BY <1>2, RawGives
<1>4. 255 % 2 = 1
  OBVIOUS
<1> QED BY <1>3, <1>4 DEF r

LEMMA LogicGives ==
  ASSUME NEW cmd, NEW c, NEW x, NEW y, NEW l \in Nibbles, NEW h \in Nibbles,
         Raw(cmd, c, x, y) = l + 16 * h
  PROVE  Gives(cmd, c, x, y, l + 16 * h, 0)
<1> DEFINE r == l + 16 * h
<1>1. Raw(cmd, c, x, y) = 256 * 0 + r /\ r \in Bytes /\ 0 \in Nat
  BY DEF Nibbles, Bytes
<1> HIDE DEF r
<1>2. Gives(cmd, c, x, y, r, 0 % 2)
  BY <1>1, RawGives
<1>3. 0 % 2 = 0
  OBVIOUS
<1> QED BY <1>2, <1>3 DEF r

-----------------------------------------------------------------------------
(* The two chips together answer what the simulator's unit answers.          *)
Agree(cmd, ci, x, y) ==
  LET g == ChipByte(cmd, ci, x, y)
      r == ResultFlags(cmd, ci, x, y)
  IN  g.r = Result(cmd, ci, x, y) /\ g.c = r.c /\ g.z = r.z /\ g.s = r.s

LEMMA CarriesIn ==
  ASSUME NEW c, NEW ci
  PROVE  /\ CarryIn(FALSE, c, ci) = ci
         /\ c \in {add, sub} => CarryIn(TRUE, c, ci) = 0
         /\ c \in {adc, sbc} => CarryIn(TRUE, c, ci) = ci
BY CommandsDiffer DEF CarryIn, IgnoreCarry, add, adc, sub, sbc

(* The carry of the low chip into the high one makes the sum of bytes ...    *)
LEMMA AddingAgrees ==
  ASSUME NEW cmd \in Adding, NEW ci, NEW x \in Bytes, NEW y \in Bytes,
         NEW k \in Bits, CarryIn(TRUE, cmd, ci) = k,
         Gives(cmd, ci, x, y, SumByte(x + y + k), SumCarry(x + y + k))
  PROVE  Agree(cmd, ci, x, y)
<1> DEFINE xl == x % 16
           xh == x \div 16
           yl == y % 16
           yh == y \div 16
<1>1. /\ xl \in Nibbles /\ xh \in Nibbles /\ x = xl + 16 * xh
      /\ yl \in Nibbles /\ yh \in Nibbles /\ y = yl + 16 * yh
  BY Halves
<1> HIDE DEF xl, xh, yl, yh
<1> DEFINE j  == NibbleCarry(xl + yl + k)
           l  == SumNibble(xl + yl + k)
           h  == SumNibble(xh + yh + j)
           jj == NibbleCarry(xh + yh + j)
<1>2. /\ SumByte((xl + 16 * xh) + (yl + 16 * yh) + k) = l + 16 * h
      /\ SumCarry((xl + 16 * xh) + (yl + 16 * yh) + k) = jj
      /\ j \in Bits
  BY <1>1, NibbleSum
<1>3. Gives(cmd, ci, x, y, l + 16 * h, jj)
  BY <1>1, <1>2
<1>4. Shows(TRUE, cmd, ci, xl, yl, l, j)
  BY <1>1, AddingShows
<1>5. Shows(FALSE, cmd, j, xh, yh, h, jj)
  <2>1. CarryIn(FALSE, cmd, j) = j
    BY CarriesIn
  <2> HIDE DEF j
  <2> QED BY <1>1, <1>2, <2>1, AddingShows
<1> HIDE DEF j, l, h, jj
<1>6. Agree(cmd, ci, x, y)
  BY <1>3, <1>4, <1>5, ChipsMakeByte DEF Agree, xl, xh, yl, yh
<1> QED BY <1>6

(* ... and its borrow the difference.                                        *)
LEMMA TakingAgrees ==
  ASSUME NEW cmd \in Taking, NEW ci, NEW x \in Bytes, NEW y \in Bytes,
         NEW k \in Bits, CarryIn(TRUE, cmd, ci) = k,
         Gives(cmd, ci, x, y, DiffByte(x - y - k), Borrow(x - y - k))
  PROVE  Agree(cmd, ci, x, y)
<1> DEFINE xl == x % 16
           xh == x \div 16
           yl == y % 16
           yh == y \div 16
<1>1. /\ xl \in Nibbles /\ xh \in Nibbles /\ x = xl + 16 * xh
      /\ yl \in Nibbles /\ yh \in Nibbles /\ y = yl + 16 * yh
  BY Halves
<1> HIDE DEF xl, xh, yl, yh
<1> DEFINE j  == Borrow(xl - yl - k)
           l  == DiffNibble(xl - yl - k)
           h  == DiffNibble(xh - yh - j)
           jj == Borrow(xh - yh - j)
<1>2. /\ DiffByte((xl + 16 * xh) - (yl + 16 * yh) - k) = l + 16 * h
      /\ Borrow((xl + 16 * xh) - (yl + 16 * yh) - k) = jj
      /\ j \in Bits
  BY <1>1, NibbleDifference
<1>3. Gives(cmd, ci, x, y, l + 16 * h, jj)
  BY <1>1, <1>2
<1>4. Shows(TRUE, cmd, ci, xl, yl, l, j)
  BY <1>1, TakingShows
<1>5. Shows(FALSE, cmd, j, xh, yh, h, jj)
  <2>1. CarryIn(FALSE, cmd, j) = j
    BY CarriesIn
  <2> HIDE DEF j
  <2> QED BY <1>1, <1>2, <2>1, TakingShows
<1> HIDE DEF j, l, h, jj
<1>6. Agree(cmd, ci, x, y)
  BY <1>3, <1>4, <1>5, ChipsMakeByte DEF Agree, xl, xh, yl, yh
<1> QED BY <1>6

LEMMA NotAgrees ==
  ASSUME NEW ci, NEW x \in Bytes, NEW y
  PROVE  Agree(not, ci, x, y)
<1> DEFINE xl == x % 16
           xh == x \div 16
<1>1. xl \in Nibbles /\ xh \in Nibbles /\ x = xl + 16 * xh
  BY Halves
<1> HIDE DEF xl, xh
<1>2. /\ Shows(TRUE, not, ci, xl, y % 16, 15 - xl, 1)
      /\ Shows(FALSE, not, 1, xh, y \div 16, 15 - xh, 1)
  BY <1>1, NotShows
<1>3. 255 - x = (15 - xl) + 16 * (15 - xh)
  BY <1>1 DEF Nibbles
<1>4. Gives(not, ci, x, y, (15 - xl) + 16 * (15 - xh), 1)
  BY <1>3, NotGives
<1> QED BY <1>2, <1>4, ChipsMakeByte DEF Agree, xl, xh

(* neg: the high chip adds one to the complement if the low nibble is zero.  *)
LEMMA NegAgrees ==
  ASSUME NEW ci, NEW x \in Bytes, NEW y
  PROVE  Agree(neg, ci, x, y)
<1> DEFINE xl == x % 16
           xh == x \div 16
           j  == IF xl = 0 THEN 1 ELSE 0
           l  == IF xl = 0 THEN 0 ELSE 16 - xl
           h  == IF xh = 0 /\ j = 1 THEN 0 ELSE 15 - xh + j
           jj == IF xh = 0 /\ j = 1 THEN 1 ELSE 0
<1>1. xl \in Nibbles /\ xh \in Nibbles /\ x = xl + 16 * xh
  BY Halves
<1> HIDE DEF xl, xh
<1>2. Shows(TRUE, neg, ci, xl, y % 16, l, j)
  <2>1. 1 \in Bits /\ 1 = IF TRUE THEN 1 ELSE ci
    BY DEF Bits
  <2>2. Shows(TRUE, neg, ci, xl, y % 16, IF xl = 0 /\ 1 = 1 THEN 0 ELSE 15 - xl + 1,
              IF xl = 0 /\ 1 = 1 THEN 1 ELSE 0)
    BY <1>1, <2>1, NegShows
  <2>3. xl # 0 => 15 - xl + 1 = 16 - xl
    BY <1>1 DEF Nibbles
  <2> QED BY <2>2, <2>3
<1>3. Shows(FALSE, neg, j, xh, y \div 16, h, jj)
  <2>1. j \in Bits /\ j = IF FALSE THEN 1 ELSE j
    BY DEF Bits
  <2> HIDE DEF j
  <2> QED BY <1>1, <2>1, NegShows
<1>4. /\ l + 16 * h = IF x = 0 THEN 0 ELSE 256 - x
      /\ jj = IF x = 0 THEN 1 ELSE 0
  <2>1. /\ xl \in Int /\ xh \in Int /\ 0 <= xl /\ xl < 16 /\ 0 <= xh /\ xh < 16
    BY <1>1 DEF Nibbles
  <2> QED BY <1>1, <2>1
<1>5. Gives(neg, ci, x, y, l + 16 * h, jj)
  <2>1. Gives(neg, ci, x, y, IF x = 0 THEN 0 ELSE 256 - x, IF x = 0 THEN 1 ELSE 0)
    BY NegGives
  <2> DEFINE r == l + 16 * h
  <2>2. r = (IF x = 0 THEN 0 ELSE 256 - x) /\ jj = (IF x = 0 THEN 1 ELSE 0)
    BY <1>4
  <2> HIDE DEF r, jj
  <2>3. Gives(neg, ci, x, y, r, jj)
    BY <2>1, <2>2
  <2> QED BY <2>3 DEF r
<1> HIDE DEF j, l, h, jj
<1>6. Agree(neg, ci, x, y)
  BY <1>2, <1>3, <1>5, ChipsMakeByte DEF Agree, xl, xh
<1> QED BY <1>6

LEMMA AndAgrees ==
  ASSUME NEW cmd \in Cmds, cmd \in AndCmds, NEW ci, NEW x \in Bytes, NEW y \in Bytes
  PROVE  Agree(cmd, ci, x, y)
<1> DEFINE xl == x % 16
           xh == x \div 16
           yl == y % 16
           yh == y \div 16
           l  == BitAnd(xl, yl)
           h  == BitAnd(xh, yh)
<1>1. l \in Nibbles /\ h \in Nibbles /\ BitAnd(x, y) = l + 16 * h
  BY BitAndSplits
<1> HIDE DEF xl, xh, yl, yh
<1>2. BitAnd(xl, yl) = l /\ BitAnd(xh, yh) = h
  OBVIOUS
<1>3. Raw(cmd, ci, x, y) = BitAnd(x, y)
  BY RawOthers
<1> HIDE DEF l, h
<1>4. Shows(TRUE, cmd, ci, xl, yl, l, 0) /\ Shows(FALSE, cmd, 0, xh, yh, h, 0)
  BY <1>1, <1>2, BitShows
<1>5. Gives(cmd, ci, x, y, l + 16 * h, 0)
  BY <1>1, <1>3, LogicGives
<1> QED BY <1>4, <1>5, ChipsMakeByte DEF Agree, xl, xh, yl, yh

LEMMA OrAgrees ==
  ASSUME NEW cmd \in Cmds, cmd \in OrCmds, NEW ci, NEW x \in Bytes, NEW y \in Bytes
  PROVE  Agree(cmd, ci, x, y)
<1> DEFINE xl == x % 16
           xh == x \div 16
           yl == y % 16
           yh == y \div 16
           l  == BitOr(xl, yl)
           h  == BitOr(xh, yh)
<1>1. l \in Nibbles /\ h \in Nibbles /\ BitOr(x, y) = l + 16 * h
  BY BitOrSplits
<1> HIDE DEF xl, xh, yl, yh
<1>2. BitOr(xl, yl) = l /\ BitOr(xh, yh) = h
  OBVIOUS
<1>3. Raw(cmd, ci, x, y) = BitOr(x, y)
  BY RawOthers
<1> HIDE DEF l, h
<1>4. Shows(TRUE, cmd, ci, xl, yl, l, 0) /\ Shows(FALSE, cmd, 0, xh, yh, h, 0)
  BY <1>1, <1>2, BitShows
<1>5. Gives(cmd, ci, x, y, l + 16 * h, 0)
  BY <1>1, <1>3, LogicGives
<1> QED BY <1>4, <1>5, ChipsMakeByte DEF Agree, xl, xh, yl, yh

LEMMA XorAgrees ==
  ASSUME NEW cmd \in Cmds, cmd \in XorCmds, NEW ci, NEW x \in Bytes, NEW y \in Bytes
  PROVE  Agree(cmd, ci, x, y)
<1> DEFINE xl == x % 16
           xh == x \div 16
           yl == y % 16
           yh == y \div 16
           l  == BitXor(xl, yl)
           h  == BitXor(xh, yh)
<1>1. l \in Nibbles /\ h \in Nibbles /\ BitXor(x, y) = l + 16 * h
  BY BitXorSplits
<1> HIDE DEF xl, xh, yl, yh
<1>2. BitXor(xl, yl) = l /\ BitXor(xh, yh) = h
  OBVIOUS
<1>3. Raw(cmd, ci, x, y) = BitXor(x, y)
  BY RawOthers
<1> HIDE DEF l, h
<1>4. Shows(TRUE, cmd, ci, xl, yl, l, 0) /\ Shows(FALSE, cmd, 0, xh, yh, h, 0)
  BY <1>1, <1>2, BitShows
<1>5. Gives(cmd, ci, x, y, l + 16 * h, 0)
  BY <1>1, <1>3, LogicGives
<1> QED BY <1>4, <1>5, ChipsMakeByte DEF Agree, xl, xh, yl, yh

(* Every command of the chips, on every two bytes.                           *)
LEMMA ChipsAreAlu ==
  ASSUME NEW cmd \in Cmds, NEW ci \in Bits, NEW x \in Bytes, NEW y \in Bytes
  PROVE  Agree(cmd, ci, x, y)
<1>0. x \in Int /\ y \in Int /\ ci \in Int /\ 0 \in Bits
  BY DEF Bytes, Bits
<1>1. CASE cmd = add
  <2>1. Gives(add, ci, x, y, SumByte(x + y + 0), SumCarry(x + y + 0))
    <3>1. x + y + 0 = x + y
      BY <1>0
    <3> QED BY <3>1, AddGives
  <2>2. CarryIn(TRUE, add, ci) = 0 /\ add \in Adding
    BY CarriesIn DEF Adding
  <2> QED BY <1>0, <1>1, <2>1, <2>2, AddingAgrees
<1>2. CASE cmd = adc
  <2>1. Gives(adc, ci, x, y, SumByte(x + y + ci), SumCarry(x + y + ci))
    BY AdcGives
  <2>2. CarryIn(TRUE, adc, ci) = ci /\ adc \in Adding
    BY CarriesIn DEF Adding
  <2> QED BY <1>2, <2>1, <2>2, AddingAgrees
<1>3. CASE cmd = sub
  <2>1. Gives(sub, ci, x, y, DiffByte(x - y - 0), Borrow(x - y - 0))
    <3>1. x - y - 0 = x - y
      BY <1>0
    <3> QED BY <3>1, SubGives
  <2>2. CarryIn(TRUE, sub, ci) = 0 /\ sub \in Taking
    BY CarriesIn DEF Taking
  <2> QED BY <1>0, <1>3, <2>1, <2>2, TakingAgrees
<1>4. CASE cmd = sbc
  <2>1. Gives(sbc, ci, x, y, DiffByte(x - y - ci), Borrow(x - y - ci))
    BY SbcGives
  <2>2. CarryIn(TRUE, sbc, ci) = ci /\ sbc \in Taking
    BY CarriesIn DEF Taking
  <2> QED BY <1>4, <2>1, <2>2, TakingAgrees
<1>5. CASE cmd = neg
  BY <1>5, NegAgrees
<1>6. CASE cmd = not
  BY <1>6, NotAgrees
<1>7. CASE cmd \in AndCmds
  BY <1>7, AndAgrees
<1>8. CASE cmd \in OrCmds
  BY <1>8, OrAgrees
<1>9. CASE cmd \in XorCmds
  BY <1>9, XorAgrees
<1>10. cmd \in {add, adc, sub, sbc, neg, not} \cup AndCmds \cup OrCmds \cup XorCmds
  BY DEF Cmds, add, adc, sub, sbc, neg, not, AndCmds, OrCmds, XorCmds
<1> QED BY <1>1, <1>2, <1>3, <1>4, <1>5, <1>6, <1>7, <1>8, <1>9, <1>10

(* The board and the simulator agree: at any moment of any program, the two  *)
(* four-bit chips of alu_generator.c give for every command the byte, carry, *)
(* zero and sign flag that evaluate_alu gives.                               *)
THEOREM ChipsAgreeAlways == Spec => []ChipsAgree
<1>1. TypeOK => ChipsAgree
  <2> SUFFICES ASSUME TypeOK PROVE ChipsAgree
    OBVIOUS
  <2>1. f.c \in Bits
    BY DEF TypeOK, Flags
  <2>2. Low(a) \in Bytes /\ High(b) \in Bytes
    BY WordParts DEF TypeOK
  <2>3. \A cmd \in Cmds : Agree(cmd, f.c, Low(a), High(b))
    BY <2>1, <2>2, ChipsAreAlu
  <2> QED BY <2>3 DEF ChipsAgree, Agree
<1>2. WordInv => ChipsAgree
  BY <1>1 DEF WordInv
<1> QED BY <1>2, InitWord, NextKeeps, PTL DEF Spec

(* The test the generator makes of its images (test, test_one).              *)
LEMMA ByteOf ==
  ASSUME NEW n \in Int, NEW r \in Bytes,
         n = r \/ n = r + 256 \/ n = r - 256 \/ n = r - 512
  PROVE  n % 256 = r
<1>1. r \in Int /\ 0 <= r /\ r < 256
  BY DEF Bytes
<1>2. CASE n = r
  BY <1>1, <1>2, Quotient, 256 \in Nat \ {0}, 0 \in Int
<1>3. CASE n = r + 256
  BY <1>1, <1>3, Quotient, 256 \in Nat \ {0}, 1 \in Int
<1>4. CASE n = r - 256
  BY <1>1, <1>4, Quotient, 256 \in Nat \ {0}, -1 \in Int
<1>5. CASE n = r - 512
  BY <1>1, <1>5, Quotient, 256 \in Nat \ {0}, -2 \in Int
<1> QED BY <1>2, <1>3, <1>4, <1>5

LEMMA TestedByte ==
  ASSUME NEW n \in Tested
  PROVE  /\ n \in Int /\ (n % 256) \in Bytes
         /\ n = (n % 256) \/ n = (n % 256) - 256
<1>1. n \in Int /\ -128 <= n /\ n <= 255
  BY DEF Tested
<1>2. CASE n >= 0
  <2>1. n \in Bytes
    BY <1>1, <1>2 DEF Bytes
  <2>2. n % 256 = n
    BY <1>1, <2>1, ByteOf
  <2> QED BY <1>1, <2>1, <2>2
<1>3. CASE n < 0
  <2>1. n + 256 \in Bytes
    BY <1>1, <1>3 DEF Bytes
  <2>2. n % 256 = n + 256
    <3> DEFINE r == n + 256
    <3>1. r \in Bytes /\ n = r - 256
      BY <1>1, <2>1
    <3> HIDE DEF r
    <3>2. n % 256 = r
      BY <1>1, <3>1, ByteOf
    <3> QED BY <3>2 DEF r
  <2>3. n = (n + 256) - 256
    BY <1>1
  <2> QED BY <1>1, <2>1, <2>2, <2>3
<1> QED BY <1>1, <1>2, <1>3

(* What test expects of each command.                                        *)
LEMMA Expectations ==
  ASSUME NEW c \in Cmds, NEW ci, NEW m, NEW n
  PROVE  /\ c = add => Expected(c, ci, m, n) = m + n
         /\ c = adc => Expected(c, ci, m, n) = m + n + ci
         /\ c = sub => Expected(c, ci, m, n) = m - n
         /\ c = sbc => Expected(c, ci, m, n) = m - n - ci
         /\ c = neg => Expected(c, ci, m, n) = 0 - m
         /\ c = not => Expected(c, ci, m, n) = (0 - m) - 1
         /\ c \in AndCmds => Expected(c, ci, m, n) = BitAnd(m % 256, n % 256)
         /\ c \in OrCmds => Expected(c, ci, m, n) = BitOr(m % 256, n % 256)
         /\ c \in XorCmds => Expected(c, ci, m, n) = BitXor(m % 256, n % 256)
<1>1. /\ c = add => Expected(c, ci, m, n) = m + n
      /\ c = adc => Expected(c, ci, m, n) = m + n + ci
      /\ c = sub => Expected(c, ci, m, n) = m - n
      /\ c = sbc => Expected(c, ci, m, n) = m - n - ci
      /\ c = neg => Expected(c, ci, m, n) = 0 - m
      /\ c = not => Expected(c, ci, m, n) = (0 - m) - 1
  BY DEF Expected, add, adc, sub, sbc, neg, not, AndCmds, OrCmds, XorCmds
<1>2. /\ c \in AndCmds => Expected(c, ci, m, n) = BitAnd(m % 256, n % 256)
      /\ c \in OrCmds => Expected(c, ci, m, n) = BitOr(m % 256, n % 256)
      /\ c \in XorCmds => Expected(c, ci, m, n) = BitXor(m % 256, n % 256)
  BY DEF Expected, add, adc, sub, sbc, neg, not, AndCmds, OrCmds, XorCmds
<1> QED BY <1>1, <1>2

LEMMA LogicResult ==
  ASSUME NEW c \in Cmds, NEW ci, NEW x \in Bytes, NEW y \in Bytes, NEW r,
         \/ c \in AndCmds /\ r = BitAnd(x, y)
         \/ c \in OrCmds /\ r = BitOr(x, y)
         \/ c \in XorCmds /\ r = BitXor(x, y)
  PROVE  r \in Bytes /\ Result(c, ci, x, y) = r
<1>1. Raw(c, ci, x, y) = r
  BY RawOthers
<1>2. PICK l \in Nibbles, h \in Nibbles : r = l + 16 * h
  BY BitAndSplits, BitOrSplits, BitXorSplits
<1>3. Gives(c, ci, x, y, l + 16 * h, 0)
  BY <1>1, <1>2, LogicGives
<1> QED BY <1>2, <1>3 DEF Gives

(* The images alu_generator.c makes pass the test it makes of them, so they  *)
(* are always written: for every command, carry and pair of numbers that     *)
(* test tries, the chips give the byte that C computes.                      *)
THEOREM GeneratorPasses == TestPasses
<1> SUFFICES ASSUME NEW c \in Cmds, NEW ci \in Bits, NEW v \in Tested, NEW w \in Tested
             PROVE  TestOne(c, ci, v, w)
  BY DEF TestPasses
<1> DEFINE x == v % 256
           y == w % 256
           e == Expected(c, ci, v, w)
<1>1. /\ x \in Bytes /\ v \in Int /\ (v = x \/ v = x - 256)
      /\ y \in Bytes /\ w \in Int /\ (w = y \/ w = y - 256)
  BY TestedByte
<1>2. /\ c = add => e = v + w
      /\ c = adc => e = v + w + ci
      /\ c = sub => e = v - w
      /\ c = sbc => e = v - w - ci
      /\ c = neg => e = 0 - v
      /\ c = not => e = (0 - v) - 1
      /\ c \in AndCmds => e = BitAnd(x, y)
      /\ c \in OrCmds => e = BitOr(x, y)
      /\ c \in XorCmds => e = BitXor(x, y)
  BY Expectations
<1> HIDE DEF x, y, e
<1>3. /\ x \in Int /\ 0 <= x /\ x < 256
      /\ y \in Int /\ 0 <= y /\ y < 256
      /\ ci \in Int /\ 0 <= ci /\ ci <= 1
  BY <1>1 DEF Bytes, Bits
<1> SUFFICES Result(c, ci, x, y) = e % 256
  <2>1. ChipByte(c, ci, x, y).r = Result(c, ci, x, y)
    BY <1>1, ChipsAreAlu DEF Agree
  <2> QED BY <2>1 DEF TestOne, x, y, e
<1>4. ASSUME NEW r \in Bytes, Result(c, ci, x, y) = r, e \in Int,
             e = r \/ e = r + 256 \/ e = r - 256 \/ e = r - 512
      PROVE  Result(c, ci, x, y) = e % 256
  BY <1>4, ByteOf
<1>5. CASE c = add
  <2> DEFINE r == SumByte(x + y)
  <2>1. Result(c, ci, x, y) = r /\ r \in Bytes
    BY <1>1, <1>5, AddGives DEF Gives
  <2>2. e \in Int /\ (e = r \/ e = r + 256 \/ e = r - 256 \/ e = r - 512)
    BY <1>1, <1>2, <1>3, <1>5 DEF SumByte
  <2> HIDE DEF r
  <2> QED BY <1>4, <2>1, <2>2
<1>6. CASE c = adc
  <2> DEFINE r == SumByte(x + y + ci)
  <2>1. Result(c, ci, x, y) = r /\ r \in Bytes
    BY <1>1, <1>6, AdcGives DEF Gives
  <2>2. e \in Int /\ (e = r \/ e = r + 256 \/ e = r - 256 \/ e = r - 512)
    BY <1>1, <1>2, <1>3, <1>6 DEF SumByte
  <2> HIDE DEF r
  <2> QED BY <1>4, <2>1, <2>2
<1>7. CASE c = sub
  <2> DEFINE r == DiffByte(x - y)
  <2>1. Result(c, ci, x, y) = r /\ r \in Bytes
    BY <1>1, <1>7, SubGives DEF Gives
  <2>2. e \in Int /\ (e = r \/ e = r + 256 \/ e = r - 256 \/ e = r - 512)
    BY <1>1, <1>2, <1>3, <1>7 DEF DiffByte
  <2> HIDE DEF r
  <2> QED BY <1>4, <2>1, <2>2
<1>8. CASE c = sbc
  <2> DEFINE r == DiffByte(x - y - ci)
  <2>1. Result(c, ci, x, y) = r /\ r \in Bytes
    BY <1>1, <1>8, SbcGives DEF Gives
  <2>2. e \in Int /\ (e = r \/ e = r + 256 \/ e = r - 256 \/ e = r - 512)
    BY <1>1, <1>2, <1>3, <1>8 DEF DiffByte
  <2> HIDE DEF r
  <2> QED BY <1>4, <2>1, <2>2
<1>9. CASE c = neg
  <2> DEFINE r == IF x = 0 THEN 0 ELSE 256 - x
  <2>1. Result(c, ci, x, y) = r /\ r \in Bytes
    BY <1>1, <1>9, NegGives DEF Gives
  <2>2. e \in Int /\ (e = r \/ e = r + 256 \/ e = r - 256 \/ e = r - 512)
    BY <1>1, <1>2, <1>3, <1>9
  <2> HIDE DEF r
  <2> QED BY <1>4, <2>1, <2>2
<1>10. CASE c = not
  <2> DEFINE r == 255 - x
  <2>1. Result(c, ci, x, y) = r /\ r \in Bytes
    BY <1>1, <1>10, NotGives DEF Gives
  <2>2. e \in Int /\ (e = r \/ e = r + 256 \/ e = r - 256 \/ e = r - 512)
    BY <1>1, <1>2, <1>3, <1>10
  <2> HIDE DEF r
  <2> QED BY <1>4, <2>1, <2>2
<1>11. CASE c \in AndCmds \cup OrCmds \cup XorCmds
  <2>1. \/ c \in AndCmds /\ e = BitAnd(x, y)
        \/ c \in OrCmds /\ e = BitOr(x, y)
        \/ c \in XorCmds /\ e = BitXor(x, y)
    BY <1>2, <1>11
  <2>2. e \in Bytes /\ Result(c, ci, x, y) = e
    BY <1>1, <2>1, LogicResult
  <2>3. e \in Int
    BY <2>2 DEF Bytes
  <2> QED BY <1>4, <2>2, <2>3
<1>12. \/ c \in AndCmds \cup OrCmds \cup XorCmds
       \/ c = add \/ c = adc \/ c = sub \/ c = sbc \/ c = neg \/ c = not
  BY DEF Cmds, add, adc, sub, sbc, neg, not, AndCmds, OrCmds, XorCmds
<1> QED BY <1>5, <1>6, <1>7, <1>8, <1>9, <1>10, <1>11, <1>12
=============================================================================
