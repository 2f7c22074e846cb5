------------------------------ MODULE AluChips ------------------------------
(***************************************************************************)
(* The two ROM chips that make the arithmetic unit of the machine          *)
(* (alu_generator.c): each works on four bits, the carry of the low one    *)
(* goes into the high one.  gen is written for both; what is left of its   *)
(* 8-bit variables when the operands have four bits is modelled as it is:  *)
(* the overflow flag is computed from bit 7 of them and is never set.      *)
(* The simulator's unit, module Alu, is what programs are tried on, so the *)
(* two must agree.                                                         *)
(***************************************************************************)
EXTENDS Alu, Integers

Cmds == 0 .. 11             \* shifts are not in the chips

(* gen: the low chip leaves the carry out unless the command is an odd one.  *)
IgnoreCarry(isLow, c) == isLow /\ c \notin {adc, sbc}
CarryIn(isLow, c, ci) == IF IgnoreCarry(isLow, c) THEN 0 ELSE ci

ChipAddend(isLow, c, ci, y) ==
  IF c \in {sub, sbc} THEN (256 - y - CarryIn(isLow, c, ci)) % 256 ELSE y

(* The 8-bit R.  Mutant: neg does not flip its carry. *)
FlipCarry_Never(r) == r
FlipCarry(r) == IF Bit(r, 4) = 1 THEN r - 16 ELSE r + 16

ChipRaw(isLow, c, ci, x, y) ==
  CASE c \in {add, adc} -> x + y + CarryIn(isLow, c, ci)
    [] c \in {sub, sbc} -> (x + ChipAddend(isLow, c, ci, y)) % 256
    [] c = neg          -> FlipCarry((255 - x + (IF isLow THEN 1 ELSE ci)) % 256)
    [] c = not          -> 255 - x
    [] c \in AndCmds    -> BitAnd(x, y)
    [] c \in OrCmds     -> BitOr(x, y)
    [] c \in XorCmds    -> BitXor(x, y)

Gen(isLow, c, ci, x, y) ==
  LET r == ChipRaw(isLow, c, ci, x, y)
      d == ChipAddend(isLow, c, ci, y)
  IN  [r |-> r % 16, c |-> Bit(r, 4), z |-> IF r % 16 = 0 THEN 1 ELSE 0, s |-> Bit(r, 3),
       o |-> IF c \in {add, adc, sub, sbc} /\ Sign(x) = Sign(d) /\ Sign(x) # Sign(r)
             THEN 1 ELSE 0]

(* test_gen_output: the carry of the low chip goes into the high one, and    *)
(* the flags are those of the high one, but zero, which both must give.      *)
ChipByte(c, ci, x, y) ==
  LET low  == Gen(TRUE, c, ci, x % 16, y % 16)
      high == Gen(FALSE, c, low.c, x \div 16, y \div 16)
  IN  [r |-> low.r + 16 * high.r, c |-> high.c, z |-> low.z * high.z, s |-> high.s, o |-> high.o]

(* The generator tries its images before it writes them.  test: what C gives *)
(* for two numbers; test_one: the byte of it that the chips must give.       *)
Tested == -128 .. 255
Expected(c, carry, a, b) ==
  CASE c = add         -> a + b
    [] c = adc         -> a + b + carry
    [] c = sub         -> a - b
    [] c = sbc         -> a - b - carry
    [] c = neg         -> 0 - a
    [] c = not         -> (0 - a) - 1
    [] c \in AndCmds   -> BitAnd(a % 256, b % 256)
    [] c \in OrCmds    -> BitOr(a % 256, b % 256)
    [] c \in XorCmds   -> BitXor(a % 256, b % 256)
TestOne(c, carry, a, b) ==
  ChipByte(c, carry, a % 256, b % 256).r = Expected(c, carry, a, b) % 256

(* The generator always writes its images: no test of its own fails.         *)
TestPasses == \A c \in Cmds, carry \in Bits, a, b \in Tested : TestOne(c, carry, a, b)
=============================================================================
