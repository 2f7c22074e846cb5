--------------------------------- MODULE Alu ---------------------------------
(***************************************************************************)
(* The 8-bit arithmetic unit of the simulator (l_sim.cpp: evaluate_alu,    *)
(* alufd, condition).  Commands are numbered 0 (add) to 15 (shrc); an odd  *)
(* one takes part in an operation on longer numbers: it adds the carry in  *)
(* and its zero flag is set only if that of the command before it was.     *)
(* The flags register is the record [c, z, s, o] of its four bits.         *)
(***************************************************************************)
EXTENDS Naturals

Bytes == 0 .. 255
Bits  == 0 .. 1
Flags == [c : Bits, z : Bits, s : Bits, o : Bits]

add == 0
adc == 1
sub == 2
sbc == 3
neg == 10
not == 11
shl == 12
shlc == 13
shr == 14
shrc == 15
OrCmds == {4, 5}
XorCmds == {6, 7}
AndCmds == {8, 9}

Bit(v, i) == (v \div 2^i) % 2
Sign(v) == Bit(v, 7)

BitSum(f) == f[0] + 2 * f[1] + 4 * f[2] + 8 * f[3]
             + 16 * f[4] + 32 * f[5] + 64 * f[6] + 128 * f[7]
BitOr(a, b)  == BitSum([i \in 0 .. 7 |-> IF Bit(a, i) + Bit(b, i) > 0 THEN 1 ELSE 0])
BitXor(a, b) == BitSum([i \in 0 .. 7 |-> (Bit(a, i) + Bit(b, i)) % 2])
BitAnd(a, b) == BitSum([i \in 0 .. 7 |-> Bit(a, i) * Bit(b, i)])

(* The addend of a subtraction, in 16 bits: its complement, plus one unless  *)
(* an odd command borrows.                                                   *)
Negated(cmd, carry, b) ==
  (65536 - b - (IF cmd = sbc THEN carry ELSE 0)) % 65536

(* R of evaluate_alu, 16 bits of which bit 8 becomes the carry.              *)
Raw(cmd, carry, a, b) ==
  CASE cmd = add          -> a + b
    [] cmd = adc          -> a + b + carry
    [] cmd \in {sub, sbc} -> (a + Negated(cmd, carry, b)) % 65536
    [] cmd = neg          -> IF a = 0 THEN 256 ELSE 65536 - a - 256
    [] cmd = not          -> 65535 - a
    [] cmd \in AndCmds    -> BitAnd(a, b)
    [] cmd \in OrCmds     -> BitOr(a, b)
    [] cmd \in XorCmds    -> BitXor(a, b)
    [] cmd = shl          -> 2 * a
    [] cmd = shlc         -> 2 * a + carry
    [] cmd = shr          -> a \div 2 + 256 * (a % 2)
    [] cmd = shrc         -> a \div 2 + 128 * carry + 256 * (a % 2)

(* Overflow: both addends have one sign and the result has the other.        *)
(* Mutant: it is never set (the hack commented out at the end).              *)
Overflows_Never(cmd, carry, a, b) == FALSE
Overflows(cmd, carry, a, b) ==
  LET addend == IF cmd \in {sub, sbc} THEN Negated(cmd, carry, b) ELSE b
  IN  /\ cmd \in {add, adc, sub, sbc}
      /\ Sign(a) = Sign(addend)
      /\ Sign(a) # Sign(Raw(cmd, carry, a, b))

(* The byte given. *)
Result(cmd, carry, a, b) == Raw(cmd, carry, a, b) % 256

ResultFlags(cmd, carry, a, b) ==
  LET r == Raw(cmd, carry, a, b)
  IN  [c |-> Bit(r, 8), z |-> IF r % 256 = 0 THEN 1 ELSE 0, s |-> Sign(r),
       o |-> IF Overflows(cmd, carry, a, b) THEN 1 ELSE 0]

(* alufd: an odd command keeps the zero flag only if it was set before.      *)
(* Mutant: it forgets the one before.                                        *)
NextFlags_LastOnly(cmd, f, a, b) == ResultFlags(cmd, f.c, a, b)
NextFlags(cmd, f, a, b) ==
  LET r == ResultFlags(cmd, f.c, a, b)
  IN  IF cmd % 2 = 1 THEN [r EXCEPT !.z = @ * f.z] ELSE r

(* condition: whether a jump of this number is taken; 5 and 6 never are,     *)
(* 13 and 14 neither, 7 and 15 always.                                       *)
Holds(con, f) ==            \* the condition of which jump con + 8 is the opposite
  CASE con % 8 = 0 -> f.z = 0
    [] con % 8 = 1 -> f.c = 0
    [] con % 8 = 2 -> f.z = 0 /\ f.s = f.o
    [] con % 8 = 3 -> f.z = 0 /\ f.c = 0
    [] con % 8 = 4 -> f.s = f.o
    [] OTHER       -> FALSE

Condition(con, f) ==
  CASE con % 8 = 7        -> TRUE
    [] con % 8 \in {5, 6} -> FALSE
    [] con < 8            -> Holds(con, f)
    [] OTHER              -> ~Holds(con, f)
=============================================================================
