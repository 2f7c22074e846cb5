------------------------------- MODULE WordAlu -------------------------------
(***************************************************************************)
(* Arithmetic on 16-bit numbers as the code generator makes it of two      *)
(* commands of the 8-bit unit: the first on one byte, the second, odd, on  *)
(* the other one with the carry and the zero flag of the first; then a     *)
(* conditional jump.  test_alu (l_sim.cpp) does the same for subtraction.  *)
(***************************************************************************)
EXTENDS AluChips

CONSTANTS
  Words,        \* the operands
  OldFlags      \* the flags before

ASSUME WordAluAssumption ==
  Words \subseteq Nat /\ (\A w \in Words : w < 65536) /\ OldFlags \subseteq Flags

VARIABLES
  op, a, b,     \* the operation and its operands
  f,            \* the flags register
  low, high,    \* the bytes of the result
  pc

vars == <<op, a, b, f, low, high, pc>>

Low(w)  == w % 256
High(w) == w \div 256

Ops == {"add", "sub", "shl", "shr"}
FirstCmd  == [add |-> add, sub |-> sub, shl |-> shl, shr |-> shr]
SecondCmd == [add |-> adc, sub |-> sbc, shl |-> shlc, shr |-> shrc]

Init ==
  /\ op \in Ops /\ a \in Words /\ b \in Words
  /\ f \in OldFlags /\ low = 0 /\ high = 0
  /\ pc = "first"

(* One command: alud gives a byte, alufd the flags. *)
DoLow(cmd)  == low' = Result(cmd, f.c, Low(a), Low(b))
               /\ f' = NextFlags(cmd, f, Low(a), Low(b)) /\ UNCHANGED high
DoHigh(cmd) == high' = Result(cmd, f.c, High(a), High(b))
               /\ f' = NextFlags(cmd, f, High(a), High(b)) /\ UNCHANGED low

(* A shift to the right begins with the high byte. *)
LowFirst == op # "shr"

First ==
  /\ pc = "first" /\ pc' = "second"
  /\ IF LowFirst THEN DoLow(FirstCmd[op]) ELSE DoHigh(FirstCmd[op])
  /\ UNCHANGED <<op, a, b>>

Second ==
  /\ pc = "second" /\ pc' = "done"
  /\ IF LowFirst THEN DoHigh(SecondCmd[op]) ELSE DoLow(SecondCmd[op])
  /\ UNCHANGED <<op, a, b>>

Next == First \/ Second
Spec == Init /\ [][Next]_vars
-----------------------------------------------------------------------------
Value == low + 256 * high
Signed(w) == IF w < 32768 THEN w ELSE w - 65536

(* Two commands on bytes make one on words: together the bytes are the       *)
(* result (what test_alu compares for subtraction), the carry left is that   *)
(* of the whole number, borrows and bits shifted out included, and the zero  *)
(* flag says that both bytes are zero.                                       *)
WordResult ==
  pc = "done" =>
    /\ Value = CASE op = "add" -> (a + b) % 65536
                 [] op = "sub" -> (a - b) % 65536
                 [] op = "shl" -> (2 * a) % 65536
                 [] op = "shr" -> a \div 2
    /\ (f.c = 1) = CASE op = "add" -> a + b > 65535
                      [] op = "sub" -> a < b
                      [] op = "shl" -> a > 32767
                      [] op = "shr" -> a % 2 = 1
    /\ f.z = 1 <=> Value = 0

(* After a subtraction the jumps of keywords.h compare the numbers: jnz, jz, *)
(* jnc, jc, ja and jbe without sign.  The signed ones, jg, jge, jle and jl,  *)
(* are right too, unless the high byte of b is 0x80 and the low one does not *)
(* borrow: the overflow of 0x80 negated is then taken for one of the         *)
(* subtraction (evaluate_alu).                                               *)
UnsignedJumps ==
  /\ Condition(0, f) <=> a # b
  /\ Condition(8, f) <=> a = b
  /\ Condition(1, f) <=> a >= b
  /\ Condition(9, f) <=> a < b
  /\ Condition(3, f) <=> a > b
  /\ Condition(11, f) <=> a <= b
SignedJumps ==
  /\ Condition(2, f) <=> Signed(a) > Signed(b)
  /\ Condition(4, f) <=> Signed(a) >= Signed(b)
  /\ Condition(10, f) <=> Signed(a) <= Signed(b)
  /\ Condition(12, f) <=> Signed(a) < Signed(b)
JumpsCompare ==
  pc = "done" /\ op = "sub" =>
    /\ UnsignedJumps
    /\ SignedJumps \/ (High(b) = 128 /\ Low(a) >= Low(b))

(* The board and the simulator: whatever command the chips are given on the  *)
(* bytes at hand, they answer with the byte, carry, sign and zero flag of    *)
(* evaluate_alu, so a program sees no difference but in the overflow flag.   *)
ChipsAgree ==
  \A cmd \in Cmds :
    LET g == ChipByte(cmd, f.c, Low(a), High(b))
        r == ResultFlags(cmd, f.c, Low(a), High(b))
    IN  g.r = Result(cmd, f.c, Low(a), High(b)) /\ g.c = r.c /\ g.z = r.z /\ g.s = r.s

(* What the comment on the overflow flag says (alu_generator.c): it is set   *)
(* when the sign of a is changed by subtracting a number of opposite sign.   *)
OverflowAsDocumented ==
  pc = "done" /\ op = "sub" =>
    (f.o = 1 <=> (a >= 32768) # (b >= 32768) /\ (a >= 32768) # (Value >= 32768))
=============================================================================
