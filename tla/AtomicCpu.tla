------------------------------ MODULE AtomicCpu ------------------------------
(***************************************************************************)
(* What the processor promises to the program of a user: its instructions  *)
(* are carried out one after the other, each of them once and as a whole,  *)
(* as if there were no interrupts and all of its memory were there.        *)
(***************************************************************************)
EXTENDS Microcode

CONSTANTS Programs,        \* the machines the program may start on
          MaxInstructions

VARIABLES arch,  \* what the program sees: registers and memory
          count  \* instructions carried out

Visible(c) == [A |-> c.A, B |-> c.B, F |-> c.F, M |-> c.M, S |-> c.S, PC |-> c.PC, X |-> c.X,
               user |-> c.user]

(* The datapath at the fetch of an instruction, with nothing in the way.     *)
Undisturbed(r) ==
  [A |-> r.A, B |-> r.B, F |-> r.F, M |-> r.M, S |-> r.S, PC |-> r.PC, X |-> r.X,
   user |-> r.user, IR |-> Stored(r.user, r.PC), Off |-> 0, la |-> r.A, lb |-> r.B,
   kernel |-> <<>>, lines |-> {}, inten |-> TRUE, paging |-> TRUE, bkIR |-> 0, bkOff |-> 0]
Execute(r) ==
  LET c == Undisturbed(r) IN Visible(PerformAll(c, Program(c.IR)))

Init == arch \in Programs /\ count = 0

Next == /\ count < MaxInstructions
        /\ arch' = Execute(arch) /\ count' = count + 1

Spec == Init /\ [][Next]_<<arch, count>>
=============================================================================
