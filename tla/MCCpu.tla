-------------------------------- MODULE MCCpu --------------------------------
(* An instruction in the last byte of page 0 with its operands in page 1 (or *)
(* its last operand only, for the two with more than one read in between);   *)
(* fields in pages 2 and 3, the stack between pages 3 and 4, X in page 5.    *)
(* What follows, and all other memory, is nop.                               *)
EXTENDS Cpu

MCFill == 3
Operands(pc) == (pc + 1 :> 3) @@ (pc + 2 :> 244)
Data == (\h3000 :> 17) @@ (\h3001 :> 34) @@ (\h2FF1 :> 51) @@ (\h3002 :> 85)
        @@ (\h3FFF :> 102) @@ (\h4000 :> 119) @@ (\h4001 :> 136) @@ (\h4002 :> 153)
        @@ (\h5010 :> 170)
Registers(op, pc, s) ==
  [A |-> 200, B |-> 77, F |-> 3, M |-> \h2FFD, S |-> s, PC |-> pc, X |-> \h5010,
   user |-> (pc :> op) @@ Operands(pc) @@ Data]
Pushing == {\hD9, \hF0, \hF6, \hF8}
Popping == {\hE9, \hF1, \hF7, \hF9}
Others  == {\h07, \hA0, \hA8, \hAF, \hB3, \hC2, \hD5, \hDB, \hDE, \hDF, \hE5, \hEB, \hFA, \hFE}
MCPrograms == {Registers(op, \h0FFF, \h4000) : op \in Pushing \cup Others}
              \cup {Registers(op, \h0FFF, \h3FFE) : op \in Popping}
              \cup {Registers(\hB3, \h0FFD, \h4000), Registers(\hDF, \h0FFE, \h4000)}
=============================================================================
