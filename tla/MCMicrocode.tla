----------------------------- MODULE MCMicrocode -----------------------------
(* One datapath with bytes that tell every register from every other, and    *)
(* memory around what PC, M, S and X address.                                *)
EXTENDS MicrocodeCompiler

MCFill == 3
MCSample ==
  [A |-> 18, B |-> 52, F |-> 0, IR |-> 0, Off |-> 6, M |-> \h2468, S |-> \h3A01, PC |-> \h1357,
   X |-> \h5BDE, la |-> 18, lb |-> 52, user |-> <<>>, kernel |-> <<>>, lines |-> {1, 3},
   inten |-> TRUE, paging |-> TRUE, bkIR |-> 161, bkOff |-> 77]
MCFields ==
  [a \in \h1357 .. \h135B \cup \h23E8 .. \h24E8 \cup \h39F8 .. \h3A0C \cup \h5BDC .. \h5BE0
         \cup {\hFFBD, \hFFBE, \hFFBF, 0, 1, 2} |-> (7 * a + a \div 256) % 256]
MCFlagBytes == {0, 3, 9, 244}
(* The position and the level of the entry are what the heap held, any of    *)
(* the lines; the four are what builds of the compiler gave under different  *)
(* allocators, and the fifth the loss of the one line the word has.          *)
AnyEntry == {NoEntry, [raise |-> {}, drop |-> {"sel_a"}]}
            \cup {[raise |-> {line}, drop |-> {}] : line \in {"s0", "s1", "a_i"}}
=============================================================================
