------------------------------ MODULE MCCompiler ------------------------------
(* What the compiler is given: texts as programmers write them, the programs of *)
(* MCPrograms written plainly, and texts that are wrong.                       *)
EXTENDS MCPrograms, MCTexts

Printed(program) == [text |-> TextOf(program), program |-> program, wrong |-> FALSE]
ByHand(text, program) == [text |-> text, program |-> program, wrong |-> FALSE]
Wrong(text) == [text |-> text, program |-> Main, wrong |-> TRUE]

Programs ==
  <<Main>> \o
  Valued(Fifth(Flat \o Nested \o Constants)) \o Stated(Fifth(Choosing \o Assigning)) \o Looping \o Leaving
AllSources ==
  <<ByHand(KernelText, KernelFunctions), ByHand(CallingText, Calling), ByHand(StructuredText, Structured),
    ByHand(ScopedText, Scoped)>>
  \o Then(Programs, LAMBDA all : [i \in DOMAIN all |-> Printed(all[i])])
  \o Then(WrongTexts, LAMBDA all : [i \in DOMAIN all |-> Wrong(all[i])])
(* Constants, which TLC works out before it starts.                          *)
MCSources == LET sources == AllSources IN sources
AllObjects == Then(MCSources, ObjectsOf)
MCObjects == LET objects == AllObjects IN objects
MCInputs == {<<1, 300>>, <<65534, 65534>>}
===============================================================================
