--------------------------- MODULE CompiledProgram ---------------------------
(***************************************************************************)
(* From the text of a C program to its effect: the compiler reads it and    *)
(* generates code in one pass (smlrc.c, cgrlcpu.c); its assembly is made to *)
(* bytes (asm.c) and put in memory; the last function is called with some   *)
(* arguments, and the processor (AtomicCpu, which Cpu implements) runs it   *)
(* until it is back in its caller.                                         *)
(***************************************************************************)
EXTENDS Definitions, CMeaning

CONSTANTS
  Sources,       \* C programs, a sequence of [text, program, wrong]
  Objects,       \* what the compiler makes of them: ObjectsOf(Sources)
  Inputs,        \* what the last function may be called with
  Base,          \* where the program is put
  S,             \* the stack pointer of the caller, below the arguments
  Bottom,        \* what is below the stack
  Frame,         \* the M of the caller
  Back,          \* where the caller goes on
  Free           \* where C has room for what the compiler has no label for

(* The meaning of the call, where the compiler has put the variables: their   *)
(* bytes after it, and its value.  What is static in a block is put aside.    *)
Aside == 64
Meaning(program, words, labels) ==
  LET known == {i \in DOMAIN program : program[i].kind = "variable" /\ program[i].name \in DOMAIN labels}
      extent(d) == labels[d.name] .. labels[d.name] + SizeOfType(DeclaredType(d)) - 1
      told(after) == [bytes |-> [a \in UNION {extent(program[i]) : i \in known} |-> ByteAt(after.mem, a)],
                      value |-> after.value]
      place == labels @@ [name \in {program[i].name : i \in DOMAIN program \ known} |->
                            Free + Aside * (CHOOSE i \in DOMAIN program : program[i].name = name)]
      free == Free + Aside * (Len(program) + 1)
  IN  Then(Called(Start(program, place, free), Last(program).name, words), told)

(* A compiled text: its bytes, where it begins, and what C says of calls.     *)
Object(source) ==
  LET placed(sections, labels) ==
        [bytes |-> Assemble(sections, labels), entry |-> labels[Last(source.program).name],
         means |-> [words \in Inputs |-> Meaning(source.program, words, labels)]]
      linked(sections) == Then(Labels(sections, Base), LAMBDA labels : placed(sections, labels))
      compiled(st) ==
        [refused |-> st.refused, structs |-> st.structs,
         object |-> IF st.refused \/ source.wrong THEN <<>> ELSE Then(Sections(st), linked)]
  IN  Then(Compiled(source.text), compiled)
ObjectsOf(sources) == [i \in DOMAIN sources |-> Object(sources[i])] \o <<>>

ASSUME ProgramAssumption ==
  /\ {Base, S, Bottom, Frame, Back, Free} \subseteq 0 .. 65535
  /\ S % 2 = 1     \* the stack starts at 0xffff and moves by two bytes
  /\ Bottom < S /\ \A words \in Inputs : S + 2 * Len(words) < Base

VARIABLES
  source,        \* which program
  given,         \* the arguments
  machine        \* registers and memory, NotLoaded at first

vars == <<source, given, machine>>

NotLoaded == [PC |-> 0]
Unfilled == 3    \* what is in memory that nobody has stored
Machine == INSTANCE AtomicCpu WITH Fill <- Unfilled, Programs <- {}, MaxInstructions <- 0,
                                   arch <- machine, count <- 0

Init == source \in DOMAIN Sources /\ given = <<>> /\ machine = NotLoaded

(* The caller has pushed the arguments, the first one last, and then where it *)
(* goes on.                                                                  *)
Memory(bytes, words) ==
  LET pushed == FlattenSeq([i \in DOMAIN words |-> Word(words[i])])
  IN  [a \in Bottom .. Base + Len(bytes) - 1 |->
         CASE a >= Base -> bytes[(a - Base) + 1]
           [] a \in S + 1 .. S + Len(pushed) -> pushed[a - S]
           [] OTHER -> Unfilled]

Load ==
  /\ machine = NotLoaded /\ ~Objects[source].refused
  /\ \E words \in Inputs :
       /\ given' = words
       /\ machine' = [A |-> 170, B |-> 85, F |-> 15, M |-> Frame, S |-> S,
                      PC |-> Objects[source].object.entry, X |-> Back,
                      user |-> Memory(Objects[source].object.bytes, words)]
  /\ UNCHANGED source

Run ==
  /\ machine # NotLoaded /\ machine.PC # Back
  /\ machine' = Machine!Execute(machine)
  /\ UNCHANGED <<source, given>>

Next == Load \/ Run
Spec == Init /\ [][Next]_vars
-----------------------------------------------------------------------------
BackInCaller == machine # NotLoaded /\ machine.PC = Back

(* The compiler refuses the texts that are wrong and no others, and has read   *)
(* the structures as they are.  A compiled program of the inputs does what the *)
(* program says: back in the caller every variable holds what it holds in C,   *)
(* the result is in place of the first argument, and the caller's stack and    *)
(* frame are as they were.                                                    *)
Refused == Objects[source].refused = Sources[source].wrong
Understood == \A tag \in DOMAIN Objects[source].structs : Objects[source].structs[tag] = Structs[tag]
Means ==
  LET agrees(expected) ==
        /\ \A a \in DOMAIN expected.bytes : machine.user[a] = expected.bytes[a]
        /\ Kind(Tail(Last(Sources[source].program).type)) # "void" =>
             machine.user[S + 1] + 256 * machine.user[S + 2] = expected.value
        /\ machine.M = Frame /\ machine.S = S
  IN  /\ Refused
      /\ ~Sources[source].wrong => Understood
      /\ BackInCaller => Then(Objects[source].object.means[given], agrees)
===============================================================================
