-------------------------- MODULE MicrocodeCompiler --------------------------
(***************************************************************************)
(* The compiler of the microcode (mc_compiler.cpp) at work on its source:  *)
(* the dashes of an address are filled in from the line before, then each  *)
(* line is written at every address it covers, then the rest of the image  *)
(* is filled.  A word of the image is the set of the lines it raises (all  *)
(* of them are active high).  A second word at an address stops the        *)
(* compiler unless its line says !override.                                *)
(*                                                                         *)
(* The compiled words, decoded as the board decodes them, are then run on  *)
(* the datapath beside the microprograms of the simulator.                 *)
(***************************************************************************)
EXTENDS Microcode, MicrocodeSource

CONSTANTS Sample,    \* a datapath to run programs on
          Fields,    \* bytes of memory programs are run over
          FlagBytes, \* contents of the flags register
          Garbage    \* what the entry that !override makes among the lines may hold

VARIABLES lines,   \* m_instr_lines
          next,    \* the line to do
          phase,   \* "dashes", "compile", "done", "double write",
           \* "bad dash"
          image,   \* the words written so far, by address
          pseudo   \* the entry for !override: NoEntry, or what it was found to hold
vars == <<lines, next, phase, image, pseudo>>

NoEntry == [raise |-> {}, drop |-> {}]
Ints == 0 .. 1
Nibbles == 0 .. 15

Init == /\ lines = Source /\ next = 1 /\ phase = "dashes"
        /\ image = <<>> /\ pseudo = NoEntry

(* process_dashes, one line: a dash stands for what the line before has      *)
(* there, which may not be an asterisk.                                      *)
Filled(i) ==
  [f \in 1 .. 4 |-> IF lines[i].address[f] = Same THEN lines[i - 1].address[f]
                    ELSE lines[i].address[f]]
Dashed(i) == {f \in 1 .. 4 : lines[i].address[f] = Same}

ProcessDashes ==
  /\ phase = "dashes" /\ next <= Len(lines)
  /\ IF \E f \in Dashed(next) : next = 1 \/ lines[next - 1].address[f] = All
     THEN phase' = "bad dash" /\ UNCHANGED <<lines, next>>
     ELSE /\ lines' = [lines EXCEPT ![next].address = Filled(next)]
          /\ next' = next + 1 /\ UNCHANGED phase
  /\ UNCHANGED <<image, pseudo>>

StartCompile ==
  /\ phase = "dashes" /\ next > Len(lines)
  /\ phase' = "compile" /\ next' = 1 /\ UNCHANGED <<lines, image, pseudo>>

(* get_address_vector: the addresses a line covers.                          *)
Covers(field, all) == IF field = All THEN all ELSE {field}
Addresses(a) == Covers(a[1], Ints) \X Covers(a[2], Nibbles)
                \X Covers(a[3], Nibbles) \X Covers(a[4], Nibbles)

(* get_word_for_instr: aliases have been expanded by parse_words; !override  *)
(* is looked up like a line, which inserts an entry nobody has initialised.  *)
ExpandedNames(names) ==
  UNION {IF n \in DOMAIN Alias THEN Alias[n] ELSE {n} : n \in names}
Word(names, entry) ==
  LET bits == ExpandedNames(names) \ {"!override"}
  IN  IF "!override" \in names THEN (bits \cup entry.raise) \ entry.drop ELSE bits
(* The loop of compile, one line.  Mutant: !override is not honoured.        *)
MayReplace_Never(names) == FALSE
MayReplace(names) == "!override" \in names

CompileLine ==
  /\ phase = "compile" /\ next <= Len(lines)
  /\ LET line == lines[next]
         covered == Addresses(line.address)
     IN  IF covered \cap DOMAIN image # {} /\ ~ MayReplace(line.names)
         THEN phase' = "double write" /\ UNCHANGED <<image, pseudo>>
         ELSE /\ pseudo' \in IF MayReplace(line.names) /\ pseudo = NoEntry
                             THEN Garbage ELSE {pseudo}
              /\ image' = [a \in covered |-> Word(line.names, pseudo')] @@ image
              /\ UNCHANGED phase
  /\ next' = next + 1 /\ UNCHANGED lines

FillUnused ==
  /\ phase = "compile" /\ next > Len(lines)
  /\ phase' = "done" /\ UNCHANGED <<lines, next, image, pseudo>>

Next == ProcessDashes \/ StartCompile \/ CompileLine \/ FillUnused
Spec == Init /\ [][Next]_vars
-----------------------------------------------------------------------------
(* The word at an address: section default is empty, so an unused one is 0.  *)
WordAt(a) == IF a \in DOMAIN image THEN image[a] ELSE {}

(* The signals of a word, as the decoders give them; sel_a with a select of  *)
(* 1 to 3 addresses one of the saved registers.                              *)
Select(w) == (IF "s0" \in w THEN 1 ELSE 0) + (IF "s1" \in w THEN 2 ELSE 0)
             + (IF "s2" \in w THEN 4 ELSE 0)
Signals(w) ==
  {Group(d)[Select(w) + 1] : d \in w \cap Decoders} \cup (w \cap Direct)
  \cup IF "sel_a" \in w /\ Select(w) \in 1 .. 3
       THEN {<<"reg1", "reg2", "reg3">>[Select(w)]} ELSE {}

(* The address the board reads: the pin of the interrupt field is tied to    *)
(* ground on both ROM chips (MCODE_LOW1 and MCODE_HIGH1).  An interrupt puts *)
(* 0xff into IR, so its entry is the program of opcode 0xff.                 *)
AddressOf(op, step) == <<0, op \div 16, op % 16, step>>
Ends(op, step) == "seq_rst" \in WordAt(AddressOf(op, step))
LastStep(op) == IF \E s \in 1 .. 15 : Ends(op, s)
                THEN CHOOSE s \in 1 .. 15 : Ends(op, s) /\ \A r \in 1 .. s - 1 : ~ Ends(op, r)
                ELSE 15
RomProgram(op) == [s \in 1 .. LastStep(op) |-> Signals(WordAt(AddressOf(op, s)))]

(* The datapath with a byte of flags, an opcode and paging on or off.        *)
Start(op, f, on) ==
  [Sample EXCEPT !.IR = op, !.F = f, !.paging = on,
                 !.user = Fields, !.kernel = [a \in DOMAIN Fields |-> 255 - Fields[a]]]
Returns == {\h0F, \h2F}
-----------------------------------------------------------------------------
(* No two lines of the source want the same address (the check in compile).  *)
NoDoubleWrite == phase \notin {"double write", "bad dash"}

(* The sequencer has four bits: the steps the image gives an opcode are 1 to *)
(* its first seq_rst, with no hole before and nothing after, so an opcode    *)
(* never runs on into words nobody wrote; and step 0 of each is the fetch    *)
(* but for 0xff, the one line that may replace a word.                       *)
Sequenced ==
  phase = "done" =>
    \A op \in 0 .. 255 :
      LET steps == {s \in 1 .. 15 : AddressOf(op, s) \in DOMAIN image}
      IN  /\ steps # {} => Ends(op, LastStep(op)) /\ steps = 1 .. LastStep(op)
          /\ op # 255 => Signals(WordAt(AddressOf(op, 0))) = {"pc_a", "mread", "ir_i"}

(* The machine and its simulator agree: for every opcode, from every sample, *)
(* the words of the image leave registers, memory, paging and interrupts as  *)
(* the microprogram of l_sim.cpp leaves them.  (The two returns from an      *)
(* interrupt are run with paging off, as handlers run: with paging on the    *)
(* board would pop from the kernel's page and the simulator from the user's.) *)
SameMachine ==
  phase = "done" =>
    \A op \in 0 .. 255, f \in FlagBytes, on \in BOOLEAN :
      (op \in Returns /\ on) \/
      PerformAll(Start(op, f, on), RomProgram(op)) = PerformAll(Start(op, f, on), Program(op))
=============================================================================
