--------------------------- MODULE MicrocodeSource ---------------------------
(***************************************************************************)
(* The microcode of the machine as its source gives it (cpu5.txt): the     *)
(* names a line may use, and the lines.  The address of a line has four    *)
(* fields (interrupt, command, argument, step), each a number, Same (the   *)
(* dashes of the source) or All (its asterisks).                           *)
(***************************************************************************)
EXTENDS Naturals, Sequences, SequencesExt

Same == 16
All  == 17

(* The lines of the control word, and the decoders that name one of eight    *)
(* signals by the bits s0 to s2.                                             *)
Selects  == {"s0", "s1", "s2"}
Decoders == {"c0_0", "c0_1", "c1_0", "c1_1"}
Direct   == {"seq_rst", "a_i", "a_o", "mread", "mwrite", "sel_a", "iv_o", "sel_high",
             "load_fault"}

Bits3 == <<{}, {"s0"}, {"s1"}, {"s0", "s1"}, {"s2"}, {"s0", "s2"}, {"s1", "s2"},
           {"s0", "s1", "s2"}>>
(* Mutant: the two halves of S are crossed on the first decoder.             *)
Group_Crossed(d) ==
  CASE d = "c0_0" -> <<"b_o", "sl_o", "sh_o", "mh_o", "ml_o", "alu_l", "xh_o", "xl_o">>
    [] d = "c0_1" -> <<"pc_a", "s_a", "alu_d", "mf_a", "aluf_d", "f_o", "ir_a", "x_a">>
    [] d = "c1_0" -> <<"off_i", "sh_i", "sl_i", "b_i", "ml_i", "ei", "xh_i", "xl_i">>
    [] d = "c1_1" -> <<"ir_i", "sl--", "sl++", "s_rst", "f_i", "mh_i", "pc++", "pc_switch">>
Group(d) ==
  CASE d = "c0_0" -> <<"b_o", "sh_o", "sl_o", "mh_o", "ml_o", "alu_l", "xh_o", "xl_o">>
    [] d = "c0_1" -> <<"pc_a", "s_a", "alu_d", "mf_a", "aluf_d", "f_o", "ir_a", "x_a">>
    [] d = "c1_0" -> <<"off_i", "sh_i", "sl_i", "b_i", "ml_i", "ei", "xh_i", "xl_i">>
    [] d = "c1_1" -> <<"ir_i", "sl--", "sl++", "s_rst", "f_i", "mh_i", "pc++", "pc_switch">>

(* alias: the control lines a name stands for.                               *)
Alias == [n \in UNION {{Group(d)[i] : i \in 1 .. 8} : d \in Decoders} |->
            LET d == CHOOSE d \in Decoders : \E i \in 1 .. 8 : Group(d)[i] = n
            IN  {d} \cup Bits3[CHOOSE i \in 1 .. 8 : Group(d)[i] = n]]
-----------------------------------------------------------------------------
Line(int, cmd, arg, seq, names) == [address |-> <<int, cmd, arg, seq>>, names |-> names]

(* The lines of one instruction: the first says what changes of the address, *)
(* the others keep it and count the steps.                                   *)
Instruction(cmd, arg, steps) ==
  [i \in 1 .. Len(steps) |->
     Line(Same, IF i = 1 THEN cmd ELSE Same,
          IF i = 1 \/ arg = All THEN arg ELSE Same, i, steps[i])]
Op(arg, steps) == Instruction(Same, arg, steps)

(* Mutant: the last step of an instruction does not reset the sequencer.     *)
End_NoReset == {"pc++"}
End   == {"pc++", "seq_rst"}
Read1(to) == {"pc_a", "mread", to}
Entry == <<{"pc_switch", "sel_a"}, {"sl_o", "sel_a", "mwrite"}, {"sh_o", "sel_a", "mwrite"},
           {"a_o", "sel_a", "mwrite", "s_rst"}, {"sl--"}, {"a_i", "xh_o"},
           {"a_o", "s_a", "mwrite"}, {"a_i", "xl_o"}, {"sl--"}, {"a_o", "s_a", "mwrite"},
           {"xl_i", "iv_o"}, {"a_i", "sh_o"}, {"a_o", "xh_i"}, {"sl--"},
           {"seq_rst", "pc_switch"}>>
Exit  == <<{"pc_switch", "sel_a"}, {"sl++"}, {"a_i", "s_a", "mread"}, {"a_o", "xl_i"},
           {"sl++"}, {"a_i", "s_a", "mread"}, {"a_o", "xh_i"},
           {"a_i", "sel_a", "mread", "s_rst"}, {"sh_i", "sel_a", "mread"},
           {"sl_i", "sel_a", "mread"}, {"pc_switch"}>>

ControlLines ==
  << <<Line(All, All, All, 0, {"c0_1", "c1_1", "mread"}),
       Line(0, 0, 0, 1, {"seq_rst"})>>,
     Op(1, <<{"iv_o"}, End>>), Op(2, <<{"ei"}, End>>), Op(3, <<End>>),
     Op(4, <<{"x_a", "a_i", "mread"}, {"mf_a", "a_o", "mwrite"}, End>>),
     Op(5, <<{"seq_rst"}>>),
     Op(7, <<{"pc_switch"}, {"pc++"}, {"pc_switch"}, End>>),
     Op(15, Exit \o <<{"ei"}, {"seq_rst"}>>),
     Instruction(1, 15, Entry),
     Instruction(2, 15, Exit \o <<{"load_fault", "off_i"}, {"load_fault", "ei"},
                                  {"seq_rst", "ir_i", "load_fault"}>>),
     Instruction(10, All, <<{"pc++"}, {"pc_switch", "seq_rst"}>>) >>

ThreeAddressSteps ==
  <<{"pc++"}, Read1("off_i"), {"mf_a", "a_i", "mread"}, {"pc++"}, Read1("off_i"),
    {"mf_a", "b_i", "mread"}, {"pc++"}, {"alu_l"}, Read1("off_i"), {"alu_d", "a_i"},
    {"s2", "aluf_d", "f_i"}, {"mf_a", "a_o", "mwrite"}, End>>
AluLines ==
  << Instruction(11, All, ThreeAddressSteps),
     Instruction(12, All, <<{"alu_d", "a_i"}, {"s2", "c0_1", "c1_1"}, End>>) >>

To(name)   == <<{name, "a_o"}, End>>
From(name) == <<{name, "a_i"}, End>>
Double(low, high) == <<{"pc++"}, Read1("a_i"), {"a_o", low}, {"pc++"}, Read1("a_i"),
                       {"a_o", high}, End>>
StoreLines ==
  << Instruction(13, 0, To("b_i")), Op(1, To("sl_i")), Op(2, To("sh_i")), Op(3, To("ml_i")),
     Op(4, To("mh_i")), Op(5, <<{"pc++"}, Read1("off_i"), {"mf_a", "a_o", "mwrite"}, End>>),
     Op(6, To("xl_i")), Op(7, To("xh_i")),
     Op(9, <<{"s_a", "a_o", "mwrite"}, {"sl--"}, End>>),
     Op(10, To("f_i")), Op(11, <<{"x_a", "a_o", "mwrite"}, End>>),
     Op(12, Double("sl_i", "sh_i")), Op(13, Double("ml_i", "mh_i")),
     Op(14, Double("xl_i", "xh_i")),
     Op(15, <<{"pc++"}, Read1("off_i"), {"pc++"}, Read1("a_i"),
              {"mf_a", "a_o", "mwrite"}, End>>) >>
LoadLines ==
  << Instruction(14, 0, From("b_o")), Op(1, From("sl_o")), Op(2, From("sh_o")),
     Op(3, From("ml_o")), Op(4, From("mh_o")),
     Op(5, <<{"pc++"}, Read1("off_i"), {"mf_a", "a_i", "mread"}, End>>),
     Op(6, From("xl_o")), Op(7, From("xh_o")),
     Op(9, <<{"sl++"}, {"s_a", "mread", "a_i"}, End>>),
     Op(10, From("f_o")), Op(11, <<{"x_a", "mread", "a_i"}, End>>),
     Op(12, <<{"pc++"}, Read1("a_i"), End>>),
     Op(14, <<{"a_i", "ml_o"}, {"a_o", "sl_i"}, {"a_i", "mh_o"}, {"a_o", "sh_i"}, End>>),
     Op(15, <<{"a_i", "sl_o"}, {"a_o", "ml_i"}, {"a_i", "sh_o"}, {"a_o", "mh_i"}, End>>) >>
-----------------------------------------------------------------------------
Push(name) == <<{name, "a_i"}, {"s_a", "a_o", "mwrite"}, {"sl--"}>>
Pop(name)  == <<{"sl++"}, {"s_a", "mread", "a_i"}, {name, "a_o"}>>
Repeat(n, step) == [i \in 1 .. n |-> step]
Field(names) == {"mf_a"} \cup names
StackLines ==
  << Instruction(15, 0, Push("xl_o") \o Push("xh_o") \o Push("ml_o") \o Push("mh_o") \o <<End>>),
     Op(1, Pop("mh_i") \o Pop("ml_i") \o Pop("xh_i") \o Pop("xl_i") \o <<End>>),
     Op(2, Repeat(2, {"sl++"}) \o <<End>>), Op(3, Repeat(8, {"sl++"}) \o <<End>>),
     Op(4, Repeat(2, {"sl--"}) \o <<End>>), Op(5, Repeat(8, {"sl--"}) \o <<End>>),
     Op(6, <<{"pc++"}, Read1("off_i"), Field({"a_i", "mread"}), {"s_a", "a_o", "mwrite"},
             {"sl--"}, End>>),
     Op(7, <<{"sl++"}, {"s_a", "mread", "a_i"}, {"pc++"}, Read1("off_i"),
             Field({"a_o", "mwrite"}), End>>),
     Op(8, <<{"pc++"}, Read1("off_i"), Field({"a_i", "mread", "sel_high"}),
             {"s_a", "a_o", "mwrite"}, {"sl--"}, Read1("off_i"), Field({"a_i", "mread"}),
             {"s_a", "a_o", "mwrite"}, {"sl--"}, End>>),
     Op(9, <<{"sl++"}, {"s_a", "mread", "a_i"}, {"pc++"}, Read1("off_i"),
             Field({"a_o", "mwrite"}), {"sl++"}, {"s_a", "mread", "a_i"}, Read1("off_i"),
             Field({"a_o", "mwrite", "sel_high"}), End>>),
     Op(10, <<{"pc++"}, Read1("off_i"), Field({"a_i", "mread"}), {"pc++"}, Read1("off_i"),
              Field({"a_o", "mwrite"}), End>>),
     Op(14, <<{"pc++"}, Read1("off_i"), Field({"a_i", "mread"}), {"xl_i", "a_o"},
              Field({"a_i", "mread", "sel_high"}), {"xh_i", "a_o"}, End>>) >>

(* The interrupt field stays a dash, so it is the 0 of the lines before: the  *)
(* first line wants the address where the fetch of opcode 0xff has been put.  *)
InterruptLines ==
  << <<Line(Same, 15, 15, 0, {"sel_a", "!override"})>>,
     [i \in 1 .. Len(Entry) |-> Line(Same, Same, Same, i, Entry[i])] >>

Source == FlattenSeq(ControlLines \o AluLines \o StoreLines \o LoadLines \o StackLines
                     \o InterruptLines)
=============================================================================
