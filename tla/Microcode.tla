------------------------------ MODULE Microcode ------------------------------
(***************************************************************************)
(* The datapath of the processor and the microprograms of its simulator    *)
(* (l_sim.cpp).  A microstep is the set of the signals it raises: at most  *)
(* one that drives the address bus, one that drives the data bus, what     *)
(* latches the data bus, and what counts or switches.  A microprogram is   *)
(* the sequence of the microsteps that follow the fetch.                   *)
(*                                                                         *)
(* The datapath is one record: the bytes A, B, F, IR, Off and the inputs   *)
(* la, lb of the arithmetic unit; the words M, S, PC, X; the bytes stored  *)
(* in the pages of the user (user) and of the kernel (kernel), seen while  *)
(* paging is on and off; the enable of interrupts, the interrupt lines     *)
(* that are set, and what the last fault left in the backup (bkIR, bkOff). *)
(***************************************************************************)
EXTENDS Alu, Sequences, SequencesExt, FiniteSets, TLC

CONSTANT Fill   \* what a byte of memory holds that nobody has stored

Words == 0 .. 65535
Lines == 0 .. 3

LowByte(w)  == w % 256
HighByte(w) == w \div 256
SetLow(w, b)  == 256 * HighByte(w) + b
SetHigh(w, b) == 256 * b + LowByte(w)
Plus(w, n) == (w + n) % 65536

(* The four bits of flags as a byte and back (F keeps the byte it is given). *)
FlagByte(f) == f.c + 2 * f.z + 4 * f.s + 8 * f.o
FlagsOf(b)  == [c |-> Bit(b, 0), z |-> Bit(b, 1), s |-> Bit(b, 2), o |-> Bit(b, 3)]

(* Memory: what is stored, and Fill elsewhere. *)
Stored(m, a) == IF a \in DOMAIN m THEN m[a] ELSE Fill
Store(m, a, b) ==
  IF a \in DOMAIN m THEN [m EXCEPT ![a] = b]
  ELSE [x \in DOMAIN m \cup {a} |-> IF x = a THEN b ELSE m[x]]
Read(c, a) == Stored(IF c.paging THEN c.user ELSE c.kernel, a)

(* M plus the signed offset. *)
FieldAddress(c) == Plus(c.M, c.Off + (IF Sign(c.Off) = 1 THEN 65280 ELSE 0))

(* The vector of the lowest line that is set; a call by scall has none.     *)
Vector(lines) == IF lines = {} THEN 64
                 ELSE 16 * (CHOOSE l \in lines : \A k \in lines : l <= k)
-----------------------------------------------------------------------------
(* One microstep.  reg1, reg2 and reg3 address the three bytes that keep    *)
(* the registers of interrupted code, with paging off.                      *)
Accesses(step) == step \cap {"mread", "mwrite"} # {}

Address(c, step) ==
  LET field == FieldAddress(c)
  IN  CASE "pc_a" \in step -> c.PC
        [] "s_a"  \in step -> c.S
        [] "x_a"  \in step -> c.X
        [] "mf_a" \in step -> IF "sel_high" \in step /\ field % 2 = 0 THEN field + 1 ELSE field
        [] "reg1" \in step -> \hFFBD
        [] "reg2" \in step -> \hFFBE
        [] "reg3" \in step -> \hFFBF
        [] OTHER -> 0

(* What the data bus carries, where a is the address.                       *)
DataBus(c, step, a) ==
  CASE "mread"  \in step -> Read(c, a)
    [] "a_o"    \in step -> c.A
    [] "b_o"    \in step -> c.B
    [] "f_o"    \in step -> c.F
    [] "sl_o"   \in step -> LowByte(c.S)
    [] "sh_o"   \in step -> HighByte(c.S)
    [] "ml_o"   \in step -> LowByte(c.M)
    [] "mh_o"   \in step -> HighByte(c.M)
    [] "xl_o"   \in step -> LowByte(c.X)
    [] "xh_o"   \in step -> HighByte(c.X)
    [] "alu_d"  \in step -> Result(c.IR % 16, c.F % 2, c.la, c.lb)
    [] "aluf_d" \in step -> FlagByte(NextFlags(c.IR % 16, FlagsOf(c.F), c.la, c.lb))
    [] "iv_o"   \in step -> Vector(c.lines)
    [] OTHER -> 0

(* A step that loads from the backup (load_fault) does not see the bus.     *)
Perform(c0, step) ==
  LET has(signal) == signal \in step
      c == IF has("sel_a") THEN [c0 EXCEPT !.paging = FALSE] ELSE c0
      a == Address(c, step)
      d == DataBus(c, step, a)
      word(w, low, high) ==
        IF has(low) THEN SetLow(w, d) ELSE IF has(high) THEN SetHigh(w, d) ELSE w
      x == word(c.X, "xl_i", "xh_i")
      pc == Plus(c.PC, IF has("pc++") THEN 1 ELSE 0)
      switch == has("pc_switch") /\ Condition(c.IR % 16, FlagsOf(c.F))
      restore == has("load_fault")
  IN  [c EXCEPT
        !.A   = IF has("a_i") THEN d ELSE @,
        !.B   = IF has("b_i") THEN d ELSE @,
        !.F   = IF has("f_i") THEN d ELSE @,
        !.IR  = IF has("ir_i") THEN (IF restore THEN c.bkIR ELSE d) ELSE @,
        !.Off = IF has("off_i") THEN (IF restore THEN c.bkOff ELSE d) ELSE @,
        !.M   = word(@, "ml_i", "mh_i"),
        !.S   = IF has("s_rst") THEN 0
                ELSE IF has("sl++") THEN Plus(@, 1)
                ELSE IF has("sl--") THEN Plus(@, 65535)
                ELSE word(@, "sl_i", "sh_i"),
        !.PC  = IF switch THEN x ELSE pc,
        !.X   = IF switch THEN pc ELSE x,
        !.la  = IF has("alu_l") THEN c.A ELSE @,
        !.lb  = IF has("alu_l") THEN c.B ELSE @,
        !.user   = IF has("mwrite") /\ c.paging THEN Store(@, a, d) ELSE @,
        !.kernel = IF has("mwrite") /\ ~ c.paging THEN Store(@, a, d) ELSE @,
        !.lines  = IF has("iv_o") THEN {} ELSE @,
        !.inten  = IF has("iv_o") THEN FALSE ELSE has("ei") \/ @,
        !.paging = has("ei") \/ @]

PerformAll(c, program) == FoldLeft(Perform, c, program)
-----------------------------------------------------------------------------
(* The pieces the microprograms are made of.                                *)
Next1         == <<{"pc++"}>>
Operand(to)   == <<{"pc++"}, {"pc_a", "mread", to}>>
LoadField     == Operand("off_i") \o <<{"mf_a", "mread", "a_i"}>>
StoreField    == Operand("off_i") \o <<{"mf_a", "a_o", "mwrite"}>>
FromA(to)     == <<{"a_o", to}>>
ToA(from)     == <<{from, "a_i"}>>
ThroughA(from, to) == ToA(from) \o FromA(to)
PushA         == <<{"s_a", "a_o", "mwrite"}, {"sl--"}>>
PopA          == <<{"sl++"}, {"s_a", "mread", "a_i"}>>
Times(n, step) == [i \in 1 .. n |-> step]
Operand16(low, high) == Operand("a_i") \o FromA(low) \o Operand("a_i") \o FromA(high)

(* Entry into the kernel: the registers are saved with paging off, S and A   *)
(* at reg1 to reg3 and the program counter on top of memory, and the         *)
(* program goes on at 0xff00 plus the vector.                                *)
(* Mutant: the low and the high byte of S change places.                     *)
EnterKernel_Crossed ==
  <<{"pc_switch"}, {"sel_a", "reg1", "sl_o", "mwrite"}, {"sel_a", "reg2", "sh_o", "mwrite"},
    {"sel_a", "reg3", "a_o", "mwrite", "s_rst"}, {"sl--"}, {"xh_o", "a_i"},
    {"s_a", "a_o", "mwrite"}, {"xl_o", "a_i"}, {"sl--"}, {"s_a", "a_o", "mwrite"},
    {"iv_o", "xl_i"}, {"sh_o", "a_i"}, {"a_o", "xh_i"}, {"sl--"}, {"pc_switch"}>>
EnterKernel ==
  <<{"pc_switch"}, {"sel_a", "reg2", "sl_o", "mwrite"}, {"sel_a", "reg1", "sh_o", "mwrite"},
    {"sel_a", "reg3", "a_o", "mwrite", "s_rst"}, {"sl--"}, {"xh_o", "a_i"},
    {"s_a", "a_o", "mwrite"}, {"xl_o", "a_i"}, {"sl--"}, {"s_a", "a_o", "mwrite"},
    {"iv_o", "xl_i"}, {"sh_o", "a_i"}, {"a_o", "xh_i"}, {"sl--"}, {"pc_switch"}>>
Reload ==
  <<{"pc_switch"}, {"sl++"}, {"s_a", "mread", "a_i"}, {"a_o", "xl_i"},
    {"sl++"}, {"s_a", "mread", "a_i"}, {"a_o", "xh_i"},
    {"sel_a", "reg3", "mread", "a_i", "s_rst"}, {"sel_a", "reg1", "mread", "sh_i"},
    {"sel_a", "reg2", "mread", "sl_i"}, {"pc_switch"}>>

Resume == <<{"load_fault", "off_i"}, {"ei"}, {"load_fault", "ir_i"}>>

(* What each opcode of 0xdX and 0xeX moves between A and a register.         *)
Latch == <<"sl_i", "sh_i", "ml_i", "mh_i", "", "xl_i", "xh_i", "", "", "f_i">>
Drive == <<"sl_o", "sh_o", "ml_o", "mh_o", "", "xl_o", "xh_o", "", "", "f_o">>
Moves == {1, 2, 3, 4, 6, 7, 10}

ThreeAddress ==
  LoadField \o Operand("off_i") \o <<{"mf_a", "mread", "b_i"}, {"pc++"}, {"alu_l"},
    {"pc_a", "mread", "off_i"}, {"alu_d", "a_i"}, {"aluf_d", "f_i"},
    {"mf_a", "a_o", "mwrite"}>> \o Next1

(* The microprogram of an opcode; one the table does not know does nothing,  *)
(* not even count.  hlt and swp, which stop the simulator, are left out.     *)
StoreProgram(low) ==
  CASE low = 0       -> FromA("b_i") \o Next1
    [] low \in Moves -> FromA(Latch[low]) \o Next1
    [] low = 5       -> StoreField \o Next1
    [] low = 9       -> PushA \o Next1
    [] low = 11      -> <<{"x_a", "a_o", "mwrite"}>> \o Next1
    [] low = 12      -> Operand16("sl_i", "sh_i") \o Next1
    [] low = 13      -> Operand16("ml_i", "mh_i") \o Next1
    [] low = 14      -> Operand16("xl_i", "xh_i") \o Next1
    [] low = 15      -> Operand("off_i") \o Operand("a_i")
                        \o <<{"mf_a", "a_o", "mwrite"}>> \o Next1
    [] OTHER         -> <<>>

LoadProgram(low) ==
  CASE low = 0       -> ToA("b_o") \o Next1
    [] low \in Moves -> ToA(Drive[low]) \o Next1
    [] low = 5       -> LoadField \o Next1
    [] low = 9       -> PopA \o Next1
    [] low = 11      -> <<{"x_a", "mread", "a_i"}>> \o Next1
    [] low = 12      -> Operand("a_i") \o Next1
    [] low = 14      -> ThroughA("ml_o", "sl_i") \o ThroughA("mh_o", "sh_i") \o Next1
    [] low = 15      -> ThroughA("sl_o", "ml_i") \o ThroughA("sh_o", "mh_i") \o Next1
    [] OTHER         -> <<>>

PopWord ==
  PopA \o Operand("off_i") \o <<{"mf_a", "a_o", "mwrite"}>>
  \o PopA \o <<{"pc_a", "mread", "off_i"}, {"mf_a", "sel_high", "a_o", "mwrite"}>>

StackProgram(low) ==
  CASE low = 0  -> ToA("xl_o") \o PushA \o ToA("xh_o") \o PushA
                   \o ToA("ml_o") \o PushA \o ToA("mh_o") \o PushA \o Next1
    [] low = 1  -> PopA \o FromA("mh_i") \o PopA \o FromA("ml_i")
                   \o PopA \o FromA("xh_i") \o PopA \o FromA("xl_i") \o Next1
    [] low = 2  -> Times(2, {"sl++"}) \o Next1
    [] low = 3  -> Times(8, {"sl++"}) \o Next1
    [] low = 4  -> Times(2, {"sl--"}) \o Next1
    [] low = 5  -> Times(8, {"sl--"}) \o Next1
    [] low = 6  -> LoadField \o PushA \o Next1
    [] low = 7  -> PopA \o StoreField \o Next1
    [] low = 8  -> Operand("off_i") \o <<{"mf_a", "sel_high", "mread", "a_i"}>> \o PushA
                   \o <<{"pc_a", "mread", "off_i"}, {"mf_a", "mread", "a_i"}>> \o PushA \o Next1
    [] low = 9  -> PopWord \o Next1
    [] low = 10 -> LoadField \o StoreField \o Next1
    [] low = 14 -> LoadField \o FromA("xl_i")
                   \o <<{"mf_a", "sel_high", "mread", "a_i"}>> \o FromA("xh_i") \o Next1
    [] low = 15 -> EnterKernel
    [] OTHER    -> <<>>

ControlProgram(op) ==
  CASE op = \h01 -> <<{"iv_o"}>> \o Next1
    [] op = \h02 -> <<{"ei"}>> \o Next1
    [] op = \h03 -> Next1
    [] op = \h04 -> <<{"x_a", "mread", "a_i"}, {"mf_a", "a_o", "mwrite"}>> \o Next1
    [] op = \h07 -> <<{"pc_switch"}, {"pc++"}, {"pc_switch"}, {"pc++"}>>
    [] op = \h0F -> Reload \o <<{"ei"}>>
    [] op = \h1F -> EnterKernel
    [] op = \h2F -> Reload \o Resume
    [] OTHER     -> <<>>

Program(op) ==
  LET low == op % 16
  IN  CASE op \div 16 = 10 -> Next1 \o <<{"pc_switch"}>>
        [] op \div 16 = 11 -> ThreeAddress
        [] op \div 16 = 12 -> <<{"alu_d", "a_i"}, {"aluf_d", "f_i"}>> \o Next1
        [] op \div 16 = 13 -> StoreProgram(low)
        [] op \div 16 = 14 -> LoadProgram(low)
        [] op \div 16 = 15 -> StackProgram(low)
        [] OTHER           -> ControlProgram(op)
=============================================================================
