------------------------------- MODULE ExprCode -------------------------------
(***************************************************************************)
(* The code the cpu5 back end of the compiler generates for an expression  *)
(* (the emitters of cgrlcpu_emitters.c, the jumps of cgrlcpu.c), and the   *)
(* bytes the assembler makes of it (asm.c).                                *)
(*                                                                         *)
(* A line of assembly is a tuple of its mnemonic and operands; a register  *)
(* is a bank and a number as in ExprTree.  A label is its text: that of a   *)
(* numbered one is "L" and the number.                                      *)
(***************************************************************************)
EXTENDS Declarations, ExprTree, Alu

Low8(v)  == v % 256
High8(v) == (v \div 256) % 256

ld(reg, n)        == <<"ld r", reg, n>>
lda(n)            == <<"ld A", n>>
mov(to, from)     == <<"mov", to, from>>
fromA(reg)        == <<"mov r,A", reg>>
toA(reg)          == <<"mov A,r", reg>>
talu(cmd, d, a, b) == <<"talu", cmd, d, a, b>>
alu(cmd)          == <<"alu", cmd>>
plain(mnemonic)   == <<mnemonic>>
lddX(label)       == <<"ldd X,label", label>>
jump(con)         == <<"jump", con>>
labelHere(label)  == <<"label", label>>
L(number)         == "L" \o ToString(number)
R0 == <<"r", 0>>
R1 == <<"r", 1>>

jnz == 0
jz  == 8
jmp == 15
or  == 4        \* with xor and and, the even one of each pair of Alu
xor == 6
and == 8
-----------------------------------------------------------------------------
GenNumLabel(label) == <<labelHere(L(label))>>
GenJumpUncond(label) == <<lddX(L(label)), jump(jmp)>>

(* Jumps that test a result: GenJumpIfZero_sz, GenJumpIfNotZero_sz.  They    *)
(* take it from r0, whatever the register of the node is.                    *)
GenJump(con, label, size) ==
  <<talu(or, R0, R0, IF size = 1 THEN R0 ELSE R1), lddX(L(label)), jump(con)>>

(* The value in r0 and r1 is destroyed.                                      *)
GenJumpIfEqual(value, label) ==
  <<ld(<<"r", 2>>, Low8(value)), ld(<<"r", 3>>, High8(value)),
    talu(sub, R0, <<"r", 2>>, R0), talu(sbc, R1, <<"r", 3>>, R1)>> \o GenJump(jz, label, 2)

emit_tokNumInt(n) ==
  <<ld(n.reg, Low8(n.value))>>
  \o (IF Abs(n.size) = 1 THEN <<>> ELSE <<ld(High(n.reg), High8(n.value))>>)

(* emit_alu_op: the low bytes, then, for two bytes, the high ones. *)
FirstOp  == [t \in {"+", "-", "&", "|", "^"} |->
               CASE t = "+" -> add [] t = "-" -> sub [] t = "&" -> and [] t = "|" -> or
                 [] t = "^" -> xor]
SecondOp == [FirstOp EXCEPT !["+"] = adc, !["-"] = sbc]
emit_arith(n) ==
  LET a == n.kids[1].reg
      b == n.kids[2].reg
  IN  <<talu(FirstOp[n.tok], n.reg, a, b)>>
      \o (IF Abs(n.size) = 2 THEN <<talu(SecondOp[n.tok], High(n.reg), High(a), High(b))>>
          ELSE <<>>)

(* A comparison: 0, and then 1 unless the jump on the opposite condition is   *)
(* taken.                                                                     *)
OppositeJump ==
  [t \in Comparisons |->
     CASE t = "==" -> jnz [] t = "!=" -> jz
       [] t = "<=" -> 2 [] t = ">=" -> 12 [] t = "<" -> 4 [] t = ">" -> 10
       [] t = "<=u" -> 3 [] t = ">=u" -> 9 [] t = "<u" -> 1 [] t = ">u" -> 11]
emit_comparison(n, after) ==
  LET a == n.kids[1].reg
      b == n.kids[2].reg
  IN  <<lddX(L(after)), talu(sub, n.reg, a, b)>>
      \o (IF Abs(n.size) = 2
          THEN <<talu(sbc, High(n.reg), High(a), High(b)), ld(High(n.reg), 0)>> ELSE <<>>)
      \o <<ld(n.reg, 0), jump(OppositeJump[n.tok]), ld(n.reg, 1), labelHere(L(after))>>

(* A shift by a constant: by 8 the bytes move; by any other, one bit at a     *)
(* time, the first time from the operand.                                     *)
ShiftOnce(n, from) ==
  LET low(cmd)  == talu(cmd, n.reg, from, R0)
      high(cmd) == talu(cmd, High(n.reg), High(from), R0)
  IN  CASE n.tok = "<<" /\ Abs(n.size) = 2 -> <<low(shl), high(shlc)>>
        [] n.tok = "<<"                    -> <<low(shl)>>
        [] n.tok # "<<" /\ Abs(n.size) = 2 -> <<high(shr), low(shrc)>>
        [] OTHER                           -> <<low(shr)>>
emit_tokShift(n) ==
  LET from == n.kids[1].reg
      k == n.kids[2].value
  IN  IF k # 8
      THEN FlattenSeq([i \in 1 .. k |-> ShiftOnce(n, IF i = 1 THEN from ELSE n.reg)])
      ELSE IF n.tok = "<<"
      THEN <<mov(High(n.reg), from), lda(0), fromA(n.reg)>>
      ELSE <<mov(n.reg, High(from)), lda(0), fromA(High(n.reg))>>

(* The high byte of a negated word is not complemented. *)
Two(cmd, n, a, b) == <<talu(cmd, n.reg, a, b), talu(cmd, High(n.reg), High(a), High(b))>>
emit_tokUnaryAlu(n) ==
  LET a == n.kids[1].reg
  IN  IF n.tok = "~" THEN Two(not, n, a, a)
      ELSE IF Abs(n.size) = 1 THEN <<talu(neg, n.reg, a, a)>>
      ELSE <<lda(1), plain("mov B,A"), toA(a), alu(not), alu(add), fromA(n.reg),
             lda(0), plain("mov B,A"), toA(High(a)), alu(adc), fromA(High(n.reg))>>

emit_tokBool(n) ==
  LET a == n.kids[1].reg
  IN  IF Abs(n.size) = 2 THEN <<talu(or, n.reg, a, High(a)), ld(High(n.reg), 0)>>
      ELSE <<talu(or, n.reg, a, a)>>

(* Labels above 0x4000 are jumped to in any case; positive ones by && if     *)
(* the operand is 0, negative ones by || if it is not.                       *)
emit_tokShortCirc(n) ==
  IF n.value >= 16384 THEN GenJumpUncond(n.value - 16384)
  ELSE IF n.value >= 0 THEN GenJump(jz, n.value, Abs(n.size))
  ELSE GenJump(jnz, 0 - n.value, Abs(n.size))

emit_tokIf(n) ==
  (IF Abs(n.kids[1].size) = 1 THEN <<lda(0), fromA(R1)>> ELSE <<>>)
  \o GenJump(IF n.tok = "ifnot" THEN jz ELSE jnz, n.value, 2)

(* emit_tokReturn and emit_tokSequential leave the result in r0.             *)
ToResult(n) ==
  LET a == n.kids[1].reg
  IN  IF a = R0 THEN <<>> ELSE <<mov(n.reg, a), mov(High(n.reg), High(a))>>
emit_tokReturn(n) ==
  ToResult(n) \o (IF Abs(n.kids[1].size) = 1 THEN <<lda(0), fromA(High(n.reg))>> ELSE <<>>)

(* emit_convType: of one byte, the high byte is 0, signed or not.            *)
emit_convType(n) ==
  LET a == n.kids[1].reg
  IN  (IF a # n.reg THEN <<mov(n.reg, a)>> ELSE <<>>)
      \o (IF Abs(n.size) = 2 THEN <<lda(0), fromA(High(n.reg))>> ELSE <<>>)

emit_tokIdent(n) == <<<<"ld r,low", n.value, n.reg>>, <<"ld r,high", n.value, High(n.reg)>>>>

(* The address of a local out of the reach of offsets: M, plus or minus.     *)
emit_tokLocalOfs(n) ==
  LET off == IF n.value <= 0 THEN n.value - 15 ELSE n.value + 1
      low == IF off < 0 THEN sub ELSE add
      high == IF off < 0 THEN sbc ELSE adc
  IN  <<lda(Low8(Abs(off))), plain("mov B,A"), plain("mov A,ML"), alu(low), fromA(n.reg),
        lda(High8(Abs(off))), plain("mov B,A"), plain("mov A,MH"), alu(high),
        fromA(High(n.reg))>>

(* The address of what is accessed, in X: a name, a number, or what a        *)
(* register holds.                                                           *)
Locate(address) ==
  <<CASE address.tok = "ident" /\ address.quiet -> lddX(address.value)
      [] IsNum(address) /\ address.quiet        -> <<"ldd X", address.value>>
      [] OTHER                                  -> <<"movw X", address.reg>>>>

emit_tokUnaryStar(n) ==
  Locate(n.kids[1]) \o <<plain("mov A,[X]"), fromA(n.reg)>>
  \o (IF Abs(n.size) = 2 THEN <<plain("X++"), plain("mov A,[X]"), fromA(High(n.reg))>> ELSE <<>>)

AssignByte(n, store, high) == store \o <<fromA(IF high THEN High(n.reg) ELSE n.reg)>>
emit_tokAssign(n) ==
  LET to == n.kids[1]
      v  == n.kids[2].reg
      local == off_to_reg(to.value)
      store(reg) == <<toA(reg), plain("mov [X],A")>>
      word == Abs(n.size) = 2
  IN  IF to.tok = "local" /\ to.quiet
      THEN AssignByte(n, <<mov(local, v)>>, FALSE)
           \o (IF word THEN AssignByte(n, <<mov(High(local), High(v))>>, TRUE) ELSE <<>>)
      ELSE Locate(to) \o AssignByte(n, store(v), FALSE)
           \o (IF word THEN AssignByte(n, <<plain("X++")>> \o store(High(v)), TRUE) ELSE <<>>)

(* emit_tokCall: the arguments are on the stack, the first one on top, where  *)
(* the result takes its place; without any there is room for the result.      *)
PushArgument(arg) ==
  IF arg.size = 1 THEN <<lda(0), plain("push A"), <<"push", arg.reg>>>> ELSE <<<<"pushw", arg.reg>>>>
emit_tokCall(n) ==
  LET args == Front(n.kids)
      Drop[k \in Nat] == IF k >= 8 THEN <<plain("SP+=8")>> \o Drop[k - 8]
                         ELSE IF k > 0 THEN <<plain("SP+=2")>> \o Drop[k - 2] ELSE <<>>
  IN  (IF args = <<>> THEN <<plain("SP-=2")>>
       ELSE FlattenSeq([i \in DOMAIN args |-> PushArgument(args[i])]))
      \o Locate(Last(n.kids)) \o <<jump(jmp), <<"popw", n.reg>>>>
      \o (IF args = <<>> THEN <<>> ELSE Drop[2 * Len(args) - 2])

(* GenEmitNode.  The label after a comparison is a new one.                   *)
emit(n, newLabel) ==
  IF n.quiet THEN <<>>
  ELSE CASE IsNum(n)                            -> emit_tokNumInt(n)
         [] n.tok \in DOMAIN FirstOp            -> emit_arith(n)
         [] n.tok \in Comparisons               -> emit_comparison(n, newLabel)
         [] n.tok \in {"<<", ">>", ">>u"}       -> emit_tokShift(n)
         [] n.tok \in {"~", "-u"}               -> emit_tokUnaryAlu(n)
         [] n.tok = "bool"                      -> emit_tokBool(n)
         [] n.tok = "shortCirc"                 -> emit_tokShortCirc(n)
         [] n.tok \in {"&&", "||", "?"}         -> GenNumLabel(n.value)
         [] n.tok \in {"if", "ifnot"}           -> emit_tokIf(n)
         [] n.tok = "return"                    -> emit_tokReturn(n)
         [] n.tok = "sequential"                -> ToResult(n)
         [] n.tok \in {"int", "uchar", "schar"} -> emit_convType(n)
         [] n.tok = "ident"                     -> emit_tokIdent(n)
         [] n.tok = "local"                     -> emit_tokLocalOfs(n)
         [] n.tok = "*u"                        -> emit_tokUnaryStar(n)
         [] n.tok = "="                         -> emit_tokAssign(n)
         [] n.tok = ")"                         -> emit_tokCall(n)
         [] n.tok \in {"comma", "void"}         -> <<>>

(* GenEmitTree: the operands in their order, then the node, behind the code   *)
(* there is and with the next label.                                          *)
RECURSIVE GenEmitTree(_, _)
GenEmitTree(n, so_far) ==
  LET below == FoldLeft(LAMBDA done, kid : GenEmitTree(kid, done), so_far, n.kids)
      uses == IF n.tok \in Comparisons /\ ~n.quiet THEN 1 ELSE 0
  IN  [below EXCEPT !.code = @ \o emit(n, below.label), !.label = @ + uses]

(* GenExpr: what the stack holds becomes a tree, which is rewritten pass by   *)
(* pass, gets its registers and is emitted.                                   *)
GenExpr(entries, so_far) ==
  LET optimized(tree) == FoldLeft(LAMBDA t, pass : GenOptimizeTree(pass, t), tree, Passes)
      registers(tree) == GenAssignRegistersToTree(tree, 0)
      emitted(done) == Then(Then(Then(GenTree(entries, Len(entries)).node, optimized), registers),
                            LAMBDA tree : GenEmitTree(tree, done))
  IN  Then(so_far, emitted)

(* GenFxnProlog and GenFxnEpilog: below the return address and the M of the   *)
(* caller come r15 to r0 and the locals, in steps of 8 bytes.  The result     *)
(* takes the place of the first argument.                                     *)
Steps(lowest) == (Abs(lowest) + 7) \div 8
Prolog(lowest) ==
  <<plain("push XM"), plain("movms")>> \o [i \in 1 .. 2 + Steps(lowest) |-> plain("SP-=8")]
Epilog(lowest) ==
  <<mov(<<"a", 0>>, R0), mov(<<"a", 1>>, R1)>> \o [i \in 1 .. Steps(lowest) |-> plain("SP+=8")]
  \o <<plain("movsm"), plain("pop MX"), jump(jmp)>>
-----------------------------------------------------------------------------
(* The assembler.  A register is a byte to be added to M, with sign          *)
(* (parse_relative_arg); a label is two bytes, which linking fills.          *)
relative(reg) ==
  (256 + reg[2] + (CASE reg[1] = "a" -> 5 [] reg[1] \in {"r", "l"} -> -15)) % 256
Word(v) == <<Low8(v), High8(v)>>

(* One operator for each generate_ function of asm.c, then its directives.    *)
generate_mov(line) ==
  CASE line[1] = "mov"     -> <<\hFA, relative(line[3]), relative(line[2])>>
    [] line[1] = "mov r,A" -> <<\hD5, relative(line[2])>>
    [] line[1] = "mov A,r" -> <<\hE5, relative(line[2])>>
generate_movw(reg) == <<\hFE, relative(reg)>>
generate_push(reg, is_word) == <<IF is_word THEN \hF8 ELSE \hF6, relative(reg)>>
generate_pop(reg, is_word) == <<IF is_word THEN \hF9 ELSE \hF7, relative(reg)>>
generate_ld(line, address) ==
  CASE line[1] = "ld r"      -> <<\hDF, relative(line[2]), line[3]>>
    [] line[1] = "ld A"      -> <<\hEC, line[2]>>
    [] line[1] = "ld r,low"  -> <<\hDF, relative(line[3]), Low8(address[line[2]])>>
    [] line[1] = "ld r,high" -> <<\hDF, relative(line[3]), High8(address[line[2]])>>
generate_ldd(value) == <<\hDE>> \o Word(value)
generate_alu(arg) == <<\hC0 + arg>>
generate_t_alu(arg, rd, ra, rb) == <<\hB0 + arg, relative(ra), relative(rb), relative(rd)>>
generate_jmp(arg) == <<\hA0 + arg>>
OneByte ==
  ("X++" :> \h07) @@ ("mov B,A" :> \hD0) @@ ("mov A,ML" :> \hE3) @@ ("mov A,MH" :> \hE4)
  @@ ("mov A,[X]" :> \hEB) @@ ("mov [X],A" :> \hDB) @@ ("movsm" :> \hEE) @@ ("movms" :> \hEF)
  @@ ("push XM" :> \hF0) @@ ("pop MX" :> \hF1) @@ ("SP+=2" :> \hF2) @@ ("SP+=8" :> \hF3)
  @@ ("SP-=2" :> \hF4) @@ ("SP-=8" :> \hF5) @@ ("push A" :> \hD9)
gen_instruction(line, address) ==
  CASE line[1] \in {"ld r", "ld A", "ld r,low", "ld r,high"} -> generate_ld(line, address)
    [] line[1] \in {"mov", "mov r,A", "mov A,r"} -> generate_mov(line)
    [] line[1] = "movw X"      -> generate_movw(line[2])
    [] line[1] = "ldd X,label" -> generate_ldd(address[line[2]])
    [] line[1] = "ldd X"       -> generate_ldd(line[2])
    [] line[1] = "alu"         -> generate_alu(line[2])
    [] line[1] = "talu"        -> generate_t_alu(line[2], line[3], line[4], line[5])
    [] line[1] = "jump"        -> generate_jmp(line[2])
    [] line[1] = "push"        -> generate_push(line[2], FALSE)
    [] line[1] = "pushw"       -> generate_push(line[2], TRUE)
    [] line[1] = "popw"        -> generate_pop(line[2], TRUE)
    [] OTHER                   -> <<OneByte[line[1]]>>

(* A line, with the address of each label.                                   *)
Directives == {"label", "byte", "word", "word label", "skip"}
Encode(line, address) ==
  CASE line[1] = "label"      -> <<>>
    [] line[1] = "byte"       -> <<Low8(line[2])>>
    [] line[1] = "word"       -> Word(line[2])
    [] line[1] = "word label" -> Word(address[line[2]])
    [] line[1] = "skip"       -> [i \in 1 .. line[2] |-> 0]
    [] line[1] \notin Directives -> gen_instruction(line, address)

Mentions == {"ldd X,label", "ld r,low", "ld r,high", "word label"}
Mentioned(code) == {line[2] : line \in {l \in Range(code) : l[1] \in Mentions}}
(* assemble, and the linker's filling: a label is at the address where it is  *)
(* met, the last time if there are several (mark_label_position).  Both       *)
(* halves of the code in turn: a function has hundreds of lines.              *)
RECURSIVE Placed(_, _, _), Joined(_)
Placed(code, base, unknown) ==
  LET half == Len(code) \div 2
  IN  IF code = <<>> THEN [labels |-> <<>>, end |-> base]
      ELSE IF Len(code) = 1
      THEN [labels |-> IF code[1][1] = "label" THEN code[1][2] :> base ELSE <<>>,
            end |-> base + Len(Encode(code[1], unknown))]
      ELSE Then(Placed(SubSeq(code, 1, half), base, unknown), LAMBDA left :
             Then(Placed(SubSeq(code, half + 1, Len(code)), left.end, unknown), LAMBDA right :
               [labels |-> right.labels @@ left.labels, end |-> right.end]))
Labels(code, base) == Placed(code, base, [l \in Mentioned(code) |-> 0]).labels

Joined(parts) ==
  LET half == Len(parts) \div 2
  IN  CASE Len(parts) = 0 -> <<>>
        [] Len(parts) = 1 -> parts[1]
        [] OTHER -> Joined(SubSeq(parts, 1, half)) \o Joined(SubSeq(parts, half + 1, Len(parts)))
Assemble(code, address) == Joined([i \in DOMAIN code |-> Encode(code[i], address)])
=============================================================================
