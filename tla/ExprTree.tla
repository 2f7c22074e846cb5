------------------------------- MODULE ExprTree -------------------------------
(***************************************************************************)
(* The expression trees of the compiler's cpu5 back end, and what it does  *)
(* to them before it generates code (cgrlcpu.c, cgrlcpu_emitters.c): the   *)
(* passes of GenRunOptimizers one after the other, and the registers.      *)
(*                                                                         *)
(* A node is the record [tok, value, size, reg, quiet, kids]: its token,   *)
(* the token's argument, the bytes of its value (negative when signed, 0   *)
(* when not known yet), the target register, suppress_emit, and the nodes  *)
(* below.  A register is a bank and a number: r for results, l for locals  *)
(* and a for arguments; the next number is the register of the high byte.  *)
(***************************************************************************)
EXTENDS Integers, Sequences, SequencesExt

NO_REG == <<"z", 0>>
High(reg) == <<reg[1], reg[2] + 1>>

node_create(tok, value, size, kids) ==
  [tok |-> tok, value |-> value, size |-> size, reg |-> NO_REG, quiet |-> FALSE, kids |-> kids]

Abs(n) == IF n < 0 THEN 0 - n ELSE n
Comparisons == {"==", "!=", "<", ">", "<=", ">=", "<u", ">u", "<=u", ">=u"}
PostOps     == {"++p", "--p", "+=p", "-=p"}
AssignArith == {"+=", "-=", "&=", "|=", "^=", "*=", "/=", "%=", "<<=", ">>=", ">>=u", "/=u", "%=u",
                "++", "--"}
IsNum(t) == t.tok \in {"num", "unum"}
UnaryTokens == {"~", "-u", "*u", "bool", "void", "uchar", "schar", "shortCirc", "return", "if", "ifnot",
          "++", "--", "++p", "--p"}

(* assign_arith_to_tok, and the operation of each of PostOps. *)
Operation(tok) ==
  CASE tok \in {"+=", "++", "++p", "+=p"} -> "+"
    [] tok \in {"-=", "--", "--p", "-=p"} -> "-"
    [] tok = "&=" -> "&" [] tok = "|=" -> "|" [] tok = "^=" -> "^"
    [] tok = "<<=" -> "<<" [] tok = ">>=" -> ">>" [] tok = ">>=u" -> ">>u"
    [] tok = "*=" -> "*" [] tok = "/=" -> "/" [] tok = "%=" -> "%"
    [] tok = "/=u" -> "/u" [] tok = "%=u" -> "%u"
Counts(tok) == tok \in {"++", "--", "++p", "--p"}      \* the operand is 1
-----------------------------------------------------------------------------
(* GenTree: the tree of the postfix form that ends at i, and where what is    *)
(* left of it ends.  The operands of a call, ")", are those from "(" on, each *)
(* with a comma behind it but the last, which is what is called.              *)
get_n_kids(tok) ==
  CASE tok \in {"num", "unum", "ident", "local"} -> 0
    [] tok \in UnaryTokens -> 1
    [] tok = "?" -> 3
    [] OTHER -> 2

RECURSIVE GenTree(_, _), Kids(_, _, _), CallKids(_, _)
GenTree(code, i) ==
  LET entry == code[i]
      below == IF entry.tok = ")" THEN CallKids(code, i - 1)
               ELSE Kids(code, i - 1, get_n_kids(entry.tok))
  IN  [node |-> node_create(entry.tok, entry.value, 0, below.nodes), next |-> below.next]

Kids(code, i, n) ==
  IF n = 0 THEN [nodes |-> <<>>, next |-> i]
  ELSE LET last == GenTree(code, i)
           others == Kids(code, last.next, n - 1)
       IN  [others EXCEPT !.nodes = Append(@, last.node)]

CallKids(code, i) ==
  LET last == GenTree(code, i)
      others == CallKids(code, last.next - 1)
  IN  IF code[last.next].tok = "(" THEN [nodes |-> <<last.node>>, next |-> last.next - 1]
      ELSE [others EXCEPT !.nodes = Append(@, last.node)]
-----------------------------------------------------------------------------
(* opt_fixTrenary: the value if false, which ends with a jump over the other *)
(* one, comes after a jump, if true, to the value if true.                   *)
TrueLabel(t) == t.value + 1
fixTrenary(t) ==
  LET jump(label, kid) == node_create("shortCirc", label, 0, <<kid>>)
  IN  IF t.tok # "?" THEN t
      ELSE [t EXCEPT !.kids =
             << jump(0 - TrueLabel(t), t.kids[1]),
                node_create("&&", TrueLabel(t), 0, <<jump(t.value + 16384, t.kids[2])>>),
                t.kids[3] >>]

(* opt_assignSizes: the tokens with a size of their own (default_size); those *)
(* that access memory have it in the argument.                                *)
assignSizes(t) ==
  [t EXCEPT !.size =
     CASE t.tok \in {"ident", "local", "return", ")"} -> 2
       [] t.tok = "int" -> -2 [] t.tok = "schar" -> -1 [] t.tok = "uchar" -> 1
       [] t.tok \in {"=", "*u"} \cup PostOps \cup (AssignArith \ {">>=u", "/=u", "%=u"}) -> t.value
       [] OTHER -> 0]

RECURSIVE get_max_size_subtree(_, _)
get_max_size_subtree(t, most) ==
  IF t.size # 0 THEN IF Abs(t.size) > Abs(most) THEN t.size ELSE most
  ELSE FoldLeft(LAMBDA m, kid : get_max_size_subtree(kid, m), most, t.kids)

deriveSizes(t) ==
  IF IsNum(t) \/ t.size # 0 THEN t ELSE [t EXCEPT !.size = get_max_size_subtree(t, 0)]

deriveNumSizes(t) ==
  [t EXCEPT !.kids = [i \in DOMAIN @ |->
     IF @[i].size # 0 THEN @[i]
     ELSE [@[i] EXCEPT !.size = IF i = 1 /\ t.tok \in {"=", "*u"} THEN 2 ELSE t.size]]]

(* opt_replaceAssignArith and gen_replacePostOps_subtree: target = *target op *)
(* operand.                                                                   *)
Operand(t) == IF Counts(t.tok) THEN node_create("num", 1, t.size, <<>>) ELSE t.kids[2]
Assigned(t) ==
  LET target == t.kids[1]
      access(tok, kids) == node_create(tok, t.value, t.size, kids)
  IN  access("=", <<target, access(Operation(t.tok),
                                   <<access("*u", <<target>>), Operand(t)>>)>>)
replaceAssignArith(t) == IF t.tok \in AssignArith THEN Assigned(t) ELSE t

(* The place of a post operation takes the value before it.                   *)
PostValue(t) ==
  IF t.tok \in PostOps THEN node_create("*u", t.value, t.size, <<t.kids[1]>>) ELSE t

removeRedundantArith(t) ==
  LET zero(kid) == kid.tok = "num" /\ kid.value = 0
  IN  IF t.tok \notin {"+", "-"} THEN t
      ELSE IF zero(t.kids[1]) THEN t.kids[2]
      ELSE IF zero(t.kids[2]) THEN t.kids[1] ELSE t

Exponent == [n \in {2, 4, 8, 16, 32} |-> CHOOSE k \in 1 .. 5 : 2^k = n]
replaceMulDiv(t) ==
  IF /\ t.tok \in {"*", "/", "/u"} /\ IsNum(t.kids[2])
     /\ t.kids[2].value \in DOMAIN Exponent
  THEN [t EXCEPT !.tok = IF t.tok = "*" THEN "<<" ELSE ">>",
                 !.kids[2].value = Exponent[@], !.kids[2].quiet = TRUE]
  ELSE t

(* opt_replaceTokensWithCalls: what the processor has no instruction for.     *)
CalledFor == [tok \in {"*", "/", "%", "/u", "%u", "<<", ">>", ">>u"} |->
  CASE tok = "*" -> "fxnMul" [] tok = "/" -> "fxnDiv" [] tok = "%" -> "fxnMod"
    [] tok = "/u" -> "fxnUDiv" [] tok = "%u" -> "fxnUMod"
    [] tok = "<<" -> "fxnLShift" [] tok = ">>" -> "fxnRShift" [] tok = ">>u" -> "fxnURShift"]
replaceTokensWithCalls(t) ==
  IF /\ t.tok \in DOMAIN CalledFor
     /\ t.tok \in {"<<", ">>", ">>u"} => t.kids[2].tok # "num"
  THEN [t EXCEPT !.tok = ")", !.kids = Append(@, node_create("ident", CalledFor[t.tok], 0, <<>>))]
  ELSE t

(* A local within reach of an offset is a register (off_to_reg).             *)
ok_for_reg_addr(t) == t.tok = "local" /\ t.value \in -128 .. 127
off_to_reg(off) == IF off <= 0 THEN <<"l", off>> ELSE <<"a", off - 4>>

assignRegsLocals(t) ==
  IF t.tok = "*u" /\ ok_for_reg_addr(t.kids[1])
  THEN [t EXCEPT !.quiet = TRUE, !.kids[1].quiet = TRUE, !.reg = off_to_reg(t.kids[1].value)]
  ELSE t

suppressDereferences(t) ==
  IF \/ t.tok = "=" /\ (t.kids[1].tok \in {"ident", "num"} \/ ok_for_reg_addr(t.kids[1]))
     \/ t.tok = "*u" /\ t.kids[1].tok = "ident"
  THEN [t EXCEPT !.kids[1].quiet = TRUE]
  ELSE t

(* A call, ")", has the arguments below it, the last one first, and what is   *)
(* called after them.                                                         *)
callWithIdent(t) ==
  IF t.tok = ")" /\ Last(t.kids).tok = "ident" THEN [t EXCEPT !.kids[Len(t.kids)].quiet = TRUE]
  ELSE t

(* opt_insertConvs: a node of two bytes has operands of two bytes.           *)
insertConvs(t) ==
  LET conv(kid) == IF kid.size = t.size \/ kid.tok = "ident" THEN kid
                   ELSE node_create("int", 0, t.size, <<kid>>)
  IN  IF Abs(t.size) = 2 /\ t.tok # "int"
      THEN [t EXCEPT !.kids = [i \in DOMAIN @ |-> conv(@[i])]]
      ELSE t
-----------------------------------------------------------------------------
(* init_optimizers: each one is put in front of the list, so the last one    *)
(* runs first.                                                               *)
Passes == <<"fixTrenary", "assignSizes", "deriveSizes", "deriveNumSizes",
            "replaceAssignArith", "replacePostOps", "removeRedundantArith", "replaceMulDiv",
            "replaceTokensWithCalls", "assignRegsLocals", "suppressDereferences", "callWithIdent",
            "insertConvs">>

Rewrite(pass, t) ==
  CASE pass = "fixTrenary"           -> fixTrenary(t)
    [] pass = "assignSizes"          -> assignSizes(t)
    [] pass = "deriveSizes"          -> deriveSizes(t)
    [] pass = "deriveNumSizes"       -> deriveNumSizes(t)
    [] pass = "replaceAssignArith"   -> replaceAssignArith(t)
    [] pass = "replacePostOps"       -> PostValue(t)
    [] pass = "removeRedundantArith" -> removeRedundantArith(t)
    [] pass = "replaceMulDiv"        -> replaceMulDiv(t)
    [] pass = "replaceTokensWithCalls" -> replaceTokensWithCalls(t)
    [] pass = "assignRegsLocals"     -> assignRegsLocals(t)
    [] pass = "suppressDereferences" -> suppressDereferences(t)
    [] pass = "callWithIdent"        -> callWithIdent(t)
    [] pass = "insertConvs"          -> insertConvs(t)

(* GenOptimizeTree: a node first, then what is below what it has become.     *)
RECURSIVE Everywhere(_, _)
Everywhere(pass, t) ==
  LET new == Rewrite(pass, t)
  IN  [new EXCEPT !.kids = FoldLeft(LAMBDA done, kid : Append(done, Everywhere(pass, kid)), <<>>, @)]

(* The assignments of the post operations of a tree.                         *)
RECURSIVE PostAssignments(_)
PostAssignments(t) ==
  IF t.tok \in PostOps THEN <<Assigned(t)>>
  ELSE FlattenSeq([i \in DOMAIN t.kids |-> PostAssignments(t.kids[i])])

(* opt_replacePostOps puts them after the whole of the tree.                 *)
GenOptimizeTree(pass, root) ==
  IF pass # "replacePostOps" \/ PostAssignments(root) = <<>> THEN Everywhere(pass, root)
  ELSE IF root.tok \in PostOps THEN Assigned(root)
  ELSE node_create("sequential", 0, 0,
                   <<Everywhere(pass, root)>> \o PostAssignments(root))

(* GenAssignRegistersToTree: a node's value goes to register r, those of its *)
(* operands to this and the following ones; those of a comparison stay clear *)
(* of its result.                                                            *)
Sharing == {"&&", "||", "comma", "?"}
OperandRegister(t, r, i) ==
  (IF t.tok \in Comparisons THEN r + 2 ELSE r) + (IF t.tok \in Sharing THEN 0 ELSE 2 * (i - 1))

RECURSIVE GenAssignRegistersToTree(_, _)
GenAssignRegistersToTree(t, r) ==
  [t EXCEPT
    !.reg = IF @ = NO_REG THEN <<"r", r>> ELSE @,
    !.kids = FoldLeft(LAMBDA done, kid :
                        Append(done, GenAssignRegistersToTree(kid, OperandRegister(t, r, Len(done) + 1))),
                      <<>>, @)]
=============================================================================
