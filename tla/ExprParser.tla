------------------------------ MODULE ExprParser ------------------------------
(***************************************************************************)
(* The expression parser of smlrc (expr and exprUnary of smlrc.c) and what  *)
(* of ParseDecl it calls for a type in parentheses: from tokens to the      *)
(* postfix form that exprval and the code generator work on.                *)
(*                                                                         *)
(* A token and an entry of the stack are alike: [tok, value].  The parser   *)
(* looks at tokens and names of the compiler's state st, from a position i  *)
(* on, and returns what it has pushed, the token it stopped at and where.   *)
(* The length of an array is in a type as its postfix form, an entry        *)
(* "[form", until exprval works it out.                                     *)
(***************************************************************************)
EXTENDS Declarations

isunary == {"!", "~", "++", "--", "sizeof"}
UnaryName == [tok \in {"&", "*", "+", "-"} |->
                CASE tok = "&" -> "&u" [] tok = "*" -> "*u" [] tok = "+" -> "+u" [] tok = "-" -> "-u"]
EndsExpression == {",", ";", ":", ")", "]", "}"}

preced(tok) ==
  CASE tok \in {"*", "/", "%"} -> 13
    [] tok \in {"+", "-"} -> 12
    [] tok \in {"<<", ">>"} -> 11
    [] tok \in {"<", ">", "<=", ">="} -> 10
    [] tok \in {"==", "!="} -> 9
    [] tok = "&" -> 8 [] tok = "^" -> 7 [] tok = "|" -> 6
    [] tok = "&&" -> 5 [] tok = "||" -> 4
    [] tok = "?" -> 3
    [] tok \in {"=", "*=", "/=", "%=", "+=", "-=", "<<=", ">>=", "&=", "^=", "|="} -> 2
    [] tok = "comma" -> 1
    [] tok = "eof" -> 0

(* Those of levels 2 and 3 group from the right.  Mutant: from the left.      *)
precedGEQ_Left(left, right) == preced(left) >= preced(right)
precedGEQ(left, right) ==
  /\ preced(left) >= preced(right)
  /\ ~(preced(left) \in {2, 3} /\ preced(right) >= preced(left))

(* A comma that separates nothing is an operator.                            *)
Parsed(out, st, i, commaSeparator) ==
  [out |-> out, next |-> i,
   tok |-> IF st.tokens[i].tok = "," /\ ~commaSeparator THEN "comma" ELSE st.tokens[i].tok]

(* An operator leaves its stack; the middle of a ?: waits there with the "?". *)
Pushed(op) == op.mid \o <<op.entry>>
Operator(tok) == [entry |-> Plain(tok), mid |-> <<>>]
OpensTernary(mid) == [entry |-> Plain("?"), mid |-> mid]
-----------------------------------------------------------------------------
RECURSIVE Past(_, _, _)
Past(st, i, tok) == IF st.tokens[i].tok = tok THEN Past(st, i + 1, tok) ELSE i

tsd == {"void", "char", "int", "signed", "unsigned", "short", "struct", "union"}
FindTypedef(name, st) == name \in DOMAIN st.names /\ st.names[name].tok = "typedef"
TokenStartsDeclaration(st, i, params) ==
  LET t == st.tokens[i]
  IN  \/ t.tok \in tsd \cup {"enum"}
      \/ t.tok = "ident" /\ FindTypedef(t.value, st)
      \/ ~params /\ t.tok \in {"extern", "typedef", "static"}

(* The words of an arithmetic type, in any order, and what they rule out.    *)
Disallowed ==
  [word \in {"char", "short", "int", "signed", "unsigned"} |->
     CASE word = "char" -> {"int", "short"} [] word \in {"short", "int"} -> {"char"}
       [] word = "signed" -> {"unsigned"} [] word = "unsigned" -> {"signed"}]
RECURSIVE BaseWords(_, _, _)
BaseWords(st, i, taken) ==
  LET word == st.tokens[i].tok
  IN  IF word \in DOMAIN Disallowed \ taken /\ \A other \in taken : word \notin Disallowed[other]
      THEN BaseWords(st, i + 1, taken \cup {word}) ELSE [words |-> taken, next |-> i]
Arithmetic(words) ==
  CASE "char" \in words    -> IF "signed" \in words THEN "schar" ELSE IF "unsigned" \in words THEN "uchar" ELSE "char"
    [] "char" \notin words -> IF "unsigned" \in words THEN "unsigned" ELSE "int"

Based(type, next) == [type |-> type, next |-> next]
ParseBase(st, i) ==
  LET t == st.tokens[i]
      arithmetic == BaseWords(st, i, {})
  IN  CASE t.tok = "void" -> Based(Type("void"), i + 1)
        [] t.tok \in DOMAIN Disallowed -> Based(Type(Arithmetic(arithmetic.words)), arithmetic.next)
        [] t.tok \in {"struct", "union"} -> Based(<<Entry("struct", st.tokens[i + 1].value)>>, i + 2)
        [] t.tok = "enum" -> Based(Type("int"), i + 2)
        [] t.tok = "ident" -> Based(st.names[t.value].type, i + 1)
-----------------------------------------------------------------------------
RECURSIVE ParseDerived(_, _), ParseFxnParams(_, _, _), Dimensions(_, _, _),
          exprUnary(_, _, _), Postfix(_, _, _, _), Arguments(_, _, _), expr(_, _, _),
          Operators(_, _, _, _)

Declarator(name, type, next) == [name |-> name, type |-> type, next |-> next]
Nameless == ""

(* A declarator without its base: a name, or another in parentheses, then the *)
(* parameters or the lengths, then the stars before it.                      *)
ParseDerived(st, i) ==
  LET j == Past(st, i, "*")
      t == st.tokens[j]
      params == t.tok = "(" /\ (st.tokens[j + 1].tok = ")" \/ TokenStartsDeclaration(st, j + 1, TRUE))
      inner == ParseDerived(st, j + 1)
      core == CASE t.tok = "(" /\ ~params -> [inner EXCEPT !.next = @ + 1]
                [] t.tok = "ident"        -> Declarator(t.value, <<>>, j + 1)
                [] OTHER                  -> Declarator(Nameless, <<>>, j)
      then == st.tokens[core.next].tok
      list == ParseFxnParams(st, core.next + 1, <<>>)
      lengths == Dimensions(st, core.next, <<>>)
      whole == CASE then = "(" -> Declarator(core.name, Append(core.type, Entry("(", list.params)), list.next)
                 [] then = "[" -> Declarator(core.name, core.type \o lengths.type, lengths.next)
                 [] OTHER      -> core
  IN  [whole EXCEPT !.type = @ \o [k \in 1 .. j - i |-> Plain("*")]]

Dimensions(st, i, so_far) ==
  LET length == expr(st, i + 1, FALSE)
  IN  CASE st.tokens[i].tok # "[" -> Based(so_far, i)
        [] st.tokens[i].tok = "[" /\ st.tokens[i + 1].tok = "]" ->
             Dimensions(st, i + 2, Append(so_far, Entry("[", 0)))
        [] OTHER -> Dimensions(st, length.next + 1, Append(so_far, Entry("[form", length.out)))

(* An array or a function is passed as a pointer.                            *)
DecayedParam(type) ==
  CASE Kind(type) \in {"[", "[form"} -> PointerTo(Tail(type))
    [] Kind(type) = "("              -> PointerTo(type)
    [] OTHER                         -> type
ParseFxnParams(st, i, so_far) ==
  LET base == ParseBase(st, i)
      derived == ParseDerived(st, base.next)
      more == st.tokens[i].tok = "..."
      param == IF more THEN Typed(Nameless, Type("..."))
               ELSE Typed(derived.name, DecayedParam(derived.type \o base.type))
      next == IF more THEN i + 1 ELSE derived.next
  IN  IF st.tokens[i].tok = ")" THEN [params |-> so_far, next |-> i + 1]
      ELSE IF st.tokens[next].tok = ")" THEN [params |-> Append(so_far, param), next |-> next + 1]
      ELSE ParseFxnParams(st, next + 1, Append(so_far, param))

TypeName(st, i) ==
  LET base == ParseBase(st, i)
      derived == ParseDerived(st, base.next)
  IN  Based(derived.type \o base.type, derived.next)
-----------------------------------------------------------------------------
Prefixed(op) ==
  CASE op = "!" -> <<Entry("num", 0), Plain("==")>>
    [] op \in DOMAIN UnaryName -> <<Plain(UnaryName[op])>>
    [] OTHER -> <<Plain(op)>>

(* (type) before an operand is a cast; after sizeof it is the operand.       *)
IsCast(st, i) == st.tokens[i].tok = "(" /\ TokenStartsDeclaration(st, i + 1, TRUE)

(* Literals one after the other are one; those below sizeof are not written. *)
Literals(st, i) ==
  LET end == Past(st, i, "str")
  IN  [pieces |-> [k \in 1 .. end - i |-> st.tokens[i + k - 1].value], next |-> end]
Unwritten(out) ==
  [k \in DOMAIN out |-> IF out[k].tok = "str" THEN Entry("unwritten", out[k].value) ELSE out[k]]

exprUnary(st, i, commaSeparator) ==
  LET t == st.tokens[i]
      op == t.tok
  IN  CASE op = "sizeof" /\ IsCast(st, i + 1) ->
             LET type == TypeName(st, i + 2)
             IN  Parsed(<<Entry("type", type.type), Plain("sizeof")>>, st, type.next + 1, commaSeparator)
        [] op \in isunary \cup DOMAIN UnaryName /\ ~(op = "sizeof" /\ IsCast(st, i + 1)) ->
             LET operand == exprUnary(st, i + 1, commaSeparator)
             IN  [operand EXCEPT !.out = (IF op = "sizeof" THEN Unwritten(@) ELSE @) \o Prefixed(op)]
        [] op \in {"num", "unum", "ident"} -> Postfix(st, i + 1, <<t>>, commaSeparator)
        [] op = "str" ->
             LET literals == Literals(st, i)
             IN  Postfix(st, literals.next, <<Entry("str", literals.pieces)>>, commaSeparator)
        [] IsCast(st, i) ->
             LET type == TypeName(st, i + 1)
                 operand == exprUnary(st, type.next + 1, commaSeparator)
             IN  [operand EXCEPT !.out = Append(@, Entry("cast", type.type))]
        [] op = "(" /\ ~IsCast(st, i) ->
             LET inner == expr(st, i + 1, FALSE)
             IN  Postfix(st, inner.next + 1, inner.out, commaSeparator)

(* What follows an operand.  The arguments of a call are moved in front of    *)
(* what is called, so the last one is the first.                             *)
Arguments(st, i, moved) ==
  IF st.tokens[i].tok = ")" THEN [out |-> moved, next |-> i]
  ELSE LET arg == expr(st, i, TRUE)
       IN  IF arg.tok = "," THEN Arguments(st, arg.next + 1, <<Plain(",")>> \o arg.out \o moved)
           ELSE [out |-> arg.out \o moved, next |-> arg.next]

Postfix(st, i, out, commaSeparator) ==
  LET tok == st.tokens[i].tok
  IN  CASE tok = "(" ->
             LET args == Arguments(st, i + 1, <<>>)
             IN  Postfix(st, args.next + 1, <<Plain("(")>> \o args.out \o out \o <<Plain(")")>>,
                         commaSeparator)
        [] tok = "[" ->
             LET index == expr(st, i + 1, FALSE)
             IN  Postfix(st, index.next + 1, out \o index.out \o <<Plain("+"), Plain("*u")>>,
                         commaSeparator)
        [] tok \in {"++", "--"} -> Postfix(st, i + 1, Append(out, Plain(tok \o "p")), commaSeparator)
        [] tok \in {".", "->"} ->
             Postfix(st, i + 2, out \o (IF tok = "." THEN <<Plain("&u")>> ELSE <<>>)
                               \o <<st.tokens[i + 1], Plain("->"), Plain("*u")>>, commaSeparator)
        [] OTHER -> Parsed(out, st, i, commaSeparator)

(* The operators between operands: those that bind as much or more leave.    *)
expr(st, i, commaSeparator) ==
  Operators(st, exprUnary(st, i, commaSeparator), <<Operator("eof")>>, commaSeparator)

Operators(st, so_far, ops, commaSeparator) ==
  LET tok == so_far.tok
      ends == tok \in EndsExpression
      leaves(op) == op.entry.tok # "eof" /\ (ends \/ precedGEQ(op.entry.tok, tok))
      stays == SelectLastInSeq(ops, LAMBDA op : ~leaves(op))
      left == SubSeq(ops, 1, stays)
      out == so_far.out \o FlattenSeq([k \in 1 .. Len(ops) - stays |->
                                         Pushed(ops[Len(ops) + 1 - k])])
      middle == expr(st, so_far.next + 1, FALSE)
      then(i, op) ==
        LET operand == exprUnary(st, i + 1, commaSeparator)
        IN  Operators(st, [operand EXCEPT !.out = out \o @], Append(left, op), commaSeparator)
  IN  IF ends THEN [so_far EXCEPT !.out = out]
      ELSE IF tok = "?" THEN then(middle.next, OpensTernary(middle.out))
      ELSE then(so_far.next, Operator(tok))
=============================================================================
