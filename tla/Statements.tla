----------------------------- MODULE Statements -----------------------------
(***************************************************************************)
(* ParseStatement and ParseBlock of smlrc.c: the code of the statements of  *)
(* a function, in one pass over its tokens.                                 *)
(*                                                                         *)
(* The keywords, parentheses and semicolons of a statement are taken to be  *)
(* where they belong; what else the compiler stops at is remembered         *)
(* (refused).  asm and structures by value are left out.                    *)
(***************************************************************************)
EXTENDS DeclParser

Skips(st, n) == [st EXCEPT !.at = @ + n]
WholeExpr(st) == ParseExpr(st, <<>>, FALSE)
Must(e, fits) == [e EXCEPT !.wrong = @ \/ ~fits]
ControlExpr(st) == LET e == WholeExpr(st) IN Must(e, scalarTypeCheck(e.type))
IntegerExpr(st) == LET e == WholeExpr(st) IN Must(e, isNumeric(e.type))
Isa(const, value) == const /\ truncInt(value) # 0

(* The compiler stops at an error.                                           *)
GoesOn(st, Rest(_)) == IF st.refused THEN st ELSE Then(st, Rest)

(* A condition that is not constant jumps with its comparison, or from the    *)
(* value it is computed to.                                                   *)
JumpOn(e, truth, label, st) ==
  LET at == After(e, st)
  IN  IF Last(e.stack).tok \in Comparisons
      THEN Generates(at, Append(e.stack, Entry(IF truth THEN "if" ELSE "ifnot", label)))
      ELSE Emits(Generates(at, Append(e.stack, Plain("return"))),
                 GenJump(IF truth THEN jnz ELSE jz, label, 2))
JumpIfNot(e, label, st) ==
  IF ~e.const THEN JumpOn(e, FALSE, label, st)
  ELSE IF truncInt(e.value) = 0 THEN Emits(After(e, st), GenJumpUncond(label)) ELSE After(e, st)
-----------------------------------------------------------------------------
(* A value returned is cut to the size of a byte that is returned.           *)
ReturnValue(e, returns) ==
  LET size == GetDeclSize(returns, TRUE)
      cuts == size # SizeOfWord /\ size # GetDeclSize(decayArray(e.type), TRUE)
      value == CASE cuts /\ size = 1  -> e.value % 256
                 [] cuts /\ size = -1 -> IF e.value % 256 >= 128 THEN (e.value % 256) - 256
                                         ELSE e.value % 256
                 [] OTHER -> e.value
  IN  (IF e.const THEN [e.stack EXCEPT ![1].value = value]
       ELSE e.stack \o (CASE cuts /\ size = 1  -> <<Plain("uchar")>>
                          [] cuts /\ size = -1 -> <<Plain("schar")>>
                          [] OTHER -> <<>>))
      \o <<Plain("return")>>

(* Before the end of a function there is no need to jump to the end.         *)
Return(st) ==
  LET void == Kind(st.returns) = "void"
      none == Tok(GetToken(st)) = ";"
      value == WholeExpr(GetToken(st))
      e == Must(value, nonVoidTypeCheck(value.type) /\ SameStructs(st.returns, value.type))
      given == IF none THEN GetToken(st) ELSE Generates(After(e, st), ReturnValue(e, st.returns))
      ends(next) == IF Tok(next) = "}" /\ next.level = 1 /\ ~next.main THEN next
                    ELSE Emits(next, GenJumpUncond(next.epilog))
  IN  IF void # none THEN Refuses(st, TRUE) ELSE Then(GetToken(given), ends)

(* The label a goto goes to, known from its first use on.                     *)
AddGotoLabel(name, st) ==
  IF name \in DOMAIN st.gotos THEN st
  ELSE [TakesLabels(st, 1) EXCEPT !.gotos = (name :> st.label) @@ @]
AddCase(value, label, st) == [st EXCEPT !.cases = Append(@, <<value, label>>)]
-----------------------------------------------------------------------------
RECURSIVE ParseStatement(_, _), ParseBlock(_, _)

(* ctx is where break and continue go, 0 for nowhere, and behind which case   *)
(* those of the switch around begin.                                         *)
StartsLabel(st) == Tok(st) = "ident" /\ Tok(GetToken(st)) = ":"
ParseBlock(ctx, st) ==
  LET more(next) == ParseBlock(ctx, next)
  IN  IF Tok(st) = "}" THEN st
      ELSE GoesOn(IF TokenStartsDeclaration(st, st.at, FALSE) /\ ~StartsLabel(st) THEN ParseDecl(st)
                  ELSE ParseStatement(ctx, st), more)

Block(ctx, st) ==
  GoesOn(ParseBlock(ctx, GetToken(OpensScope(st))), LAMBDA done : GetToken(ScopeEnds(done, st)))

While(ctx, st) ==
  LET before == st.label
      after == st.label + 1
      start == Skips(TakesLabels(st, 2), 2)
      e == ControlExpr(start)
      tested == JumpIfNot(e, after, Emits(start, GenNumLabel(before)))
      body == ParseStatement([ctx EXCEPT !.break = after, !.continue = before], GetToken(tested))
  IN  Emits(body, (IF e.const /\ ~Isa(e.const, e.value) THEN <<>> ELSE GenJumpUncond(before))
                  \o GenNumLabel(after))

Do(ctx, st) ==
  LET before == st.label
      while == st.label + 1
      after == st.label + 2
      body == ParseStatement([ctx EXCEPT !.break = after, !.continue = while],
                             GetToken(Emits(TakesLabels(st, 3), GenNumLabel(before))))
      tested(there) ==
        LET labelled == Emits(Skips(there, 2), GenNumLabel(while))
            e == ControlExpr(labelled)
            jumped == IF ~e.const THEN JumpOn(e, TRUE, before, labelled)
                      ELSE IF Isa(e.const, e.value) THEN Emits(After(e, labelled), GenJumpUncond(before))
                      ELSE After(e, labelled)
        IN  Emits(Skips(jumped, 2), GenNumLabel(after))
  IN  GoesOn(body, tested)

If(ctx, st) ==
  LET afterIf == st.label
      afterElse == st.label + 1
      start == Skips(TakesLabels(st, 2), 2)
      other(chosen) ==
        ParseStatement(ctx, Emits(GetToken(chosen), GenJumpUncond(afterElse) \o GenNumLabel(afterIf)))
      ends(chosen) == IF Tok(chosen) = "else" THEN Emits(other(chosen), GenNumLabel(afterElse))
                      ELSE Emits(chosen, GenNumLabel(afterIf))
  IN  GoesOn(ParseStatement(ctx, GetToken(JumpIfNot(ControlExpr(start), afterIf, start))), ends)

(* What a for starts with is a declaration, whose scope it is, or else.       *)
ForStarts(st) ==
  LET e == WholeExpr(st)
  IN  CASE TokenStartsDeclaration(st, st.at, TRUE) -> ParseDecl([st EXCEPT !.here = {}])
        [] NoExpr(st) -> GetToken(st)
        [] OTHER -> GetToken(Generates(After(e, st), e.stack))

(* The third expression is kept and generated after the body if its stack is  *)
(* short; else its code comes first and is jumped over.                       *)
Kept == 16
For(ctx, st) ==
  LET before == st.label
      expr3 == st.label + 1
      body == st.label + 2
      after == st.label + 3
      in(continue, state) == ParseStatement([ctx EXCEPT !.break = after, !.continue = continue], GetToken(state))
      around(forever, state) == IF forever THEN Emits(state, GenJumpUncond(before)) ELSE state
      stepping(step, tested, cond) ==
        IF Len(step.stack) <= Kept
        THEN around(cond, Generates(Emits(in(expr3, After(step, tested)), GenNumLabel(expr3)), step.stack))
        ELSE LET stepped == Generates(Emits(After(step, tested), GenJumpUncond(body) \o GenNumLabel(expr3)),
                                      step.stack)
                 over == in(expr3, Emits(stepped, GenJumpUncond(before) \o GenNumLabel(body)))
             IN  Emits(over, GenJumpUncond(expr3))
      testing(there) ==
        LET e == ControlExpr(there)
            tested == GetToken(IF NoExpr(there) THEN there ELSE JumpIfNot(e, after, there))
            cond == NoExpr(there) \/ ~e.const \/ Isa(e.const, e.value)
        IN  IF NoExpr(tested) THEN around(cond, in(IF cond THEN before ELSE after, tested))
            ELSE Then(tested, LAMBDA now : Then(WholeExpr(now), LAMBDA step : stepping(step, now, cond)))
      loops(begun) == Emits(Then(Emits(begun, GenNumLabel(before)), testing), GenNumLabel(after))
  IN  ScopeEnds(GoesOn(ForStarts(Skips(TakesLabels(st, 4), 2)), loops), st)

(* The value is computed first, the tests come last.  A case is a pair of a   *)
(* value and a label; the first one stands for default.                       *)
Switch(ctx, st) ==
  LET break == st.label
      tests == st.label + 1
      mine == Len(st.cases) + 1
      start == Skips(TakesLabels(st, 2), 2)
      e == IntegerExpr(start)
      computed == GetToken(Generates(After(e, start), Append(e.stack, Plain("return"))))
      opened == AddCase(0, 0, Emits(computed, GenJumpUncond(tests)))
      tested(body) ==
        LET cases == SubSeq(body.cases, mine + 1, Len(body.cases))
            default == body.cases[mine][2]
        IN  [Emits(body, GenJumpUncond(break) \o GenNumLabel(tests)
                         \o FlattenSeq([i \in DOMAIN cases |-> GenJumpIfEqual(cases[i][1], cases[i][2])])
                         \o (IF default # 0 THEN GenJumpUncond(default) ELSE <<>>)
                         \o GenNumLabel(break))
             EXCEPT !.cases = st.cases]
  IN  GoesOn(ParseStatement([ctx EXCEPT !.break = break, !.cases = mine], opened), tested)

Case(ctx, st) ==
  LET e == IntegerExpr(GetToken(st))
      value == truncInt(e.value)
      wrong == \/ ctx.cases = 0 \/ ~e.const
               \/ \E k \in ctx.cases + 1 .. Len(st.cases) : st.cases[k][1] = value
      at == After(e, st)
      here == AddCase(value, at.label, Emits(TakesLabels(at, 1), GenNumLabel(at.label)))
  IN  IF wrong THEN Refuses(st, TRUE) ELSE ParseStatement(ctx, GetToken(here))
Default(ctx, st) ==
  LET wrong == IF ctx.cases = 0 THEN TRUE ELSE st.cases[ctx.cases][2] # 0
      here == [Emits(TakesLabels(st, 1), GenNumLabel(st.label)) EXCEPT !.cases[ctx.cases] = <<0, st.label>>]
  IN  IF wrong THEN Refuses(st, TRUE) ELSE ParseStatement(ctx, Skips(here, 2))

Leave(label, st) ==
  IF label = 0 THEN Refuses(st, TRUE) ELSE Skips(Emits(st, GenJumpUncond(label)), 2)
Goto(st) ==
  LET name == st.tokens[st.at + 1].value
      known == AddGotoLabel(name, st)
  IN  Skips(Emits(known, GenJumpUncond(known.gotos[name])), 3)
GotoLabel(ctx, st) ==
  LET name == st.tokens[st.at].value
      known == AddGotoLabel(name, Refuses(st, name \in st.reached))
      here == [Emits(known, GenNumLabel(known.gotos[name])) EXCEPT !.reached = @ \cup {name}]
  IN  ParseStatement(ctx, Skips(here, 2))

StatementOf(ctx, st) ==
  CASE Tok(st) = ";"        -> GetToken(st)
    [] Tok(st) = "{"        -> Block(ctx, st)
    [] Tok(st) = "return"   -> Return(st)
    [] Tok(st) = "while"    -> While(ctx, st)
    [] Tok(st) = "do"       -> Do(ctx, st)
    [] Tok(st) = "if"       -> If(ctx, st)
    [] Tok(st) = "for"      -> For(ctx, st)
    [] Tok(st) = "break"    -> Leave(ctx.break, st)
    [] Tok(st) = "continue" -> Leave(ctx.continue, st)
    [] Tok(st) = "switch"   -> Switch(ctx, st)
    [] Tok(st) = "case"     -> Case(ctx, st)
    [] Tok(st) = "default"  -> Default(ctx, st)
    [] Tok(st) = "goto"     -> Goto(st)
    [] StartsLabel(st)      -> GotoLabel(ctx, st)
    [] OTHER                -> LET e == WholeExpr(st)
                               IN  GetToken(Generates(After(e, st), e.stack))
ParseStatement(ctx, st) == GoesOn(st, LAMBDA now : StatementOf(ctx, now))
=============================================================================
