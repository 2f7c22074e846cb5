------------------------------- MODULE ExprTypes -------------------------------
(***************************************************************************)
(* exprval of smlrc.c: walks the postfix form of an expression from its     *)
(* end, gives every part a type and works out what is constant, and         *)
(* rewrites the form: names become places, accesses get their sizes,        *)
(* operators their unsigned forms, && and || their jumps.                   *)
(*                                                                         *)
(* The code edits the stack in place and counts its indexes back and forth. *)
(* Here each part returns its own piece of the new form: [code, type,       *)
(* const, value, next], next being the index of the entry before it.        *)
(* Constants are kept on 16 bits: the code's int is wider and is cut only   *)
(* where a value is compared, divided or written out.                       *)
(*                                                                         *)
(* What is wrong (TypeErrors) the code stops at: nothing else is looked at   *)
(* then.  Structures by value are left out.                                 *)
(***************************************************************************)
EXTENDS TypeErrors

Part(code, type, next) ==
  [code |-> code, type |-> type, const |-> FALSE, value |-> 0, next |-> next, wrong |-> FALSE]
Constant(part, value) == [part EXCEPT !.const = TRUE, !.value = truncUint(value)]

simplifyConstExpr(part) ==
  IF ~part.const \/ Last(part.code).tok \in Numbers THEN part
  ELSE [part EXCEPT !.code = <<Entry(IF isUint(part.type) THEN "unum" ELSE "num", part.value)>>]

incSize(type) == GetDeclSize(derefAnyPtr(type), FALSE)

(* A shift count beyond the word is cut.                                     *)
shiftCount(n) == truncUint(n) % 16

(* divCheckAndCalc: no result for 0 or for -32768 / -1.                      *)
Quotient(a, b) == LET q == Magnitude(a) \div Magnitude(b)
                  IN  IF (a < 0) # (b < 0) THEN 0 - q ELSE q
divides(uns, a, b) ==
  truncUint(b) # 0 /\ ~(~uns /\ truncInt(a) = -32768 /\ truncInt(b) = -1)
Divided(tok, uns, a, b) ==
  IF uns THEN IF tok = "/" THEN truncUint(a) \div truncUint(b) ELSE truncUint(a) % truncUint(b)
  ELSE LET q == Quotient(truncInt(a), truncInt(b))
       IN  IF tok = "/" THEN q ELSE truncInt(a) - q * truncInt(b)

BitByBit(tok, a, b) ==
  LET bit(n, i) == (n \div 2^i) % 2
      both(i) == CASE tok = "&" -> bit(a, i) * bit(b, i)
                   [] tok = "|" -> IF bit(a, i) + bit(b, i) > 0 THEN 1 ELSE 0
                   [] tok = "^" -> (bit(a, i) + bit(b, i)) % 2
  IN  FoldLeft(LAMBDA sum, i : sum + both(i) * 2^i, 0, [i \in 1 .. 16 |-> i - 1])

Compares(tok, a, b) ==
  CASE tok = "<" -> a < b [] tok = ">" -> a > b [] tok = "<=" -> a <= b [] tok = ">=" -> a >= b
    [] tok = "==" -> a = b [] tok = "!=" -> a # b
AsInt(holds) == IF holds THEN 1 ELSE 0
-----------------------------------------------------------------------------
(* A name: an access to it unless it is an array or a function; the name of  *)
(* an enumeration constant is its value.  What is not declared and called is  *)
(* a function, which returns an int; the code declares it, here it stays so.  *)
FindSymbol(name, env) ==
  IF name \in DOMAIN env.names THEN env.names[name]
  ELSE Symbol("ident", name, <<Entry("(", <<>>), Plain("int")>>)
Access(symbol) ==
  <<Entry(symbol.tok, symbol.value)>>
  \o IF Kind(symbol.type) \in {"[", "("} THEN <<>> ELSE <<Entry("*u", GetDeclSize(symbol.type, TRUE))>>
Named(name, env, next) ==
  LET symbol == FindSymbol(name, env)
  IN  IF symbol.tok = "num" THEN Constant(Part(<<Entry("num", symbol.value)>>, IntType, next), symbol.value)
      ELSE Part(Access(symbol), symbol.type, next)

(* A string literal is an array in the data with a numbered label.           *)
Literal(label) == "L" \o ToString(label)
StringLiteral(pieces, label, next) ==
  Part(<<Entry("ident", Literal(label))>>, <<Entry("[", Len(FlattenSeq(pieces)) + 1), Plain("char")>>, next)

(* To a byte: a conversion; to anything wider, nothing but that the result   *)
(* is no place any more.                                                     *)
Cast(type, e) ==
  LET size == GetDeclSize(type, TRUE)
      const == e.const \/ Last(e.code).tok \in Numbers
      value == IF e.const THEN e.value ELSE IF const THEN Last(e.code).value ELSE 0
      cut == CASE size = 1 -> value % 256
               [] size = -1 -> truncUint(IF value % 256 >= 128 THEN (value % 256) - 256 ELSE value % 256)
               [] OTHER -> value
      conversion == CASE size = 1 -> <<Plain("uchar")>>
                      [] size = -1 -> <<Plain("schar")>>
                      [] OTHER -> IF Last(e.code).tok = "*u" THEN <<Plain("+u")>> ELSE <<>>
      number == <<Entry(IF isUint(type) THEN "unum" ELSE "num", cut)>>
  IN  [e EXCEPT !.type = type, !.const = const /\ isNumeric(type), !.value = cut,
                !.code = IF const THEN number ELSE @ \o conversion]

SizeOf(e) ==
  LET size == GetDeclSize(e.type, FALSE)
  IN  Constant(Part(<<Entry("unum", size)>>, UnsignedType, e.next), size)

AddressOf(e) ==
  Part(IF Kind(e.type) \in {"[", "("} THEN e.code ELSE Front(e.code), PointerTo(e.type), e.next)

Dereference(e) ==
  LET type == Tail(e.type)
  IN  Part(IF Kind(type) \in {"[", "("} THEN e.code
           ELSE Append(e.code, Entry("*u", GetDeclSize(type, TRUE))), type, e.next)

(* The address a form ends with, which a constant may be added to: the       *)
(* number or local before trailing operators of these kinds, 0 if none.      *)
Foldable(code, skipped) ==
  LET at == SelectLastInSeq(code, LAMBDA entry : entry.tok \notin skipped)
  IN  IF at # 0 /\ code[at].tok \in Numbers \cup {"local"} THEN at ELSE 0
AddTo(code, at, n) ==
  [code EXCEPT ![at].value = IF code[at].tok = "local" THEN truncInt(@ + n) ELSE truncUint(@ + n)]
Times(size) == <<Entry("num", size), Plain("*")>>

(* A pointer and an integer, which counts in units of what is pointed to.    *)
PointerPlus(tok, p, n, pointerFirst) ==
  LET size == incSize(p.type)
      bytes == truncUint(n.value * size)
      at == Foldable(p.code, {"+u", "+"})
      scaled == CASE n.const -> [n.code EXCEPT ![Len(n.code)].value = bytes]
                  [] ~n.const /\ size # 1 -> n.code \o Times(size)
                  [] OTHER -> n.code
  IN  IF n.const /\ at # 0 THEN AddTo(p.code, at, IF tok = "-" THEN 0 - bytes ELSE bytes)
      ELSE (IF pointerFirst THEN p.code \o scaled ELSE scaled \o p.code) \o <<Plain(tok)>>

Additive(tok, l, r) ==
  LET lp == isAnyPtr(l.type)
      rp == isAnyPtr(r.type)
      dl == [l EXCEPT !.type = decayArray(@)]
      dr == [r EXCEPT !.type = decayArray(@)]
      size == incSize(dl.type)
      both == l.code \o r.code \o <<Plain(tok)>>
      number == Part(both, promoteType(l.type, r.type), l.next)
  IN  CASE rp /\ ~lp -> Part(PointerPlus(tok, dr, l, FALSE), dr.type, l.next)
        [] lp /\ ~rp -> Part(PointerPlus(tok, dl, r, TRUE), dl.type, l.next)
        [] lp /\ rp ->
             Part(IF size = 1 THEN both ELSE both \o <<Entry("num", size), Plain("/")>>, IntType, l.next)
        [] OTHER ->
             IF l.const /\ r.const
             THEN simplifyConstExpr(
                    Constant(number, IF tok = "+" THEN l.value + r.value ELSE l.value - r.value))
             ELSE number

(* ++ and the others take the place, not its value; a pointer moves by the    *)
(* size of what it points to.                                                *)
ByMore == [tok \in {"++", "--", "++p", "--p"} |->
             CASE tok = "++" -> "+=" [] tok = "--" -> "-=" [] tok = "++p" -> "+=p" [] tok = "--p" -> "-=p"]
Increment(tok, e) ==
  LET opSize == Last(e.code).value
      step == IF isAnyPtr(e.type) THEN incSize(e.type) ELSE 1
  IN  Part(Front(e.code) \o (IF step = 1 THEN <<Entry(tok, opSize)>>
                             ELSE <<Entry("num", step), Entry(ByMore[tok], opSize)>>),
           e.type, e.next)

Assignment(l, r) ==
  Part(Front(l.code) \o r.code \o <<Entry("=", Last(l.code).value)>>, l.type, l.next)

UnsignedAssign(tok, l, r) ==
  CASE tok \in {"/=", "%="} /\ (isUint(l.type) \/ isUint(r.type)) -> tok \o "u"
    [] tok = ">>=" /\ isUint(l.type) -> ">>=u"
    [] OTHER -> tok
AssignmentWith(tok, l, r) ==
  LET step == incSize(l.type)
      operand == CASE r.const /\ isAnyPtr(l.type) ->
                        [r.code EXCEPT ![Len(r.code)].value = truncUint(@ * step)]
                   [] ~r.const /\ isAnyPtr(l.type) /\ step # 1 -> r.code \o Times(step)
                   [] r.const /\ tok \in {"<<=", ">>="} ->
                        [r.code EXCEPT ![Len(r.code)].value = shiftCount(@)]
                   [] OTHER -> r.code
  IN  Part(Front(l.code) \o operand
           \o <<Entry(UnsignedAssign(tok, l, r), Last(l.code).value)>>, l.type, l.next)
-----------------------------------------------------------------------------
UnaryArith(tok, e) ==
  simplifyConstExpr(
    [e EXCEPT !.type = promoteType(@, @), !.code = Append(@, Plain(tok)),
              !.value = truncUint(CASE tok = "~" -> 65535 - @ [] tok = "-u" -> 0 - @ [] OTHER -> @)])

Multiplicative(tok, l, r) ==
  LET uns == isUint(l.type) \/ isUint(r.type)
      shifts == tok \in {"<<", ">>"}
      count == shiftCount(r.value)
      op == CASE tok \in {"/", "%"} /\ uns -> tok \o "u"
              [] tok = ">>" /\ isUint(l.type) -> ">>u"
              [] OTHER -> tok
      operand == IF shifts /\ r.const THEN [r.code EXCEPT ![Len(r.code)].value = count] ELSE r.code
      part == Part(l.code \o operand \o <<Plain(op)>>,
                   promoteType(l.type, IF shifts THEN IntType ELSE r.type), l.next)
      value == CASE tok \in {"/", "%"} -> Divided(tok, uns, l.value, r.value)
                 [] tok = "*" -> truncInt(l.value) * truncInt(r.value)
                 [] tok = "<<" -> truncInt(l.value) * 2^count
                 [] tok = ">>" -> (IF isUint(l.type) THEN l.value ELSE truncInt(l.value)) \div 2^count
                 [] OTHER -> BitByBit(tok, l.value, r.value)
  IN  IF l.const /\ r.const /\ (tok \in {"/", "%"} => divides(uns, l.value, r.value))
      THEN simplifyConstExpr(Constant(part, value)) ELSE part

UnsignedCompare == [tok \in Comparing |->
  CASE tok = "<" -> "<u" [] tok = ">" -> ">u" [] tok = "<=" -> "<=u" [] tok = ">=" -> ">=u" [] OTHER -> tok]
Comparison(tok, l, r) ==
  LET uns == isUint(l.type) \/ isUint(r.type)
      pointers == isAnyPtr(l.type) \/ isAnyPtr(r.type)
      op == IF uns \/ pointers THEN UnsignedCompare[tok] ELSE tok
      part == Part(l.code \o r.code \o <<Plain(op)>>, IntType, l.next)
      holds == IF uns THEN Compares(tok, truncUint(l.value), truncUint(r.value))
               ELSE Compares(tok, truncInt(l.value), truncInt(r.value))
  IN  IF l.const /\ r.const THEN simplifyConstExpr(Constant(part, AsInt(holds))) ELSE part

(* Operands of && and || that are no comparisons are made 0 or 1.            *)
Bool(e) ==
  simplifyConstExpr([e EXCEPT !.type = IntType, !.code = Append(@, Plain("bool")),
                              !.value = AsInt(truncInt(@) # 0)])

(* The right operand is skipped with a jump to the end; minus its label for  *)
(* ||.  A constant on the left may decide, whatever is on the right.         *)
Logical(tok, sc, l, r) ==
  LET skip == Entry("shortCirc", IF tok = "&&" THEN sc ELSE 0 - sc)
      part == Part(l.code \o <<skip>> \o r.code \o <<Entry(tok, sc)>>, IntType, l.next)
      value == IF tok = "&&" THEN l.value # 0 /\ r.value # 0 ELSE l.value # 0 \/ r.value # 0
      decided == l.const /\ (IF tok = "&&" THEN l.value = 0 ELSE l.value # 0)
  IN  IF decided THEN simplifyConstExpr(Constant(part, AsInt(tok = "||")))
      ELSE IF l.const /\ r.const THEN simplifyConstExpr(Constant(part, AsInt(value)))
      ELSE part

Comma(l, r) ==
  IF l.const /\ r.const
  THEN simplifyConstExpr([r EXCEPT !.code = l.code \o <<Plain("void")>> \o @ \o <<Plain("comma")>>,
                                   !.next = l.next])
  ELSE IF l.const THEN Part(r.code \o <<Plain("+u")>>, r.type, l.next)
  ELSE Part(l.code \o <<Plain("void")>> \o r.code \o <<Plain("comma")>>, r.type, l.next)

SidesFit(then, else) ==
  LET e == promoteType(decayArray(else.type), decayArray(then.type))
      t == promoteType(decayArray(then.type), e)
  IN  SameStructs(t, e) /\ (Kind(t) # "struct" => compatCheck(then, t, else, e))
Ternary(sc, cond, else, then) ==
  LET e == promoteType(decayArray(else.type), decayArray(then.type))
      t == promoteType(decayArray(then.type), e)
      type == CommonType(then, t, else, e)
      chosen == IF truncUint(cond.value) # 0 THEN then ELSE else
      whole == cond.code \o else.code \o then.code \o <<Entry("?", sc)>>
      part == Part(whole, type, cond.next)
      \* what is deleted when only the condition is constant: counted with jumps
      \* that another back end has inserted
      first == IF truncUint(cond.value) # 0 THEN 0 ELSE Len(cond.code) + 1
      last  == IF truncUint(cond.value) # 0 THEN Len(cond.code) + Len(else.code)
               ELSE Len(whole) - Len(then.code) - 3
  IN  IF ~cond.const THEN part
      ELSE IF chosen.const THEN simplifyConstExpr(Constant(part, chosen.value))
      ELSE [part EXCEPT !.code = IF truncUint(cond.value) # 0 THEN SubSeq(whole, last + 1, Len(whole) - 1)
                                 ELSE SubSeq(whole, first + 1, last)]

(* The place of a member: its offset added to the address of the structure.  *)
Member(name, e) ==
  LET member == Layout(derefAnyPtr(e.type)[1].value).at[name]
      at == Foldable(e.code, {"+u"})
  IN  Part(IF at # 0 THEN AddTo(e.code, at, member.ofs)
           ELSE e.code \o <<Entry("num", member.ofs), Plain("+")>>,
           PointerTo(member.type), e.next)
-----------------------------------------------------------------------------
Returned(type) == IF Kind(type) = "(" THEN Tail(type) ELSE Tail(Tail(type))

RECURSIVE exprval(_, _, _), Args(_, _, _, _, _), Sized(_, _)

(* A type whose lengths have been worked out; an enumeration is an int.       *)
Sized(type, env) ==
  LET sized(param) == [param EXCEPT !.type = Sized(@, env)]
      of(entry) ==
        CASE entry.tok = "[form" -> Entry("[", exprval(entry.value, Len(entry.value), env).value)
          [] entry.tok = "("     -> Entry("(", [k \in DOMAIN entry.value |-> sized(entry.value[k])])
          [] entry.tok = "enum"  -> Plain("int")
          [] OTHER               -> entry
  IN  [k \in DOMAIN type |-> of(type[k])]

(* The arguments of a call of this type, from the c-th on, the first one being *)
(* the last; each is followed by a comma and counts for a word.              *)
Args(rpn, i, type, c, env) ==
  IF rpn[i].tok = "(" THEN [code |-> <<>>, count |-> 0, wrong |-> c <= Len(Formals(type)), next |-> i - 1]
  ELSE LET arg == exprval(rpn, i, env)
           rest == Args(rpn, IF rpn[arg.next].tok = "," THEN arg.next - 1 ELSE arg.next, type, c + 1, env)
       IN  IF arg.wrong \/ ~ArgumentFits(type, c, arg)
           THEN [code |-> <<>>, count |-> 0, wrong |-> TRUE, next |-> i]
           ELSE [rest EXCEPT !.code = @ \o arg.code \o <<Plain(",")>>, !.count = @ + 1]

(* How many bytes of arguments there are stands at both ends of a call.       *)
FunctionCall(callee, args) ==
  Part(<<Entry("(", SizeOfWord * args.count)>> \o args.code \o callee.code
       \o <<Entry(")", SizeOfWord * args.count)>>, Returned(callee.type), args.next)

Stopped == [Part(<<Entry("num", 0)>>, IntType, 0) EXCEPT !.wrong = TRUE]
Leaves == {"num", "unum", "ident", "str", "unwritten", "type"}
Unary == {"cast", "sizeof", "&u", "*u", "->", ")", "++", "--", "++p", "--p", "~", "+u", "-u"}

exprval(rpn, i, env) ==
  LET tok == rpn[i].tok
      value == IF tok = "->" THEN rpn[i - 1].value ELSE rpn[i].value
      one == exprval(rpn, IF tok = "->" THEN i - 2 ELSE i - 1, env)   \* the operand, or the right one
      two == exprval(rpn, one.next, env)                             \* the left one
      three == exprval(rpn, two.next, env)
      sc == env.label + 2 * i
      truth(k, e) == rpn[k].tok \in Comparing \/ scalarTypeCheck(e.type)
      bool(k, e) == IF rpn[k].tok \in Comparing THEN e ELSE Bool(e)
      args == Args(rpn, one.next, one.type, 1, env)
      fits == CASE tok \in Leaves -> tok = "ident" /\ value \notin DOMAIN env.names =>
                                       i < Len(rpn) /\ rpn[i + 1].tok = ")"
                [] tok \in Unary  -> /\ ~one.wrong /\ UnaryFits(tok, value, one, env)
                                     /\ tok = ")" => ~args.wrong
                [] tok = "?"      -> /\ ~one.wrong /\ ~two.wrong /\ SidesFit(one, two)
                                     /\ ~three.wrong /\ scalarTypeCheck(three.type)
                [] OTHER          -> /\ ~one.wrong /\ ~two.wrong /\ BinaryFits(tok, two, one, env)
                                     /\ tok \in {"&&", "||"} => truth(i - 1, one) /\ truth(one.next, two)
  IN  CASE ~fits          -> Stopped
        [] tok = "num"    -> Constant(Part(<<rpn[i]>>, IntType, i - 1), value)
        [] tok = "unum"   -> Constant(Part(<<rpn[i]>>, UnsignedType, i - 1), value)
        [] tok = "ident"  -> Named(value, env, i - 1)
        [] tok \in {"str", "unwritten"} -> StringLiteral(value, sc, i - 1)
        [] tok = "cast"   -> Cast(Sized(value, env), one)
        [] tok = "type"   -> Part(<<rpn[i]>>, Sized(value, env), i - 1)
        [] tok = "sizeof" -> SizeOf(one)
        [] tok = "&u"     -> AddressOf(one)
        [] tok = "*u"     -> Dereference(one)
        [] tok \in {"+", "-"}                 -> Additive(tok, two, one)
        [] tok \in {"++", "--", "++p", "--p"} -> Increment(tok, one)
        [] tok = "="                          -> Assignment(two, one)
        [] tok \in {"~", "+u", "-u"}          -> UnaryArith(tok, one)
        [] tok \in {"*", "/", "%", "<<", ">>", "&", "^", "|"} -> Multiplicative(tok, two, one)
        [] tok \in Comparing                  -> Comparison(tok, two, one)
        [] tok \in {"&&", "||"}               -> Logical(tok, sc, bool(one.next, two), bool(i - 1, one))
        [] tok = ")"      -> FunctionCall(one, args)
        [] tok = "comma"  -> Comma(two, one)
        [] tok \in {"*=", "/=", "%=", "+=", "-=", "<<=", ">>=", "&=", "^=", "|="} ->
             AssignmentWith(tok, two, one)
        [] tok = "?"      -> Ternary(sc, three, two, one)
        [] tok = "->"     -> Member(value, one)

(* ParseExpr, from where the compiler is: the type, whether it is constant,   *)
(* what the stack holds and where it stopped.  What is declared (target) is   *)
(* assigned to.  What was only there to hide a place is dropped at the end.   *)
ParseExpr(st, target, commaSeparator) ==
  LET parsed == expr(st, st.at, commaSeparator)
      rpn == target \o parsed.out \o (IF target = <<>> THEN <<>> ELSE <<Plain("=")>>)
      value == exprval(rpn, Len(rpn), st)
      literals == SelectSeq([k \in DOMAIN rpn |-> k], LAMBDA k : rpn[k].tok = "str")
      kept(entry) == entry.tok # "+u" /\ ~(entry.tok = "*u" /\ entry.value = 0)
  IN  [wrong |-> value.wrong, stack |-> SelectSeq(value.code, kept), type |-> value.type, const |-> value.const,
       value |-> value.value, next |-> parsed.next,
       literals |-> [k \in DOMAIN literals |->
                       [name |-> Literal(st.label + 2 * literals[k]), pieces |-> rpn[literals[k]].value]],
       label |-> st.label + 2 * Len(rpn) + 2]
NoExpr(st) == st.tokens[st.at].tok \in EndsExpression
=============================================================================
