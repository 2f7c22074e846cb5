------------------------------- MODULE CMeaning -------------------------------
(***************************************************************************)
(* What a C program means: the language, on words of two bytes and a memory *)
(* of bytes, with the choices it leaves to the compiler made as smlrc makes *)
(* them (char is signed, arguments are evaluated from the last one on).     *)
(*                                                                         *)
(* A state is [mem, vars, globals, functions, free, value, out, label]: the *)
(* memory, the names in scope and those of the program with their addresses *)
(* and types, the functions by address, where the next local goes, the last *)
(* value as a word, and how a statement has ended: "" in the normal way,    *)
(* else "break", "continue", "return" or "goto" with a label.               *)
(***************************************************************************)
EXTENDS CSyntax

WordRange == 65536
AsSigned(w) == IF w < 32768 THEN w ELSE w - WordRange
BoolWord(holds) == IF holds THEN 1 ELSE 0
Decayed(type) == CASE Kind(type) = "[" -> PointerTo(Tail(type))
                   [] Kind(type) = "(" -> PointerTo(type)
                   [] OTHER -> type
Promoted(type) == IF Kind(type) \in Chars THEN Type("int") ELSE type
Usual(left, right) ==
  IF "unsigned" \in {Kind(left), Kind(right)} THEN Type("unsigned") ELSE Type("int")
IsPointer(type) == Kind(Decayed(type)) = "*"
Pointed(type) == Tail(Decayed(type))
SizeOfType(type) == GetDeclSize(type, FALSE)
MemberOf(type, name) == Layout(type[1].value).at[name]
Relations == {"<", ">", "<=", ">=", "==", "!="}

(* The type of an expression whose operands have the types kid.             *)
TypeWith(e, vars, kid) ==
  CASE e.op \in {"num", "!", "&&", "||"} \cup Relations -> Type("int")
    [] e.op \in {"unum", "sizeof", "sizeof type"} -> Type("unsigned")
    [] e.op = "str"   -> <<Entry("[", Len(e.value) + 1), Plain("char")>>
    [] e.op = "ident" -> vars[e.value].type
    [] e.op = "&u"    -> PointerTo(kid[1])
    [] e.op = "*u"    -> Pointed(kid[1])
    [] e.op = "["     -> Pointed(kid[IF IsPointer(kid[1]) THEN 1 ELSE 2])
    [] e.op = "."     -> MemberOf(kid[1], e.value).type
    [] e.op = "->"    -> MemberOf(Pointed(kid[1]), e.value).type
    [] e.op = "call"  -> Tail(Tail(Decayed(kid[1])))
    [] e.op = "cast"  -> e.value
    [] e.op \in {"~", "+u", "-u"} -> Promoted(kid[1])
    [] e.op \in {"<<", ">>"} -> Promoted(kid[1])
    [] e.op \in Assignments \cup {"++", "--", "++p", "--p"} -> kid[1]
    [] e.op = "comma" -> Decayed(kid[2])
    [] e.op = "?"     -> IF IsPointer(kid[2]) \/ Kind(kid[2]) = "void" THEN Decayed(kid[2])
                         ELSE IF IsPointer(kid[3]) THEN Decayed(kid[3]) ELSE Usual(kid[2], kid[3])
    [] e.op \in {"+", "-"} ->
         CASE IsPointer(kid[1]) /\ IsPointer(kid[2]) -> Type("int")
           [] IsPointer(kid[1]) /\ ~IsPointer(kid[2]) -> Decayed(kid[1])
           [] ~IsPointer(kid[1]) /\ IsPointer(kid[2]) -> Decayed(kid[2])
           [] OTHER -> Usual(kid[1], kid[2])
    [] e.op \in {"*", "/", "%", "&", "^", "|"} -> Usual(kid[1], kid[2])
RECURSIVE TypeOf(_, _)
TypeOf(e, vars) ==
  Then(FoldLeft(LAMBDA types, kid : Append(types, TypeOf(kid, vars)), <<>>, e.kids),
       LAMBDA kid : TypeWith(e, vars, kid))
-----------------------------------------------------------------------------
(* Memory.  A char read is widened, what is stored is cut.                   *)
ByteAt(mem, a) == IF a % WordRange \in DOMAIN mem THEN mem[a % WordRange] ELSE 0
Converted(w, type) ==
  CASE Kind(type) \in {"char", "schar"} -> IF w % 256 < 128 THEN w % 256 ELSE (w % 256) + 65280
    [] Kind(type) = "uchar" -> w % 256
    [] OTHER -> w % WordRange
Loaded(mem, a, type) ==
  Converted(ByteAt(mem, a) + (IF SizeOfType(type) = 2 THEN 256 * ByteAt(mem, a + 1) ELSE 0), type)
Stored(s, a, type, w) ==
  [s EXCEPT !.value = Converted(w, type),
            !.mem = (IF SizeOfType(type) = 2
                     THEN (a % WordRange :> w % 256)
                          @@ ((a + 1) % WordRange :> (w \div 256) % 256)
                     ELSE a % WordRange :> w % 256) @@ @]
Yields(s, w) == [s EXCEPT !.value = w % WordRange]

WordBits(w) == [i \in 0 .. 15 |-> (w \div 2^i) % 2]
FromBits(bit) == FoldFunctionOnSet(LAMBDA i, sum : i + sum, 0, [i \in 0 .. 15 |-> bit[i] * 2^i], 0 .. 15)
OnBits(op, x, y) ==
  FromBits([i \in 0 .. 15 |->
              CASE op = "&" -> WordBits(x)[i] * WordBits(y)[i]
                [] op = "|" -> IF WordBits(x)[i] + WordBits(y)[i] = 0 THEN 0 ELSE 1
                [] op = "^" -> (WordBits(x)[i] + WordBits(y)[i]) % 2])

Related(op, x, y) ==
  BoolWord(CASE op = "<" -> x < y [] op = ">" -> x > y [] op = "<=" -> x <= y
             [] op = ">=" -> x >= y [] op = "==" -> x = y [] op = "!=" -> x # y)

(* Two numbers, converted to a common type; division cuts towards zero.      *)
Computed(op, x, y, type) ==
  LET number(w) == IF Kind(type) = "unsigned" THEN w ELSE AsSigned(w)
      q == (IF number(x) < 0 THEN 0 - number(x) ELSE number(x))
           \div (IF number(y) < 0 THEN 0 - number(y) ELSE number(y))
      cut == IF (number(x) < 0) = (number(y) < 0) THEN q ELSE 0 - q
  IN  CASE op = "+" -> (x + y) % WordRange
        [] op = "-" -> (x - y) % WordRange
        [] op = "*" -> (AsSigned(x) * AsSigned(y)) % WordRange
        [] op = "/" -> cut % WordRange
        [] op = "%" -> (number(x) - cut * number(y)) % WordRange
        [] op = "<<" -> (x * 2^(y % 16)) % WordRange
        [] op = ">>" -> (number(x) \div 2^(y % 16)) % WordRange
        [] op \in {"&", "|", "^"} -> OnBits(op, x, y)
        [] op \in Relations -> Related(op, number(x), number(y))

(* An operator on two values of their own types: pointers count elements and  *)
(* compare as unsigned.                                                      *)
Applied(op, x, left, y, right) ==
  LET both == IF op \in {"<<", ">>"} THEN Promoted(left) ELSE Usual(left, right)
  IN  CASE op \in {"+", "-"} /\ IsPointer(left) /\ ~IsPointer(right) ->
             Computed(op, x, (y * SizeOfType(Pointed(left))) % WordRange, both)
        [] op = "+" /\ ~IsPointer(left) /\ IsPointer(right) ->
             Computed(op, (x * SizeOfType(Pointed(right))) % WordRange, y, both)
        [] op = "-" /\ IsPointer(left) /\ IsPointer(right) ->
             Computed("/", (x - y) % WordRange, SizeOfType(Pointed(left)), Type("int"))
        [] op \in Relations /\ (IsPointer(left) \/ IsPointer(right)) ->
             Computed(op, x, y, Type("unsigned"))
        [] OTHER -> Computed(op, x, y, both)
Plainly == [op \in Assignments \ {"="} |->
  CASE op = "*=" -> "*" [] op = "/=" -> "/" [] op = "%=" -> "%" [] op = "+=" -> "+" [] op = "-=" -> "-"
    [] op = "<<=" -> "<<" [] op = ">>=" -> ">>" [] op = "&=" -> "&" [] op = "^=" -> "^" [] op = "|=" -> "|"]
-----------------------------------------------------------------------------
Allocated(s, name, type) ==
  [s EXCEPT !.vars = (name :> [at |-> s.free, type |-> type, const |-> FALSE]) @@ @,
            !.free = @ + SizeOfType(type)]
Laid(a, bytes) == [b \in a .. a + Len(bytes) - 1 |-> bytes[b - a + 1]]

RECURSIVE Eval(_, _), Place(_, _), Call(_, _), Exec(_, _), Sequel(_, _, _), Loop(_, _, _)

(* Two operands one after the other.                                         *)
Both(First(_), Second(_), s, Result(_, _)) ==
  Then(First(s), LAMBDA one : Then(Second(one), LAMBDA two : Result(one, two)))

(* Where something is.                                                       *)
Place(e, s) ==
  LET type(i) == TypeOf(e.kids[i], s.vars)
  IN  CASE e.op = "ident" -> Yields(s, s.vars[e.value].at)
        [] e.op = "*u" -> Eval(e.kids[1], s)
        [] e.op = "["  ->
             Both(LAMBDA t : Eval(e.kids[1], t), LAMBDA t : Eval(e.kids[2], t), s,
                  LAMBDA one, two : Yields(two, Applied("+", one.value, type(1), two.value, type(2))))
        [] e.op = "."  ->
             Then(Place(e.kids[1], s), LAMBDA at : Yields(at, at.value + MemberOf(type(1), e.value).ofs))
        [] e.op = "->" ->
             Then(Eval(e.kids[1], s), LAMBDA p : Yields(p, p.value + MemberOf(Pointed(type(1)), e.value).ofs))
        [] e.op = "str" -> [s EXCEPT !.value = s.free, !.free = @ + Len(e.value) + 1,
                                     !.mem = Laid(s.free, Append(e.value, 0)) @@ @]

(* A value.  An array or a function is its address.                          *)
Dyadic == {"+", "-", "*", "/", "%", "<<", ">>", "&", "|", "^"} \cup Relations
Logic == {"&&", "||", "?", "comma"}
Monadic == {"cast", "+u", "-u", "~", "!"}
Eval(e, s) ==
  LET type(i) == TypeOf(e.kids[i], s.vars)
      value(i, t) == Eval(e.kids[i], t)
      old(at, t) == Loaded(t.mem, at.value, type(1))
      loaded(at) == IF Kind(TypeOf(e, s.vars)) \in {"[", "("} THEN at
                    ELSE Yields(at, Loaded(at.mem, at.value, TypeOf(e, s.vars)))
      step(at) == Applied(IF e.op \in {"++", "++p"} THEN "+" ELSE "-", old(at, at), type(1), 1, Type("int"))
      unary(one) == Yields(one, CASE e.op = "cast" -> Converted(one.value, e.value)
                                  [] e.op = "+u" -> one.value
                                  [] e.op = "-u" -> 0 - one.value
                                  [] e.op = "~" -> 65535 - one.value
                                  [] e.op = "!" -> BoolWord(one.value = 0))
      choice(one) ==
        LET decided == (e.op = "&&" /\ one.value = 0) \/ (e.op = "||" /\ one.value # 0)
        IN  CASE e.op = "?" -> value(IF one.value # 0 THEN 2 ELSE 3, one)
              [] e.op = "comma" -> value(2, one)
              [] OTHER -> IF decided THEN Yields(one, BoolWord(e.op = "||"))
                          ELSE Then(value(2, one), LAMBDA two : Yields(two, BoolWord(two.value # 0)))
      binary(one, two) == Yields(two, Applied(e.op, one.value, type(1), two.value, type(2)))
      changed(at) == IF e.op \in {"++p", "--p"}
                     THEN Yields(Stored(at, at.value, type(1), step(at)), old(at, at))
                     ELSE Stored(at, at.value, type(1), step(at))
      assigned(at, right) ==
        Stored(right, at.value, type(1),
               IF e.op = "=" THEN right.value
               ELSE Applied(Plainly[e.op], old(at, right), type(1), right.value, type(2)))
  IN  CASE e.op \in {"num", "unum"} -> Yields(s, e.value)
        [] e.op = "ident" /\ s.vars[e.value].const -> Yields(s, s.vars[e.value].at)
        [] e.op \in {"str", "*u", "[", ".", "->"} \/ (e.op = "ident" /\ ~s.vars[e.value].const) ->
             Then(Place(e, s), loaded)
        [] e.op = "&u" -> Place(e.kids[1], s)
        [] e.op = "sizeof" -> Yields(s, SizeOfType(type(1)))
        [] e.op = "sizeof type" -> Yields(s, SizeOfType(e.value))
        [] e.op = "call" -> Call(e, s)
        [] e.op \in Monadic -> Then(value(1, s), unary)
        [] e.op \in Logic -> Then(value(1, s), choice)
        [] e.op \in {"++", "--", "++p", "--p"} -> Then(Place(e.kids[1], s), changed)
        [] e.op \in Assignments ->
             Both(LAMBDA t : Place(e.kids[1], t), LAMBDA t : value(2, t), s, assigned)
        [] e.op \in Dyadic ->
             Both(LAMBDA t : value(1, t), LAMBDA t : value(2, t), s, binary)

(* The arguments from the last one on, then what is called; its parameters    *)
(* and locals are its own.                                                   *)
Call(e, s) ==
  LET argument(done, kid) ==
        Then(Eval(kid, done.s), LAMBDA v : [s |-> v, values |-> <<v.value>> \o done.values])
      all == FoldLeft(argument, [s |-> s, values |-> <<>>], Reverse(Tail(e.kids)))
      entered(target, values) ==
        LET function == target.functions[target.value]
            enter(t, i) ==
              LET param == function.params[i]
              IN  Stored(Allocated(t, param.name, param.type), t.free, param.type, values[i])
            left(state) == Then(Sequel(function.body, 1, state),
                                LAMBDA done : [done EXCEPT !.vars = s.vars, !.out = "",
                                                           !.value = IF done.out # "return" /\ function.name = "main" THEN 0
                                                                     ELSE Converted(@, Tail(function.type))])
        IN  Then(FoldLeft(enter, [target EXCEPT !.vars = s.globals], [i \in DOMAIN function.params |-> i]), left)
      called(done) == Then(Eval(e.kids[1], done.s), LAMBDA target : entered(target, done.values))
  IN  Then(all, called)
-----------------------------------------------------------------------------
Normal(s) == [s EXCEPT !.out = ""]
IsTrue(s) == s.value # 0

(* The labels a statement begins with, and what follows them.                *)
RECURSIVE LabelsOf(_)
LabelsOf(st) ==
  IF st.kind \in {"label", "case", "default"} THEN <<st>> \o LabelsOf(st.body[1]) ELSE <<>>
With(statements, Labelled(_)) ==
  SelectInSeq(statements, LAMBDA st : \E label \in Range(LabelsOf(st)) : Labelled(label))

(* Statements in their order; a goto looks for its label here and, if it is   *)
(* not here, in the blocks around.                                           *)
Sequel(statements, i, s) ==
  LET after(done) ==
        LET there == With(statements, LAMBDA label : label.kind = "label" /\ label.name = done.label)
        IN  CASE done.out = "" -> Sequel(statements, i + 1, done)
              [] done.out = "goto" /\ there # 0 -> Sequel(statements, there, Normal(done))
              [] OTHER -> done
  IN  IF i > Len(statements) THEN s ELSE Then(Exec(statements[i], s), after)

(* A loop from its test on: its condition and third expression may be absent. *)
Loop(st, tested, s) ==
  LET cond == IF tested /\ st.es[1] # <<>> THEN Eval(st.es[1][1], s) ELSE [s EXCEPT !.value = 1]
      again(body) == Loop(st, TRUE, IF st.es[2] = <<>> THEN Normal(body) ELSE Eval(st.es[2][1], Normal(body)))
      after(body) == CASE body.out = "break" -> Normal(body)
                       [] body.out \in {"", "continue"} -> again(body)
                       [] OTHER -> body
      turn(state) == IF IsTrue(state) THEN Then(Exec(Last(st.body), state), after) ELSE state
  IN  Then(cond, turn)

Within(s, outside) == [s EXCEPT !.vars = outside.vars]

Exec(st, s) ==
  LET value == Eval(st.es[1], s)
      loop == [st EXCEPT !.es = <<<<st.es[1]>>, <<>>>>]
      declared == Allocated(s, st.name, st.type)
      chosen(state) == CASE IsTrue(state) -> Exec(st.body[1], state)
                         [] ~IsTrue(state) /\ Len(st.body) = 2 -> Exec(st.body[2], state)
                         [] OTHER -> state
      switched(state) ==
        LET body == st.body[1].body
            case == With(body, LAMBDA label : label.kind = "case" /\ label.es[1].value = state.value)
            default == With(body, LAMBDA label : label.kind = "default")
            from == IF case # 0 THEN case ELSE default
        IN  IF from = 0 THEN state
            ELSE Then(Sequel(body, from, state), LAMBDA done : IF done.out = "break" THEN Normal(done) ELSE done)
  IN  CASE st.kind = "empty" -> s
        [] st.kind = "block" -> Within(Sequel(st.body, 1, s), s)
        [] st.kind = "declare" ->
             IF st.es = <<>> THEN declared
             ELSE Then(Eval(st.es[1], declared), LAMBDA init : Stored(init, s.free, st.type, init.value))
        [] st.kind = "expression" -> value
        [] st.kind = "return" -> [IF st.es = <<>> THEN s ELSE value EXCEPT !.out = "return"]
        [] st.kind = "while" -> Loop(loop, TRUE, s)
        [] st.kind = "do" -> Loop(loop, FALSE, s)
        [] st.kind = "for" -> Within(Then(Exec(st.body[1], s), LAMBDA begun : Loop(st, TRUE, begun)), s)
        [] st.kind = "if" -> Then(value, chosen)
        [] st.kind = "switch" -> Within(Then(value, switched), s)
        [] st.kind \in {"break", "continue"} -> [s EXCEPT !.out = st.kind]
        [] st.kind = "goto" -> [s EXCEPT !.out = "goto", !.label = st.name]
        [] st.kind \in {"label", "case", "default"} -> Exec(st.body[1], s)
-----------------------------------------------------------------------------
(* Initial values.  An aggregate takes the values in its braces, or as many   *)
(* of those around it as it has components; the rest is zero.                 *)
Components(type) ==
  IF Kind(type) = "["
  THEN [k \in 1 .. type[1].value |->
          [ofs |-> (k - 1) * SizeOfType(Tail(type)), type |-> Tail(type)]]
  ELSE LET all == [k \in DOMAIN Structs[type[1].value].members |->
                     MemberOf(type, Structs[type[1].value].members[k].name)]
       IN  IF Structs[type[1].value].union THEN <<all[1]>> ELSE all

RECURSIVE FillIn(_, _, _), FillComponents(_, _, _)
FillComponents(type, at, so_far) ==
  FoldLeft(LAMBDA done, c : FillIn(c.type, at + c.ofs, done), so_far, Components(type))
FillIn(type, at, so_far) ==
  LET first == Head(so_far.items)
      rest == Tail(so_far.items)
      aggregate == Kind(type) \in {"[", "struct"}
      value == IF first.op = "{" THEN first.kids[1] ELSE first
      string == Kind(type) = "[" /\ Kind(Tail(type)) \in Chars /\ value.op = "str"
      computed == Eval(value, so_far.s)
  IN  CASE so_far.items = <<>> -> so_far
        [] so_far.items # <<>> /\ ~aggregate ->
             [s |-> Stored(computed, at, type, computed.value), items |-> rest]
        [] so_far.items # <<>> /\ string ->
             [s |-> [so_far.s EXCEPT !.mem = Laid(at, value.value) @@ @], items |-> rest]
        [] so_far.items # <<>> /\ aggregate /\ ~string ->
             IF first.op = "{"
             THEN [s |-> FillComponents(type, at, [s |-> so_far.s, items |-> first.kids]).s, items |-> rest]
             ELSE FillComponents(type, at, so_far)

DeclaredType(d) ==
  IF Kind(d.type) = "[" /\ d.type[1].value = 0
  THEN [d.type EXCEPT ![1].value = IF d.init[1].op = "str" THEN Len(d.init[1].value) + 1
                                   ELSE Len(d.init[1].kids)]
  ELSE d.type

(* A program whose variables and functions are at these places, before it     *)
(* starts; its locals will be from free on.                                   *)
Start(program, place, free) ==
  LET meaning(d) ==
        CASE d.kind = "variable" -> [at |-> place[d.name], type |-> DeclaredType(d), const |-> FALSE]
          [] d.kind = "function" -> [at |-> place[d.name], type |-> d.type, const |-> FALSE]
          [] d.kind = "constant" -> [at |-> d.init[1].value, type |-> d.type, const |-> TRUE]
      add(s, d) ==
        CASE d.kind \in {"prototype", "struct"} -> s
          [] d.kind = "function" -> [s EXCEPT !.globals = (d.name :> meaning(d)) @@ @,
                                              !.functions = (place[d.name] :> d) @@ @]
          [] OTHER -> [s EXCEPT !.globals = (d.name :> meaning(d)) @@ @]
      begun == FoldLeft(add, [mem |-> <<>>, vars |-> <<>>, globals |-> <<>>, functions |-> <<>>,
                              free |-> free, value |-> 0, out |-> "", label |-> ""], program)
      filled(s, d) ==
        IF d.kind # "variable" THEN s
        ELSE FillIn(DeclaredType(d), place[d.name], [s |-> s, items |-> d.init]).s
  IN  FoldLeft(filled, [begun EXCEPT !.vars = begun.globals], program)

(* The program after a call of a function with these words.                   *)
Called(start, name, words) ==
  Call(Expression("call", 0,
         <<Expression("ident", name, <<>>)>> \o [i \in DOMAIN words |-> Expression("num", words[i], <<>>)]),
       start)
===============================================================================
