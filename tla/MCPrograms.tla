------------------------------ MODULE MCPrograms ------------------------------
(* Programs for the compiler: each operator on each kind of operand, operators *)
(* nested both ways, every statement and what statements are nested in, calls, *)
(* pointers, arrays and structures, initial values, and functions of the       *)
(* kernel.  Left out is what the compiler is known to get wrong (README).      *)
EXTENDS CompiledProgram

int == Type("int")
unsigned == Type("unsigned")
char == Type("char")
uchar == Type("uchar")
void == Type("void")
array(n, type) == <<Entry("[", n)>> \o type
struct(name) == <<Entry("struct", name)>>

E(op, kids) == Expression(op, 0, kids)
N(n) == Expression("num", n, <<>>)
UN(n) == Expression("unum", n, <<>>)
V(name) == Expression("ident", name, <<>>)
Un(op, e) == E(op, <<e>>)
Bin(l, op, r) == E(op, <<l, r>>)
Item(l, i) == E("[", <<l, i>>)
Dot(e, name) == Expression(".", name, <<e>>)
Arrow(e, name) == Expression("->", name, <<e>>)
CallOf(f, args) == E("call", <<V(f)>> \o args)
CastTo(type, e) == Expression("cast", type, <<e>>)
Str(chars) == Expression("str", chars, <<>>)
List(es) == E("{", es)
Cond(c, t, e) == E("?", <<c, t, e>>)

Simply(kind, es, body) == Statement(kind, es, body, "", void)
Expr(e) == Simply("expression", <<e>>, <<>>)
Set(l, r) == Expr(Bin(l, "=", r))
ReturnOf(e) == Simply("return", <<e>>, <<>>)
Returns == Simply("return", <<>>, <<>>)
Local(type, name) == Statement("declare", <<>>, <<>>, name, type)
LocalAs(type, name, e) == Statement("declare", <<e>>, <<>>, name, type)
IfOnly(c, s) == Simply("if", <<c>>, <<s>>)
IfElse(c, s, t) == Simply("if", <<c>>, <<s, t>>)
WhileLoop(c, s) == Simply("while", <<c>>, <<s>>)
DoLoop(s, c) == Simply("do", <<c>>, <<s>>)
ForLoop(i, c, e, s) == Simply("for", <<c, e>>, <<i, s>>)
Braced(statements) == Simply("block", <<>>, statements)
Nothing == Simply("empty", <<>>, <<>>)
Break == Simply("break", <<>>, <<>>)
Continue == Simply("continue", <<>>, <<>>)
GoTo(name) == Statement("goto", <<>>, <<>>, name, void)
Label(name, s) == Statement("label", <<>>, <<s>>, name, void)
SwitchOn(e, statements) == Simply("switch", <<e>>, <<Braced(statements)>>)
CaseOf(n, s) == Simply("case", <<N(n)>>, <<s>>)
DefaultOf(s) == Simply("default", <<>>, <<s>>)
Global(type, name) == Variable(name, type, <<>>)
GlobalAs(type, name, init) == Variable(name, type, <<init>>)
TwoWords == <<Typed("a", int), Typed("b", int)>>

Joining(ss) == FlattenSeq(ss)
All(op, ls, rs) ==
  [k \in 1 .. Len(ls) * Len(rs) |->
     Bin(ls[((k - 1) \div Len(rs)) + 1], op, rs[((k - 1) % Len(rs)) + 1])]
AllOf(ops, ls, rs) == FlattenSeq([i \in DOMAIN ops |-> All(ops[i], ls, rs)])
Each(op, es) == [i \in DOMAIN es |-> Un(op, es[i])]
EachOf(ops, es) == FlattenSeq([i \in DOMAIN ops |-> Each(ops[i], es)])
-----------------------------------------------------------------------------
(* Expressions, ten to a function, of arguments, locals near and far from M,   *)
(* global variables, bytes among them, and what a pointer points to.           *)
Results == <<"r0", "r1", "r2", "r3", "r4", "r5", "r6", "r7", "r8", "r9">>
Globals ==
  [i \in DOMAIN Results |-> Global(int, Results[i])]
  \o <<Global(int, "g"), GlobalAs(unsigned, "k", UN(40000)), GlobalAs(uchar, "h", N(250)),
       GlobalAs(PointerTo(int), "q", Un("&u", V("g"))),
       GlobalAs(array(4, int), "t", List(<<N(3), N(-7), N(300), N(1)>>)),
       Global(int, "xout"), Global(int, "farout"), Global(int, "bout"), Global(uchar, "cout")>>
Locals ==
  <<LocalAs(int, "x", Bin(V("b"), "-", N(5))), LocalAs(unsigned, "y", V("a")), LocalAs(uchar, "c", N(7)),
    LocalAs(PointerTo(int), "p", Un("&u", V("g"))), Local(array(130, char), "pad"), Local(int, "far"),
    Set(V("g"), Bin(V("a"), "^", N(\h1234))), Set(V("far"), Bin(V("b"), "+", V("a")))>>
Outs == <<Set(V("xout"), V("x")), Set(V("farout"), V("far")), Set(V("bout"), V("b")), Set(V("cout"), V("c"))>>
Tenth(es, k) == SubSeq(es, 10 * k - 9, IF 10 * k > Len(es) THEN Len(es) ELSE 10 * k)
Around(statements) ==
  Globals \o <<Function("f", int, TwoWords, Locals \o statements \o Outs \o <<ReturnOf(V("x"))>>)>>
Stated(ss) == [k \in 1 .. (Len(ss) + 9) \div 10 |-> Around(Tenth(ss, k))]
(* One in five: no list of operands has five, so every operator keeps several   *)
(* of the operands it is listed with, on either side.                          *)
Fifth(es) == [i \in 1 .. (Len(es) + 4) \div 5 |-> es[5 * i - 4]]
Valued(es) ==
  LET put(some) == [i \in DOMAIN some |-> Set(V(Results[i]), some[i])]
  IN  [k \in 1 .. (Len(es) + 9) \div 10 |-> Around(put(Tenth(es, k)))]

Words == <<V("a"), V("b"), V("x"), V("far"), V("g"), Un("*u", V("p"))>>
Wider == Words \o <<N(5), V("y"), V("k"), N(0), N(\h1234), Un("*u", V("q")), Item(V("t"), N(2)),
                    Item(V("t"), Bin(V("a"), "&", N(3)))>>
Few == <<V("a"), V("g"), N(5)>>
Arith == <<"+", "-", "&", "|", "^">>
Relates == <<"<", ">", "<=", ">=", "==", "!=">>
Flat == AllOf(Arith, Words, Append(Words, N(5))) \o AllOf(Arith, <<N(5)>>, Words)
        \o AllOf(Relates, <<V("b"), V("y")>>, Wider \o <<V("c"), V("h")>>)
        \o AllOf(Relates, Few, <<V("k"), V("x"), V("c")>>)
        \o AllOf(<<"<<", ">>">>, <<V("y"), V("k")>>, <<N(1), N(3), N(8)>>)
        \o AllOf(<<"<<">>, Words, <<N(1), N(8), N(9)>>)
        \o AllOf(<<"*">>, Words, <<N(2), N(16)>>) \o AllOf(<<"/">>, <<V("y"), V("k")>>, <<N(16), N(4)>>)
        \o EachOf(<<"~", "!", "+u">>, Wider) \o Each("!", <<V("c"), V("h")>>)
Small == <<Bin(V("a"), "+", N(5)), Bin(V("b"), "-", V("x")), Bin(V("x"), "<", V("b")),
           Bin(V("k"), ">", V("a")), Bin(V("g"), "<<", N(1)), Un("~", V("a"))>>
Nested == AllOf(<<"+", "-", "&", "==", "<">>, Small, Few \o Small)
          \o AllOf(<<"-", "&", ">=">>, Few, Small)
Constants == AllOf(Arith \o Relates \o <<"*", "/", "%", "<<", ">>">>, <<N(7), N(\h7fff), UN(50000)>>,
                   <<N(3), UN(2)>>)
             \o EachOf(<<"~", "!", "-u", "+u", "sizeof">>, <<N(5), UN(9)>>)
             \o <<Bin(Bin(N(1), "+", V("x")), "+", Bin(N(2), "*", N(3))),
                  E("sizeof", <<V("t")>>), Expression("sizeof type", PointerTo(int), <<>>),
                  CastTo(uchar, N(300)), CastTo(uchar, V("b")), CastTo(unsigned, V("b")),
                  Bin(CastTo(unsigned, V("b")), ">>", N(1)), Bin(CastTo(uchar, V("b")), "+", V("c"))>>

Tests == <<V("x"), Bin(V("a"), "<", V("b")), Bin(V("g"), "&", N(5)), Bin(V("x"), "==", N(0)), Un("!", V("g")),
           V("c")>>
Logicals == AllOf(<<"&&", "||">>, Tests, Tests)
            \o AllOf(<<"&&", "||">>, SubSeq(AllOf(<<"&&", "||">>, Tests, <<V("y")>>), 1, 8), <<Bin(V("b"), ">", N(5))>>)
(* The value of ?:, && and || is of use at the top of an expression only.     *)
Whether(c, i) ==
  <<IfElse(c, Set(V("x"), Bin(V("x"), "+", N(i))), Set(V("far"), Bin(V("far"), "+", N(i)))),
    IfOnly(c, Set(V("r2"), N(i))), Expr(Cond(c, Bin(V("r3"), "=", N(i)), Bin(V("r4"), "+=", V("b"))))>>
Choosing == FlattenSeq([i \in DOMAIN Tests |-> Whether(Tests[i], i)])
            \o FlattenSeq([i \in DOMAIN Logicals |-> Whether(Logicals[i], 10 + i)])
            \o <<Expr(Cond(V("a"), Cond(V("x"), Bin(V("r5"), "=", N(1)), Bin(V("r5"), "=", V("b"))),
                         Cond(V("g"), Bin(V("r6"), "=", V("a")), Bin(V("r6"), "=", N(2)))))>>

Targets == <<V("x"), V("a"), V("g"), V("far"), V("c"), V("h"), V("y"), V("k"), Un("*u", V("p")),
             Item(V("t"), N(1)), Item(V("t"), Bin(V("a"), "&", N(3)))>>
Assigns == AllOf(<<"=">>, Targets, Small \o <<N(5), V("y")>>)
            \o AllOf(<<"+=", "-=", "&=", "|=", "^=">>, Targets, <<V("b"), Bin(V("a"), "-", N(5))>>)
            \o AllOf(<<"<<=">>, <<V("x"), V("g")>>, <<N(1), N(8)>>) \o AllOf(<<">>=">>, <<V("y"), V("k")>>, <<N(1), N(8)>>)
            \o EachOf(<<"++", "--", "++p", "--p">>, Targets)
            \o AllOf(<<"=">>, <<V("far")>>, AllOf(<<"=">>, <<V("x"), V("g"), V("c")>>, Small))
            \o AllOf(<<"=">>, <<V("b")>>, EachOf(<<"++p", "--p", "++">>, <<V("a"), V("g"), V("x"), V("c"), Un("*u", V("p"))>>))
            \o AllOf(<<"comma">>, AllOf(<<"=">>, <<V("x"), V("g")>>, Small), <<Bin(V("far"), "+=", V("x"))>>)
Assigning == [i \in DOMAIN Assigns |-> Expr(Assigns[i])]
-----------------------------------------------------------------------------
(* Loops of every kind around bodies that leave them or go on, choose, switch, *)
(* declare and loop; x counts the turns.                                     *)
Turns == <<Bin(V("x"), "<", N(4)), Bin(N(4), "-", V("x")), Bin(Bin(V("x"), "!=", N(4)), "&&", V("b")),
           Bin(Bin(V("x"), "<", N(2)), "||", Bin(V("x"), "<", N(4)))>>
NextTurn == Expr(Un("++p", V("x")))
Long == FoldLeft(LAMBDA e, i : Bin(e, "-", V("far")), V("far"), [i \in 1 .. 8 |-> i])
Bodies ==
  <<Expr(Bin(V("r0"), "+=", V("x"))),
    Braced(<<IfOnly(Bin(V("x"), "==", N(2)), Continue), Expr(Bin(V("r1"), "+=", V("x")))>>),
    Braced(<<IfOnly(Bin(V("x"), "==", N(3)), Braced(<<Set(V("c"), V("x")), Break>>)), Expr(Bin(V("r2"), "-=", V("x")))>>),
    IfElse(Bin(V("x"), "&", N(1)), Expr(Bin(V("r3"), "+=", N(1))), Braced(<<Expr(Bin(V("r3"), "+=", V("b")))>>)),
    ForLoop(Set(V("far"), N(0)), <<Bin(V("far"), "<", V("x"))>>, <<Un("++p", V("far"))>>,
            Expr(Bin(V("r4"), "+=", V("far")))),
    SwitchOn(V("x"), <<CaseOf(2, Expr(Bin(V("r5"), "+=", N(7)))), Break, DefaultOf(Expr(Bin(V("r5"), "+=", V("x"))))>>),
    SwitchOn(Bin(V("x"), "&", N(3)), <<DefaultOf(Expr(Un("++", V("r6")))), CaseOf(1, Set(V("far"), V("x")))>>),
    IfElse(Bin(Bin(V("x"), ">", V("a")), "&&", V("b")), Expr(Un("++", V("r7"))),
           IfOnly(Bin(Bin(V("x"), "==", N(1)), "||", V("c")), Expr(Bin(V("r7"), "-=", V("x"))))),
    Braced(<<LocalAs(int, "w", Bin(V("x"), "+", N(1))), LocalAs(uchar, "v", N(3)),
             Expr(Bin(V("r8"), "+=", Bin(V("w"), "*", N(4)))), Expr(Bin(V("r8"), "^=", V("v")))>>),
    Braced(<<Set(V("far"), V("x")), WhileLoop(N(1), Braced(<<IfOnly(Bin(V("far"), ">", N(5)), Break), Expr(Un("++", V("far")))>>)),
             DoLoop(Expr(Bin(V("far"), "-=", N(1))), Bin(V("far"), ">", N(2))), Set(V("r9"), V("far"))>>)>>
Loops(turn, body) ==
  LET counted == Braced(<<NextTurn, body>>)
  IN  <<WhileLoop(turn, counted), DoLoop(counted, turn),
        ForLoop(Set(V("x"), N(1)), <<turn>>, <<Un("++", V("x"))>>, body),
        ForLoop(Nothing, <<turn>>, <<>>, counted),
        ForLoop(Set(V("x"), N(0)), <<turn>>, <<E("comma", <<Un("++p", V("x")), Bin(V("g"), "=", Long)>>)>>, body),
        ForLoop(Nothing, <<>>, <<>>, Braced(<<IfOnly(Un("!", Bin(N(4), "-", V("x"))), Break), counted.body[1], body>>))>>
Looping ==
  [k \in 1 .. 6 |->
     Around(FlattenSeq([i \in DOMAIN Bodies |->
       <<Set(V("x"), N(0)), Loops(Turns[((i + k) % Len(Turns)) + 1], Bodies[i])[k]>>]))]

(* Ways out of statements in statements: goto, and return from within.       *)
Leaving ==
  <<Around(<<Set(V("x"), N(0)), Label("again", Expr(Un("++", V("x")))),
             WhileLoop(Bin(V("x"), "<", N(9)),
               ForLoop(Set(V("far"), N(0)), <<Bin(V("far"), "<", N(3))>>, <<Un("++p", V("far"))>>,
                       Braced(<<Expr(Bin(V("r0"), "+=", V("x"))), IfOnly(Bin(V("far"), "==", N(1)), GoTo("again"))>>))),
             GoTo("end"), Set(V("r1"), N(1)), Label("end", Set(V("r2"), N(2)))>>),
    Around(<<Set(V("x"), N(0)),
             WhileLoop(N(1), Braced(<<NextTurn, IfOnly(Bin(V("x"), "==", N(3)), ReturnOf(Bin(V("x"), "+", V("b"))))>>))>>),
    Around(<<IfElse(Bin(V("a"), "==", N(1)), ReturnOf(V("b")), Braced(<<Set(V("r0"), V("a")), ReturnOf(V("far"))>>))>>),
    Around(<<SwitchOn(V("a"), <<CaseOf(1, Set(V("r0"), N(5))), ReturnOf(N(300)), DefaultOf(Set(V("r1"), N(6)))>>)>>),
    Around(<<IfElse(V("c"), Nothing, Set(V("r0"), N(1))), DoLoop(Set(V("r1"), N(2)), N(0)),
             WhileLoop(N(0), Set(V("r2"), N(2))), ForLoop(Nothing, <<N(0)>>, <<>>, Set(V("r3"), N(3))),
             IfOnly(N(1), Set(V("r4"), N(4))), IfElse(N(0), Set(V("r5"), N(5)), Set(V("r6"), N(6)))>>)>>
-----------------------------------------------------------------------------
(* Calls: of functions with no arguments, some and themselves, before they are *)
(* defined, of what a variable, an argument or a table says, with bytes,       *)
(* strings and calls for arguments; and what a name in a block hides.          *)
Number(name) == <<Typed(name, int)>>
code == PointerTo(<<Entry("(", <<>>)>> \o int)
Pointer(name, type) == Typed(name, PointerTo(type))
Calling ==
  <<Global(int, "g"), GlobalAs(uchar, "h", N(200)), Global(array(10, int), "r"), Global(code, "chosen"),
    Enumerated("THREE", 3), Enumerated("MINUS", -4),
    Prototype("later", int), Prototype("even", int),
    Function("add", int, TwoWords, <<ReturnOf(Bin(V("a"), "+", V("b")))>>),
    Function("sub", int, TwoWords, <<ReturnOf(Bin(V("a"), "-", V("b")))>>),
    GlobalAs(array(0, code), "table", List(<<V("add"), V("sub"), V("later")>>)),
    Function("byte", uchar, <<Typed("c", uchar)>>, <<ReturnOf(Bin(V("c"), "+", N(100)))>>),
    Function("set", void, Number("v"),
             <<Set(V("g"), V("v")), IfOnly(V("v"), Returns), Set(V("g"), N(5))>>),
    Function("get", int, <<>>, <<ReturnOf(V("g"))>>),
    Function("length", int, <<Pointer("s", char)>>,
             <<Local(int, "n"), ForLoop(Set(V("n"), N(0)), <<Item(V("s"), V("n"))>>, <<Un("++p", V("n"))>>, Nothing),
               ReturnOf(V("n"))>>),
    Function("fib", int, Number("n"),
             <<IfOnly(Bin(V("n"), "<", N(2)), ReturnOf(V("n"))),
               ReturnOf(Bin(CallOf("fib", <<Bin(V("n"), "-", N(1))>>), "+", CallOf("fib", <<Bin(V("n"), "-", N(2))>>)))>>),
    Function("odd", int, Number("n"),
             <<IfOnly(Bin(V("n"), "==", N(0)), ReturnOf(N(0))), ReturnOf(CallOf("even", <<Bin(V("n"), "-", N(1))>>))>>),
    Function("even", int, Number("n"),
             <<IfOnly(Un("!", V("n")), ReturnOf(N(1))), ReturnOf(CallOf("odd", <<Bin(V("n"), "-", N(1))>>))>>),
    Function("twice", int, <<Typed("how", code), Typed("n", int)>>,
             <<ReturnOf(CallOf("how", <<CallOf("how", <<V("n"), N(1)>>), V("n")>>))>>),
    Function("later", int, <<Typed("a", int), Typed("c", uchar), Pointer("p", int)>>,
             <<Expr(Bin(Un("*u", V("p")), "+=", V("c"))), ReturnOf(Bin(V("a"), "^", V("c")))>>),
    Function("f", int, TwoWords,
             <<LocalAs(int, "x", CallOf("add", <<V("a"), V("b")>>)),
               Set(Item(V("r"), N(0)), CallOf("sub", <<CallOf("add", <<V("x"), V("a")>>), CallOf("sub", <<V("b"), N(7)>>)>>)),
               Set(Item(V("r"), N(1)), Bin(CallOf("fib", <<N(5)>>), "-", V("x"))),
               Expr(CallOf("set", <<V("a")>>)), Set(Item(V("r"), N(2)), CallOf("get", <<>>)),
               Expr(CallOf("set", <<N(0)>>)), Set(Item(V("r"), N(3)), Bin(V("x"), "+", CallOf("get", <<>>))),
               Set(Item(V("r"), N(4)), Bin(CallOf("length", <<Str(<<72, 105, 112>>)>>), "+", CallOf("length", <<Str(<<>>)>>))),
               Set(Item(V("r"), N(5)), Bin(CallOf("even", <<N(4)>>), "|", Bin(CallOf("odd", <<N(3)>>), "<<", N(1)))),
               Set(V("chosen"), V("sub")),
               Set(Item(V("r"), N(6)), Bin(E("call", <<Un("*u", V("chosen")), V("b"), V("a")>>), "-",
                                          CallOf("twice", <<V("add"), V("b")>>))),
               Set(Item(V("r"), N(7)), E("call", <<Item(V("table"), Bin(V("a"), "&", N(1))), V("x"), V("THREE")>>)),
               Set(Item(V("r"), N(8)), Bin(CallOf("later", <<V("b"), V("h"), Un("&u", V("x"))>>), "+", V("MINUS"))),
               Set(V("h"), CallOf("byte", <<V("h")>>)),
               IfOnly(CallOf("add", <<V("a"), V("b")>>), Braced(<<LocalAs(int, "x", N(9)), Expr(Bin(V("x"), "+=", V("a"))),
                                                            Set(Item(V("r"), N(9)), V("x"))>>)),
               ReturnOf(Bin(V("x"), "+", V("h")))>>)>>
Main == <<Global(int, "g"), Function("main", int, TwoWords, <<Set(V("g"), Bin(V("a"), "-", V("b")))>>)>>

(* fxnMul of kernel_main.c, without what it prints: a product is a call of it. *)
fxnMul ==
  Function("fxnMul", unsigned, <<Typed("a", unsigned), Typed("b", unsigned)>>,
    <<LocalAs(unsigned, "res", N(0)), LocalAs(unsigned, "mask", N(1)),
      ForLoop(LocalAs(uchar, "i", N(0)), <<Bin(V("i"), "<", N(16))>>, <<Un("++p", V("i"))>>,
        Braced(<<IfOnly(Bin(V("mask"), "&", V("a")), Braced(<<Expr(Bin(V("res"), "+=", V("b")))>>)),
                 Set(V("b"), Bin(V("b"), "<<", N(1))), Set(V("mask"), Bin(V("mask"), "<<", N(1)))>>)),
      ReturnOf(V("res"))>>)

(* Structures, unions, arrays of them and pointers to them, with every kind of *)
(* initial value; members on odd addresses, gaps, and what a pointer steps over. *)
In(name, type) == [name |-> name, type |-> type, pack |-> SizeOfWord]
Packed(name, type) == [name |-> name, type |-> type, pack |-> 1]
StructOf(union, members) == [union |-> union, members |-> members]
MCStructs ==
  [node  |-> StructOf(FALSE, <<In("value", int), In("next", PointerTo(struct("node")))>>),
   inner |-> StructOf(FALSE, <<In("k", uchar), In("v", array(3, int))>>),
   outer |-> StructOf(FALSE, <<In("c", uchar), In("in", struct("inner")), In("t", array(3, char)),
                               In("p", PointerTo(int))>>),
   both  |-> StructOf(TRUE, <<In("w", int), In("b", array(3, uchar))>>),
   tight |-> StructOf(FALSE, <<Packed("c", char), Packed("v", int), Packed("p", PointerTo(uchar))>>)]
ABC == <<65, 66, 67>>
Structured ==
  <<Structure("node"), Structure("inner"), Structure("outer"), Structure("both"), Global(array(12, int), "r"), Global(int, "g"),
    GlobalAs(struct("outer"), "o", List(<<N(1), List(<<N(2), List(<<N(3), N(-4)>>)>>), List(<<N(65), N(66)>>), Un("&u", V("g"))>>)),
    GlobalAs(struct("outer"), "flat", List(<<N(1), N(2), N(3), N(4), N(5), N(6), N(7), N(8), V("r")>>)),
    GlobalAs(array(0, struct("node")), "list",
             List(<<List(<<N(10)>>), List(<<N(20), V("r")>>), List(<<N(30), N(0)>>)>>)),
    GlobalAs(array(2, array(3, int)), "m", List(<<List(<<N(1), N(2), N(3)>>), List(<<N(4)>>)>>)),
    GlobalAs(array(2, array(3, int)), "lined", List(<<N(1), N(2), N(3), N(4), N(5), N(6)>>)),
    GlobalAs(array(0, char), "s", Str(ABC)), GlobalAs(array(6, char), "roomy", Str(ABC)),
    GlobalAs(struct("both"), "u", List(<<N(\h1234)>>)), Global(array(2, struct("both")), "us"),
    GlobalAs(int, "braced", List(<<Bin(N(3), "<<", N(2))>>)),
    GlobalAs(PointerTo(struct("node")), "head", V("list"))>>
  \o
  <<fxnMul,
    Function("total", int, <<Pointer("n", struct("node"))>>,
             <<LocalAs(int, "sum", N(0)),
               WhileLoop(V("n"), Braced(<<Expr(Bin(V("sum"), "+=", Arrow(V("n"), "value"))), Set(V("n"), Arrow(V("n"), "next"))>>)),
               ReturnOf(V("sum"))>>),
    Function("f", int, TwoWords,
             <<Local(array(4, int), "l"), Local(struct("outer"), "mine"), LocalAs(int, "i", Bin(V("a"), "&", N(1))),
               LocalAs(PointerTo(int), "p", V("l")), Local(PointerTo(struct("outer")), "q"),
               Set(Dot(Item(V("list"), N(0)), "next"), Un("&u", Item(V("list"), N(1)))),
               Set(Dot(Item(V("list"), N(1)), "next"), Bin(V("head"), "+", N(2))),
               Set(Item(V("r"), N(0)), CallOf("total", <<V("head")>>)),
               Set(Item(V("r"), N(1)), Arrow(Arrow(V("head"), "next"), "value")),
               Set(Item(V("l"), N(0)), V("a")), Set(Item(V("l"), N(1)), V("b")), Set(Un("*u", Bin(V("l"), "+", N(2))), N(77)),
               Expr(Bin(Un("*u", Un("++p", V("p"))), "=", Bin(V("a"), "+", N(1)))),
               Set(Item(V("r"), N(2)), Bin(Un("*u", V("p")), "-", Item(V("l"), V("i")))),
               Expr(Un("++", V("p"))), Set(Item(V("r"), N(3)), Bin(V("p"), "-", V("l"))),
               Set(Item(V("r"), N(4)), Bin(V("p"), ">", V("l"))),
               Set(V("q"), Un("&u", V("mine"))), Set(Arrow(V("q"), "c"), V("b")),
               Set(Item(Dot(Arrow(V("q"), "in"), "v"), V("i")), Bin(V("a"), "-", N(9))),
               Set(Item(Arrow(V("q"), "t"), N(1)), Dot(V("o"), "c")),
               Set(Item(V("r"), N(5)), Bin(Dot(V("mine"), "c"), "+", Item(Dot(Dot(V("mine"), "in"), "v"), V("i")))),
               Expr(Bin(Un("*u", Dot(V("o"), "p")), "=", V("a"))),
               Expr(Bin(Item(Dot(Dot(V("o"), "in"), "v"), V("i")), "+=", Arrow(V("q"), "c")))>>
             \o
             <<Set(Item(Item(V("m"), V("i")), N(1)), V("b")), Expr(Bin(Un("*u", Item(V("m"), N(1))), "+=", Item(Item(V("lined"), N(1)), V("i")))),
               Set(Item(Dot(V("u"), "b"), N(2)), V("b")), Set(Item(Dot(Item(V("us"), V("i")), "b"), N(1)), Dot(V("u"), "w")),
               Set(Item(V("r"), N(6)), Bin(Item(Dot(V("u"), "b"), N(1)), "+", Dot(Item(V("us"), N(1)), "w"))),
               Set(Item(V("s"), V("i")), Bin(Item(V("roomy"), N(2)), "+", V("i"))),
               Set(Item(V("r"), N(7)), Bin(Un("sizeof", V("o")), "-", Bin(Un("sizeof", V("list")), "<<", N(4)))),
               Set(Item(V("r"), N(8)), Bin(E("[", <<V("i"), V("l")>>), "+", V("braced"))),
               Set(V("head"), Un("&u", Item(V("list"), Bin(V("i"), "+", N(1))))), Expr(Un("--", V("head"))),
               Set(Item(V("r"), N(9)), Bin(Un("&u", Item(V("list"), N(2))), "-", V("head"))),
               Set(Item(V("r"), N(10)), Bin(Un("!", V("head")), "+", Bin(Arrow(V("head"), "next"), "==", V("head")))),
               Expr(Un("++p", Arrow(V("head"), "value"))), Expr(Un("--", Dot(V("o"), "c"))),
               Set(Item(V("r"), N(11)), CastTo(uchar, Dot(Item(V("list"), V("i")), "value"))),
               ReturnOf(Un("*u", V("l")))>>)>>
-----------------------------------------------------------------------------
(* Functions of the kernel (klib.c, mmu.c) as they stand there.              *)
bytes(name) == Pointer(name, char)
KernelFunctions ==
  <<Global(uchar, "uart_buffer_size"), Global(uchar, "uart_buffer_rd_pos"),
    GlobalAs(array(8, uchar), "uart_buffer", List(<<N(104), N(105), N(10)>>)),
    GlobalAs(array(24, uchar), "page_refcount", List([i \in 1 .. 21 |-> N(1)])),
    GlobalAs(array(4, uchar), "tlb_map", List(<<N(1), N(1)>>)),
    Global(array(8, int), "r"), GlobalAs(array(9, char), "dest", Str(ABC)), GlobalAs(array(4, char), "src", Str(<<65, 66, 68>>)),
    fxnMul,
    Function("getc", char, <<>>,
      <<LocalAs(char, "c", N(0)),
        IfOnly(V("uart_buffer_size"),
          Braced(<<Expr(Un("--p", V("uart_buffer_size"))), Set(V("c"), Item(V("uart_buffer"), V("uart_buffer_rd_pos"))),
                   Expr(Un("++p", V("uart_buffer_rd_pos")))>>)),
        ReturnOf(V("c"))>>),
    Function("strcmp", int, <<bytes("s1"), bytes("s2")>>,
      <<LocalAs(PointerTo(uchar), "c1", CastTo(PointerTo(uchar), V("s1"))),
        LocalAs(PointerTo(uchar), "c2", CastTo(PointerTo(uchar), V("s2"))), Local(uchar, "ch"), LocalAs(int, "d", N(0)),
        WhileLoop(N(1),
          Braced(<<Set(V("d"), Bin(CastTo(int, Bin(V("ch"), "=", Un("*u", Un("++p", V("c1"))))), "-",
                                   CastTo(int, Un("*u", Un("++p", V("c2")))))),
                   IfOnly(Bin(V("d"), "||", Un("!", V("ch"))), Break)>>)),
        ReturnOf(V("d"))>>),
    Function("memset", int, <<bytes("dest"), Typed("val", char), Typed("n", int)>>,
      <<LocalAs(int, "k", V("n")),
        WhileLoop(Un("--p", V("k")), Braced(<<Set(Un("*u", V("dest")), V("val")), Expr(Un("++p", V("dest")))>>)),
        ReturnOf(V("n"))>>),
    Function("memcpy", int, <<bytes("dest"), bytes("src"), Typed("n", int)>>,
      <<LocalAs(int, "k", V("n")),
        WhileLoop(Un("--p", V("k")),
          Braced(<<Set(Un("*u", V("dest")), Un("*u", V("src"))), Expr(Un("++p", V("dest"))), Expr(Un("++p", V("src")))>>)),
        ReturnOf(V("n"))>>),
    Function("memcmp", int, <<Pointer("mem1", void), Pointer("mem2", void), Typed("len", int)>>,
      <<LocalAs(PointerTo(Type("schar")), "p1", V("mem1")), LocalAs(PointerTo(Type("schar")), "p2", V("mem2")),
        IfOnly(Un("!", V("len")), ReturnOf(N(0))),
        WhileLoop(Bin(Un("--", V("len")), "&&", Bin(Un("*u", V("p1")), "==", Un("*u", V("p2")))),
          Braced(<<Expr(Un("++p", V("p1"))), Expr(Un("++p", V("p2")))>>)),
        ReturnOf(Bin(Un("*u", V("p1")), "-", Un("*u", V("p2"))))>>),
    Function("find_free_page", uchar, <<>>,
      <<LocalAs(uchar, "i", N(\h10)),
        WhileLoop(N(1),
          Braced(<<IfOnly(Bin(Item(V("page_refcount"), V("i")), "==", N(0)), Braced(<<ReturnOf(V("i"))>>)),
                   IfOnly(Bin(V("i"), "==", N(255)), Braced(<<ReturnOf(N(0))>>)), Expr(Un("++p", V("i")))>>))>>),
    Function("get_free_tlb", uchar, <<>>,
      <<LocalAs(uchar, "i", N(1)),
        WhileLoop(N(1),
          Braced(<<IfOnly(Bin(Item(V("tlb_map"), V("i")), "==", N(0)),
                       Braced(<<Set(Item(V("tlb_map"), V("i")), N(1)), ReturnOf(V("i"))>>)),
                   IfOnly(Bin(V("i"), "==", N(255)), Braced(<<ReturnOf(N(0))>>)), Expr(Un("++p", V("i")))>>))>>),
    Function("page_refcount_inc", uchar, <<Typed("page", uchar)>>,
      <<Expr(Un("++p", Item(V("page_refcount"), V("page")))), ReturnOf(Item(V("page_refcount"), V("page")))>>),
    Function("f", int, TwoWords,
      <<Set(Item(V("r"), N(0)), Un("!", CallOf("strcmp", <<V("dest"), V("src")>>))),
        Set(Item(V("r"), N(1)), Bin(Un("!", CallOf("strcmp", <<V("src"), V("src")>>)), "-",
                                   CallOf("memcmp", <<V("dest"), V("src"), N(2)>>))),
        Expr(CallOf("memset", <<Bin(V("dest"), "+", N(5)), N(90), N(3)>>)),
        Expr(CallOf("memcpy", <<Bin(V("dest"), "+", N(1)), V("src"), N(4)>>)),
        Expr(CallOf("getc", <<>>)), Set(V("uart_buffer_size"), N(2)), Set(Item(V("r"), N(2)), CallOf("getc", <<>>)),
        Set(Item(V("r"), N(3)), CallOf("find_free_page", <<>>)),
        Expr(CallOf("page_refcount_inc", <<CallOf("find_free_page", <<>>)>>)),
        Set(Item(V("r"), N(4)), CallOf("get_free_tlb", <<>>)),
        ReturnOf(Bin(Bin(V("a"), "*", V("b")), "+", CallOf("find_free_page", <<>>)))>>)>>

(* What is declared in blocks: static variables, which in the text have names  *)
(* in use elsewhere, types, constants and what they hide, and labels.          *)
Scoped ==
  <<GlobalAs(int, "shade", N(6)), GlobalAs(int, "line", N(43)),
    GlobalAs(array(0, char), "file", Str(<<115, 99, 111, 112, 101, 115, 46, 99>>)),
    GlobalAs(array(0, char), "text", Str(<<97, 9, 98, 92, 34, 65, 56, 66, 13, 47, 47>>)),
    GlobalAs(unsigned, "wide", UN(65535)), GlobalAs(unsigned, "words", N(24930)), GlobalAs(unsigned, "octal", UN(65535)),
    GlobalAs(unsigned, "many", UN(40000)), GlobalAs(int, "minus", N(-1)), GlobalAs(array(3, int), "table", List(<<N(0), N(6), N(5)>>)),
    Global(struct("tight"), "packed"), GlobalAs(unsigned, "size", N(13)),
    GlobalAs(int, "hidden calls", N(10)), GlobalAs(PointerTo(int), "where", Un("&u", V("shade"))), Global(int, "inner calls"),
    Function("hidden", int, Number("x"),
      <<Expr(Un("--p", V("inner calls"))), Expr(Bin(Item(V("table"), N(0)), "+=", V("inner calls"))),
        Expr(Bin(Un("*u", V("where")), "-=", N(2))), ReturnOf(Bin(Un("++p", V("hidden calls")), "+", V("x")))>>),
    Function("plus", int, TwoWords, <<ReturnOf(Bin(V("a"), "+", V("b")))>>),
    Function("f", int, TwoWords,
      <<LocalAs(int, "x", V("a")), LocalAs(PointerTo(int), "p", Un("&u", V("x"))), Local(array(2, int), "y"),
        LocalAs(code, "act", V("plus")), LocalAs(uchar, "c", N(300)), LocalAs(int, "number", N(4)),
        Braced(<<LocalAs(int, "i", N(0)),
                 ForLoop(LocalAs(int, "x", N(3)), <<Bin(V("i"), "<", N(2))>>,
                         <<E("comma", <<Un("++p", V("i")), Un("--p", V("x"))>>)>>,
                         Set(Item(V("y"), V("i")), Bin(V("x"), "+", V("number"))))>>),
        Expr(Bin(Item(V("table"), N(1)), "+=", N(107))), Expr(Bin(Item(V("table"), N(2)), "+=", N(5))),
        IfOnly(Bin(V("a"), "==", V("b")), GoTo("end")),
        Set(Dot(V("packed"), "v"), V("a")), Set(Dot(V("packed"), "c"), N(66)),
        Set(Dot(V("packed"), "p"), Un("&u", Dot(V("packed"), "v"))),
        SwitchOn(V("shade"),
          <<CaseOf(6, CaseOf(-1, Set(Dot(V("packed"), "c"), N(127)))), Break,
            CaseOf(4, Set(Un("*u", Dot(V("packed"), "p")), N(39))), Break, DefaultOf(Nothing)>>),
        Label("byte", Expr(Un("++p", V("c")))),
        IfOnly(Bin(V("c"), "==", N(45)), GoTo("byte")),
        Label("end", ReturnOf(Bin(Bin(CallOf("act", <<V("x"), CallOf("hidden", <<Un("*u", V("p"))>>)>>), "+",
                                      Item(V("y"), N(1))), "+", V("c"))))>>)>>
===============================================================================
