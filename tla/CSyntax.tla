------------------------------- MODULE CSyntax -------------------------------
(***************************************************************************)
(* The C programs the compiler is given, as what they mean is read off      *)
(* them, and how they are written.  This is the language, not the compiler. *)
(*                                                                         *)
(* An expression is [op, value, kids].  The operators are named as in the   *)
(* compiler ("*u" is the unary one, "++p" comes after its operand); there   *)
(* are also "[", ".", "->", "call", whose first kid is what is called,      *)
(* "cast", "sizeof", "sizeof type", and "{" in initialisers.                *)
(*                                                                         *)
(* A statement is [kind, es, body, name, type]: its expressions, the        *)
(* statements below it, and what it declares or names.  A for has the       *)
(* statement it starts with first in body, and two sequences of at most one *)
(* expression in es; so has a return, and a declaration for its initial     *)
(* value.                                                                   *)
(***************************************************************************)
EXTENDS Declarations

Expression(op, value, kids) == [op |-> op, value |-> value, kids |-> kids]
Statement(kind, es, body, name, type) ==
  [kind |-> kind, es |-> es, body |-> body, name |-> name, type |-> type]

(* A program is a sequence of declarations: of a variable, of a function      *)
(* with a body, of one without, of a structure, or of a member of an          *)
(* enumeration.                                                              *)
Declaration(kind, name, type, init, body) ==
  [kind |-> kind, name |-> name, type |-> type, init |-> init, params |-> <<>>, body |-> body]
Variable(name, type, init) == Declaration("variable", name, type, init, <<>>)
Function(name, type, params, body) ==
  [Declaration("function", name, <<Entry("(", params)>> \o type, <<>>, body) EXCEPT !.params = params]
Prototype(name, type) == Declaration("prototype", name, <<Entry("(", <<>>)>> \o type, <<>>, <<>>)
Structure(tag) == Declaration("struct", tag, <<Entry("struct", tag)>>, <<>>, <<>>)
Enumerated(name, value) ==
  Declaration("constant", name, Type("int"), <<Expression("num", value, <<>>)>>, <<>>)

Assignments == {"=", "*=", "/=", "%=", "+=", "-=", "<<=", ">>=", "&=", "^=", "|="}
SignOf == [op \in {"&u", "*u", "+u", "-u", "!", "~", "++", "--", "sizeof", "++p", "--p"} |->
           CASE op = "&u" -> "&" [] op = "*u" -> "*" [] op = "+u" -> "+" [] op = "-u" -> "-"
             [] op = "++p" -> "++" [] op = "--p" -> "--" [] OTHER -> op]

(* How tightly an expression holds together in C.                            *)
Level(e) ==
  CASE e.op = "num" /\ e.value < 0 -> 14
    [] e.op \in {"num", "unum", "ident", "str", "[", ".", "->", "call", "++p", "--p", "{"}
       /\ ~(e.op = "num" /\ e.value < 0) -> 15
    [] e.op \in (DOMAIN SignOf \ {"++p", "--p"}) \cup {"cast", "sizeof type"} -> 14
    [] e.op \in {"*", "/", "%"} -> 13 [] e.op \in {"+", "-"} -> 12 [] e.op \in {"<<", ">>"} -> 11
    [] e.op \in {"<", ">", "<=", ">="} -> 10 [] e.op \in {"==", "!="} -> 9
    [] e.op = "&" -> 8 [] e.op = "^" -> 7 [] e.op = "|" -> 6 [] e.op = "&&" -> 5 [] e.op = "||" -> 4
    [] e.op = "?" -> 3 [] e.op \in Assignments -> 2 [] e.op = "comma" -> 1
-----------------------------------------------------------------------------
(* What is written, word by word.  Strings are of letters.                   *)
Capitals == "ABCDEFGHIJKLMNOPQRSTUVWXYZ"
Smalls == "abcdefghijklmnopqrstuvwxyz"
Letter(code) == IF code < 97 THEN SubSeq(Capitals, code - 64, code - 64) ELSE SubSeq(Smalls, code - 96, code - 96)
Quoted(chars) == "\"" \o FoldLeft(LAMBDA text, c : text \o Letter(c), "", chars) \o "\""

Between(comma, lists) ==
  FlattenSeq([i \in DOMAIN lists |-> IF i = 1 THEN lists[i] ELSE <<comma>> \o lists[i]])
InParentheses(words) == <<"(">> \o words \o <<")">>

BaseWritten(entry) ==
  CASE entry.tok = "struct" -> <<IF Structs[entry.value].union THEN "union" ELSE "struct", entry.value>>
    [] entry.tok = "schar"  -> <<"signed", "char">>
    [] entry.tok = "uchar"  -> <<"unsigned", "char">>
    [] OTHER                -> <<entry.tok>>

(* A declaration of what is written so far, from the inside out.             *)
RECURSIVE Declared(_, _)
Declared(type, words) ==
  LET held == IF words # <<>> /\ Head(words) = "*" THEN InParentheses(words) ELSE words
      params == [k \in DOMAIN type[1].value |->
                   LET param == type[1].value[k]
                   IN  Declared(param.type, IF param.name = "" THEN <<>> ELSE <<param.name>>)]
  IN  CASE Kind(type) = "*" -> Declared(Tail(type), <<"*">> \o words)
        [] Kind(type) = "[" ->
             Declared(Tail(type), held \o <<"[">> \o (IF type[1].value = 0 THEN <<>> ELSE <<ToString(type[1].value)>>)
                                  \o <<"]">>)
        [] Kind(type) = "(" -> Declared(Tail(type), held \o InParentheses(Between(",", params)))
        [] OTHER            -> BaseWritten(type[1]) \o words

(* An expression written where at least this level is needed, with           *)
(* parentheses only where they are.                                          *)
RECURSIVE Written(_, _)
Listed(es) == Between(",", [i \in DOMAIN es |-> Written(es[i], 2)])
Bare(e) ==
  LET level == Level(e)
      one(l) == Written(e.kids[1], l)
      two(l) == Written(e.kids[2], l)
      type == InParentheses(Declared(e.value, <<>>))
  IN  CASE e.op = "num" -> IF e.value < 0 THEN <<"-", ToString(0 - e.value)>> ELSE <<ToString(e.value)>>
        [] e.op = "unum" -> <<ToString(e.value) \o "u">>
        [] e.op = "ident" -> <<e.value>>
        [] e.op = "str" -> <<Quoted(e.value)>>
        [] e.op \in {"++p", "--p"} -> Append(one(15), SignOf[e.op])
        [] e.op = "[" -> one(15) \o <<"[">> \o two(1) \o <<"]">>
        [] e.op \in {".", "->"} -> one(15) \o <<e.op, e.value>>
        [] e.op = "call" -> one(15) \o InParentheses(Listed(Tail(e.kids)))
        [] e.op = "cast" -> type \o one(14)
        [] e.op = "sizeof type" -> <<"sizeof">> \o type
        [] e.op = "{" -> <<"{">> \o Listed(e.kids) \o <<"}">>
        [] e.op \in DOMAIN SignOf \ {"++p", "--p"} -> <<SignOf[e.op]>> \o one(14)
        [] e.op = "?" -> one(4) \o <<"?">> \o two(1) \o <<":">> \o Written(e.kids[3], 3)
        [] e.op \in Assignments -> one(14) \o <<e.op>> \o two(2)
        [] e.op = "comma" -> one(1) \o <<",">> \o two(2)
        [] level \in 4 .. 13 -> one(level) \o <<e.op>> \o two(level + 1)
Written(e, least) == IF Level(e) >= least THEN Bare(e) ELSE InParentheses(Bare(e))

Initialised(type, name, init) ==
  Declared(type, <<name>>) \o (IF init = <<>> THEN <<>> ELSE <<"=">> \o Written(init[1], 2)) \o <<";">>

RECURSIVE StatementWritten(_)
AllWritten(statements) == FlattenSeq([i \in DOMAIN statements |-> StatementWritten(statements[i])])
StatementWritten(s) ==
  LET whole(es) == IF es = <<>> THEN <<>> ELSE Written(es[1], 1)
      asked == InParentheses(whole(s.es))
      first == StatementWritten(s.body[1])
  IN  CASE s.kind = "empty" -> <<";">>
        [] s.kind = "block" -> <<"{">> \o AllWritten(s.body) \o <<"}">>
        [] s.kind = "declare" -> Initialised(s.type, s.name, s.es)
        [] s.kind = "expression" -> whole(s.es) \o <<";">>
        [] s.kind = "return" -> <<"return">> \o whole(s.es) \o <<";">>
        [] s.kind \in {"break", "continue"} -> <<s.kind, ";">>
        [] s.kind = "goto" -> <<"goto", s.name, ";">>
        [] s.kind = "label" -> <<s.name, ":">> \o first
        [] s.kind = "case" -> <<"case">> \o whole(s.es) \o <<":">> \o first
        [] s.kind = "default" -> <<"default", ":">> \o first
        [] s.kind \in {"while", "switch"} -> <<s.kind>> \o asked \o first
        [] s.kind = "do" -> <<"do">> \o first \o <<"while">> \o asked \o <<";">>
        [] s.kind = "for" -> <<"for", "(">> \o first \o whole(s.es[1]) \o <<";">> \o whole(s.es[2]) \o <<")">>
                             \o StatementWritten(s.body[2])
        [] s.kind = "if" -> <<"if">> \o asked \o first
                            \o (IF Len(s.body) = 2 THEN <<"else">> \o StatementWritten(s.body[2]) ELSE <<>>)

DeclarationWritten(d) ==
  LET members == Structs[d.name].members
  IN  CASE d.kind = "variable" -> Initialised(d.type, d.name, d.init)
        [] d.kind = "prototype" -> Initialised(d.type, d.name, <<>>)
        [] d.kind = "function" -> Declared(d.type, <<d.name>>) \o <<"{">> \o AllWritten(d.body) \o <<"}">>
        [] d.kind = "constant" -> <<"enum", "{", d.name, "=">> \o Written(d.init[1], 2) \o <<"}", ";">>
        [] d.kind = "struct" ->
             BaseWritten(d.type[1]) \o <<"{">>
             \o FlattenSeq([k \in DOMAIN members |-> Initialised(members[k].type, members[k].name, <<>>)])
             \o <<"}", ";">>

(* With blanks between the words.                                            *)
RECURSIVE Spaced(_)
Spaced(words) ==
  LET half == Len(words) \div 2
  IN  CASE words = <<>> -> ""
        [] Len(words) = 1 -> words[1]
        [] OTHER -> Spaced(SubSeq(words, 1, half)) \o " " \o Spaced(SubSeq(words, half + 1, Len(words)))
TextOf(program) == Spaced(FlattenSeq([i \in DOMAIN program |-> DeclarationWritten(program[i])]))
=============================================================================
