----------------------------- MODULE Definitions -----------------------------
(***************************************************************************)
(* A whole file, from its text: what ParseDecl of smlrc.c does with the     *)
(* body of a function, ParseBlock outside of functions, and the sections    *)
(* that are written.                                                        *)
(***************************************************************************)
EXTENDS Statements, Lexer

(* The parameters are in a scope with the body.  The prolog has room for as   *)
(* many steps of SP as the locals, of which there are more and more while the *)
(* body is compiled, need in the end.  main returns 0 after its last statement.*)
DefineFunction(st) ==
  LET type == st.names[st.declares].type
      params == ParamSymbols(type[1].value)
      named == {k \in DOMAIN type[1].value : Kind(type[1].value[k].type) \notin {"void", "..."}}
      wrong == Nameless \in DOMAIN params \/ Cardinality(DOMAIN params) < Cardinality(named)
      begun == [OpensScope(GetToken(TakesLabels(Refuses(st, wrong), 2))) EXCEPT
                  !.code = <<>>, !.epilog = st.label, !.names = params @@ @, !.here = DOMAIN params,
                  !.ofs = 0, !.min = 0, !.gotos = <<>>, !.reached = {}, !.returns = Tail(type),
                  !.main = st.declares = "main"]
      ends(body) ==
        LET done == IF body.main THEN Generates(body, <<Entry("num", 0), Plain("return")>>) ELSE body
        IN  [GetToken(ScopeEnds(Refuses(done, ~(DOMAIN body.gotos \subseteq body.reached)), st))
             EXCEPT !.code = st.code \o <<labelHere(st.declares)>> \o Prolog(done.min) \o @
                             \o GenNumLabel(done.epilog) \o Epilog(done.min)]
  IN  GoesOn(GoesOn(begun, LAMBDA now : ParseBlock([break |-> 0, continue |-> 0, cases |-> 0], now)), ends)

FileDeclaration(st) ==
  IF ~TokenStartsDeclaration(st, st.at, FALSE) THEN Refuses(st, TRUE)
  ELSE GoesOn(ParseDecl(st), LAMBDA next : IF Tok(next) = "{" THEN DefineFunction(next) ELSE next)

(* As many declarations as there are, up to 2 to the power of n.             *)
RECURSIVE ParseFile(_, _)
ParseFile(st, n) ==
  IF st.refused \/ Tok(st) = "eof" THEN st
  ELSE IF n = 0 THEN FileDeclaration(st)
  ELSE Then(ParseFile(st, n - 1), LAMBDA half : ParseFile(half, n - 1))
MostDeclarations == 8

Begins(read) ==
  [tokens |-> Append(read.tokens, Plain("eof")), at |-> 1, packed |-> read.packed, refused |-> read.wrong,
   code |-> <<>>, rodata |-> <<>>, data |-> <<>>, bss |-> <<>>, label |-> 1,
   names |-> <<>>, here |-> {}, tags |-> <<>>, structs |-> <<>>, declares |-> Nameless,
   level |-> 0, ofs |-> 0, min |-> 0, main |-> FALSE, returns |-> Type("void"), epilog |-> 0,
   gotos |-> <<>>, reached |-> {}, cases |-> <<>>]
Compiled(text) ==
  Then(Lexed("main.c", text), LAMBDA read : Then(Begins(read), LAMBDA st : ParseFile(st, MostDeclarations)))

Sections(st) == st.code \o st.rodata \o st.data \o st.bss
===============================================================================
