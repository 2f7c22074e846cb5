------------------------------ MODULE DeclParser ------------------------------
(***************************************************************************)
(* ParseDecl of smlrc.c: variables, types and the names of functions, in a  *)
(* file or in a block, with the bodies of structures, unions and            *)
(* enumerations that ParseBase reads, and CheckRedecl.  The body of a       *)
(* function is left to Definitions.                                         *)
(*                                                                         *)
(* What the compiler stops at is remembered (refused) where the tokens can  *)
(* still be followed; a text that cannot is not an input.  Left out are     *)
(* structures without a tag, local arrays and structures with an initial    *)
(* value, which this back end has no code for, and names that an extern in  *)
(* a block finds behind a local one.                                        *)
(***************************************************************************)
EXTENDS Initialisers

Generates(st, stack) ==
  Then(GenExpr(stack, [code |-> st.code, label |-> st.label]),
       LAMBDA done : [st EXCEPT !.code = done.code, !.label = done.label])

OpensScope(st) == [st EXCEPT !.level = @ + 1, !.here = {}]
ScopeEnds(st, outside) ==
  [st EXCEPT !.names = outside.names, !.here = outside.here, !.tags = outside.tags,
             !.level = outside.level, !.ofs = outside.ofs]
-----------------------------------------------------------------------------
(* compatCheck2: a later declaration of the same may leave open how long an   *)
(* array is, or say it; a first one with () agrees with any parameters.      *)
RECURSIVE compatCheck2(_, _)
compatCheck2(type, old) ==
  LET params(k) == type[k].value
      before(k) == old[k].value
      none(k) == params(k) = <<>> /\ before(k)[1].type = Type("void")
      alike(k) == /\ Len(params(k)) = Len(before(k))
                  /\ \A p \in DOMAIN params(k) : compatCheck2(params(k)[p].type, before(k)[p].type)
  IN  /\ Len(type) = Len(old)
      /\ \A k \in DOMAIN type :
           /\ type[k].tok = old[k].tok
           /\ CASE type[k].tok = "[" -> 0 \in {type[k].value, old[k].value} \/ type[k].value = old[k].value
                [] type[k].tok = "(" -> before(k) = <<>> \/ none(k) \/ alike(k)
                [] OTHER             -> type[k].value = old[k].value
Composite(type, old) ==
  [k \in DOMAIN type |-> IF type[k].tok = "[" /\ type[k].value = 0 THEN old[k] ELSE type[k]]

(* CheckRedecl: one name has one meaning in a scope; only what has linkage    *)
(* may be declared again, there or further out, as the same.                 *)
IsExternal(name, symbol) == symbol.tok = "ident" /\ symbol.value = name
CheckRedecl(name, symbol, st) ==
  LET old == st.names[name]
      again == name \in DOMAIN st.names /\ IsExternal(name, symbol) /\ IsExternal(name, old)
  IN  CASE again                        -> compatCheck2(symbol.type, old.type)
        [] ~again /\ name \in st.here -> FALSE
        [] OTHER                        -> TRUE
Declares(name, symbol, st) ==
  LET old == st.names[name]
      right == CheckRedecl(name, symbol, st)
      again == name \in DOMAIN st.names /\ IsExternal(name, symbol) /\ IsExternal(name, old)
      known == IF right /\ again THEN [symbol EXCEPT !.type = Composite(@, old.type)] ELSE symbol
  IN  [Refuses(st, ~right) EXCEPT !.names = (name :> known) @@ @, !.here = @ \cup {name}]
-----------------------------------------------------------------------------
(* No function returns a function or an array, no array is of functions or    *)
(* of nothing, every length is constant and positive.                        *)
WrongType(type) ==
  \E k \in 1 .. Len(type) - 1 :
    \/ type[k].tok = "(" /\ type[k + 1].tok \in {"(", "["}
    \/ type[k].tok = "[" /\ type[k + 1].tok \in {"(", "void"}
OpenArray(type) == type[1].tok = "[" /\ type[1].value = 0
(* What has no size, because its members, or those of its elements, are not    *)
(* known.                                                                    *)
Incomplete(type, st) ==
  \E n \in DOMAIN type : /\ \A k \in 1 .. n - 1 : type[k].tok = "["
                         /\ type[n].tok = "struct" /\ type[n].value \notin DOMAIN st.structs
WrongLength(form, st) ==
  LET e == exprval(form, Len(form), st)
  IN  ~e.const \/ (IF isUint(e.type) THEN truncUint(e.value) ELSE truncInt(e.value)) < 1
WrongLengths(type, st) == \E k \in DOMAIN type : type[k].tok = "[form" /\ WrongLength(type[k].value, st)

PragmaPackValue(st) == Last(SelectSeq(st.packed, LAMBDA pack : pack.from <= st.at)).value

(* The constants of an enumeration: each is one more than that before it.    *)
RECURSIVE Enumerators(_, _)
Enumerators(last, st) ==
  LET name == st.tokens[st.at].value
      given == st.tokens[st.at + 1].tok = "="
      e == ParseExpr([st EXCEPT !.at = @ + 2], <<>>, TRUE)
      value == IF given THEN truncInt(e.value) ELSE last + 1
      wrong == IF given THEN ~e.const \/ (isUint(e.type) /\ truncUint(e.value) > 32767) ELSE last = 32767
      next == Refuses(IF given THEN After(e, st) ELSE GetToken(st), wrong)
      more(then) == Enumerators(value, IF Tok(then) = "," THEN GetToken(then) ELSE then)
  IN  IF Tok(st) = "}" THEN GetToken(st)
      ELSE Then(Declares(name, Symbol("num", value, IntType), next), more)

(* A tag says the same kind of thing as before; a body belongs to one tag.   *)
Tagged(kind, tag, body, st) ==
  LET known == tag \in DOMAIN st.tags
      wrong == (known /\ st.tags[tag] # kind) \/ (body /\ tag \in DOMAIN st.structs)
  IN  [Refuses(st, wrong) EXCEPT !.tags = (tag :> kind) @@ @]

AddMember(tag, name, type, st) ==
  LET members == st.structs[tag].members
      wrong == \/ WrongType(type) \/ Kind(type) \in {"(", "void"} \/ OpenArray(type)
               \/ Incomplete(type, [st EXCEPT !.structs = [other \in DOMAIN @ \ {tag} |-> @[other]]])
               \/ \E k \in DOMAIN members : members[k].name = name
      member == [name |-> name, type |-> type, pack |-> PragmaPackValue(st)]
  IN  [Refuses(st, wrong) EXCEPT !.structs[tag].members = Append(@, member)]

RECURSIVE BaseType(_), StructBody(_, _), Members(_, _, _)

(* ParseBase, with the bodies a declaration may have.                        *)
BaseType(st) ==
  LET kind == Tok(st)
      tagged == st.tokens[st.at + 1].tok = "ident"
      tag == IF tagged THEN st.tokens[st.at + 1].value ELSE Nameless
      behind == [st EXCEPT !.at = @ + (IF tagged THEN 2 ELSE 1)]
      body == Tok(behind) = "{"
      known == IF tagged THEN Tagged(kind, tag, body, behind) ELSE behind
      base == ParseBase(st, st.at)
  IN  CASE kind = "enum" ->
             [type |-> Type("enum"),
              st |-> IF body THEN Enumerators(-1, GetToken(known)) ELSE Refuses(known, tag \notin DOMAIN st.tags)]
        [] kind \in {"struct", "union"} /\ body ->
             [type |-> <<Entry("struct", tag)>>,
              st |-> StructBody(tag, [GetToken(known) EXCEPT
                       !.structs = @ @@ (tag :> [union |-> kind = "union", members |-> <<>>])])]
        [] kind \in {"struct", "union"} /\ ~body -> [type |-> <<Entry("struct", tag)>>, st |-> known]
        [] OTHER -> [type |-> base.type, st |-> [st EXCEPT !.at = base.next]]

StructBody(tag, st) ==
  IF Tok(st) = "}" \/ st.refused THEN GetToken(st)
  ELSE Then(Then(BaseType(st), LAMBDA base : Members(tag, base.type, base.st)),
            LAMBDA next : StructBody(tag, next))
Members(tag, base, st) ==
  LET derived == ParseDerived(st, st.at)
      type == derived.type \o base
      next == AddMember(tag, derived.name, Sized(type, st),
                        Refuses([st EXCEPT !.at = derived.next], WrongLengths(type, st)))
  IN  IF Tok(next) = "," THEN Members(tag, base, GetToken(next)) ELSE GetToken(next)
-----------------------------------------------------------------------------
(* A local variable, and its initial value, always stored as a word.         *)
DeclareLocal(name, type, st) ==
  LET ofs == AllocLocal(st.ofs, GetDeclSize(type, FALSE))
      init == Tok(st) = "="
      declared == [Declares(name, Symbol("local", ofs, type), st) EXCEPT
                     !.ofs = ofs, !.min = IF ofs < @ THEN ofs ELSE @]
      value == GetToken(declared)
      braces == Tok(value) = "{"
      e == ParseExpr(IF braces THEN GetToken(value) ELSE value, <<Entry("ident", name)>>, TRUE)
      stored == [e.stack EXCEPT ![Len(e.stack)].value = SizeOfWord]
      done == Generates(After(e, declared), stored)
  IN  CASE ~init            -> declared
        [] init /\ braces  -> GetToken(done)
        [] init /\ ~braces -> done

(* A variable that is there from the start, under its name or, static in a    *)
(* block, under a numbered label.                                            *)
DeclareGlobal(name, type, label, st) ==
  LET declared == Declares(name, Symbol("ident", label, type), st)
      value == GetToken([declared EXCEPT !.data = Append(@, labelHere(label))])
      init == InitVar(type, value)
  IN  IF Tok(st) = "=" THEN [init.st EXCEPT !.names[name].type = init.type]
      ELSE [declared EXCEPT !.bss = @ \o <<labelHere(label)>> \o GenZeroData(GetDeclSize(type, FALSE))]

(* What no declaration of this type, at this level and with what follows may  *)
(* be.                                                                       *)
Unsized(storage, name, type, st) ==
  \/ name = Nameless \/ WrongType(type)
  \/ storage # "typedef" /\ (Kind(type) = "void" \/ Incomplete(type, st))
WrongDeclaration(storage, name, type, st) ==
  LET function == Kind(type) = "("
      then == Tok(st)
  IN  \/ Unsized(storage, name, type, st)
      \/ OpenArray(type) /\ storage \notin {"extern", "typedef"} /\ then # "="
      \/ then = "=" /\ (function \/ storage \in {"extern", "typedef"})
      \/ then = "{" /\ (~function \/ storage = "typedef" \/ st.level > 0)
      \/ function /\ storage = "static" /\ st.level > 0

Declare(storage, name, type, st) ==
  LET label == Literal(st.label)
  IN  CASE st.refused \/ WrongDeclaration(storage, name, type, st) -> Refuses(st, TRUE)
        [] storage = "typedef" -> Declares(name, Symbol("typedef", 0, type), st)
        [] Kind(type) = "(" \/ storage = "extern" -> Declares(name, Symbol("ident", name, type), st)
        [] storage = "none" /\ st.level > 0 -> DeclareLocal(name, type, st)
        [] storage = "static" /\ st.level > 0 -> DeclareGlobal(name, type, label, TakesLabels(st, 1))
        [] OTHER -> DeclareGlobal(name, type, name, st)

(* One declarator after the other: what ends them is passed, but for the body *)
(* of a function.                                                            *)
RECURSIVE Declarators(_, _, _)
Declarators(storage, base, st) ==
  LET derived == ParseDerived(st, st.at)
      type == derived.type \o base
      here == Refuses([st EXCEPT !.at = derived.next, !.declares = derived.name], WrongLengths(type, st))
      more(next) == CASE next.refused \/ Tok(next) = "{" -> next
                      [] Tok(next) = "," /\ ~next.refused -> Declarators(storage, base, GetToken(next))
                      [] OTHER -> GetToken(next)
  IN  IF storage = "none" /\ derived.name = Nameless /\ Tok(here) = ";" /\ Kind(type) \in {"struct", "enum"}
      THEN GetToken(here)
      ELSE Then(Declare(storage, derived.name, Sized(type, st), here), more)

ParseDecl(st) ==
  LET storage == IF Tok(st) \in {"extern", "static", "typedef"} THEN Tok(st) ELSE "none"
      base == BaseType(IF storage = "none" THEN st ELSE GetToken(st))
  IN  Then(base, LAMBDA known : Declarators(storage, known.type, known.st))
===============================================================================
