----------------------------- MODULE Initialisers -----------------------------
(***************************************************************************)
(* InitVar, InitScalar, InitArray and InitStruct of smlrc.c: the data of a  *)
(* variable with an initial value, from the tokens of that value.           *)
(*                                                                         *)
(* The state of the compiler st is                                          *)
(*   tokens, at, packed     the tokens, which one is next, and what         *)
(*                          #pragma pack says from which one on;            *)
(*   code, rodata, data, bss  what has been written to the sections;        *)
(*   label                  the next label (LabelCnt);                      *)
(*   names, here, tags, structs  what names mean, those declared in this    *)
(*                          scope, the kinds of the tags, and the structures*)
(*                          whose members have been read;                   *)
(*   level, ofs, min        the depth of braces (ParseLevel), the offset of *)
(*                          the last local and the lowest there was;        *)
(*   main, returns, epilog  of the function: whether it is main, what it    *)
(*                          returns, and the label of its end;              *)
(*   gotos, reached, cases  the labels that are gone to, those that are     *)
(*                          there, and the values and labels of case;       *)
(*   refused                whether an error has been found.                *)
(***************************************************************************)
EXTENDS ExprTypes, ExprCode

Tok(st) == st.tokens[st.at].tok
GetToken(st) == [st EXCEPT !.at = @ + 1]
Refuses(st, wrong) == [st EXCEPT !.refused = @ \/ wrong]

Emits(st, lines) == [st EXCEPT !.code = @ \o lines]
Data(st, lines) == [st EXCEPT !.data = @ \o lines]
TakesLabels(st, n) == [st EXCEPT !.label = @ + n]

GenIntData(size, value) == <<<<IF size = 1 THEN "byte" ELSE "word", value>>>>
GenAddrData(label) == <<<<"word label", label>>>>
GenZeroData(size) == IF size > 0 THEN <<<<"skip", size>>>> ELSE <<>>
(* GetString ends every literal with GenDumpChar(-1), which writes a NUL that  *)
(* nobody counts.                                                            *)
GenDumpChar(ch) == <<"byte", IF ch > 0 THEN ch ELSE 0>>
GetString(chars) == [k \in 1 .. Len(chars) + 1 |-> GenDumpChar(Append(chars, -1)[k])]

GetStrings(pieces) == FlattenSeq([k \in DOMAIN pieces |-> GetString(pieces[k])])

(* An expression leaves behind it the labels it took and its string literals. *)
After(e, st) ==
  [st EXCEPT !.label = e.label, !.at = e.next, !.refused = @ \/ e.wrong,
             !.rodata = @ \o FlattenSeq([k \in DOMAIN e.literals |->
                                           <<labelHere(e.literals[k].name)>>
                                           \o GetStrings(e.literals[k].pieces) \o GenZeroData(1)])]

(* A value, or an address, is all that is left of a constant expression.  An   *)
(* address and an offset, which the assembler cannot read, is not an input.   *)
InitScalar(type, st) ==
  LET braces == Tok(st) = "{"
      e == ParseExpr(IF braces THEN GetToken(st) ELSE st, <<>>, TRUE)
      value == Last(e.stack)
      word == GetDeclSize(type, FALSE) = SizeOfWord
      right == scalarTypeCheck(e.type) /\ (value.tok \in Numbers \/ (value.tok = "ident" /\ word))
      done == Data(Refuses(After(e, st), ~right),
                   IF value.tok = "ident" THEN GenAddrData(value.value)
                   ELSE GenIntData(GetDeclSize(type, FALSE), value.value))
  IN  IF braces THEN GetToken(done) ELSE done

InitString(type, st) ==
  LET literals == Literals(st, st.at)
      count == Len(FlattenSeq(literals.pieces))
      whole == type[1].value = 0
      zeros == IF whole THEN 1 ELSE type[1].value - count
  IN  [st |-> Data([st EXCEPT !.at = literals.next], GetStrings(literals.pieces) \o GenZeroData(zeros)),
       count |-> IF whole THEN count + 1 ELSE type[1].value]

(* Without braces of its own an array or structure takes as many values as it *)
(* needs of those around it.  Gaps and what has no value are zero.  An array  *)
(* of unknown length is as long as its values.                               *)
RECURSIVE InitPiece(_, _), InitElements(_, _, _), InitArray(_, _), InitMembers(_, _, _, _), InitStruct(_, _)
InitPiece(type, st) ==
  CASE Kind(type) = "["      -> InitArray(type, st).st
    [] Kind(type) = "struct" -> InitStruct(type[1].value, st)
    [] OTHER                 -> InitScalar(type, st)

InitElements(type, braces, so_far) ==
  LET count == so_far.count + 1
      comma(st) == Tok(st) = "," /\ (braces \/ count # type[1].value)
      more(st) == InitElements(type, braces, [st |-> IF comma(st) THEN GetToken(st) ELSE st, count |-> count])
  IN  IF Tok(so_far.st) = "}" \/ (so_far.count > 0 /\ so_far.count = type[1].value) THEN so_far
      ELSE Then(InitPiece(Tail(type), so_far.st), more)

InitArray(type, st) ==
  LET braces == Tok(st) = "{"
      first == IF braces THEN GetToken(st) ELSE st
      string == Kind(Tail(type)) \in Chars /\ Tok(first) = "str"
      done == IF string THEN InitString(type, first)
              ELSE InitElements(type, braces, [st |-> first, count |-> 0])
      rest == (type[1].value - done.count) * GetDeclSize(Tail(type), FALSE)
  IN  [done EXCEPT !.st = Data(IF braces THEN GetToken(@) ELSE @, GenZeroData(rest))]

InitMembers(tag, members, braces, so_far) ==
  LET place == Layout(tag).at[Head(members).name]
      comma(st) == Tok(st) = "," /\ (braces \/ Len(members) > 1)
      more(st) == InitMembers(tag, Tail(members), braces,
                              [st |-> IF comma(st) THEN GetToken(st) ELSE st,
                               ofs |-> place.ofs + GetDeclSize(place.type, FALSE)])
  IN  IF members = <<>> \/ Tok(so_far.st) = "}" THEN so_far
      ELSE Then(InitPiece(place.type, Data(so_far.st, GenZeroData(place.ofs - so_far.ofs))), more)

InitStruct(tag, st) ==
  LET braces == Tok(st) = "{"
      members == IF Structs[tag].union THEN SubSeq(Structs[tag].members, 1, 1) ELSE Structs[tag].members
      done == InitMembers(tag, members, braces, [st |-> IF braces THEN GetToken(st) ELSE st, ofs |-> 0])
  IN  Data(IF braces THEN GetToken(done.st) ELSE done.st, GenZeroData(Layout(tag).size - done.ofs))

(* The type of an array is complete with its initial value.                   *)
InitVar(type, st) ==
  LET array == InitArray(type, st)
  IN  IF Kind(type) # "[" THEN [st |-> InitPiece(type, st), type |-> type]
      ELSE [st |-> array.st,
            type |-> IF type[1].value = 0 THEN [type EXCEPT ![1].value = array.count] ELSE type]
===============================================================================
