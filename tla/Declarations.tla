----------------------------- MODULE Declarations -----------------------------
(***************************************************************************)
(* Types and places of the C compiler smlrc, as ParseDecl and its helpers   *)
(* leave them on the syntax stack (smlrc.c, built for words of two bytes).  *)
(*                                                                         *)
(* A type is the sequence of entries the syntax stack holds for it, from    *)
(* the outside in: "*", "[" with its length, "(" with its parameters, and   *)
(* last "int", "unsigned", "char", "schar", "uchar", "void", "..." or        *)
(* "struct" with its tag.  exprval also writes the address of something as  *)
(* minus the index of its type: here that is a "*" in front.                *)
(*                                                                         *)
(* What has a tag is known by it: no two bodies have the same.              *)
(***************************************************************************)
EXTENDS Integers, Sequences, SequencesExt, TLC

CONSTANT Structs       \* by tag: [union, members], a member being [name, type, pack]

(* What Next makes of x, once x has been worked out: TLC computes what a    *)
(* LET defines each time it is mentioned, which doubles the work with every *)
(* level of recursion.                                                      *)
Then(x, Next(_)) == CHOOSE result \in {Next(value) : value \in {x}} : TRUE

SizeOfWord == 2
Entry(tok, value) == [tok |-> tok, value |-> value]
Plain(tok) == Entry(tok, 0)
Type(tok) == <<Plain(tok)>>
Typed(name, type) == [name |-> name, type |-> type]
PointerTo(type) == <<Plain("*")>> \o type
Kind(type) == type[1].tok

isAnyPtr(type) == Kind(type) \in {"*", "[", "("}
derefAnyPtr(type) == IF Kind(type) = "(" THEN type ELSE Tail(type)
isUint(type) == Kind(type) = "unsigned"
Chars == {"char", "schar", "uchar"}
isNumeric(type) == Kind(type) \in Chars \cup {"int", "unsigned"}

RoundUp(size, alignment) == ((size + alignment - 1) \div alignment) * alignment
Magnitude(n) == IF n < 0 THEN 0 - n ELSE n

RECURSIVE GetDeclSize(_, _), GetDeclAlignment(_), Layout(_)

(* In bytes; of what is read or written through a pointer (SizeForDeref) the *)
(* signed char is -1 and a structure, which is copied by a call, is 0.       *)
GetDeclSize(type, SizeForDeref) ==
  CASE Kind(type) \in {"char", "schar"} -> IF SizeForDeref THEN -1 ELSE 1
    [] Kind(type) = "uchar" -> 1
    [] Kind(type) \in {"int", "unsigned", "*", "("} -> SizeOfWord
    [] Kind(type) = "[" -> type[1].value * Magnitude(GetDeclSize(Tail(type), SizeForDeref))
    [] Kind(type) = "struct" -> IF SizeForDeref THEN 0 ELSE Layout(type[1].value).size
    [] Kind(type) = "void" -> 0

GetDeclAlignment(type) ==
  CASE Kind(type) \in Chars \cup {"void"} -> 1
    [] Kind(type) \in {"int", "unsigned", "*", "("} -> SizeOfWord
    [] Kind(type) = "[" -> GetDeclAlignment(Tail(type))
    [] Kind(type) = "struct" -> Layout(type[1].value).alignment

(* The members of a structure one after the other, those of a union all at 0; *)
(* #pragma pack limits how they are aligned.                                 *)
Layout(name) ==
  LET union == Structs[name].union
      place(so_far, member) ==
        LET alignment == IF GetDeclAlignment(member.type) > member.pack THEN member.pack
                         ELSE GetDeclAlignment(member.type)
            size == GetDeclSize(member.type, FALSE)
            ofs == IF union THEN 0 ELSE RoundUp(so_far.size, alignment)
            end == ofs + size
        IN  [size |-> IF union /\ so_far.size > size THEN so_far.size ELSE end,
             alignment |-> IF alignment > so_far.alignment THEN alignment ELSE so_far.alignment,
             at |-> (member.name :> [ofs |-> ofs, type |-> member.type]) @@ so_far.at]
      all == FoldLeft(place, [size |-> 0, alignment |-> 1, at |-> <<>>], Structs[name].members)
  IN  [all EXCEPT !.size = RoundUp(@, all.alignment)]
-----------------------------------------------------------------------------
(* What a name stands for: a local ("local", its offset), something global   *)
(* ("ident", its label), an enumeration constant ("num", its value) or a     *)
(* type ("typedef").                                                         *)
Symbol(tok, value, type) == [tok |-> tok, value |-> value, type |-> type]

(* AllocLocal: locals grow down from M in whole words.                       *)
AllocLocal(ofs, size) == ((ofs - size) \div SizeOfWord) * SizeOfWord

(* AddFxnParamSymbols: parameters lie above the return address and the M of  *)
(* the caller, each in whole words.  void and ... are none.                  *)
ParamSymbols(params) ==
  LET named == SelectSeq(params, LAMBDA param : Kind(param.type) \notin {"void", "..."})
      add(so_far, param) ==
        [ofs |-> so_far.ofs + RoundUp(GetDeclSize(param.type, FALSE), SizeOfWord),
         names |-> (param.name :> Symbol("local", so_far.ofs, param.type)) @@ so_far.names]
  IN  FoldLeft(add, [ofs |-> 2 * SizeOfWord, names |-> <<>>], named).names
=============================================================================
