------------------------------ MODULE TypeErrors ------------------------------
(***************************************************************************)
(* What exprval of smlrc.c checks of the operands of an expression: their   *)
(* types, and that something is a place.  The operators say what is right;  *)
(* the compiler stops at what is not.                                       *)
(*                                                                         *)
(* An operand is [code, type, const, value], as exprval returns it; env is   *)
(* the state of the compiler.                                               *)
(***************************************************************************)
EXTENDS ExprParser

truncUint(n) == n % 65536
truncInt(n) == IF n % 65536 < 32768 THEN n % 65536 ELSE (n % 65536) - 65536

Numbers == {"num", "unum"}
Comparing == {"<", ">", "<=", ">=", "==", "!="}
IntType == Type("int")
UnsignedType == Type("unsigned")

decayArray(type) == IF Kind(type) = "[" THEN PointerTo(Tail(type)) ELSE type
promoteType(type, other) ==
  LET promoted == IF Kind(type) \in Chars THEN IntType ELSE type
  IN  IF Kind(promoted) = "int" /\ isUint(other) THEN UnsignedType ELSE promoted
-----------------------------------------------------------------------------
lvalueCheck(e) == Kind(e.type) \notin {"[", "("} /\ Last(e.code).tok = "*u"
nonVoidTypeCheck(type) == Kind(type) # "void"
scalarTypeCheck(type) == nonVoidTypeCheck(type) /\ Kind(type) # "struct"

IsComplete(type, env) == Kind(type) = "struct" => type[1].value \in DOMAIN env.structs
SameStructs(type, other) ==
  "struct" \in {Kind(type), Kind(other)} =>
    Kind(type) = Kind(other) /\ type[1].value = other[1].value

(* What may be counted with: a number, or a pointer to what has a size.      *)
Countable(type, env) ==
  LET pointee == derefAnyPtr(decayArray(type))
  IN  isAnyPtr(type) => /\ Kind(pointee) # "(" /\ IsComplete(pointee, env)
                        /\ GetDeclSize(pointee, FALSE) > 0

(* Two types to the last word, but for the names of parameters.              *)
RECURSIVE SameType(_, _)
SameType(type, other) ==
  LET alike(params, others) ==
        Len(params) = Len(others) /\ \A k \in DOMAIN params : SameType(params[k].type, others[k].type)
  IN  /\ Len(type) = Len(other)
      /\ \A k \in DOMAIN type :
           /\ type[k].tok = other[k].tok
           /\ IF type[k].tok = "(" THEN alike(type[k].value, other[k].value)
              ELSE type[k].value = other[k].value

(* compatCheck: the sides of ?: are numbers, both nothing, or pointers to the *)
(* same; 0 and void* go with every pointer.  CommonType is what it makes of   *)
(* them; a function is a pointer to it.                                      *)
AsPointer(type) == IF Kind(type) = "(" THEN PointerTo(type) ELSE type
IsNull(e, type) ==
  /\ \/ isNumeric(type) /\ e.const
     \/ Kind(type) = "*" /\ Kind(Tail(type)) = "void" /\ Last(e.code).tok \in Numbers
  /\ truncInt(Last(e.code).value) = 0
ToVoid(type) == Kind(type) = "*" /\ Kind(Tail(type)) = "void"
compatCheck(then, t, else, e) ==
  \/ isNumeric(t) /\ isNumeric(e)
  \/ Kind(t) = "void" /\ Kind(e) = "void"
  \/ isAnyPtr(t) /\ IsNull(else, e)
  \/ isAnyPtr(e) /\ IsNull(then, t)
  \/ isAnyPtr(t) /\ isAnyPtr(e)
     /\ (ToVoid(t) \/ ToVoid(e) \/ SameType(AsPointer(t), AsPointer(e)))
CommonType(then, t, else, e) ==
  CASE isAnyPtr(t) /\ IsNull(else, e) -> AsPointer(t)
    [] isAnyPtr(e) /\ IsNull(then, t) /\ ~(isAnyPtr(t) /\ IsNull(else, e)) -> AsPointer(e)
    [] OTHER -> IF isAnyPtr(t) /\ ~ToVoid(t) /\ ToVoid(e) THEN e ELSE AsPointer(t)

(* GetFxnInfo: a function or a pointer to one; what it takes, with () or ...  *)
(* as much as there is.                                                      *)
Callee(type) == IF Kind(type) = "*" THEN Tail(type) ELSE type
IsFunction(type) == Kind(type) \in {"(", "*"} /\ Kind(Callee(type)) = "("
Formals(type) ==
  SelectSeq(Callee(type)[1].value, LAMBDA param : Kind(param.type) \notin {"void", "..."})
TakesMore(type) ==
  LET params == Callee(type)[1].value
  IN  params = <<>> \/ \E k \in DOMAIN params : Kind(params[k].type) = "..."
ArgumentFits(type, c, arg) ==
  /\ c <= Len(Formals(type)) \/ TakesMore(type)
  /\ nonVoidTypeCheck(arg.type)
  /\ c <= Len(Formals(type)) => SameStructs(Formals(type)[c].type, arg.type)
-----------------------------------------------------------------------------
CastFits(type, e) ==
  /\ Kind(type) \notin {"(", "[", "[form", "struct"}
  /\ scalarTypeCheck(e.type) \/ Kind(type) = "void"
AddressFits(e) == Kind(e.type) \in {"[", "("} \/ Last(e.code).tok = "*u"
DereferenceFits(type, env) ==
  Kind(type) \in {"*", "["} /\ nonVoidTypeCheck(Tail(type)) /\ IsComplete(Tail(type), env)
IncrementFits(e, env) == lvalueCheck(e) /\ Countable(e.type, env) /\ scalarTypeCheck(e.type)
MemberFits(name, type, env) ==
  /\ isAnyPtr(type) /\ Kind(derefAnyPtr(type)) = "struct" /\ IsComplete(derefAnyPtr(type), env)
  /\ name \in DOMAIN Layout(derefAnyPtr(type)[1].value).at

AdditiveFits(tok, l, r, env) ==
  LET lp == isAnyPtr(l.type)
      rp == isAnyPtr(r.type)
  IN  /\ Countable(l.type, env) /\ Countable(r.type, env)
      /\ scalarTypeCheck(l.type) /\ scalarTypeCheck(r.type)
      /\ rp => IF lp THEN /\ tok = "-"
                          /\ GetDeclSize(derefAnyPtr(l.type), FALSE) = GetDeclSize(derefAnyPtr(r.type), FALSE)
               ELSE tok = "+"

AssignmentFits(l, r) ==
  lvalueCheck(l) /\ nonVoidTypeCheck(l.type) /\ nonVoidTypeCheck(r.type) /\ SameStructs(l.type, r.type)
AssignmentWithFits(tok, l, r, env) ==
  /\ lvalueCheck(l) /\ Countable(l.type, env) /\ scalarTypeCheck(l.type) /\ scalarTypeCheck(r.type)
  /\ ~isAnyPtr(r.type)
  /\ isAnyPtr(l.type) => tok \in {"+=", "-="}

(* A pointer is compared with a pointer, or to be equal with the constant 0.  *)
ComparisonFits(tok, l, r) ==
  LET lp == isAnyPtr(l.type)
      rp == isAnyPtr(r.type)
      zero(e) == e.const /\ truncInt(e.value) = 0
      data(type) == Kind(derefAnyPtr(type)) # "("
  IN  /\ scalarTypeCheck(l.type) /\ scalarTypeCheck(r.type)
      /\ IF tok \in {"==", "!="} THEN (lp /\ ~rp => zero(r)) /\ (rp /\ ~lp => zero(l))
         ELSE (lp = rp) /\ (lp => data(l.type) /\ data(r.type))

UnaryFits(tok, value, e, env) ==
  CASE tok = "cast"   -> CastFits(value, e)
    [] tok = "sizeof" -> IsComplete(e.type, env) /\ GetDeclSize(e.type, FALSE) > 0
    [] tok = "&u"     -> AddressFits(e)
    [] tok = "*u"     -> DereferenceFits(e.type, env)
    [] tok = "->"     -> MemberFits(value, e.type, env)
    [] tok = ")"      -> IsFunction(e.type)
    [] tok \in {"++", "--", "++p", "--p"} -> IncrementFits(e, env)
    [] tok \in {"~", "+u", "-u"} -> isNumeric(e.type)
BinaryFits(tok, l, r, env) ==
  CASE tok \in {"+", "-"} -> AdditiveFits(tok, l, r, env)
    [] tok = "="          -> AssignmentFits(l, r)
    [] tok \in {"*", "/", "%", "<<", ">>", "&", "^", "|"} -> isNumeric(l.type) /\ isNumeric(r.type)
    [] tok \in Comparing  -> ComparisonFits(tok, l, r)
    [] tok \in {"&&", "||", "comma"} -> TRUE
    [] OTHER              -> AssignmentWithFits(tok, l, r, env)
===============================================================================
