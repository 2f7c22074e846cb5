-------------------------------- MODULE Lexer --------------------------------
(***************************************************************************)
(* The lexical analyser of smlrc and the preprocessor in it (SkipSpace to   *)
(* GetToken of smlrc.c): from the text of a file to its tokens.              *)
(*                                                                         *)
(* The code hands out one token at a time, from a queue of characters that  *)
(* a macro's expansion is put in front of; here all tokens are made at      *)
(* once.  The state is                                                      *)
(*   text, at, line, name   what is being read, where, and of which file;   *)
(*   outer                  the files that include it, the innermost last;  *)
(*   macros, prep, reads    what names expand into, the #ifs that are open, *)
(*                          and whether tokens count here                   *)
(*                          (PrepDontSkipTokens);                           *)
(*   pack, packs, packed    PragmaPackValue, what #pragma pack has pushed,  *)
(*                          and from which token on which value holds;      *)
(*   tokens, done, wrong    the tokens, the end, and an error.              *)
(* The limits of the code's tables are left out, and wide characters.       *)
(***************************************************************************)
EXTENDS Declarations

CONSTANTS
  Files,                           \* the text of every file, by its path
  SearchPaths, SysSearchPaths      \* where #include looks, sequences of paths

MaxIncludes == 8
PrepStackSize == 8
PackStackSize == 16

CharsOf(text) == {SubSeq(text, i, i) : i \in 1 .. Len(text)}
Position(c, text) == CHOOSE i \in 1 .. Len(text) : SubSeq(text, i, i) = c
None == ""                         \* what is read behind the end
Blanks == {" ", "\t", "\f"}
NewLines == {"\n", "\r"}
LineEnds == NewLines \cup {None}
Letters == CharsOf("abcdefghijklmnopqrstuvwxyzABCDEFGHIJKLMNOPQRSTUVWXYZ_")
Octal == CharsOf("01234567")
Decimal == CharsOf("0123456789")
HexDigits == CharsOf("0123456789abcdefABCDEF")
DigitValue == [c \in HexDigits |-> LET i == Position(c, "0123456789abcdefABCDEF") - 1
                                   IN  IF i < 16 THEN i ELSE i - 6]
FromBlank == " !\"#$%&'()*+,-./0123456789:;<=>?@ABCDEFGHIJKLMNOPQRSTUVWXYZ[\\]^_"
FromA == "abcdefghijklmnopqrstuvwxyz{|}~"
CharCode == [c \in CharsOf(FromBlank) |-> Position(c, FromBlank) + 31]
            @@ [c \in CharsOf(FromA) |-> Position(c, FromA) + 96] @@ ("\t" :> 9)

rws == {"break", "case", "char", "continue", "default", "do", "else", "extern", "for", "if", "int",
        "return", "signed", "sizeof", "static", "switch", "unsigned", "void", "while", "asm", "auto",
        "const", "double", "enum", "float", "goto", "inline", "long", "register", "restrict", "short",
        "struct", "typedef", "union", "volatile", "_Bool", "_Complex", "_Imaginary", "__interrupt"}
Ignored == {"const", "volatile", "auto", "register", "restrict"}
OfThree == {"<<=", ">>=", "..."}
OfTwo == {"++", "+=", "--", "-=", "->", "!=", "==", "<=", "<<", ">=", ">>", "&&", "&=", "||", "|=",
          "^=", "*=", "%=", "/="}
OfOne == CharsOf(",;:()[]{}~?+-!=<>&|^.*%/")
-----------------------------------------------------------------------------
Char(in, k) == IF in.at + k > Len(in.text) THEN None ELSE SubSeq(in.text, in.at + k, in.at + k)
Span(in, n) == IF in.at + n > Len(in.text) + 1 THEN None ELSE SubSeq(in.text, in.at, in.at + n - 1)
ShiftCharN(in, n) == [in EXCEPT !.at = @ + n]
AsWrong(in) == [in EXCEPT !.wrong = TRUE, !.done = TRUE]

(* The first place from i on whose character is not, or is, one of these.    *)
RECURSIVE Beyond(_, _, _), UpTo(_, _, _)
Beyond(text, i, chars) ==
  IF i <= Len(text) /\ SubSeq(text, i, i) \in chars THEN Beyond(text, i + 1, chars) ELSE i
UpTo(text, i, chars) ==
  IF i > Len(text) \/ SubSeq(text, i, i) \in chars THEN i ELSE UpTo(text, i + 1, chars)

NextLine(in) ==
  [in EXCEPT !.at = @ + (IF Span(in, 2) = "\r\n" THEN 2 ELSE 1), !.line = @ + 1]
RestOfLine(in) == [in EXCEPT !.at = UpTo(in.text, @, NewLines)]
SkipLine(in) == IF Char(RestOfLine(in), 0) = None THEN RestOfLine(in) ELSE NextLine(RestOfLine(in))

(* Blanks and comments, and unless they end a directive, ends of lines.      *)
RECURSIVE SkipSpace(_, _), SkipComment(_, _)
SkipSpace(in, newLines) ==
  CASE Char(in, 0) \in Blanks -> SkipSpace([in EXCEPT !.at = Beyond(in.text, @, Blanks)], newLines)
    [] Char(in, 0) \in NewLines -> IF newLines THEN SkipSpace(NextLine(in), newLines) ELSE in
    [] Span(in, 2) = "//" -> SkipSpace(RestOfLine(in), newLines)
    [] Span(in, 2) = "/*" -> SkipComment(ShiftCharN(in, 2), newLines)
    [] OTHER -> in
SkipComment(in, newLines) ==
  CASE Char(in, 0) = None -> AsWrong(in)
    [] Span(in, 2) = "*/" -> SkipSpace(ShiftCharN(in, 2), newLines)
    [] Char(in, 0) \in NewLines -> IF newLines THEN SkipComment(NextLine(in), newLines) ELSE AsWrong(in)
    [] OTHER -> SkipComment(ShiftCharN(in, 1), newLines)

GetIdent(in) ==
  LET end == Beyond(in.text, in.at, Letters \cup Decimal)
  IN  IF Char(in, 0) \in Letters
      THEN [name |-> SubSeq(in.text, in.at, end - 1), in |-> [in EXCEPT !.at = end]]
      ELSE [name |-> None, in |-> AsWrong(in)]
-----------------------------------------------------------------------------
NumberIn(in, first, end, base) ==
  FoldLeft(LAMBDA n, i : IF n > 65535 THEN n ELSE n * base + DigitValue[SubSeq(in.text, i, i)],
           0, [k \in 1 .. end - first |-> first + k - 1])

(* A decimal constant is signed unless it ends in u; the others are what they *)
(* fit.  Where tokens do not count nothing is too big.                       *)
TooBig(n, decimal, uSuffix) == n > 65535 \/ (n > 32767 /\ decimal /\ ~uSuffix)
NumberToken(n, uSuffix) == Entry(IF uSuffix \/ n > 32767 THEN "unum" ELSE "num", n)
GetNumber(in) ==
  LET hex == Char(in, 0) = "0" /\ Char(in, 1) \in {"x", "X"}
      octal == Char(in, 0) = "0" /\ ~hex
      first == IF hex THEN in.at + 2 ELSE in.at
      end == Beyond(in.text, first, IF hex THEN HexDigits ELSE IF octal THEN Octal ELSE Decimal)
      n == NumberIn(in, first, end, IF hex THEN 16 ELSE IF octal THEN 8 ELSE 10)
      behind == [in EXCEPT !.at = end]
      uSuffix == Char(behind, 0) \in {"u", "U"}
      next == IF uSuffix THEN ShiftCharN(behind, 1) ELSE behind
  IN  [in |-> IF (hex /\ end = first) \/ (in.reads /\ TooBig(n, ~hex /\ ~octal, uSuffix)) THEN AsWrong(next) ELSE next,
       token |-> IF in.reads THEN NumberToken(n, uSuffix) ELSE Entry("num", 0)]

(* One character of a constant or a string.  \x takes two digits and any      *)
(* zeros before them, an octal escape three.                                 *)
CharRead(in, value) == [in |-> in, value |-> value]
HexEscape(in) ==
  LET first == Beyond(in.text, in.at, {"0"})
      end == Beyond(in.text, first, HexDigits)
      next == [in EXCEPT !.at = end]
  IN  IF end = in.at \/ (in.reads /\ end - first > 2) THEN CharRead(AsWrong(next), 0)
      ELSE CharRead(next, NumberIn(in, first, end, 16) % 256)
OctalEscape(in) ==
  LET all == Beyond(in.text, in.at, Octal)
      end == IF all > in.at + 3 THEN in.at + 3 ELSE all
      n == NumberIn(in, in.at, end, 8)
      next == [in EXCEPT !.at = end]
  IN  IF n > 255 THEN CharRead(AsWrong(next), 0) ELSE CharRead(next, n)
Escapes == [c \in CharsOf("abfnrtv") |->
              CASE c = "a" -> 7 [] c = "b" -> 8 [] c = "f" -> 12 [] c = "n" -> 10 [] c = "r" -> 13
                [] c = "t" -> 9 [] c = "v" -> 11]
GetCharValue(in) ==
  LET escaped == Char(in, 0) = "\\"
      here == IF escaped THEN ShiftCharN(in, 1) ELSE in
      c == Char(here, 0)
  IN  CASE c \in LineEnds -> CharRead(AsWrong(here), 0)
        [] escaped /\ c = "x" -> HexEscape(ShiftCharN(here, 1))
        [] escaped /\ c \in Octal -> OctalEscape(here)
        [] escaped /\ c \in DOMAIN Escapes -> CharRead(ShiftCharN(here, 1), Escapes[c])
        [] OTHER -> CharRead(ShiftCharN(here, 1), CharCode[c])

RECURSIVE CharsUpTo(_, _, _)
CharsUpTo(in, terminator, chars) ==
  IF Char(in, 0) \in LineEnds \cup {terminator} THEN [in |-> in, chars |-> chars]
  ELSE LET next == GetCharValue(in)
       IN  CharsUpTo(next.in, terminator, Append(chars, next.value))
ReadString(in) ==
  LET got == CharsUpTo(ShiftCharN(in, 1), "\"", <<>>)
  IN  [in |-> IF Char(got.in, 0) # "\"" THEN AsWrong(got.in) ELSE SkipSpace(ShiftCharN(got.in, 1), TRUE),
       token |-> Entry("str", got.chars)]

(* One character is signed, two make a word.                                 *)
CharConstant(in) ==
  LET got == CharsUpTo(ShiftCharN(in, 1), "'", <<>>)
      v == got.chars
      n == CASE Len(v) = 1 -> IF v[1] >= 128 THEN v[1] - 256 ELSE v[1]
             [] Len(v) = 2 -> 256 * v[1] + v[2]
             [] OTHER -> 0
  IN  [in |-> IF Char(got.in, 0) # "'" \/ Len(v) \notin 1 .. SizeOfWord THEN AsWrong(got.in)
              ELSE ShiftCharN(got.in, 1),
       token |-> Entry("num", n)]

(* Of the signs that may be meant the longest one; "" if there is none.      *)
LongestSign(in) ==
  CASE Span(in, 3) \in OfThree -> Span(in, 3)
    [] Span(in, 3) \notin OfThree /\ Span(in, 2) \in OfTwo -> Span(in, 2)
    [] Span(in, 3) \notin OfThree /\ Span(in, 2) \notin OfTwo /\ Char(in, 0) \in OfOne -> Char(in, 0)
    [] OTHER -> None

Takes(in, token) == IF in.reads /\ ~in.wrong THEN [in EXCEPT !.tokens = Append(@, token)] ELSE in
GetTokenInner(in) ==
  LET c == Char(in, 0)
      got == CASE c \in Decimal -> GetNumber(in)
               [] c = "'" -> CharConstant(in)
               [] c = "\"" -> ReadString(in)
               [] OTHER -> [in |-> ShiftCharN(in, Len(LongestSign(in))), token |-> Plain(LongestSign(in))]
  IN  Takes(got.in, got.token)
-----------------------------------------------------------------------------
FindMacro(in, name) == name \in DOMAIN in.macros
DefineMacro(in, name, expansion) == [in EXCEPT !.macros = (name :> expansion) @@ @]
UndefineMacro(in, name) ==
  [in EXCEPT !.macros = [other \in DOMAIN @ \ {name} |-> @[other]]]

(* A name is replaced by what it expands into, which is read next.           *)
Expanded(in, text) ==
  [in EXCEPT !.text = text \o " " \o SubSeq(@, in.at, Len(@)), !.at = 1]
NameOrMacro(in) ==
  LET id == GetIdent(in)
  IN  CASE ~in.reads              -> id.in
        [] in.reads /\ id.name = "__FILE__" -> Expanded(id.in, "\"" \o in.name \o "\"")
        [] in.reads /\ id.name = "__LINE__" -> Expanded(id.in, ToString(in.line))
        [] in.reads /\ FindMacro(in, id.name) -> Expanded(id.in, in.macros[id.name])
        [] in.reads /\ id.name \in Ignored -> id.in
        [] OTHER -> Takes(id.in, IF id.name \in rws THEN Plain(id.name) ELSE Entry("ident", id.name))

FileName(in, terminator) ==
  LET end == UpTo(in.text, in.at + 1, NewLines \cup {terminator})
      behind == [in EXCEPT !.at = end]
  IN  [name |-> SubSeq(in.text, in.at + 1, end - 1),
       in |-> IF Char(behind, 0) = terminator THEN ShiftCharN(behind, 1) ELSE AsWrong(behind)]
EndsLine(in) ==
  LET end == SkipSpace(in, FALSE) IN IF Char(end, 0) \in LineEnds THEN end ELSE AsWrong(end)

(* #line, or # with a number: what the next line is.                         *)
LineDirective(in) ==
  LET number == GetNumber(in)
      next == SkipSpace(number.in, FALSE)
      c == Char(next, 0)
      file == FileName(next, IF c = "<" THEN ">" ELSE c)
  IN  IF Char(in, 0) \notin Decimal \/ number.token.tok # "num" THEN AsWrong(in)
      ELSE [RestOfLine(IF c \in {"\"", "<"} THEN [file.in EXCEPT !.name = file.name] ELSE next)
            EXCEPT !.line = number.token.value - 1]

RECURSIVE Expansion(_, _)
Expansion(in, text) ==
  LET next == ShiftCharN(in, 1)
      space == Char(next, 0) \in {" ", "\t"} \/ Span(next, 2) \in {"//", "/*"}
      so_far == text \o Char(in, 0) \o (IF space THEN " " ELSE "")
  IN  IF Char(in, 0) \in LineEnds
      THEN [in |-> in, text |-> IF text # "" /\ SubSeq(text, Len(text), Len(text)) = " "
                                THEN SubSeq(text, 1, Len(text) - 1) ELSE text]
      ELSE Expansion(IF space THEN SkipSpace(next, FALSE) ELSE next, so_far)

Define(in) ==
  LET id == GetIdent(SkipSpace(in, FALSE))
      meant == Expansion(SkipSpace(id.in, FALSE), "")
  IN  CASE ~in.reads -> RestOfLine(SkipSpace(id.in, FALSE))
        [] in.reads /\ (FindMacro(in, id.name) \/ Char(id.in, 0) = "(") -> AsWrong(id.in)
        [] OTHER -> DefineMacro(meant.in, id.name, meant.text)
Undefine(in) ==
  LET id == GetIdent(SkipSpace(in, FALSE))
  IN  EndsLine(IF in.reads THEN UndefineMacro(id.in, id.name) ELSE id.in)

(* Another file is read before the rest of this one; with quotes it is looked *)
(* for as it is named first.                                                 *)
IncludeFile(in, quot, name) ==
  LET within(paths) == [i \in DOMAIN paths |-> paths[i] \o "/" \o name]
      places == (IF quot = "\"" THEN <<name>> \o within(SearchPaths) ELSE <<>>) \o within(SysSearchPaths)
      found == SelectSeq(places, LAMBDA place : place \in DOMAIN Files)
      here == [text |-> in.text, at |-> in.at, line |-> in.line, name |-> in.name]
  IN  IF Len(in.outer) + 1 >= MaxIncludes \/ found = <<>> THEN AsWrong(in)
      ELSE [in EXCEPT !.outer = Append(@, here), !.text = Files[found[1]], !.at = 1, !.line = 1,
                      !.name = found[1]]
EndOfFiles(in) ==
  LET here == Last(in.outer)
  IN  [in EXCEPT !.outer = Front(@), !.text = here.text, !.at = here.at, !.line = here.line, !.name = here.name]
Include(in) ==
  LET start == SkipSpace(in, FALSE)
      quot == Char(start, 0)
      file == FileName(start, IF quot = "<" THEN ">" ELSE quot)
      end == EndsLine(file.in)
  IN  IF quot \notin {"\"", "<"} \/ end.wrong THEN AsWrong(start)
      ELSE IF in.reads THEN IncludeFile(end, quot, file.name) ELSE end

(* An #if that is open has found tokens that count or not around it, and      *)
(* counts them or not; so has its #else, by which no other #else may come.    *)
pushPrep(in, noSkip, else) ==
  IF Len(in.prep) >= PrepStackSize THEN AsWrong(in)
  ELSE [in EXCEPT !.prep = Append(@, [reads |-> in.reads, noSkip |-> noSkip, else |-> else]),
                  !.reads = @ /\ noSkip]
popPrep(in) ==
  IF in.prep = <<>> THEN AsWrong(in)
  ELSE [in EXCEPT !.prep = Front(@), !.reads = Last(in.prep).reads]
IfDef(in, defined) ==
  LET id == GetIdent(SkipSpace(in, FALSE))
  IN  pushPrep(EndsLine(id.in), FindMacro(in, id.name) = defined, FALSE)
Else(in) ==
  LET end == EndsLine(in)
  IN  IF in.prep = <<>> THEN AsWrong(in)
      ELSE IF Last(in.prep).else THEN AsWrong(in)
      ELSE pushPrep(popPrep(end), ~Last(in.prep).noSkip, TRUE)

(* #pragma pack: (n), (), (push), (push, n) or (pop).                        *)
PackDirective(in) ==
  LET id == GetIdent(SkipSpace(in, FALSE))
      open == SkipSpace(id.in, FALSE)
      start == SkipSpace(IF Char(open, 0) = "(" THEN ShiftCharN(open, 1) ELSE open, FALSE)
      what == GetIdent(start)
      after == IF Char(start, 0) = "p" THEN SkipSpace(what.in, FALSE) ELSE start
      comma == Char(start, 0) = "p" /\ what.name = "push" /\ Char(after, 0) = ","
      digits == SkipSpace(IF comma THEN ShiftCharN(after, 1) ELSE after, FALSE)
      numbered == Char(digits, 0) \in Decimal /\ (comma \/ Char(start, 0) # "p")
      number == GetNumber(digits)
      value == CASE numbered -> number.token.value
                 [] ~numbered /\ Char(start, 0) # "p" -> SizeOfWord
                 [] Char(start, 0) = "p" /\ what.name = "pop" /\ in.packs # <<>> -> Last(in.packs)
                 [] OTHER -> in.pack
      close == SkipSpace(IF numbered THEN number.in ELSE digits, FALSE)
      right == /\ id.name = "pack" /\ Char(close, 0) = ")" /\ value \in {1, SizeOfWord}
               /\ Char(start, 0) = "p" => \/ what.name = "push" /\ Len(in.packs) < PackStackSize
                                          \/ what.name = "pop" /\ in.packs # <<>>
               /\ comma => numbered
      end == EndsLine(ShiftCharN(close, 1))
  IN  IF ~in.reads THEN RestOfLine(in)
      ELSE IF ~right THEN AsWrong(in)
      ELSE [end EXCEPT !.pack = value,
                       !.packed = Append(@, [from |-> Len(in.tokens) + 1, value |-> value]),
                       !.packs = CASE Char(start, 0) # "p" -> @
                                   [] what.name = "push" -> Append(@, in.pack)
                                   [] OTHER -> Front(@)]

Directive(in) ==
  LET start == SkipSpace(ShiftCharN(in, 1), FALSE)
      id == GetIdent(start)
      is(name) == Char(start, 0) \notin Decimal \cup LineEnds /\ id.name = name
  IN  CASE Char(start, 0) \in LineEnds -> start
        [] Char(start, 0) \in Decimal -> LineDirective(start)
        [] is("line")    -> LineDirective(SkipSpace(id.in, FALSE))
        [] is("pragma")  -> PackDirective(id.in)
        [] is("define")  -> Define(id.in)
        [] is("undef")   -> Undefine(id.in)
        [] is("include") -> Include(id.in)
        [] is("ifdef")   -> IfDef(id.in, TRUE)
        [] is("ifndef")  -> IfDef(id.in, FALSE)
        [] is("else")    -> Else(id.in)
        [] is("endif")   -> popPrep(EndsLine(id.in))
        [] is("if") /\ ~in.reads   -> SkipLine(pushPrep(id.in, FALSE, FALSE))
        [] is("elif") /\ ~in.reads -> SkipLine(pushPrep(popPrep(id.in), FALSE, FALSE))
        [] OTHER -> IF in.reads THEN AsWrong(in) ELSE SkipLine(id.in)
-----------------------------------------------------------------------------
(* GetToken once around its loop: the next token, or what stands before it.  *)
NextToken(in) ==
  LET next == SkipSpace(in, TRUE)
      c == Char(next, 0)
  IN  CASE next.done -> next
        [] c = None /\ ~next.done -> IF next.outer = <<>> THEN [next EXCEPT !.done = TRUE] ELSE EndOfFiles(next)
        [] c \in Letters -> NameOrMacro(next)
        [] c = "#" -> Directive(next)
        [] c \in Decimal \cup {"'", "\""} \/ LongestSign(next) # None -> GetTokenInner(next)
        [] OTHER -> AsWrong(next)

Predefined ==
  [name \in {"__SMALLER_C__", "__SMALLER_C_16__", "__SMALLER_C_SCHAR__", "__SMALLER_C_UWCHAR__",
             "__SMALLER_C_WCHAR16__"} |-> IF name = "__SMALLER_C__" THEN "0x0100" ELSE ""]
Opened(name, text) ==
  [text |-> text, at |-> 1, line |-> 1, name |-> name, outer |-> <<>>, macros |-> Predefined,
   prep |-> <<>>, reads |-> TRUE, pack |-> SizeOfWord, packs |-> <<>>,
   packed |-> <<[from |-> 1, value |-> SizeOfWord]>>, tokens |-> <<>>, done |-> FALSE, wrong |-> FALSE]

(* As many tokens as there are, up to 2 to the power of n.                   *)
RECURSIVE Reads(_, _)
Reads(in, n) ==
  IF in.done THEN in
  ELSE IF n = 0 THEN NextToken(in)
  ELSE Then(Reads(in, n - 1), LAMBDA half : Reads(half, n - 1))
MostTokens == 14
Lexed(name, text) == Reads(Opened(name, text), MostTokens)
=============================================================================
