------------------------------ MODULE MCLinker ------------------------------
(***************************************************************************)
(* Three sections in one to three files: the start section, which uses f   *)
(* and g, and two others that each define, export or use f and g   *)
(* in every way.  Addresses cross a page, so that bytes carry.             *)
(***************************************************************************)
EXTENDS Linker

Kinds == {"none", "uses", "defines", "exports"}

LabelOf(l, kind, pos) ==
  IF kind = "none" THEN <<>>
  ELSE <<[name |-> l, position |-> IF kind = "uses" THEN 0 ELSE pos,
          present |-> kind # "uses", export |-> kind = "exports"]>>

(* One relocation for each label: the word before what f is, a byte of g. *)
RelocsOf(labels, half) ==
  [k \in 1 .. Len(labels) |->
    [addr |-> 2 * (k - 1), id |-> k,
     offset |-> IF labels[k].name = "f" THEN -1 ELSE 255,
     half |-> IF labels[k].name = "f" THEN 0 ELSE half]]

Section(name, f, g, half) ==
  LET labels == LabelOf("f", f, 1) \o LabelOf("g", g, 2)
  IN  [name |-> name, executable |-> name = "text", size |-> 5,
       labels |-> labels, relocs |-> RelocsOf(labels, half)]

StartSection(g) ==
  LET labels == LabelOf("__entry", "exports", 0) \o LabelOf("f", "uses", 0)
                \o LabelOf("g", g, 0)
  IN  [name |-> "start_section", executable |-> TRUE, size |-> 8,
       labels |-> labels, relocs |-> RelocsOf(labels, 2)]

Splits(a, b, c) == {<< <<a>>, <<b, c>> >>, << <<a, b>>, <<c>> >>, << <<b>>, <<c>>, <<a>> >>}

MCCommands ==
  {[files |-> fs, start |-> 250, bss |-> bss] :
     bss \in {255, 600},
     fs \in UNION {Splits(StartSection(g), Section(n1, f1, g1, 1), Section(n2, f2, g2, 2)) :
              g \in {"uses"},
              f1 \in Kinds, g1 \in Kinds, f2 \in Kinds, g2 \in Kinds,
              n1 \in {"text", "data", "bss"}, n2 \in {"text", "bss"}}}

MCNameOrder == <<"bss", "data", "start_section", "text">>
=============================================================================
