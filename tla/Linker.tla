------------------------------- MODULE Linker -------------------------------
(***************************************************************************)
(* cpu5ld (binutils/link.c): object files in, a memory image out.          *)
(*                                                                         *)
(* A file is a sequence of sections, a section a record of its name, its   *)
(* flag, its size, its labels (the vector of labels.c: defined here or     *)
(* only used here) and its relocations (the mask of labels.c).  A section  *)
(* is known by its place <<i, j>>: section j of the file in slot i.        *)
(* A name holding "bss" is a member of BssNames, NameOrder is strcmp's.    *)
(* The mutual recursion of require_label and require_section is the stack  *)
(* todo of the calls not made yet.                                         *)
(***************************************************************************)
EXTENDS Integers, Sequences, SequencesExt, FiniteSets, TLC

CONSTANTS
  Commands,     \* the command lines: [files, start, bss]
  FileSlots,    \* loaded_files is counted modulo this (256)
  BssNames,     \* the section names with "bss" in them
  NameOrder     \* the section names in the order of strcmp

ASSUME LinkerAssumption == FileSlots \in Nat \ {0}

VARIABLES
  cmd,          \* the command line
  read,         \* arguments read
  objs,         \* object_files
  loaded,       \* loaded_files
  sects,        \* the dictionaries of sections, in order
  used, todo,   \* the sections marked, the labels still to be required
  at,           \* the loops over sections: how many are done
  off,          \* c_off, the next free address
  start,        \* address of each used section
  image,        \* the bytes written
  pc

vars == <<cmd, read, objs, loaded, sects, at, used, todo, off, start, image, pc>>

Word == 65536
NoNode == <<>>

Sect(n) == objs[n[1]][n[2]]
NodesOf(i) == [j \in 1 .. Len(objs[i]) |-> <<i, j>>]
FileOrder == FlattenSeq([i \in 1 .. loaded |-> NodesOf(i - 1)])
DictOrder == FlattenSeq([k \in 1 .. Len(sects) |-> sects[k].list])

Init ==
  /\ cmd \in Commands
  /\ read = 0 /\ loaded = 0
  /\ objs = [i \in 0 .. FileSlots - 1 |-> <<>>]
  /\ sects = <<>> /\ used = {} /\ todo = <<>>
  /\ at = 0 /\ off = 0 /\ start = <<>> /\ image = <<>>
  /\ pc = "load"
-----------------------------------------------------------------------------
(* load_file. *)
NextSlot(i) == (i + 1) % FileSlots

LoadFile ==
  /\ pc = "load" /\ read < Len(cmd.files)
  /\ read' = read + 1
  /\ objs' = [objs EXCEPT ![loaded] = cmd.files[read + 1]]
  /\ loaded' = NextSlot(loaded)
  /\ UNCHANGED <<cmd, sects, at, used, todo, off, start, image, pc>>

(* get_dict_by_name and append_to_sect_list, for section number at + 1: a    *)
(* name shared by executable and other sections is an assertion failure.     *)
DictOf(n) == SelectInSeq(sects, LAMBDA d : d.name = Sect(n).name)

ListSection ==
  /\ pc = "load" /\ read = Len(cmd.files) /\ at < Len(FileOrder)
  /\ LET n == FileOrder[at + 1]
         k == DictOf(n)
     IN  \/ /\ k = 0
            /\ sects' = Append(sects, [name |-> Sect(n).name, list |-> <<n>>,
                                       executable |-> Sect(n).executable])
            /\ UNCHANGED pc
         \/ /\ k # 0 /\ sects[k].executable = Sect(n).executable
            /\ sects' = [sects EXCEPT ![k].list = Append(@, n)]
            /\ UNCHANGED pc
         \/ /\ k # 0 /\ sects[k].executable # Sect(n).executable
            /\ pc' = "failed" /\ UNCHANGED sects
  /\ at' = at + 1
  /\ UNCHANGED <<cmd, read, objs, loaded, used, todo, off, start, image>>

(* The call mark_used_sects makes. *)
StartMarking ==
  /\ pc = "load" /\ read = Len(cmd.files) /\ at = Len(FileOrder)
  /\ todo' = << <<"__entry", NoNode>> >>
  /\ pc' = "mark"
  /\ UNCHANGED <<cmd, read, objs, loaded, sects, at, used, off, start, image>>
-----------------------------------------------------------------------------
HasLabel(n, l) == \E e \in Range(Sect(n).labels) : e.name = l /\ e.present
Exports(n, l) == \E e \in Range(Sect(n).labels) : e.name = l /\ e.present /\ e.export

FirstOr(s, default) == IF s = <<>> THEN default ELSE Head(s)
InFile(n, l) == IF n = NoNode THEN <<>>
                ELSE SelectSeq(NodesOf(n[1]), LAMBDA m : HasLabel(m, l))

(* require_label: the file it is used in first, then the exports as the     *)
(* dictionaries list them.                                                  *)
Required(l, n) ==
  FirstOr(InFile(n, l), FirstOr(SelectSeq(DictOrder, LAMBDA m : Exports(m, l)), NoNode))

(* find_located_label: the section itself, its file, the exports as the     *)
(* files list them.  Mutant: the search in the file is left out.            *)
Located_SkipsFile(l, n) ==
  IF HasLabel(n, l) THEN n
  ELSE FirstOr(SelectSeq(FileOrder, LAMBDA m : Exports(m, l)), NoNode)
Located(l, n) ==
  IF HasLabel(n, l) THEN n
  ELSE FirstOr(InFile(n, l),
               FirstOr(SelectSeq(FileOrder, LAMBDA m : Exports(m, l)), NoNode))

(* The calls require_section makes.  Mutant: its loop stops one short. *)
Wanted_Short(n) ==
  LET w == SelectSeq(Front(Sect(n).labels), LAMBDA e : ~e.present)
  IN  [k \in 1 .. Len(w) |-> <<w[k].name, n>>]
Wanted(n) ==
  LET w == SelectSeq(Sect(n).labels, LAMBDA e : ~e.present)
  IN  [k \in 1 .. Len(w) |-> <<w[k].name, n>>]

(* Mutant: a section is marked when require_section is done with it. *)
Marked_Later(n) == used
Marked(n) == used \union {n}

RequireLabel ==
  /\ pc = "mark" /\ todo # <<>>
  /\ LET n == Required(Head(todo)[1], Head(todo)[2]) IN
     IF n = NoNode
     THEN pc' = "failed" /\ UNCHANGED <<used, todo>>
     ELSE /\ used' = Marked(n)
          /\ todo' = (IF n \in used THEN <<>> ELSE Wanted(n)) \o Tail(todo)
          /\ UNCHANGED pc
  /\ UNCHANGED <<cmd, read, objs, loaded, sects, at, off, start, image>>
-----------------------------------------------------------------------------
(* sect_comparator.  Mutant: it has no rule for start_section and puts what  *)
(* is executable behind the data.                                            *)
Rank_Swapped(d) == CASE d.executable -> 3
                     [] ~d.executable /\ d.name \notin BssNames -> 1
                     [] OTHER -> 4
Rank(d) == CASE d.name = "start_section"                  -> 0
             [] d.executable /\ d.name \notin BssNames    -> 1
             [] d.executable /\ d.name \in BssNames       -> 2
             [] ~d.executable /\ d.name \notin BssNames   -> 3
             [] OTHER                                     -> 4

NamePlace(d) == SelectInSeq(NameOrder, LAMBDA m : m = d.name)
SectComparator(d, e) == \/ Rank(d) < Rank(e)
                        \/ Rank(d) = Rank(e) /\ NamePlace(d) < NamePlace(e)

SortSects ==
  /\ pc = "mark" /\ todo = <<>>
  /\ sects' = SortSeq(sects, SectComparator)
  /\ at' = 0 /\ off' = cmd.start
  /\ pc' = "offset"
  /\ UNCHANGED <<cmd, read, objs, loaded, used, todo, start, image>>

(* linker_offset_labels, one section a step: a dictionary of bss begins at   *)
(* the bss address if that is further on.                                    *)
BssAt(n) ==
  IF Sect(n).name \in BssNames /\ n = Head(sects[DictOf(n)].list) /\ off < cmd.bss
  THEN cmd.bss ELSE off

Moved(s, by) == [s EXCEPT !.labels = [k \in DOMAIN s.labels |->
  IF s.labels[k].present THEN [s.labels[k] EXCEPT !.position = (@ + by) % Word]
                         ELSE s.labels[k]]]

OffsetSection ==
  /\ pc = "offset" /\ at < Len(DictOrder)
  /\ at' = at + 1
  /\ LET n == DictOrder[at + 1] IN
     \/ /\ n \notin used
        /\ off' = BssAt(n)
        /\ UNCHANGED <<objs, start>>
     \/ /\ n \in used
        /\ start' = (n :> BssAt(n)) @@ start
        /\ objs' = [objs EXCEPT ![n[1]][n[2]] = Moved(@, BssAt(n))]
        /\ off' = (BssAt(n) + Sect(n).size) % Word
  /\ UNCHANGED <<cmd, read, loaded, sects, used, todo, image, pc>>
-----------------------------------------------------------------------------
(* linker_link: what a relocation stores at addr + k; half is 0 for both    *)
(* bytes, 1 for the low and 2 for the high one.  Mutant: the high byte is    *)
(* that of the position alone.                                               *)
Low(v) == v % 256
High(v) == (v \div 256) % 256
Patch_NoCarry(r, pos, k) ==
  IF k = 0 /\ r.half # 2 THEN Low(pos + r.offset) ELSE High(pos)
Patch(r, pos, k) ==
  IF k = 0 /\ r.half # 2 THEN Low(pos + r.offset) ELSE High(pos + r.offset)

Position(n, l) ==
  LET e == SelectInSeq(Sect(n).labels, LAMBDA x : x.name = l)
  IN  Sect(n).labels[e].position

(* The byte at place a of section n: the last relocation over it, or zero. *)
Covers(r, a) == a = r.addr \/ (r.half = 0 /\ a = r.addr + 1)
Linked(n, a) ==
  LET rs == SelectSeq(Sect(n).relocs, LAMBDA r : Covers(r, a)) IN
  IF rs = <<>> THEN 0
  ELSE LET l == Sect(n).labels[Last(rs).id].name
       IN  Patch(Last(rs), Position(Located(l, n), l), a - Last(rs).addr)

LinkFails == \E n \in used : \E r \in Range(Sect(n).relocs) :
               Located(Sect(n).labels[r.id].name, n) = NoNode

Link ==
  /\ pc = "offset" /\ at = Len(DictOrder)
  /\ pc' = IF LinkFails THEN "failed" ELSE "write"
  /\ at' = 0
  /\ UNCHANGED <<cmd, read, objs, loaded, sects, used, todo, off, start, image>>

(* The loop of main that writes the file, with the bytes linker_link left.   *)
InImage(n) == n \in used /\ Sect(n).name \notin BssNames
WriteSection ==
  /\ pc = "write" /\ at < Len(DictOrder)
  /\ at' = at + 1
  /\ LET n == DictOrder[at + 1] IN
     IF InImage(n) THEN image' = image \o [k \in 1 .. Sect(n).size |-> Linked(n, k - 1)]
                   ELSE UNCHANGED image
  /\ UNCHANGED <<cmd, read, objs, loaded, sects, used, todo, off, start, pc>>

CloseImage ==
  /\ pc = "write" /\ at = Len(DictOrder)
  /\ pc' = "done"
  /\ UNCHANGED <<cmd, read, objs, loaded, sects, at, used, todo, off, start, image>>

Next == \/ LoadFile \/ ListSection \/ StartMarking \/ RequireLabel
        \/ SortSects \/ OffsetSection \/ Link \/ WriteSection \/ CloseImage

Spec == Init /\ [][Next]_vars /\ WF_vars(Next)
-----------------------------------------------------------------------------
(* The promise, stated over the files as they were given. *)
Places == UNION {{<<i - 1, j>> : j \in 1 .. Len(cmd.files[i])} : i \in 1 .. Len(cmd.files)}
Given(n) == cmd.files[n[1] + 1][n[2]]
Defines(n, l) == \E e \in Range(Given(n).labels) : e.name = l /\ e.present
Offers(n, l) == \E e \in Range(Given(n).labels) : e.name = l /\ e.present /\ e.export

(* Where label l used in section n is: in n, or first in its file, or exported. *)
Means(n, l, m) ==
  IF Defines(n, l) THEN m = n
  ELSE IF \E k \in Places : k[1] = n[1] /\ Defines(k, l)
       THEN m[1] = n[1] /\ Defines(m, l)
            /\ \A k \in Places : k[1] = n[1] /\ Defines(k, l) => m[2] <= k[2]
       ELSE Offers(m, l)

AllGiven == Len(cmd.files) < FileSlots
Labels == UNION {{e.name : e \in Range(Given(n).labels)} : n \in Places}
OneExporter == \A l \in Labels : Cardinality({n \in Places : Offers(n, l)}) <= 1

Needs(n) == {m \in Places : \E e \in Range(Given(n).labels) : Means(n, e.name, m)}
Needed ==                   \* the least set with the entry point, closed under Needs
  LET all     == Places
      entry   == {m \in all : Offers(m, "__entry")}
      needs   == [n \in all |-> Needs(n)]
      closed  == {S \in SUBSET all : entry \subseteq S /\ \A n \in S : needs[n] \subseteq S}
  IN  {m \in all : \A S \in closed : m \in S}

(* Every section of every file given is linked or left out on purpose: as   *)
(* long as the 8-bit count of files holds them, the dictionaries list each  *)
(* exactly once (build_section_lists, append_to_sect_list).                 *)
NoSectionLost ==
  pc \notin {"load", "failed"} /\ AllGiven =>
    /\ Range(DictOrder) = Places
    /\ Len(DictOrder) = Cardinality(Places)

(* require_label and require_section keep exactly the sections the entry    *)
(* point needs: the least set closed under use, whatever file and dictionary *)
(* each is in; and the dictionaries they search have lost none.  With two    *)
(* exporters of one label there is no such set, and the code then differs    *)
(* with itself, see the README.                                              *)
KeepsWhatIsNeeded ==
  /\ NoSectionLost
  /\ pc = "done" /\ AllGiven /\ OneExporter => used = Needed

(* The linker gives up only when a section it keeps, or the entry point,    *)
(* asks for a label that neither its file defines nor any file exports; and *)
(* never in linker_link for a label that mark_used_sects had found.         *)
GivesUpOnlyWhenUndefined ==
  pc = "failed" /\ AllGiven =>
    \/ \A m \in Places : ~Offers(m, "__entry")
    \/ \E n \in used : \E e \in Range(Given(n).labels) :
         \A m \in Places : ~Means(n, e.name, m)

(* No two sections kept get the same address, with and without a -bss       *)
(* address (linker_offset_labels), and the processor, which starts at the    *)
(* first byte of the image, finds the only start_section there (sort_sects). *)
Disjoint ==
  \A m, n \in DOMAIN start :
    m # n => \/ start[m] + Given(m).size <= start[n]
             \/ start[n] + Given(n).size <= start[m]
EntryFirst ==
  pc = "done" =>
    \A n \in used : /\ Given(n).name = "start_section"
                    /\ \A m \in Places : Given(m).name = "start_section" => m = n
                    => start[n] = cmd.start
Placed == Disjoint /\ EntryFirst

(* The end to end promise of sort_sects, linker_offset_labels, linker_link  *)
(* and the writing loop: loaded at the -start address, the image holds at   *)
(* each relocated place of a kept section the address of what is meant.     *)
Address(m, l) == LET k == CHOOSE k \in DOMAIN Given(m).labels : Given(m).labels[k].name = l
                 IN  start[m] + Given(m).labels[k].position
Holds(n, r, m) ==
  LET i == start[n] - cmd.start + r.addr + 1
      v == (Address(m, Given(n).labels[r.id].name) + r.offset) % Word
  IN  CASE r.half = 0 -> i + 1 <= Len(image) /\ image[i] + 256 * image[i + 1] = v
        [] r.half = 1 -> i <= Len(image) /\ image[i] = v % 256
        [] r.half = 2 -> i <= Len(image) /\ image[i] = v \div 256
Relocated ==
  pc = "done" /\ AllGiven /\ OneExporter =>
    \A n \in used : Given(n).name \notin BssNames =>
      \A r \in Range(Given(n).relocs) : \A m \in Places :
        Means(n, Given(n).labels[r.id].name, m) => m \in used /\ Holds(n, r, m)

(* Sections that need each other do not keep the linker busy for ever. *)
Finishes == <>(pc \in {"done", "failed"})
=============================================================================
