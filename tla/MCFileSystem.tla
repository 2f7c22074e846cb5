---------------------------- MODULE MCFileSystem ----------------------------
(***************************************************************************)
(* Blocks of four bytes with two entries each, numbers of four bits; up to *)
(* five files, one more than mkfs has entries for, in several orders, with *)
(* sizes around a block and around the end of the numbers.  LL is cut to L,*)
(* which is a name of its own; z is asked for and never there.  Bytes that *)
(* are no entry may point to the directory, to the files or at the end.    *)
(***************************************************************************)
EXTENDS FileSystem

Orders == {<<"a", "b", "c", "L", "LL">>, <<"LL", "c", "a", "L", "b">>,
           <<"b", "L", "LL", "a", "c">>, <<"c", "a", "b", "LL", "L">>}
Sizes == {<<0, 1, 3, 4, 5>>, <<5, 4, 0, 9, 1>>, <<15, 16, 8, 2, 7>>, <<3, 17, 20, 0, 4>>}
MCDirectories ==
  {SubSeq([k \in 1 .. 5 |-> [name |-> o[k], size |-> s[k]]], 1, n) :
     o \in Orders, s \in Sizes, n \in 0 .. 5}
MCMisread == [blk : {0, 3, 19}, size : {0, 7, 15}]
=============================================================================
