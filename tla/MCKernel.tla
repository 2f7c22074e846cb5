------------------------------- MODULE MCKernel -------------------------------
(***************************************************************************)
(* Kernel on a small machine: address spaces of three pages (one for code, *)
(* the I/O page and the window), two process slots, two files.             *)
(***************************************************************************)
EXTENDS Kernel

MCFileSize == [f \in Files |-> IF f = 1 THEN P - 1 ELSE P]

(* Register files the program produces.  MCUserExec leaves it one call to   *)
(* make, sys_exec, from the last address; MCUserAll has it make each kind:  *)
(* getchar, fork, exec and an id that is not in the table.                  *)
MCUserExec == {[pc |-> NPC - 1, a |-> 5, b |-> 0, x |-> 0]}
MCUserAll ==
  {[pc |-> NPC - 1, a |-> 5, b |-> 0, x |-> P - 1],
   [pc |-> 1, a |-> 2, b |-> 0, x |-> 0], [pc |-> 2, a |-> 4, b |-> 0, x |-> 0],
   [pc |-> 0, a |-> 6, b |-> 1, x |-> 0]}
=============================================================================
