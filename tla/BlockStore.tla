----------------------------- MODULE BlockStore -----------------------------
(***************************************************************************)
(* What a reader of the disk is promised by bread and bfree (blk.c): to    *)
(* take one block at a time, and to see in it, until it lets the block go, *)
(* the bytes the disk holds.                                               *)
(***************************************************************************)
EXTENDS Naturals

CONSTANTS BlockIds, Offsets, DiskByte(_, _)

VARIABLE view       \* the block being read, and the bytes seen in it

NoView == [n |-> 0, held |-> FALSE, bytes |-> [o \in Offsets |-> 0]]

BSInit == view = NoView

Take(n) ==
  /\ ~view.held
  /\ view' = [n |-> n, held |-> TRUE, bytes |-> [o \in Offsets |-> DiskByte(n, o)]]

LetGo == view.held /\ view' = NoView

BSNext == LetGo \/ \E n \in BlockIds : Take(n)

BSSpec == BSInit /\ [][BSNext]_view
=============================================================================
