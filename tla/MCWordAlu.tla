------------------------------ MODULE MCWordAlu ------------------------------
(* Operands around every boundary of a word, a byte and a nibble, any carry before. *)
EXTENDS WordAlu

MCWords == {0, 1, 2, 127, 128, 129, 255, 256, 257, 384, 32512, 32639, 32640, 32767,
            32768, 32769, 32895, 32896, 33023, 33024, 65280, 65407, 65408, 65534, 65535,
            3856, 4111, 21930, 28943}
MCOldFlags == {[c |-> c, z |-> z, s |-> 0, o |-> 1] : c \in Bits, z \in Bits}
=============================================================================
