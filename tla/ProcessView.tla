----------------------------- MODULE ProcessView -----------------------------
(***************************************************************************)
(* What the kernel promises to the one program it runs: a machine with     *)
(* registers, ordinary instructions and six system calls.  Interrupts,     *)
(* page faults, the scheduler and the address-space switches are           *)
(* invisible, and every scall instruction takes effect exactly once.       *)
(*                                                                         *)
(* The calls are those of syscall.c: sys_table (108-115) and syscall_isr   *)
(* (118-135).  A call leaves PC on the next instruction and, for the ids   *)
(* the table knows, the C result in A; sys_getchar and a failed sys_exec   *)
(* answer in B; a successful sys_exec restarts the program at 0.           *)
(***************************************************************************)
EXTENDS Naturals

CONSTANTS
  Regs,       \* register files of a user program
  StartRegs,  \* the registers the program starts with
  UserRegs,   \* register files its own instructions may produce
  Bytes,      \* the values of an 8-bit register
  NPC         \* program counters are taken modulo NPC (2^16)

VARIABLES
  uregs,      \* the program's registers
  retired     \* parity of the instructions that took effect

pvars == <<uregs, retired>>

Retire(r) == uregs' = r /\ retired' = 1 - retired

Resume(r) == [r EXCEPT !.pc = (@ + 1) % NPC]

PVInit == uregs = StartRegs /\ retired = 0

Instruction == \E r \in UserRegs : Retire(r)

Call ==
  LET r == Resume(uregs) IN
  \/ uregs.a > 5 /\ Retire(r)
  \/ uregs.a \in {0, 1, 3, 4} /\ Retire([r EXCEPT !.a = 0])
  \/ uregs.a = 2 /\ \E c \in Bytes : Retire([r EXCEPT !.a = 0, !.b = c])
  \/ uregs.a = 5 /\ \/ Retire([uregs EXCEPT !.pc = 0])
                    \/ Retire([r EXCEPT !.a = 0, !.b = 1])

PVNext == Instruction \/ Call

PVSpec == PVInit /\ [][PVNext]_pvars
=============================================================================
