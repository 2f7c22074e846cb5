--------------------------------- MODULE Cpu ---------------------------------
(***************************************************************************)
(* The simulated processor microstep by microstep (l_sim.cpp: CPU::cycle,  *)
(* exec_instruction, the main loop), while it runs a program of a user     *)
(* with pages missing and interrupts coming in.  Any access with paging on *)
(* may hit a page that is not mapped: the step is not done, line 0 is set, *)
(* paging goes off, and the next cycle enters the kernel.  Its handlers    *)
(* are the software: they use A and Off as they like, give B, F, M and X   *)
(* back as they were, and end in iret, the one for faults, once the page   *)
(* is mapped, in iretf.  iretf takes IR and Off from the backup, and the   *)
(* cycle after it goes on with the step that was not done.                 *)
(*                                                                         *)
(* Not run: hlt and swp, which stop the simulator; the returns and scall,  *)
(* which are the kernel's; di, since a fault with interrupts disabled has  *)
(* no way into the kernel; cpy, whose address depends on what the          *)
(* instruction before it left in Off; opcodes the simulator does not know.  *)
(***************************************************************************)
EXTENDS Microcode

CONSTANTS Programs,        \* what a user's program may start with: registers and memory
          Pages,           \* the pages it uses
          Junk,            \* what handlers leave in A and Off
          MaxMissing,      \* bound: pages missing at the start
          MaxInstructions, \* bound: instructions run
          MaxInterrupts    \* bound: ticks and keys

VARIABLES c,          \* the datapath
          mpc,        \* 0: between cycles, else the microstep to do
          bkmpc,      \* fault_bk.mpc
          recovery,   \* is_fault_recovery
          mapped,     \* pages the memory unit lets through
          faultPage,  \* fault_page_cause
          arch,       \* history: what the program saw after its last instruction
          count,      \* history: instructions it has completed
          interrupts  \* ticks and keys so far
vars == <<c, mpc, bkmpc, recovery, mapped, faultPage, arch, count, interrupts>>

Atomic == INSTANCE AtomicCpu

int   == \hFF
iret  == \h0F
iretf == \h2F
Vectors == {\hFF00, \hFF10, \hFF30, \hFF40}
Handlers == [a \in Vectors |-> IF a = \hFF00 THEN iretf ELSE iret]

(* What a program may execute. *)
di    == \h01
cpy   == \h04
scall == \h1F
Runs == {op \in Bytes : Program(op) # <<>>} \ {di, cpy, scall, iret, iretf, int}

ASSUME CpuAssumption ==
  /\ Fill \in Bytes /\ Junk \in Bytes
  /\ \A r \in Programs :
       /\ r = Atomic!Visible(r)
       /\ {r.A, r.B, r.F} \subseteq Bytes /\ {r.M, r.S, r.PC, r.X} \subseteq Words
       /\ r.user \in [DOMAIN r.user -> Bytes] /\ DOMAIN r.user \subseteq Words

Init == \E r \in Programs, missing \in SUBSET Pages :
  /\ Cardinality(missing) <= MaxMissing
  /\ c = [Atomic!Undisturbed(r) EXCEPT !.IR = 3, !.kernel = Handlers]
  /\ mpc = 0 /\ bkmpc = 0 /\ recovery = FALSE /\ mapped = Pages \ missing /\ faultPage = 0
  /\ arch = r /\ count = 0 /\ interrupts = 0
-----------------------------------------------------------------------------
(* What is recorded before the fetch and before every step, unless paging is *)
(* off, a fault waits or the fault is being returned from.                   *)
(* Mutant: iretf's own last step is recorded too.                            *)
Records_IretfToo(d) == d.paging /\ 0 \notin d.lines
Records(d) == d.paging /\ 0 \notin d.lines /\ d.IR # iretf
Backup(d) == IF Records(d) THEN [d EXCEPT !.bkIR = d.IR, !.bkOff = d.Off] ELSE d
RecordMpc == bkmpc' = IF Records(c) THEN mpc ELSE bkmpc

(* An access of the program to a page that is missing.  Mutant: the fault    *)
(* does not set its line.                                                    *)
Page(a) == a \div 4096
Blocked(d, step) ==
  d.paging /\ "sel_a" \notin step /\ Accesses(step) /\ Page(Address(d, step)) \notin mapped
Faulted_NoLine(d) == [d EXCEPT !.paging = FALSE]
Faulted(d) == [d EXCEPT !.lines = @ \cup {0}, !.paging = FALSE]
Fault(d, step) ==
  /\ c' = Faulted(d) /\ faultPage' = Page(Address(d, step)) /\ mpc' = 0
  /\ UNCHANGED <<recovery, mapped, arch, count, interrupts>>

(* alul: the inputs of the arithmetic unit are taken at every cycle.         *)
Latched(d) == [d EXCEPT !.la = d.A, !.lb = d.B]

(* The end of iretf: the next cycle goes on with the saved instruction.      *)
(* Mutant: the unit keeps the inputs it had in the handler.                  *)
Recovered_NotLatched(d) == [d EXCEPT !.IR = d.bkIR, !.Off = d.bkOff]
Recovered(d) == Latched([d EXCEPT !.IR = d.bkIR, !.Off = d.bkOff])
Recover ==
  /\ mpc = 0 /\ recovery
  /\ c' = Recovered(c) /\ mpc' = bkmpc /\ recovery' = FALSE
  /\ UNCHANGED <<bkmpc, mapped, faultPage, arch, count, interrupts>>

(* fetch, with a line set and interrupts enabled: 0xff instead of the byte   *)
(* at PC.                                                                    *)
Interrupted(d) == d.lines # {} /\ d.inten
TakeInterrupt ==
  /\ mpc = 0 /\ ~ recovery /\ Interrupted(c)
  /\ c' = [Backup(Latched(c)) EXCEPT !.IR = int] /\ RecordMpc /\ mpc' = 1
  /\ UNCHANGED <<recovery, mapped, faultPage, arch, count, interrupts>>

FetchStep == {"pc_a", "mread", "ir_i"}
Fetch ==
  /\ mpc = 0 /\ ~ recovery /\ ~ Interrupted(c) /\ c.paging /\ count < MaxInstructions
  /\ RecordMpc
  /\ LET d == Backup(Latched(c))
     IN  \/ Blocked(d, FetchStep) /\ Fault(d, FetchStep)
         \/ /\ ~ Blocked(d, FetchStep)
            /\ c' = Perform(d, FetchStep) /\ c'.IR \in Runs /\ mpc' = 1
            /\ UNCHANGED <<recovery, mapped, faultPage, arch, count, interrupts>>

(* A handler, up to the fetch of its return.                                 *)
Serve ==
  /\ mpc = 0 /\ ~ recovery /\ ~ Interrupted(c) /\ ~ c.paging
  /\ c' = [Perform(c, FetchStep) EXCEPT !.A = Junk, !.Off = Junk, !.la = Junk, !.lb = Junk]
  /\ mapped' = IF c.PC = \hFF00 THEN mapped \cup {faultPage} ELSE mapped
  /\ mpc' = 1
  /\ UNCHANGED <<bkmpc, recovery, faultPage, arch, count, interrupts>>

(* One microstep; the last one ends the cycle.                               *)
Step ==
  /\ mpc > 0
  /\ RecordMpc
  /\ LET d == Backup(c)
         step == Program(c.IR)[mpc]
         last == mpc = Len(Program(c.IR))
     IN  \/ Blocked(d, step) /\ Fault(d, step)
         \/ /\ ~ Blocked(d, step)
            /\ c' = Perform(d, step)
            /\ mpc' = IF last THEN 0 ELSE mpc + 1
            /\ recovery' = (last /\ c.IR = iretf)
            /\ IF last /\ c.IR \notin {int, iret, iretf}
               THEN arch' = Atomic!Visible(c') /\ count' = count + 1
               ELSE UNCHANGED <<arch, count>>
            /\ UNCHANGED <<mapped, faultPage, interrupts>>

Cycle == Recover \/ TakeInterrupt \/ Fetch \/ Serve \/ Step

(* The timer, which the main loop looks at between two cycles, and the       *)
(* thread of the console, which sets its line at any moment.                 *)
SetInt(line) ==
  /\ interrupts < MaxInterrupts /\ interrupts' = interrupts + 1
  /\ c' = [c EXCEPT !.lines = @ \cup {line}]
  /\ UNCHANGED <<mpc, bkmpc, recovery, mapped, faultPage, arch, count>>
Tick == mpc = 0 /\ SetInt(1)
Key  == SetInt(3)

Next == Cycle \/ Tick \/ Key
Spec == Init /\ [][Next]_vars /\ WF_vars(Cycle)
-----------------------------------------------------------------------------
(* Interrupts and faults are invisible: whenever the next instruction of the *)
(* program is about to be fetched, its registers and its memory are what its *)
(* last instruction left, whatever was taken in between.                     *)
StateKept ==
  mpc = 0 /\ ~ recovery /\ c.paging => Atomic!Visible(c) = arch

(* With paging off nothing is executed but the kernel: between cycles either *)
(* a fault is about to be taken, or the handler of a vector is entered.      *)
OnlyHandlersUnpaged ==
  mpc = 0 /\ ~ c.paging =>
    IF c.inten THEN 0 \in c.lines ELSE c.PC \in Vectors

(* Each instruction is carried out once and as a whole, through any number   *)
(* of faults in its middle: the machine implements AtomicCpu.                *)
Implements == Atomic!Spec

(* However many of its pages are missing, the program goes on, since a page  *)
(* that was served is there when the step is tried again.                    *)
Completes == <>(count = MaxInstructions)
=============================================================================
