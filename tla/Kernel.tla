-------------------------------- MODULE Kernel --------------------------------
(***************************************************************************)
(* The cpu5 kernel: process table, page allocator, TLB, scheduler, system  *)
(* calls and interrupt handlers (src/software/kernel), on the CPU and MMU  *)
(* of the logic simulator (src/simulation/logic).                          *)
(*                                                                         *)
(* Three flows of control share the CPU: kernel main ("main"), the user    *)
(* program ("user", and the two microcoded instructions it can be in the   *)
(* middle of, "access" and "scall") and the interrupt handlers.  Handlers  *)
(* run with interrupts disabled, so each is one action, except sys_exec,   *)
(* whose loops are the kernel's own: it runs as "exec", a step at a time,  *)
(* and shares load_process and populate_tlb with main.                     *)
(*                                                                         *)
(* Abstractions: pages are numbered 0..P-1 in every address space (16 in   *)
(* the code) and 0..PHYS-1 in memory (256); IOPAGE stands for pages 4, 6,  *)
(* 7 and 0xf, through which the kernel reaches MMU registers, TLB and      *)
(* interrupt frame, WIN for page 0xa, the window on user pages; a page     *)
(* holds "chunk k of file f" or something else; a register file is pc, a,  *)
(* b and x, the other registers being handled exactly as b is.             *)
(***************************************************************************)
EXTENDS Naturals, FiniteSets

CONSTANTS
  P,                \* pages of an address space, and pages the kernel owns
  PHYS,             \* physical pages (the range of an unsigned char)
  IOPAGE, WIN,      \* the kernel's I/O page and its window page
  N_PROC, N_TLB,    \* process slots; TLBs
  TICKS_TO_SWITCH,  \* ticks between two switches
  TICKW,            \* ticks_to_next_switch is taken modulo TICKW (2^8)
  NPC,              \* program counters are taken modulo NPC (2^16)
  Bytes,            \* values of an 8-bit register
  UserRegs,         \* register files a user instruction may produce
  Files, FileSize   \* files on disk and their size in pages

NONE == N_PROC      \* current_proc_idx = 0xff
Pages == 0 .. P - 1
PhysPages == 0 .. PHYS - 1
Slots == 0 .. N_PROC - 1
TlbIdx == 0 .. N_TLB - 1
NR_SYSCALL == 6
Regs == [pc : 0 .. NPC - 1, a : 0 .. NR_SYSCALL, b : Bytes, x : Pages]
StartRegs == [pc |-> 0, a |-> 0, b |-> 0, x |-> 0]

ASSUME KernelAssumption ==
  /\ P \in Nat /\ PHYS \in Nat /\ 2 * P <= PHYS
  /\ IOPAGE \in Pages /\ WIN \in Pages /\ IOPAGE # WIN
  /\ N_PROC \in Nat \ {0} /\ N_TLB \in Nat /\ N_TLB > 1
  /\ TICKS_TO_SWITCH \in Nat \ {0} /\ TICKW \in Nat /\ TICKS_TO_SWITCH < TICKW
  /\ NPC \in Nat \ {0}
  /\ Bytes \subseteq Nat /\ {0, 1, 255} \subseteq Bytes
  /\ UserRegs \subseteq Regs
  /\ Files \subseteq Nat \ {0} /\ FileSize \in [Files -> 0 .. P]

(* Contents of a physical page. *)
Chunk(f, k) == [file |-> f, part |-> k]
KernelData == Chunk(0, 0)
Other == Chunk(0, 1)
Contents == [file : Files \cup {0}, part : Nat]

(* PROCESS_NONE .. PROCESS_DEAD *)
PROCESS_NONE == 0
PROCESS_RUN == 1
PROCESS_WAIT == 2
PROCESS_DEAD == 3

Flags == SUBSET {"r", "w"}      \* bits 0 and 1 of a TLB flag byte
RW == {"r", "w"}
Entry == [page : PhysPages, flags : Flags]
Context == [who : {"main", "user"}, r : Regs]
NoFrame == [who |-> "main", r |-> StartRegs]
NoFault == [idx |-> 0, page |-> 0, cause |-> "r"]
NoOp == [page |-> 0, kind |-> "r"]
NoLocals == [slot |-> 0, i |-> 0, file |-> 0]
Process == [status : PROCESS_NONE .. PROCESS_DEAD, pid : Nat,
            tlb_index : TlbIdx, ctx : Context, pages : [Pages -> PhysPages]]
EmptyProcess ==             \* what memset leaves
  [status |-> PROCESS_NONE, pid |-> 0, tlb_index |-> 0,
   ctx |-> [who |-> "user", r |-> StartRegs], pages |-> [v \in Pages |-> 0]]

MainLabels ==
  {"init_proc", "init_mmu", "init_interrupts", "getc", "shell",
   "alloc_proc", "set_run", "alloc_tlb", "set_pc", "alloc_pages", "stat"}
ExecLabels == {"path", "stat", "swap_pages", "restart"}
LoadLabels == {"load_off", "load_map", "load_on", "load_read"}
PopulateLabels == {"pop_off", "pop_write", "pop_on"}
StartLabels == {"sched_on", "sched_ticks", "spin"}
Labels == MainLabels \cup ExecLabels \cup LoadLabels \cup PopulateLabels
          \cup StartLabels
Threads == {"main", "exec"}
UserModes == {"user", "access", "scall"}
Modes == UserModes \cup Threads \cup {"hlt"}
Locals == [slot : Slots, i : 0 .. P, file : Files \cup {0}]

VARIABLES
  (* CPU and MMU *)
  running, regs, int_en, irqs, paging, tlb_index, tlb, fault, mem,
  (* the frame an interrupt saved at 0xffbd.. and 0xfff8.. *)
  frame,
  (* the access of the instruction being executed: what fault_bk restarts *)
  op,
  (* proc.c *)
  p_list, current_proc_idx, do_switch, ticks_to_next_switch,
  (* mmu.c *)
  page_refcount, tlb_map,
  (* where each kernel thread is, and its local variables *)
  pc, loc,
  (* history: parity of the user instructions that took effect *)
  retired

mmuVars == <<paging, tlb_index, tlb, fault, mem>>
cpuVars == <<running, regs, int_en, irqs, frame, op>>
procVars == <<p_list, current_proc_idx, do_switch, ticks_to_next_switch>>
allocVars == <<page_refcount, tlb_map>>
threadVars == <<pc, loc>>
vars == <<mmuVars, cpuVars, procVars, allocVars, threadVars, retired>>
-----------------------------------------------------------------------------
(* Address translation: VMem::read and VMem::write. *)
Permits(v, k) == paging => k \in tlb[tlb_index][v].flags
Phys(v) == IF paging THEN tlb[tlb_index][v].page ELSE v

(* A store of the kernel into a page it means to be its own. *)
Reaches(v) == Permits(v, "w") /\ Phys(v) = v

(* write_tlb: two stores into IOPAGE; one that does not reach it is lost. *)
write_tlb(idx, v, p, fl) ==
  tlb' = IF Reaches(IOPAGE)
         THEN [tlb EXCEPT ![idx][v] = [page |-> p, flags |-> fl]]
         ELSE tlb

SetPaging(on) == paging' = IF Reaches(IOPAGE) THEN on ELSE paging
-----------------------------------------------------------------------------
(* Control. *)
At(t, l) == running = t /\ pc[t] = l /\ (int_en => irqs = {})
Goto(t, l) == pc' = [pc EXCEPT ![t] = l]
SetLoc(t, f, v) == loc' = [loc EXCEPT ![t][f] = v]

Raised(i) == i \in irqs /\ \A j \in irqs : i <= j       \* get_iv
AtFetch == int_en /\ running \in {"main", "user", "scall"}

(* Mutant: a scall overtaken by an interrupt counts as executed. *)
Interrupted_SkipsCall ==
  [who |-> IF running = "main" THEN "main" ELSE "user",
   r |-> IF running = "scall" THEN [regs EXCEPT !.pc = (@ + 1) % NPC] ELSE regs]

(* What INT or scall saves, and what iret restores. *)
Interrupted == [who |-> IF running = "main" THEN "main" ELSE "user", r |-> regs]
Iret(ctx) ==
  /\ regs' = ctx.r
  /\ running' = ctx.who
  /\ int_en' = TRUE /\ paging' = TRUE
  /\ frame' = NoFrame             \* its contents are dead from here on

(* A handler as a whole: iv_o has cleared every line. *)
Handled(ctx) == irqs' = {} /\ Iret(ctx)

(* proc.c and mmu.c: what the searches return. *)
LeastOr(S, d) == IF S = {} THEN d ELSE CHOOSE n \in S : \A m \in S : n <= m
find_free_proc == LeastOr({q \in Slots : p_list[q].status = PROCESS_NONE}, NONE)
find_free_page_Shifted(rc) ==       \* mutant: the search starts a page late
  LeastOr({p \in P + 1 .. PHYS - 1 : rc[p] = 0}, 0)
find_free_page(rc) == LeastOr({p \in P .. PHYS - 1 : rc[p] = 0}, 0)
get_free_tlb == LeastOr({t \in 1 .. N_TLB - 1 : tlb_map[t] = 0}, 0)
get_new_pid ==
  LeastOr({n \in 1 .. N_PROC + 1 :
             \A q \in Slots : p_list[q].pid = n => p_list[q].status = PROCESS_NONE}, 0)

Init ==
  /\ running = "main" /\ regs = StartRegs /\ int_en = FALSE /\ irqs = {}
  /\ paging = FALSE /\ tlb_index = 0
  /\ tlb = [t \in TlbIdx |-> [v \in Pages |-> [page |-> 0, flags |-> {}]]]
  /\ fault = NoFault
  /\ mem = [p \in PhysPages |-> IF p < P THEN KernelData ELSE Other]
  /\ frame = NoFrame
  /\ op = NoOp
  /\ p_list = [q \in Slots |-> EmptyProcess]
  /\ current_proc_idx = 0 /\ do_switch = FALSE /\ ticks_to_next_switch = 0
  /\ page_refcount = [p \in PhysPages |-> 0]
  /\ tlb_map = [t \in TlbIdx |-> 0]
  /\ pc = [main |-> "init_proc", exec |-> "path"]
  /\ loc = [t \in Threads |-> NoLocals]
  /\ retired = 0
-----------------------------------------------------------------------------
(* kernel_main.c: main up to the choice between shell and init process. *)
InitProc_NoSentinel ==      \* mutant: current_proc_idx stays 0
  /\ At("main", "init_proc")
  /\ current_proc_idx' = 0 /\ do_switch' = FALSE
  /\ p_list' = [q \in Slots |-> EmptyProcess]
  /\ Goto("main", "init_mmu")
  /\ UNCHANGED <<mmuVars, cpuVars, allocVars, ticks_to_next_switch, loc, retired>>

InitProc ==
  /\ At("main", "init_proc")
  /\ current_proc_idx' = NONE /\ do_switch' = FALSE
  /\ p_list' = [q \in Slots |-> EmptyProcess]
  /\ Goto("main", "init_mmu")
  /\ UNCHANGED <<mmuVars, cpuVars, allocVars, ticks_to_next_switch, loc, retired>>

InitMmu ==
  /\ At("main", "init_mmu")
  /\ tlb' = [tlb EXCEPT ![0] = [v \in Pages |-> [page |-> v, flags |-> RW]]]
  /\ page_refcount' = [p \in PhysPages |-> IF p < P THEN 1 ELSE 0]
  /\ tlb_index' = 0 /\ paging' = TRUE
  /\ Goto("main", "init_interrupts")
  /\ UNCHANGED <<fault, mem, cpuVars, procVars, tlb_map, loc, retired>>

InitInterrupts ==           \* ends in ei, which turns paging on as well
  /\ At("main", "init_interrupts")
  /\ int_en' = TRUE /\ paging' = TRUE
  /\ Goto("main", "getc")
  /\ UNCHANGED <<tlb_index, tlb, fault, mem, running, regs, irqs, frame, op,
                 procVars, allocVars, loc, retired>>

ChooseInitOrShell ==        \* getc() != 'a'
  /\ At("main", "getc")
  /\ \E l \in {"alloc_proc", "shell"} : Goto("main", l)
  /\ UNCHANGED <<mmuVars, cpuVars, procVars, allocVars, loc, retired>>

ShellExec ==                \* the "exec" command; the others change nothing here
  /\ At("main", "shell")
  /\ Goto("main", "alloc_proc")
  /\ UNCHANGED <<mmuVars, cpuVars, procVars, allocVars, loc, retired>>
-----------------------------------------------------------------------------
(* kernel_main.c: start_init. *)
AllocProc ==
  /\ At("main", "alloc_proc")
  /\ LET q == find_free_proc IN
       /\ q \in Slots
       /\ SetLoc("main", "slot", q)
       /\ p_list' = [p_list EXCEPT ![q].pid = get_new_pid]
  /\ Goto("main", "set_run")
  /\ UNCHANGED <<mmuVars, cpuVars, current_proc_idx, do_switch,
                 ticks_to_next_switch, allocVars, retired>>

SetRun_Waits ==             \* mutant: the process starts in PROCESS_WAIT
  /\ At("main", "set_run")
  /\ p_list' = [p_list EXCEPT ![loc["main"].slot].status = PROCESS_WAIT]
  /\ Goto("main", "alloc_tlb")
  /\ UNCHANGED <<mmuVars, cpuVars, current_proc_idx, do_switch,
                 ticks_to_next_switch, allocVars, loc, retired>>

SetRun ==
  /\ At("main", "set_run")
  /\ p_list' = [p_list EXCEPT ![loc["main"].slot].status = PROCESS_RUN]
  /\ Goto("main", "alloc_tlb")
  /\ UNCHANGED <<mmuVars, cpuVars, current_proc_idx, do_switch,
                 ticks_to_next_switch, allocVars, loc, retired>>

AllocTlb ==
  /\ At("main", "alloc_tlb")
  /\ p_list' = [p_list EXCEPT ![loc["main"].slot].tlb_index = get_free_tlb]
  /\ tlb_map' = [t \in TlbIdx |->
                   IF t # 0 /\ t = get_free_tlb THEN 1 ELSE tlb_map[t]]
  /\ Goto("main", "set_pc")
  /\ UNCHANGED <<mmuVars, cpuVars, current_proc_idx, do_switch,
                 ticks_to_next_switch, page_refcount, loc, retired>>

SetPc ==
  /\ At("main", "set_pc")
  /\ p_list' = [p_list EXCEPT ![loc["main"].slot].ctx.r.pc = 0]
  /\ Goto("main", "alloc_pages")
  /\ UNCHANGED <<mmuVars, cpuVars, current_proc_idx, do_switch,
                 ticks_to_next_switch, allocVars, loc, retired>>

(* The counts after page_refcount_dec and page_refcount_inc (unsigned char). *)
Dec_Forgotten(rc, p) == rc      \* mutant: the old page is never given back
Dec(rc, p) == [rc EXCEPT ![p] = (@ + 255) % 256]
Inc(rc, p) == [rc EXCEPT ![p] = (@ + 1) % 256]

(* One round of the page loop: the page found becomes page i of slot q. *)
GivePage(q, i, rc) ==
  LET p == find_free_page(rc) IN
    /\ p_list' = [p_list EXCEPT ![q].pages[i] = p]
    /\ page_refcount' = Inc(rc, p)

AllocPages ==
  /\ At("main", "alloc_pages")
  /\ LET l == loc["main"] IN
       \/ /\ l.i < P
          /\ GivePage(l.slot, l.i, page_refcount)
          /\ SetLoc("main", "i", l.i + 1)
          /\ UNCHANGED pc
       \/ /\ l.i = P
          /\ SetLoc("main", "i", 0) /\ Goto("main", "stat")
          /\ UNCHANGED <<p_list, page_refcount>>
  /\ UNCHANGED <<mmuVars, cpuVars, current_proc_idx, do_switch,
                 ticks_to_next_switch, tlb_map, retired>>

StartSched ==
  \/ /\ At("main", "sched_on")
     /\ do_switch' = TRUE
     /\ Goto("main", "sched_ticks")
     /\ UNCHANGED <<mmuVars, cpuVars, p_list, current_proc_idx,
                    ticks_to_next_switch, allocVars, loc, retired>>
  \/ /\ At("main", "sched_ticks")
     /\ ticks_to_next_switch' = TICKS_TO_SWITCH
     /\ Goto("main", "spin")
     /\ UNCHANGED <<mmuVars, cpuVars, p_list, current_proc_idx, do_switch,
                    allocVars, loc, retired>>
-----------------------------------------------------------------------------
(* proc.c: load_process, called by main and by sys_exec. *)
Slot(t) == loc[t].slot

ProbeFile(t, found, missing) ==     \* stat(): any file, or none of that name
  \/ \E f \in Files :
       /\ SetLoc(t, "file", f)
       /\ Goto(t, found)
  \/ SetLoc(t, "file", 0) /\ Goto(t, missing)

MainStat ==
  /\ At("main", "stat")
  /\ ProbeFile("main", "load_off", "pop_off")
  /\ UNCHANGED <<mmuVars, cpuVars, procVars, allocVars, retired>>

LoadOff_ShortFile(t) ==     \* mutant: the last part of the file is not read
  /\ At(t, "load_off")
  /\ \/ /\ loc[t].i + 1 < FileSize[loc[t].file]
        /\ SetPaging(FALSE)
        /\ Goto(t, "load_map")
        /\ UNCHANGED loc
     \/ /\ loc[t].i + 1 >= FileSize[loc[t].file]
        /\ SetLoc(t, "i", 0) /\ Goto(t, "pop_off")
        /\ UNCHANGED paging
  /\ UNCHANGED <<tlb_index, tlb, fault, mem, cpuVars, procVars, allocVars, retired>>

LoadOff(t) ==               \* while(left_to_read) ... MMU_OFF()
  /\ At(t, "load_off")
  /\ \/ /\ loc[t].i < FileSize[loc[t].file]
        /\ SetPaging(FALSE)
        /\ Goto(t, "load_map")
        /\ UNCHANGED loc
     \/ /\ loc[t].i >= FileSize[loc[t].file]
        /\ SetLoc(t, "i", 0) /\ Goto(t, "pop_off")
        /\ UNCHANGED paging
  /\ UNCHANGED <<tlb_index, tlb, fault, mem, cpuVars, procVars, allocVars, retired>>

LoadMap_PageNumber(t) ==    \* mutant: maps page i, not the process's page i
  /\ At(t, "load_map")
  /\ write_tlb(0, WIN, loc[t].i, RW)
  /\ Goto(t, "load_on")
  /\ UNCHANGED <<paging, tlb_index, fault, mem, cpuVars, procVars, allocVars,
                 loc, retired>>

LoadMap(t) ==               \* the window shows the page to fill
  /\ At(t, "load_map")
  /\ write_tlb(0, WIN, p_list[Slot(t)].pages[loc[t].i], RW)
  /\ Goto(t, "load_on")
  /\ UNCHANGED <<paging, tlb_index, fault, mem, cpuVars, procVars, allocVars,
                 loc, retired>>

LoadOn(t) ==
  /\ At(t, "load_on")
  /\ SetPaging(TRUE)
  /\ Goto(t, "load_read")
  /\ UNCHANGED <<tlb_index, tlb, fault, mem, cpuVars, procVars, allocVars, loc, retired>>

LoadRead_Stuck(t) ==        \* mutant: already_read is not advanced
  /\ At(t, "load_read")
  /\ mem' = IF Permits(WIN, "w")
            THEN [mem EXCEPT ![Phys(WIN)] = Chunk(loc[t].file, loc[t].i)]
            ELSE mem
  /\ Goto(t, "load_off")
  /\ UNCHANGED <<paging, tlb_index, tlb, fault, cpuVars, procVars, allocVars, loc,
                 retired>>

LoadRead(t) ==              \* read_file() into the window
  /\ At(t, "load_read")
  /\ mem' = IF Permits(WIN, "w")
            THEN [mem EXCEPT ![Phys(WIN)] = Chunk(loc[t].file, loc[t].i)]
            ELSE mem
  /\ SetLoc(t, "i", loc[t].i + 1)
  /\ Goto(t, "load_off")
  /\ UNCHANGED <<paging, tlb_index, tlb, fault, cpuVars, procVars, allocVars, retired>>

(* mmu.c: populate_tlb. *)
PopulateOff(t) ==
  /\ At(t, "pop_off")
  /\ SetPaging(FALSE)
  /\ Goto(t, "pop_write")
  /\ UNCHANGED <<tlb_index, tlb, fault, mem, cpuVars, procVars, allocVars, loc, retired>>

PopulateWrite(t) ==
  /\ At(t, "pop_write")
  /\ LET i == loc[t].i
         pr == p_list[Slot(t)] IN
       \/ /\ i < P
          /\ write_tlb(pr.tlb_index, i, pr.pages[i], {"r"})
          /\ SetLoc(t, "i", i + 1)
          /\ UNCHANGED pc
       \/ /\ i = P
          /\ SetLoc(t, "i", 0) /\ Goto(t, "pop_on")
          /\ UNCHANGED tlb
  /\ UNCHANGED <<paging, tlb_index, fault, mem, cpuVars, procVars, allocVars, retired>>

PopulateOn(t) ==
  /\ At(t, "pop_on")
  /\ SetPaging(TRUE)
  /\ Goto(t, IF t = "main" THEN "sched_on" ELSE "restart")
  /\ UNCHANGED <<tlb_index, tlb, fault, mem, cpuVars, procVars, allocVars, loc, retired>>

LoadAndPopulate(t) ==
  \/ LoadOff(t) \/ LoadMap(t) \/ LoadOn(t) \/ LoadRead(t)
  \/ PopulateOff(t) \/ PopulateWrite(t) \/ PopulateOn(t)
-----------------------------------------------------------------------------
(* The user program.  An instruction accesses a page of its address space   *)
(* and then takes effect, or is a system call; the interrupt lines are      *)
(* sampled at its fetch, and once more by scall's iv_o.                     *)
FetchInstruction ==
  /\ running = "user" /\ irqs = {}
  /\ \/ /\ running' = "access"
        /\ \E v \in Pages, k \in RW : op' = [page |-> v, kind |-> k]
     \/ running' = "scall" /\ UNCHANGED op
  /\ UNCHANGED <<mmuVars, regs, int_en, irqs, frame, procVars, allocVars,
                 threadVars, retired>>

Access ==
  /\ running = "access" /\ 0 \notin irqs
  /\ Permits(op.page, op.kind)
  /\ running' = "user"
  /\ \E r \in UserRegs : regs' = r
  /\ retired' = 1 - retired
  /\ mem' = IF op.kind = "w" THEN [mem EXCEPT ![Phys(op.page)] = Other] ELSE mem
  /\ op' = NoOp
  /\ UNCHANGED <<paging, tlb_index, tlb, fault, int_en, irqs, frame, procVars,
                 allocVars, threadVars>>

AccessFaults ==             \* CPUFault: set_int(0), disable_pg()
  /\ running = "access" /\ 0 \notin irqs
  /\ ~Permits(op.page, op.kind)
  /\ fault' = [idx |-> tlb_index, page |-> op.page, cause |-> op.kind]
  /\ irqs' = irqs \cup {0}
  /\ paging' = FALSE
  /\ UNCHANGED <<tlb_index, tlb, mem, running, regs, int_en, frame, op, procVars,
                 allocVars, threadVars, retired>>

PageFault_ReadOnly ==       \* mutant: a write fault grants reading only
  /\ running = "access" /\ int_en /\ Raised(0)
  /\ write_tlb(fault.idx, fault.page, P + fault.page, {"r"})
  /\ irqs' = {} /\ paging' = TRUE
  /\ fault' = NoFault
  /\ UNCHANGED <<tlb_index, mem, running, regs, int_en, frame, op, procVars,
                 allocVars, threadVars, retired>>

(* interrupts.c: page_fault; iretf resumes the access that faulted. *)
PageFault ==
  /\ running = "access" /\ int_en /\ Raised(0)
  /\ write_tlb(fault.idx, fault.page, P + fault.page,
               IF fault.cause = "w" THEN RW ELSE {"r"})
  /\ irqs' = {} /\ paging' = TRUE
  /\ fault' = NoFault             \* read by the handler only
  /\ UNCHANGED <<tlb_index, mem, running, regs, int_en, frame, op, procVars,
                 allocVars, threadVars, retired>>
-----------------------------------------------------------------------------
(* Devices: the timer and the console raise their lines at any time. *)
RaiseTick ==
  /\ 1 \notin irqs
  /\ irqs' = irqs \cup {1}
  /\ UNCHANGED <<mmuVars, running, regs, int_en, frame, op, procVars, allocVars,
                 threadVars, retired>>

RaiseUart ==
  /\ 3 \notin irqs
  /\ irqs' = irqs \cup {3}
  /\ UNCHANGED <<mmuVars, running, regs, int_en, frame, op, procVars, allocVars,
                 threadVars, retired>>

(* uart.c: uart_isr, of which only the return matters here. *)
UartIsr ==
  /\ AtFetch /\ Raised(3)
  /\ Handled(Interrupted)
  /\ UNCHANGED <<tlb_index, tlb, fault, mem, op, procVars, allocVars, threadVars,
                 retired>>
-----------------------------------------------------------------------------
(* interrupts.c: tick_isr, and proc.c: sched. *)
Runnable == {q \in Slots : p_list[q].status = PROCESS_RUN}

(* The first runnable slot after current_proc_idx, 0xff wrapping to 0. *)
NextProc ==
  LET s == IF current_proc_idx = NONE THEN 0 ELSE current_proc_idx + 1
      ahead == {d \in 0 .. N_PROC - 1 : (s + d) % N_PROC \in Runnable}
  IN (s + LeastOr(ahead, 0)) % N_PROC

(* Mutant: the counter is read but never stepped down. *)
TicksLeft_Stuck == ticks_to_next_switch
TicksLeft == (ticks_to_next_switch + TICKW - 1) % TICKW

TickOnly ==                 \* no switch yet
  /\ AtFetch /\ Raised(1)
  /\ \/ ~do_switch /\ UNCHANGED ticks_to_next_switch
     \/ do_switch /\ TicksLeft > 0 /\ ticks_to_next_switch' = TicksLeft
  /\ Handled(Interrupted)
  /\ UNCHANGED <<tlb_index, tlb, fault, mem, op, p_list, current_proc_idx,
                 do_switch, allocVars, threadVars, retired>>

TickSwitch ==               \* sched() would spin if no slot were runnable
  /\ AtFetch /\ Raised(1)
  /\ do_switch /\ TicksLeft = 0 /\ Runnable # {}
  /\ ticks_to_next_switch' = TICKS_TO_SWITCH
  /\ p_list' = IF current_proc_idx = NONE THEN p_list
               ELSE [p_list EXCEPT ![current_proc_idx].ctx = Interrupted]
  /\ current_proc_idx' = NextProc
  /\ tlb_index' = p_list[NextProc].tlb_index
  /\ Handled(p_list'[NextProc].ctx)
  /\ UNCHANGED <<tlb, fault, mem, op, do_switch, allocVars, threadVars, retired>>
-----------------------------------------------------------------------------
(* syscall.c: syscall_isr, reached when no line is up at scall's iv_o. *)
SCall == running = "scall" /\ irqs = {}

Returned_Wide == [regs EXCEPT !.pc = @ + 1]     \* mutant: PC wider than 16 bits
Returned == [regs EXCEPT !.pc = (@ + 1) % NPC]      \* *ISR_CTX_PC += 1

(* What each table entry leaves in the frame; ids out of range only advance. *)
Answers ==
  LET r == Returned IN
  CASE regs.a \in {0, 1, 3} -> {[r EXCEPT !.a = 0]}    \* none, putchar, stats
    [] regs.a = 2 -> {[r EXCEPT !.a = 0, !.b = c] : c \in Bytes}     \* getchar
    [] regs.a = 4 -> {[r EXCEPT !.a = 0,                             \* fork
                        !.b = IF find_free_proc = 0 THEN 255 ELSE @]}
    [] OTHER -> {r}

SCallReturns ==
  /\ SCall /\ regs.a # 5
  /\ \E r \in Answers : Handled([who |-> "user", r |-> r])
  /\ retired' = 1 - retired
  /\ UNCHANGED <<tlb_index, tlb, fault, mem, op, procVars, allocVars, threadVars>>

SCallExec ==                \* the handler enters sys_exec
  /\ SCall /\ regs.a = 5
  /\ frame' = [who |-> "user", r |-> Returned]
  /\ running' = "exec" /\ int_en' = FALSE /\ paging' = FALSE
  /\ Goto("exec", "path")
  /\ loc' = [loc EXCEPT !["exec"] = [slot |-> current_proc_idx, i |-> 0, file |-> 0]]
  /\ UNCHANGED <<tlb_index, tlb, fault, mem, regs, irqs, op, procVars, allocVars,
                 retired>>

ExecPath_UserTlb ==         \* mutant: write_tlb_index(0) forgotten
  /\ At("exec", "path")
  /\ write_tlb(0, WIN, p_list[current_proc_idx].pages[frame.r.x], RW)
  /\ paging' = TRUE
  /\ Goto("exec", "stat")
  /\ UNCHANGED <<tlb_index, fault, mem, cpuVars, procVars, allocVars, loc, retired>>

(* sys_exec: to address space 0, and copy the path through the window. *)
ExecPath ==
  /\ At("exec", "path")
  /\ tlb_index' = 0
  /\ write_tlb(0, WIN, p_list[current_proc_idx].pages[frame.r.x], RW)
  /\ paging' = TRUE
  /\ Goto("exec", "stat")
  /\ UNCHANGED <<fault, mem, cpuVars, procVars, allocVars, loc, retired>>

ExecPathHalts ==            \* the 16 bytes of the path cross a page: hlt
  /\ At("exec", "path")
  /\ tlb_index' = 0
  /\ running' = "hlt"
  /\ UNCHANGED <<paging, tlb, fault, mem, regs, int_en, irqs, frame, op, procVars,
                 allocVars, threadVars, retired>>

ExecStat ==
  /\ At("exec", "stat")
  /\ \/ /\ \E f \in Files : SetLoc("exec", "file", f)
        /\ Goto("exec", "swap_pages")
        /\ UNCHANGED <<paging, tlb_index, running, regs, int_en, irqs, frame, retired>>
     \/ /\ tlb_index' = p_list[current_proc_idx].tlb_index
        /\ Iret([who |-> "user", r |-> [frame.r EXCEPT !.a = 0, !.b = 1]])
        /\ loc' = [loc EXCEPT !["exec"] = NoLocals] /\ Goto("exec", "path")
        /\ retired' = 1 - retired
        /\ UNCHANGED irqs
  /\ UNCHANGED <<tlb, fault, mem, op, procVars, allocVars>>

SwapPages ==                \* a page is given up before the next is found
  /\ At("exec", "swap_pages")
  /\ LET l == loc["exec"] IN
       \/ /\ l.i < P
          /\ GivePage(l.slot, l.i, Dec(page_refcount, p_list[l.slot].pages[l.i]))
          /\ SetLoc("exec", "i", l.i + 1)
          /\ UNCHANGED pc
       \/ /\ l.i = P
          /\ SetLoc("exec", "i", 0) /\ Goto("exec", "load_off")
          /\ UNCHANGED <<p_list, page_refcount>>
  /\ UNCHANGED <<mmuVars, cpuVars, current_proc_idx, do_switch,
                 ticks_to_next_switch, tlb_map, retired>>

ExecRestart ==              \* *ISR_CTX_PC = 0, own TLB, ISR_EPILOG
  /\ At("exec", "restart")
  /\ tlb_index' = p_list[current_proc_idx].tlb_index
  /\ Iret([who |-> "user", r |-> [frame.r EXCEPT !.pc = 0]])
  /\ loc' = [loc EXCEPT !["exec"] = NoLocals]
  /\ Goto("exec", "path")
  /\ retired' = 1 - retired
  /\ UNCHANGED <<irqs, tlb, fault, mem, op, procVars, allocVars>>
-----------------------------------------------------------------------------
Boot == InitProc \/ InitMmu \/ InitInterrupts \/ ChooseInitOrShell \/ ShellExec

StartInit ==
  \/ AllocProc \/ SetRun \/ AllocTlb \/ SetPc \/ AllocPages \/ MainStat
  \/ LoadAndPopulate("main") \/ StartSched

SysExec ==
  \/ ExecPath \/ ExecPathHalts \/ ExecStat \/ SwapPages
  \/ LoadAndPopulate("exec") \/ ExecRestart

User == FetchInstruction \/ Access \/ AccessFaults

Isr == PageFault \/ UartIsr \/ TickOnly \/ TickSwitch \/ SCallReturns \/ SCallExec

Device == RaiseTick \/ RaiseUart

Next == Boot \/ StartInit \/ SysExec \/ User \/ Isr \/ Device

Spec == Init /\ [][Next]_vars

(* The CPU executes on, the timer ticks on, and two ticks are far enough      *)
(* apart (0x10000 cycles) for the interrupted code to advance between them.   *)
FairSpec ==
  /\ Spec
  /\ SF_vars(StartInit) /\ WF_vars(SysExec) /\ SF_vars(User)
  /\ WF_vars(Isr) /\ WF_vars(RaiseTick)
-----------------------------------------------------------------------------
(* Properties. *)

(* Every variable keeps its type: in particular no page number, counter or   *)
(* label leaves the range the code's unsigned chars and control flow allow.  *)
TypeOK ==
  /\ running \in Modes /\ regs \in Regs /\ int_en \in BOOLEAN
  /\ irqs \subseteq {0, 1, 3}
  /\ paging \in BOOLEAN /\ tlb_index \in TlbIdx
  /\ tlb \in [TlbIdx -> [Pages -> Entry]]
  /\ fault \in [idx : TlbIdx, page : Pages, cause : RW]
  /\ mem \in [PhysPages -> Contents]
  /\ frame \in Context
  /\ op \in [page : Pages, kind : RW]
  /\ p_list \in [Slots -> Process]
  /\ current_proc_idx \in Slots \cup {NONE} /\ do_switch \in BOOLEAN
  /\ ticks_to_next_switch \in 0 .. TICKW - 1
  /\ page_refcount \in [PhysPages -> 0 .. 255]
  /\ tlb_map \in [TlbIdx -> {0, 1}]
  /\ pc \in [Threads -> Labels] /\ loc \in [Threads -> Locals]
  /\ retired \in {0, 1}

Booted == pc["main"] \notin {"init_proc", "init_mmu"}

(* kernel_main.c:84, "never return after sched()": once the scheduler has    *)
(* picked a process, kernel main, whose frame nobody saved, never runs       *)
(* again, and no saved context can bring it back.                            *)
MainNeverReturns ==
  Booted /\ current_proc_idx # NONE =>
    /\ running # "main"
    /\ frame.who = "user" \/ running # "exec"
    /\ \A q \in Slots : p_list[q].ctx.who = "user"

(* mmu.c: kernel code stores into TLB and MMU registers through paging, if an *)
(* interrupt taken between MMU_OFF() and MMU_ON() turned it on again (iret    *)
(* ends in ei).  The stores land all the same, because the kernel then runs   *)
(* in TLB 0, whose I/O pages stay mapped onto themselves; and whenever data   *)
(* is copied through the window, it shows the page that was meant.            *)
KernelReaches ==
  running \in Threads /\ Booted =>
    /\ Reaches(IOPAGE)
    /\ pc[running] = "load_read" =>
         /\ Permits(WIN, "w")
         /\ Phys(WIN) = p_list[Slot(running)].pages[loc[running].i]
    /\ running = "exec" /\ pc["exec"] = "stat" =>
         Phys(WIN) = p_list[current_proc_idx].pages[frame.r.x]

(* interrupts.c:77 and 81 map page 0x10 + page, mmu.c:89 maps pages[page]:   *)
(* while the program runs, each entry of its TLB shows its own page of the   *)
(* process table, never a kernel page, and never the kernel's TLB 0.         *)
UserSpace ==
  running \in UserModes =>
    /\ current_proc_idx \in Slots
    /\ tlb_index = p_list[current_proc_idx].tlb_index /\ tlb_index # 0
    /\ \A v \in Pages :
         /\ tlb[tlb_index][v].page = p_list[current_proc_idx].pages[v]
         /\ tlb[tlb_index][v].page >= P
         /\ "r" \in tlb[tlb_index][v].flags

(* mmu.c: a page is counted once if the process table holds it and not at    *)
(* all otherwise, and no two entries of the table hold the same page.        *)
PagesCounted ==
  Booted =>
    \A p \in P .. PHYS - 1 :
      LET holders == {h \in Slots \X Pages : p_list[h[1]].pages[h[2]] = p}
      IN page_refcount[p] = Cardinality(holders) /\ page_refcount[p] <= 1

(* No store of the kernel or of a program ever hits a page of the kernel.    *)
KernelIntact == \A p \in Pages : mem[p] = KernelData

(* proc.c:155: sched() never searches a table without a runnable process,    *)
(* which it would do for ever, and with interrupts disabled.                 *)
SchedFinds == do_switch => Runnable # {}

(* When a program starts, each of its pages holds its part of the file       *)
(* sys_exec or start_init was asked for.                                     *)
Loaded(t) ==
  loc[t].file # 0 =>
    \A k \in 0 .. FileSize[loc[t].file] - 1 :
      mem'[p_list'[current_proc_idx'].pages[k]] = Chunk(loc[t].file, k)
ProgramLoaded ==
  [][ running' = "user" =>
        /\ running = "main" => Loaded("main")
        /\ running = "exec" /\ pc["exec"] = "restart" => Loaded("exec") ]_vars

(* The program sees the machine ProcessView describes: interrupts, faults    *)
(* and switches are invisible, each scall takes effect exactly once.         *)
View ==
  IF running \in UserModes THEN regs
  ELSE IF running = "main" THEN StartRegs
  ELSE [frame.r EXCEPT !.pc = (@ + NPC - 1) % NPC]
PV == INSTANCE ProcessView WITH uregs <- View
ImplementsView == PV!PVSpec

(* Once start_init has a process, that process gets the CPU. *)
InitRuns == running = "main" /\ pc["main"] = "alloc_proc" ~> running = "user"

(* A faulting access is retried until it takes effect. *)
FaultResolved == running = "access" ~> running = "user"

(* sys_exec returns to the program, unless it stopped the machine. *)
ExecEnds == running = "exec" ~> running \in {"user", "hlt"}
=============================================================================
