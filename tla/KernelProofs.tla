---------------------------- MODULE KernelProofs ----------------------------
(***************************************************************************)
(* Proofs about Kernel for address spaces, process tables, TLBs and files  *)
(* of every size: type correctness, that kernel main never runs again once *)
(* a process has been picked, and that the scheduler's search always ends. *)
(***************************************************************************)
EXTENDS Kernel, LeastProofs

(* Who runs.  main is suspended exactly while the scheduler has picked a    *)
(* process; before init_interrupts nothing can interrupt it.                *)
Control ==
  /\ pc["main"] = "init_proc" => running = "main" /\ ~int_en
  /\ pc["main"] # "init_proc" => (running = "main" <=> current_proc_idx = NONE)
  /\ running = "exec" => frame.who = "user"
  /\ \A q \in Slots : p_list[q].ctx.who = "user"

(* A thread loads a file that exists, and a part that the file has. *)
LoadingIn(t) ==
  /\ pc[t] \in LoadLabels \cup {"swap_pages"} => loc[t].file \in Files
  /\ pc[t] \in LoadLabels \ {"load_off"} => loc[t].i < FileSize[loc[t].file]
Loading == \A t \in Threads : LoadingIn(t)

(* After set_run, main's process is runnable; do_switch comes later still. *)
AfterSetRun ==
  {"alloc_tlb", "set_pc", "alloc_pages", "stat"}
    \cup LoadLabels \cup PopulateLabels \cup StartLabels
Started ==
  /\ pc["main"] \in AfterSetRun => p_list[loc["main"].slot].status = PROCESS_RUN
  /\ do_switch => Runnable # {}

IInv == TypeOK /\ Control /\ Loading /\ Started
-----------------------------------------------------------------------------
(* Constants. *)
LEMMA Constants ==
  /\ P \in Nat /\ PHYS \in Nat /\ N_PROC \in Nat \ {0} /\ N_TLB \in Nat \ {0, 1}
  /\ Pages \subseteq PhysPages /\ 0 \in Pages /\ 0 \in TlbIdx /\ 0 \in Slots
  /\ \A v \in Pages : P + v \in PhysPages
  /\ NONE \in Nat /\ NONE \notin Slots
  /\ StartRegs \in Regs /\ UserRegs \subseteq Regs
BY KernelAssumption DEF Pages, PhysPages, TlbIdx, Slots, NONE, StartRegs, Regs, NR_SYSCALL

(* The search for a least element finds one if there is one. *)
LEMMA LeastOrIn ==
  ASSUME NEW S \in SUBSET Nat, NEW d
  PROVE  /\ S = {} => LeastOr(S, d) = d
         /\ S # {} => LeastOr(S, d) \in S /\ \A m \in S : LeastOr(S, d) <= m
         /\ d \in Nat => LeastOr(S, d) \in Nat
<1>1. CASE S = {}
  BY <1>1 DEF LeastOr
<1>2. CASE S # {}
  <2>1. \E n \in S : \A m \in S : n <= m
    BY <1>2, LeastExists
  <2> QED BY <1>2, <2>1 DEF LeastOr
<1> QED BY <1>1, <1>2

(* What the searches of proc.c and mmu.c return. *)
LEMMA Searches ==
  /\ find_free_proc \in Slots \cup {NONE}
  /\ \A rc : find_free_page(rc) \in PhysPages
  /\ get_free_tlb \in TlbIdx
  /\ get_new_pid \in Nat
<1>1. find_free_proc \in Slots \cup {NONE}
  <2>1. {q \in Slots : p_list[q].status = PROCESS_NONE} \in SUBSET Nat
    BY DEF Slots
  <2> QED BY <2>1, LeastOrIn DEF find_free_proc
<1>2. ASSUME NEW rc PROVE find_free_page(rc) \in PhysPages
  <2> DEFINE S == {p \in P .. PHYS - 1 : rc[p] = 0}
  <2>1. S \in SUBSET Nat /\ S \subseteq PhysPages /\ 0 \in PhysPages
    BY Constants DEF PhysPages
  <2>2. find_free_page(rc) = LeastOr(S, 0)
    BY DEF find_free_page
  <2> HIDE DEF S
  <2>3. CASE S = {}
    BY <2>1, <2>2, <2>3, LeastOrIn
  <2>4. CASE S # {}
    BY <2>1, <2>2, <2>4, LeastOrIn
  <2> QED BY <2>3, <2>4
<1>3. get_free_tlb \in TlbIdx
  <2>1. {t \in 1 .. N_TLB - 1 : tlb_map[t] = 0} \in SUBSET Nat /\ 1 .. N_TLB - 1 \subseteq TlbIdx
    BY Constants DEF TlbIdx
  <2> QED BY <2>1, LeastOrIn, Constants DEF get_free_tlb
<1>4. get_new_pid \in Nat
  <2> DEFINE S == {n \in 1 .. N_PROC + 1 :
                     \A q \in Slots : p_list[q].pid = n => p_list[q].status = PROCESS_NONE}
  <2>1. S \in SUBSET Nat
    OBVIOUS
  <2> HIDE DEF S
  <2>2. LeastOr(S, 0) \in Nat
    BY <2>1, LeastOrIn
  <2> QED BY <2>2, Zenon DEF get_new_pid, S
<1> QED BY <1>1, <1>2, <1>3, <1>4

(* sched() picks a slot of the table, a runnable one if there is one. *)
LEMMA SchedPicks ==
  ASSUME current_proc_idx \in Slots \cup {NONE}
  PROVE  NextProc \in Slots
<1> DEFINE s == IF current_proc_idx = NONE THEN 0 ELSE current_proc_idx + 1
           ahead == {d \in 0 .. N_PROC - 1 : (s + d) % N_PROC \in Runnable}
<1>1. s \in Nat
  BY Constants DEF Slots
<1>2. ahead \in SUBSET Nat
  OBVIOUS
<1> HIDE DEF s, ahead
<1>3. LeastOr(ahead, 0) \in Nat
  BY <1>2, LeastOrIn
<1>4. (s + LeastOr(ahead, 0)) % N_PROC \in 0 .. N_PROC - 1
  <2>1. \A n \in Nat : n % N_PROC \in 0 .. N_PROC - 1
    BY Constants
  <2>2. s + LeastOr(ahead, 0) \in Nat
    BY <1>1, <1>3
  <2> QED BY <2>1, <2>2
<1> QED BY <1>4 DEF NextProc, Slots, s, ahead
-----------------------------------------------------------------------------
(* The primitives the actions are built from keep the types. *)
LEMMA WriteTlbType ==
  ASSUME TypeOK, NEW idx \in TlbIdx, NEW v \in Pages, NEW p \in PhysPages,
         NEW fl \in Flags, write_tlb(idx, v, p, fl)
  PROVE  tlb' \in [TlbIdx -> [Pages -> Entry]]
<1>1. [page |-> p, flags |-> fl] \in Entry
  BY DEF Entry
<1>2. CASE Reaches(IOPAGE)
  BY <1>1, <1>2 DEF write_tlb, TypeOK
<1>3. CASE ~Reaches(IOPAGE)
  BY <1>3 DEF write_tlb, TypeOK
<1> QED BY <1>2, <1>3

LEMMA PhysType ==
  ASSUME TypeOK, NEW v \in Pages
  PROVE  Phys(v) \in PhysPages
BY Constants DEF Phys, TypeOK, Entry

LEMMA SetPagingType ==
  ASSUME TypeOK, NEW on \in BOOLEAN, SetPaging(on)
  PROVE  paging' \in BOOLEAN
BY DEF SetPaging, TypeOK

LEMMA SetLocI ==
  ASSUME TypeOK, NEW t \in Threads, NEW v \in 0 .. P, SetLoc(t, "i", v)
  PROVE  /\ loc' \in [Threads -> Locals]
         /\ loc'[t].i = v /\ loc'[t].slot = loc[t].slot /\ loc'[t].file = loc[t].file
         /\ \A u \in Threads : u # t => loc'[u] = loc[u]
<1>1. loc \in [Threads -> Locals] /\ loc[t] \in Locals
  BY DEF TypeOK
<1>2. [loc[t] EXCEPT !.i = v] \in Locals
  BY <1>1 DEF Locals
<1>3. loc' = [loc EXCEPT ![t].i = v]
  BY DEF SetLoc
<1>4. loc'[t] = [loc[t] EXCEPT !.i = v]
  BY <1>1, <1>3
<1>5. loc' \in [Threads -> Locals]
  BY <1>1, <1>2, <1>3
<1>6. \A u \in Threads : u # t => loc'[u] = loc[u]
  BY <1>1, <1>3
<1> QED BY <1>1, <1>4, <1>5, <1>6 DEF Locals

LEMMA SetLocFile ==
  ASSUME TypeOK, NEW t \in Threads, NEW f \in Files \cup {0}, SetLoc(t, "file", f)
  PROVE  /\ loc' \in [Threads -> Locals]
         /\ loc'[t].file = f /\ loc'[t].slot = loc[t].slot /\ loc'[t].i = loc[t].i
         /\ \A u \in Threads : u # t => loc'[u] = loc[u]
BY DEF SetLoc, TypeOK, Locals

LEMMA GotoType ==
  ASSUME TypeOK, NEW t \in Threads, NEW l \in Labels, Goto(t, l)
  PROVE  /\ pc' \in [Threads -> Labels] /\ pc'[t] = l
         /\ \A u \in Threads : u # t => pc'[u] = pc[u]
BY DEF Goto, TypeOK

(* iret to a saved context. *)
LEMMA IretType ==
  ASSUME NEW ctx \in Context, Iret(ctx)
  PROVE  /\ running' \in Modes /\ regs' \in Regs /\ int_en' \in BOOLEAN
         /\ paging' \in BOOLEAN /\ frame' \in Context
<1>1. ctx.who \in {"main", "user"} /\ ctx.r \in Regs
  BY DEF Context
<1>2. running' = ctx.who /\ regs' = ctx.r /\ int_en' = TRUE /\ paging' = TRUE /\ frame' = NoFrame
  BY DEF Iret
<1>3. {"main", "user"} \subseteq Modes
  BY DEF Modes, UserModes, Threads
<1>4. NoFrame \in Context
  BY Constants DEF NoFrame, Context
<1> QED BY <1>1, <1>2, <1>3, <1>4

LEMMA InterruptedType ==
  ASSUME TypeOK PROVE Interrupted \in Context
BY DEF Interrupted, TypeOK, Context

LEMMA ReturnedType ==
  ASSUME TypeOK
  PROVE  /\ Returned \in Regs
         /\ \A r \in Answers : r \in Regs
<1>1. (regs.pc + 1) % NPC \in 0 .. NPC - 1
  BY KernelAssumption DEF TypeOK, Regs
<1>2. Returned \in Regs
  BY <1>1 DEF Returned, TypeOK, Regs
<1>3. 0 \in 0 .. NR_SYSCALL /\ 255 \in Bytes
  BY KernelAssumption DEF NR_SYSCALL
<1>4. \A r \in Answers : r \in Regs
  <2>1. \A c \in Bytes : [Returned EXCEPT !.a = 0, !.b = c] \in Regs
    BY <1>2, <1>3 DEF Regs
  <2>2. [Returned EXCEPT !.a = 0] \in Regs
    BY <1>2, <1>3 DEF Regs
  <2>3. [Returned EXCEPT !.a = 0, !.b = IF find_free_proc = 0 THEN 255 ELSE @] \in Regs
    <3>1. (IF find_free_proc = 0 THEN 255 ELSE Returned.b) \in Bytes
      BY <1>2, <1>3 DEF Regs
    <3> QED BY <2>1, <3>1
  <2>4. CASE regs.a \in {0, 1, 3}
    <3>1. regs.a # 2 /\ regs.a # 4
      BY <2>4
    <3>2. Answers = {[Returned EXCEPT !.a = 0]}
      BY <2>4, <3>1 DEF Answers
    <3> QED BY <2>2, <3>2, Zenon
  <2>5. CASE regs.a = 2
    <3>1. Answers = {[Returned EXCEPT !.a = 0, !.b = c] : c \in Bytes}
      BY <2>5 DEF Answers
    <3> QED BY <2>1, <3>1, Zenon
  <2>6. CASE regs.a = 4
    <3>1. Answers = {[Returned EXCEPT !.a = 0, !.b = IF find_free_proc = 0 THEN 255 ELSE @]}
      BY <2>6 DEF Answers
    <3> QED BY <2>3, <3>1, Zenon
  <2>7. CASE regs.a \notin {0, 1, 2, 3, 4}
    BY <1>2, <2>7 DEF Answers
  <2> QED BY <2>4, <2>5, <2>6, <2>7
<1> QED BY <1>2, <1>4
-----------------------------------------------------------------------------
LEMMA InitIInv == Init => IInv
<1> SUFFICES ASSUME Init PROVE IInv
  OBVIOUS
<1>1. TypeOK
  <2>1. EmptyProcess \in Process
    BY Constants DEF EmptyProcess, Process, Context, PROCESS_NONE, PROCESS_DEAD
  <2>2. NoFrame \in Context /\ NoFault \in [idx : TlbIdx, page : Pages, cause : RW]
        /\ NoOp \in [page : Pages, kind : RW] /\ NoLocals \in Locals
    BY Constants DEF NoFrame, NoFault, NoOp, NoLocals, Context, RW, Locals
  <2>3. [page |-> 0, flags |-> {}] \in Entry
    BY Constants DEF Entry, Flags
  <2>4. KernelData \in Contents /\ Other \in Contents
    BY DEF KernelData, Other, Chunk, Contents
  <2>5. running \in Modes /\ regs \in Regs /\ int_en \in BOOLEAN /\ irqs \subseteq {0, 1, 3}
        /\ paging \in BOOLEAN /\ tlb_index \in TlbIdx
    BY Constants DEF Init, Modes, Threads
  <2>6. tlb \in [TlbIdx -> [Pages -> Entry]]
    <3>1. [v \in Pages |-> [page |-> 0, flags |-> {}]] \in [Pages -> Entry]
      BY <2>3
    <3> QED BY <3>1 DEF Init
  <2>7. mem \in [PhysPages -> Contents]
    BY <2>4 DEF Init
  <2>8. p_list \in [Slots -> Process]
    BY <2>1 DEF Init
  <2>9. current_proc_idx \in Slots /\ do_switch \in BOOLEAN
        /\ ticks_to_next_switch \in 0 .. TICKW - 1
    <3>1. 0 \in 0 .. TICKW - 1
      BY KernelAssumption
    <3> QED BY <3>1, Constants DEF Init
  <2>10. page_refcount \in [PhysPages -> 0 .. 255] /\ tlb_map \in [TlbIdx -> {0, 1}]
         /\ retired \in {0, 1}
    BY DEF Init
  <2>11. pc \in [Threads -> Labels] /\ loc \in [Threads -> Locals]
    BY <2>2 DEF Init, Threads, Labels, MainLabels, ExecLabels
  <2> QED BY <2>2, <2>5, <2>6, <2>7, <2>8, <2>9, <2>10, <2>11 DEF Init, TypeOK
<1>2. Control
  BY DEF Init, Control, EmptyProcess
<1>3. Loading
  BY DEF Init, Loading, LoadingIn, Threads, LoadLabels
<1>4. Started
  BY DEF Init, Started, AfterSetRun, LoadLabels, PopulateLabels, StartLabels
<1> QED BY <1>1, <1>2, <1>3, <1>4 DEF IInv
-----------------------------------------------------------------------------
(* Types are kept, by group of actions. *)
LEMMA BootType == TypeOK /\ Boot => TypeOK'
<1> SUFFICES ASSUME TypeOK, Boot PROVE TypeOK'
  OBVIOUS
<1> USE DEF mmuVars, cpuVars, procVars, allocVars
<1>1. "main" \in Threads /\ {"init_mmu", "init_interrupts", "getc", "alloc_proc", "shell"} \subseteq Labels
  BY DEF Threads, Labels, MainLabels
<1>2. CASE InitProc
  <2>1. EmptyProcess \in Process
    BY Constants DEF EmptyProcess, Process, Context, PROCESS_NONE, PROCESS_DEAD
  <2>2. p_list' \in [Slots -> Process] /\ current_proc_idx' \in Slots \cup {NONE} /\ do_switch' \in BOOLEAN
    BY <1>2, <2>1 DEF InitProc
  <2>3. pc' \in [Threads -> Labels]
    BY <1>1, <1>2, GotoType DEF InitProc
  <2> QED BY <1>2, <2>2, <2>3 DEF InitProc, TypeOK
<1>3. CASE InitMmu
  <2>1. tlb' \in [TlbIdx -> [Pages -> Entry]]
    <3>1. [v \in Pages |-> [page |-> v, flags |-> RW]] \in [Pages -> Entry]
      BY Constants DEF Entry, Flags, RW
    <3> QED BY <1>3, <3>1 DEF InitMmu, TypeOK
  <2>2. page_refcount' \in [PhysPages -> 0 .. 255]
    BY <1>3 DEF InitMmu
  <2>3. pc' \in [Threads -> Labels]
    BY <1>1, <1>3, GotoType DEF InitMmu
  <2>4. tlb_index' \in TlbIdx /\ paging' \in BOOLEAN
    BY <1>3, Constants DEF InitMmu
  <2> QED BY <1>3, <2>1, <2>2, <2>3, <2>4 DEF InitMmu, TypeOK
<1>4. CASE InitInterrupts
  <2>1. pc' \in [Threads -> Labels]
    BY <1>1, <1>4, GotoType DEF InitInterrupts
  <2> QED BY <1>4, <2>1 DEF InitInterrupts, TypeOK
<1>5. CASE ChooseInitOrShell
  <2>1. pc' \in [Threads -> Labels]
    BY <1>1, <1>5, GotoType DEF ChooseInitOrShell
  <2> QED BY <1>5, <2>1 DEF ChooseInitOrShell, TypeOK
<1>6. CASE ShellExec
  <2>1. pc' \in [Threads -> Labels]
    BY <1>1, <1>6, GotoType DEF ShellExec
  <2> QED BY <1>6, <2>1 DEF ShellExec, TypeOK
<1> QED BY <1>2, <1>3, <1>4, <1>5, <1>6 DEF Boot

(* The process table: one field of one slot. *)
LEMMA SlotType ==
  ASSUME TypeOK, NEW q \in Slots
  PROVE  /\ \A n \in Nat : [p_list EXCEPT ![q].pid = n] \in [Slots -> Process]
         /\ \A s \in PROCESS_NONE .. PROCESS_DEAD :
              [p_list EXCEPT ![q].status = s] \in [Slots -> Process]
         /\ \A x \in TlbIdx : [p_list EXCEPT ![q].tlb_index = x] \in [Slots -> Process]
         /\ [p_list EXCEPT ![q].ctx.r.pc = 0] \in [Slots -> Process]
         /\ \A c \in Context : [p_list EXCEPT ![q].ctx = c] \in [Slots -> Process]
         /\ \A v \in Pages, p \in PhysPages :
              [p_list EXCEPT ![q].pages[v] = p] \in [Slots -> Process]
<1>1. p_list \in [Slots -> Process] /\ p_list[q] \in Process
  BY DEF TypeOK
<1>2. \A r \in Process :
        /\ \A n \in Nat : [r EXCEPT !.pid = n] \in Process
        /\ \A s \in PROCESS_NONE .. PROCESS_DEAD : [r EXCEPT !.status = s] \in Process
        /\ \A x \in TlbIdx : [r EXCEPT !.tlb_index = x] \in Process
        /\ \A c \in Context : [r EXCEPT !.ctx = c] \in Process
  BY DEF Process
<1>3. [p_list[q] EXCEPT !.ctx.r.pc = 0] \in Process
  <2>1. 0 \in 0 .. NPC - 1
    BY KernelAssumption
  <2> QED BY <1>1, <2>1 DEF Process, Context, Regs
<1>4. \A v \in Pages, p \in PhysPages : [p_list[q] EXCEPT !.pages[v] = p] \in Process
  BY <1>1 DEF Process
<1>5. \A n \in Nat : [p_list EXCEPT ![q].pid = n] \in [Slots -> Process]
  BY <1>1, <1>2
<1>6. \A s \in PROCESS_NONE .. PROCESS_DEAD : [p_list EXCEPT ![q].status = s] \in [Slots -> Process]
  BY <1>1, <1>2
<1>7. \A x \in TlbIdx : [p_list EXCEPT ![q].tlb_index = x] \in [Slots -> Process]
  BY <1>1, <1>2
<1>8. [p_list EXCEPT ![q].ctx.r.pc = 0] \in [Slots -> Process]
  BY <1>1, <1>3
<1>9. \A c \in Context : [p_list EXCEPT ![q].ctx = c] \in [Slots -> Process]
  BY <1>1, <1>2
<1>10. \A v \in Pages, p \in PhysPages : [p_list EXCEPT ![q].pages[v] = p] \in [Slots -> Process]
  BY <1>1, <1>4
<1> QED BY <1>5, <1>6, <1>7, <1>8, <1>9, <1>10

(* A round of the page loop. *)
LEMMA GivePageType ==
  ASSUME TypeOK, NEW q \in Slots, NEW v \in Pages,
         NEW rc \in [PhysPages -> 0 .. 255], GivePage(q, v, rc)
  PROVE  p_list' \in [Slots -> Process] /\ page_refcount' \in [PhysPages -> 0 .. 255]
<1>1. find_free_page(rc) \in PhysPages
  BY Searches
<1>2. p_list' = [p_list EXCEPT ![q].pages[v] = find_free_page(rc)]
      /\ page_refcount' = Inc(rc, find_free_page(rc))
  BY DEF GivePage
<1>3. \A p \in PhysPages : Inc(rc, p) \in [PhysPages -> 0 .. 255]
  BY DEF Inc
<1> QED BY <1>1, <1>2, <1>3, SlotType

LEMMA DecType ==
  ASSUME NEW rc \in [PhysPages -> 0 .. 255], NEW p \in PhysPages
  PROVE  Dec(rc, p) \in [PhysPages -> 0 .. 255]
BY DEF Dec

LEMMA LocalsType ==
  ASSUME TypeOK, NEW t \in Threads
  PROVE  /\ loc[t].slot \in Slots /\ loc[t].i \in 0 .. P /\ loc[t].file \in Files \cup {0}
         /\ 0 \in 0 .. P
         /\ loc[t].i < P => loc[t].i \in Pages /\ loc[t].i + 1 \in 0 .. P
BY Constants DEF TypeOK, Locals, Pages

LEMMA StartInitType ==
  TypeOK /\ (AllocProc \/ SetRun \/ AllocTlb \/ SetPc \/ AllocPages \/ MainStat \/ StartSched)
    => TypeOK'
<1> SUFFICES ASSUME TypeOK,
                    AllocProc \/ SetRun \/ AllocTlb \/ SetPc \/ AllocPages \/ MainStat \/ StartSched
             PROVE  TypeOK'
  OBVIOUS
<1> USE DEF mmuVars, cpuVars, procVars, allocVars
<1>1. /\ "main" \in Threads
      /\ {"set_run", "alloc_tlb", "set_pc", "alloc_pages", "stat", "load_off", "pop_off",
          "sched_ticks", "spin"} \subseteq Labels
  BY DEF Threads, Labels, MainLabels, LoadLabels, PopulateLabels, StartLabels
<1>2. /\ loc["main"].slot \in Slots /\ loc["main"].i \in 0 .. P /\ 0 \in 0 .. P
      /\ loc["main"].i < P => loc["main"].i \in Pages /\ loc["main"].i + 1 \in 0 .. P
  BY <1>1, LocalsType
<1>3. CASE AllocProc
  <2>1. PICK q \in Slots : /\ SetLoc("main", "slot", q)
                           /\ p_list' = [p_list EXCEPT ![q].pid = get_new_pid]
    BY <1>3 DEF AllocProc
  <2>2. p_list' \in [Slots -> Process]
    BY <2>1, SlotType, Searches
  <2>3. loc' \in [Threads -> Locals]
    <3>1. loc["main"] \in Locals
      BY <1>1 DEF TypeOK
    <3>2. [loc["main"] EXCEPT !.slot = q] \in Locals
      BY <3>1 DEF Locals
    <3>3. loc' = [loc EXCEPT !["main"].slot = q]
      BY <2>1 DEF SetLoc
    <3> QED BY <1>1, <3>2, <3>3 DEF TypeOK
  <2>4. pc' \in [Threads -> Labels]
    BY <1>1, <1>3, GotoType DEF AllocProc
  <2> QED BY <1>3, <2>2, <2>3, <2>4 DEF AllocProc, TypeOK
<1>4. CASE SetRun
  <2>1. p_list' \in [Slots -> Process]
    <3>1. PROCESS_RUN \in PROCESS_NONE .. PROCESS_DEAD
      BY DEF PROCESS_NONE, PROCESS_RUN, PROCESS_DEAD
    <3>2. p_list' = [p_list EXCEPT ![loc["main"].slot].status = PROCESS_RUN]
      BY <1>4 DEF SetRun
    <3> QED BY <1>2, <3>1, <3>2, SlotType
  <2>2. pc' \in [Threads -> Labels]
    BY <1>1, <1>4, GotoType DEF SetRun
  <2> QED BY <1>4, <2>1, <2>2 DEF SetRun, TypeOK
<1>5. CASE AllocTlb
  <2>1. p_list' \in [Slots -> Process]
    BY <1>2, <1>5, SlotType, Searches DEF AllocTlb
  <2>2. tlb_map' \in [TlbIdx -> {0, 1}]
    BY <1>5 DEF AllocTlb, TypeOK
  <2>3. pc' \in [Threads -> Labels]
    BY <1>1, <1>5, GotoType DEF AllocTlb
  <2> QED BY <1>5, <2>1, <2>2, <2>3 DEF AllocTlb, TypeOK
<1>6. CASE SetPc
  <2>1. p_list' \in [Slots -> Process]
    BY <1>2, <1>6, SlotType DEF SetPc
  <2>2. pc' \in [Threads -> Labels]
    BY <1>1, <1>6, GotoType DEF SetPc
  <2> QED BY <1>6, <2>1, <2>2 DEF SetPc, TypeOK
<1>7. CASE AllocPages
  <2>1. p_list' \in [Slots -> Process] /\ page_refcount' \in [PhysPages -> 0 .. 255]
    <3>1. CASE loc["main"].i < P /\ GivePage(loc["main"].slot, loc["main"].i, page_refcount)
      BY <1>2, <3>1, GivePageType DEF TypeOK
    <3>2. CASE UNCHANGED <<p_list, page_refcount>>
      BY <3>2 DEF TypeOK
    <3> QED BY <1>7, <3>1, <3>2 DEF AllocPages
  <2>2. loc' \in [Threads -> Locals]
    <3>1. CASE loc["main"].i < P /\ SetLoc("main", "i", loc["main"].i + 1)
      BY <1>1, <1>2, <3>1, SetLocI
    <3>2. CASE SetLoc("main", "i", 0)
      BY <1>1, <1>2, <3>2, SetLocI
    <3> QED BY <1>7, <3>1, <3>2 DEF AllocPages
  <2>3. pc' \in [Threads -> Labels]
    <3>1. CASE Goto("main", "stat")
      BY <1>1, <3>1, GotoType
    <3>2. CASE UNCHANGED pc
      BY <3>2 DEF TypeOK
    <3> QED BY <1>7, <3>1, <3>2 DEF AllocPages
  <2> QED BY <1>7, <2>1, <2>2, <2>3 DEF AllocPages, TypeOK
<1>8. CASE MainStat
  <2>1. PICK f \in Files \cup {0}, l \in {"load_off", "pop_off"} :
          SetLoc("main", "file", f) /\ Goto("main", l)
    BY <1>8 DEF MainStat, ProbeFile
  <2>2. loc' \in [Threads -> Locals] /\ pc' \in [Threads -> Labels]
    BY <1>1, <2>1, SetLocFile, GotoType
  <2> QED BY <1>8, <2>2 DEF MainStat, TypeOK
<1>9. CASE StartSched
  <2>1. pc' \in [Threads -> Labels]
    <3>1. Goto("main", "sched_ticks") \/ Goto("main", "spin")
      BY <1>9 DEF StartSched
    <3> QED BY <1>1, <3>1, GotoType
  <2>2. do_switch' \in BOOLEAN /\ ticks_to_next_switch' \in 0 .. TICKW - 1
    <3>1. TICKS_TO_SWITCH \in 0 .. TICKW - 1
      BY KernelAssumption
    <3> QED BY <1>9, <3>1 DEF StartSched, TypeOK
  <2>3. UNCHANGED <<mmuVars, cpuVars, p_list, current_proc_idx, allocVars, loc, retired>>
    BY <1>9 DEF StartSched
  <2> QED BY <2>1, <2>2, <2>3 DEF TypeOK
<1> QED BY <1>3, <1>4, <1>5, <1>6, <1>7, <1>8, <1>9

(* load_process and populate_tlb: i stays within the file, and the file      *)
(* within an address space.                                                  *)
LEMMA LoadType ==
  ASSUME IInv, NEW t \in Threads, LoadAndPopulate(t)
  PROVE  TypeOK'
<1> USE DEF mmuVars, cpuVars, procVars, allocVars, IInv
<1>1. {"load_off", "load_map", "load_on", "load_read", "pop_off", "pop_write", "pop_on",
       "sched_on", "restart"} \subseteq Labels
  BY DEF Labels, LoadLabels, PopulateLabels, StartLabels, ExecLabels
<1>2. /\ loc[t].slot \in Slots /\ loc[t].i \in 0 .. P /\ 0 \in 0 .. P
      /\ loc[t].i < P => loc[t].i \in Pages /\ loc[t].i + 1 \in 0 .. P
      /\ IOPAGE \in Pages /\ WIN \in Pages
  BY LocalsType, KernelAssumption
<1>3. pc[t] \in {"load_map", "load_on", "load_read"} => loc[t].i < P /\ loc[t].file \in Files
  <2>1. SUFFICES ASSUME pc[t] \in {"load_map", "load_on", "load_read"}
                 PROVE  loc[t].i < P /\ loc[t].file \in Files
    OBVIOUS
  <2>2. loc[t].file \in Files /\ loc[t].i < FileSize[loc[t].file]
    BY <2>1 DEF Loading, LoadingIn, LoadLabels
  <2>3. FileSize[loc[t].file] \in 0 .. P
    BY <2>2, KernelAssumption
  <2> QED BY <1>2, <2>2, <2>3, Constants
<1>4. \A v \in Pages : p_list[Slot(t)].pages[v] \in PhysPages /\ p_list[Slot(t)].tlb_index \in TlbIdx
  BY <1>2 DEF TypeOK, Process, Slot
<1>5. RW \in Flags /\ {"r"} \in Flags
  BY DEF RW, Flags
<1>6. CASE LoadOff(t)
  <2>1. paging' \in BOOLEAN
    BY <1>6, SetPagingType DEF LoadOff, TypeOK
  <2>2. pc' \in [Threads -> Labels]
    <3>1. Goto(t, "load_map") \/ Goto(t, "pop_off")
      BY <1>6 DEF LoadOff
    <3> QED BY <1>1, <3>1, GotoType
  <2>3. loc' \in [Threads -> Locals]
    <3>1. SetLoc(t, "i", 0) \/ UNCHANGED loc
      BY <1>6 DEF LoadOff
    <3> QED BY <1>2, <3>1, SetLocI DEF TypeOK
  <2> QED BY <1>6, <2>1, <2>2, <2>3 DEF LoadOff, TypeOK
<1>7. CASE LoadMap(t)
  <2>1. pc[t] = "load_map" /\ Goto(t, "load_on")
        /\ write_tlb(0, WIN, p_list[Slot(t)].pages[loc[t].i], RW)
    BY <1>7 DEF LoadMap, At
  <2>2. p_list[Slot(t)].pages[loc[t].i] \in PhysPages
    BY <1>2, <1>3, <1>4, <2>1
  <2>3. tlb' \in [TlbIdx -> [Pages -> Entry]]
    BY <1>2, <1>5, <2>1, <2>2, WriteTlbType, Constants
  <2>4. pc' \in [Threads -> Labels]
    BY <1>1, <2>1, GotoType
  <2> QED BY <1>7, <2>3, <2>4 DEF LoadMap, TypeOK
<1>8. CASE LoadOn(t)
  <2>1. paging' \in BOOLEAN
    BY <1>8, SetPagingType DEF LoadOn
  <2>2. pc' \in [Threads -> Labels]
    BY <1>1, <1>8, GotoType DEF LoadOn
  <2> QED BY <1>8, <2>1, <2>2 DEF LoadOn, TypeOK
<1>9. CASE LoadRead(t)
  <2>1. pc[t] = "load_read" /\ Goto(t, "load_off") /\ SetLoc(t, "i", loc[t].i + 1)
    BY <1>9 DEF LoadRead, At
  <2>2. loc' \in [Threads -> Locals]
    BY <1>2, <1>3, <2>1, SetLocI
  <2>3. pc' \in [Threads -> Labels]
    BY <1>1, <2>1, GotoType
  <2>4. Chunk(loc[t].file, loc[t].i) \in Contents
    <3>1. loc[t].i \in Nat
      BY <1>2, Constants
    <3> QED BY <1>3, <2>1, <3>1 DEF Chunk, Contents
  <2>5. mem' \in [PhysPages -> Contents]
    BY <1>9, <2>4 DEF LoadRead, TypeOK
  <2> QED BY <1>9, <2>2, <2>3, <2>5 DEF LoadRead, TypeOK
<1>10. CASE PopulateOff(t)
  <2>1. paging' \in BOOLEAN
    BY <1>10, SetPagingType DEF PopulateOff
  <2>2. pc' \in [Threads -> Labels]
    BY <1>1, <1>10, GotoType DEF PopulateOff
  <2> QED BY <1>10, <2>1, <2>2 DEF PopulateOff, TypeOK
<1>11. CASE PopulateWrite(t)
  <2>1. tlb' \in [TlbIdx -> [Pages -> Entry]]
    <3>1. CASE /\ loc[t].i < P
               /\ write_tlb(p_list[Slot(t)].tlb_index, loc[t].i,
                            p_list[Slot(t)].pages[loc[t].i], {"r"})
      BY <1>2, <1>4, <1>5, <3>1, WriteTlbType
    <3>2. CASE UNCHANGED tlb
      BY <3>2 DEF TypeOK
    <3> QED BY <1>11, <3>1, <3>2 DEF PopulateWrite
  <2>2. loc' \in [Threads -> Locals]
    <3>1. CASE loc[t].i < P /\ SetLoc(t, "i", loc[t].i + 1)
      BY <1>2, <3>1, SetLocI
    <3>2. CASE SetLoc(t, "i", 0)
      BY <1>2, <3>2, SetLocI
    <3> QED BY <1>11, <3>1, <3>2 DEF PopulateWrite
  <2>3. pc' \in [Threads -> Labels]
    <3>1. Goto(t, "pop_on") \/ UNCHANGED pc
      BY <1>11 DEF PopulateWrite
    <3> QED BY <1>1, <3>1, GotoType DEF TypeOK
  <2> QED BY <1>11, <2>1, <2>2, <2>3 DEF PopulateWrite, TypeOK
<1>12. CASE PopulateOn(t)
  <2>1. paging' \in BOOLEAN
    BY <1>12, SetPagingType DEF PopulateOn
  <2>2. pc' \in [Threads -> Labels]
    BY <1>1, <1>12, GotoType DEF PopulateOn
  <2> QED BY <1>12, <2>1, <2>2 DEF PopulateOn, TypeOK
<1> QED BY <1>6, <1>7, <1>8, <1>9, <1>10, <1>11, <1>12 DEF LoadAndPopulate

(* Only a process the scheduler picked has the CPU in user mode or in       *)
(* sys_exec, so current_proc_idx is a slot there.                            *)
LEMMA CurrentIsSlot ==
  IInv /\ running # "main" => current_proc_idx \in Slots /\ pc["main"] # "init_proc"
BY DEF IInv, TypeOK, Control

LEMMA SysExecType == IInv /\ SysExec => TypeOK'
<1> SUFFICES ASSUME IInv, SysExec PROVE TypeOK'
  OBVIOUS
<1> USE DEF mmuVars, cpuVars, procVars, allocVars, IInv
<1>1. "exec" \in Threads /\ {"path", "stat", "swap_pages", "load_off"} \subseteq Labels
  BY DEF Threads, Labels, ExecLabels, LoadLabels
<1>2. running = "exec" => current_proc_idx \in Slots
  BY CurrentIsSlot
<1>3. /\ loc["exec"].slot \in Slots /\ loc["exec"].i \in 0 .. P /\ 0 \in 0 .. P
      /\ loc["exec"].i < P => loc["exec"].i \in Pages /\ loc["exec"].i + 1 \in 0 .. P
  BY <1>1, LocalsType
<1>4. NoLocals \in Locals
  BY Constants, <1>3 DEF NoLocals, Locals
<1>5. frame.r \in Regs /\ frame.r.x \in Pages
  BY DEF TypeOK, Context, Regs
<1>6. CASE ExecPath
  <2>1. running = "exec" /\ Goto("exec", "stat") /\ tlb_index' = 0 /\ paging' = TRUE
        /\ write_tlb(0, WIN, p_list[current_proc_idx].pages[frame.r.x], RW)
    BY <1>6 DEF ExecPath, At
  <2>2. p_list[current_proc_idx].pages[frame.r.x] \in PhysPages
    BY <1>2, <1>5, <2>1 DEF TypeOK, Process
  <2>3. WIN \in Pages /\ RW \in Flags
    BY KernelAssumption DEF RW, Flags
  <2>4. tlb' \in [TlbIdx -> [Pages -> Entry]]
    BY <2>1, <2>2, <2>3, WriteTlbType, Constants
  <2>5. pc' \in [Threads -> Labels]
    BY <1>1, <2>1, GotoType
  <2> QED BY <1>6, <2>1, <2>4, <2>5, Constants DEF ExecPath, TypeOK
<1>7. CASE ExecPathHalts
  <2>1. running' \in Modes /\ tlb_index' \in TlbIdx
    BY <1>7, Constants DEF ExecPathHalts, Modes
  <2> QED BY <1>7, <2>1 DEF ExecPathHalts, TypeOK, threadVars
<1>8. CASE ExecStat
  <2>1. CASE /\ \E f \in Files : SetLoc("exec", "file", f)
             /\ Goto("exec", "swap_pages")
             /\ UNCHANGED <<paging, tlb_index, running, regs, int_en, irqs, frame, retired>>
    <3>1. loc' \in [Threads -> Locals]
      BY <1>1, <2>1, SetLocFile
    <3>2. pc' \in [Threads -> Labels]
      BY <1>1, <2>1, GotoType
    <3> QED BY <1>8, <2>1, <3>1, <3>2 DEF ExecStat, TypeOK
  <2>2. CASE /\ tlb_index' = p_list[current_proc_idx].tlb_index
             /\ Iret([who |-> "user", r |-> [frame.r EXCEPT !.a = 0, !.b = 1]])
             /\ loc' = [loc EXCEPT !["exec"] = NoLocals] /\ Goto("exec", "path")
             /\ retired' = 1 - retired
             /\ UNCHANGED irqs
    <3>1. [frame.r EXCEPT !.a = 0, !.b = 1] \in Regs
      <4>1. 0 \in 0 .. NR_SYSCALL /\ 1 \in Bytes
        BY KernelAssumption DEF NR_SYSCALL
      <4> QED BY <1>5, <4>1 DEF Regs
    <3>2. [who |-> "user", r |-> [frame.r EXCEPT !.a = 0, !.b = 1]] \in Context
      BY <3>1 DEF Context
    <3>3. /\ running' \in Modes /\ regs' \in Regs /\ int_en' \in BOOLEAN
          /\ paging' \in BOOLEAN /\ frame' \in Context
      BY <2>2, <3>2, IretType
    <3>4. tlb_index' \in TlbIdx
      BY <1>2, <1>8, <2>2 DEF ExecStat, At, TypeOK, Process
    <3>5. loc' \in [Threads -> Locals]
      BY <1>4, <2>2 DEF TypeOK
    <3>6. pc' \in [Threads -> Labels]
      BY <1>1, <2>2, GotoType
    <3>7. retired' \in {0, 1}
      BY <2>2 DEF TypeOK
    <3> QED BY <1>8, <2>2, <3>3, <3>4, <3>5, <3>6, <3>7 DEF ExecStat, TypeOK
  <2> QED BY <1>8, <2>1, <2>2 DEF ExecStat
<1>9. CASE SwapPages
  <2>1. p_list' \in [Slots -> Process] /\ page_refcount' \in [PhysPages -> 0 .. 255]
    <3>1. CASE /\ loc["exec"].i < P
               /\ GivePage(loc["exec"].slot, loc["exec"].i,
                           Dec(page_refcount, p_list[loc["exec"].slot].pages[loc["exec"].i]))
      <4>1. p_list[loc["exec"].slot].pages[loc["exec"].i] \in PhysPages
        BY <1>3, <3>1 DEF TypeOK, Process
      <4>2. Dec(page_refcount, p_list[loc["exec"].slot].pages[loc["exec"].i])
              \in [PhysPages -> 0 .. 255]
        BY <4>1, DecType DEF TypeOK
      <4> QED BY <1>3, <3>1, <4>2, GivePageType
    <3>2. CASE UNCHANGED <<p_list, page_refcount>>
      BY <3>2 DEF TypeOK
    <3> QED BY <1>9, <3>1, <3>2 DEF SwapPages
  <2>2. loc' \in [Threads -> Locals]
    <3>1. CASE loc["exec"].i < P /\ SetLoc("exec", "i", loc["exec"].i + 1)
      BY <1>1, <1>3, <3>1, SetLocI
    <3>2. CASE SetLoc("exec", "i", 0)
      BY <1>1, <1>3, <3>2, SetLocI
    <3> QED BY <1>9, <3>1, <3>2 DEF SwapPages
  <2>3. pc' \in [Threads -> Labels]
    <3>1. Goto("exec", "load_off") \/ UNCHANGED pc
      BY <1>9 DEF SwapPages
    <3> QED BY <1>1, <3>1, GotoType DEF TypeOK
  <2> QED BY <1>9, <2>1, <2>2, <2>3 DEF SwapPages, TypeOK
<1>10. CASE LoadAndPopulate("exec")
  BY <1>1, <1>10, LoadType
<1>11. CASE ExecRestart
  <2>1. [who |-> "user", r |-> [frame.r EXCEPT !.pc = 0]] \in Context
    BY <1>5, KernelAssumption DEF Context, Regs
  <2>2. /\ running' \in Modes /\ regs' \in Regs /\ int_en' \in BOOLEAN
        /\ paging' \in BOOLEAN /\ frame' \in Context
    BY <1>11, <2>1, IretType DEF ExecRestart
  <2>3. tlb_index' \in TlbIdx
    BY <1>2, <1>11 DEF ExecRestart, At, TypeOK, Process
  <2>4. loc' \in [Threads -> Locals]
    BY <1>4, <1>11 DEF ExecRestart, TypeOK
  <2>5. pc' \in [Threads -> Labels]
    BY <1>1, <1>11, GotoType DEF ExecRestart
  <2>6. retired' \in {0, 1}
    BY <1>11 DEF ExecRestart, TypeOK
  <2> QED BY <1>11, <2>2, <2>3, <2>4, <2>5, <2>6 DEF ExecRestart, TypeOK
<1> QED BY <1>6, <1>7, <1>8, <1>9, <1>10, <1>11 DEF SysExec

LEMMA UserType == TypeOK /\ User => TypeOK'
<1> SUFFICES ASSUME TypeOK, User PROVE TypeOK'
  OBVIOUS
<1> USE DEF mmuVars, cpuVars, procVars, allocVars, threadVars
<1>1. {"user", "access", "scall"} \subseteq Modes
  BY DEF Modes, UserModes
<1>2. CASE FetchInstruction
  <2>1. running' \in Modes /\ op' \in [page : Pages, kind : RW]
    BY <1>1, <1>2 DEF FetchInstruction, TypeOK
  <2> QED BY <1>2, <2>1 DEF FetchInstruction, TypeOK
<1>3. CASE Access
  <2>1. Phys(op.page) \in PhysPages
    BY PhysType DEF TypeOK
  <2>2. mem' \in [PhysPages -> Contents]
    <3>1. Other \in Contents
      BY DEF Other, Chunk, Contents
    <3> QED BY <1>3, <3>1 DEF Access, TypeOK
  <2>3. running' \in Modes /\ regs' \in Regs /\ retired' \in {0, 1}
    BY <1>1, <1>3, Constants DEF Access, TypeOK
  <2>4. op' \in [page : Pages, kind : RW]
    BY <1>3, Constants DEF Access, NoOp, RW
  <2> QED BY <1>3, <2>2, <2>3, <2>4 DEF Access, TypeOK
<1>4. CASE AccessFaults
  <2>1. fault' \in [idx : TlbIdx, page : Pages, cause : RW] /\ irqs' \subseteq {0, 1, 3}
        /\ paging' \in BOOLEAN
    BY <1>4 DEF AccessFaults, TypeOK
  <2> QED BY <1>4, <2>1 DEF AccessFaults, TypeOK
<1> QED BY <1>2, <1>3, <1>4 DEF User

(* The frame a handler leaves to iret. *)
LEMMA HandledType ==
  ASSUME NEW ctx \in Context, Handled(ctx)
  PROVE  /\ running' \in Modes /\ regs' \in Regs /\ int_en' \in BOOLEAN
         /\ paging' \in BOOLEAN /\ frame' \in Context /\ irqs' \subseteq {0, 1, 3}
BY IretType DEF Handled

LEMMA IsrType == IInv /\ Isr => TypeOK'
<1> SUFFICES ASSUME IInv, Isr PROVE TypeOK'
  OBVIOUS
<1> USE DEF mmuVars, procVars, allocVars, threadVars, IInv
<1>1. TicksLeft \in 0 .. TICKW - 1 /\ TICKS_TO_SWITCH \in 0 .. TICKW - 1
  <2>1. ticks_to_next_switch + TICKW - 1 \in Nat /\ TICKW \in Nat \ {0}
    BY KernelAssumption DEF TypeOK
  <2> QED BY <2>1, KernelAssumption DEF TicksLeft
<1>2. CASE PageFault
  <2>1. fault.idx \in TlbIdx /\ fault.page \in Pages /\ fault.cause \in RW
    BY DEF TypeOK
  <2>2. P + fault.page \in PhysPages
    BY <2>1, Constants
  <2>3. (IF fault.cause = "w" THEN RW ELSE {"r"}) \in Flags
    BY DEF RW, Flags
  <2>4. tlb' \in [TlbIdx -> [Pages -> Entry]]
    BY <1>2, <2>1, <2>2, <2>3, WriteTlbType DEF PageFault
  <2>5. fault' \in [idx : TlbIdx, page : Pages, cause : RW]
    BY <1>2, Constants DEF PageFault, NoFault, RW
  <2> QED BY <1>2, <2>4, <2>5 DEF PageFault, TypeOK
<1>3. CASE UartIsr
  <2>1. /\ running' \in Modes /\ regs' \in Regs /\ int_en' \in BOOLEAN
        /\ paging' \in BOOLEAN /\ frame' \in Context /\ irqs' \subseteq {0, 1, 3}
    BY <1>3, HandledType, InterruptedType DEF UartIsr
  <2> QED BY <1>3, <2>1 DEF UartIsr, TypeOK
<1>4. CASE TickOnly
  <2>1. /\ running' \in Modes /\ regs' \in Regs /\ int_en' \in BOOLEAN
        /\ paging' \in BOOLEAN /\ frame' \in Context /\ irqs' \subseteq {0, 1, 3}
    BY <1>4, HandledType, InterruptedType DEF TickOnly
  <2>2. ticks_to_next_switch' \in 0 .. TICKW - 1
    BY <1>1, <1>4 DEF TickOnly, TypeOK
  <2> QED BY <1>4, <2>1, <2>2 DEF TickOnly, TypeOK
<1>5. CASE TickSwitch
  <2>1. NextProc \in Slots
    BY SchedPicks DEF TypeOK
  <2>2. p_list' \in [Slots -> Process]
    <3>1. CASE current_proc_idx = NONE
      BY <1>5, <3>1 DEF TickSwitch, TypeOK
    <3>2. CASE current_proc_idx # NONE
      <4>1. p_list' = [p_list EXCEPT ![current_proc_idx].ctx = Interrupted]
        BY <1>5, <3>2 DEF TickSwitch
      <4>2. current_proc_idx \in Slots
        BY <3>2 DEF TypeOK
      <4> QED BY <4>1, <4>2, InterruptedType, SlotType
    <3> QED BY <3>1, <3>2
  <2>3. p_list'[NextProc].ctx \in Context /\ p_list[NextProc].tlb_index \in TlbIdx
    BY <2>1, <2>2 DEF TypeOK, Process
  <2>4. /\ running' \in Modes /\ regs' \in Regs /\ int_en' \in BOOLEAN
        /\ paging' \in BOOLEAN /\ frame' \in Context /\ irqs' \subseteq {0, 1, 3}
    BY <1>5, <2>3, HandledType DEF TickSwitch
  <2>5. /\ current_proc_idx' \in Slots \cup {NONE} /\ tlb_index' \in TlbIdx
        /\ ticks_to_next_switch' \in 0 .. TICKW - 1
    BY <1>1, <1>5, <2>1, <2>3 DEF TickSwitch
  <2> QED BY <1>5, <2>2, <2>4, <2>5 DEF TickSwitch, TypeOK
<1>6. CASE SCallReturns
  <2>1. PICK r \in Answers : Handled([who |-> "user", r |-> r])
    BY <1>6 DEF SCallReturns
  <2>2. [who |-> "user", r |-> r] \in Context
    BY ReturnedType DEF Context
  <2>3. /\ running' \in Modes /\ regs' \in Regs /\ int_en' \in BOOLEAN
        /\ paging' \in BOOLEAN /\ frame' \in Context /\ irqs' \subseteq {0, 1, 3}
    BY <2>1, <2>2, HandledType
  <2>4. retired' \in {0, 1}
    BY <1>6 DEF SCallReturns, TypeOK
  <2> QED BY <1>6, <2>3, <2>4 DEF SCallReturns, TypeOK
<1>7. CASE SCallExec
  <2>1. frame' \in Context
    BY <1>7, ReturnedType DEF SCallExec, Context
  <2>2. running' \in Modes /\ int_en' \in BOOLEAN /\ paging' \in BOOLEAN
    BY <1>7 DEF SCallExec, Modes, Threads
  <2>3. pc' \in [Threads -> Labels]
    <3>1. "exec" \in Threads /\ "path" \in Labels
      BY DEF Threads, Labels, ExecLabels
    <3> QED BY <1>7, <3>1, GotoType DEF SCallExec
  <2>4. loc' \in [Threads -> Locals]
    <3>1. current_proc_idx \in Slots
      BY <1>7, CurrentIsSlot DEF SCallExec, SCall
    <3>2. [slot |-> current_proc_idx, i |-> 0, file |-> 0] \in Locals
      BY <3>1, Constants DEF Locals
    <3> QED BY <1>7, <3>2 DEF SCallExec, TypeOK
  <2> QED BY <1>7, <2>1, <2>2, <2>3, <2>4 DEF SCallExec, TypeOK
<1> QED BY <1>2, <1>3, <1>4, <1>5, <1>6, <1>7 DEF Isr

LEMMA DeviceType == TypeOK /\ Device => TypeOK'
<1> SUFFICES ASSUME TypeOK, Device PROVE TypeOK'
  OBVIOUS
<1>1. irqs' \subseteq {0, 1, 3}
  BY DEF Device, RaiseTick, RaiseUart, TypeOK
<1>2. UNCHANGED <<mmuVars, running, regs, int_en, frame, op, procVars, allocVars,
                 threadVars, retired>>
  BY DEF Device, RaiseTick, RaiseUart
<1> QED BY <1>1, <1>2 DEF TypeOK, mmuVars, procVars, allocVars, threadVars

LEMMA TypeNext == IInv /\ [Next]_vars => TypeOK'
<1>1. "main" \in Threads
  BY DEF Threads
<1>2. IInv => TypeOK
  BY DEF IInv
<1>3. TypeOK /\ UNCHANGED vars => TypeOK'
  BY DEF TypeOK, vars, mmuVars, cpuVars, procVars, allocVars, threadVars
<1> QED BY <1>1, <1>2, <1>3, BootType, StartInitType, LoadType, SysExecType, UserType,
           IsrType, DeviceType
        DEF Next, StartInit
-----------------------------------------------------------------------------
(* Who runs: only a switch takes the CPU from main, and for good. *)
LEMMA ControlNext == IInv /\ [Next]_vars => Control'
<1> SUFFICES ASSUME IInv, [Next]_vars PROVE Control'
  OBVIOUS
<1> USE DEF IInv
<1>1. "main" \in Threads /\ "exec" \in Threads /\ NONE \notin Slots /\ p_list \in [Slots -> Process]
      /\ pc \in [Threads -> Labels]
  BY Constants DEF Threads, TypeOK
<1>2. CASE UNCHANGED vars
  BY <1>2 DEF Control, vars, cpuVars, procVars, threadVars
<1>3. CASE Boot
  <2>1. CASE InitProc
    <3>1. running = "main"
      BY <2>1 DEF InitProc, At
    <3>2. pc'["main"] = "init_mmu"
      BY <1>1, <2>1 DEF InitProc, Goto
    <3>3. \A q \in Slots : p_list'[q].ctx.who = "user"
      BY <2>1 DEF InitProc, EmptyProcess
    <3> QED BY <2>1, <3>1, <3>2, <3>3 DEF InitProc, Control, cpuVars
  <2>2. CASE InitMmu
    BY <1>1, <2>2 DEF InitMmu, At, Goto, Control, cpuVars, procVars
  <2>3. CASE InitInterrupts
    BY <1>1, <2>3 DEF InitInterrupts, At, Goto, Control, procVars
  <2>4. CASE ChooseInitOrShell
    BY <1>1, <2>4 DEF ChooseInitOrShell, At, Goto, Control, cpuVars, procVars
  <2>5. CASE ShellExec
    BY <1>1, <2>5 DEF ShellExec, At, Goto, Control, cpuVars, procVars
  <2> QED BY <1>3, <2>1, <2>2, <2>3, <2>4, <2>5 DEF Boot
(* start_init keeps the CPU and the process it builds stays a user context. *)
<1>4. CASE StartInit
  <2>1. running = "main" /\ pc["main"] # "init_proc" /\ UNCHANGED cpuVars
        /\ UNCHANGED current_proc_idx
    BY <1>4 DEF StartInit, AllocProc, SetRun, AllocTlb, SetPc, AllocPages, MainStat,
                LoadAndPopulate, LoadOff, LoadMap, LoadOn, LoadRead, PopulateOff,
                PopulateWrite, PopulateOn, StartSched, At, procVars
  <2>2. pc'["main"] # "init_proc"
    BY <1>1, <1>4, <2>1
       DEF StartInit, AllocProc, SetRun, AllocTlb, SetPc, AllocPages, MainStat, ProbeFile,
           LoadAndPopulate, LoadOff, LoadMap, LoadOn, LoadRead, PopulateOff,
           PopulateWrite, PopulateOn, StartSched, Goto
  <2>3. \A q \in Slots : p_list'[q].ctx.who = p_list[q].ctx.who
    <3>1. CASE AllocProc
      BY <1>1, <3>1 DEF AllocProc, Process
    <3>2. CASE SetRun
      BY <1>1, <3>2 DEF SetRun, Process
    <3>3. CASE AllocTlb
      BY <1>1, <3>3 DEF AllocTlb, Process
    <3>4. CASE SetPc
      BY <1>1, <3>4 DEF SetPc, Process, Context
    <3>5. CASE AllocPages
      BY <1>1, <3>5 DEF AllocPages, GivePage, Process
    <3>6. CASE MainStat \/ LoadAndPopulate("main") \/ StartSched
      BY <3>6 DEF MainStat, LoadAndPopulate, LoadOff, LoadMap, LoadOn, LoadRead,
                  PopulateOff, PopulateWrite, PopulateOn, StartSched, procVars
    <3> QED BY <1>4, <3>1, <3>2, <3>3, <3>4, <3>5, <3>6 DEF StartInit
  <2> QED BY <2>1, <2>2, <2>3 DEF Control, cpuVars
<1>5. CASE SysExec
  <2>1. running = "exec" /\ pc["main"] # "init_proc" /\ current_proc_idx # NONE
    <3>1. running = "exec"
      BY <1>5 DEF SysExec, ExecPath, ExecPathHalts, ExecStat, SwapPages, ExecRestart,
                  LoadAndPopulate, LoadOff, LoadMap, LoadOn, LoadRead, PopulateOff,
                  PopulateWrite, PopulateOn, At
    <3> QED BY <1>1, <3>1, CurrentIsSlot
  <2>2. pc'["main"] = pc["main"] /\ UNCHANGED current_proc_idx
    BY <1>1, <1>5
       DEF SysExec, ExecPath, ExecPathHalts, ExecStat, SwapPages, ExecRestart,
           LoadAndPopulate, LoadOff, LoadMap, LoadOn, LoadRead, PopulateOff,
           PopulateWrite, PopulateOn, Goto, procVars, threadVars
  <2>3. running' \in {"exec", "user", "hlt"} /\ (running' = "exec" => UNCHANGED frame)
    BY <1>5, <2>1
       DEF SysExec, ExecPath, ExecPathHalts, ExecStat, SwapPages, ExecRestart,
           LoadAndPopulate, LoadOff, LoadMap, LoadOn, LoadRead, PopulateOff,
           PopulateWrite, PopulateOn, Iret, cpuVars
  <2>4. \A q \in Slots : p_list'[q].ctx.who = p_list[q].ctx.who
    <3>1. CASE SwapPages
      BY <1>1, <3>1 DEF SwapPages, GivePage, Process
    <3>2. CASE UNCHANGED p_list
      BY <3>2
    <3> QED BY <1>5, <3>1, <3>2
            DEF SysExec, ExecPath, ExecPathHalts, ExecStat, ExecRestart,
                LoadAndPopulate, LoadOff, LoadMap, LoadOn, LoadRead, PopulateOff,
                PopulateWrite, PopulateOn, procVars
  <2> QED BY <2>1, <2>2, <2>3, <2>4 DEF Control
<1>6. CASE User
  <2>1. running \notin {"main", "exec"} /\ running' \notin {"main", "exec"}
        /\ UNCHANGED <<procVars, threadVars>>
    BY <1>6 DEF User, FetchInstruction, Access, AccessFaults
  <2> QED BY <2>1 DEF Control, procVars, threadVars
<1>7. CASE Isr
  <2>1. CASE PageFault
    BY <2>1 DEF PageFault, Control, procVars, threadVars
  <2>2. CASE UartIsr \/ TickOnly
    <3>1. running' = Interrupted.who /\ pc' = pc /\ UNCHANGED <<p_list, current_proc_idx>>
      BY <2>2 DEF UartIsr, TickOnly, Handled, Iret, procVars, threadVars
    <3>2. Interrupted.who = IF running = "main" THEN "main" ELSE "user"
      BY DEF Interrupted
    <3>3. int_en
      BY <2>2 DEF UartIsr, TickOnly, AtFetch
    <3> QED BY <3>1, <3>2, <3>3 DEF Control
  <2>3. CASE TickSwitch
    <3>1. int_en /\ current_proc_idx' = NextProc /\ pc' = pc /\ running' = p_list'[NextProc].ctx.who
      BY <2>3 DEF TickSwitch, AtFetch, Handled, Iret, threadVars
    <3>2. NextProc \in Slots
      BY SchedPicks DEF TypeOK
    <3>3. \A q \in Slots : p_list'[q].ctx.who = "user"
      <4>1. CASE current_proc_idx = NONE
        BY <2>3, <4>1 DEF TickSwitch, Control
      <4>2. CASE current_proc_idx # NONE
        <5>1. running # "main"
          BY <3>1, <4>2 DEF Control
        <5>2. Interrupted.who = "user"
          BY <5>1 DEF Interrupted
        <5>3. p_list' = [p_list EXCEPT ![current_proc_idx].ctx = Interrupted]
          BY <2>3, <4>2 DEF TickSwitch
        <5> QED BY <1>1, <5>2, <5>3 DEF Control, Process
      <4> QED BY <4>1, <4>2
    <3>4. pc["main"] # "init_proc"
      BY <3>1 DEF Control
    <3> QED BY <1>1, <3>1, <3>2, <3>3, <3>4 DEF Control
  <2>4. CASE SCallReturns
    <3>1. running = "scall" /\ running' = "user" /\ UNCHANGED <<procVars, threadVars>>
      BY <2>4 DEF SCallReturns, SCall, Handled, Iret
    <3> QED BY <3>1 DEF Control, procVars, threadVars
  <2>5. CASE SCallExec
    <3>1. running = "scall" /\ running' = "exec" /\ frame'.who = "user" /\ UNCHANGED procVars
      BY <2>5 DEF SCallExec, SCall
    <3>2. pc'["main"] = pc["main"]
      BY <1>1, <2>5 DEF SCallExec, Goto
    <3> QED BY <3>1, <3>2 DEF Control, procVars
  <2> QED BY <1>7, <2>1, <2>2, <2>3, <2>4, <2>5 DEF Isr
<1>8. CASE Device
  BY <1>8 DEF Device, RaiseTick, RaiseUart, Control, procVars, threadVars
<1> QED BY <1>2, <1>3, <1>4, <1>5, <1>6, <1>7, <1>8 DEF Next
-----------------------------------------------------------------------------
(* A thread loads only parts the file has. *)
LEMMA LoadAndPopulateLoading ==
  ASSUME IInv, NEW t \in Threads, LoadAndPopulate(t)
  PROVE  Loading'
<1> USE DEF IInv
<1>1. \A u \in Threads : u # t => pc'[u] = pc[u] /\ loc'[u] = loc[u]
  BY DEF LoadAndPopulate, LoadOff, LoadMap, LoadOn, LoadRead, PopulateOff,
         PopulateWrite, PopulateOn, Goto, SetLoc, TypeOK
<1>2. LoadingIn(t)'
  <2>1. pc[t] \in LoadLabels \cup PopulateLabels
    BY DEF LoadAndPopulate, LoadOff, LoadMap, LoadOn, LoadRead, PopulateOff,
           PopulateWrite, PopulateOn, At, LoadLabels, PopulateLabels
  <2>2. CASE LoadOff(t)
    <3>1. loc[t].file \in Files
      BY <2>2 DEF LoadOff, At, Loading, LoadingIn, LoadLabels
    <3>2. CASE loc[t].i < FileSize[loc[t].file] /\ Goto(t, "load_map") /\ UNCHANGED loc
      BY <3>1, <3>2 DEF Goto, LoadingIn, TypeOK
    <3>3. CASE Goto(t, "pop_off")
      BY <3>3 DEF Goto, LoadingIn, LoadLabels, TypeOK
    <3> QED BY <2>2, <3>2, <3>3 DEF LoadOff
  <2>3. CASE LoadMap(t) \/ LoadOn(t)
    <3>1. pc[t] \in LoadLabels \ {"load_off"} /\ loc'[t] = loc[t]
      BY <2>3 DEF LoadMap, LoadOn, At, LoadLabels
    <3> QED BY <3>1 DEF Loading, LoadingIn
  <2>4. CASE LoadRead(t)
    <3>1. loc[t].file \in Files
      BY <2>4 DEF LoadRead, At, Loading, LoadingIn, LoadLabels
    <3>2. loc'[t].file = loc[t].file /\ pc'[t] = "load_off"
      BY <2>4 DEF LoadRead, SetLoc, Goto, TypeOK, Locals
    <3> QED BY <3>1, <3>2 DEF LoadingIn
  <2>5. CASE PopulateOff(t) \/ PopulateWrite(t) \/ PopulateOn(t)
    <3>1. pc'[t] \in {"pop_write", "pop_on", "sched_on", "restart"}
      BY <2>5 DEF PopulateOff, PopulateWrite, PopulateOn, At, Goto, TypeOK
    <3> QED BY <3>1 DEF LoadingIn, LoadLabels
  <2> QED BY <2>2, <2>3, <2>4, <2>5 DEF LoadAndPopulate
<1> QED BY <1>1, <1>2 DEF Loading, LoadingIn

LEMMA LoadingNext == IInv /\ [Next]_vars => Loading'
<1> SUFFICES ASSUME IInv, [Next]_vars PROVE Loading'
  OBVIOUS
<1> USE DEF IInv
<1>1. "main" \in Threads /\ "exec" \in Threads /\ Threads = {"main", "exec"}
      /\ pc \in [Threads -> Labels] /\ loc \in [Threads -> Locals]
  BY DEF Threads, TypeOK
<1>2. CASE UNCHANGED <<pc, loc>>
  BY <1>2 DEF Loading, LoadingIn
<1>3. CASE Boot
  <2>1. pc'["exec"] = pc["exec"] /\ pc'["main"] \notin LoadLabels \cup {"swap_pages"}
        /\ UNCHANGED loc
    BY <1>1, <1>3
       DEF Boot, InitProc, InitMmu, InitInterrupts, ChooseInitOrShell, ShellExec, Goto, LoadLabels
  <2> QED BY <1>1, <2>1 DEF Loading, LoadingIn
<1>4. CASE AllocProc \/ SetRun \/ AllocTlb \/ SetPc \/ AllocPages \/ StartSched
  <2>1. pc'["exec"] = pc["exec"] /\ loc'["exec"] = loc["exec"]
    BY <1>1, <1>4 DEF AllocProc, SetRun, AllocTlb, SetPc, AllocPages, StartSched, Goto, SetLoc
  <2>2. pc'["main"] \notin LoadLabels \cup {"swap_pages"}
    BY <1>1, <1>4 DEF AllocProc, SetRun, AllocTlb, SetPc, AllocPages, StartSched, At, Goto, LoadLabels
  <2> QED BY <1>1, <2>1, <2>2 DEF Loading, LoadingIn
<1>5. CASE MainStat
  <2>1. pc'["exec"] = pc["exec"] /\ loc'["exec"] = loc["exec"]
    BY <1>1, <1>5 DEF MainStat, ProbeFile, Goto, SetLoc
  <2>2. \/ pc'["main"] = "load_off" /\ loc'["main"].file \in Files
        \/ pc'["main"] = "pop_off"
    BY <1>1, <1>5 DEF MainStat, ProbeFile, Goto, SetLoc, Locals
  <2> QED BY <1>1, <2>1, <2>2 DEF Loading, LoadingIn, LoadLabels
<1>6. CASE LoadAndPopulate("main") \/ LoadAndPopulate("exec")
  BY <1>1, <1>6, LoadAndPopulateLoading
<1>7. CASE ExecStat
  <2>1. pc'["main"] = pc["main"] /\ loc'["main"] = loc["main"]
    BY <1>1, <1>7 DEF ExecStat, Goto, SetLoc
  <2>2. \/ pc'["exec"] = "swap_pages" /\ loc'["exec"].file \in Files
        \/ pc'["exec"] = "path"
    BY <1>1, <1>7 DEF ExecStat, Goto, SetLoc, Locals
  <2> QED BY <1>1, <2>1, <2>2 DEF Loading, LoadingIn, LoadLabels
<1>8. CASE SwapPages
  <2>1. pc'["main"] = pc["main"] /\ loc'["main"] = loc["main"] /\ pc["exec"] = "swap_pages"
    BY <1>1, <1>8 DEF SwapPages, At, Goto, SetLoc
  <2>2. pc'["exec"] \in {"swap_pages", "load_off"} /\ loc'["exec"].file = loc["exec"].file
    BY <1>1, <1>8 DEF SwapPages, At, Goto, SetLoc, Locals
  <2> QED BY <1>1, <2>1, <2>2 DEF Loading, LoadingIn, LoadLabels
<1>9. CASE ExecPath \/ ExecRestart \/ SCallExec
  <2>1. pc'["main"] = pc["main"] /\ loc'["main"] = loc["main"] /\ pc'["exec"] \in {"path", "stat"}
    BY <1>1, <1>9 DEF ExecPath, ExecRestart, SCallExec, Goto
  <2> QED BY <1>1, <2>1 DEF Loading, LoadingIn, LoadLabels
<1>10. CASE UNCHANGED vars \/ ExecPathHalts \/ User \/ Device \/ PageFault \/ UartIsr
            \/ TickOnly \/ TickSwitch \/ SCallReturns
  BY <1>2, <1>10
     DEF vars, ExecPathHalts, User, FetchInstruction, Access, AccessFaults, Device, RaiseTick,
         RaiseUart, PageFault, UartIsr, TickOnly, TickSwitch, SCallReturns, threadVars
<1> QED BY <1>3, <1>4, <1>5, <1>6, <1>7, <1>8, <1>9, <1>10
        DEF Next, StartInit, SysExec, Isr
-----------------------------------------------------------------------------
(* Only init_proc and start_init's set_run write a status. *)
LEMMA StatusKept ==
  ASSUME IInv, [Next]_vars, ~InitProc, ~SetRun
  PROVE  \A q \in Slots : p_list'[q].status = p_list[q].status
<1> USE DEF IInv
<1>1. p_list \in [Slots -> Process]
  BY DEF TypeOK
<1>2. CASE UNCHANGED p_list
  BY <1>2
<1>3. CASE AllocProc \/ AllocTlb \/ SetPc
  BY <1>1, <1>3 DEF AllocProc, AllocTlb, SetPc, Process
<1>4. CASE AllocPages \/ SwapPages
  <2>1. PICK q, v, p : p_list' = [p_list EXCEPT ![q].pages[v] = p] \/ UNCHANGED p_list
    BY <1>4 DEF AllocPages, SwapPages, GivePage
  <2> QED BY <1>1, <2>1 DEF Process
<1>5. CASE TickSwitch
  BY <1>1, <1>5 DEF TickSwitch, Process
<1> QED BY <1>2, <1>3, <1>4, <1>5
        DEF Next, Boot, InitMmu, InitInterrupts, ChooseInitOrShell, ShellExec, StartInit,
            MainStat, StartSched, LoadAndPopulate, LoadOff, LoadMap, LoadOn, LoadRead,
            PopulateOff, PopulateWrite, PopulateOn, SysExec, ExecPath, ExecPathHalts,
            ExecStat, ExecRestart, User, FetchInstruction, Access, AccessFaults, Isr,
            PageFault, UartIsr, TickOnly, SCallReturns, SCallExec, Device, RaiseTick,
            RaiseUart, vars, procVars

(* main gets past set_run only with its process runnable, and keeps it. *)
LEMMA MainKeepsSlot ==
  ASSUME IInv, [Next]_vars, ~InitProc, ~SetRun, pc'["main"] \in AfterSetRun
  PROVE  pc["main"] \in AfterSetRun /\ loc'["main"].slot = loc["main"].slot
<1> USE DEF IInv
<1>1. "main" \in Threads /\ "exec" \in Threads /\ pc \in [Threads -> Labels]
      /\ loc \in [Threads -> Locals]
  BY DEF Threads, TypeOK
<1>2. CASE UNCHANGED <<pc, loc>>
  BY <1>2
<1>3. CASE Boot
  BY <1>1, <1>3 DEF Boot, InitMmu, InitInterrupts, ChooseInitOrShell, ShellExec, Goto,
                    AfterSetRun, LoadLabels, PopulateLabels, StartLabels
<1>4. CASE AllocProc
  BY <1>1, <1>4 DEF AllocProc, Goto, AfterSetRun, LoadLabels, PopulateLabels, StartLabels
<1>5. CASE AllocTlb \/ SetPc \/ AllocPages \/ MainStat \/ StartSched
  <2>1. pc["main"] \in AfterSetRun
    BY <1>5 DEF AllocTlb, SetPc, AllocPages, MainStat, StartSched, At, AfterSetRun,
                StartLabels
  <2>2. loc'["main"].slot = loc["main"].slot
    BY <1>1, <1>5 DEF AllocTlb, SetPc, AllocPages, MainStat, ProbeFile, StartSched, SetLoc, Locals
  <2> QED BY <2>1, <2>2
<1>6. CASE LoadAndPopulate("main")
  <2>1. pc["main"] \in AfterSetRun
    BY <1>6 DEF LoadAndPopulate, LoadOff, LoadMap, LoadOn, LoadRead, PopulateOff,
                PopulateWrite, PopulateOn, At, AfterSetRun, LoadLabels, PopulateLabels
  <2>2. loc'["main"].slot = loc["main"].slot
    BY <1>1, <1>6 DEF LoadAndPopulate, LoadOff, LoadMap, LoadOn, LoadRead, PopulateOff,
                      PopulateWrite, PopulateOn, SetLoc, Locals
  <2> QED BY <2>1, <2>2
<1>7. CASE SysExec \/ SCallExec
  BY <1>1, <1>7 DEF SysExec, ExecPath, ExecPathHalts, ExecStat, SwapPages, ExecRestart,
                    SCallExec, LoadAndPopulate, LoadOff, LoadMap, LoadOn, LoadRead,
                    PopulateOff, PopulateWrite, PopulateOn, Goto, SetLoc, threadVars
<1>8. CASE UNCHANGED vars \/ User \/ Device \/ PageFault \/ UartIsr \/ TickOnly
           \/ TickSwitch \/ SCallReturns
  BY <1>2, <1>8
     DEF vars, User, FetchInstruction, Access, AccessFaults, Device, RaiseTick,
         RaiseUart, PageFault, UartIsr, TickOnly, TickSwitch, SCallReturns, threadVars
<1> QED BY <1>3, <1>4, <1>5, <1>6, <1>7, <1>8 DEF Next, StartInit, Isr

LEMMA StartedNext == IInv /\ [Next]_vars => Started'
<1> SUFFICES ASSUME IInv, [Next]_vars PROVE Started'
  OBVIOUS
<1> USE DEF IInv
<1>1. "main" \in Threads /\ loc["main"].slot \in Slots /\ pc \in [Threads -> Labels]
      /\ p_list \in [Slots -> Process]
  BY LocalsType DEF Threads, TypeOK
<1>2. CASE InitProc
  <2>1. pc'["main"] = "init_mmu" /\ do_switch' = FALSE
    BY <1>1, <1>2 DEF InitProc, Goto
  <2> QED BY <2>1 DEF Started, AfterSetRun, LoadLabels, PopulateLabels, StartLabels
<1>3. CASE SetRun
  <2>1. p_list'[loc["main"].slot].status = PROCESS_RUN /\ loc' = loc
    BY <1>1, <1>3 DEF SetRun, Process
  <2> QED BY <1>1, <2>1 DEF Started, Runnable
<1>4. CASE ~InitProc /\ ~SetRun
  <2>1. \A q \in Slots : p_list'[q].status = p_list[q].status
    BY <1>4, StatusKept
  <2>2. pc'["main"] \in AfterSetRun => p_list'[loc'["main"].slot].status = PROCESS_RUN
    BY <1>1, <1>4, <2>1, MainKeepsSlot DEF Started
  <2>3. Runnable' = Runnable
    BY <2>1 DEF Runnable
  <2>4. do_switch' => do_switch \/ pc["main"] = "sched_on"
    BY DEF Next, Boot, InitProc, InitMmu, InitInterrupts, ChooseInitOrShell, ShellExec,
           StartInit, AllocProc, SetRun, AllocTlb, SetPc, AllocPages,
           MainStat, StartSched, At, LoadAndPopulate, LoadOff, LoadMap, LoadOn, LoadRead,
           PopulateOff, PopulateWrite, PopulateOn, SysExec, ExecPath, ExecPathHalts,
           ExecStat, SwapPages, ExecRestart, User, FetchInstruction, Access, AccessFaults,
           Isr, PageFault, UartIsr, TickOnly, TickSwitch, SCallReturns, SCallExec, Device,
           RaiseTick, RaiseUart, vars, procVars
  <2>5. pc["main"] = "sched_on" => Runnable # {}
    BY <1>1 DEF Started, AfterSetRun, StartLabels, Runnable
  <2> QED BY <2>2, <2>3, <2>4, <2>5 DEF Started
<1> QED BY <1>2, <1>3, <1>4
-----------------------------------------------------------------------------
THEOREM InductiveInvariant == Spec => []IInv
<1>1. IInv /\ [Next]_vars => IInv'
  BY TypeNext, ControlNext, LoadingNext, StartedNext DEF IInv
<1> QED BY <1>1, InitIInv, PTL DEF Spec

(* Every variable keeps its type, whatever the sizes: no page number, slot,  *)
(* counter or program counter leaves its range.                              *)
THEOREM TypeCorrect == Spec => []TypeOK
<1>1. IInv => TypeOK
  BY DEF IInv
<1> QED BY <1>1, InductiveInvariant, PTL

(* kernel_main.c:84: once a process has been picked, kernel main never runs  *)
(* again, with any number of processes and any interleaving of interrupts.   *)
THEOREM MainIsGone == Spec => []MainNeverReturns
<1>1. IInv => MainNeverReturns
  BY DEF IInv, Control, MainNeverReturns, Booted
<1> QED BY <1>1, InductiveInvariant, PTL

(* proc.c:155: sched() always has a runnable process to find.                *)
THEOREM SchedulerFinds == Spec => []SchedFinds
<1>1. IInv => SchedFinds
  BY DEF IInv, Started, SchedFinds
<1> QED BY <1>1, InductiveInvariant, PTL
=============================================================================
