-------------------------- MODULE KernelSpaceProofs --------------------------
(***************************************************************************)
(* Proofs about the address spaces of Kernel, for memories, page tables,   *)
(* TLBs, process tables and files of every size: the kernel's stores reach *)
(* what they are meant for, a program runs in its own pages with paging    *)
(* on, pages are counted right, the kernel's pages are never written, and  *)
(* a program starts with its file in its pages.                            *)
(*                                                                         *)
(* start_init makes the only process, and no page is ever found by         *)
(* find_free_page but P, P + 1 and so on: page v of the process is P + v,  *)
(* which is the page interrupts.c:77 and 81 take it to be.                 *)
(***************************************************************************)
EXTENDS KernelProofs, FiniteSetTheorems

mine == loc["main"].slot            \* the slot of start_init's process

(* kernel main up to set_pc, after which the pages are given. *)
Unpaged == {"init_proc", "init_mmu", "init_interrupts", "getc", "shell",
            "alloc_proc", "set_run", "alloc_tlb", "set_pc"}
NoTlb == Unpaged \ {"set_pc"}
Unstarted == NoTlb \ {"alloc_tlb"}
Ticking == {"sched_ticks", "spin"}  \* do_switch is on

(* How many pages the process has been given. *)
Given == IF pc["main"] \in Unpaged THEN 0
         ELSE IF pc["main"] = "alloc_pages" THEN loc["main"].i ELSE P

(* Where the loops start. *)
Counting ==
  /\ pc["main"] \in Unpaged \cup {"stat", "pop_off"} => loc["main"].i = 0
  /\ pc["exec"] \in {"path", "stat", "pop_off"} => loc["exec"].i = 0

(* The process picked is start_init's, once it is complete. *)
OneProcess ==
  /\ do_switch => pc["main"] \in Ticking
  /\ current_proc_idx # NONE /\ pc["main"] # "init_proc" =>
       current_proc_idx = mine /\ pc["main"] \in Ticking
  /\ running = "exec" => loc["exec"].slot = current_proc_idx
  /\ \A q \in Slots : p_list[q].status = PROCESS_RUN =>
                        q = mine /\ pc["main"] \notin Unstarted

(* Pages are given and counted from P upwards. *)
PagesInOrder ==
  \A q \in Slots, v \in Pages :
    p_list[q].pages[v] = IF q = mine /\ v < Given THEN P + v ELSE 0
CountsInOrder ==
  Booted => \A p \in P .. PHYS - 1 : page_refcount[p] = IF p < P + Given THEN 1 ELSE 0

(* TLB 0 shows the kernel its own pages, but for the window. *)
KernelTlb ==
  Booted => /\ \A v \in Pages : v # WIN => tlb[0][v] = [page |-> v, flags |-> RW]
            /\ tlb[0][WIN].flags = RW
OwnTlb ==
  /\ pc["main"] \in NoTlb => \A t \in 1 .. N_TLB - 1 : tlb_map[t] = 0
  /\ pc["main"] \notin NoTlb => p_list[mine].tlb_index # 0

(* The TLB and the paging bit each flow of control runs with. *)
InPath == running = "exec" /\ pc["exec"] = "path"
RightTlb ==
  /\ running \in Threads /\ Booted /\ ~InPath => tlb_index = 0
  /\ running \in UserModes => tlb_index = p_list[mine].tlb_index /\ current_proc_idx # NONE
PagingRight ==
  /\ InPath => ~paging
  /\ running \in Threads /\ pc[running] = "load_read" => paging
  /\ running = "exec" /\ pc["exec"] = "stat" => paging
  /\ running \in UserModes /\ 0 \notin irqs => paging
  /\ 0 \in irqs => running = "access" /\ ~paging /\ fault.idx = tlb_index

(* The window shows the page it was set to. *)
WindowSet ==
  /\ running \in Threads /\ pc[running] \in {"load_on", "load_read"} =>
       tlb[0][WIN].page = P + loc[running].i
  /\ running = "exec" /\ pc["exec"] = "stat" => tlb[0][WIN].page = P + frame.r.x

(* The first n pages of the process are in its TLB. *)
Mapped(n) ==
  \A v \in Pages : v < n =>
    LET e == tlb[p_list[mine].tlb_index][v] IN e.page = P + v /\ "r" \in e.flags
MappedRight ==
  /\ pc["main"] = "pop_write" => Mapped(loc["main"].i)
  /\ pc["main"] \in {"pop_on"} \cup StartLabels => Mapped(P)

(* The first n parts of the file are in its pages. *)
HasRead(t, n) == \A k \in Pages : k < n => mem[P + k] = Chunk(loc[t].file, k)
FileRead(t) ==
  running = t =>
    /\ pc[t] \in LoadLabels => HasRead(t, loc[t].i)
    /\ pc[t] \in PopulateLabels \cup StartLabels \cup {"restart"} /\ loc[t].file # 0 =>
         HasRead(t, FileSize[loc[t].file])
FilesRead == \A t \in Threads : FileRead(t)

SpaceInv ==
  /\ Counting /\ OneProcess /\ PagesInOrder /\ CountsInOrder /\ KernelTlb /\ OwnTlb
  /\ RightTlb /\ PagingRight /\ WindowSet /\ MappedRight /\ KernelIntact /\ FilesRead
All == IInv /\ SpaceInv
-----------------------------------------------------------------------------
(* Types of what the proofs look at. *)
LEMMA Shapes ==
  ASSUME TypeOK
  PROVE  /\ "main" \in Threads /\ "exec" \in Threads /\ Threads = {"main", "exec"}
         /\ pc \in [Threads -> Labels] /\ loc \in [Threads -> Locals]
         /\ p_list \in [Slots -> Process] /\ tlb \in [TlbIdx -> [Pages -> Entry]]
         /\ mem \in [PhysPages -> Contents] /\ mine \in Slots
         /\ \A t \in Threads : loc[t].i \in Nat /\ loc[t].i <= P /\ loc[t].slot \in Slots
         /\ P \in Nat /\ IOPAGE \in Pages /\ WIN \in Pages /\ IOPAGE # WIN /\ 0 \in TlbIdx
         /\ NONE \notin Slots
BY LocalsType, Constants, KernelAssumption DEF TypeOK, Threads, mine

(* While main does not run it is over: it spins, all its pages given.        *)
LEMMA MainSpins ==
  ASSUME All, running # "main"
  PROVE  /\ pc["main"] \in Ticking /\ Given = P /\ Booted
         /\ current_proc_idx = mine /\ mine \in Slots
<1>1. pc["main"] # "init_proc" /\ current_proc_idx # NONE
  BY DEF All, IInv, Control
<1>2. current_proc_idx = mine /\ pc["main"] \in Ticking
  BY <1>1 DEF All, SpaceInv, OneProcess
<1> QED BY <1>2, Shapes DEF Given, Unpaged, Ticking, Booted, All, IInv

LEMMA ThreadSlot ==
  ASSUME All, NEW t \in Threads, running = t, t = "main" => Booted
  PROVE  /\ Slot(t) = mine /\ Booted
         /\ t = "exec" => current_proc_idx = mine
<1>1. CASE t = "main"
  BY <1>1 DEF Slot, mine
<1>2. CASE t = "exec"
  BY <1>2, MainSpins DEF Slot, All, SpaceInv, OneProcess
<1> QED BY <1>1, <1>2 DEF Threads

(* mmu.c: the kernel's stores into the MMU are never lost. *)
LEMMA StoresReach ==
  ASSUME All, running \in Threads, Booted
  PROVE  Reaches(IOPAGE)
<1>1. CASE paging
  <2>1. tlb_index = 0
    BY <1>1 DEF All, SpaceInv, RightTlb, PagingRight
  <2>2. tlb[0][IOPAGE] = [page |-> IOPAGE, flags |-> RW]
    BY Shapes DEF All, IInv, SpaceInv, KernelTlb
  <2> QED BY <1>1, <2>1, <2>2 DEF Reaches, Permits, Phys, RW
<1>2. CASE ~paging
  BY <1>2 DEF Reaches, Permits, Phys
<1> QED BY <1>1, <1>2

(* The pages of the process. *)
LEMMA OwnPages ==
  ASSUME All, NEW v \in Pages, v < Given
  PROVE  p_list[mine].pages[v] = P + v
BY Shapes DEF All, IInv, SpaceInv, PagesInOrder

(* find_free_page finds the first page after those given.                    *)
LEMMA FreePage ==
  ASSUME NEW rc, NEW n \in Pages, \A p \in P .. PHYS - 1 : p <= P + n => (rc[p] = 0 <=> p = P + n)
  PROVE  find_free_page(rc) = P + n
<1> DEFINE S == {p \in P .. PHYS - 1 : rc[p] = 0}
<1>1. n \in Nat /\ n < P /\ P \in Nat /\ PHYS \in Nat /\ 2 * P <= PHYS
  BY KernelAssumption DEF Pages
<1>2. P + n \in P .. PHYS - 1
  BY <1>1
<1>3. S \in SUBSET Nat /\ P + n \in S
  BY <1>1, <1>2
<1>4. \A m \in S : P + n <= m
  BY <1>1
<1>5. find_free_page(rc) = LeastOr(S, 0)
  BY DEF find_free_page
<1> HIDE DEF S
<1>6. LeastOr(S, 0) \in S /\ LeastOr(S, 0) <= P + n
  BY <1>3, LeastOrIn
<1>7. P + n <= LeastOr(S, 0) /\ LeastOr(S, 0) \in Nat
  BY <1>3, <1>4, <1>6
<1> QED BY <1>1, <1>5, <1>6, <1>7
-----------------------------------------------------------------------------
(* load_process and populate_tlb, step by step: what each leaves alone, and  *)
(* that its stores arrive where they should.                                 *)
LEMMA LoadFrame ==
  ASSUME All, NEW t \in Threads, LoadAndPopulate(t)
  PROVE  /\ running = t /\ Booted /\ Given = P /\ Slot(t) = mine
         /\ UNCHANGED <<tlb_index, fault, cpuVars, procVars, allocVars, retired>>
         /\ \A u \in Threads : u # t => pc'[u] = pc[u] /\ loc'[u] = loc[u]
         /\ loc'[t].slot = loc[t].slot /\ loc'[t].file = loc[t].file
         /\ mine' = mine
         /\ pc[t] \in LoadLabels \cup PopulateLabels
<1> USE DEF All, IInv
<1>1. running = t /\ pc[t] \in LoadLabels \cup PopulateLabels
  BY DEF LoadAndPopulate, LoadOff, LoadMap, LoadOn, LoadRead, PopulateOff,
         PopulateWrite, PopulateOn, At, LoadLabels, PopulateLabels
<1>2. Booted /\ Given = P
  <2>1. CASE t = "main"
    BY <1>1, <2>1 DEF Booted, Given, Unpaged, LoadLabels, PopulateLabels
  <2>2. CASE t # "main"
    BY <1>1, <2>2, MainSpins
  <2> QED BY <2>1, <2>2
<1>3. Slot(t) = mine
  BY <1>1, <1>2, ThreadSlot
<1>4. UNCHANGED <<tlb_index, fault, cpuVars, procVars, allocVars, retired>>
  BY DEF LoadAndPopulate, LoadOff, LoadMap, LoadOn, LoadRead, PopulateOff,
         PopulateWrite, PopulateOn
<1>5. \A u \in Threads : u # t => pc'[u] = pc[u] /\ loc'[u] = loc[u]
  BY Shapes DEF LoadAndPopulate, LoadOff, LoadMap, LoadOn, LoadRead, PopulateOff,
         PopulateWrite, PopulateOn, Goto, SetLoc
<1>6. loc'[t].slot = loc[t].slot /\ loc'[t].file = loc[t].file
  BY Shapes, ZenonT(60) DEF LoadAndPopulate, LoadOff, LoadMap, LoadOn, LoadRead, PopulateOff,
         PopulateWrite, PopulateOn, SetLoc, Locals
<1>7. mine' = mine
  BY <1>5, <1>6, Shapes DEF mine
<1> QED BY <1>1, <1>2, <1>3, <1>4, <1>5, <1>6, <1>7

LEMMA LoadOffSteps ==
  ASSUME All, NEW t \in Threads, LoadOff(t)
  PROVE  /\ pc[t] = "load_off" /\ UNCHANGED <<tlb, mem>> /\ loc[t].file \in Files
         /\ \/ /\ loc[t].i < FileSize[loc[t].file]
               /\ paging' = FALSE /\ pc'[t] = "load_map" /\ loc' = loc
            \/ /\ loc[t].i >= FileSize[loc[t].file]
               /\ paging' = paging /\ pc'[t] = "pop_off" /\ loc'[t].i = 0
<1> USE DEF All, IInv
<1>1. running = t /\ Booted
  BY LoadFrame DEF LoadAndPopulate
<1>2. Reaches(IOPAGE)
  BY <1>1, StoresReach
<1>3. pc[t] = "load_off" /\ UNCHANGED <<tlb, mem>>
  BY DEF LoadOff, At
<1>4. loc[t].file \in Files
  BY <1>3 DEF Loading, LoadingIn, LoadLabels
<1>5. loc[t] \in Locals /\ t \in DOMAIN loc /\ t \in DOMAIN pc
  BY Shapes
<1>6. CASE /\ loc[t].i < FileSize[loc[t].file]
           /\ SetPaging(FALSE) /\ Goto(t, "load_map") /\ UNCHANGED loc
  <2>1. paging' = FALSE
    BY <1>2, <1>6 DEF SetPaging
  <2>2. pc'[t] = "load_map"
    BY <1>5, <1>6 DEF Goto
  <2> QED BY <1>3, <1>4, <1>6, <2>1, <2>2
<1>7. CASE /\ loc[t].i >= FileSize[loc[t].file]
           /\ SetLoc(t, "i", 0) /\ Goto(t, "pop_off") /\ UNCHANGED paging
  <2>1. pc'[t] = "pop_off"
    BY <1>5, <1>7 DEF Goto
  <2>2. loc'[t].i = 0
    BY <1>5, <1>7 DEF SetLoc, Locals
  <2> QED BY <1>3, <1>4, <1>7, <2>1, <2>2
<1> QED BY <1>6, <1>7 DEF LoadOff

LEMMA PartIsPage ==
  ASSUME All, NEW t \in Threads, pc[t] \in LoadLabels \ {"load_off"}
  PROVE  /\ loc[t].file \in Files /\ loc[t].i < FileSize[loc[t].file]
         /\ FileSize[loc[t].file] <= P /\ FileSize[loc[t].file] \in Nat
         /\ loc[t].i \in Pages
<1>1. loc[t].file \in Files /\ loc[t].i < FileSize[loc[t].file]
  BY DEF All, IInv, Loading, LoadingIn, LoadLabels
<1>2. FileSize[loc[t].file] \in 0 .. P
  BY <1>1, KernelAssumption
<1> QED BY <1>1, <1>2, Shapes DEF Pages, All, IInv

LEMMA LoadMapSteps ==
  ASSUME All, NEW t \in Threads, LoadMap(t)
  PROVE  /\ pc[t] = "load_map" /\ UNCHANGED <<paging, mem, loc>> /\ pc'[t] = "load_on"
         /\ tlb' = [tlb EXCEPT ![0][WIN] = [page |-> P + loc[t].i, flags |-> RW]]
<1> USE DEF All, IInv
<1>1. running = t /\ Booted /\ Given = P /\ Slot(t) = mine
  BY LoadFrame DEF LoadAndPopulate
<1>2. Reaches(IOPAGE)
  BY <1>1, StoresReach
<1>3. pc[t] = "load_map"
  BY DEF LoadMap, At
<1>4. loc[t].i \in Pages /\ loc[t].i < P
  BY <1>3, PartIsPage, Shapes DEF LoadLabels, Pages
<1>5. p_list[Slot(t)].pages[loc[t].i] = P + loc[t].i
  BY <1>1, <1>4, OwnPages
<1>6. pc'[t] = "load_on"
  BY Shapes DEF LoadMap, Goto
<1> QED BY <1>2, <1>3, <1>5, <1>6 DEF LoadMap, write_tlb

LEMMA LoadOnSteps ==
  ASSUME All, NEW t \in Threads, LoadOn(t)
  PROVE  /\ pc[t] = "load_on" /\ UNCHANGED <<tlb, mem, loc>> /\ pc'[t] = "load_read"
         /\ paging' = TRUE
<1> USE DEF All, IInv
<1>1. running = t /\ Booted
  BY LoadFrame DEF LoadAndPopulate
<1>2. Reaches(IOPAGE)
  BY <1>1, StoresReach
<1> QED BY <1>2, Shapes DEF LoadOn, At, Goto, SetPaging

(* The window is open and shows the page meant while a file is read. *)
LEMMA WindowOpen ==
  ASSUME All, NEW t \in Threads, running = t, Booted, pc[t] = "load_read"
  PROVE  Permits(WIN, "w") /\ Phys(WIN) = P + loc[t].i /\ loc[t].i \in Pages
<1> USE DEF All, IInv, SpaceInv
<1>1. paging /\ tlb_index = 0
  BY DEF PagingRight, RightTlb, InPath
<1>2. tlb[0][WIN].page = P + loc[t].i /\ tlb[0][WIN].flags = RW
  BY DEF WindowSet, KernelTlb
<1>3. loc[t].i \in Pages
  BY PartIsPage DEF LoadLabels
<1> QED BY <1>1, <1>2, <1>3 DEF Permits, Phys, RW

LEMMA LoadReadSteps ==
  ASSUME All, NEW t \in Threads, LoadRead(t)
  PROVE  /\ pc[t] = "load_read" /\ UNCHANGED <<paging, tlb>> /\ pc'[t] = "load_off"
         /\ mem' = [mem EXCEPT ![P + loc[t].i] = Chunk(loc[t].file, loc[t].i)]
         /\ loc'[t].i = loc[t].i + 1 /\ loc[t].i \in Pages
<1> USE DEF All, IInv
<1>1. running = t /\ Booted /\ pc[t] = "load_read"
  BY LoadFrame DEF LoadAndPopulate, LoadRead, At
<1>2. Permits(WIN, "w") /\ Phys(WIN) = P + loc[t].i /\ loc[t].i \in Pages
  BY <1>1, WindowOpen
<1>3. loc'[t].i = loc[t].i + 1 /\ pc'[t] = "load_off"
  BY Shapes DEF LoadRead, SetLoc, Goto, Locals
<1> QED BY <1>1, <1>2, <1>3 DEF LoadRead

LEMMA PopulateOffSteps ==
  ASSUME All, NEW t \in Threads, PopulateOff(t)
  PROVE  /\ pc[t] = "pop_off" /\ UNCHANGED <<tlb, mem, loc>> /\ pc'[t] = "pop_write"
         /\ paging' = FALSE
<1> USE DEF All, IInv
<1>1. running = t /\ Booted
  BY LoadFrame DEF LoadAndPopulate
<1>2. Reaches(IOPAGE)
  BY <1>1, StoresReach
<1> QED BY <1>2, Shapes DEF PopulateOff, At, Goto, SetPaging

LEMMA PopulateWriteSteps ==
  ASSUME All, NEW t \in Threads, PopulateWrite(t)
  PROVE  /\ pc[t] = "pop_write" /\ UNCHANGED <<paging, mem>>
         /\ \/ /\ loc[t].i \in Pages /\ loc'[t].i = loc[t].i + 1 /\ pc'[t] = "pop_write"
               /\ tlb' = [tlb EXCEPT ![p_list[mine].tlb_index][loc[t].i] =
                            [page |-> P + loc[t].i, flags |-> {"r"}]]
            \/ /\ loc[t].i = P /\ loc'[t].i = 0 /\ pc'[t] = "pop_on" /\ tlb' = tlb
<1> USE DEF All, IInv
<1>1. running = t /\ Booted /\ Given = P /\ Slot(t) = mine
  BY LoadFrame DEF LoadAndPopulate
<1>2. Reaches(IOPAGE)
  BY <1>1, StoresReach
<1>3. pc[t] = "pop_write"
  BY DEF PopulateWrite, At
<1>4. ASSUME loc[t].i < P PROVE loc[t].i \in Pages /\ p_list[mine].pages[loc[t].i] = P + loc[t].i
  <2>1. loc[t].i \in Pages
    BY <1>4, Shapes DEF Pages
  <2> QED BY <1>1, <1>4, <2>1, OwnPages
<1>5. CASE loc[t].i < P
  <2>1. ~(loc[t].i = P)
    BY <1>5, Shapes
  <2>2. /\ write_tlb(p_list[Slot(t)].tlb_index, loc[t].i, p_list[Slot(t)].pages[loc[t].i], {"r"})
        /\ SetLoc(t, "i", loc[t].i + 1) /\ UNCHANGED pc
    BY <2>1 DEF PopulateWrite
  <2>3. loc'[t].i = loc[t].i + 1
    BY <2>2, Shapes DEF SetLoc, Locals
  <2>4. UNCHANGED <<paging, mem>>
    BY DEF PopulateWrite
  <2> QED BY <1>1, <1>2, <1>3, <1>4, <1>5, <2>2, <2>3, <2>4 DEF write_tlb
<1>6. CASE loc[t].i = P
  BY <1>3, <1>6, Shapes DEF PopulateWrite, Goto, SetLoc, Locals
<1> QED BY <1>5, <1>6, Shapes DEF PopulateWrite

LEMMA PopulateOnSteps ==
  ASSUME All, NEW t \in Threads, PopulateOn(t)
  PROVE  /\ pc[t] = "pop_on" /\ UNCHANGED <<tlb, mem, loc>>
         /\ pc'[t] = (IF t = "main" THEN "sched_on" ELSE "restart")
         /\ paging' = TRUE
<1> USE DEF All, IInv
<1>1. running = t /\ Booted
  BY LoadFrame DEF LoadAndPopulate
<1>2. Reaches(IOPAGE)
  BY <1>1, StoresReach
<1> QED BY <1>2, Shapes DEF PopulateOn, At, Goto, SetPaging
-----------------------------------------------------------------------------
(* The TLB of a process, and its pages. *)
LEMMA TlbIndexKept ==
  ASSUME All, [Next]_vars, ~InitProc, ~AllocTlb
  PROVE  \A q \in Slots : p_list'[q].tlb_index = p_list[q].tlb_index
<1> USE DEF All, IInv
<1>1. p_list \in [Slots -> Process]
  BY Shapes
<1>2. CASE UNCHANGED p_list
  BY <1>2
<1>3. CASE AllocProc \/ SetRun \/ SetPc
  BY <1>1, <1>3 DEF AllocProc, SetRun, SetPc, Process
<1>4. CASE AllocPages \/ SwapPages
  <2>1. PICK q, v, p : p_list' = [p_list EXCEPT ![q].pages[v] = p] \/ UNCHANGED p_list
    BY <1>4 DEF AllocPages, SwapPages, GivePage
  <2> QED BY <1>1, <2>1 DEF Process
<1>5. CASE TickSwitch
  BY <1>1, <1>5 DEF TickSwitch, Process
<1>6. CASE LoadAndPopulate("main") \/ LoadAndPopulate("exec")
  BY <1>6, LoadFrame, Shapes DEF procVars
<1> QED BY <1>2, <1>3, <1>4, <1>5, <1>6
        DEF Next, Boot, InitMmu, InitInterrupts, ChooseInitOrShell, ShellExec, StartInit,
            MainStat, StartSched, SysExec, ExecPath, ExecPathHalts,
            ExecStat, ExecRestart, User, FetchInstruction, Access, AccessFaults, Isr,
            PageFault, UartIsr, TickOnly, SCallReturns, SCallExec, Device, RaiseTick,
            RaiseUart, vars, procVars

LEMMA PagesKept ==
  ASSUME All, [Next]_vars, ~InitProc, ~AllocPages, ~SwapPages
  PROVE  \A q \in Slots : p_list'[q].pages = p_list[q].pages
<1> USE DEF All, IInv
<1>1. p_list \in [Slots -> Process]
  BY Shapes
<1>2. CASE UNCHANGED p_list
  BY <1>2
<1>3. CASE AllocProc \/ SetRun \/ AllocTlb \/ SetPc
  BY <1>1, <1>3 DEF AllocProc, SetRun, AllocTlb, SetPc, Process
<1>5. CASE TickSwitch
  BY <1>1, <1>5 DEF TickSwitch, Process
<1>6. CASE LoadAndPopulate("main") \/ LoadAndPopulate("exec")
  BY <1>6, LoadFrame, Shapes DEF procVars
<1> QED BY <1>2, <1>3, <1>5, <1>6
        DEF Next, Boot, InitMmu, InitInterrupts, ChooseInitOrShell, ShellExec, StartInit,
            MainStat, StartSched, SysExec, ExecPath, ExecPathHalts,
            ExecStat, ExecRestart, User, FetchInstruction, Access, AccessFaults, Isr,
            PageFault, UartIsr, TickOnly, SCallReturns, SCallExec, Device, RaiseTick,
            RaiseUart, vars, procVars

(* syscall.c: a page given up is the one found again. *)
LEMMA SwapPagesSteps ==
  ASSUME All, SwapPages
  PROVE  /\ running = "exec" /\ pc["exec"] = "swap_pages"
         /\ \A q \in Slots : p_list'[q].pages = p_list[q].pages
         /\ \A p \in P .. PHYS - 1 : page_refcount'[p] = page_refcount[p]
         /\ loc'["exec"].slot = loc["exec"].slot /\ loc'["exec"].file = loc["exec"].file
         /\ \/ loc["exec"].i < P /\ pc'["exec"] = "swap_pages"
            \/ loc'["exec"].i = 0 /\ pc'["exec"] = "load_off"
<1> USE DEF All, IInv
<1> DEFINE i == loc["exec"].i
<1>1. running = "exec" /\ pc["exec"] = "swap_pages"
  BY DEF SwapPages, At
<1>2. loc["exec"].slot = mine /\ mine \in Slots /\ Given = P /\ Booted
  BY <1>1, MainSpins, Shapes DEF SpaceInv, OneProcess
<1>3. CASE i < P
  <2> DEFINE rc == Dec(page_refcount, P + i)
  <2>1. i \in Pages /\ p_list[mine].pages[i] = P + i
    <3>1. i \in Pages
      BY <1>3, Shapes DEF Pages
    <3> QED BY <1>2, <1>3, <3>1, OwnPages
  <2>2. P + i \in P .. PHYS - 1 /\ P .. PHYS - 1 \subseteq PhysPages
    BY <2>1, KernelAssumption DEF Pages, PhysPages
  <2>3. page_refcount \in [PhysPages -> 0 .. 255]
        /\ \A p \in P .. PHYS - 1 : page_refcount[p] = IF p < P + P THEN 1 ELSE 0
    BY <1>2 DEF TypeOK, SpaceInv, CountsInOrder
  <2>4. P + i < P + P
    BY <1>3, Shapes
  <2>5. rc = [page_refcount EXCEPT ![P + i] = 0] /\ page_refcount[P + i] = 1
    <3>1. page_refcount[P + i] = 1
      BY <2>2, <2>3, <2>4
    <3>2. rc = [page_refcount EXCEPT ![P + i] = (page_refcount[P + i] + 255) % 256]
      BY DEF Dec
    <3> QED BY <3>1, <3>2
  <2> HIDE DEF rc
  <2>6. \A p \in P .. PHYS - 1 : p <= P + i => (rc[p] = 0 <=> p = P + i)
    <3> SUFFICES ASSUME NEW p \in P .. PHYS - 1, p <= P + i PROVE rc[p] = 0 <=> p = P + i
      OBVIOUS
    <3>1. CASE p = P + i
      BY <2>2, <2>3, <2>5, <3>1
    <3>2. CASE p # P + i
      <4>1. p < P + P /\ page_refcount[p] = 1
        BY <2>3, <2>4, Shapes
      <4>2. p \in PhysPages /\ rc[p] = page_refcount[p]
        BY <2>2, <2>3, <2>5, <3>2
      <4> QED BY <3>2, <4>1, <4>2
    <3> QED BY <3>1, <3>2
  <2>7. find_free_page(rc) = P + i
    BY <2>1, <2>6, FreePage
  <2>8. GivePage(mine, i, rc)
    <3>1. ~(i = P)
      BY <1>3, Shapes
    <3>2. GivePage(loc["exec"].slot, i, Dec(page_refcount, p_list[loc["exec"].slot].pages[i]))
      BY <3>1 DEF SwapPages
    <3> QED BY <1>2, <2>1, <3>2 DEF rc
  <2>9. p_list' = [p_list EXCEPT ![mine].pages[i] = P + i] /\ page_refcount' = Inc(rc, P + i)
    BY <2>7, <2>8 DEF GivePage
  <2>10. \A q \in Slots : p_list'[q].pages = p_list[q].pages
    BY <1>2, <2>1, <2>9, Shapes DEF Process
  <2>11. \A p \in P .. PHYS - 1 : page_refcount'[p] = page_refcount[p]
    <3>1. page_refcount' = [page_refcount EXCEPT ![P + i] = 1]
      BY <2>2, <2>3, <2>5, <2>9 DEF Inc
    <3> QED BY <2>3, <2>5, <3>1
  <2>12. SetLoc("exec", "i", i + 1) /\ UNCHANGED pc
    BY <1>3, Shapes DEF SwapPages
  <2>13. loc'["exec"].slot = loc["exec"].slot /\ loc'["exec"].file = loc["exec"].file
    BY <2>12, Shapes DEF SetLoc, Locals
  <2> QED BY <1>1, <1>3, <2>10, <2>11, <2>12, <2>13
<1>4. CASE ~(i < P)
  <2>1. SetLoc("exec", "i", 0) /\ Goto("exec", "load_off") /\ UNCHANGED <<p_list, page_refcount>>
    BY <1>4 DEF SwapPages
  <2>2. loc'["exec"].slot = loc["exec"].slot /\ loc'["exec"].file = loc["exec"].file
        /\ loc'["exec"].i = 0 /\ pc'["exec"] = "load_off"
    BY <2>1, Shapes DEF SetLoc, Goto, Locals
  <2> QED BY <1>1, <2>1, <2>2
<1> QED BY <1>3, <1>4

(* start_init's loop: page i of the process is the next one free, P + i. *)
LEMMA AllocPagesSteps ==
  ASSUME All, AllocPages
  PROVE  /\ running = "main" /\ pc["main"] = "alloc_pages" /\ mine' = mine /\ Booted
         /\ pc'["exec"] = pc["exec"] /\ loc'["exec"] = loc["exec"]
         /\ UNCHANGED <<mmuVars, cpuVars, current_proc_idx, do_switch, tlb_map>>
         /\ \/ /\ pc'["main"] = "alloc_pages" /\ loc["main"].i < P
               /\ loc'["main"].i = loc["main"].i + 1
               /\ \A q \in Slots, v \in Pages :
                    p_list'[q].pages[v] = IF q = mine /\ v < loc["main"].i + 1 THEN P + v ELSE 0
               /\ \A p \in P .. PHYS - 1 :
                    page_refcount'[p] = IF p < P + (loc["main"].i + 1) THEN 1 ELSE 0
            \/ /\ pc'["main"] = "stat" /\ loc["main"].i = P /\ loc'["main"].i = 0
               /\ UNCHANGED <<p_list, page_refcount>>
<1> USE DEF All, IInv
<1> DEFINE i == loc["main"].i
<1>1. running = "main" /\ pc["main"] = "alloc_pages"
  BY DEF AllocPages, At
<1>2. /\ mine' = mine /\ Booted /\ pc'["exec"] = pc["exec"] /\ loc'["exec"] = loc["exec"]
      /\ UNCHANGED <<mmuVars, cpuVars, current_proc_idx, do_switch, tlb_map>>
  BY <1>1, Shapes DEF AllocPages, SetLoc, Goto, Locals, mine, Booted
<1>3. CASE i < P
  <2>1. i \in Pages /\ i \in Nat /\ P \in Nat /\ mine \in Slots
    BY <1>3, Shapes DEF Pages
  <2>2. P + i \in P .. PHYS - 1 /\ P .. PHYS - 1 \subseteq PhysPages
    BY <2>1, KernelAssumption DEF Pages, PhysPages
  <2>3. Given = i /\ Booted
    BY <1>1 DEF Given, Unpaged, Booted
  <2>4. page_refcount \in [PhysPages -> 0 .. 255]
        /\ \A p \in P .. PHYS - 1 : page_refcount[p] = IF p < P + i THEN 1 ELSE 0
    BY <2>3 DEF TypeOK, SpaceInv, CountsInOrder
  <2>5. \A q \in Slots, v \in Pages : p_list[q].pages[v] = IF q = mine /\ v < i THEN P + v ELSE 0
    BY <2>3 DEF SpaceInv, PagesInOrder
  <2>6. GivePage(mine, i, page_refcount) /\ SetLoc("main", "i", i + 1) /\ UNCHANGED pc
    <3>1. ~(i = P)
      BY <1>3, <2>1
    <3> QED BY <3>1 DEF AllocPages, mine
  <2>7. loc'["main"].i = i + 1
    BY <2>6, Shapes DEF SetLoc, Locals
  <2> HIDE DEF i
  <2>8. find_free_page(page_refcount) = P + i
    <3>1. \A p \in P .. PHYS - 1 : p <= P + i => (page_refcount[p] = 0 <=> p = P + i)
      BY <2>1, <2>4
    <3> QED BY <2>1, <3>1, FreePage
  <2>9. p_list' = [p_list EXCEPT ![mine].pages[i] = P + i]
        /\ page_refcount' = [page_refcount EXCEPT ![P + i] = (@ + 1) % 256]
    BY <2>6, <2>8 DEF GivePage, Inc
  <2>10. \A q \in Slots, v \in Pages :
           p_list'[q].pages[v] = IF q = mine /\ v = i THEN P + i ELSE p_list[q].pages[v]
    BY <2>1, <2>9, Shapes DEF Process
  <2>11. ASSUME NEW q \in Slots, NEW v \in Pages
         PROVE  p_list'[q].pages[v] = IF q = mine /\ v < i + 1 THEN P + v ELSE 0
    <3>1. v \in Nat
      BY DEF Pages
    <3>2. CASE v = i
      BY <2>1, <2>5, <2>10, <3>2
    <3>3. CASE v # i
      <4>1. v < i + 1 <=> v < i
        BY <2>1, <3>1, <3>3
      <4> QED BY <2>5, <2>10, <3>3, <4>1
    <3> QED BY <3>2, <3>3
  <2>12. page_refcount' = [page_refcount EXCEPT ![P + i] = 1]
    <3>1. page_refcount[P + i] = 0
      BY <2>1, <2>2, <2>4
    <3> QED BY <2>9, <3>1
  <2>13. ASSUME NEW p \in P .. PHYS - 1
         PROVE  page_refcount'[p] = IF p < P + (i + 1) THEN 1 ELSE 0
    <3>1. p \in PhysPages
      BY <2>2
    <3>2. CASE p = P + i
      BY <2>1, <2>4, <2>12, <3>1, <3>2
    <3>3. CASE p # P + i
      <4>1. p < P + (i + 1) <=> p < P + i
        BY <2>1, <3>3
      <4> QED BY <2>4, <2>12, <3>1, <3>3, <4>1
    <3> QED BY <3>2, <3>3
  <2> QED BY <1>1, <1>2, <1>3, <2>6, <2>7, <2>11, <2>13 DEF i
<1>4. CASE ~(i < P)
  <2>1. i = P /\ SetLoc("main", "i", 0) /\ Goto("main", "stat") /\ UNCHANGED <<p_list, page_refcount>>
    BY <1>4 DEF AllocPages
  <2>2. loc'["main"].i = 0 /\ pc'["main"] = "stat"
    BY <2>1, Shapes DEF SetLoc, Goto, Locals
  <2> QED BY <1>1, <1>2, <2>1, <2>2
<1> QED BY <1>3, <1>4

(* start_init's other steps, and those of main before it. *)
LEMMA BootSteps ==
  ASSUME All, Boot
  PROVE  /\ running = "main" /\ running' = "main" /\ loc' = loc /\ mem' = mem /\ irqs' = irqs
         /\ pc'["exec"] = pc["exec"] /\ tlb_map' = tlb_map
         /\ pc["main"] \in NoTlb /\ pc'["main"] \in NoTlb \ {"init_proc"}
         /\ Given = 0 /\ Given' = 0 /\ mine' = mine
<1> USE DEF All, IInv
<1>1. /\ running = "main" /\ running' = "main" /\ loc' = loc /\ mem' = mem /\ irqs' = irqs
      /\ tlb_map' = tlb_map
  BY DEF Boot, InitProc, InitMmu, InitInterrupts, ChooseInitOrShell, ShellExec, At, mmuVars,
         cpuVars, allocVars
<1>2. pc["main"] \in NoTlb
  BY DEF Boot, InitProc, InitMmu, InitInterrupts, ChooseInitOrShell, ShellExec, At, NoTlb, Unpaged
<1>3. pc'["exec"] = pc["exec"] /\ pc'["main"] \in NoTlb \ {"init_proc"}
  BY Shapes DEF Boot, InitProc, InitMmu, InitInterrupts, ChooseInitOrShell, ShellExec, Goto,
                NoTlb, Unpaged
<1> QED BY <1>1, <1>2, <1>3 DEF Given, NoTlb, mine

Building == AllocProc \/ SetRun \/ AllocTlb \/ SetPc \/ MainStat \/ StartSched

LEMMA BuildingSteps ==
  ASSUME All, Building
  PROVE  /\ running = "main" /\ Booted /\ Booted'
         /\ UNCHANGED <<mmuVars, cpuVars, current_proc_idx, page_refcount>>
         /\ pc'["exec"] = pc["exec"] /\ loc'["exec"] = loc["exec"]
         /\ loc'["main"].i = loc["main"].i
         /\ Given' = Given
         /\ \A S \in {Unpaged, Unpaged \cup {"alloc_pages"}, Unpaged \cup {"stat", "pop_off"}} :
              pc'["main"] \in S => pc["main"] \in S
         /\ ~AllocProc => mine' = mine
         /\ ~StartSched => do_switch' = do_switch
<1> USE DEF All, IInv, Building
<1>1. running = "main" /\ UNCHANGED <<mmuVars, cpuVars, current_proc_idx, page_refcount>>
  BY DEF AllocProc, SetRun, AllocTlb, SetPc, MainStat, StartSched, At, procVars, allocVars
<1>2. pc["main"] \in {"alloc_proc", "set_run", "alloc_tlb", "set_pc", "stat", "sched_on", "sched_ticks"}
  BY DEF AllocProc, SetRun, AllocTlb, SetPc, MainStat, StartSched, At
<1>3. pc'["exec"] = pc["exec"] /\ loc'["exec"] = loc["exec"] /\ loc'["main"].i = loc["main"].i
  BY Shapes DEF AllocProc, SetRun, AllocTlb, SetPc, MainStat, ProbeFile, StartSched, Goto, SetLoc, Locals
<1>4. ~AllocProc => mine' = mine
  BY Shapes DEF SetRun, AllocTlb, SetPc, MainStat, ProbeFile, StartSched, SetLoc, Locals, mine
<1>5. \/ pc["main"] \in Unpaged \ {"set_pc"} /\ pc'["main"] \in Unpaged
      \/ pc["main"] = "set_pc" /\ pc'["main"] = "alloc_pages"
      \/ pc["main"] \notin Unpaged \cup {"alloc_pages"}
         /\ pc'["main"] \notin Unpaged \cup {"alloc_pages"}
  BY Shapes DEF AllocProc, SetRun, AllocTlb, SetPc, MainStat, ProbeFile, StartSched, Goto, At, Unpaged
<1>6. Given' = Given
  BY <1>3, <1>5 DEF Given, Unpaged, SpaceInv, Counting
<1>7. Booted /\ Booted'
  <2>1. pc'["main"] \notin {"init_proc", "init_mmu"}
    BY Shapes DEF AllocProc, SetRun, AllocTlb, SetPc, MainStat, ProbeFile, StartSched, Goto
  <2> QED BY <1>2, <2>1 DEF Booted
<1>8. ~StartSched => do_switch' = do_switch
  BY DEF AllocProc, SetRun, AllocTlb, SetPc, MainStat, procVars
<1>9. ASSUME NEW S \in {Unpaged, Unpaged \cup {"alloc_pages"}, Unpaged \cup {"stat", "pop_off"}},
             pc'["main"] \in S
      PROVE  pc["main"] \in S
  BY <1>9, Shapes DEF AllocProc, SetRun, AllocTlb, SetPc, MainStat, ProbeFile, StartSched, Goto,
                      At, Unpaged
<1> QED BY <1>1, <1>3, <1>4, <1>6, <1>7, <1>8, <1>9
(* Who writes what.  Once main is over, what it wrote stays. *)
Rest == SysExec \/ User \/ Isr \/ Device \/ UNCHANGED vars
LEMMA MainRests ==
  ASSUME All, Rest
  PROVE  /\ pc'["main"] = pc["main"] /\ loc'["main"] = loc["main"]
         /\ mine' = mine /\ Given' = Given /\ Booted' = Booted
         /\ UNCHANGED <<do_switch, tlb_map>>
         /\ \A q \in Slots : /\ p_list'[q].pages = p_list[q].pages
                            /\ p_list'[q].tlb_index = p_list[q].tlb_index
                            /\ p_list'[q].status = p_list[q].status
<1> USE DEF All, IInv
<1>1. pc'["main"] = pc["main"] /\ loc'["main"] = loc["main"]
  <2>1. CASE LoadAndPopulate("exec")
    BY <2>1, LoadFrame, Shapes
  <2>2. CASE ~LoadAndPopulate("exec")
    BY <2>2, Shapes
       DEF Rest, SysExec, ExecPath, ExecPathHalts, ExecStat, SwapPages, ExecRestart,
           SCallExec, Goto, SetLoc, threadVars, vars, User, FetchInstruction, Access,
           AccessFaults, Device, RaiseTick, RaiseUart, Isr, PageFault, UartIsr, TickOnly,
           TickSwitch, SCallReturns
  <2> QED BY <2>1, <2>2
<1>2. UNCHANGED <<do_switch, tlb_map>>
  <2>1. CASE LoadAndPopulate("exec")
    BY <2>1, LoadFrame, Shapes DEF procVars, allocVars
  <2>2. CASE ~LoadAndPopulate("exec")
    BY <2>2
       DEF Rest, SysExec, ExecPath, ExecPathHalts, ExecStat, SwapPages, ExecRestart,
           SCallExec, procVars, allocVars, vars, User, FetchInstruction, Access,
           AccessFaults, Device, RaiseTick, RaiseUart, Isr, PageFault, UartIsr, TickOnly,
           TickSwitch, SCallReturns
  <2> QED BY <2>1, <2>2
<1>3. ~InitProc /\ ~SetRun /\ ~AllocTlb /\ ~AllocPages
  <2>1. ~InitProc /\ ~SetRun /\ ~AllocTlb
    BY <1>1, Shapes DEF InitProc, SetRun, AllocTlb, At, Goto
  <2>2. ~AllocPages
    BY <1>1, AllocPagesSteps, Shapes
  <2> QED BY <2>1, <2>2
<1>4. [Next]_vars
  BY DEF Rest, Next
<1>5. \A q \in Slots : /\ p_list'[q].tlb_index = p_list[q].tlb_index
                      /\ p_list'[q].status = p_list[q].status
  BY <1>3, <1>4, TlbIndexKept, StatusKept
<1>6. \A q \in Slots : p_list'[q].pages = p_list[q].pages
  BY <1>3, <1>4, PagesKept, SwapPagesSteps
<1> QED BY <1>1, <1>2, <1>5, <1>6 DEF mine, Given, Booted

-----------------------------------------------------------------------------
(* The other steps: interrupts, system calls, the program, the devices.      *)
tables == <<p_list, current_proc_idx, do_switch, allocVars>>

(* uart_isr, a tick without a switch, and a call answered at once. *)
Resuming == UartIsr \/ TickOnly \/ SCallReturns
LEMMA ResumingSteps ==
  ASSUME All, Resuming
  PROVE  /\ running \in {"main", "user", "scall"}
         /\ running' = IF running = "main" THEN "main" ELSE "user"
         /\ irqs' = {} /\ paging' = TRUE
         /\ UNCHANGED <<tlb_index, tlb, fault, mem, op, tables, threadVars>>
<1>1. running \in {"main", "user", "scall"}
  BY DEF Resuming, UartIsr, TickOnly, SCallReturns, AtFetch, SCall
<1>2. PICK c : Handled(c) /\ c.who = IF running = "main" THEN "main" ELSE "user"
  <2>1. CASE UartIsr \/ TickOnly
    BY <2>1 DEF UartIsr, TickOnly, Interrupted
  <2>2. CASE SCallReturns
    BY <2>2 DEF SCallReturns, SCall
  <2> QED BY <2>1, <2>2 DEF Resuming
<1>3. irqs' = {} /\ paging' = TRUE /\ running' = c.who
  BY <1>2 DEF Handled, Iret
<1>4. UNCHANGED <<tlb_index, tlb, fault, mem, op, tables, threadVars>>
  BY DEF Resuming, UartIsr, TickOnly, SCallReturns, procVars, tables
<1> QED BY <1>1, <1>2, <1>3, <1>4

(* proc.c: sched picks a runnable slot if there is one. *)
LEMMA SchedPicksRunnable ==
  ASSUME current_proc_idx \in Slots \cup {NONE}, Runnable # {}
  PROVE  NextProc \in Runnable
<1> DEFINE s == IF current_proc_idx = NONE THEN 0 ELSE current_proc_idx + 1
           ahead == {d \in 0 .. N_PROC - 1 : (s + d) % N_PROC \in Runnable}
<1>1. s \in 0 .. N_PROC /\ N_PROC \in Nat \ {0}
  BY Constants DEF Slots
<1>2. PICK q \in 0 .. N_PROC - 1 : q \in Runnable
  BY DEF Runnable, Slots
<1>3. \E d \in 0 .. N_PROC - 1 : (s + d) % N_PROC = q
  <2>1. CASE q >= s
    <3>1. q - s \in 0 .. N_PROC - 1 /\ s + (q - s) = q
      BY <1>1, <1>2, <2>1
    <3>2. q % N_PROC = q
      BY <1>1, <1>2
    <3> QED BY <3>1, <3>2
  <2>2. CASE q < s
    <3>1. q - s + N_PROC \in 0 .. N_PROC - 1 /\ s + (q - s + N_PROC) = q + N_PROC
      BY <1>1, <1>2, <2>2
    <3>2. (q + N_PROC) % N_PROC = q
      BY <1>1, <1>2
    <3> QED BY <3>1, <3>2
  <2> QED BY <1>1, <1>2, <2>1, <2>2
<1>4. ahead # {} /\ ahead \in SUBSET Nat
  BY <1>2, <1>3
<1>5. NextProc = (s + LeastOr(ahead, 0)) % N_PROC
  BY DEF NextProc
<1>6. LeastOr(ahead, 0) \in ahead
  <2> HIDE DEF ahead
  <2> QED BY <1>4, LeastOrIn
<1> QED BY <1>5, <1>6

LEMMA TickSwitchSteps ==
  ASSUME All, TickSwitch
  PROVE  /\ running \in {"main", "user", "scall"} /\ running' = "user"
         /\ pc["main"] \in Ticking /\ current_proc_idx' = mine
         /\ tlb_index' = p_list[mine].tlb_index /\ irqs' = {} /\ paging' = TRUE
         /\ UNCHANGED <<tlb, fault, mem, op, do_switch, allocVars, threadVars>>
<1> USE DEF All, IInv
<1>1. running \in {"main", "user", "scall"} /\ pc["main"] \in Ticking /\ Runnable # {}
  BY DEF TickSwitch, AtFetch, SpaceInv, OneProcess
<1>2. NextProc = mine
  <2>1. NextProc \in Runnable
    BY <1>1, SchedPicksRunnable DEF TypeOK
  <2> QED BY <2>1 DEF Runnable, SpaceInv, OneProcess
<1>3. p_list'[mine].ctx.who = "user"
  <2>1. CASE current_proc_idx = NONE
    BY <1>2, <2>1, Shapes DEF TickSwitch, Control
  <2>2. CASE current_proc_idx # NONE
    <3>1. current_proc_idx = mine /\ running # "main"
      BY <1>1, <2>2 DEF SpaceInv, OneProcess, Control, Ticking
    <3>2. p_list' = [p_list EXCEPT ![mine].ctx = Interrupted] /\ Interrupted.who = "user"
      BY <2>2, <3>1 DEF TickSwitch, Interrupted
    <3> QED BY <3>2, Shapes DEF Process
  <2> QED BY <2>1, <2>2
<1>4. irqs' = {} /\ paging' = TRUE /\ running' = p_list'[mine].ctx.who
  BY <1>2 DEF TickSwitch, Handled, Iret
<1>5. current_proc_idx' = mine /\ tlb_index' = p_list[mine].tlb_index
      /\ UNCHANGED <<tlb, fault, mem, op, do_switch, allocVars, threadVars>>
  BY <1>2 DEF TickSwitch
<1> QED BY <1>1, <1>3, <1>4, <1>5

(* sys_exec: in, the window on the path, and out. *)
LEMMA SCallExecSteps ==
  ASSUME All, SCallExec
  PROVE  /\ running = "scall" /\ running' = "exec" /\ paging' = FALSE
         /\ pc'["exec"] = "path" /\ loc'["exec"].i = 0
         /\ loc'["exec"].slot = current_proc_idx /\ loc'["exec"].file = 0
         /\ irqs = {} /\ irqs' = {}
         /\ UNCHANGED <<tlb_index, tlb, fault, mem, tables>>
BY Shapes DEF SCallExec, SCall, Goto, All, IInv, procVars, tables

LEMMA ExecPathSteps ==
  ASSUME All, ExecPath
  PROVE  /\ InPath /\ running' = "exec" /\ pc'["exec"] = "stat" /\ loc' = loc
         /\ tlb_index' = 0 /\ paging' = TRUE /\ irqs' = irqs /\ frame' = frame
         /\ tlb' = [tlb EXCEPT ![0][WIN] = [page |-> P + frame.r.x, flags |-> RW]]
         /\ UNCHANGED <<fault, mem, tables>>
<1> USE DEF All, IInv
<1>1. InPath /\ running = "exec"
  BY DEF ExecPath, At, InPath
<1>2. ~paging
  BY <1>1 DEF SpaceInv, PagingRight
<1>3. p_list[current_proc_idx].pages[frame.r.x] = P + frame.r.x
  <2>1. frame.r.x \in Pages /\ frame.r.x < P
    BY KernelAssumption DEF TypeOK, Context, Regs, Pages
  <2> QED BY <1>1, <2>1, MainSpins, OwnPages
<1>4. tlb' = [tlb EXCEPT ![0][WIN] = [page |-> P + frame.r.x, flags |-> RW]]
  BY <1>2, <1>3 DEF ExecPath, write_tlb, Reaches, Permits, Phys
<1> QED BY <1>1, <1>4, Shapes DEF ExecPath, Goto, cpuVars, procVars, tables

(* sys_exec ends: the file is missing, or loaded. *)
ExecFound == ExecStat /\ running' = "exec"
Leaving == (ExecStat /\ running' # "exec") \/ ExecRestart
LEMMA ExecFoundSteps ==
  ASSUME All, ExecFound
  PROVE  /\ running = "exec" /\ pc["exec"] = "stat" /\ pc'["exec"] = "swap_pages"
         /\ loc'["exec"].i = loc["exec"].i /\ loc'["exec"].slot = loc["exec"].slot
         /\ UNCHANGED <<mmuVars, cpuVars, tables>>
<1> USE DEF All, IInv
<1>1. running = "exec" /\ pc["exec"] = "stat" /\ UNCHANGED <<tlb, fault, mem, op, tables>>
  BY DEF ExecFound, ExecStat, At, procVars, tables
<1>2. ~Iret([who |-> "user", r |-> [frame.r EXCEPT !.a = 0, !.b = 1]])
  BY DEF ExecFound, Iret
<1>3. PICK f \in Files : SetLoc("exec", "file", f) /\ Goto("exec", "swap_pages")
         /\ UNCHANGED <<paging, tlb_index, running, regs, int_en, irqs, frame, retired>>
  BY <1>2 DEF ExecFound, ExecStat
<1> QED BY <1>1, <1>3, Shapes DEF SetLoc, Goto, Locals, mmuVars, cpuVars

LEMMA LeavingSteps ==
  ASSUME All, Leaving
  PROVE  /\ running = "exec" /\ pc["exec"] \in {"stat", "restart"} /\ running' = "user"
         /\ pc'["exec"] = "path" /\ loc'["exec"] = NoLocals
         /\ tlb_index' = p_list[mine].tlb_index /\ paging' = TRUE /\ irqs' = irqs
         /\ UNCHANGED <<tlb, fault, mem, tables>>
<1> USE DEF All, IInv
<1>1. running = "exec" /\ pc["exec"] \in {"stat", "restart"}
  BY DEF Leaving, ExecStat, ExecRestart, At
<1>2. /\ tlb_index' = p_list[current_proc_idx].tlb_index /\ irqs' = irqs
      /\ loc' = [loc EXCEPT !["exec"] = NoLocals] /\ Goto("exec", "path")
      /\ \E r : Iret([who |-> "user", r |-> r])
  BY <1>1 DEF Leaving, ExecStat, ExecRestart
<1>3. UNCHANGED <<tlb, fault, mem, tables>>
  BY DEF Leaving, ExecStat, ExecRestart, procVars, tables
<1>4. current_proc_idx = mine
  BY <1>1, MainSpins
<1> QED BY <1>1, <1>2, <1>3, <1>4, Shapes DEF Iret, Goto

LEMMA ExecPathHaltsSteps ==
  ASSUME All, ExecPathHalts
  PROVE  /\ running = "exec" /\ pc["exec"] = "path" /\ running' = "hlt"
         /\ tlb_index' = 0 /\ irqs' = irqs /\ UNCHANGED <<tlb, mem, tables, threadVars>>
BY DEF ExecPathHalts, At, procVars, tables

(* interrupts.c: page_fault gives the page v of the process, and more rights. *)
LEMMA PageFaultSteps ==
  ASSUME All, PageFault
  PROVE  /\ running = "access" /\ running' = "access" /\ 0 \in irqs /\ irqs' = {}
         /\ paging' = TRUE
         /\ \E v \in Pages, fl \in {RW, {"r"}} :
              tlb' = [tlb EXCEPT ![p_list[mine].tlb_index][v] =
                        [page |-> P + v, flags |-> fl]]
         /\ UNCHANGED <<tlb_index, mem, tables, threadVars>>
<1> USE DEF All, IInv
<1>1. running = "access" /\ 0 \in irqs
  BY DEF PageFault, Raised
<1>2. ~paging /\ fault.idx = p_list[mine].tlb_index /\ fault.page \in Pages
  BY <1>1 DEF SpaceInv, PagingRight, RightTlb, UserModes, TypeOK
<1>3. Reaches(IOPAGE)
  BY <1>2 DEF Reaches, Permits, Phys
<1>4. tlb' = [tlb EXCEPT ![p_list[mine].tlb_index][fault.page] =
                [page |-> P + fault.page, flags |-> IF fault.cause = "w" THEN RW ELSE {"r"}]]
  BY <1>2, <1>3 DEF PageFault, write_tlb
<1>5. running' = "access" /\ irqs' = {} /\ paging' = TRUE
      /\ UNCHANGED <<tlb_index, mem, tables, threadVars>>
  BY <1>1 DEF PageFault, procVars, tables
<1> QED BY <1>1, <1>2, <1>4, <1>5

(* The program writes no page but its own. *)
LEMMA AccessSteps ==
  ASSUME All, Access
  PROVE  /\ running = "access" /\ running' = "user" /\ 0 \notin irqs /\ irqs' = irqs
         /\ mem' = mem \/ \E v \in Pages : mem' = [mem EXCEPT ![P + v] = Other]
         /\ UNCHANGED <<paging, tlb_index, tlb, fault, tables, threadVars>>
<1> USE DEF All, IInv
<1>1. running = "access" /\ running' = "user" /\ 0 \notin irqs /\ irqs' = irqs
      /\ UNCHANGED <<paging, tlb_index, tlb, fault, tables, threadVars>>
  BY DEF Access, procVars, tables
<1>2. paging /\ tlb_index = p_list[mine].tlb_index /\ op.page \in Pages
  BY <1>1 DEF SpaceInv, PagingRight, RightTlb, UserModes, TypeOK
<1>3. Mapped(P) /\ op.page < P
  BY <1>1, MainSpins, KernelAssumption DEF SpaceInv, MappedRight, Ticking, StartLabels, TypeOK, Pages
<1>4. Phys(op.page) = P + op.page
  BY <1>2, <1>3 DEF Phys, Mapped
<1> QED BY <1>1, <1>2, <1>4 DEF Access

LEMMA FetchSteps ==
  ASSUME All, FetchInstruction
  PROVE  /\ running = "user" /\ running' \in {"access", "scall"} /\ irqs = {} /\ irqs' = irqs
         /\ UNCHANGED <<mmuVars, tables, threadVars>>
BY DEF FetchInstruction, procVars, tables

LEMMA AccessFaultsSteps ==
  ASSUME All, AccessFaults
  PROVE  /\ running = "access" /\ running' = "access" /\ paging' = FALSE
         /\ fault'.idx = tlb_index
         /\ UNCHANGED <<tlb_index, tlb, mem, tables, threadVars>>
BY DEF AccessFaults, procVars, tables

LEMMA DeviceSteps ==
  ASSUME All, Device
  PROVE  /\ 0 \in irqs' <=> 0 \in irqs
         /\ UNCHANGED <<mmuVars, running, frame, tables, threadVars>>
BY DEF Device, RaiseTick, RaiseUart, procVars, tables
-----------------------------------------------------------------------------
LEMMA InitSpace == Init => SpaceInv
<1> SUFFICES ASSUME Init PROVE SpaceInv
  OBVIOUS
<1> USE DEF Init
<1>1. pc["main"] = "init_proc" /\ pc["exec"] = "path" /\ running = "main" /\ ~Booted
      /\ loc["main"].i = 0 /\ loc["exec"].i = 0 /\ mine \in Slots /\ Given = 0
  BY Constants DEF Threads, NoLocals, Booted, mine, Given, Unpaged
<1>2. Counting /\ CountsInOrder /\ KernelTlb
  BY <1>1 DEF Counting, CountsInOrder, KernelTlb
<1>3. OneProcess
  BY <1>1 DEF OneProcess, EmptyProcess, PROCESS_NONE, PROCESS_RUN
<1>4. PagesInOrder
  <2>1. \A v \in Pages : ~(v < 0)
    BY DEF Pages
  <2>2. \A q \in Slots, v \in Pages : p_list[q].pages[v] = 0
    BY DEF EmptyProcess
  <2> QED BY <1>1, <2>1, <2>2 DEF PagesInOrder
<1>5. OwnTlb
  BY <1>1, Constants DEF OwnTlb, TlbIdx, NoTlb, Unpaged
<1>6. RightTlb /\ PagingRight /\ WindowSet
  BY <1>1 DEF RightTlb, PagingRight, WindowSet, InPath, UserModes, Threads
<1>7. MappedRight /\ FilesRead
  BY <1>1 DEF MappedRight, StartLabels, FilesRead, FileRead, Threads, LoadLabels,
              PopulateLabels
<1>8. KernelIntact
  <2>1. \A p \in Pages : p \in PhysPages /\ p < P
    BY Constants DEF Pages
  <2>2. mem = [p \in PhysPages |-> IF p < P THEN KernelData ELSE Other]
    OBVIOUS
  <2> QED BY <2>1, <2>2, Zenon DEF KernelIntact
<1> QED BY <1>2, <1>3, <1>4, <1>5, <1>6, <1>7, <1>8 DEF SpaceInv

(* The steps, as the proofs below tell them apart. *)
LEMMA Steps ==
  ASSUME [Next]_vars
  PROVE  \/ Boot \/ Building \/ AllocPages \/ LoadAndPopulate("main")
         \/ Rest
BY DEF Next, StartInit, Building, Rest
LEMMA RestSteps ==
  ASSUME Rest
  PROVE  \/ LoadAndPopulate("exec") \/ ExecPath \/ ExecPathHalts \/ ExecFound \/ Leaving
         \/ SwapPages \/ FetchInstruction \/ Access \/ AccessFaults \/ PageFault \/ Resuming
         \/ TickSwitch \/ SCallExec \/ Device \/ UNCHANGED vars
BY DEF Rest, SysExec, ExecFound, Leaving, User, Isr, Resuming

LEMMA CountingNext == All /\ [Next]_vars => Counting'
<1> SUFFICES ASSUME All, [Next]_vars PROVE Counting'
  OBVIOUS
<1> USE DEF All, IInv, SpaceInv
<1>1. pc'["main"] \in Unpaged \cup {"stat", "pop_off"} => loc'["main"].i = 0
  <2>1. CASE Boot
    BY <2>1, BootSteps DEF Counting, NoTlb
  <2>2. CASE Building
    BY <2>2, BuildingSteps DEF Counting
  <2>3. CASE AllocPages
    BY <2>3, AllocPagesSteps DEF Unpaged
  <2>4. CASE LoadAndPopulate("main")
    BY <2>4, LoadFrame, LoadOffSteps, LoadMapSteps, LoadOnSteps, LoadReadSteps, PopulateOffSteps,
       PopulateWriteSteps, PopulateOnSteps, Shapes DEF LoadAndPopulate, Unpaged
  <2>5. CASE Rest
    BY <2>5, MainRests DEF Counting
  <2> QED BY <2>1, <2>2, <2>3, <2>4, <2>5, Steps
<1>2. pc'["exec"] \in {"path", "stat", "pop_off"} => loc'["exec"].i = 0
  <2>1. CASE Boot
    BY <2>1, BootSteps DEF Counting
  <2>2. CASE Building
    BY <2>2, BuildingSteps DEF Counting
  <2>3. CASE AllocPages
    BY <2>3, AllocPagesSteps DEF Counting
  <2>4. CASE LoadAndPopulate("main")
    BY <2>4, LoadFrame, Shapes DEF Counting
  <2>5. CASE LoadAndPopulate("exec")
    BY <2>5, LoadFrame, LoadOffSteps, LoadMapSteps, LoadOnSteps, LoadReadSteps, PopulateOffSteps,
       PopulateWriteSteps, PopulateOnSteps, Shapes DEF LoadAndPopulate
  <2>6. CASE SwapPages
    BY <2>6, SwapPagesSteps
  <2>7. CASE ExecPath \/ ExecPathHalts \/ ExecFound \/ SCallExec
    BY <2>7, ExecPathSteps, ExecPathHaltsSteps, ExecFoundSteps, SCallExecSteps
       DEF Counting, InPath, threadVars
  <2>8. CASE Leaving
    BY <2>8, LeavingSteps DEF NoLocals
  <2>9. CASE UNCHANGED threadVars
    BY <2>9 DEF Counting, threadVars
  <2> QED BY <2>1, <2>2, <2>3, <2>4, <2>5, <2>6, <2>7, <2>8, <2>9, Steps, RestSteps,
             FetchSteps, AccessSteps, AccessFaultsSteps, PageFaultSteps, ResumingSteps,
             TickSwitchSteps, DeviceSteps DEF vars
<1> QED BY <1>1, <1>2 DEF Counting

LEMMA OneProcessNext == All /\ [Next]_vars => OneProcess'
<1> SUFFICES ASSUME All, [Next]_vars PROVE OneProcess'
  OBVIOUS
<1> USE DEF All, IInv, SpaceInv
<1>1. CASE Boot
  <2>1. do_switch' = FALSE /\ (pc'["main"] # "init_proc" => current_proc_idx' = NONE)
    <3>1. CASE InitProc
      BY <3>1 DEF InitProc
    <3>2. CASE ~InitProc
      <4>1. UNCHANGED procVars /\ pc["main"] # "init_proc" /\ running = "main"
        BY <1>1, <3>2 DEF Boot, InitMmu, InitInterrupts, ChooseInitOrShell, ShellExec, At
      <4>2. pc["main"] \notin Ticking
        BY <1>1, BootSteps DEF NoTlb, Unpaged, Ticking
      <4> QED BY <4>1, <4>2, Shapes DEF OneProcess, Control, procVars, TypeOK
    <3> QED BY <3>1, <3>2
  <2>2. \A q \in Slots : p_list'[q].status # PROCESS_RUN
    <3>1. CASE InitProc
      BY <3>1 DEF InitProc, EmptyProcess, PROCESS_NONE, PROCESS_RUN
    <3>2. CASE ~InitProc
      <4>1. UNCHANGED p_list /\ pc["main"] \in Unstarted
        BY <1>1, <3>2 DEF Boot, InitMmu, InitInterrupts, ChooseInitOrShell, ShellExec, At,
                          procVars, Unstarted, NoTlb, Unpaged
      <4> QED BY <4>1 DEF OneProcess
    <3> QED BY <3>1, <3>2
  <2> QED BY <1>1, <2>1, <2>2, BootSteps DEF OneProcess
<1>2. CASE Building
  <2>1. running' = "main" /\ current_proc_idx' = NONE
    BY <1>2, BuildingSteps DEF Control, cpuVars, Booted
  <2>2. do_switch' => pc'["main"] \in Ticking
    <3>1. CASE StartSched
      BY <3>1, Shapes DEF StartSched, Goto, Ticking
    <3>2. CASE ~StartSched
      <4>1. pc["main"] \notin Ticking
        BY <1>2, <3>2 DEF Building, AllocProc, SetRun, AllocTlb, SetPc, MainStat, At, Ticking
      <4> QED BY <1>2, <3>2, <4>1, BuildingSteps DEF OneProcess
    <3> QED BY <3>1, <3>2
  <2>3. ASSUME NEW q \in Slots, p_list'[q].status = PROCESS_RUN
        PROVE  q = mine' /\ pc'["main"] \notin Unstarted
    <3>1. CASE SetRun
      <4>1. mine' = mine /\ pc'["main"] = "alloc_tlb" /\ pc["main"] = "set_run"
        BY <1>2, <3>1, BuildingSteps, Shapes DEF SetRun, Goto, At, mine, AllocProc
      <4>2. \A r \in Slots : r # mine => p_list'[r].status = p_list[r].status
        BY <3>1, Shapes DEF SetRun, mine, Process
      <4> QED BY <2>3, <4>1, <4>2 DEF OneProcess, Unstarted
    <3>2. CASE ~SetRun
      <4>1. ~InitProc
        BY <1>2, Shapes DEF InitProc, Building, AllocProc, SetRun, AllocTlb, SetPc, MainStat,
                            StartSched, At
      <4>2. p_list[q].status = PROCESS_RUN
        BY <2>3, <3>2, <4>1, StatusKept
      <4>3. q = mine /\ pc["main"] \notin Unstarted
        BY <4>2 DEF OneProcess
      <4>4. ~AllocProc /\ pc'["main"] \notin Unstarted
        BY <1>2, <3>2, <4>3, Shapes
           DEF Building, AllocProc, AllocTlb, SetPc, MainStat, ProbeFile, StartSched,
               At, Goto, Unstarted, NoTlb, Unpaged
      <4> QED BY <1>2, <4>3, <4>4, BuildingSteps
    <3> QED BY <3>1, <3>2
  <2> QED BY <2>1, <2>2, <2>3, Shapes DEF OneProcess
<1>3. CASE AllocPages
  <2>1. /\ running' = "main" /\ UNCHANGED <<current_proc_idx, do_switch>> /\ mine' = mine
        /\ pc'["main"] \in {"alloc_pages", "stat"} /\ pc["main"] = "alloc_pages"
    BY <1>3, AllocPagesSteps DEF cpuVars
  <2>2. ~do_switch /\ current_proc_idx = NONE
    BY <1>3, <2>1, AllocPagesSteps, Shapes DEF OneProcess, Ticking, Control
  <2>3. ~InitProc /\ ~SetRun
    BY <2>1 DEF InitProc, SetRun, At
  <2> QED BY <2>1, <2>2, <2>3, StatusKept, Shapes DEF OneProcess, Unstarted, NoTlb, Unpaged
<1>4. CASE LoadAndPopulate("main")
  <2>1. /\ running' = "main" /\ UNCHANGED <<current_proc_idx, do_switch, p_list>> /\ mine' = mine
        /\ pc["main"] \in LoadLabels \cup PopulateLabels /\ running = "main"
    BY <1>4, LoadFrame, Shapes DEF procVars, cpuVars
  <2>2. ~do_switch /\ current_proc_idx = NONE
    BY <2>1, Shapes DEF OneProcess, Ticking, Control, LoadLabels, PopulateLabels
  <2>3. pc'["main"] \notin Unstarted
    BY <1>4, Shapes DEF LoadAndPopulate, LoadOff, LoadMap, LoadOn, LoadRead, PopulateOff,
                        PopulateWrite, PopulateOn, Goto, Unstarted, NoTlb, Unpaged, At
  <2> QED BY <2>1, <2>2, <2>3 DEF OneProcess
<1>5. CASE Rest
  <2>1. \A q \in Slots : p_list'[q].status = PROCESS_RUN =>
                           q = mine' /\ pc'["main"] \notin Unstarted
    BY <1>5, MainRests DEF OneProcess
  <2>2. do_switch' => pc'["main"] \in Ticking
    BY <1>5, MainRests DEF OneProcess
  <2>3. CASE TickSwitch
    <3>1. running' = "user" /\ current_proc_idx' = mine' /\ pc'["main"] \in Ticking
      BY <1>5, <2>3, TickSwitchSteps, MainRests
    <3> QED BY <2>1, <2>2, <3>1 DEF OneProcess
  <2>4. CASE ~TickSwitch
    <3>1. current_proc_idx' = current_proc_idx
      BY <1>5, <2>4, RestSteps, LoadFrame, ExecPathSteps, ExecPathHaltsSteps, ExecFoundSteps,
         LeavingSteps, FetchSteps, AccessSteps, AccessFaultsSteps, PageFaultSteps,
         ResumingSteps, SCallExecSteps, DeviceSteps, Shapes
         DEF vars, tables, procVars, SwapPages
    <3>2. running' = "exec" => loc'["exec"].slot = current_proc_idx
      <4>1. CASE LoadAndPopulate("exec")
        BY <4>1, LoadFrame, Shapes DEF OneProcess
      <4>2. CASE SwapPages
        BY <4>2, SwapPagesSteps DEF OneProcess
      <4>3. CASE SCallExec
        BY <4>3, SCallExecSteps
      <4>4. CASE ~LoadAndPopulate("exec") /\ ~SwapPages /\ ~SCallExec
        BY <1>5, <2>4, <4>4, RestSteps, ExecPathSteps, ExecPathHaltsSteps, ExecFoundSteps,
           LeavingSteps, FetchSteps, AccessSteps, AccessFaultsSteps, PageFaultSteps,
           ResumingSteps, DeviceSteps
           DEF OneProcess, vars, threadVars, cpuVars, InPath
      <4> QED BY <4>1, <4>2, <4>3, <4>4
    <3> QED BY <1>5, <2>1, <2>2, <3>1, <3>2, MainRests DEF OneProcess
  <2> QED BY <2>3, <2>4
<1> QED BY <1>1, <1>2, <1>3, <1>4, <1>5, Steps

(* load_process and populate_tlb stay within their labels. *)
LEMMA LoadStaysOn ==
  ASSUME All, LoadAndPopulate("main")
  PROVE  /\ pc["main"] \notin Unpaged \cup {"alloc_pages"}
         /\ pc'["main"] \notin Unpaged \cup {"alloc_pages"}
         /\ Given' = P /\ Booted'
<1>1. pc["main"] \notin Unpaged \cup {"alloc_pages"}
  BY LoadFrame, Shapes DEF All, IInv, LoadLabels, PopulateLabels, Unpaged
<1>2. pc'["main"] \notin Unpaged \cup {"alloc_pages"}
  BY Shapes DEF All, IInv, LoadAndPopulate, LoadOff, LoadMap, LoadOn, LoadRead, PopulateOff,
                PopulateWrite, PopulateOn, Goto, Unpaged, At
<1> QED BY <1>1, <1>2 DEF Given, Booted, Unpaged

LEMMA PagesInOrderNext == All /\ [Next]_vars => PagesInOrder'
<1> SUFFICES ASSUME All, [Next]_vars PROVE PagesInOrder'
  OBVIOUS
<1> USE DEF All, IInv, SpaceInv
<1>1. CASE Boot
  <2>1. Given = 0 /\ Given' = 0 /\ mine' = mine /\ mine \in Slots
    BY <1>1, BootSteps, Shapes
  <2>2. \A q \in Slots, v \in Pages : p_list'[q].pages[v] = 0
    <3>1. CASE InitProc
      BY <3>1 DEF InitProc, EmptyProcess
    <3>2. CASE ~InitProc
      <4>1. UNCHANGED p_list
        BY <1>1, <3>2 DEF Boot, InitMmu, InitInterrupts, ChooseInitOrShell, ShellExec, procVars
      <4>2. \A v \in Pages : ~(v < 0)
        BY DEF Pages
      <4> QED BY <2>1, <4>1, <4>2 DEF PagesInOrder
    <3> QED BY <3>1, <3>2
  <2>3. \A v \in Pages : ~(v < 0)
    BY DEF Pages
  <2> QED BY <2>1, <2>2, <2>3 DEF PagesInOrder
<1>2. CASE Building
  <2>1. ~InitProc /\ ~AllocPages /\ ~SwapPages
    BY <1>2, BuildingSteps, Shapes DEF InitProc, AllocPages, SwapPages, Building, AllocProc, SetRun,
       AllocTlb, SetPc, MainStat, StartSched, At, Booted
  <2>2. \A q \in Slots : p_list'[q].pages = p_list[q].pages
    BY <2>1, PagesKept
  <2>3. CASE AllocProc
    <3>1. Given = 0 /\ Given' = 0
      BY <1>2, <2>3, BuildingSteps DEF AllocProc, At, Given, Unpaged
    <3>2. \A v \in Pages : ~(v < 0)
      BY DEF Pages
    <3> QED BY <2>2, <3>1, <3>2 DEF PagesInOrder
  <2>4. CASE ~AllocProc
    BY <1>2, <2>2, <2>4, BuildingSteps DEF PagesInOrder
  <2> QED BY <2>3, <2>4
<1>3. CASE AllocPages
  <2>1. mine' = mine /\ Given = loc["main"].i
    BY <1>3, AllocPagesSteps DEF Given, Unpaged
  <2>2. CASE pc'["main"] = "alloc_pages"
    <3>1. Given' = loc["main"].i + 1
      BY <1>3, <2>2, AllocPagesSteps DEF Given, Unpaged
    <3> QED BY <1>3, <2>1, <2>2, <3>1, AllocPagesSteps DEF PagesInOrder
  <2>3. CASE pc'["main"] # "alloc_pages"
    <3>1. Given' = P /\ Given = P /\ UNCHANGED p_list
      BY <1>3, <2>1, <2>3, AllocPagesSteps DEF Given, Unpaged
    <3> QED BY <2>1, <3>1 DEF PagesInOrder
  <2> QED BY <2>2, <2>3
<1>4. CASE LoadAndPopulate("main")
  BY <1>4, LoadFrame, LoadStaysOn, Shapes DEF PagesInOrder, procVars
<1>5. CASE Rest
  BY <1>5, MainRests DEF PagesInOrder
<1> QED BY <1>1, <1>2, <1>3, <1>4, <1>5, Steps

LEMMA CountsInOrderNext == All /\ [Next]_vars => CountsInOrder'
<1> SUFFICES ASSUME All, [Next]_vars, Booted' PROVE CountsInOrder'
  BY DEF CountsInOrder
<1> USE DEF All, IInv, SpaceInv
<1>1. CASE Boot
  <2>1. Given = 0 /\ Given' = 0 /\ P \in Nat
    BY <1>1, BootSteps, Shapes
  <2>2. CASE InitMmu
    <3>1. \A p \in P .. PHYS - 1 : p \in PhysPages /\ p >= P
      BY KernelAssumption DEF PhysPages
    <3> QED BY <2>1, <2>2, <3>1 DEF InitMmu, CountsInOrder
  <2>3. CASE ~InitMmu
    <3>1. UNCHANGED page_refcount /\ Booted
      BY <1>1, <2>3, Shapes DEF Boot, InitProc, InitInterrupts, ChooseInitOrShell, ShellExec,
                                allocVars, Booted, At, Goto
    <3> QED BY <2>1, <3>1 DEF CountsInOrder
  <2> QED BY <2>2, <2>3
<1>2. CASE Building
  BY <1>2, BuildingSteps DEF CountsInOrder
<1>3. CASE AllocPages
  <2>1. Given = loc["main"].i /\ Booted
    BY <1>3, AllocPagesSteps DEF Given, Unpaged
  <2>2. CASE pc'["main"] = "alloc_pages"
    <3>1. Given' = loc["main"].i + 1
      BY <1>3, <2>2, AllocPagesSteps DEF Given, Unpaged
    <3> QED BY <1>3, <2>1, <2>2, <3>1, AllocPagesSteps DEF CountsInOrder
  <2>3. CASE pc'["main"] # "alloc_pages"
    <3>1. Given' = P /\ Given = P /\ UNCHANGED page_refcount
      BY <1>3, <2>1, <2>3, AllocPagesSteps DEF Given, Unpaged
    <3> QED BY <2>1, <3>1 DEF CountsInOrder
  <2> QED BY <2>2, <2>3
<1>4. CASE LoadAndPopulate("main")
  BY <1>4, LoadFrame, LoadStaysOn, Shapes DEF CountsInOrder, allocVars
<1>5. CASE Rest
  <2>1. CASE SwapPages
    BY <1>5, <2>1, SwapPagesSteps, MainRests DEF CountsInOrder
  <2>2. CASE ~SwapPages
    <3>1. UNCHANGED page_refcount
      BY <1>5, <2>2, RestSteps, LoadFrame, ExecPathSteps, ExecPathHaltsSteps, ExecFoundSteps,
         LeavingSteps, FetchSteps, AccessSteps, AccessFaultsSteps, PageFaultSteps,
         ResumingSteps, TickSwitchSteps, SCallExecSteps, DeviceSteps, Shapes
         DEF vars, tables, allocVars
    <3> QED BY <1>5, <3>1, MainRests DEF CountsInOrder
  <2> QED BY <2>1, <2>2
<1> QED BY <1>1, <1>2, <1>3, <1>4, <1>5, Steps

(* The kernel's part of tlb is written by init_mmu and, in the window, by    *)
(* sys_exec and load_process; no store of a program's TLB reaches it.        *)
LEMMA OwnIsNotZero ==
  ASSUME All, pc["main"] \notin NoTlb
  PROVE  p_list[mine].tlb_index # 0 /\ p_list[mine].tlb_index \in TlbIdx /\ 0 \in TlbIdx
BY Shapes DEF All, IInv, SpaceInv, OwnTlb, Process

LEMMA LoadKeepsKernelTlb ==
  ASSUME All, NEW t \in Threads, LoadAndPopulate(t)
  PROVE  /\ \A v \in Pages : v # WIN => tlb'[0][v] = tlb[0][v]
         /\ tlb'[0][WIN].flags = RW
<1> USE DEF All, IInv, SpaceInv
<1>1. Booted
  BY LoadFrame
<1>2. CASE UNCHANGED tlb
  BY <1>1, <1>2 DEF KernelTlb
<1>3. CASE LoadMap(t)
  <2>1. tlb' = [tlb EXCEPT ![0][WIN] = [page |-> P + loc[t].i, flags |-> RW]]
    BY <1>3, LoadMapSteps
  <2> QED BY <2>1, Shapes
<1>4. CASE PopulateWrite(t)
  <2>1. p_list[mine].tlb_index # 0
    <3>1. pc["main"] \notin NoTlb
      <4>1. CASE t = "main"
        BY <4>1, LoadFrame DEF LoadLabels, PopulateLabels, NoTlb, Unpaged
      <4>2. CASE t # "main"
        BY <4>2, LoadFrame, MainSpins DEF Ticking, NoTlb, Unpaged
      <4> QED BY <4>1, <4>2
    <3> QED BY <3>1, OwnIsNotZero
  <2>2. tlb'[0] = tlb[0]
    BY <1>4, <2>1, PopulateWriteSteps, Shapes
  <2> QED BY <1>1, <2>2 DEF KernelTlb
<1> QED BY <1>2, <1>3, <1>4, LoadOffSteps, LoadOnSteps, LoadReadSteps, PopulateOffSteps,
           PopulateOnSteps DEF LoadAndPopulate

LEMMA KernelTlbNext == All /\ [Next]_vars => KernelTlb'
<1> SUFFICES ASSUME All, [Next]_vars, Booted'
             PROVE  /\ \A v \in Pages : v # WIN => tlb'[0][v] = [page |-> v, flags |-> RW]
                    /\ tlb'[0][WIN].flags = RW
  BY DEF KernelTlb
<1> USE DEF All, IInv, SpaceInv
<1>1. CASE Boot
  <2>1. CASE InitMmu
    BY <2>1, Shapes DEF InitMmu
  <2>2. CASE ~InitMmu
    <3>1. UNCHANGED tlb /\ Booted
      BY <1>1, <2>2, Shapes DEF Boot, InitProc, InitInterrupts, ChooseInitOrShell, ShellExec,
                                mmuVars, Booted, At, Goto
    <3> QED BY <3>1 DEF KernelTlb
  <2> QED BY <2>1, <2>2
<1>2. CASE Building \/ AllocPages
  BY <1>2, BuildingSteps, AllocPagesSteps DEF KernelTlb, mmuVars
<1>3. ASSUME NEW t \in Threads, LoadAndPopulate(t)
      PROVE  /\ \A v \in Pages : v # WIN => tlb'[0][v] = [page |-> v, flags |-> RW]
             /\ tlb'[0][WIN].flags = RW
  BY <1>3, LoadFrame, LoadKeepsKernelTlb DEF KernelTlb
<1>4. CASE ExecPath
  <2>1. tlb' = [tlb EXCEPT ![0][WIN] = [page |-> P + frame.r.x, flags |-> RW]] /\ Booted
    BY <1>4, ExecPathSteps, MainSpins DEF InPath
  <2> QED BY <2>1, Shapes DEF KernelTlb
<1>5. CASE PageFault
  <2>1. Booted /\ p_list[mine].tlb_index # 0
    BY <1>5, PageFaultSteps, MainSpins, OwnIsNotZero DEF NoTlb, Unpaged, Ticking
  <2>2. tlb'[0] = tlb[0]
    BY <1>5, <2>1, PageFaultSteps, Shapes
  <2> QED BY <2>1, <2>2 DEF KernelTlb
<1>6. CASE Rest /\ ~ExecPath /\ ~PageFault /\ ~LoadAndPopulate("exec")
  <2>1. UNCHANGED tlb
    BY <1>6, RestSteps, ExecPathHaltsSteps, ExecFoundSteps, LeavingSteps, FetchSteps,
       AccessSteps, AccessFaultsSteps, ResumingSteps, TickSwitchSteps, SCallExecSteps,
       DeviceSteps DEF vars, mmuVars, SwapPages
  <2>2. Booted
    BY <1>6, MainRests
  <2> QED BY <2>1, <2>2 DEF KernelTlb
<1> QED BY <1>1, <1>2, <1>3, <1>4, <1>5, <1>6, Steps, Shapes

LEMMA OwnTlbNext == All /\ [Next]_vars => OwnTlb'
<1> SUFFICES ASSUME All, [Next]_vars PROVE OwnTlb'
  OBVIOUS
<1> USE DEF All, IInv, SpaceInv
<1>1. CASE Boot
  BY <1>1, BootSteps DEF OwnTlb
<1>2. CASE AllocTlb
  <2>1. pc'["main"] = "set_pc" /\ pc["main"] \in NoTlb /\ mine' = mine
    BY <1>2, BuildingSteps, Shapes DEF AllocTlb, At, Goto, NoTlb, Unpaged, Building, AllocProc
  <2>2. get_free_tlb \in 1 .. N_TLB - 1
    <3> DEFINE S == {t \in 1 .. N_TLB - 1 : tlb_map[t] = 0}
    <3>1. 1 \in S /\ S \in SUBSET Nat
      BY <2>1, KernelAssumption DEF OwnTlb
    <3>2. get_free_tlb = LeastOr(S, 0)
      BY DEF get_free_tlb
    <3>3. LeastOr(S, 0) \in S
      <4> HIDE DEF S
      <4> QED BY <3>1, LeastOrIn
    <3> QED BY <3>2, <3>3
  <2>3. p_list'[mine].tlb_index = get_free_tlb
    BY <1>2, Shapes DEF AllocTlb, mine, Process
  <2> QED BY <2>1, <2>2, <2>3, KernelAssumption DEF OwnTlb, NoTlb, Unpaged
<1>3. CASE Building /\ ~AllocTlb
  <2>1. ~InitProc
    BY <1>3, BuildingSteps, Shapes DEF Booted, InitProc, At
  <2>2. \A q \in Slots : p_list'[q].tlb_index = p_list[q].tlb_index
    BY <1>3, <2>1, TlbIndexKept
  <2>3. UNCHANGED tlb_map /\ (pc'["main"] \in NoTlb <=> pc["main"] \in NoTlb)
        /\ (AllocProc => pc'["main"] \in NoTlb)
    BY <1>3, Shapes DEF Building, AllocProc, SetRun, SetPc, MainStat, ProbeFile, StartSched,
                        At, Goto, NoTlb, Unpaged, allocVars
  <2>4. ~AllocProc => mine' = mine
    BY <1>3, BuildingSteps
  <2> QED BY <2>2, <2>3, <2>4, Shapes DEF OwnTlb
<1>4. CASE AllocPages \/ LoadAndPopulate("main")
  <2>1. ~InitProc /\ ~AllocTlb
    BY <1>4, AllocPagesSteps, LoadFrame, Shapes
       DEF InitProc, AllocTlb, At, LoadLabels, PopulateLabels
  <2>2. \A q \in Slots : p_list'[q].tlb_index = p_list[q].tlb_index
    BY <2>1, TlbIndexKept
  <2>3. mine' = mine /\ pc["main"] \notin NoTlb /\ pc'["main"] \notin NoTlb
    BY <1>4, AllocPagesSteps, LoadFrame, LoadStaysOn, Shapes DEF NoTlb, Unpaged
  <2> QED BY <2>2, <2>3, Shapes DEF OwnTlb
<1>5. CASE Rest
  BY <1>5, MainRests, Shapes DEF OwnTlb
<1> QED BY <1>1, <1>2, <1>3, <1>4, <1>5, Steps

LEMMA RightTlbNext == All /\ [Next]_vars => RightTlb'
<1> SUFFICES ASSUME All, [Next]_vars PROVE RightTlb'
  OBVIOUS
<1> USE DEF All, IInv, SpaceInv
<1>1. CASE Boot
  <2>1. running' = "main" /\ running = "main"
    BY <1>1, BootSteps
  <2>2. Booted' => tlb_index' = 0
    <3>1. CASE InitMmu
      BY <3>1 DEF InitMmu
    <3>2. CASE ~InitMmu
      BY <1>1, <2>1, <3>2, Shapes
         DEF Boot, InitProc, InitInterrupts, ChooseInitOrShell, ShellExec, mmuVars, Booted,
             At, Goto, RightTlb, InPath
    <3> QED BY <3>1, <3>2
  <2> QED BY <2>1, <2>2 DEF RightTlb, UserModes
<1>2. CASE Building \/ AllocPages \/ LoadAndPopulate("main")
  <2>1. running' = "main" /\ running = "main" /\ Booted /\ tlb_index' = tlb_index
    BY <1>2, BuildingSteps, AllocPagesSteps, LoadFrame, Shapes DEF mmuVars, cpuVars
  <2> QED BY <2>1 DEF RightTlb, UserModes, InPath, Threads
<1>3. CASE Rest
  <2>1. /\ Booted' = Booted /\ mine' = mine /\ mine \in Slots
        /\ p_list'[mine].tlb_index = p_list[mine].tlb_index
    BY <1>3, MainRests, Shapes
  <2>2. CASE LoadAndPopulate("exec")
    <3>1. running' = "exec" /\ running = "exec" /\ ~InPath /\ tlb_index' = tlb_index /\ Booted
      BY <2>2, LoadFrame, Shapes DEF cpuVars, InPath, LoadLabels, PopulateLabels
    <3> QED BY <3>1 DEF RightTlb, UserModes, Threads
  <2>3. CASE ExecPath \/ ExecPathHalts
    BY <2>3, ExecPathSteps, ExecPathHaltsSteps DEF RightTlb, UserModes, Threads
  <2>4. CASE Leaving \/ TickSwitch
    <3>1. running' = "user" /\ tlb_index' = p_list[mine].tlb_index
      BY <2>4, LeavingSteps, TickSwitchSteps
    <3>2. current_proc_idx' # NONE
      BY <2>4, LeavingSteps, TickSwitchSteps, MainSpins, Shapes DEF tables
    <3> QED BY <2>1, <3>1, <3>2 DEF RightTlb, Threads
  <2>5. CASE SwapPages \/ ExecFound
    <3>1. running' = "exec" /\ running = "exec" /\ ~InPath /\ tlb_index' = tlb_index
      BY <2>5, SwapPagesSteps, ExecFoundSteps DEF InPath, SwapPages, cpuVars, mmuVars
    <3> QED BY <2>1, <3>1 DEF RightTlb, UserModes, Threads
  <2>6. CASE SCallExec
    BY <2>6, SCallExecSteps DEF RightTlb, UserModes, InPath
  <2>7. CASE FetchInstruction \/ Access \/ AccessFaults \/ PageFault
    <3>1. running \in UserModes /\ running' \in UserModes /\ tlb_index' = tlb_index
          /\ current_proc_idx' = current_proc_idx
      BY <2>7, FetchSteps, AccessSteps, AccessFaultsSteps, PageFaultSteps
         DEF UserModes, mmuVars, tables
    <3> QED BY <2>1, <3>1 DEF RightTlb, UserModes, Threads
  <2>8. CASE Resuming \/ Device \/ UNCHANGED vars
    <3>1. /\ running' \in Threads => running = running'
          /\ running' \in UserModes => running \in UserModes
          /\ UNCHANGED <<tlb_index, pc, current_proc_idx>>
      <4>1. CASE Resuming
        BY <4>1, ResumingSteps DEF UserModes, Threads, tables, threadVars
      <4>2. CASE Device \/ UNCHANGED vars
        BY <4>2, DeviceSteps DEF UserModes, Threads, tables, threadVars, vars, mmuVars, cpuVars,
                                 procVars
      <4> QED BY <2>8, <4>1, <4>2
    <3> QED BY <2>1, <3>1 DEF RightTlb, InPath
  <2> QED BY <1>3, <2>2, <2>3, <2>4, <2>5, <2>6, <2>7, <2>8, RestSteps
<1> QED BY <1>1, <1>2, <1>3, Steps

LEMMA PagingRightNext == All /\ [Next]_vars => PagingRight'
<1> SUFFICES ASSUME All, [Next]_vars PROVE PagingRight'
  OBVIOUS
<1> USE DEF All, IInv, SpaceInv
<1>1. CASE Boot \/ Building \/ AllocPages
  <2>1. running' = "main" /\ running = "main" /\ irqs' = irqs
    BY <1>1, BootSteps, BuildingSteps, AllocPagesSteps DEF cpuVars
  <2>2. pc'["main"] # "load_read"
    BY <1>1, BootSteps, AllocPagesSteps, Shapes
       DEF Building, AllocProc, SetRun, AllocTlb, SetPc, MainStat, ProbeFile, StartSched, Goto,
           NoTlb, Unpaged
  <2> QED BY <2>1, <2>2 DEF PagingRight, InPath, UserModes, Threads
<1>2. ASSUME NEW t \in Threads, LoadAndPopulate(t) PROVE PagingRight'
  <2>1. running = t /\ running' = t /\ irqs' = irqs /\ 0 \notin irqs
    BY <1>2, LoadFrame DEF cpuVars, PagingRight, Threads
  <2>2. pc'[t] \notin {"path", "stat"} /\ (pc'[t] = "load_read" => paging')
    BY <1>2, LoadOffSteps, LoadMapSteps, LoadOnSteps, LoadReadSteps, PopulateOffSteps,
       PopulateWriteSteps, PopulateOnSteps DEF LoadAndPopulate
  <2> QED BY <2>1, <2>2 DEF PagingRight, InPath, UserModes, Threads
<1>3. CASE ExecPath \/ ExecPathHalts \/ SwapPages \/ ExecFound \/ Leaving
  <2>1. running = "exec" /\ 0 \notin irqs
    BY <1>3, ExecPathSteps, ExecPathHaltsSteps, SwapPagesSteps, ExecFoundSteps, LeavingSteps
       DEF InPath, PagingRight
  <2>2. CASE ExecPath
    BY <2>1, <2>2, ExecPathSteps DEF PagingRight, InPath, UserModes, Threads
  <2>3. CASE ExecPathHalts
    BY <2>1, <2>3, ExecPathHaltsSteps DEF PagingRight, InPath, UserModes, Threads
  <2>4. CASE SwapPages
    BY <2>1, <2>4, SwapPagesSteps DEF PagingRight, InPath, UserModes, Threads, SwapPages, cpuVars
  <2>5. CASE ExecFound
    BY <2>1, <2>5, ExecFoundSteps DEF PagingRight, InPath, UserModes, Threads, cpuVars
  <2>6. CASE Leaving
    BY <2>1, <2>6, LeavingSteps DEF PagingRight, InPath, UserModes, Threads
  <2> QED BY <1>3, <2>2, <2>3, <2>4, <2>5, <2>6
<1>4. CASE SCallExec
  BY <1>4, SCallExecSteps DEF PagingRight, InPath, UserModes, Threads
<1>5. CASE FetchInstruction
  BY <1>5, FetchSteps DEF PagingRight, InPath, UserModes, Threads, mmuVars
<1>6. CASE Access
  BY <1>6, AccessSteps DEF PagingRight, InPath, UserModes, Threads
<1>7. CASE AccessFaults
  <2>1. 0 \in irqs'
    BY <1>7 DEF AccessFaults
  <2> QED BY <1>7, <2>1, AccessFaultsSteps DEF PagingRight, InPath, UserModes, Threads
<1>8. CASE PageFault
  BY <1>8, PageFaultSteps DEF PagingRight, InPath, UserModes, Threads
<1>9. CASE Resuming
  BY <1>9, ResumingSteps DEF PagingRight, InPath, UserModes, Threads
<1>10. CASE TickSwitch
  BY <1>10, TickSwitchSteps DEF PagingRight, InPath, UserModes, Threads
<1>11. CASE Device \/ UNCHANGED vars
  <2>1. (0 \in irqs' <=> 0 \in irqs) /\ UNCHANGED <<paging, tlb_index, fault, running, pc>>
    BY <1>11, DeviceSteps DEF mmuVars, cpuVars, threadVars, vars
  <2> QED BY <2>1 DEF PagingRight, InPath
<1> QED BY <1>1, <1>2, <1>3, <1>4, <1>5, <1>6, <1>7, <1>8, <1>9, <1>10, <1>11, Steps, RestSteps,
           Shapes

LEMMA WindowSetNext == All /\ [Next]_vars => WindowSet'
<1> SUFFICES ASSUME All, [Next]_vars PROVE WindowSet'
  OBVIOUS
<1> USE DEF All, IInv, SpaceInv
<1>1. CASE Boot \/ Building \/ AllocPages
  <2>1. running' = "main"
    BY <1>1, BootSteps, BuildingSteps, AllocPagesSteps DEF cpuVars
  <2>2. pc'["main"] \notin {"load_on", "load_read"}
    BY <1>1, BootSteps, AllocPagesSteps, Shapes
       DEF Building, AllocProc, SetRun, AllocTlb, SetPc, MainStat, ProbeFile, StartSched, Goto,
           NoTlb, Unpaged
  <2> QED BY <2>1, <2>2 DEF WindowSet
<1>2. ASSUME NEW t \in Threads, LoadAndPopulate(t) PROVE WindowSet'
  <2>1. running = t /\ running' = t /\ pc'[t] # "stat"
    BY <1>2, LoadFrame, LoadOffSteps, LoadMapSteps, LoadOnSteps, LoadReadSteps, PopulateOffSteps,
       PopulateWriteSteps, PopulateOnSteps DEF cpuVars, LoadAndPopulate
  <2>2. CASE LoadMap(t)
    <3>1. tlb'[0][WIN].page = P + loc'[t].i
      BY <2>2, LoadMapSteps, Shapes
    <3> QED BY <2>1, <3>1 DEF WindowSet
  <2>3. CASE LoadOn(t)
    BY <2>1, <2>3, LoadOnSteps DEF WindowSet
  <2>4. CASE ~LoadMap(t) /\ ~LoadOn(t)
    <3>1. pc'[t] \notin {"load_on", "load_read"}
      BY <1>2, <2>4, LoadOffSteps, LoadReadSteps, PopulateOffSteps,
         PopulateWriteSteps, PopulateOnSteps DEF LoadAndPopulate
    <3> QED BY <2>1, <3>1 DEF WindowSet
  <2> QED BY <2>2, <2>3, <2>4
<1>3. CASE ExecPath
  <2>1. tlb'[0][WIN].page = P + frame'.r.x
    BY <1>3, ExecPathSteps, Shapes
  <2> QED BY <1>3, <2>1, ExecPathSteps DEF WindowSet
<1>4. CASE SwapPages \/ ExecFound \/ SCallExec
  <2>1. running' = "exec" /\ pc'["exec"] \notin {"load_on", "load_read", "stat"}
    BY <1>4, SwapPagesSteps, ExecFoundSteps, SCallExecSteps DEF SwapPages, cpuVars
  <2> QED BY <2>1 DEF WindowSet
<1>5. CASE \/ ExecPathHalts \/ Leaving \/ FetchInstruction \/ Access \/ AccessFaults \/ PageFault
           \/ TickSwitch
  <2>1. running' \notin Threads
    BY <1>5, ExecPathHaltsSteps, LeavingSteps, FetchSteps, AccessSteps, AccessFaultsSteps,
       PageFaultSteps, TickSwitchSteps DEF Threads
  <2> QED BY <2>1 DEF WindowSet, Threads
<1>6. CASE Resuming
  BY <1>6, ResumingSteps DEF WindowSet, Threads, threadVars
<1>7. CASE Device \/ UNCHANGED vars
  <2>1. UNCHANGED <<tlb, running, pc, loc, frame>>
    BY <1>7, DeviceSteps DEF mmuVars, cpuVars, threadVars, vars
  <2> QED BY <2>1 DEF WindowSet
<1> QED BY <1>1, <1>2, <1>3, <1>4, <1>5, <1>6, <1>7, Steps, RestSteps, Shapes

(* What a program's TLB shows, it goes on showing. *)
LEMMA MappedKept ==
  ASSUME All, Rest \/ LoadAndPopulate("main"), pc["main"] \notin NoTlb,
         NEW n \in Nat, Mapped(n)
  PROVE  \A v \in Pages : v < n =>
           LET e == tlb'[p_list[mine].tlb_index][v] IN e.page = P + v /\ "r" \in e.flags
<1> USE DEF All, IInv
<1> DEFINE own == p_list[mine].tlb_index
<1>1. own # 0 /\ own \in TlbIdx /\ 0 \in TlbIdx
  BY OwnIsNotZero
<1>2. \/ UNCHANGED tlb
      \/ \E e : tlb' = [tlb EXCEPT ![0][WIN] = e]
      \/ \E v \in Pages, fl \in {RW, {"r"}} :
           tlb' = [tlb EXCEPT ![own][v] = [page |-> P + v, flags |-> fl]]
  <2>1. ASSUME NEW t \in Threads, LoadAndPopulate(t)
        PROVE  \/ UNCHANGED tlb
               \/ \E e : tlb' = [tlb EXCEPT ![0][WIN] = e]
               \/ \E v \in Pages, fl \in {RW, {"r"}} :
                    tlb' = [tlb EXCEPT ![own][v] = [page |-> P + v, flags |-> fl]]
    BY <2>1, LoadOffSteps, LoadMapSteps, LoadOnSteps, LoadReadSteps, PopulateOffSteps,
       PopulateWriteSteps, PopulateOnSteps DEF LoadAndPopulate
  <2>2. CASE Rest /\ ~LoadAndPopulate("exec")
    BY <2>2, RestSteps, ExecPathSteps, ExecPathHaltsSteps, ExecFoundSteps, LeavingSteps,
       FetchSteps, AccessSteps, AccessFaultsSteps, PageFaultSteps, ResumingSteps,
       TickSwitchSteps, SCallExecSteps, DeviceSteps DEF vars, mmuVars, SwapPages
  <2> QED BY <2>1, <2>2, Shapes
<1>3. CASE UNCHANGED tlb
  BY <1>3 DEF Mapped
<1>4. CASE \E e : tlb' = [tlb EXCEPT ![0][WIN] = e]
  <2>1. tlb'[own] = tlb[own]
    BY <1>1, <1>4, Shapes
  <2> QED BY <2>1 DEF Mapped
<1>5. CASE \E v \in Pages, fl \in {RW, {"r"}} :
             tlb' = [tlb EXCEPT ![own][v] = [page |-> P + v, flags |-> fl]]
  <2>1. PICK v \in Pages, fl \in {RW, {"r"}} :
             tlb' = [tlb EXCEPT ![own][v] = [page |-> P + v, flags |-> fl]]
    BY <1>5
  <2>2. \A w \in Pages : tlb'[own][w] = IF w = v THEN [page |-> P + v, flags |-> fl]
                                                 ELSE tlb[own][w]
    BY <1>1, <2>1, Shapes
  <2>3. "r" \in fl
    BY DEF RW
  <2> QED BY <2>2, <2>3 DEF Mapped
<1> QED BY <1>2, <1>3, <1>4, <1>5

LEMMA MappedRightNext == All /\ [Next]_vars => MappedRight'
<1> SUFFICES ASSUME All, [Next]_vars PROVE MappedRight'
  OBVIOUS
<1> USE DEF All, IInv, SpaceInv
<1>1. CASE Boot \/ AllocPages
  <2>1. pc'["main"] \notin PopulateLabels \cup StartLabels
    BY <1>1, BootSteps, AllocPagesSteps DEF NoTlb, Unpaged, PopulateLabels, StartLabels
  <2> QED BY <2>1 DEF MappedRight, PopulateLabels
<1>2. CASE Building
  <2>1. CASE StartSched
    <3>1. pc["main"] \in StartLabels /\ pc'["main"] \in StartLabels /\ UNCHANGED <<tlb, loc, p_list>>
      BY <2>1, Shapes DEF StartSched, At, Goto, StartLabels, mmuVars
    <3>2. mine' = mine
      BY <3>1 DEF mine
    <3> QED BY <3>1, <3>2 DEF MappedRight, Mapped, StartLabels
  <2>2. CASE ~StartSched
    <3>1. pc'["main"] \notin {"pop_write", "pop_on"} \cup StartLabels
      BY <1>2, <2>2, Shapes DEF Building, AllocProc, SetRun, AllocTlb, SetPc, MainStat, ProbeFile,
                                Goto, StartLabels
    <3> QED BY <3>1 DEF MappedRight
  <2> QED BY <2>1, <2>2
<1>3. CASE LoadAndPopulate("main")
  <2>1. mine' = mine /\ p_list' = p_list /\ pc["main"] \notin NoTlb
    BY <1>3, LoadFrame, LoadStaysOn, Shapes DEF procVars, NoTlb, Unpaged
  <2>2. CASE PopulateOff("main")
    <3>1. loc'["main"].i = 0 /\ pc'["main"] = "pop_write"
      BY <2>2, PopulateOffSteps, Shapes DEF Counting
    <3>2. \A v \in Pages : ~(v < 0)
      BY DEF Pages
    <3> QED BY <3>1, <3>2 DEF MappedRight, Mapped, StartLabels
  <2>3. CASE PopulateWrite("main")
    <3>1. Mapped(loc["main"].i) /\ loc["main"].i \in Nat
      BY <2>3, PopulateWriteSteps, Shapes DEF MappedRight
    <3>2. CASE pc'["main"] = "pop_write"
      <4> DEFINE i == loc["main"].i
                 own == p_list[mine].tlb_index
      <4>1. /\ i \in Pages /\ loc'["main"].i = i + 1
            /\ tlb' = [tlb EXCEPT ![own][i] = [page |-> P + i, flags |-> {"r"}]]
        BY <2>3, <3>2, PopulateWriteSteps, Shapes
      <4>2. \A v \in Pages : v < i + 1 => v < i \/ v = i
        BY <3>1 DEF Pages
      <4>3. tlb'[own][i] = [page |-> P + i, flags |-> {"r"}]
        BY <2>1, <4>1, OwnIsNotZero, Shapes
      <4>4. \A v \in Pages : v < i => tlb'[own][v].page = P + v /\ "r" \in tlb'[own][v].flags
        BY <1>3, <2>1, <3>1, MappedKept
      <4>5. \A v \in Pages : v < i + 1 => tlb'[own][v].page = P + v /\ "r" \in tlb'[own][v].flags
        BY <4>2, <4>3, <4>4
      <4>6. Mapped(loc["main"].i)'
        BY <2>1, <4>1, <4>5 DEF Mapped
      <4> QED BY <3>2, <4>6 DEF MappedRight, StartLabels
    <3>3. CASE pc'["main"] # "pop_write"
      <4>1. loc["main"].i = P /\ tlb' = tlb /\ pc'["main"] = "pop_on"
        BY <2>3, <3>3, PopulateWriteSteps, Shapes
      <4> QED BY <2>1, <3>1, <4>1 DEF MappedRight, Mapped
    <3> QED BY <3>2, <3>3
  <2>4. CASE PopulateOn("main")
    <3>1. pc["main"] = "pop_on" /\ pc'["main"] = "sched_on" /\ tlb' = tlb
      BY <2>4, PopulateOnSteps, Shapes
    <3> QED BY <2>1, <3>1 DEF MappedRight, Mapped
  <2>5. CASE ~PopulateOff("main") /\ ~PopulateWrite("main") /\ ~PopulateOn("main")
    <3>1. pc'["main"] \notin {"pop_write", "pop_on"} \cup StartLabels
      BY <1>3, <2>5, LoadOffSteps, LoadMapSteps, LoadOnSteps, LoadReadSteps, Shapes
         DEF LoadAndPopulate, StartLabels
    <3> QED BY <3>1 DEF MappedRight
  <2> QED BY <2>2, <2>3, <2>4, <2>5
<1>4. CASE Rest
  <2>1. /\ mine' = mine /\ pc'["main"] = pc["main"] /\ loc'["main"] = loc["main"]
        /\ p_list'[mine].tlb_index = p_list[mine].tlb_index
    BY <1>4, MainRests, Shapes
  <2>2. \A n \in Nat : pc["main"] \notin NoTlb /\ Mapped(n) => Mapped(n)'
    BY <1>4, <2>1, MappedKept DEF Mapped
  <2>3. ({"pop_write", "pop_on"} \cup StartLabels) \cap NoTlb = {}
        /\ "pop_write" \notin NoTlb /\ "pop_on" \notin NoTlb /\ P \in Nat /\ loc["main"].i \in Nat
    BY Shapes DEF NoTlb, Unpaged, StartLabels
  <2> QED BY <2>1, <2>2, <2>3, Shapes DEF MappedRight
<1> QED BY <1>1, <1>2, <1>3, <1>4, Steps

LEMMA KernelIntactNext == All /\ [Next]_vars => KernelIntact'
<1> SUFFICES ASSUME All, [Next]_vars PROVE KernelIntact'
  OBVIOUS
<1> USE DEF All, IInv, SpaceInv
<1>1. CASE UNCHANGED mem
  BY <1>1 DEF KernelIntact
<1>2. CASE \E c : \E v \in Pages : mem' = [mem EXCEPT ![P + v] = c]
  <2>0. PICK c : \E v \in Pages : mem' = [mem EXCEPT ![P + v] = c]
    BY <1>2
  <2>1. PICK v \in Pages : mem' = [mem EXCEPT ![P + v] = c]
    BY <2>0
  <2>2. \A p \in Pages : p # P + v /\ p \in PhysPages
    BY Constants DEF Pages
  <2>3. \A p \in Pages : mem'[p] = mem[p]
    BY <2>1, <2>2, Shapes
  <2> QED BY <2>3 DEF KernelIntact
<1>3. UNCHANGED mem \/ \E c : \E v \in Pages : mem' = [mem EXCEPT ![P + v] = c]
  <2>1. CASE Boot \/ Building \/ AllocPages
    BY <2>1, BootSteps, BuildingSteps, AllocPagesSteps DEF mmuVars
  <2>2. ASSUME NEW t \in Threads, LoadAndPopulate(t)
        PROVE  UNCHANGED mem \/ \E c : \E v \in Pages : mem' = [mem EXCEPT ![P + v] = c]
    BY <2>2, LoadOffSteps, LoadMapSteps, LoadOnSteps, LoadReadSteps, PopulateOffSteps,
       PopulateWriteSteps, PopulateOnSteps DEF LoadAndPopulate
  <2>3. CASE Rest /\ ~LoadAndPopulate("exec")
    BY <2>3, RestSteps, ExecPathSteps, ExecPathHaltsSteps, ExecFoundSteps, LeavingSteps,
       FetchSteps, AccessSteps, AccessFaultsSteps, PageFaultSteps, ResumingSteps,
       TickSwitchSteps, SCallExecSteps, DeviceSteps DEF vars, mmuVars, SwapPages
  <2> QED BY <2>1, <2>2, <2>3, Steps, Shapes
<1> QED BY <1>1, <1>2, <1>3

(* A part read is the next part of the file, and no part is overwritten.     *)
LEMMA LoadFileRead ==
  ASSUME All, NEW t \in Threads, LoadAndPopulate(t)
  PROVE  FileRead(t)'
<1> USE DEF All, IInv, SpaceInv
<1> DEFINE f == loc[t].file
           i == loc[t].i
<1>1. running = t /\ running' = t /\ loc'[t].file = f
  BY LoadFrame DEF cpuVars
<1>2. FileRead(t)
  BY DEF FilesRead
<1>3. CASE LoadRead(t)
  <2>1. /\ pc[t] = "load_read" /\ pc'[t] = "load_off" /\ loc'[t].i = i + 1 /\ i \in Pages
        /\ mem' = [mem EXCEPT ![P + i] = Chunk(f, i)]
    BY <1>3, LoadReadSteps
  <2>2. HasRead(t, i)
    BY <1>1, <1>2, <2>1 DEF FileRead, LoadLabels
  <2>3. \A k \in Pages : mem'[P + k] = IF k = i THEN Chunk(f, i) ELSE mem[P + k]
    <3>1. \A k \in Pages : k # i => P + k # P + i
      BY <2>1, Constants DEF Pages
    <3> QED BY <2>1, <3>1, Constants, Shapes
  <2>4. \A k \in Pages : k < i + 1 => k < i \/ k = i
    BY <2>1 DEF Pages
  <2>5. \A k \in Pages : k < i + 1 => mem'[P + k] = Chunk(f, k)
    BY <2>2, <2>3, <2>4 DEF HasRead
  <2> QED BY <1>1, <2>1, <2>5 DEF FileRead, HasRead, LoadLabels, PopulateLabels, StartLabels
<1>4. CASE ~LoadRead(t)
  <2>1. UNCHANGED mem
    BY <1>4, LoadOffSteps, LoadMapSteps, LoadOnSteps, PopulateOffSteps,
       PopulateWriteSteps, PopulateOnSteps DEF LoadAndPopulate
  <2>2. \A n : HasRead(t, n) => HasRead(t, n)'
    BY <1>1, <2>1 DEF HasRead
  <2>3. CASE LoadOff(t) /\ pc'[t] = "pop_off"
    <3>1. /\ pc[t] = "load_off" /\ f \in Files /\ i \in Nat /\ i >= FileSize[f]
          /\ FileSize[f] \in 0 .. P
      BY <2>3, LoadOffSteps, KernelAssumption, Shapes
    <3>2. HasRead(t, i)
      BY <1>1, <1>2, <3>1 DEF FileRead, LoadLabels
    <3>3. HasRead(t, FileSize[f])
      <4>1. \A k \in Pages : k < FileSize[f] => k < i
        BY <3>1 DEF Pages
      <4> QED BY <3>2, <4>1 DEF HasRead
    <3>4. HasRead(t, FileSize[f])'
      BY <1>1, <2>1, <3>3 DEF HasRead
    <3> QED BY <1>1, <2>3, <3>4 DEF FileRead, LoadLabels
  <2>4. CASE ~(LoadOff(t) /\ pc'[t] = "pop_off") /\ pc'[t] \in LoadLabels
    <3>1. pc[t] \in LoadLabels /\ loc'[t].i = i
      BY <1>4, <2>4, LoadOffSteps, LoadMapSteps, LoadOnSteps, PopulateOffSteps,
         PopulateWriteSteps, PopulateOnSteps DEF LoadAndPopulate, LoadLabels
    <3>2. HasRead(t, i)'
      BY <1>1, <1>2, <2>2, <3>1 DEF FileRead
    <3> QED BY <1>1, <2>4, <3>1, <3>2 DEF FileRead, LoadLabels, PopulateLabels, StartLabels
  <2>5. CASE ~(LoadOff(t) /\ pc'[t] = "pop_off") /\ pc'[t] \notin LoadLabels
    <3>1. pc[t] \in PopulateLabels
      BY <1>4, <2>5, LoadOffSteps, LoadMapSteps, LoadOnSteps, PopulateOffSteps,
         PopulateWriteSteps, PopulateOnSteps DEF LoadAndPopulate, LoadLabels, PopulateLabels
    <3>2. f # 0 => HasRead(t, FileSize[f])
      BY <1>1, <1>2, <3>1 DEF FileRead
    <3>3. f # 0 => HasRead(t, FileSize[f])'
      BY <1>1, <2>1, <3>2 DEF HasRead
    <3> QED BY <1>1, <2>5, <3>3 DEF FileRead
  <2> QED BY <2>3, <2>4, <2>5
<1> QED BY <1>3, <1>4

LEMMA FilesReadNext == All /\ [Next]_vars => FilesRead'
<1> SUFFICES ASSUME All, [Next]_vars PROVE FilesRead'
  OBVIOUS
<1> USE DEF All, IInv, SpaceInv
<1>1. CASE Boot \/ AllocPages
  <2>1. running' = "main" /\ pc'["main"] \notin LoadLabels \cup PopulateLabels \cup StartLabels \cup {"restart"}
    BY <1>1, BootSteps, AllocPagesSteps DEF cpuVars, NoTlb, Unpaged, LoadLabels, PopulateLabels,
       StartLabels
  <2> QED BY <2>1 DEF FilesRead, FileRead
<1>2. CASE Building
  <2>1. running' = "main" /\ running = "main" /\ mem' = mem
    BY <1>2, BuildingSteps DEF cpuVars, mmuVars
  <2>2. CASE MainStat
    <3>1. loc["main"].i = 0 /\ loc'["main"].i = 0
      BY <1>2, <2>2, BuildingSteps DEF MainStat, At, Counting
    <3>2. \/ pc'["main"] = "load_off"
          \/ pc'["main"] = "pop_off" /\ loc'["main"].file = 0
      BY <2>2, Shapes DEF MainStat, ProbeFile, SetLoc, Goto, Locals
    <3>3. \A v \in Pages : ~(v < 0)
      BY DEF Pages
    <3> QED BY <2>1, <3>1, <3>2, <3>3
            DEF FilesRead, FileRead, HasRead, LoadLabels, PopulateLabels, StartLabels
  <2>3. CASE StartSched
    <3>1. pc["main"] \in StartLabels /\ pc'["main"] \in StartLabels /\ loc' = loc
      BY <2>3, Shapes DEF StartSched, At, Goto, StartLabels
    <3>2. loc["main"].file # 0 => HasRead("main", FileSize[loc["main"].file])
      BY <2>1, <3>1, Shapes DEF FilesRead, FileRead
    <3>3. loc["main"].file # 0 => HasRead("main", FileSize[loc["main"].file])'
      BY <2>1, <3>1, <3>2 DEF HasRead
    <3> QED BY <2>1, <3>1, <3>3 DEF FilesRead, FileRead, StartLabels, LoadLabels
  <2>4. CASE ~MainStat /\ ~StartSched
    <3>1. pc'["main"] \notin LoadLabels \cup PopulateLabels \cup StartLabels \cup {"restart"}
      BY <1>2, <2>4, Shapes DEF Building, AllocProc, SetRun, AllocTlb, SetPc, Goto,
         LoadLabels, PopulateLabels, StartLabels
    <3> QED BY <2>1, <3>1 DEF FilesRead, FileRead
  <2> QED BY <2>2, <2>3, <2>4
<1>3. ASSUME NEW t \in Threads, LoadAndPopulate(t) PROVE FilesRead'
  <2>1. running' = t
    BY <1>3, LoadFrame DEF cpuVars
  <2> QED BY <1>3, <2>1, LoadFileRead DEF FilesRead, FileRead
<1>4. CASE ExecPath \/ ExecFound \/ SCallExec
  <2>1. running' = "exec" /\ pc'["exec"] \in {"stat", "swap_pages", "path"}
    BY <1>4, ExecPathSteps, ExecFoundSteps, SCallExecSteps DEF cpuVars
  <2> QED BY <2>1 DEF FilesRead, FileRead, LoadLabels, PopulateLabels, StartLabels
<1>5. CASE SwapPages
  <2>1. running' = "exec"
    BY <1>5, SwapPagesSteps DEF SwapPages, cpuVars
  <2>2. \/ pc'["exec"] = "swap_pages"
        \/ pc'["exec"] = "load_off" /\ loc'["exec"].i = 0
    BY <1>5, SwapPagesSteps
  <2>3. \A v \in Pages : ~(v < 0)
    BY DEF Pages
  <2> QED BY <2>1, <2>2, <2>3
          DEF FilesRead, FileRead, HasRead, LoadLabels, PopulateLabels, StartLabels
<1>6. CASE \/ ExecPathHalts \/ Leaving \/ FetchInstruction \/ Access \/ AccessFaults \/ PageFault
           \/ TickSwitch
  <2>1. running' \notin Threads
    BY <1>6, ExecPathHaltsSteps, LeavingSteps, FetchSteps, AccessSteps, AccessFaultsSteps,
       PageFaultSteps, TickSwitchSteps DEF Threads
  <2> QED BY <2>1 DEF FilesRead, FileRead
<1>7. CASE Resuming \/ Device \/ UNCHANGED vars
  <2>1. UNCHANGED <<mem, pc, loc>> /\ (running' \in Threads => running' = running)
    BY <1>7, ResumingSteps, DeviceSteps DEF mmuVars, cpuVars, threadVars, vars, Threads
  <2> QED BY <2>1 DEF FilesRead, FileRead, HasRead
<1> QED BY <1>1, <1>2, <1>3, <1>4, <1>5, <1>6, <1>7, Steps, RestSteps, Shapes
-----------------------------------------------------------------------------
THEOREM SpaceInductive == Spec => []All
<1>1. Init => All
  BY InitIInv, InitSpace DEF All
<1>2. All /\ [Next]_vars => All'
  BY TypeNext, ControlNext, LoadingNext, StartedNext, CountingNext, OneProcessNext,
     PagesInOrderNext, CountsInOrderNext, KernelTlbNext, OwnTlbNext, RightTlbNext,
     PagingRightNext, WindowSetNext, MappedRightNext, KernelIntactNext, FilesReadNext
     DEF All, IInv, SpaceInv
<1> QED BY <1>1, <1>2, PTL DEF Spec

(* mmu.c: the kernel's stores into TLB and MMU registers are never lost,     *)
(* whether an interrupt turned paging on under it or not, and the window     *)
(* shows the page meant whenever data is copied through it.                  *)
THEOREM KernelAlwaysReaches == Spec => []KernelReaches
<1>1. ASSUME All PROVE KernelReaches
  <2> SUFFICES ASSUME running \in Threads, Booted
               PROVE  /\ Reaches(IOPAGE)
                      /\ pc[running] = "load_read" =>
                           /\ Permits(WIN, "w")
                           /\ Phys(WIN) = p_list[Slot(running)].pages[loc[running].i]
                      /\ running = "exec" /\ pc["exec"] = "stat" =>
                           Phys(WIN) = p_list[current_proc_idx].pages[frame.r.x]
    BY DEF KernelReaches
  <2> USE <1>1 DEF All, IInv, SpaceInv
  <2>1. Reaches(IOPAGE)
    BY StoresReach
  <2>2. ASSUME pc[running] = "load_read"
        PROVE  Permits(WIN, "w") /\ Phys(WIN) = p_list[Slot(running)].pages[loc[running].i]
    <3>1. Permits(WIN, "w") /\ Phys(WIN) = P + loc[running].i /\ loc[running].i \in Pages
      BY <2>2, WindowOpen
    <3>2. Given = P /\ Slot(running) = mine
      BY <2>2, MainSpins, ThreadSlot DEF Given, Unpaged, Threads
    <3>3. loc[running].i < P
      BY <3>1, KernelAssumption DEF Pages
    <3> QED BY <3>1, <3>2, <3>3, OwnPages
  <2>3. ASSUME running = "exec", pc["exec"] = "stat"
        PROVE  Phys(WIN) = p_list[current_proc_idx].pages[frame.r.x]
    <3>1. paging /\ tlb_index = 0 /\ tlb[0][WIN].page = P + frame.r.x
      BY <2>3 DEF PagingRight, RightTlb, InPath, WindowSet
    <3>2. frame.r.x \in Pages /\ frame.r.x < P
      BY KernelAssumption DEF TypeOK, Context, Regs, Pages
    <3>3. p_list[current_proc_idx].pages[frame.r.x] = P + frame.r.x
      BY <2>3, <3>2, MainSpins, OwnPages
    <3> QED BY <3>1, <3>3 DEF Phys
  <2> QED BY <2>1, <2>2, <2>3
<1> QED BY <1>1, SpaceInductive, PTL

(* interrupts.c:77 and 81, mmu.c:89: a running program has its own TLB, and  *)
(* each entry of it shows its own page and no page of the kernel.            *)
THEOREM ProgramsKeepApart == Spec => []UserSpace
<1>1. ASSUME All PROVE UserSpace
  <2> SUFFICES ASSUME running \in UserModes
               PROVE  /\ current_proc_idx \in Slots
                      /\ tlb_index = p_list[current_proc_idx].tlb_index /\ tlb_index # 0
                      /\ \A v \in Pages :
                           /\ tlb[tlb_index][v].page = p_list[current_proc_idx].pages[v]
                           /\ tlb[tlb_index][v].page >= P
                           /\ "r" \in tlb[tlb_index][v].flags
    BY DEF UserSpace
  <2> USE <1>1 DEF All, IInv, SpaceInv
  <2>1. pc["main"] \in Ticking /\ Given = P /\ current_proc_idx = mine /\ mine \in Slots
    BY MainSpins DEF UserModes
  <2>2. tlb_index = p_list[mine].tlb_index /\ tlb_index # 0
    BY <2>1, OwnIsNotZero DEF RightTlb, Ticking, NoTlb, Unpaged
  <2>3. Mapped(P)
    BY <2>1 DEF MappedRight, Ticking, StartLabels
  <2>4. ASSUME NEW v \in Pages
        PROVE  /\ tlb[tlb_index][v].page = p_list[mine].pages[v]
               /\ tlb[tlb_index][v].page >= P
               /\ "r" \in tlb[tlb_index][v].flags
    <3>1. v < P /\ v \in Nat /\ P \in Nat
      BY Constants DEF Pages
    <3>2. p_list[mine].pages[v] = P + v
      BY <2>1, <3>1, OwnPages
    <3>3. tlb[tlb_index][v].page = P + v /\ "r" \in tlb[tlb_index][v].flags
      BY <2>2, <2>3, <3>1 DEF Mapped
    <3> QED BY <3>1, <3>2, <3>3
  <2> QED BY <2>1, <2>2, <2>4
<1> QED BY <1>1, SpaceInductive, PTL

(* mmu.c: a page is counted once if an entry of the process table holds it,  *)
(* and not at all otherwise; no page is held twice.                          *)
THEOREM PagesAreCounted == Spec => []PagesCounted
<1>1. ASSUME All PROVE PagesCounted
  <2> DEFINE holders(p) == {h \in Slots \X Pages : p_list[h[1]].pages[h[2]] = p}
  <2> SUFFICES ASSUME Booted, NEW p \in P .. PHYS - 1
               PROVE  page_refcount[p] = Cardinality(holders(p)) /\ page_refcount[p] <= 1
    BY DEF PagesCounted
  <2> USE <1>1 DEF All, IInv, SpaceInv
  <2>1. page_refcount[p] = IF p < P + Given THEN 1 ELSE 0
    BY DEF CountsInOrder
  <2>2. /\ P \in Nat /\ P > 0 /\ p \in Nat /\ p >= P /\ mine \in Slots
        /\ Given \in Nat /\ Given <= P
    BY Shapes, KernelAssumption DEF Given, Pages
  <2>3. \A q \in Slots, v \in Pages : p_list[q].pages[v] = IF q = mine /\ v < Given THEN P + v ELSE 0
    BY DEF PagesInOrder
  <2>4. CASE p < P + Given
    <3>1. p - P \in Pages /\ p - P < Given /\ P + (p - P) = p
      BY <2>2, <2>4 DEF Pages
    <3>2. \A q \in Slots, v \in Pages : p_list[q].pages[v] = p <=> q = mine /\ v = p - P
      <4>1. \A v \in Pages : v \in Nat
        BY DEF Pages
      <4> QED BY <2>2, <2>3, <3>1, <4>1
    <3>3. holders(p) = {<<mine, p - P>>}
      <4>1. <<mine, p - P>> \in holders(p)
        BY <2>2, <3>1, <3>2
      <4>2. ASSUME NEW h \in holders(p) PROVE h = <<mine, p - P>>
        <5>1. PICK q \in Slots, v \in Pages : h = <<q, v>>
          OBVIOUS
        <5> QED BY <3>2, <5>1
      <4> HIDE DEF holders
      <4> QED BY <4>1, <4>2
    <3> HIDE DEF holders
    <3>4. Cardinality(holders(p)) = 1
      BY <3>3, FS_Singleton
    <3> QED BY <2>1, <2>4, <3>4
  <2>5. CASE ~(p < P + Given)
    <3>1. \A q \in Slots, v \in Pages : p_list[q].pages[v] # p
      <4>1. \A v \in Pages : v \in Nat
        BY DEF Pages
      <4> QED BY <2>2, <2>3, <2>5, <4>1
    <3>2. holders(p) = {}
      BY <3>1
    <3> HIDE DEF holders
    <3>3. Cardinality(holders(p)) = 0
      BY <3>2, FS_EmptySet
    <3> QED BY <2>1, <2>5, <3>3
  <2> QED BY <2>4, <2>5
<1> QED BY <1>1, SpaceInductive, PTL

(* Neither the kernel's copies nor a program's stores hit a kernel page.     *)
THEOREM KernelStaysIntact == Spec => []KernelIntact
<1>1. All => KernelIntact
  BY DEF All, SpaceInv
<1> QED BY <1>1, SpaceInductive, PTL

(* start_init and sys_exec start a program with its file in its pages.       *)
THEOREM ProgramsAreLoaded == Spec => ProgramLoaded
<1> DEFINE A == running' = "user" =>
                  /\ running = "main" => Loaded("main")
                  /\ running = "exec" /\ pc["exec"] = "restart" => Loaded("exec")
<1>1. ASSUME All, [Next]_vars PROVE [A]_vars
  <2> USE <1>1 DEF All, IInv, SpaceInv
  <2>1. ASSUME NEW t \in Threads, running = t, running' = "user",
               pc[t] \in StartLabels \cup {"restart"}, t = "exec" => pc[t] = "restart"
        PROVE  Loaded(t)
    <3>1. TickSwitch \/ Leaving
      BY <2>1, Steps, RestSteps, BootSteps, BuildingSteps, AllocPagesSteps, LoadFrame,
         ExecPathSteps, ExecPathHaltsSteps, SwapPagesSteps, ExecFoundSteps, FetchSteps, AccessSteps,
         AccessFaultsSteps, PageFaultSteps, ResumingSteps, SCallExecSteps, DeviceSteps, Shapes
         DEF cpuVars, Threads, vars
    <3>2. UNCHANGED mem /\ current_proc_idx' = mine /\ mine \in Slots
      BY <3>1, TickSwitchSteps, LeavingSteps, MainSpins, Shapes DEF tables
    <3>3. Given = P /\ \A q \in Slots : p_list'[q].pages = p_list[q].pages
      <4>1. CASE TickSwitch
        BY <4>1, TickSwitchSteps, MainRests DEF Rest, Isr, Given, Ticking, Unpaged
      <4>2. CASE Leaving
        BY <4>2, LeavingSteps, MainSpins, MainRests DEF Rest, SysExec, Leaving
      <4> QED BY <3>1, <4>1, <4>2
    <3>4. ASSUME loc[t].file # 0, NEW k \in 0 .. FileSize[loc[t].file] - 1
          PROVE  mem'[p_list'[mine].pages[k]] = Chunk(loc[t].file, k)
      <4>1. loc[t].file \in Files
        BY <3>4 DEF TypeOK, Locals
      <4>2. FileSize[loc[t].file] \in 0 .. P
        BY <4>1, KernelAssumption
      <4>3. k \in Pages /\ k < FileSize[loc[t].file] /\ k < P
        BY <4>2, KernelAssumption DEF Pages
      <4>4. p_list'[mine].pages[k] = P + k
        BY <3>2, <3>3, <4>3, OwnPages
      <4>5. HasRead(t, FileSize[loc[t].file])
        BY <2>1, <3>4 DEF FilesRead, FileRead
      <4> QED BY <3>2, <4>3, <4>4, <4>5 DEF HasRead
    <3> QED BY <3>2, <3>4 DEF Loaded
  <2>2. ASSUME running' = "user", running = "main" PROVE Loaded("main")
    <3>1. TickSwitch
      BY <2>2, Steps, RestSteps, BootSteps, BuildingSteps, AllocPagesSteps, LoadFrame,
         ExecPathSteps, ExecPathHaltsSteps, SwapPagesSteps, ExecFoundSteps, LeavingSteps,
         FetchSteps, AccessSteps, AccessFaultsSteps, PageFaultSteps, ResumingSteps,
         SCallExecSteps, DeviceSteps, Shapes DEF cpuVars, Threads, vars, InPath
    <3>2. pc["main"] \in StartLabels
      BY <3>1, TickSwitchSteps DEF Ticking, StartLabels
    <3> QED BY <2>1, <2>2, <3>2, Shapes
  <2>3. ASSUME running' = "user", running = "exec", pc["exec"] = "restart" PROVE Loaded("exec")
    BY <2>1, <2>3, Shapes
  <2> QED BY <2>2, <2>3
<1> QED BY <1>1, SpaceInductive, PTL DEF Spec, ProgramLoaded
-----------------------------------------------------------------------------
(* What the program sees.  Until sched first picks it the context of the     *)
(* process is the one memset left; sys_fork's test of the slot index never   *)
(* finds slot 0 free, which start_init's process holds.                      *)
FirstSlot ==
  /\ mine = 0
  /\ pc["main"] \in Unstarted => \A q \in Slots : p_list[q].status = PROCESS_NONE
FreshContext ==
  current_proc_idx = NONE \/ pc["main"] = "init_proc" =>
    \A q \in Slots : p_list[q].ctx.r = StartRegs
ExecCall == running = "exec" => frame.r.a = 5
ViewInv == FirstSlot /\ FreshContext /\ ExecCall

LEMMA InitView == Init => ViewInv
BY Constants DEF Init, ViewInv, FirstSlot, FreshContext, ExecCall, mine, Threads, NoLocals,
   EmptyProcess

LEMMA FirstSlotNext == All /\ ViewInv /\ [Next]_vars => FirstSlot'
<1> SUFFICES ASSUME All, ViewInv, [Next]_vars PROVE FirstSlot'
  OBVIOUS
<1> USE DEF All, IInv, ViewInv, FirstSlot
<1>1. CASE Boot
  <2>1. CASE InitProc
    BY <1>1, <2>1, BootSteps DEF InitProc, EmptyProcess
  <2>2. CASE ~InitProc
    <3>1. UNCHANGED p_list /\ pc["main"] \in Unstarted
      BY <1>1, <2>2 DEF Boot, InitMmu, InitInterrupts, ChooseInitOrShell, ShellExec, procVars,
                        At, Unstarted, NoTlb, Unpaged
    <3> QED BY <1>1, <3>1, BootSteps
  <2> QED BY <2>1, <2>2
<1>2. CASE AllocProc
  <2>1. \A q \in Slots : p_list[q].status = PROCESS_NONE
    BY <1>2 DEF AllocProc, At, Unstarted, NoTlb, Unpaged
  <2>2. find_free_proc = 0
    <3> DEFINE S == {q \in Slots : p_list[q].status = PROCESS_NONE}
    <3>1. 0 \in S /\ S \in SUBSET Nat
      BY <2>1, Constants DEF Slots
    <3>2. find_free_proc = LeastOr(S, NONE)
      BY DEF find_free_proc
    <3> HIDE DEF S
    <3>3. LeastOr(S, NONE) \in S /\ LeastOr(S, NONE) <= 0
      BY <3>1, LeastOrIn
    <3>4. LeastOr(S, NONE) \in Nat
      BY <3>1, <3>3
    <3>5. \A n \in Nat : n <= 0 => n = 0
      OBVIOUS
    <3> QED BY <3>2, <3>3, <3>4, <3>5
  <2>3. mine' = 0
    BY <1>2, <2>2, Shapes DEF AllocProc, SetLoc, Locals, mine
  <2>4. ~InitProc /\ ~SetRun
    BY <1>2 DEF AllocProc, InitProc, SetRun, At
  <2> QED BY <2>1, <2>3, <2>4, StatusKept
<1>3. CASE Building /\ ~AllocProc
  <2>1. mine' = mine
    BY <1>3, BuildingSteps
  <2>2. pc'["main"] \notin Unstarted
    BY <1>3, Shapes DEF Building, SetRun, AllocTlb, SetPc, MainStat, ProbeFile, StartSched, Goto,
                        Unstarted, NoTlb, Unpaged
  <2> QED BY <2>1, <2>2
<1>4. CASE AllocPages \/ LoadAndPopulate("main")
  BY <1>4, AllocPagesSteps, LoadFrame, LoadStaysOn, Shapes DEF Unstarted, NoTlb, Unpaged
<1>5. CASE Rest
  BY <1>5, MainRests
<1> QED BY <1>1, <1>2, <1>3, <1>4, <1>5, Steps

LEMMA ContextKept ==
  ASSUME All, [Next]_vars, ~InitProc, ~SetPc, ~TickSwitch
  PROVE  \A q \in Slots : p_list'[q].ctx = p_list[q].ctx
<1> USE DEF All, IInv
<1>1. p_list \in [Slots -> Process]
  BY Shapes
<1>2. CASE UNCHANGED p_list
  BY <1>2
<1>3. CASE AllocProc \/ SetRun \/ AllocTlb
  BY <1>1, <1>3 DEF AllocProc, SetRun, AllocTlb, Process
<1>4. CASE AllocPages \/ SwapPages
  <2>1. PICK q, v, p : p_list' = [p_list EXCEPT ![q].pages[v] = p] \/ UNCHANGED p_list
    BY <1>4 DEF AllocPages, SwapPages, GivePage
  <2> QED BY <1>1, <2>1 DEF Process
<1>5. CASE LoadAndPopulate("main") \/ LoadAndPopulate("exec")
  BY <1>5, LoadFrame, Shapes DEF procVars
<1> QED BY <1>2, <1>3, <1>4, <1>5
        DEF Next, Boot, InitMmu, InitInterrupts, ChooseInitOrShell, ShellExec, StartInit,
            MainStat, StartSched, SysExec, ExecPath, ExecPathHalts,
            ExecStat, ExecRestart, User, FetchInstruction, Access, AccessFaults, Isr,
            PageFault, UartIsr, TickOnly, SCallReturns, SCallExec, Device, RaiseTick,
            RaiseUart, vars, procVars

LEMMA FreshContextNext == All /\ ViewInv /\ [Next]_vars => FreshContext'
<1> SUFFICES ASSUME All, ViewInv, [Next]_vars, current_proc_idx' = NONE \/ pc'["main"] = "init_proc"
             PROVE  \A q \in Slots : p_list'[q].ctx.r = StartRegs
  BY DEF FreshContext
<1> USE DEF All, IInv
<1>1. CASE InitProc
  BY <1>1 DEF InitProc, EmptyProcess
<1>2. current_proc_idx = NONE \/ pc["main"] = "init_proc"
  <2>1. CASE Boot
    BY <2>1 DEF Boot, InitProc, InitMmu, InitInterrupts, ChooseInitOrShell, ShellExec,
                procVars, Control, At
  <2>2. CASE Building \/ AllocPages \/ LoadAndPopulate("main")
    BY <2>2, BuildingSteps, AllocPagesSteps, LoadFrame, Shapes DEF Control, Booted
  <2>3. CASE TickSwitch
    <3>1. current_proc_idx' \in Slots /\ pc'["main"] # "init_proc"
      BY <2>3, TickSwitchSteps, Shapes DEF threadVars, Ticking
    <3> QED BY <3>1, Shapes
  <2>4. CASE Rest /\ ~TickSwitch
    <3>1. current_proc_idx' = current_proc_idx
      BY <2>4, RestSteps, LoadFrame, ExecPathSteps, ExecPathHaltsSteps, ExecFoundSteps,
         LeavingSteps, FetchSteps, AccessSteps, AccessFaultsSteps, PageFaultSteps,
         ResumingSteps, SCallExecSteps, DeviceSteps, Shapes
         DEF vars, tables, procVars, SwapPages
    <3>2. pc'["main"] = pc["main"]
      BY <2>4, MainRests
    <3> QED BY <3>1, <3>2
  <2> QED BY <2>1, <2>2, <2>3, <2>4, Steps
<1>3. \A q \in Slots : p_list[q].ctx.r = StartRegs
  BY <1>2 DEF ViewInv, FreshContext
<1>4. CASE SetPc
  <2>1. p_list' = [p_list EXCEPT ![mine].ctx.r.pc = 0]
    BY <1>4 DEF SetPc, mine
  <2>2. \A q \in Slots : p_list'[q].ctx.r = IF q = mine THEN [p_list[q].ctx.r EXCEPT !.pc = 0]
                                                        ELSE p_list[q].ctx.r
    BY <2>1, Shapes DEF Process, Context
  <2> QED BY <1>3, <2>2 DEF StartRegs
<1>5. CASE TickSwitch
  <2>1. current_proc_idx' \in Slots /\ pc'["main"] # "init_proc"
    BY <1>5, TickSwitchSteps, Shapes DEF threadVars, Ticking
  <2> QED BY <2>1, Shapes
<1> QED BY <1>1, <1>3, <1>4, <1>5, ContextKept

LEMMA ExecCallNext == All /\ ViewInv /\ [Next]_vars => ExecCall'
<1> SUFFICES ASSUME All, ViewInv, [Next]_vars, running' = "exec" PROVE frame'.r.a = 5
  BY DEF ExecCall
<1> USE DEF All, IInv
<1>1. CASE SCallExec
  <2>1. frame'.r = Returned /\ regs.a = 5
    BY <1>1 DEF SCallExec
  <2> QED BY <2>1 DEF Returned, TypeOK, Regs
<1>2. CASE ~SCallExec
  <2>1. running = "exec" /\ frame' = frame
    BY <1>2, Steps, RestSteps, BootSteps, BuildingSteps, AllocPagesSteps, LoadFrame,
       ExecPathSteps, ExecPathHaltsSteps, ExecFoundSteps, LeavingSteps,
       FetchSteps, AccessSteps, AccessFaultsSteps, PageFaultSteps, ResumingSteps,
       TickSwitchSteps, DeviceSteps, Shapes DEF cpuVars, Threads, vars, InPath, SwapPages
  <2> QED BY <2>1 DEF ViewInv, ExecCall
<1> QED BY <1>1, <1>2

(* Program counters go round: one on and one back is where it was. *)
LEMMA RoundTrip ==
  ASSUME NEW n \in 0 .. NPC - 1
  PROVE  /\ (n + 1) % NPC \in 0 .. NPC - 1 /\ (n + NPC - 1) % NPC \in 0 .. NPC - 1
         /\ (((n + 1) % NPC) + NPC - 1) % NPC = n
         /\ (((n + NPC - 1) % NPC) + 1) % NPC = n
<1>1. NPC \in Nat \ {0}
  BY KernelAssumption
<1>2. \A m \in 0 .. NPC - 1 : m % NPC = m /\ (m + NPC) % NPC = m
  BY <1>1
<1>3. (n + 1) % NPC = IF n + 1 = NPC THEN 0 ELSE n + 1
  <2>1. CASE n + 1 = NPC
    BY <1>1, <2>1
  <2>2. CASE n + 1 # NPC
    BY <1>1, <1>2, <2>2
  <2> QED BY <2>1, <2>2
<1>4. (n + NPC - 1) % NPC = IF n = 0 THEN NPC - 1 ELSE n - 1
  <2>1. CASE n = 0
    BY <1>1, <1>2, <2>1
  <2>2. CASE n # 0
    <3>1. n - 1 \in 0 .. NPC - 1 /\ n + NPC - 1 = (n - 1) + NPC
      BY <1>1, <2>2
    <3> QED BY <1>2, <2>2, <3>1
  <2> QED BY <2>1, <2>2
<1>5. (((n + 1) % NPC) + NPC - 1) % NPC = n
  <2>1. CASE n + 1 = NPC
    <3>1. ((n + 1) % NPC) + NPC - 1 = n
      BY <1>1, <1>3, <2>1
    <3> QED BY <1>2, <3>1
  <2>2. CASE n + 1 # NPC
    <3>1. ((n + 1) % NPC) + NPC - 1 = n + NPC
      BY <1>1, <1>3, <2>2
    <3> QED BY <1>2, <3>1
  <2> QED BY <2>1, <2>2
<1>6. (((n + NPC - 1) % NPC) + 1) % NPC = n
  <2>1. CASE n = 0
    <3>1. ((n + NPC - 1) % NPC) + 1 = n + NPC
      BY <1>1, <1>4, <2>1
    <3> QED BY <1>2, <3>1
  <2>2. CASE n # 0
    <3>1. ((n + NPC - 1) % NPC) + 1 = n
      BY <1>1, <1>4, <2>2
    <3> QED BY <1>2, <3>1
  <2> QED BY <2>1, <2>2
<1> QED BY <1>1, <1>3, <1>4, <1>5, <1>6

(* The steps the program does not see. *)
Seen == Access \/ SCallReturns \/ Leaving
LEMMA Unseen ==
  ASSUME All, ViewInv, [Next]_vars, ~Seen
  PROVE  View' = View /\ retired' = retired
<1> USE DEF All, IInv
<1>1. CASE Boot \/ Building \/ AllocPages \/ LoadAndPopulate("main")
  <2>1. running = "main" /\ running' = "main"
    BY <1>1, BootSteps, BuildingSteps, AllocPagesSteps, LoadFrame, Shapes DEF cpuVars
  <2>2. retired' = retired
    BY <1>1, LoadFrame, Shapes
       DEF Boot, InitProc, InitMmu, InitInterrupts, ChooseInitOrShell, ShellExec, Building,
           AllocProc, SetRun, AllocTlb, SetPc, MainStat, StartSched, AllocPages
  <2> QED BY <2>1, <2>2 DEF View, UserModes
<1>2. CASE LoadAndPopulate("exec") \/ ExecPath \/ SwapPages \/ ExecFound \/ ExecPathHalts
  <2>1. running = "exec" /\ running' \in {"exec", "hlt"} /\ frame' = frame
    BY <1>2, LoadFrame, ExecPathSteps, SwapPagesSteps, ExecFoundSteps, ExecPathHaltsSteps, Shapes
       DEF cpuVars, InPath, SwapPages, ExecPathHalts
  <2>2. retired' = retired
    <3>1. CASE ExecFound
      <4>1. ~Iret([who |-> "user", r |-> [frame.r EXCEPT !.a = 0, !.b = 1]])
        BY <3>1 DEF ExecFound, Iret
      <4> QED BY <3>1, <4>1 DEF ExecFound, ExecStat
    <3>2. CASE ~ExecFound
      BY <1>2, <3>2, LoadFrame, Shapes DEF ExecPath, SwapPages, ExecPathHalts
    <3> QED BY <3>1, <3>2
  <2> QED BY <2>1, <2>2 DEF View, UserModes
<1>3. CASE FetchInstruction \/ AccessFaults \/ PageFault
  <2>1. running \in UserModes /\ running' \in UserModes
    BY <1>3, FetchSteps, AccessFaultsSteps, PageFaultSteps DEF UserModes
  <2>2. regs' = regs /\ retired' = retired
    BY <1>3 DEF FetchInstruction, AccessFaults, PageFault
  <2> QED BY <2>1, <2>2 DEF View
<1>4. CASE UartIsr \/ TickOnly
  <2>1. running \in {"main", "user", "scall"} /\ running' = IF running = "main" THEN "main" ELSE "user"
    BY <1>4, ResumingSteps DEF Resuming
  <2>2. regs' = regs /\ retired' = retired
    BY <1>4 DEF UartIsr, TickOnly, Handled, Iret, Interrupted
  <2> QED BY <2>1, <2>2 DEF View, UserModes
<1>5. CASE TickSwitch
  <2>1. running \in {"main", "user", "scall"} /\ running' = "user" /\ pc["main"] \in Ticking
    BY <1>5, TickSwitchSteps
  <2>2. NextProc = mine /\ retired' = retired
    <3>1. current_proc_idx' = NextProc /\ retired' = retired
      BY <1>5 DEF TickSwitch
    <3> QED BY <1>5, <3>1, TickSwitchSteps
  <2>3. regs' = p_list'[mine].ctx.r
    BY <1>5, <2>2 DEF TickSwitch, Handled, Iret
  <2>4. CASE current_proc_idx = NONE
    <3>1. running = "main" /\ p_list' = p_list
      BY <1>5, <2>1, <2>4 DEF TickSwitch, Control, Ticking
    <3>2. p_list[mine].ctx.r = StartRegs
      BY <2>4, Shapes DEF ViewInv, FreshContext
    <3> QED BY <2>1, <2>2, <2>3, <3>1, <3>2 DEF View, UserModes
  <2>5. CASE current_proc_idx # NONE
    <3>1. current_proc_idx = mine /\ running # "main"
      BY <2>1, <2>5 DEF SpaceInv, OneProcess, Control, Ticking
    <3>2. p_list' = [p_list EXCEPT ![mine].ctx = Interrupted]
      BY <1>5, <2>5, <3>1 DEF TickSwitch
    <3>3. p_list'[mine].ctx.r = regs
      BY <3>2, Shapes DEF Process, Interrupted
    <3> QED BY <2>1, <2>2, <2>3, <3>1, <3>3 DEF View, UserModes
  <2> QED BY <2>4, <2>5
<1>6. CASE SCallExec
  <2>1. running = "scall" /\ running' = "exec" /\ frame'.r = Returned /\ retired' = retired
    BY <1>6, SCallExecSteps DEF SCallExec
  <2>2. regs \in Regs /\ regs.pc \in 0 .. NPC - 1
    BY DEF TypeOK, Regs
  <2>3. Returned.pc = (regs.pc + 1) % NPC
        /\ [Returned EXCEPT !.pc = regs.pc] = regs
    BY <2>2 DEF Returned, Regs
  <2>4. (Returned.pc + NPC - 1) % NPC = regs.pc
    BY <2>2, <2>3, RoundTrip
  <2>5. View' = [frame'.r EXCEPT !.pc = (frame'.r.pc + NPC - 1) % NPC]
    BY <2>1 DEF View, UserModes
  <2>6. View = regs
    BY <2>1 DEF View, UserModes
  <2> QED BY <2>1, <2>3, <2>4, <2>5, <2>6
<1>7. CASE Device \/ UNCHANGED vars
  BY <1>7 DEF Device, RaiseTick, RaiseUart, vars, cpuVars, View
<1> QED BY <1>1, <1>2, <1>3, <1>4, <1>5, <1>6, <1>7, Steps, RestSteps DEF Seen, Resuming

(* A call is answered as the table says. *)
LEMMA AnswersAre ==
  /\ regs.a \in {0, 1, 3} => Answers = {[Returned EXCEPT !.a = 0]}
  /\ regs.a = 2 => Answers = {[Returned EXCEPT !.a = 0, !.b = c] : c \in Bytes}
  /\ regs.a = 4 =>
       Answers = {[Returned EXCEPT !.a = 0, !.b = IF find_free_proc = 0 THEN 255 ELSE @]}
  /\ regs.a \notin {0, 1, 2, 3, 4} => Answers = {Returned}
<1>1. ASSUME regs.a \in {0, 1, 3} PROVE Answers = {[Returned EXCEPT !.a = 0]}
  <2>1. regs.a # 2 /\ regs.a # 4
    BY <1>1
  <2> QED BY <1>1, <2>1 DEF Answers
<1>2. ASSUME regs.a = 2
      PROVE  Answers = {[Returned EXCEPT !.a = 0, !.b = c] : c \in Bytes}
  BY <1>2 DEF Answers
<1>3. ASSUME regs.a = 4
      PROVE  Answers = {[Returned EXCEPT !.a = 0, !.b = IF find_free_proc = 0 THEN 255 ELSE @]}
  BY <1>3 DEF Answers
<1>4. ASSUME regs.a \notin {0, 1, 2, 3, 4} PROVE Answers = {Returned}
  BY <1>4 DEF Answers
<1> QED BY <1>1, <1>2, <1>3, <1>4, Zenon

LEMMA CallSeen ==
  ASSUME All, ViewInv, SCallReturns
  PROVE  PV!Call
<1> USE DEF All, IInv
<1>1. PICK r \in Answers : Handled([who |-> "user", r |-> r])
  BY DEF SCallReturns
<1>2. running = "scall" /\ running' = "user" /\ regs' = r /\ retired' = 1 - retired /\ regs.a # 5
  BY <1>1 DEF SCallReturns, SCall, Handled, Iret
<1>3. View = regs /\ View' = r
  BY <1>2 DEF View, UserModes
<1>4. PV!Resume(View) = Returned
  BY <1>3 DEF PV!Resume, Returned
<1>5. regs.a \in 0 .. 6
  BY DEF TypeOK, Regs, NR_SYSCALL
<1>6. CASE regs.a \in {0, 1, 3}
  <2>1. Answers = {[Returned EXCEPT !.a = 0]}
    BY <1>6, AnswersAre, Zenon
  <2>2. r = [Returned EXCEPT !.a = 0]
    BY <1>1, <2>1, Zenon
  <2> QED BY <1>2, <1>3, <1>4, <1>6, <2>2 DEF PV!Call, PV!Retire
<1>7. CASE regs.a = 2
  <2>1. Answers = {[Returned EXCEPT !.a = 0, !.b = c] : c \in Bytes}
    BY <1>7, AnswersAre, Zenon
  <2>2. PICK c \in Bytes : r = [Returned EXCEPT !.a = 0, !.b = c]
    BY <1>1, <2>1, Zenon
  <2> QED BY <1>2, <1>3, <1>4, <1>7, <2>2 DEF PV!Call, PV!Retire
<1>8. CASE regs.a = 4
  <2>1. Answers = {[Returned EXCEPT !.a = 0, !.b = IF find_free_proc = 0 THEN 255 ELSE @]}
    BY <1>8, AnswersAre, Zenon
  <2>2. find_free_proc # 0
    <3> DEFINE S == {q \in Slots : p_list[q].status = PROCESS_NONE}
    <3>1. p_list[0].status = PROCESS_RUN
      BY <1>2, MainSpins DEF ViewInv, FirstSlot, Started, Ticking, AfterSetRun, StartLabels, mine
    <3>2. 0 \notin S /\ NONE # 0 /\ S \in SUBSET Nat
      BY <3>1, Constants DEF PROCESS_RUN, PROCESS_NONE, Slots
    <3>3. find_free_proc = LeastOr(S, NONE)
      BY DEF find_free_proc
    <3> HIDE DEF S
    <3> QED BY <3>2, <3>3, LeastOrIn
  <2>3. r = [Returned EXCEPT !.a = 0]
    <3>1. r = [Returned EXCEPT !.a = 0, !.b = Returned.b]
      BY <2>1, <2>2
    <3>2. Returned \in Regs
      BY ReturnedType
    <3> QED BY <3>1, <3>2 DEF Regs
  <2> QED BY <1>2, <1>3, <1>4, <1>8, <2>3 DEF PV!Call, PV!Retire
<1>9. CASE regs.a = 6
  <2>1. Answers = {Returned}
    BY <1>9, AnswersAre
  <2>2. r = Returned
    BY <1>1, <2>1, Zenon
  <2> QED BY <1>2, <1>3, <1>4, <1>9, <2>2 DEF PV!Call, PV!Retire
<1> QED BY <1>2, <1>5, <1>6, <1>7, <1>8, <1>9

(* sys_exec takes effect once, when it gives the CPU back. *)
LEMMA ExecSeen ==
  ASSUME All, ViewInv, Leaving
  PROVE  PV!Call
<1> USE DEF All, IInv
<1> DEFINE f == frame.r
<1>1. running = "exec" /\ running' = "user" /\ f.a = 5
  BY LeavingSteps DEF ViewInv, ExecCall
<1>2. f \in Regs /\ f.pc \in 0 .. NPC - 1
  BY DEF TypeOK, Context, Regs
<1>3. View = [f EXCEPT !.pc = (f.pc + NPC - 1) % NPC] /\ View.a = 5
  BY <1>1, <1>2 DEF View, UserModes, Regs
<1>4. PV!Resume(View) = f
  <2>1. PV!Resume(View) = [f EXCEPT !.pc = (((f.pc + NPC - 1) % NPC) + 1) % NPC]
    BY <1>2, <1>3 DEF PV!Resume, Regs
  <2>2. (((f.pc + NPC - 1) % NPC) + 1) % NPC = f.pc
    BY <1>2, RoundTrip
  <2>3. [f EXCEPT !.pc = f.pc] = f
    BY <1>2 DEF Regs
  <2> QED BY <2>1, <2>2, <2>3
<1>5. [View EXCEPT !.pc = 0] = [f EXCEPT !.pc = 0]
  BY <1>2, <1>3 DEF Regs
<1>6. View' = regs'
  BY <1>1 DEF View, UserModes
<1>7. CASE ExecRestart
  <2>1. regs' = [f EXCEPT !.pc = 0] /\ retired' = 1 - retired
    BY <1>7 DEF ExecRestart, Iret
  <2> HIDE DEF f
  <2> QED BY <1>3, <1>5, <1>6, <2>1 DEF PV!Call, PV!Retire
<1>8. CASE ExecStat
  <2>1. regs' = [f EXCEPT !.a = 0, !.b = 1] /\ retired' = 1 - retired
    BY <1>1, <1>8 DEF ExecStat, Iret
  <2> HIDE DEF f
  <2> QED BY <1>3, <1>4, <1>6, <2>1 DEF PV!Call, PV!Retire
<1> QED BY <1>7, <1>8 DEF Leaving

(* syscall.c and interrupts.c: interrupts, page faults, the scheduler and    *)
(* the switches between address spaces are invisible to the program, and     *)
(* every scall takes effect exactly once: Kernel implements ProcessView.     *)
THEOREM ViewImplemented == Spec => ImplementsView
<1>1. Init => PV!PVInit
  BY DEF Init, PV!PVInit, View, UserModes
<1>2. Init => All /\ ViewInv
  BY InitIInv, InitSpace, InitView DEF All
<1>3. All /\ ViewInv /\ [Next]_vars => ViewInv'
  BY FirstSlotNext, FreshContextNext, ExecCallNext DEF ViewInv
<1>4. ASSUME All, ViewInv, [Next]_vars PROVE [PV!PVNext]_(PV!pvars)
  <2>1. CASE Access
    <3>1. running = "access" /\ running' = "user" /\ retired' = 1 - retired /\ regs' \in UserRegs
      BY <2>1 DEF Access
    <3>2. View' = regs'
      BY <3>1 DEF View, UserModes
    <3> QED BY <3>1, <3>2 DEF PV!PVNext, PV!Instruction, PV!Retire
  <2>2. CASE SCallReturns
    BY <1>4, <2>2, CallSeen DEF PV!PVNext
  <2>3. CASE Leaving
    BY <1>4, <2>3, ExecSeen DEF PV!PVNext
  <2>4. CASE ~Seen
    BY <1>4, <2>4, Unseen DEF PV!pvars
  <2> QED BY <2>1, <2>2, <2>3, <2>4 DEF Seen
<1> QED BY <1>1, <1>2, <1>3, <1>4, SpaceInductive, PTL DEF Spec, ImplementsView, PV!PVSpec
=============================================================================
