# Verification of cpu5

cpu5 is a home-built 8-bit computer: a microcoded CPU with an MMU and an
interrupt controller, two simulators of it, a tool chain (microcode compiler,
assembler, linker, two C compilers), a small kernel with processes, paging,
system calls, a block cache and a file system, and programs for it.

This directory specifies in TLA+ what the kernel, the machine under it and the
tool chain do, checks it with TLC on small instances and proves parts of it with
TLAPS for every size.

## 1. Inventory

| Part | Sources | State it keeps | Operations | Status |
|---|---|---|---|---|
| Kernel boot, processes, scheduler | `kernel_main.c`, `proc.c` | `p_list` (status, pid, TLB index, saved context, pages), `current_proc_idx`, `do_switch`, `ticks_to_next_switch` | `init_proc`, `start_init`, `load_process`, `start_sched`, `sched` | `Kernel`, partly |
| Kernel memory | `mmu.c` | `page_refcount`, `tlb_map`, the TLB itself | `init_mmu`, `find_free_page`, `get_free_tlb`, `write_tlb`, `populate_tlb`, `memcpy_from_user` | `Kernel`, partly |
| Interrupts, system calls | `interrupts.c`, `syscall.c` | the frame at 0xffbd.., vectors | `page_fault`, `tick_isr`, `uart_isr`, `syscall_isr`, `sys_*` | `Kernel`, `ProcessView` |
| Console input | `uart.c`, `klib.c` | ring of 256 characters, size, two positions | `uart_isr`, `getc` | `UartRing`, partly |
| Block cache | `blk.c`, `ata.c` | `blockCache` (flags, number, pin count), `blockDataCache` | `bread`, `bfree`, `block_sync`, `ata_read_block` | `BlockCache`, `BlockStore`, partly |
| File system | `fs.c`, `proc.c`, `tools/mkfs.c` | directory block, file blocks | `append_directory`, `stat`, `read_file`, the loop of `load_process` | `FileSystem`, partly |
| CPU | `l_sim.cpp`, `cpu5.txt` | registers, `int_en`, backup of a fault | one microstep (`cycle`), faults, interrupt entry and return, every microprogram | `Cpu`, `AtomicCpu`, `Microcode` |
| MMU, interrupt controller | `l_sim.cpp` | line latches, paging flag, TLB, fault registers | `VMem::read/write`, `IntCtl::*`, `TLBCtl::*` | in `Kernel`, `Cpu`, `UartRing`, partly |
| ALU | `l_sim.cpp`, `alu/` | flags | `evaluate_alu`, `alufd`, `condition`; `gen` of the two ROM chips | `Alu`, `AluChips`, `WordAlu` |
| Microcode compiler | `mc_compiler.cpp`, `cpu5.txt` | ROM image | dashes, asterisks, aliases, `!override`, `get_word_for_instr` | `MicrocodeSource`, `MicrocodeCompiler`, partly |
| Devices | `devices.cpp` | console queue (64), storage address and index | `Console::read`, `runner`; `SimpleStorage::read/write` | in `UartRing`, `BlockCache`, partly |
| Verilator driver | `v_sim.cpp` | | level-driven console line | in `UartRing`, partly |
| Linker | `link.c`, `labels.c` | object files, dictionaries of sections, marks, addresses, image | `load_file`, `require_label`, `sort_sects`, `linker_offset_labels`, `linker_link` | `Linker` |
| Assembler | `asm.c` | labels, sections | `gen_instruction`, data, label positions | in `ExprCode`, partly |
| Compiler smlrc | `smlrc.c`, `cgrlcpu.c`, `cgrlcpu_emitters.c` | files being read, macros, open `#if`s; names, labels, offsets of locals, the expression stack, expression trees | `SkipSpace` to `GetToken`, `ParseDecl`, `InitVar`, `ParseStatement`, `expr`, `exprval`, `GenExpr` and its passes, emitters, prologs | `Definitions` and the modules below it, partly |
| Preprocessor, other compiler | `ucpp/`, `chibicc/` | | | not modelled |
| Applications, build scripts, schematics | | | | not modelled |

How they interact.  The kernel and the user program share one CPU.  The CPU
samples the interrupt lines when it fetches an instruction and enters a handler
through microcode that saves PC, A and S, disables interrupts and, reading the
vector, clears *every* line.  Handlers end in `iret`, which turns both
interrupts and paging on.  The kernel reaches the MMU, the TLB and the saved
frame through ordinary stores, either through its own identity mapping (TLB 0)
or with paging off.  Devices raise lines at any time.  The kernel's main program
ends by starting the scheduler and spinning; the first switch abandons it.

The tool chain works on files: a C program is preprocessed, compiled (`smlrc`),
assembled and linked into an image; `cpu5mkfs` packs images into a disk, from
which the kernel loads them.  The CPU's microcode is compiled from `cpu5.txt` for
the board and written out a second time, as C++, in the simulator.

What is hard here: interrupts landing between any two instructions of main
(whose `MMU_OFF()` sections are undone by the handler's `iret`); a page fault
inside an instruction, which is then restarted from one backup record; lines that
are lost because the vector read clears all; a counter shared by an interrupt
handler and a reader without protection; code whose correctness rests on the
order in which an allocator happens to hand out pages; the same machine defined
three times (microcode, simulator, ROM chips); 16-bit arithmetic out of 8-bit
steps whose flags must carry over; a linker whose two searches must agree; and
a compiler whose temporaries, spills and side effects share 16 bytes of a frame.
`PROJECT.json` lists these hazards by line.

What makes each part correct:

- kernel: a process always sees its own pages and never a kernel page; pages
  are counted right; kernel stores reach what they mean to reach; the program
  starts on the file it was to start on; interrupts are invisible to it;
- console: characters come out once and in order; the size never claims a
  character that is not there;
- block cache: a reader gets the bytes of the block it asked for, and gets them
  eventually;
- file system: a file reads back as the bytes it was made from;
- CPU: every instruction takes effect once, whatever faults and interrupts come;
- ALU: two commands on bytes make one on words, and a jump after a subtraction
  compares the numbers; the chips and the simulator agree;
- microcode: the compiled image does what the simulator does;
- linker: what is kept is what is needed, and every relocated place holds the
  address of what it names;
- compiler and assembler: the code does what the C program means.

## 2. Modules

| Module | What it is |
|---|---|
| `ProcessView` | abstract: the machine a user program sees (instructions and six calls) |
| `Kernel` | kernel, CPU and MMU; `View` maps it onto `ProcessView` |
| `BlockStore` | abstract: an array of blocks, read one at a time |
| `BlockCache` | `blk.c`, `ata.c` and the storage port; `View` maps it onto `BlockStore` |
| `UartRing` | console queue, interrupt line, `uart_isr`, `getc` |
| `FileSystem` | `cpu5mkfs`, `stat`, `read_file`, `load_process` |
| `Alu` | the simulator's 8-bit unit and the conditions of jumps |
| `AluChips` | the two 4-bit ROM chips `alu_generator.c` makes |
| `WordAlu` | 16-bit arithmetic out of two commands of either |
| `Microcode` | the datapath and the microprograms of `l_sim.cpp` |
| `AtomicCpu` | abstract: each instruction carried out once and as a whole |
| `Cpu` | the processor microstep by microstep, with faults and interrupts; implements `AtomicCpu` |
| `MicrocodeSource` | `cpu5.txt` as data |
| `MicrocodeCompiler` | `mc_compiler.cpp` at work on it, and the image run on the datapath |
| `Linker` | `cpu5ld` |
| `Lexer` | smlrc: from text to tokens, with its own preprocessor |
| `Declarations` | types, sizes, layout of structures, places of locals and parameters |
| `ExprParser` | tokens to postfix (`expr`, `exprUnary`), types in parentheses |
| `TypeErrors` | which operands `exprval` accepts |
| `ExprTypes` | types, constants and accesses of the postfix form (`exprval`, `ParseExpr`) |
| `ExprTree` | the trees of the cpu5 back end and the passes over them |
| `ExprCode` | its emitters, and the assembler's encoding |
| `Initialisers` | the data of initialised variables (`InitVar` ..), the compiler's state |
| `DeclParser` | `ParseDecl`, `ParseBase`: variables, types, structures, enumerations, `CheckRedecl` |
| `Statements` | `ParseStatement`, `ParseBlock` |
| `Definitions` | bodies of functions, the file as a whole |
| `CSyntax` | C programs as trees, and their text |
| `CMeaning` | what a C program means, without a compiler |
| `CompiledProgram` | declaration by declaration through all of it, and the result run on `AtomicCpu` |
| `MC...` | instances for TLC (`MCPrograms` and `MCTexts` are the inputs of `MCCompiler`) |
| `KernelProofs`, `KernelSpaceProofs`, `BlockCacheProofs`, `UartRingProofs`, `FileSystemProofs`, `WordAluProofs`, `CpuProofs`, `LeastProofs` | theorems |

### Kernel

One action per step that another flow of control can see the result of.  The
state is the code's own: the names of the variables are the names of the
kernel's globals and of the simulator's registers.  `running` says whose
instructions execute:

- `"main"`: `main()` and what it calls; interrupts may land before each step;
- `"user"`: the program, before a fetch; `"access"`: inside an instruction whose
  memory access has not happened; `"scall"`: before the microcode of `scall`;
- `"exec"`: `sys_exec`, run step by step with interrupts off.  It shares
  `load_process` and `populate_tlb` with main; they are actions with a thread
  parameter;
- `"hlt"`: `memcpy_from_user` stopped the machine.

Every other handler is one action: it runs with interrupts off, so nothing can
observe its steps.  `At(t, l)` lets main step only when no line is up, because
the CPU takes a pending interrupt at the next fetch.

Abstractions.  An address space has `P` pages instead of 16 and memory `PHYS`
instead of 256 (the assumption `2 * P <= PHYS` is what the code needs for one
process, whose pages 0x10.. `page_fault` computes).  `IOPAGE` stands for pages
4, 6, 7 and 0xf, through which the kernel stores into registers, TLB and frame;
`WIN` for page 0xa.  A page holds a numbered part of a numbered file, kernel
data or anything else.  The registers of a program are PC, A, B and X; the
others are saved and restored exactly as B is.  When a variable becomes dead
(the frame after `iret`, the locals of a thread that has left a function) it is
reset, which changes no behaviour and keeps the state space small.

User programs are arbitrary: any access to any page, any call.  They are assumed
not to execute `di`, `ei` or `iret`, which the CPU does not forbid.

### BlockCache

One reader takes a block, copies and lets go, which is what every function of
`fs.c` does.  There is only ever one: main is inside `bread` only before
`start_sched`, and a handler only in `sys_exec`, which cannot run before.  A byte
is the address it was read from, so a byte from any other place shows.
`block_init()` is commented out in `main`; that is sound because `blockCache` is
zeroed memory and `BLOCK_FREE` is 0, which is where `Init` starts.
`BLOCK_MODIFIED` is stored nowhere, so `ata_write_block` is unreachable.

The port is the one of `v_sim.cpp`, which calls `SimpleStorage::read_l`.  Under
`l_sim` the read goes through `SimpleStorage::read` with the address masked to 3
(`l_sim.cpp:1260`); that function serves address 4 and ends without a value for any
other, which C++ leaves undefined: an optimised build drops the test and reads the
port, one without optimisation does not.

### UartRing

`getc` in its two uses: from `sys_getchar` (interrupts off, one step) and from
the shell (interrupts on, `uart_buffer_size--` split into its load and store).
The interrupt line in its two simulators: a latch that any handler clears
(`l_sim`), a level (`v_sim`).  One run checks all four combinations.  Histories
(`stored`, `delivered`, `lost`) let the properties compare the ring with what went
in.

What it shows about `klib.c:10`: the unprotected decrement does lose increments
of `uart_isr`.  The ring then holds characters its size does not count, which
come out only when later characters push them; it never claims one that is not
there (`SizeAccounted`), so the order and identity of characters survive until
the forgotten ones fill the ring.  The test `size < 0xff` leaves one place
unused, and it is needed: `getc` decrements before it reads.

### FileSystem

One action per entry written, entry looked at, piece asked for, and block read.
Files go from the host's directory through the image and the block reads (which
`BlockCache` shows to be those of the image) into the process.  A byte is known by
the file and position it came from, so a byte out of place shows.

What it shows at the edges.  `mkfs` leaves 512 bytes for entries, but the kernel
reads one block of 256, 16 entries; a full block has no empty entry to stop at, so
`stat` goes on into whatever block is in the next cache slot (`beside`), or into the
memory behind the cache (`Behind`).  It compares bytes: an entry it meets there has
the name it has, but the bytes of a file, or of other memory, may be zero and end
the walk, may spell any name, and may show any block and size (`Matches`, `Misread`).
The model follows it to the end of that slot (`Reach`).  From the 33rd file on `mkfs` overwrites the first file's data.  A
name of 11 or more characters is cut by `strncpy` and the twelfth byte is what the
stack held.  A size is cut to 16 bits.  `Finds` and `Loads` say what is still true
then: `Loads` promises nothing of a file past the first block whose name the bytes of
another file spell, and `Finds` nothing of such a file at all; the instance has more files than fit, names that cut to another's, and
sizes around the end of the numbers.

### Alu, AluChips, WordAlu

`Alu` is `evaluate_alu`, `alufd` and `condition`: pure operators with the flags as a
record.  `AluChips` is `gen` for its two chips, with what is left in it of its 8-bit
life: it computes overflow from bit 7 of operands that have four bits
(`alu_generator.c:85`), so the chips never set the overflow flag, and
`ChipsAgree` compares everything else.  `TestPasses` is the test the generator makes of
the images before it writes them, which stops it where they are wrong.  `WordAlu` runs two commands one after the
other on the bytes of words, as all code of the compiler does.

The finding (`alu_overflow`): in a subtraction the simulator tests the sign of
the negated operand, and 0x80 negated is 0x80.  0 - 0x8000 leaves OF clear, so
`jl` and `jge` take 0 for less than -32768.  `JumpsCompare` excludes just this case and
shows all others right.

### Microcode, AtomicCpu, Cpu

A microstep is the set of signals it raises; `Perform` does one on a datapath
record; `Program` gives the microsteps of an opcode as `exec_instruction` writes them.
`AtomicCpu` performs a whole program at once.  `Cpu` is the loop of `CPU::cycle`:
`Fetch`, `TakeInterrupt`, `Serve` (a handler, up to the fetch of its return),
`Step`, `Recover`, with `Tick` between cycles and `Key` at any moment, because the
console has a thread of its own.  A step whose page is missing is not done:
`Fault`.  The handlers are assumed to do what the kernel's do: use A and Off, keep
the rest, end in `iret` or (page faults) `iretf`.

What is assumed, and where the code would go wrong otherwise: a program executes the
instructions of `Runs`, which are all but the kernel's returns, `scall`, `hlt` and
`swp`, and not `di` (a fault with interrupts disabled turns paging off and is never
served); `cpy` is not run with faults (its address is M plus what the instruction
before it left in Off); the vector of line latches is a `vector<bool>` written by
two threads without a lock, which is taken as atomic per call.

### MicrocodeSource, MicrocodeCompiler

The lines of `cpu5.txt` as data, the compiler's two loops over them one line per
action, then every opcode of the finished image run on a datapath beside the
simulator's program.  `!override` is looked up among the control lines, where
`operator[]` inserts an entry nobody initialises, so that one bit of the word is
set or cleared at a place the heap decides: the constant `Garbage` says which.

The interrupt field of all lines but the fetch and `hlt` is a dash, hence 0, that of
the interrupt entry included: the source writes it as the program of opcode 0xff,
over the fetch that the asterisks of the first line have put at its step 0.  That is
where the board looks for it: the pin of the interrupt field (A12) is tied to
ground on both ROM chips (`schematics/cpu5/decoder.kicad_sch`), and an interrupt puts
0xff into IR.  The half of the image with the interrupt bit set is never read, and
holds the fetch alone.  `Sequenced` says that the override replaced one word and no
other, `SameMachine` compares the entry as it is read.

The two returns from interrupts are compared with paging off only, as handlers
run: with paging on the board would pop from the kernel's page and the simulator
from the user's.

What the inserted entry does: `cpu5.txt:528` says that step 0 of the entry disables
paging, and it may do something else besides.  The compiler as usually built raises
`s0` there, which does no harm, but under other allocations the same program raises
`s1`, or `a_i`, with which an interrupt would lose A before step 4 saves it.
`NoDoubleWrite`, `Sequenced` and `SameMachine` hold whatever it is, because only step 0
depends on it; of step 0 itself nothing is claimed.

### Linker

One action per file loaded, section listed, label required, section placed,
section written.  The mutual recursion of `require_label` and `require_section` is
the stack `todo`.  A section is a record of name, labels and relocations; a byte
of the image is the value the last relocation over it stored.

Noted: labels are closed over with one search order (the dictionaries, by section
name) and located with another (the files).  With two exporters of one label in
sections of different names the section kept is not the one pointed to;
`KeepsWhatIsNeeded` and `Relocated` therefore assume one exporter, which is what the
build has.  A section whose name contains `bss` is taken for one even when it is
executable.  The count of files is a byte: the 256th makes the first vanish, which
no run reaches.

### The compiler: Lexer to CompiledProgram

The kernel is built with `smlrc`, the public Smaller C with a back end for cpu5.
It makes one pass over the text and writes assembly as it goes.  `Lexer` makes all
tokens at once, where the code hands out one at a time: comments, lines continued,
literals, `#include`, macros with and without parameters, `#if`s, `#pragma pack`.
The state of the rest is in the head of `Initialisers`: which token is next, the
sections written so far, the next label, what names and tags mean, the offset of
the last local, labels of `goto` and `case`, and whether an error has been found.
Nothing else looks at that state, so `ParseDecl` and everything below it is an
operator from the compiler's state to its next one, and `Compiled` goes from a text
to the last state.  What the texts compile to is the constant `Objects`, assumed to
be `ObjectsOf(Sources)`: TLC works it out once, and the actions are the call and the
instructions of the processor.

An expression is parsed to postfix by operator precedence (`preced`), then
`exprval` walks the postfix from its end, gives types, refuses what does not fit
(`TypeErrors`), folds constants and rewrites it; `GenTree` makes a tree of it, twelve
passes rewrite that in the order of `init_optimizers`, registers are assigned and
the emitters write lines.  A type is the sequence of entries the code's syntax
stack holds for it.  `exprval` edits one array in place with indexes counted back
and forth; here each part returns its own piece.  The code stops at an error; the
model remembers it in `refused` and goes on where the tokens can still be followed,
so an object with an error is never run.  Recursion runs over data, so these modules
have RECURSIVE operators and are model-checked only.

Inputs are texts.  Some are written by hand, as the kernel's sources are written,
with the program they should mean beside them; some are `TextOf` a program of
`MCPrograms`; 136 are wrong, each in one way.  `CMeaning` is C itself on a store of
bytes: 16-bit integers, the usual conversions, arrays, structures, unions, pointers
into them, calls, every statement.  It knows nothing of registers, and evaluates
the program as `CSyntax` describes it, not the tokens.  `Load` puts the assembled
bytes into memory where the linker would, pushes the arguments and enters the last
function; `Run` performs instructions of `AtomicCpu`.  `Means` says that the compiler
refuses the wrong texts and no others, reads structures as they are declared, and,
when the caller has control again, that every byte of every variable, the result,
the stack pointer and the frame are as C has them.

The programs of the instance are functions of the kernel and its libraries
(`memcpy`, `memset`, `memcmp`, `strcmp`, `getc`, `find_free_page`, `get_free_tlb`,
the multiplication `fxnMul`), and one family per part of the compiler, of the
largest of which every fifth member is run (`Fifth`).  For every one of them the
assembly the model writes is, line by line, what the built compiler writes.  What
the compiler gets wrong is left out of them and listed here:

- `&&`, `||` and `?:` whose node is not in r0 (`x = a < b && c`): the jump always tests
  r0 and r1; so it does for an operand that is a plain local.  Their value is not
  made 1;
- `0 ? x : y` with a constant condition leaves no code: `exprval` deletes tokens
  (smlrc.c 5527) that this build never inserted (5358, 5461);
- `switch` with two or more cases: `GenJumpIfEqual` overwrites the value it compares;
- 16-bit unary minus lacks the complement of the high byte; `0 - x` gives x; `~` of a
  byte;
- signed `>>` and `/` by powers of two shift in zeros, so the difference of two
  pointers is wrong when negative; `x / 2u` calls a function defined nowhere;
- a `char` of 128 and more loses its sign; arithmetic of two bytes stays 8 bits wide
  (`strcmp` of `klib.c` returns 255 for -1; the kernel uses only `!strcmp`);
- signed comparison when the right operand's high byte is 0x80 (`alu_overflow`);
- a post-increment in the condition of an `if` is placed after the jump, and one
  in an operand of `&&` or `||` is done though the operand was skipped;
- `return` as the last statement without braces inside a loop that ends a function
  has no jump, so the loop goes on;
- a string literal in an initialised array or structure: `GetString` ends it with
  `GenDumpChar(-1)`, a NUL that is not counted, and what follows is a byte further on
  than its offset; a local array or structure with an initial value calls a function
  defined nowhere; a global pointer to a literal, or to a place plus an offset, is
  not filled in;
- `x = a, b` with a plain local last; an expression that needs more than 16 bytes of
  temporaries overwrites the saved M and return address;
- a local between 114 and 128 bytes below M: the assembler's offset byte wraps;
- a frame of more than 100 steps of 8 bytes does not fit its prolog's room;
- adjacent string literals keep the NUL of the first between them;
- the body of a macro loses blanks inside its strings, and `//` in one cuts it;
- a second body of a function is accepted; an apostrophe in a region that an `#if`
  leaves out is refused.

`*`, `/`, `%` and shifts by a variable become calls of library functions of which
two exist, in `kernel_main.c`: `fxnMul` is one of the programs, `fxnDiv` answers 0.
`movw` and `pushw` need M to be odd, which the stack's start at 0xffff gives.

## 3. Runs

| Run | What it asks | Bounds | Distinct states |
|---|---|---|---|
| `kernel_safety` | is every address space, page count, window and program image right | `P`=3, `PHYS`=7, 2 slots, 3 TLBs, files of 2 and 3 pages | 2.1 million |
| `kernel_view` | can a program tell the kernel from `ProcessView` | `P`=2, `PHYS`=5, programs making every kind of call | 2.7 million |
| `kernel_live` | does the init process get the CPU; do faults resolve; does `sys_exec` end | `P`=2, `PHYS`=5 | 0.19 million |
| `block_cache` | is the cache invisible, and does `bread` return | 3 slots, 6 blocks of 3 bytes, two-digit addresses | 17 thousand |
| `uart` | what survives the race in `getc`; is every key delivered or dropped | ring 3, queue 2, 7 keys | 28 thousand |
| `file_system` | what is found, and is it read back right | directories of up to 5 files, 2 entries a block, 4-bit numbers, 9 ways to misread bytes | 2.2 million |
| `cpu` | is every instruction carried out once and as a whole | 22 opcodes, 6 pages with up to 3 missing, 2 instructions, 2 interrupts | 0.87 million |
| `microcode` | does the compiled microcode do what the simulator does | all 256 opcodes, 8 datapaths, 5 contents of the uninitialised entry | 625 |
| `alu` | is 16-bit arithmetic right, on simulator and chips | 29 words squared, 4 flag states, 4 operations | 20 thousand |
| `alu_overflow` | is overflow what its comment says (it is not) | the same | violation |
| `linker` | what is kept, where is it put, what do relocated places hold | 3 sections in 1 to 3 files, 2 labels in every role | 0.11 million |
| `compiler` | are wrong texts refused, and does the code of the others do what C means | 185 C texts (136 wrong), 2 calls of each right one | 0.12 million |

Why the bounds are enough.  Three pages are one page of program, the I/O page
and the window, and let a file be shorter than, or as long as, an address space.
Two process slots make `find_free_proc`, `NextProc` and the wrap of
`current_proc_idx` choose.  `TICKS_TO_SWITCH` = 2 with `TICKW` = 3 gives ticks that
switch, ticks that do not, and the wrap of a counter decremented before it was
set.  `NPC` = 4 wraps the program counter; a call is made from the last address.
Blocks exceed slots, so blocks are evicted and read again; six blocks need both
halves of a two-digit address.  Seven keys overrun a ring of three and a queue
of two and leave room for losses.  The directory overflows the block the kernel
reads, the blocks `mkfs` leaves and the numbers that hold a size, and pieces of 3
and 8 begin and end everywhere in blocks of 4.  In `cpu` an instruction lies
across two pages, its fields in two more and its stack across a boundary, so it
can fault at every access, up to three times, and an interrupt can come before,
between and after; the opcodes are one of each kind of microprogram and all
that read or write twice.  The words of `alu` are both sides of every carry,
borrow and sign boundary of both bytes.  In `linker` three sections are enough for
a chain, a cycle and a section nobody needs, in one file or several; the start
address makes offsets carry into the high byte.  The programs of `compiler` put
each operator on each kind of operand (argument, near and far local, global, byte,
through a pointer, indexed, constant) and nest operators on either side, which is
the depth at which temporaries, conversions and side effects meet; every kind of
loop around bodies that leave it, go on, choose and loop; `goto` and `return` from
within; arrays, structures and unions in each other; declarations, macros and
included files as the kernel's sources have them, and one wrong text for each
error.  The two calls make conditions true and false, and carry over the bytes of
words.

Deadlock.  The kernel runs have `CHECK_DEADLOCK FALSE` because `hlt` stops the
machine for good; the console runs because the number of keys is bounded; the
others because the program they model comes to its end.

Fairness.  `Kernel!FairSpec`: the CPU goes on executing handlers and `sys_exec`
(weak fairness, nothing interrupts them), the timer goes on ticking (weak), and
main and the program execute again and again although ticks interrupt them
(strong): two ticks are 0x10000 cycles apart (`l_sim.cpp:1276`), far more than a
handler takes.  The console is not assumed to raise its line ever.
`UartRing!FairSpec` is the same for `tick_isr`, `uart_isr` and a reader that
polls.  `BlockCache!FairSpec`: `bread`, once called, runs on; nobody need call it.
`Linker!Spec` lets the linker run on, and `Cpu!Spec` lets cycles go on (weak
fairness: the clock does not stop), without asking for interrupts.

Each property has a mutant of the code, named with a suffix (`bfree` becomes
`bfree_Leaks`) and defined beside the operator it changes, under which TLC reports
the property violated.

## 4. Proofs

`KernelProofs` proves for every `P`, `PHYS`, number of slots, TLBs and files,
every tick distance and every set of register files, from `KernelAssumption`
alone:

- `TypeCorrect`: `Spec => []TypeOK`;
- `MainIsGone`: `Spec => []MainNeverReturns`;
- `SchedulerFinds`: `Spec => []SchedFinds`.

None is inductive alone.  The inductive invariant `IInv` is `TypeOK` together with

- `Control`: main is suspended exactly while the scheduler has picked a process
  (this makes `current_proc_idx` a slot wherever the kernel indexes with it);
  main cannot be interrupted before `init_interrupts`; every saved context is a
  program's (it is, because a context is saved only when `current_proc_idx` is
  not 0xff, and then main is not what was interrupted);
- `Loading`: a thread in `load_process` has a file and a part the file has, so
  its page index stays below `P`;
- `Started`: from `set_run` on, main's slot is runnable, so `do_switch`, which
  main stores later, finds a runnable slot.

There is one lemma per group of actions for types, and one per other conjunct.

`BlockCacheProofs` proves for every size of cache, disk, block and address byte:
`TypeCorrect`, `CacheHasNoDuplicates`, `CacheIsCoherent`, `CachePinsExact`, and
`CacheImplementsStore`: `Spec => BS!BSSpec`, the whole refinement.  The inductive
invariant adds what holds while a slot is filled: it is claimed for the block
wanted, the port's registers hold the address step by step, the bytes before the
loop counter are right.  The arithmetic core is `SplitAddress`: the two bytes
`ata_read_block` sends make up the block number.

`KernelSpaceProofs` goes on from there to the address spaces: `KernelAlwaysReaches`,
`ProgramsKeepApart`, `PagesAreCounted`, `KernelStaysIntact` and `ProgramsAreLoaded` for
`KernelReaches`, `UserSpace`, `PagesCounted`, `KernelIntact` and `ProgramLoaded`.  All rest on
one inductive invariant, `SpaceInv` (`SpaceInductive`), whose heart is an order nobody
wrote down: `start_init` makes the only process, `find_free_page` gives pages least
first, so page `v` of the process is page `P + v` of memory, which `interrupts.c:77` and
`81` compute and the rest of the kernel looks up.  Around it stand what the TLB of
the process shows (exactly the pages given so far), what TLB 0 shows (the kernel's
own pages but for the window), and with which TLB and paging bit each flow of
control runs, handler by handler.  `ViewImplemented`: `Spec => PV!PVSpec` is the whole
refinement of `ProcessView`; it needs `ViewInv` besides: the process is in the
first slot, the context `start_init` makes is the one the view starts from, and
`sys_exec` remembers the call it is about.

`UartRingProofs` proves `SizeIsAccounted`, `RingIsFifo` and `KeysStayInOrder` for every
size of ring and queue and any number of keys.  The inductive invariant says that
the positions of the ring are the numbers of characters put in and taken out,
modulo its size, that the ring holds the last round put in, that the queue is
ahead of the ring, and that the size differs from the characters held by the
updates the race has lost so far and the one under way.

`FileSystemProofs` proves for every block size, entry size, word size, piece and
directory, from the assumptions of `FileSystem`:

- `ReadsTheDisk`: what `read_file` has copied is what the disk holds from the
  file's first block on, without a gap and without looking beside a block.  The
  invariant `ReadInv` adds that the pieces already handed over and the part of the
  present one are as long as what was copied, and that sums stay below the word
  size; the arithmetic is in `Division`, `PositionSplit` and `ReadNowFits`;
- `FilesAreFound` and `FilesAreLoaded`, for `Finds` and `Loads`: `stat` finds what
  `cpu5mkfs` has written, and what is loaded of a file is the file.  `ImageInv`
  is about the image: the entries of the first block are never overwritten, and
  the data of a file are where its entry says as long as `cpu5mkfs` has entries
  left, and the cells of the first block behind the last entry are empty, so that
  the walk stops there; `SearchInv` is about `stat`: what it has passed in the first
  block is neither empty nor the entry it looks for, and if the cell it stopped at
  is an entry, that is the one it found.  A file of the first block is therefore
  always found as an entry and read whole; of one past it `FilesAreLoaded` says so
  when `stat` stopped at an entry, for every choice of `Misread` and of what lies
  behind the slot.  They need `NamesAssumption`: names in a host directory differ, and
  what a cut name ends in is no name of the directory's.

`WordAluProofs` proves `WordArithmetic`, `JumpsAreRight` and `ChipsAgreeAlways`, for
`WordResult`, `JumpsCompare` and `ChipsAgree`: 16-bit arithmetic out of two commands on
bytes, and the jumps after a subtraction, for all pairs of words below 65536 and
all flags before, where the run has 29 words; the agreement of chips and simulator
for every command, carry and pair of bytes.  `Quotient`, `NineBits` and `RawSubtracts`
reduce the unit's arithmetic to comparisons; `Halves` and the `Bit..Splits` lemmas
cut a byte into the nibbles the chips work on.  `GeneratorPasses` (`TestPasses`) follows:
the images always pass the test `alu_generator.c` makes of them.

`CpuProofs` proves `StateIsKept` and `OnlyHandlers`, for `StateKept` and
`OnlyHandlersUnpaged`: for every program of a user, every contents of memory, every
set of missing pages and any number of instructions, ticks and keys, where the run
has 24 programs of two instructions.  `PerformTypes` and `PerformLeaves` say what any
microstep leaves; `QuietSteps`, by cases over the opcodes, that no microstep of an
instruction of a program takes paging off or touches the instruction register, the
lines or the backup.  The inductive invariant `Safe` is

- `Control`: what the machine is doing (the seven modes `Ready` to `Returning`), and for
  each mode, and each microstep of the entry into the kernel and of the returns, what
  paging, the enable, the lines and S are.  A fault is taken from the moment its
  line is set until `iretf` is over, and all that time the backup holds an
  instruction and a microstep it has;
- `Kept`: where the registers of the program are meanwhile.  `Enters` says it before
  each of the 15 microsteps of the entry, `Saves` in the handler, `Leaving` before each
  microstep of the returns.  It is claimed between two instructions only: while
  a fault in the middle of one is served, the registers are those of half an
  instruction, and the claim comes back when its last microstep is done.

Each of the 15 and of the 14 microsteps has a lemma (`Enter1` to `Enter15`, `Leave1` to
`LeaveFault`), each action one that leads to the mode it ends in (`NowReady` to
`NowRecovering`).

`LeastProofs` derives from the library's well-foundedness of the naturals that
table searches, written with CHOOSE, return a member of the set they search.

Only model-checked are

- liveness (`InitRuns`, `FaultResolved`, `ExecEnds`, `BreadReturns`, `Drains`, `Completes`,
  `Finishes`), which is out of the prover's reach;
- `Implements` of `Cpu`, where a whole instruction is a fold over its microsteps,
  and the properties of `MicrocodeCompiler` and `Linker`, which fold, select and sort
  sequences: what such an operator returns needs induction over its data, and the
  provers cannot instantiate the library's induction theorems;
- `Means` of `CompiledProgram`, which reaches recursive operators.

## 5. Plan

What is left: a definition of the sum of a sequence of microsteps that can be
reasoned about, so that `Implements` of `Cpu` follows from `Safe`; the same for the
folds of `Linker`.

## 6. Not modelled

`ucpp`, a public preprocessor, and `chibicc`, a public compiler whose
`codegen_cpu5.c` is still a copy of its x86 generator and which the build does not
use.  Of `smlrc`: structures by value and local arrays and structures with an initial
value (calls of functions defined nowhere), structures without a tag and tags that
hide others, an `extern` in a block behind a local name, a function called before it
is declared, a global initialised with an address and an offset, `asm`,
interrupt functions, floating point, wide characters, `\v`, `__func__`, the limits of
its tables, and texts whose error leaves the parser nothing to follow.  Schematics, board and
the vendored 7400 models describe hardware whose behaviour the logic simulator
restates.  Within the modelled parts: output (`puts`, `printhex`, `sys_putchar`,
`sys_stats`), `release_tlb`, `memcpy_to_user`, `force_sched`,
`skip_next_proc_frame_save` (called by nothing), the shell's commands other than
`exec`, `list_files`, the write port of the storage, the assembler's directives and
the formats of object, hex and image files.  `tick_counter` (a 16-bit count read in
two loads), the read of the storage under `l_sim`, the linker's count of files and the
unlocked line latch are hazards without a property; `PROJECT.json` says why.
