------------------------------ MODULE UartRing ------------------------------
(***************************************************************************)
(* The way of a character from the keyboard to getc: the console device    *)
(* and its queue (devices.cpp), the interrupt line, uart_isr and its ring  *)
(* (uart.c), and getc (klib.c).                                            *)
(*                                                                         *)
(* getc has two callers.  sys_getchar calls it with interrupts disabled:   *)
(* one step.  The kernel shell (getline, and main itself) calls it with    *)
(* interrupts enabled, so uart_isr may run between any two of its steps,   *)
(* also between the load and the store of uart_buffer_size--.              *)
(*                                                                         *)
(* The line is a latch in the logic simulator, which a handler of another  *)
(* interrupt clears too (IntCtl::reset), and a level in the Verilator one. *)
(*                                                                         *)
(* Keys are numbered in the order they are pressed; 0 is no character.     *)
(* The positions and the size are unsigned chars: arithmetic modulo RING,  *)
(* and the ring takes a character while the size is less than RING - 1.    *)
(***************************************************************************)
EXTENDS Naturals, Sequences

CONSTANTS
  RING,         \* uart_buffer has RING places (256)
  MAX_Q,        \* places of the console's queue (64)
  MaxKeys       \* bound: keys pressed

ASSUME UartAssumption ==
  /\ RING \in Nat /\ RING > 1 /\ MAX_Q \in Nat \ {0} /\ MaxKeys \in Nat

VARIABLES
  level,                    \* the line is a level (v_sim), not a latch (l_sim)
  shell,                    \* getc is called by the kernel shell, not by sys_getchar
  q,                        \* the console's queue
  irq,                      \* the latch of line 3
  tick,                     \* the latch of line 1
  uart_buffer, uart_buffer_size, uart_buffer_rd_pos, uart_buffer_wr_pos,
  pc, tmp,                  \* getc in the shell: its step, and the size loaded
  keys,                     \* history: keys pressed
  stored, delivered,        \* history: characters put into and taken from the ring
  lost                      \* history: increments of the size overwritten by getc

ring == <<uart_buffer, uart_buffer_size, uart_buffer_rd_pos, uart_buffer_wr_pos>>
vars == <<level, shell, q, irq, tick, ring, pc, tmp, keys, stored, delivered, lost>>

Positions == 0 .. RING - 1

Init ==                     \* after init_uart
  /\ level \in BOOLEAN /\ shell \in BOOLEAN
  /\ q = <<>> /\ irq = FALSE /\ tick = FALSE
  /\ uart_buffer = [p \in Positions |-> 0]
  /\ uart_buffer_size = 0 /\ uart_buffer_rd_pos = 0 /\ uart_buffer_wr_pos = 0
  /\ pc = "idle" /\ tmp = 0
  /\ keys = 0 /\ stored = <<>> /\ delivered = <<>> /\ lost = 0
-----------------------------------------------------------------------------
(* The console thread: a key finding the queue full is dropped. *)
Key ==
  /\ keys < MaxKeys
  /\ keys' = keys + 1
  /\ IF Len(q) < MAX_Q
     THEN q' = Append(q, keys + 1) /\ irq' = TRUE
     ELSE UNCHANGED <<q, irq>>
  /\ UNCHANGED <<tick, ring, pc, tmp, stored, delivered, lost>>

TimerTick ==
  /\ ~tick /\ tick' = TRUE
  /\ UNCHANGED <<q, irq, ring, pc, tmp, keys, stored, delivered, lost>>

UartLine == IF level THEN q # <<>> ELSE irq

(* tick_isr, as far as the lines go: line 1 goes first, reset clears both. *)
TickIsr ==
  /\ tick /\ tick' = FALSE
  /\ irq' = FALSE
  /\ UNCHANGED <<q, ring, pc, tmp, keys, stored, delivered, lost>>

(* Console::read.  Mutant: the character is read but stays in the queue. *)
PopQueue_Peeks == q' = q
PopChar == IF q = <<>> THEN 0 ELSE Head(q)
PopQueue == q' = IF q = <<>> THEN q ELSE Tail(q)

(* The value a handler that finds the size at its limit must leave alone:    *)
(* one more would wrap to 0.  Mutant: the limit is off by one.               *)
HasRoom_Wide == uart_buffer_size < RING
HasRoom == uart_buffer_size < RING - 1

(* ++ on a position. *)
NextPos(p) == (p + 1) % RING

UartIsrStores ==
  /\ UartLine /\ ~tick
  /\ HasRoom
  /\ PopQueue
  /\ uart_buffer' = [uart_buffer EXCEPT ![uart_buffer_wr_pos] = PopChar]
  /\ uart_buffer_wr_pos' = NextPos(uart_buffer_wr_pos)
  /\ uart_buffer_size' = (uart_buffer_size + 1) % RING
  /\ stored' = Append(stored, PopChar)
  /\ irq' = FALSE
  /\ UNCHANGED <<tick, uart_buffer_rd_pos, pc, tmp, keys, delivered, lost>>

UartIsrDrops_NoRead ==      \* mutant: the character is left in the device
  /\ UartLine /\ ~tick
  /\ ~HasRoom
  /\ irq' = FALSE
  /\ UNCHANGED <<q, tick, ring, pc, tmp, keys, stored, delivered, lost>>

UartIsrDrops ==             \* ring full: read the device all the same
  /\ UartLine /\ ~tick
  /\ ~HasRoom
  /\ PopQueue
  /\ irq' = FALSE
  /\ UNCHANGED <<tick, ring, pc, tmp, keys, stored, delivered, lost>>

UartIsr == UartIsrStores \/ UartIsrDrops
-----------------------------------------------------------------------------
Quiet == ~tick /\ ~UartLine         \* an instruction is fetched, not INT

(* getc called by sys_getchar: interrupts are disabled from scall to iret. *)
SysGetchar ==
  /\ ~shell /\ Quiet
  /\ uart_buffer_size # 0
  /\ uart_buffer_size' = uart_buffer_size - 1
  /\ delivered' = Append(delivered, uart_buffer[uart_buffer_rd_pos])
  /\ uart_buffer_rd_pos' = NextPos(uart_buffer_rd_pos)
  /\ UNCHANGED <<q, irq, tick, uart_buffer, uart_buffer_wr_pos, pc, tmp, keys,
                 stored, lost>>

(* getc called by the shell. *)
GetcTest ==                 \* if(uart_buffer_size)
  /\ shell /\ Quiet
  /\ pc = "idle" /\ uart_buffer_size # 0
  /\ pc' = "load"
  /\ UNCHANGED <<q, irq, tick, ring, tmp, keys, stored, delivered, lost>>

GetcLoad ==                 \* uart_buffer_size--, up to its store
  /\ Quiet
  /\ pc = "load"
  /\ tmp' = uart_buffer_size
  /\ pc' = "store"
  /\ UNCHANGED <<q, irq, tick, ring, keys, stored, delivered, lost>>

GetcStore_ByTwo ==          \* mutant: subtracts one too many
  /\ Quiet
  /\ pc = "store"
  /\ uart_buffer_size' = (tmp + RING - 2) % RING
  /\ lost' = lost + ((uart_buffer_size + RING - tmp) % RING)
  /\ pc' = "take" /\ tmp' = 0
  /\ UNCHANGED <<q, irq, tick, uart_buffer, uart_buffer_rd_pos, uart_buffer_wr_pos,
                 keys, stored, delivered>>

GetcStore ==
  /\ Quiet
  /\ pc = "store"
  /\ uart_buffer_size' = (tmp + RING - 1) % RING
  /\ lost' = lost + ((uart_buffer_size + RING - tmp) % RING)
  /\ pc' = "take" /\ tmp' = 0
  /\ UNCHANGED <<q, irq, tick, uart_buffer, uart_buffer_rd_pos, uart_buffer_wr_pos,
                 keys, stored, delivered>>

GetcTake ==                 \* c = uart_buffer[rd_pos]; rd_pos++
  /\ Quiet
  /\ pc = "take"
  /\ delivered' = Append(delivered, uart_buffer[uart_buffer_rd_pos])
  /\ uart_buffer_rd_pos' = NextPos(uart_buffer_rd_pos)
  /\ pc' = "idle"
  /\ UNCHANGED <<q, irq, tick, uart_buffer, uart_buffer_size, uart_buffer_wr_pos,
                 tmp, keys, stored, lost>>

Getc == SysGetchar \/ GetcTest \/ GetcLoad \/ GetcStore \/ GetcTake

Next == (Key \/ TimerTick \/ TickIsr \/ UartIsr \/ Getc) /\ UNCHANGED <<level, shell>>

Spec == Init /\ [][Next]_vars

(* The CPU executes on, the reader polls getc, and two ticks are far enough  *)
(* apart for a handler and the interrupted code to get their turn.           *)
FairSpec == Spec /\ WF_vars(TickIsr /\ UNCHANGED <<level, shell>>)
            /\ SF_vars(UartIsr /\ UNCHANGED <<level, shell>>)
            /\ SF_vars(Getc /\ UNCHANGED <<level, shell>>)
-----------------------------------------------------------------------------
(* Characters in the ring: stored and not yet delivered. *)
Waiting == Len(stored) - Len(delivered)

(* klib.c:10: the size of the ring falls short of the characters in it by    *)
(* exactly the increments of uart_isr that getc's uart_buffer_size--         *)
(* overwrote; it never claims a character that is not there.                 *)
SizeAccounted ==
  LET claimed == IF pc = "take" THEN 1 ELSE 0
  IN Waiting = uart_buffer_size + lost + claimed

(* The characters wait in the ring in the order they were put in, as long as *)
(* the ring is not overrun; it is never overrun while no increment was lost: *)
(* the one place uart.c:19 leaves free (0xff of 256) is the one getc gives   *)
(* up before it has read it; and until one is lost getc has returned them in *)
(* that order, none twice and none skipped.                                  *)
Fifo ==
  /\ Waiting <= RING =>
       \A k \in 1 .. Waiting :
         uart_buffer[(uart_buffer_rd_pos + k - 1) % RING] = stored[Len(delivered) + k]
  /\ lost = 0 => /\ Waiting <= RING
                 /\ \A k \in DOMAIN delivered : delivered[k] = stored[k]

(* klib.c:153, "if(!c) continue": a character in the ring is never 0, which  *)
(* getc's callers take for an empty ring, and the characters stand in the    *)
(* order the keys were pressed.                                              *)
KeysInOrder ==
  \A k \in 1 .. Len(stored) :
    stored[k] > 0 /\ (k > 1 => stored[k] > stored[k - 1])

(* With a level line and getc called by sys_getchar, every key ends up       *)
(* delivered or dropped: neither the console's queue nor the ring keeps a    *)
(* character for ever.                                                       *)
Drains ==
  level /\ ~shell => <>[](q = <<>> /\ uart_buffer_size = 0 /\ Waiting = 0)
=============================================================================
