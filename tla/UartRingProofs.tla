---------------------------- MODULE UartRingProofs ----------------------------
(***************************************************************************)
(* The input ring loses, doubles and reorders nothing but what the race of *)
(* uart_isr with getc's uart_buffer_size-- costs, for every size of ring   *)
(* and queue: the invariants the run of UartRing checks, from one          *)
(* inductive invariant.                                                    *)
(***************************************************************************)
EXTENDS UartRing, TLAPS

Lines ==
  /\ level \in BOOLEAN /\ shell \in BOOLEAN /\ irq \in BOOLEAN /\ tick \in BOOLEAN
  /\ irq => q # <<>>       \* the latch is never set for nothing

Types ==
  /\ q \in Seq(Nat)
  /\ uart_buffer \in [Positions -> Nat]
  /\ uart_buffer_size \in Positions
  /\ uart_buffer_rd_pos \in Positions /\ uart_buffer_wr_pos \in Positions
  /\ pc \in {"idle", "load", "store", "take"} /\ tmp \in Positions
  /\ keys \in Nat /\ lost \in Nat
  /\ stored \in Seq(Nat) /\ delivered \in Seq(Nat)

TypeOK == Types /\ Lines

(* getc goes on with a size that can only have grown since it looked at it. *)
Taking ==
  /\ ~shell => pc = "idle"
  /\ pc = "load" => uart_buffer_size > 0
  /\ pc = "store" => tmp > 0 /\ tmp <= uart_buffer_size

(* The positions run with the characters, round after round. *)
PositionsFollow ==
  /\ uart_buffer_wr_pos = Len(stored) % RING
  /\ uart_buffer_rd_pos = Len(delivered) % RING

(* The ring holds the last RING characters put into it. *)
LastRound ==
  \A j \in 1 .. Len(stored) :
    j + RING > Len(stored) => uart_buffer[(j - 1) % RING] = stored[j]

(* The queue holds keys in the order they were pressed, all after those in   *)
(* the ring.                                                                 *)
QueueAhead ==
  /\ \A i \in 1 .. Len(q) : q[i] \in 1 .. keys
  /\ \A i, j \in 1 .. Len(q) : i < j => q[i] < q[j]
  /\ \A k \in 1 .. Len(stored) : stored[k] \in 1 .. keys
  /\ \A k \in 1 .. Len(stored), i \in 1 .. Len(q) : stored[k] < q[i]

IInv ==
  /\ TypeOK /\ Taking /\ SizeAccounted
  /\ PositionsFollow /\ LastRound
  /\ QueueAhead /\ KeysInOrder
  /\ Fifo
-----------------------------------------------------------------------------
(* Division by the size of the ring. *)
LEMMA Division ==
  ASSUME NEW n \in Nat
  PROVE  /\ n % RING \in Positions
         /\ \E m \in Nat : n = RING * m + (n % RING)
<1>1. n \div RING \in Nat /\ n % RING \in 0 .. RING - 1
      /\ n = RING * (n \div RING) + (n % RING)
  BY UartAssumption
<1> QED BY <1>1 DEF Positions

(* A number below RING is what is left of itself and any number of rounds. *)
LEMMA Remainder ==
  ASSUME NEW m \in Nat, NEW r \in Positions
  PROVE  (RING * m + r) % RING = r
<1> DEFINE n == RING * m + r
<1>1. RING * m \in Nat
  BY UartAssumption
<1>2. n \in Nat
  BY <1>1, UartAssumption DEF Positions
<1>3. PICK k \in Nat : n = RING * k + (n % RING)
  BY <1>2, Division
<1>4. n % RING \in Positions
  BY <1>2, Division
<1>5. RING * m - RING * k = (n % RING) - r
  <2>1. RING * k \in Nat
    BY UartAssumption
  <2> HIDE DEF n
  <2>2. RING * k + (n % RING) = RING * m + r
    BY <1>3 DEF n
  <2> QED BY <2>1, <2>2, <1>1, <1>4, UartAssumption DEF Positions
<1>6. m = k
  <2>1. CASE m > k
    <3>1. RING * m >= RING * k + RING
      BY <2>1, UartAssumption
    <3> QED BY <3>1, <1>4, <1>5, UartAssumption DEF Positions
  <2>2. CASE m < k
    <3>1. RING * k >= RING * m + RING
      BY <2>2, UartAssumption
    <3> QED BY <3>1, <1>4, <1>5, UartAssumption DEF Positions
  <2> QED BY <2>1, <2>2
<1> QED BY <1>4, <1>5, <1>6, UartAssumption DEF Positions

(* The position of the next character is the next position. *)
LEMMA NextMod ==
  ASSUME NEW n \in Nat
  PROVE  NextPos(n % RING) = (n + 1) % RING
<1>1. PICK m \in Nat : n = RING * m + (n % RING)
  BY Division
<1> DEFINE r == n % RING
<1>2. r \in Positions
  BY Division
<1> HIDE DEF r
<1>3. CASE r + 1 \in Positions
  <2>1. (RING * m + (r + 1)) % RING = r + 1
    BY <1>3, Remainder
  <2>2. (RING * 0 + (r + 1)) % RING = r + 1
    BY <1>3, Remainder
  <2>3. RING * m + (r + 1) = n + 1 /\ RING * 0 + (r + 1) = r + 1
    BY <1>1, <1>2, UartAssumption DEF r, Positions
  <2> QED BY <2>1, <2>2, <2>3 DEF NextPos, r
<1>4. CASE r + 1 = RING
  <2>1. (RING * (m + 1) + 0) % RING = 0 /\ (RING * 1 + 0) % RING = 0
    BY Remainder, UartAssumption DEF Positions
  <2>2. RING * (m + 1) + 0 = n + 1 /\ RING * 1 + 0 = r + 1
    BY <1>1, <1>4, UartAssumption DEF r
  <2> QED BY <2>1, <2>2 DEF NextPos, r
<1> QED BY <1>2, <1>3, <1>4, UartAssumption DEF Positions

(* Two characters less than a round apart have places of their own. *)
LEMMA PlacesDiffer ==
  ASSUME NEW a \in Nat, NEW b \in Nat, a < b, b < a + RING
  PROVE  a % RING # b % RING
<1>1. PICK k \in Nat : a = RING * k + (a % RING)
  BY Division
<1>2. PICK m \in Nat : b = RING * m + (b % RING)
  BY Division
<1>3. a % RING \in Positions /\ b % RING \in Positions
  BY Division
<1>4. SUFFICES ASSUME a % RING = b % RING PROVE FALSE
  OBVIOUS
<1>5. RING * k \in Nat /\ RING * m \in Nat
  BY UartAssumption
<1>6. RING * k < RING * m /\ RING * m < RING * k + RING
  BY <1>1, <1>2, <1>3, <1>4, <1>5, UartAssumption DEF Positions
<1>7. m <= k \/ m >= k + 1
  OBVIOUS
<1>8. m <= k => RING * m <= RING * k
  BY UartAssumption
<1>9. m >= k + 1 => RING * m >= RING * k + RING
  BY UartAssumption
<1> QED BY <1>5, <1>6, <1>7, <1>8, <1>9, UartAssumption
-----------------------------------------------------------------------------
LEMMA InitIInv == Init => IInv
<1> SUFFICES ASSUME Init PROVE IInv
  OBVIOUS
<1> USE UartAssumption
<1>1. TypeOK
  <2>1. Types
    BY DEF Init, Types, Positions
  <2>2. Lines
    BY Zenon DEF Init, Lines
  <2> QED BY <2>1, <2>2 DEF TypeOK
<1>2. Taking /\ LastRound /\ QueueAhead /\ KeysInOrder
  BY DEF Init, Taking, LastRound, QueueAhead, KeysInOrder
<1>3. PositionsFollow
  <2>1. (RING * 0 + 0) % RING = 0
    BY Remainder DEF Positions
  <2> QED BY <2>1 DEF Init, PositionsFollow
<1>4. SizeAccounted /\ Fifo
  BY DEF Init, SizeAccounted, Waiting, Fifo
<1> QED BY <1>1, <1>2, <1>3, <1>4 DEF IInv

(* How many characters wait, and that there is room for them while no        *)
(* increment has been lost.                                                  *)
LEMMA WaitingSmall ==
  ASSUME TypeOK, SizeAccounted
  PROVE  /\ Waiting \in Nat /\ Waiting = Len(stored) - Len(delivered)
         /\ Len(stored) \in Nat /\ Len(delivered) \in Nat
         /\ lost = 0 => Waiting <= RING
BY UartAssumption DEF TypeOK, Types, Positions, SizeAccounted, Waiting

(* What stands at the positions getc reads next. *)
LEMMA WaitingInRing ==
  ASSUME TypeOK, SizeAccounted, PositionsFollow, LastRound,
         Waiting <= RING, NEW k \in 1 .. Waiting
  PROVE  uart_buffer[(uart_buffer_rd_pos + k - 1) % RING] = stored[Len(delivered) + k]
<1>1. /\ Waiting = Len(stored) - Len(delivered)
      /\ Len(stored) \in Nat /\ Len(delivered) \in Nat
  BY WaitingSmall
<1> DEFINE d == Len(delivered)
           r == d % RING
           p == r + k - 1
<1>2. d + k \in 1 .. Len(stored) /\ (d + k) + RING > Len(stored)
  BY <1>1, UartAssumption
<1>3. uart_buffer[((d + k) - 1) % RING] = stored[d + k]
  BY <1>2 DEF LastRound
<1>4. p % RING = ((d + k) - 1) % RING
  <2>1. d \in Nat /\ k \in Nat /\ k >= 1 /\ r \in Positions
    BY <1>1, Division
  <2>2. PICK m \in Nat : d = RING * m + r
    BY <2>1, Division
  <2> HIDE DEF d, r
  <2>3. p \in Nat
    BY <2>1, UartAssumption DEF Positions
  <2>4. PICK n \in Nat : p = RING * n + (p % RING)
    BY <2>3, Division
  <2>5. p % RING \in Positions
    BY <2>3, Division
  <2> DEFINE e == p % RING
  <2>6. (d + k) - 1 = RING * (m + n) + e
    <3>1. RING * (m + n) = RING * m + RING * n /\ RING * m \in Nat /\ RING * n \in Nat
      BY UartAssumption
    <3>2. e \in Nat /\ p = RING * n + e
      BY <2>4, <2>5, UartAssumption DEF Positions
    <3> HIDE DEF e
    <3>3. (d + k) - 1 = RING * m + p
      BY <2>1, <2>2, <3>1, UartAssumption DEF Positions
    <3> QED BY <3>1, <3>2, <3>3
  <2>7. (RING * (m + n) + e) % RING = e
    BY <2>5, Remainder
  <2> QED BY <2>6, <2>7
<1> QED BY <1>3, <1>4 DEF PositionsFollow

(* What Fifo follows from, now and after a step. *)
Returned == lost = 0 => \A k \in DOMAIN delivered : delivered[k] = stored[k]
RingInv == TypeOK /\ SizeAccounted /\ PositionsFollow /\ LastRound /\ Returned

LEMMA FifoHolds == RingInv => Fifo
BY WaitingSmall, WaitingInRing DEF RingInv, Returned, Fifo

LEMMA FifoHoldsNext == RingInv' => Fifo'
BY FifoHolds, PTL
-----------------------------------------------------------------------------
Fixed == UNCHANGED <<level, shell>>

(* A step that leaves the ring, getc and the histories of the ring alone. *)
LEMMA RingLeft ==
  ASSUME IInv, UNCHANGED <<ring, pc, tmp, stored, delivered, lost>>, Fixed
  PROVE  /\ Taking' /\ SizeAccounted' /\ PositionsFollow' /\ LastRound'
         /\ KeysInOrder' /\ Fifo'
<1> USE DEF IInv, Fixed, ring
<1>1. Taking' /\ SizeAccounted'
  BY DEF Taking, SizeAccounted, Waiting
<1>2. PositionsFollow' /\ LastRound' /\ KeysInOrder'
  BY DEF PositionsFollow, LastRound, KeysInOrder
<1>3. Fifo'
  BY DEF Fifo, Waiting
<1> QED BY <1>1, <1>2, <1>3

(* A step that leaves the queue, the line and the keys alone, and puts       *)
(* nothing into the ring.                                                    *)
LEMMA QueueLeft ==
  ASSUME IInv, UNCHANGED <<q, irq, keys, stored>>
  PROVE  QueueAhead' /\ KeysInOrder'
BY DEF IInv, QueueAhead, KeysInOrder

LEMMA KeyStep == IInv /\ Key /\ Fixed => IInv'
<1> SUFFICES ASSUME IInv, Key, Fixed PROVE IInv'
  OBVIOUS
<1> USE DEF IInv, TypeOK
<1>1. keys \in Nat /\ keys' = keys + 1 /\ stored' = stored
  BY DEF Types, Key
<1>2. CASE UNCHANGED <<q, irq>>
  <2>1. Types' /\ QueueAhead'
    BY <1>1, <1>2 DEF Types, Key, ring, QueueAhead
  <2>2. Lines'
    BY <1>2, Zenon DEF Lines, Key, Fixed
  <2> QED BY <2>1, <2>2, RingLeft DEF Key
<1>3. CASE q' = Append(q, keys + 1) /\ irq' = TRUE
  <2>1. /\ q' # <<>> /\ q' \in Seq(Nat) /\ Len(q') = Len(q) + 1 /\ Len(q) \in Nat
        /\ q'[Len(q) + 1] = keys + 1
        /\ \A i \in 1 .. Len(q) : q'[i] = q[i]
    BY <1>1, <1>3 DEF Types
  <2>2. Types'
    BY <1>1, <2>1 DEF Types, Key, ring
  <2>3. Lines'
    BY <1>3, <2>1, Zenon DEF Lines, Key, Fixed
  <2>4. \A i \in 1 .. Len(q') : i \in 1 .. Len(q) \/ i = Len(q) + 1
    BY <2>1
  <2>5. \A i \in 1 .. Len(q') : q'[i] \in 1 .. keys'
    BY <1>1, <2>1, <2>4 DEF QueueAhead
  <2>6. ASSUME NEW i \in 1 .. Len(q'), NEW j \in 1 .. Len(q'), i < j PROVE q'[i] < q'[j]
    <3>1. i \in 1 .. Len(q) /\ q'[i] = q[i] /\ q[i] \in 1 .. keys
      BY <2>1, <2>4, <2>6 DEF QueueAhead
    <3>2. CASE j = Len(q) + 1
      BY <1>1, <2>1, <3>1, <3>2
    <3>3. CASE j \in 1 .. Len(q)
      BY <2>1, <2>6, <3>1, <3>3 DEF QueueAhead
    <3> QED BY <2>4, <3>2, <3>3
  <2>7. \A k \in 1 .. Len(stored') : stored'[k] \in 1 .. keys'
    BY <1>1 DEF QueueAhead
  <2>8. ASSUME NEW k \in 1 .. Len(stored'), NEW i \in 1 .. Len(q') PROVE stored'[k] < q'[i]
    <3>1. k \in 1 .. Len(stored) /\ stored'[k] = stored[k] /\ stored[k] \in 1 .. keys
      BY <1>1 DEF QueueAhead
    <3>2. CASE i = Len(q) + 1
      BY <1>1, <2>1, <3>1, <3>2
    <3>3. CASE i \in 1 .. Len(q)
      BY <2>1, <3>1, <3>3 DEF QueueAhead
    <3> QED BY <2>4, <3>2, <3>3
  <2>9. QueueAhead'
    BY <2>5, <2>6, <2>7, <2>8 DEF QueueAhead
  <2> QED BY <2>2, <2>3, <2>9, RingLeft DEF Key
<1> QED BY <1>2, <1>3 DEF Key

LEMMA LinesStep == IInv /\ (TimerTick \/ TickIsr) /\ Fixed => IInv'
<1> SUFFICES ASSUME IInv, TimerTick \/ TickIsr, Fixed PROVE IInv'
  OBVIOUS
<1> USE DEF IInv, TypeOK
<1>1. Types' /\ QueueAhead'
  BY DEF Types, QueueAhead, TimerTick, TickIsr, ring
<1>2. CASE TimerTick
  BY <1>1, <1>2, RingLeft, Zenon DEF Lines, TimerTick, Fixed
<1>3. CASE TickIsr
  BY <1>1, <1>3, RingLeft, Zenon DEF Lines, TickIsr, Fixed
<1> QED BY <1>2, <1>3

(* The line is up only while a key waits, so the character read is the first *)
(* of the queue: a key, and one after all those read before.                 *)
LEMMA ReadsAKey ==
  ASSUME IInv, UartLine
  PROVE  /\ q # <<>> /\ Len(q) \in Nat \ {0}
         /\ PopChar = q[1] /\ PopChar \in 1 .. keys
         /\ \A k \in 1 .. Len(stored) : stored[k] < PopChar
<1> USE DEF IInv, TypeOK
<1>1. q # <<>>
  BY DEF Lines, UartLine
<1>2. Len(q) \in Nat \ {0} /\ Head(q) = q[1]
  BY <1>1 DEF Types
<1> QED BY <1>1, <1>2 DEF QueueAhead, PopChar

(* The queue without its first key. *)
LEMMA Popped ==
  ASSUME IInv, UartLine, PopQueue
  PROVE  /\ q' \in Seq(Nat) /\ Len(q') = Len(q) - 1
         /\ \A i \in 1 .. Len(q') : q'[i] = q[i + 1]
BY ReadsAKey DEF IInv, TypeOK, Types, PopQueue

LEMMA UartIsrDropsStep == IInv /\ UartIsrDrops /\ Fixed => IInv'
<1> SUFFICES ASSUME IInv, UartIsrDrops, Fixed PROVE IInv'
  OBVIOUS
<1> USE DEF IInv, TypeOK
<1>1. Types'
  BY Popped DEF Types, UartIsrDrops, ring
<1>2. Lines'
  BY Zenon DEF Lines, UartIsrDrops, Fixed
<1>3. QueueAhead'
  <2>1. UNCHANGED <<keys, stored>> /\ Len(q) \in Nat
    BY ReadsAKey DEF UartIsrDrops
  <2>2. \A i \in 1 .. Len(q') : i + 1 \in 1 .. Len(q) /\ q'[i] = q[i + 1]
    BY <2>1, Popped DEF UartIsrDrops
  <2> QED BY <2>1, <2>2 DEF QueueAhead
<1> QED BY <1>1, <1>2, <1>3, RingLeft DEF UartIsrDrops

(* uart_isr takes a key: the place it writes is none that the last round but *)
(* one still needs.                                                          *)
LEMMA UartIsrStoresStep == IInv /\ UartIsrStores /\ Fixed => IInv'
<1> SUFFICES ASSUME IInv, UartIsrStores, Fixed PROVE IInv'
  OBVIOUS
<1> USE UartAssumption DEF IInv, TypeOK
<1>1. /\ stored' = Append(stored, PopChar) /\ PopChar \in Nat \ {0} /\ PopChar = q[1]
      /\ \A k \in 1 .. Len(stored) : stored[k] < PopChar
      /\ Len(q) \in Nat \ {0} /\ PopChar \in 1 .. keys /\ keys' = keys
  BY ReadsAKey DEF UartIsrStores, Types
<1>2. /\ stored' \in Seq(Nat) /\ Len(stored') = Len(stored) + 1 /\ Len(stored) \in Nat
      /\ stored'[Len(stored) + 1] = PopChar
      /\ \A k \in 1 .. Len(stored) : stored'[k] = stored[k]
  BY <1>1 DEF Types
<1>3. \A k \in 1 .. Len(stored') : k \in 1 .. Len(stored) \/ k = Len(stored) + 1
  BY <1>2
<1>4. /\ uart_buffer_size' = uart_buffer_size + 1 /\ uart_buffer_size' \in Positions
      /\ uart_buffer_size' > 0
  <2>1. uart_buffer_size + 1 \in Positions /\ uart_buffer_size \in Nat
    BY DEF UartIsrStores, HasRoom, Types, Positions
  <2>2. (RING * 0 + (uart_buffer_size + 1)) % RING = uart_buffer_size + 1
    BY <2>1, Remainder
  <2> QED BY <2>1, <2>2 DEF UartIsrStores
<1>5. uart_buffer_wr_pos' = (Len(stored) + 1) % RING /\ uart_buffer_wr_pos' \in Positions
  BY <1>2, NextMod, Division DEF UartIsrStores, PositionsFollow
<1>6. Types'
  BY <1>1, <1>2, <1>4, <1>5, Popped DEF Types, UartIsrStores
<1>7. Lines'
  BY Zenon DEF Lines, UartIsrStores, Fixed
<1>8. Taking'
  BY <1>4 DEF Taking, UartIsrStores, Fixed, Types, Positions
<1>9. SizeAccounted'
  <2>1. UNCHANGED <<pc, lost, delivered>>
    BY DEF UartIsrStores
  <2>2. uart_buffer_size \in Nat /\ lost \in Nat /\ Len(delivered) \in Nat
    BY DEF Types, Positions
  <2> QED BY <1>2, <1>4, <2>1, <2>2 DEF SizeAccounted, Waiting
<1>10. PositionsFollow'
  BY <1>2, <1>5 DEF PositionsFollow, UartIsrStores
<1>11. LastRound'
  <2> SUFFICES ASSUME NEW j \in 1 .. Len(stored'), j + RING > Len(stored')
               PROVE  uart_buffer'[(j - 1) % RING] = stored'[j]
    BY DEF LastRound
  <2>1. /\ uart_buffer' = [uart_buffer EXCEPT ![Len(stored) % RING] = PopChar]
        /\ uart_buffer \in [Positions -> Nat]
    BY DEF UartIsrStores, PositionsFollow, Types
  <2>4. (j - 1) % RING \in Positions /\ Len(stored) % RING \in Positions
    <3>1. j - 1 \in Nat
      BY <1>2
    <3> QED BY <1>2, <3>1, Division
  <2>2. CASE j = Len(stored) + 1
    BY <1>2, <2>1, <2>2, <2>4
  <2>3. CASE j \in 1 .. Len(stored)
    <3>1. (j - 1) % RING # Len(stored) % RING
      <4> DEFINE a == j - 1
      <4>1. a \in Nat /\ a < Len(stored) /\ Len(stored) < a + RING
        BY <1>2, <2>3
      <4> HIDE DEF a
      <4>2. a % RING # Len(stored) % RING
        BY <1>2, <4>1, PlacesDiffer
      <4> QED BY <4>2 DEF a
    <3>2. uart_buffer[(j - 1) % RING] = stored[j]
      BY <1>2, <2>3 DEF LastRound
    <3> QED BY <1>2, <2>1, <2>3, <2>4, <3>1, <3>2
  <2> QED BY <1>3, <2>2, <2>3
<1>12. KeysInOrder'
  <2> SUFFICES ASSUME NEW k \in 1 .. Len(stored')
               PROVE  stored'[k] > 0 /\ (k > 1 => stored'[k] > stored'[k - 1])
    BY DEF KeysInOrder
  <2>1. CASE k = Len(stored) + 1
    <3>1. k > 1 => k - 1 \in 1 .. Len(stored) /\ stored'[k - 1] = stored[k - 1]
      BY <1>2, <2>1
    <3> QED BY <1>1, <1>2, <2>1, <3>1
  <2>2. CASE k \in 1 .. Len(stored)
    <3>1. stored'[k] = stored[k] /\ (k > 1 => stored'[k - 1] = stored[k - 1])
      <4>1. k > 1 => k - 1 \in 1 .. Len(stored)
        BY <1>2, <2>2
      <4> QED BY <1>2, <2>2, <4>1
    <3> QED BY <2>2, <3>1 DEF KeysInOrder
  <2> QED BY <1>3, <2>1, <2>2
<1>13. QueueAhead'
  <2>6. Len(q') = Len(q) - 1 /\ \A i \in 1 .. Len(q') : q'[i] = q[i + 1]
    BY Popped DEF UartIsrStores
  <2>7. \A i \in 1 .. Len(q') : i + 1 \in 1 .. Len(q) /\ 1 \in 1 .. Len(q) /\ 1 < i + 1
    BY <1>1, <2>6
  <2>1. \A i \in 1 .. Len(q') : i + 1 \in 1 .. Len(q) /\ q'[i] = q[i + 1] /\ q[1] < q'[i]
    BY <2>6, <2>7 DEF QueueAhead
  <2>2. \A i \in 1 .. Len(q') : q'[i] \in 1 .. keys
    BY <2>1 DEF QueueAhead
  <2>3. \A i, j \in 1 .. Len(q') : i < j => q'[i] < q'[j]
    <3>1. \A i, j \in 1 .. Len(q') : i < j => i + 1 < j + 1
      BY <2>1
    <3> QED BY <2>1, <2>6, <3>1 DEF QueueAhead
  <2>4. \A k \in 1 .. Len(stored') : stored'[k] \in 1 .. keys /\ stored'[k] <= PopChar
    BY <1>1, <1>2, <1>3 DEF QueueAhead
  <2>5. ASSUME NEW k \in 1 .. Len(stored'), NEW i \in 1 .. Len(q') PROVE stored'[k] < q'[i]
    <3>1. stored'[k] \in Nat /\ q'[i] \in Nat /\ PopChar \in Nat
      <4>1. keys \in Nat
        BY DEF Types
      <4> QED BY <1>1, <2>2, <2>4, <4>1
    <3> QED BY <1>1, <2>1, <2>4, <3>1
  <2> QED BY <1>1, <2>2, <2>3, <2>4, <2>5 DEF QueueAhead
<1>14. Fifo'
  <2>1. lost' = lost /\ delivered' = delivered /\ delivered \in Seq(Nat)
    BY DEF UartIsrStores, Types
  <2>2. lost = 0 => \A k \in DOMAIN delivered : k \in 1 .. Len(stored) /\ delivered[k] = stored[k]
    BY <1>2, <2>1, WaitingSmall DEF Fifo
  <2>3. Returned'
    BY <1>2, <2>1, <2>2 DEF Returned
  <2> QED BY <1>6, <1>7, <1>9, <1>10, <1>11, <2>3, FifoHoldsNext DEF RingInv
<1> QED BY <1>6, <1>7, <1>8, <1>9, <1>10, <1>11, <1>12, <1>13, <1>14
-----------------------------------------------------------------------------
(* getc returns the character at the read position: while no increment was   *)
(* lost, the oldest of those that wait.                                      *)
LEMMA Takes ==
  ASSUME IInv, Waiting > 0, stored' = stored, uart_buffer' = uart_buffer, lost' = lost,
         delivered' = Append(delivered, uart_buffer[uart_buffer_rd_pos]),
         uart_buffer_rd_pos' = NextPos(uart_buffer_rd_pos),
         uart_buffer_wr_pos' = uart_buffer_wr_pos
  PROVE  /\ delivered' \in Seq(Nat) /\ Waiting' = Waiting - 1
         /\ uart_buffer_rd_pos' \in Positions
         /\ PositionsFollow' /\ LastRound' /\ Returned'
<1> USE UartAssumption DEF IInv, TypeOK
<1> DEFINE taken == uart_buffer[uart_buffer_rd_pos]
<1>1. /\ Waiting \in Nat /\ Waiting = Len(stored) - Len(delivered)
      /\ Len(stored) \in Nat /\ Len(delivered) \in Nat /\ (lost = 0 => Waiting <= RING)
  BY WaitingSmall
<1>2. taken \in Nat
  BY DEF Types
<1>3. /\ delivered' \in Seq(Nat) /\ Len(delivered') = Len(delivered) + 1
      /\ delivered'[Len(delivered) + 1] = taken
      /\ \A k \in 1 .. Len(delivered) : delivered'[k] = delivered[k]
  BY <1>2 DEF Types
<1>4. Waiting' = Waiting - 1
  BY <1>1, <1>3 DEF Waiting
<1>5. uart_buffer_rd_pos' = Len(delivered') % RING /\ uart_buffer_rd_pos' \in Positions
  BY <1>1, <1>3, NextMod, Division DEF PositionsFollow
<1>6. PositionsFollow'
  BY <1>5 DEF PositionsFollow
<1>7. LastRound'
  BY DEF LastRound
<1>8. Returned'
  <2> SUFFICES ASSUME lost = 0, NEW k \in DOMAIN delivered' PROVE delivered'[k] = stored[k]
    BY DEF Returned
  <2>1. DOMAIN delivered' = 1 .. Len(delivered) + 1 /\ DOMAIN delivered = 1 .. Len(delivered)
    BY <1>3 DEF Types
  <2>2. CASE k \in 1 .. Len(delivered)
    BY <1>3, <2>1, <2>2 DEF Fifo
  <2>3. CASE k = Len(delivered) + 1
    <3>1. 1 \in 1 .. Waiting /\ Waiting <= RING
      BY <1>1
    <3>2. uart_buffer[(uart_buffer_rd_pos + 1 - 1) % RING] = stored[Len(delivered) + 1]
      BY <3>1, WaitingInRing
    <3>3. (uart_buffer_rd_pos + 1 - 1) % RING = uart_buffer_rd_pos
      <4>1. uart_buffer_rd_pos \in Positions
        BY DEF Types
      <4>2. (RING * 0 + uart_buffer_rd_pos) % RING = uart_buffer_rd_pos
        BY <4>1, Remainder
      <4>3. RING * 0 + uart_buffer_rd_pos = uart_buffer_rd_pos + 1 - 1
        BY <4>1 DEF Positions
      <4> QED BY <4>2, <4>3
    <3> QED BY <1>3, <2>3, <3>2, <3>3
  <2> QED BY <1>1, <2>1, <2>2, <2>3
<1> QED BY <1>3, <1>4, <1>5, <1>6, <1>7, <1>8

(* A step of getc leaves the lines, the queue and what uart_isr stored alone. *)
LEMMA LinesLeft ==
  ASSUME IInv, UNCHANGED <<q, irq, tick, keys, stored>>, Fixed
  PROVE  Lines' /\ QueueAhead' /\ KeysInOrder'
<1>1. Lines'
  BY Zenon DEF IInv, TypeOK, Lines, Fixed
<1> QED BY <1>1, QueueLeft

LEMMA SysGetcharStep == IInv /\ SysGetchar /\ Fixed => IInv'
<1> SUFFICES ASSUME IInv, SysGetchar, Fixed PROVE IInv'
  OBVIOUS
<1> USE UartAssumption
<1>1. /\ uart_buffer_size \in Nat /\ lost \in Nat /\ pc = "idle"
      /\ Waiting = uart_buffer_size + lost
  BY DEF IInv, TypeOK, Types, Positions, Taking, SysGetchar, SizeAccounted
<1>2. Waiting > 0 /\ uart_buffer_size' = uart_buffer_size - 1
  BY <1>1 DEF SysGetchar
<1>3. /\ delivered' \in Seq(Nat) /\ Waiting' = Waiting - 1
      /\ uart_buffer_rd_pos' \in Positions
      /\ PositionsFollow' /\ LastRound' /\ Returned'
  BY <1>2, Takes DEF SysGetchar
<1>4. Types'
  BY <1>1, <1>2, <1>3 DEF IInv, TypeOK, Types, SysGetchar, Positions
<1>5. Taking'
  BY <1>1 DEF Taking, SysGetchar, Fixed
<1>6. SizeAccounted'
  BY <1>1, <1>2, <1>3 DEF SizeAccounted, SysGetchar
<1>7. Lines' /\ QueueAhead' /\ KeysInOrder'
  BY LinesLeft DEF SysGetchar
<1>8. Fifo'
  BY <1>3, <1>4, <1>6, <1>7, FifoHoldsNext DEF RingInv, TypeOK
<1> QED BY <1>3, <1>4, <1>5, <1>6, <1>7, <1>8 DEF IInv, TypeOK

(* Testing and loading the size. *)
LEMMA GetcLooksStep == IInv /\ (GetcTest \/ GetcLoad) /\ Fixed => IInv'
<1> SUFFICES ASSUME IInv, GetcTest \/ GetcLoad, Fixed PROVE IInv'
  OBVIOUS
<1> USE UartAssumption DEF GetcTest, GetcLoad, ring
<1>1. UNCHANGED <<q, irq, tick, uart_buffer, uart_buffer_size, uart_buffer_rd_pos,
                  uart_buffer_wr_pos, keys, stored, delivered, lost>>
  OBVIOUS
<1>2. Types' /\ Taking' /\ SizeAccounted'
  <2>1. Types /\ uart_buffer_size \in Nat
    BY DEF IInv, TypeOK, Types, Positions
  <2>2. Types'
    BY <1>1, <2>1 DEF Types
  <2>3. Taking'
    BY <1>1, <2>1 DEF IInv, Taking, Fixed
  <2>4. SizeAccounted'
    BY <1>1 DEF IInv, SizeAccounted, Waiting
  <2> QED BY <2>2, <2>3, <2>4
<1>3. Lines' /\ QueueAhead' /\ KeysInOrder'
  BY <1>1, LinesLeft
<1>4. PositionsFollow' /\ LastRound' /\ Fifo'
  BY <1>1 DEF IInv, PositionsFollow, LastRound, Fifo, Waiting
<1> QED BY <1>2, <1>3, <1>4 DEF IInv, TypeOK

(* The store of the size that was loaded: what uart_isr added since is lost. *)
LEMMA GetcStoreStep == IInv /\ GetcStore /\ Fixed => IInv'
<1> SUFFICES ASSUME IInv, GetcStore, Fixed PROVE IInv'
  OBVIOUS
<1> USE UartAssumption
<1>1. UNCHANGED <<q, irq, tick, uart_buffer, uart_buffer_rd_pos, uart_buffer_wr_pos, keys,
                  stored, delivered>> /\ pc = "store" /\ pc' = "take" /\ tmp' = 0
  BY DEF GetcStore
<1>2. /\ uart_buffer_size \in Positions /\ tmp \in Positions /\ lost \in Nat
      /\ tmp > 0 /\ tmp <= uart_buffer_size
  BY <1>1 DEF IInv, TypeOK, Types, Taking
<1>3. uart_buffer_size' = tmp - 1
  <2>1. tmp - 1 \in Positions
    BY <1>2 DEF Positions
  <2>2. (RING * 1 + (tmp - 1)) % RING = tmp - 1
    BY <2>1, Remainder
  <2>3. RING * 1 + (tmp - 1) = tmp + RING - 1
    BY <1>2 DEF Positions
  <2> QED BY <2>2, <2>3 DEF GetcStore
<1>4. lost' = lost + (uart_buffer_size - tmp)
  <2>1. uart_buffer_size - tmp \in Positions
    BY <1>2 DEF Positions
  <2>2. (RING * 1 + (uart_buffer_size - tmp)) % RING = uart_buffer_size - tmp
    BY <2>1, Remainder
  <2>3. RING * 1 + (uart_buffer_size - tmp) = uart_buffer_size + RING - tmp
    BY <1>2 DEF Positions
  <2> QED BY <2>2, <2>3 DEF GetcStore
<1>5. Types'
  BY <1>1, <1>2, <1>3, <1>4 DEF IInv, TypeOK, Types, Positions
<1>6. Taking'
  BY <1>1 DEF IInv, Taking, Fixed
<1>7. SizeAccounted'
  BY <1>1, <1>2, <1>3, <1>4 DEF IInv, SizeAccounted, Waiting, Positions
<1>8. Lines' /\ QueueAhead' /\ KeysInOrder'
  BY <1>1, LinesLeft
<1>9. PositionsFollow' /\ LastRound'
  BY <1>1 DEF IInv, PositionsFollow, LastRound
<1>10. Returned'
  BY <1>1, <1>2, <1>4 DEF IInv, Fifo, Returned, Positions
<1>11. Fifo'
  BY <1>5, <1>7, <1>8, <1>9, <1>10, FifoHoldsNext DEF RingInv, TypeOK
<1> QED BY <1>5, <1>6, <1>7, <1>8, <1>9, <1>11 DEF IInv, TypeOK

LEMMA GetcTakeStep == IInv /\ GetcTake /\ Fixed => IInv'
<1> SUFFICES ASSUME IInv, GetcTake, Fixed PROVE IInv'
  OBVIOUS
<1> USE UartAssumption
<1>1. /\ uart_buffer_size \in Nat /\ lost \in Nat /\ pc = "take" /\ pc' = "idle"
      /\ Waiting = uart_buffer_size + lost + 1
  BY DEF IInv, TypeOK, Types, Positions, GetcTake, SizeAccounted
<1>2. Waiting > 0
  BY <1>1
<1>3. /\ delivered' \in Seq(Nat) /\ Waiting' = Waiting - 1
      /\ uart_buffer_rd_pos' \in Positions
      /\ PositionsFollow' /\ LastRound' /\ Returned'
  BY <1>2, Takes DEF GetcTake
<1>4. Types'
  BY <1>1, <1>3 DEF IInv, TypeOK, Types, GetcTake
<1>5. Taking'
  BY <1>1 DEF Taking
<1>6. SizeAccounted'
  BY <1>1, <1>3 DEF SizeAccounted, GetcTake
<1>7. Lines' /\ QueueAhead' /\ KeysInOrder'
  BY LinesLeft DEF GetcTake
<1>8. Fifo'
  BY <1>3, <1>4, <1>6, <1>7, FifoHoldsNext DEF RingInv, TypeOK
<1> QED BY <1>3, <1>4, <1>5, <1>6, <1>7, <1>8 DEF IInv, TypeOK
-----------------------------------------------------------------------------
LEMMA StutterStep == IInv /\ UNCHANGED vars => IInv'
<1> SUFFICES ASSUME IInv, UNCHANGED vars PROVE IInv'
  OBVIOUS
<1>1. Types' /\ Lines'
  BY DEF vars, ring, IInv, TypeOK, Types, Lines
<1> QED BY <1>1, RingLeft, QueueLeft DEF vars, ring, Fixed, IInv, TypeOK

LEMMA NextIInv == IInv /\ [Next]_vars => IInv'
BY KeyStep, LinesStep, UartIsrStoresStep, UartIsrDropsStep, SysGetcharStep, GetcLooksStep,
   GetcStoreStep, GetcTakeStep, StutterStep
   DEF Next, UartIsr, Getc, Fixed

(* Every state of the ring, whatever the keyboard, the timer, the interrupt  *)
(* line and getc do in whatever order.                                       *)
THEOREM InductiveInvariant == Spec => []IInv
<1> QED BY InitIInv, NextIInv, PTL DEF Spec

(* klib.c:10: what the size falls short of the characters in the ring is     *)
(* what uart_buffer_size-- overwrote, however uart_isr interrupts it.        *)
THEOREM SizeIsAccounted == Spec => []SizeAccounted
<1>1. IInv => SizeAccounted
  BY DEF IInv
<1> QED BY <1>1, InductiveInvariant, PTL

(* uart.c:19 and klib.c:8-15: first in, first out, for every RING.           *)
THEOREM RingIsFifo == Spec => []Fifo
<1>1. IInv => Fifo
  BY DEF IInv
<1> QED BY <1>1, InductiveInvariant, PTL

(* The ring holds the keys, none of them 0, in the order they were pressed.  *)
THEOREM KeysStayInOrder == Spec => []KeysInOrder
<1>1. IInv => KeysInOrder
  BY DEF IInv
<1> QED BY <1>1, InductiveInvariant, PTL
=============================================================================
