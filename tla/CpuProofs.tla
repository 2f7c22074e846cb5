------------------------------- MODULE CpuProofs -------------------------------
(***************************************************************************)
(* Proofs about Cpu, for every program of a user, every set of missing     *)
(* pages and any number of instructions, ticks and keys: between two       *)
(* instructions a program finds its registers and its memory as it left    *)
(* them (StateKept), and with paging off only handlers are fetched         *)
(* (OnlyHandlersUnpaged).                                                  *)
(*                                                                         *)
(* Between two instructions the machine may be anywhere in the entry into  *)
(* the kernel, in a handler or in a return.  The invariant says, for each  *)
(* of the 15 microsteps of the entry and the 12 or 14 of the returns,      *)
(* where each register of the program is before it; the lemmas Enter1 to   *)
(* Enter15 and Leave1 to LeaveFault carry that over one microstep each.    *)
(* A fault in the middle of an instruction suspends the claim until the    *)
(* instruction is done: then the registers are what it left.               *)
(***************************************************************************)
EXTENDS Cpu, SequenceTheorems, TLAPS

(***************************************************************************)
(* Words and bytes.                                                        *)
(***************************************************************************)
LEMMA Division ==
  ASSUME NEW v \in Int, NEW d \in Nat \ {0}
  PROVE  /\ v \div d \in Int /\ v % d \in Int
         /\ 0 <= v % d /\ v % d < d
         /\ v = (v \div d) * d + (v % d)
  OBVIOUS

(* A range of integers by its bounds.                                        *)
LEMMA UpTo ==
  ASSUME NEW n \in Int, NEW m \in Int, m = n + 1
  PROVE  \A v : v \in 0 .. n <=> v \in Int /\ 0 <= v /\ v < m
  OBVIOUS

(* Bytes, words and bits as integers within bounds.                          *)
LEMMA Ranges ==
  /\ \A b : b \in Bytes <=> b \in Int /\ 0 <= b /\ b < 256
  /\ \A w : w \in Words <=> w \in Int /\ 0 <= w /\ w < 65536
  /\ \A b : b \in Bits <=> b = 0 \/ b = 1
<1> DEFINE First(n) == 0 .. n
           Below(S, m) == \A v : v \in S <=> v \in Int /\ 0 <= v /\ v < m
<1>1. \A n, m \in Int : m = n + 1 => Below(First(n), m)
  BY UpTo
<1>2. Bytes = First(255)
  BY DEF Bytes
<1>3. Words = First(65535)
  BY DEF Words
<1>4. Bits = First(1)
  BY DEF Bits
<1> HIDE DEF Below, First
<1>5. Below(First(255), 256) /\ Below(First(65535), 65536) /\ Below(First(1), 2)
  BY <1>1
<1>6. Below(Bytes, 256) /\ Below(Words, 65536) /\ Below(Bits, 2)
  BY <1>2, <1>3, <1>4, <1>5
<1> QED BY <1>6 DEF Below

(* A word is put together of its two bytes,                                  *)
LEMMA Split ==
  ASSUME NEW h \in Int, NEW l \in Bytes
  PROVE  HighByte(256 * h + l) = h /\ LowByte(256 * h + l) = l
<1> DEFINE v == 256 * h + l
           q == v \div 256
           r == v % 256
<1>0. l \in Int /\ 0 <= l /\ l < 256
  BY Ranges
<1>1. q \in Int /\ r \in Int /\ 0 <= r /\ r < 256 /\ v = q * 256 + r
  BY <1>0, Division
<1> HIDE DEF q, r
<1>2. q = h /\ r = l
  BY <1>0, <1>1
<1> QED BY <1>2 DEF HighByte, LowByte, q, r

(* and taken apart into them.                                                *)
LEMMA WordParts ==
  ASSUME NEW w \in Words
  PROVE  /\ LowByte(w) \in Bytes /\ HighByte(w) \in Bytes
         /\ w = 256 * HighByte(w) + LowByte(w)
<1> DEFINE q == w \div 256
           r == w % 256
<1>0. w \in Int /\ 0 <= w /\ w < 65536
  BY Ranges
<1>1. q \in Int /\ r \in Int /\ 0 <= r /\ r < 256 /\ w = q * 256 + r
  BY <1>0, Division
<1> HIDE DEF q, r
<1>2. 0 <= q /\ q < 256
  BY <1>0, <1>1
<1>3. q \in Bytes /\ r \in Bytes
  BY <1>1, <1>2, Ranges
<1> QED BY <1>1, <1>3 DEF HighByte, LowByte, q, r

(* What the latches of half a word leave in either half.                     *)
LEMMA SetParts ==
  ASSUME NEW w \in Words, NEW b \in Bytes
  PROVE  /\ SetLow(w, b) \in Words /\ SetHigh(w, b) \in Words
         /\ LowByte(SetLow(w, b)) = b /\ HighByte(SetLow(w, b)) = HighByte(w)
         /\ HighByte(SetHigh(w, b)) = b /\ LowByte(SetHigh(w, b)) = LowByte(w)
<1>1. LowByte(w) \in Bytes /\ HighByte(w) \in Bytes
  BY WordParts
<1> DEFINE h == HighByte(w)
           l == LowByte(w)
<1>2. /\ b \in Int /\ 0 <= b /\ b < 256
      /\ h \in Int /\ 0 <= h /\ h < 256
      /\ l \in Int /\ 0 <= l /\ l < 256
  BY <1>1, Ranges
<1>3. h \in Int /\ b \in Int /\ l \in Bytes
  BY <1>1, <1>2
<1> HIDE DEF h, l
<1>4. /\ HighByte(256 * h + b) = h /\ LowByte(256 * h + b) = b
      /\ HighByte(256 * b + l) = b /\ LowByte(256 * b + l) = l
  BY <1>3, Split, ZenonT(60)
<1>5. /\ 256 * h + b \in Int /\ 0 <= 256 * h + b /\ 256 * h + b < 65536
      /\ 256 * b + l \in Int /\ 0 <= 256 * b + l /\ 256 * b + l < 65536
  BY <1>2
<1>6. 256 * h + b \in Words /\ 256 * b + l \in Words
  BY <1>5, Ranges
<1> QED BY <1>4, <1>6 DEF SetLow, SetHigh, h, l

(* Words with the same halves are the same.                                  *)
LEMMA SameParts ==
  ASSUME NEW v \in Words, NEW w \in Words,
         LowByte(v) = LowByte(w), HighByte(v) = HighByte(w)
  PROVE  v = w
  BY WordParts

(* The counters and pointers wrap within a word.                             *)
LEMMA PlusWords ==
  ASSUME NEW w \in Words, NEW n \in Nat
  PROVE  Plus(w, n) \in Words
<1>1. w + n \in Int /\ 65536 \in Nat \ {0}
  BY Ranges
<1>2. /\ (w + n) % 65536 \in Int /\ 0 <= (w + n) % 65536
      /\ (w + n) % 65536 < 65536
  BY <1>1, Division
<1> QED BY <1>2, Ranges DEF Plus

(* A quotient modulo 2 is a bit.                                             *)
LEMMA BitOf ==
  ASSUME NEW v \in Int, NEW d \in Nat \ {0}
  PROVE  (v \div d) % 2 \in Bits
<1> DEFINE q == v \div d
<1>1. q \in Int
  BY Division
<1> HIDE DEF q
<1>2. q % 2 \in Int /\ 0 <= q % 2 /\ q % 2 < 2
  BY <1>1, Division
<1> QED BY <1>2, Ranges DEF q

(* The bits of a number.                                                     *)
LEMMA BitsAre ==
  ASSUME NEW v \in Int
  PROVE  /\ Bit(v, 0) \in Bits /\ Bit(v, 1) \in Bits /\ Bit(v, 2) \in Bits /\ Bit(v, 3) \in Bits
         /\ Bit(v, 4) \in Bits /\ Bit(v, 5) \in Bits /\ Bit(v, 6) \in Bits /\ Bit(v, 7) \in Bits
         /\ Bit(v, 8) \in Bits
<1>1. 2^0 = 1 /\ 2^1 = 2 /\ 2^2 = 4 /\ 2^3 = 8 /\ 2^4 = 16 /\ 2^5 = 32 /\ 2^6 = 64
      /\ 2^7 = 128 /\ 2^8 = 256
  OBVIOUS
<1> DEFINE Good(d) == (v \div d) % 2 \in Bits
<1>2. \A d \in Nat \ {0} : Good(d)
  BY BitOf
<1> HIDE DEF Good
<1>3. /\ Good(1) /\ Good(2) /\ Good(4) /\ Good(8) /\ Good(16)
      /\ Good(32) /\ Good(64) /\ Good(128) /\ Good(256)
  BY <1>2
<1> QED BY <1>1, <1>3 DEF Good, Bit

(***************************************************************************)
(* The types of the datapath.                                              *)
(***************************************************************************)
(* A memory, and the registers.                                              *)
Memory == UNION {[D -> Bytes] : D \in SUBSET Words}
Datapath ==
  [A : Bytes, B : Bytes, F : Bytes, IR : Bytes, Off : Bytes, la : Bytes, lb : Bytes,
   M : Words, S : Words, PC : Words, X : Words, user : Memory, kernel : Memory,
   lines : SUBSET {0, 1, 3}, inten : BOOLEAN, paging : BOOLEAN, bkIR : Bytes, bkOff : Bytes]

(* A memory maps words to bytes.                                             *)
LEMMA MemoryIs ==
  ASSUME NEW m \in Memory
  PROVE  DOMAIN m \in SUBSET Words /\ \A a \in DOMAIN m : m[a] \in Bytes
  BY DEF Memory

(* Every cell of it holds a byte.                                            *)
LEMMA StoredByte ==
  ASSUME NEW m \in Memory, NEW a
  PROVE  Stored(m, a) \in Bytes
  BY MemoryIs, CpuAssumption DEF Stored

(* A store changes one cell.                                                 *)
LEMMA StoreMemory ==
  ASSUME NEW m \in Memory, NEW a \in Words, NEW b \in Bytes
  PROVE  /\ Store(m, a, b) \in Memory
         /\ DOMAIN Store(m, a, b) = DOMAIN m \cup {a}
         /\ \A x : Stored(Store(m, a, b), x) = IF x = a THEN b ELSE Stored(m, x)
<1>1. PICK D \in SUBSET Words : m \in [D -> Bytes]
  BY DEF Memory
<1>2. Store(m, a, b) = [x \in D \cup {a} |-> IF x = a THEN b ELSE m[x]]
  <2>1. CASE a \in D
    <3>1. Store(m, a, b) = [m EXCEPT ![a] = b] /\ D \cup {a} = D
      BY <1>1, <2>1 DEF Store
    <3> QED BY <1>1, <2>1, <3>1
  <2>2. CASE a \notin D
    BY <1>1, <2>2 DEF Store
  <2> QED BY <2>1, <2>2
<1>3. Store(m, a, b) \in [D \cup {a} -> Bytes]
  BY <1>1, <1>2
<1>4. D \cup {a} \in SUBSET Words
  OBVIOUS
<1>5. Store(m, a, b) \in Memory
  BY <1>3, <1>4 DEF Memory
<1> QED BY <1>1, <1>2, <1>5 DEF Stored

(* What the arithmetic unit gives. *)
LEMMA LogicInt ==
  ASSUME NEW a \in Int, NEW b \in Int
  PROVE  BitOr(a, b) \in Int /\ BitXor(a, b) \in Int /\ BitAnd(a, b) \in Int
<1>1. \A i \in {0, 1, 2, 3, 4, 5, 6, 7} : Bit(a, i) \in Bits /\ Bit(b, i) \in Bits
  BY BitsAre
<1>2. \A i \in {0, 1, 2, 3, 4, 5, 6, 7} : i \in 0 .. 7
  OBVIOUS
<1>3. \A x, y \in Bits : x \in Int /\ x * y \in Int /\ (x + y) % 2 \in Int
  BY DEF Bits
<1>4. ASSUME NEW f, \A i \in {0, 1, 2, 3, 4, 5, 6, 7} : f[i] \in Int
      PROVE  BitSum(f) \in Int
  BY <1>4 DEF BitSum
<1>5. BitOr(a, b) \in Int
  BY <1>1, <1>2, <1>4 DEF BitOr
<1>6. BitXor(a, b) \in Int
  BY <1>1, <1>2, <1>3, <1>4 DEF BitXor
<1>7. BitAnd(a, b) \in Int
  BY <1>1, <1>2, <1>3, <1>4 DEF BitAnd
<1> QED BY <1>5, <1>6, <1>7

(* and so do the others.                                                     *)
LEMMA RawInt ==
  ASSUME NEW cmd \in {0, 1, 2, 3, 4, 5, 6, 7, 8, 9, 10, 11, 12, 13, 14, 15},
         NEW carry \in Bits, NEW a \in Bytes, NEW b \in Bytes
  PROVE  Raw(cmd, carry, a, b) \in Int
<1>1. a \in Int /\ b \in Int /\ carry \in Int
  BY Ranges
<1>2. a \div 2 \in Int /\ a % 2 \in Int
  BY <1>1, Division
<1>3. Negated(cmd, carry, b) \in Int
  <2>1. 65536 - b - (IF cmd = sbc THEN carry ELSE 0) \in Int
    BY <1>1
  <2> QED BY <2>1, Division DEF Negated
<1>4. (a + Negated(cmd, carry, b)) % 65536 \in Int
  <2>1. a + Negated(cmd, carry, b) \in Int
    BY <1>1, <1>3
  <2> QED BY <2>1, Division
<1>5. BitOr(a, b) \in Int /\ BitXor(a, b) \in Int /\ BitAnd(a, b) \in Int
  BY <1>1, LogicInt
<1> QED
  BY <1>1, <1>2, <1>4, <1>5
  DEF Raw, add, adc, sub, sbc, neg, not, shl, shlc, shr, shrc, OrCmds, XorCmds, AndCmds

(* The byte and the flags of the unit.                                       *)
LEMMA UnitGives ==
  ASSUME NEW ir \in Bytes, NEW f \in Bytes, NEW a \in Bytes, NEW b \in Bytes
  PROVE  /\ Result(ir % 16, f % 2, a, b) \in Bytes
         /\ FlagByte(NextFlags(ir % 16, FlagsOf(f), a, b)) \in Bytes
<1> DEFINE cmd == ir % 16
<1>0. ir \in Int /\ f \in Int
  BY Ranges
<1>1. cmd \in {0, 1, 2, 3, 4, 5, 6, 7, 8, 9, 10, 11, 12, 13, 14, 15}
  <2>1. cmd \in Int /\ 0 <= cmd /\ cmd < 16
    BY <1>0, Division
  <2> HIDE DEF cmd
  <2> QED BY <2>1
<1> HIDE DEF cmd
<1>2. \A carry \in Bits : /\ Raw(cmd, carry, a, b) \in Int
                         /\ Result(cmd, carry, a, b) \in Bytes
  <2> TAKE carry \in Bits
  <2>1. Raw(cmd, carry, a, b) \in Int
    BY <1>1, RawInt
  <2>2. /\ Raw(cmd, carry, a, b) % 256 \in Int
        /\ 0 <= Raw(cmd, carry, a, b) % 256 /\ Raw(cmd, carry, a, b) % 256 < 256
    BY <2>1, Division
  <2> QED BY <2>1, <2>2, Ranges DEF Result
<1>3. f % 2 \in Bits
  <2>1. f % 2 \in Int /\ 0 <= f % 2 /\ f % 2 < 2
    BY <1>0, Division
  <2> QED BY <2>1, Ranges
<1>4. FlagsOf(f) \in Flags
  BY <1>0, BitsAre DEF FlagsOf, Flags
<1>5. ResultFlags(cmd, FlagsOf(f).c, a, b) \in Flags
  <2>1. FlagsOf(f).c \in Bits
    BY <1>4 DEF Flags
  <2>2. Raw(cmd, FlagsOf(f).c, a, b) \in Int
    BY <1>2, <2>1
  <2>3. /\ Bit(Raw(cmd, FlagsOf(f).c, a, b), 8) \in Bits
        /\ Sign(Raw(cmd, FlagsOf(f).c, a, b)) \in Bits
    BY <2>2, BitsAre DEF Sign
  <2>4. 0 \in Bits /\ 1 \in Bits
    BY Ranges
  <2> QED BY <2>3, <2>4 DEF ResultFlags, Flags
<1>6. NextFlags(cmd, FlagsOf(f), a, b) \in Flags
  <2>1. \A x, y \in Bits : x * y \in Bits
    BY Ranges
  <2> HIDE DEF cmd
  <2> QED BY <1>4, <1>5, <2>1 DEF NextFlags, Flags
<1>7. \A g \in Flags : FlagByte(g) \in Bytes
  <2> TAKE g \in Flags
  <2>1. /\ g.c = 0 \/ g.c = 1
        /\ g.z = 0 \/ g.z = 1
        /\ g.s = 0 \/ g.s = 1
        /\ g.o = 0 \/ g.o = 1
    BY Ranges DEF Flags
  <2>2. FlagByte(g) \in Int /\ 0 <= FlagByte(g) /\ FlagByte(g) < 256
    BY <2>1 DEF FlagByte
  <2> QED BY <2>2, Ranges
<1> QED BY <1>2, <1>3, <1>6, <1>7 DEF cmd

(* The vector of the lowest line: 0 for a fault, 16 or 48 for an interrupt.  *)
LEMMA VectorIs ==
  ASSUME NEW lines \in SUBSET {0, 1, 3}
  PROVE  /\ Vector(lines) \in Bytes
         /\ 0 \in lines => Vector(lines) = 0
         /\ 0 \notin lines /\ lines # {} => Vector(lines) \in {16, 48}
<1>1. CASE lines = {}
  BY <1>1, Ranges DEF Vector
<1>2. CASE lines # {}
  <2> DEFINE least == CHOOSE l \in lines : \A k \in lines : l <= k
  <2>1. \E l \in lines : \A k \in lines : l <= k
    <3>1. CASE 0 \in lines
      BY <3>1
    <3>2. CASE 0 \notin lines /\ 1 \in lines
      BY <3>2
    <3>3. CASE 0 \notin lines /\ 1 \notin lines
      <4>1. lines = {3}
        BY <1>2, <3>3
      <4> QED BY <4>1
    <3> QED BY <3>1, <3>2, <3>3
  <2>2. least \in lines /\ \A k \in lines : least <= k
    BY <2>1
  <2>3. Vector(lines) = 16 * least
    BY <1>2 DEF Vector
  <2> HIDE DEF least
  <2>4. least \in {0, 1, 3}
    BY <2>2
  <2>5. 0 \in lines => least = 0
    BY <2>2, <2>4
  <2>6. 0 \notin lines => least \in {1, 3}
    BY <2>2, <2>4
  <2> QED BY <1>2, <2>3, <2>4, <2>5, <2>6, Ranges
<1> QED BY <1>1, <1>2

(* The constants of the processor in decimal.                                *)
LEMMA Hexes ==
  /\ \hFFBD = 65469 /\ \hFFBE = 65470 /\ \hFFBF = 65471
  /\ \hFF00 = 65280 /\ \hFF10 = 65296 /\ \hFF30 = 65328 /\ \hFF40 = 65344
  /\ int = 255 /\ iret = 15 /\ iretf = 47 /\ di = 1 /\ cpy = 4 /\ scall = 31
  BY DEF int, iret, iretf, di, cpy, scall

(* The address of a field wraps within a word.                               *)
LEMMA FieldWord ==
  ASSUME NEW d \in Datapath
  PROVE  FieldAddress(d) \in Words
<1>1. d.M \in Words /\ d.Off \in Int /\ 0 <= d.Off
  BY Ranges DEF Datapath
<1>2. d.Off + (IF Sign(d.Off) = 1 THEN 65280 ELSE 0) \in Nat
  BY <1>1
<1> QED BY <1>1, <1>2, PlusWords DEF FieldAddress

(* The address bus carries a word,                                           *)
LEMMA AddressWord ==
  ASSUME NEW d \in Datapath, NEW step
  PROVE  Address(d, step) \in Words
<1> DEFINE field == FieldAddress(d)
<1>1. field \in Words
  BY FieldWord
<1> HIDE DEF field
<1>2. field % 2 = 0 => field + 1 \in Words
  <2>1. field \in Int /\ 0 <= field /\ field < 65536
    BY <1>1, Ranges
  <2>2. 65535 % 2 = 1
    OBVIOUS
  <2>3. field % 2 = 0 => field # 65535
    BY <2>2
  <2> QED BY <2>1, <2>3, Ranges
<1>3. d.PC \in Words /\ d.S \in Words /\ d.X \in Words
  BY DEF Datapath
<1>4. \hFFBD \in Words /\ \hFFBE \in Words /\ \hFFBF \in Words /\ 0 \in Words
  BY Hexes, Ranges
<1>5. "mf_a" \in step =>
        (IF "sel_high" \in step /\ field % 2 = 0 THEN field + 1 ELSE field) \in Words
  BY <1>1, <1>2
<1> QED BY <1>3, <1>4, <1>5 DEF Address, field

(* the data bus a byte.                                                      *)
LEMMA BusByte ==
  ASSUME NEW d \in Datapath, NEW step, NEW a
  PROVE  DataBus(d, step, a) \in Bytes
<1>1. /\ d.A \in Bytes /\ d.B \in Bytes /\ d.F \in Bytes /\ d.IR \in Bytes
      /\ d.la \in Bytes /\ d.lb \in Bytes
      /\ d.S \in Words /\ d.M \in Words /\ d.X \in Words
      /\ d.user \in Memory /\ d.kernel \in Memory
      /\ d.lines \in SUBSET {0, 1, 3}
  BY DEF Datapath
<1>2. Read(d, a) \in Bytes
  BY <1>1, StoredByte DEF Read
<1>3. /\ LowByte(d.S) \in Bytes /\ LowByte(d.M) \in Bytes /\ LowByte(d.X) \in Bytes
      /\ HighByte(d.S) \in Bytes /\ HighByte(d.M) \in Bytes /\ HighByte(d.X) \in Bytes
  BY <1>1, WordParts
<1>4. /\ Result(d.IR % 16, d.F % 2, d.la, d.lb) \in Bytes
      /\ FlagByte(NextFlags(d.IR % 16, FlagsOf(d.F), d.la, d.lb)) \in Bytes
  BY <1>1, UnitGives
<1>5. Vector(d.lines) \in Bytes /\ 0 \in Bytes
  BY <1>1, VectorIs, Ranges
<1> QED BY <1>1, <1>2, <1>3, <1>4, <1>5 DEF DataBus

(* A microstep leaves the datapath well typed, whatever it raises.           *)
LEMMA PerformTypes ==
  ASSUME NEW d \in Datapath, NEW step
  PROVE  Perform(d, step) \in Datapath
<1> DEFINE e == IF "sel_a" \in step THEN [d EXCEPT !.paging = FALSE] ELSE d
           a == Address(e, step)
           b == DataBus(e, step, a)
<1>1. e \in Datapath
  BY DEF Datapath
<1>2. a \in Words /\ b \in Bytes
  BY <1>1, AddressWord, BusByte
<1> DEFINE x == IF "xl_i" \in step THEN SetLow(e.X, b)
                ELSE IF "xh_i" \in step THEN SetHigh(e.X, b) ELSE e.X
           m == IF "ml_i" \in step THEN SetLow(e.M, b)
                ELSE IF "mh_i" \in step THEN SetHigh(e.M, b) ELSE e.M
           s == IF "sl_i" \in step THEN SetLow(e.S, b)
                ELSE IF "sh_i" \in step THEN SetHigh(e.S, b) ELSE e.S
           pc == Plus(e.PC, IF "pc++" \in step THEN 1 ELSE 0)
           switch == "pc_switch" \in step /\ Condition(e.IR % 16, FlagsOf(e.F))
           restore == "load_fault" \in step
<1> HIDE DEF e, a, b
<1>3. e.X \in Words /\ e.M \in Words /\ e.S \in Words /\ e.PC \in Words
  BY <1>1 DEF Datapath
<1>4. x \in Words /\ m \in Words /\ s \in Words
  BY <1>2, <1>3, SetParts
<1>5. /\ pc \in Words /\ Plus(e.S, 1) \in Words /\ Plus(e.S, 65535) \in Words
      /\ 0 \in Words
  <2>1. (IF "pc++" \in step THEN 1 ELSE 0) \in Nat /\ 1 \in Nat /\ 65535 \in Nat
    OBVIOUS
  <2>2. Plus(e.S, 1) \in Words /\ Plus(e.S, 65535) \in Words
    BY <1>3, <2>1, PlusWords
  <2>3. pc \in Words
    BY <1>3, <2>1, PlusWords
  <2> QED BY <2>2, <2>3, Ranges
<1>6. /\ Store(e.user, a, b) \in Memory
      /\ Store(e.kernel, a, b) \in Memory
  <2>1. e.user \in Memory /\ e.kernel \in Memory
    BY <1>1 DEF Datapath
  <2> QED BY <1>2, <2>1, StoreMemory
<1> DEFINE
      nA == IF "a_i" \in step THEN b ELSE e.A
      nB == IF "b_i" \in step THEN b ELSE e.B
      nF == IF "f_i" \in step THEN b ELSE e.F
      nIR == IF "ir_i" \in step THEN (IF restore THEN e.bkIR ELSE b) ELSE e.IR
      nOff == IF "off_i" \in step THEN (IF restore THEN e.bkOff ELSE b) ELSE e.Off
      nS == IF "s_rst" \in step THEN 0
            ELSE IF "sl++" \in step THEN Plus(e.S, 1)
            ELSE IF "sl--" \in step THEN Plus(e.S, 65535)
            ELSE s
      nPC == IF switch THEN x ELSE pc
      nX == IF switch THEN pc ELSE x
      nla == IF "alu_l" \in step THEN e.A ELSE e.la
      nlb == IF "alu_l" \in step THEN e.B ELSE e.lb
      nuser == IF "mwrite" \in step /\ e.paging THEN Store(e.user, a, b) ELSE e.user
      nkernel == IF "mwrite" \in step /\ ~ e.paging THEN Store(e.kernel, a, b) ELSE e.kernel
      nlines == IF "iv_o" \in step THEN {} ELSE e.lines
      ninten == IF "iv_o" \in step THEN FALSE ELSE "ei" \in step \/ e.inten
      npaging == "ei" \in step \/ e.paging
<1>7. Perform(d, step) =
        [e EXCEPT !.A = nA, !.B = nB, !.F = nF, !.IR = nIR, !.Off = nOff, !.M = m, !.S = nS,
                  !.PC = nPC, !.X = nX, !.la = nla, !.lb = nlb, !.user = nuser,
                  !.kernel = nkernel, !.lines = nlines, !.inten = ninten, !.paging = npaging]
  BY DEF Perform, e, a, b
<1> HIDE DEF x, m, s, pc, switch, restore
<1>8. npaging \in BOOLEAN /\ ninten \in BOOLEAN /\ nlines \in SUBSET {0, 1, 3}
  BY <1>1 DEF Datapath
<1> HIDE DEF Memory
<1>9. /\ nA \in Bytes /\ nB \in Bytes /\ nF \in Bytes /\ nIR \in Bytes /\ nOff \in Bytes
      /\ nla \in Bytes /\ nlb \in Bytes
  BY <1>1, <1>2 DEF Datapath
<1>10. /\ nS \in Words /\ nPC \in Words /\ nX \in Words
       /\ nuser \in Memory /\ nkernel \in Memory
  BY <1>1, <1>4, <1>5, <1>6 DEF Datapath
<1> HIDE DEF nA, nB, nF, nIR, nOff, nS, nPC, nX, nla, nlb, nuser, nkernel, nlines, ninten, npaging
<1>11. ASSUME NEW f \in Datapath
       PROVE  [f EXCEPT !.A = nA, !.B = nB, !.F = nF, !.IR = nIR, !.Off = nOff] \in Datapath
  BY <1>4, <1>8, <1>9, <1>10 DEF Datapath
<1>12. ASSUME NEW f \in Datapath
       PROVE  [f EXCEPT !.M = m, !.S = nS, !.PC = nPC, !.X = nX,
                   !.la = nla, !.lb = nlb] \in Datapath
  BY <1>4, <1>8, <1>9, <1>10 DEF Datapath
<1>13. ASSUME NEW f \in Datapath
       PROVE  [f EXCEPT !.user = nuser, !.kernel = nkernel, !.lines = nlines, !.inten = ninten,
                        !.paging = npaging] \in Datapath
  BY <1>4, <1>8, <1>9, <1>10 DEF Datapath
<1>14. PICK f1 \in Datapath : f1 = [e EXCEPT !.A = nA, !.B = nB, !.F = nF, !.IR = nIR, !.Off = nOff]
  BY <1>1, <1>11
<1>15. PICK f2 \in Datapath :
         f2 = [f1 EXCEPT !.M = m, !.S = nS, !.PC = nPC, !.X = nX, !.la = nla, !.lb = nlb]
  BY <1>12
<1>16. PICK f3 \in Datapath :
         f3 = [f2 EXCEPT !.user = nuser, !.kernel = nkernel, !.lines = nlines,
                         !.inten = ninten, !.paging = npaging]
  BY <1>13
<1>17. f3 = [e EXCEPT !.A = nA, !.B = nB, !.F = nF, !.IR = nIR, !.Off = nOff, !.M = m, !.S = nS,
                  !.PC = nPC, !.X = nX, !.la = nla, !.lb = nlb, !.user = nuser,
                  !.kernel = nkernel, !.lines = nlines, !.inten = ninten, !.paging = npaging]
  BY <1>14, <1>15, <1>16
<1> QED BY <1>7, <1>16, <1>17

(* What the bus carries, and what is left in each register. *)
Unpaged(d, step) == IF "sel_a" \in step THEN [d EXCEPT !.paging = FALSE] ELSE d
Bus(d, step) == DataBus(Unpaged(d, step), step, Address(Unpaged(d, step), step))
Where(d, step) == Address(Unpaged(d, step), step)

(* With paging off where sel_a is raised.                                    *)
Cleared(d, step, e) ==
  /\ e \in Datapath
  /\ e.A = d.A /\ e.B = d.B /\ e.F = d.F /\ e.IR = d.IR /\ e.Off = d.Off
  /\ e.la = d.la /\ e.lb = d.lb /\ e.M = d.M /\ e.S = d.S /\ e.PC = d.PC /\ e.X = d.X
  /\ e.user = d.user /\ e.kernel = d.kernel /\ e.lines = d.lines /\ e.inten = d.inten
  /\ e.bkIR = d.bkIR /\ e.bkOff = d.bkOff
  /\ e.paging = IF "sel_a" \in step THEN FALSE ELSE d.paging

(* sel_a takes paging off and changes nothing else.                          *)
LEMMA UnpagedFields ==
  ASSUME NEW d \in Datapath, NEW step
  PROVE  Cleared(d, step, Unpaged(d, step))
  BY DEF Cleared, Unpaged, Datapath

(* What a microstep leaves, where b is on the bus and a the address.         *)
Leaves(d, step, b, a, r) ==
  LET x == IF "xl_i" \in step THEN SetLow(d.X, b)
           ELSE IF "xh_i" \in step THEN SetHigh(d.X, b) ELSE d.X
      pc == Plus(d.PC, IF "pc++" \in step THEN 1 ELSE 0)
      switch == "pc_switch" \in step /\ Condition(d.IR % 16, FlagsOf(d.F))
  IN  /\ r.A = IF "a_i" \in step THEN b ELSE d.A
      /\ r.B = IF "b_i" \in step THEN b ELSE d.B
      /\ r.F = IF "f_i" \in step THEN b ELSE d.F
      /\ r.IR = IF "ir_i" \in step THEN (IF "load_fault" \in step THEN d.bkIR ELSE b) ELSE d.IR
      /\ r.Off = IF "off_i" \in step THEN (IF "load_fault" \in step THEN d.bkOff ELSE b) ELSE d.Off
      /\ r.la = IF "alu_l" \in step THEN d.A ELSE d.la
      /\ r.lb = IF "alu_l" \in step THEN d.B ELSE d.lb
      /\ r.M = IF "ml_i" \in step THEN SetLow(d.M, b)
               ELSE IF "mh_i" \in step THEN SetHigh(d.M, b) ELSE d.M
      /\ r.S = IF "s_rst" \in step THEN 0
               ELSE IF "sl++" \in step THEN Plus(d.S, 1)
               ELSE IF "sl--" \in step THEN Plus(d.S, 65535)
               ELSE IF "sl_i" \in step THEN SetLow(d.S, b)
               ELSE IF "sh_i" \in step THEN SetHigh(d.S, b) ELSE d.S
      /\ r.PC = IF switch THEN x ELSE pc
      /\ r.X = IF switch THEN pc ELSE x
      /\ r.user = IF "mwrite" \in step /\ d.paging /\ "sel_a" \notin step
                  THEN Store(d.user, a, b) ELSE d.user
      /\ r.kernel = IF "mwrite" \in step /\ ~ (d.paging /\ "sel_a" \notin step)
                    THEN Store(d.kernel, a, b) ELSE d.kernel
      /\ r.lines = IF "iv_o" \in step THEN {} ELSE d.lines
      /\ r.inten = IF "iv_o" \in step THEN FALSE ELSE IF "ei" \in step THEN TRUE ELSE d.inten
      /\ r.paging = IF "ei" \in step THEN TRUE ELSE IF "sel_a" \in step THEN FALSE ELSE d.paging
      /\ r.bkIR = d.bkIR /\ r.bkOff = d.bkOff

(* The registers after a microstep, one by one.                              *)
LEMMA PerformLeaves ==
  ASSUME NEW d \in Datapath, NEW step
  PROVE  Leaves(d, step, Bus(d, step), Where(d, step), Perform(d, step))
<1> DEFINE e == Unpaged(d, step)
           a == Address(e, step)
           b == DataBus(e, step, a)
           r == Perform(d, step)
           x == IF "xl_i" \in step THEN SetLow(e.X, b)
                ELSE IF "xh_i" \in step THEN SetHigh(e.X, b) ELSE e.X
           pc == Plus(e.PC, IF "pc++" \in step THEN 1 ELSE 0)
           switch == "pc_switch" \in step /\ Condition(e.IR % 16, FlagsOf(e.F))
           restore == "load_fault" \in step
           word(w, low, high) ==
             IF low \in step THEN SetLow(w, b) ELSE IF high \in step THEN SetHigh(w, b) ELSE w
<1>1. r =
        [e EXCEPT
          !.A   = IF "a_i" \in step THEN b ELSE @,
          !.B   = IF "b_i" \in step THEN b ELSE @,
          !.F   = IF "f_i" \in step THEN b ELSE @,
          !.IR  = IF "ir_i" \in step THEN (IF restore THEN e.bkIR ELSE b) ELSE @,
          !.Off = IF "off_i" \in step THEN (IF restore THEN e.bkOff ELSE b) ELSE @,
          !.M   = word(@, "ml_i", "mh_i"),
          !.S   = IF "s_rst" \in step THEN 0
                  ELSE IF "sl++" \in step THEN Plus(@, 1)
                  ELSE IF "sl--" \in step THEN Plus(@, 65535)
                  ELSE word(@, "sl_i", "sh_i"),
          !.PC  = IF switch THEN x ELSE pc,
          !.X   = IF switch THEN pc ELSE x,
          !.la  = IF "alu_l" \in step THEN e.A ELSE @,
          !.lb  = IF "alu_l" \in step THEN e.B ELSE @,
          !.user   = IF "mwrite" \in step /\ e.paging THEN Store(@, a, b) ELSE @,
          !.kernel = IF "mwrite" \in step /\ ~ e.paging THEN Store(@, a, b) ELSE @,
          !.lines  = IF "iv_o" \in step THEN {} ELSE @,
          !.inten  = IF "iv_o" \in step THEN FALSE ELSE "ei" \in step \/ @,
          !.paging = "ei" \in step \/ @]
  BY DEF Perform, Unpaged
<1>0. Cleared(d, step, e)
  BY UnpagedFields
<1>2. /\ e \in Datapath
      /\ e.A = d.A /\ e.B = d.B /\ e.F = d.F /\ e.IR = d.IR /\ e.Off = d.Off
      /\ e.la = d.la /\ e.lb = d.lb /\ e.M = d.M /\ e.S = d.S /\ e.PC = d.PC /\ e.X = d.X
      /\ e.user = d.user /\ e.kernel = d.kernel /\ e.lines = d.lines /\ e.inten = d.inten
      /\ e.bkIR = d.bkIR /\ e.bkOff = d.bkOff
      /\ e.paging = IF "sel_a" \in step THEN FALSE ELSE d.paging
  BY <1>0 DEF Cleared
<1>3. DOMAIN e = {"A", "B", "F", "IR", "Off", "la", "lb", "M", "S", "PC", "X", "user", "kernel",
                  "lines", "inten", "paging", "bkIR", "bkOff"}
  BY <1>2 DEF Datapath
<1>4. b = Bus(d, step) /\ a = Where(d, step)
  BY DEF Bus, Where
<1> HIDE DEF e, a, b, r
<1>5. /\ r.A = IF "a_i" \in step THEN b ELSE e.A
      /\ r.B = IF "b_i" \in step THEN b ELSE e.B
      /\ r.F = IF "f_i" \in step THEN b ELSE e.F
      /\ r.IR = IF "ir_i" \in step THEN (IF restore THEN e.bkIR ELSE b) ELSE e.IR
      /\ r.Off = IF "off_i" \in step THEN (IF restore THEN e.bkOff ELSE b) ELSE e.Off
      /\ r.M = word(e.M, "ml_i", "mh_i")
      /\ r.S = IF "s_rst" \in step THEN 0
               ELSE IF "sl++" \in step THEN Plus(e.S, 1)
               ELSE IF "sl--" \in step THEN Plus(e.S, 65535)
               ELSE word(e.S, "sl_i", "sh_i")
  BY <1>1, <1>3
<1>6. /\ r.PC = IF switch THEN x ELSE pc
      /\ r.X = IF switch THEN pc ELSE x
      /\ r.la = IF "alu_l" \in step THEN e.A ELSE e.la
      /\ r.lb = IF "alu_l" \in step THEN e.B ELSE e.lb
  BY <1>1, <1>3
<1>7. /\ r.user = IF "mwrite" \in step /\ e.paging THEN Store(e.user, a, b) ELSE e.user
      /\ r.kernel = IF "mwrite" \in step /\ ~ e.paging THEN Store(e.kernel, a, b) ELSE e.kernel
      /\ r.lines = IF "iv_o" \in step THEN {} ELSE e.lines
      /\ r.inten = (IF "iv_o" \in step THEN FALSE ELSE "ei" \in step \/ e.inten)
      /\ r.paging = ("ei" \in step \/ e.paging)
      /\ r.bkIR = e.bkIR /\ r.bkOff = e.bkOff
  BY <1>1, <1>3
<1>8. /\ r.A = IF "a_i" \in step THEN b ELSE d.A
      /\ r.B = IF "b_i" \in step THEN b ELSE d.B
      /\ r.F = IF "f_i" \in step THEN b ELSE d.F
      /\ r.IR = IF "ir_i" \in step THEN (IF "load_fault" \in step THEN d.bkIR ELSE b) ELSE d.IR
      /\ r.Off = IF "off_i" \in step THEN (IF "load_fault" \in step THEN d.bkOff ELSE b) ELSE d.Off
      /\ r.la = IF "alu_l" \in step THEN d.A ELSE d.la
      /\ r.lb = IF "alu_l" \in step THEN d.B ELSE d.lb
  BY <1>2, <1>5, <1>6
<1>9. /\ r.M = IF "ml_i" \in step THEN SetLow(d.M, b)
               ELSE IF "mh_i" \in step THEN SetHigh(d.M, b) ELSE d.M
      /\ r.S = IF "s_rst" \in step THEN 0
               ELSE IF "sl++" \in step THEN Plus(d.S, 1)
               ELSE IF "sl--" \in step THEN Plus(d.S, 65535)
               ELSE IF "sl_i" \in step THEN SetLow(d.S, b)
               ELSE IF "sh_i" \in step THEN SetHigh(d.S, b) ELSE d.S
  BY <1>2, <1>5
<1> DEFINE dx == IF "xl_i" \in step THEN SetLow(d.X, b)
                 ELSE IF "xh_i" \in step THEN SetHigh(d.X, b) ELSE d.X
           dpc == Plus(d.PC, IF "pc++" \in step THEN 1 ELSE 0)
           dswitch == "pc_switch" \in step /\ Condition(d.IR % 16, FlagsOf(d.F))
<1>10. x = dx /\ pc = dpc /\ (switch <=> dswitch)
  BY <1>2
<1> HIDE DEF x, pc, switch
<1>11. /\ r.PC = IF dswitch THEN dx ELSE dpc
       /\ r.X = IF dswitch THEN dpc ELSE dx
  BY <1>6, <1>10
<1>12. /\ r.user = IF "mwrite" \in step /\ d.paging /\ "sel_a" \notin step
                   THEN Store(d.user, a, b) ELSE d.user
       /\ r.kernel = IF "mwrite" \in step /\ ~ (d.paging /\ "sel_a" \notin step)
                     THEN Store(d.kernel, a, b) ELSE d.kernel
       /\ r.lines = IF "iv_o" \in step THEN {} ELSE d.lines
       /\ r.bkIR = d.bkIR /\ r.bkOff = d.bkOff
  BY <1>2, <1>7
<1>14. /\ r.inten = IF "iv_o" \in step THEN FALSE ELSE IF "ei" \in step THEN TRUE ELSE d.inten
       /\ r.paging = IF "ei" \in step THEN TRUE ELSE IF "sel_a" \in step THEN FALSE ELSE d.paging
  <2>1. d.inten \in BOOLEAN /\ d.paging \in BOOLEAN
    BY DEF Datapath
  <2> QED BY <1>2, <1>7, <2>1
<1>13. Leaves(d, step, b, a, r)
  BY <1>8, <1>9, <1>11, <1>12, <1>14 DEF Leaves
<1> QED BY <1>4, <1>13 DEF r

(***************************************************************************)
(* The instructions of a program are quiet: no microstep takes paging off, *)
(* loads the instruction register, looks at the lines or at the backup.    *)
(***************************************************************************)
(* The signals the instructions of a program raise.                          *)
Signals == {"pc_a", "s_a", "x_a", "mf_a", "sel_high", "mread", "mwrite", "a_o", "b_o", "f_o",
            "sl_o", "sh_o", "ml_o", "mh_o", "xl_o", "xh_o", "alu_d", "aluf_d", "a_i", "b_i",
            "f_i", "off_i", "sl_i", "sh_i", "ml_i", "mh_i", "xl_i", "xh_i", "sl++", "sl--",
            "pc++", "pc_switch", "alu_l", "ei"}
Quiet == Seq(SUBSET Signals)

(* Quiet pieces make a quiet microprogram.                                   *)
LEMMA Chained ==
  \A p, q \in Quiet : p \o q \in Quiet
BY DEF Quiet

(* The pieces the microprograms are made of are quiet,                       *)
LEMMA Pieces ==
  /\ Next1 \in Quiet
  /\ \A to \in Signals : /\ Operand(to) \in Quiet /\ FromA(to) \in Quiet /\ ToA(to) \in Quiet
  /\ \A to, from \in Signals : ThroughA(from, to) \in Quiet /\ Operand16(from, to) \in Quiet
  /\ LoadField \in Quiet /\ StoreField \in Quiet /\ PushA \in Quiet /\ PopA \in Quiet
<1>1. Next1 \in Quiet
  BY DEF Next1, Quiet, Signals
<1>2. ASSUME NEW to \in Signals
      PROVE  Operand(to) \in Quiet /\ FromA(to) \in Quiet /\ ToA(to) \in Quiet
  <2>1. {"pc++"} \in SUBSET Signals /\ {"pc_a", "mread", to} \in SUBSET Signals
    BY DEF Signals
  <2>2. {"a_o", to} \in SUBSET Signals /\ {to, "a_i"} \in SUBSET Signals
    BY DEF Signals
  <2>3. Operand(to) \in Quiet
    BY <2>1 DEF Operand, Quiet
  <2>4. FromA(to) \in Quiet /\ ToA(to) \in Quiet
    BY <2>2 DEF FromA, ToA, Quiet
  <2> QED BY <2>3, <2>4
<1>3. "a_i" \in Signals /\ "off_i" \in Signals
  BY DEF Signals
<1>4. ASSUME NEW to \in Signals, NEW from \in Signals
      PROVE  ThroughA(from, to) \in Quiet /\ Operand16(from, to) \in Quiet
  <2>1. ThroughA(from, to) \in Quiet
    BY <1>2, Chained DEF ThroughA
  <2>2. /\ Operand("a_i") \in Quiet /\ FromA(from) \in Quiet
        /\ Operand("a_i") \in Quiet /\ FromA(to) \in Quiet
    BY <1>2, <1>3
  <2>3. Operand16(from, to) \in Quiet
    BY <2>2, Chained DEF Operand16
  <2> QED BY <2>1, <2>3
<1>5. LoadField \in Quiet /\ StoreField \in Quiet
  <2>1. <<{"mf_a", "mread", "a_i"}>> \in Quiet /\ <<{"mf_a", "a_o", "mwrite"}>> \in Quiet
    BY DEF Quiet, Signals
  <2> QED BY <1>2, <1>3, <2>1, Chained DEF LoadField, StoreField
<1>6. PushA \in Quiet /\ PopA \in Quiet
  <2>1. /\ {"s_a", "a_o", "mwrite"} \in SUBSET Signals /\ {"sl--"} \in SUBSET Signals
        /\ {"s_a", "mread", "a_i"} \in SUBSET Signals /\ {"sl++"} \in SUBSET Signals
    BY DEF Signals
  <2> QED BY <2>1 DEF PushA, PopA, Quiet
<1> QED BY <1>1, <1>2, <1>4, <1>5, <1>6

(* and so are those of 0xdX,                                                 *)
LEMMA StoresQuiet ==
  ASSUME NEW low PROVE StoreProgram(low) \in Quiet
<1>1. /\ {"b_i", "sl_i", "sh_i", "ml_i", "mh_i", "xl_i", "xh_i", "f_i", "off_i", "a_i"}
           \subseteq Signals
      /\ \A i \in Moves : Latch[i] \in {"sl_i", "sh_i", "ml_i", "mh_i", "xl_i", "xh_i", "f_i"}
  BY DEF Signals, Latch, Moves
<1>2. /\ <<{"x_a", "a_o", "mwrite"}>> \in Quiet /\ <<{"mf_a", "a_o", "mwrite"}>> \in Quiet
      /\ <<>> \in Quiet
  BY DEF Quiet, Signals
<1>3. /\ FromA("b_i") \o Next1 \in Quiet
      /\ low \in Moves => FromA(Latch[low]) \o Next1 \in Quiet
  BY <1>1, Pieces, Chained
<1>4. /\ StoreField \o Next1 \in Quiet /\ PushA \o Next1 \in Quiet
      /\ <<{"x_a", "a_o", "mwrite"}>> \o Next1 \in Quiet
  BY <1>2, Pieces, Chained
<1>5. /\ Operand16("sl_i", "sh_i") \o Next1 \in Quiet
      /\ Operand16("ml_i", "mh_i") \o Next1 \in Quiet
      /\ Operand16("xl_i", "xh_i") \o Next1 \in Quiet
  BY <1>1, Pieces, Chained
<1>6. Operand("off_i") \o Operand("a_i") \o <<{"mf_a", "a_o", "mwrite"}>> \o Next1 \in Quiet
  BY <1>1, <1>2, Pieces, Chained
<1> QED BY <1>2, <1>3, <1>4, <1>5, <1>6 DEF StoreProgram

(* of 0xeX,                                                                  *)
LEMMA LoadsQuiet ==
  ASSUME NEW low PROVE LoadProgram(low) \in Quiet
<1>1. /\ {"b_o", "sl_o", "sh_o", "ml_o", "mh_o", "xl_o", "xh_o", "f_o", "off_i", "a_i",
          "sl_i", "sh_i", "ml_i", "mh_i"} \subseteq Signals
      /\ \A i \in Moves : Drive[i] \in {"sl_o", "sh_o", "ml_o", "mh_o", "xl_o", "xh_o", "f_o"}
  BY DEF Signals, Drive, Moves
<1>2. <<{"x_a", "mread", "a_i"}>> \in Quiet /\ <<>> \in Quiet
  BY DEF Quiet, Signals
<1>3. /\ ToA("b_o") \o Next1 \in Quiet
      /\ low \in Moves => ToA(Drive[low]) \o Next1 \in Quiet
  BY <1>1, Pieces, Chained
<1>4. /\ LoadField \o Next1 \in Quiet /\ PopA \o Next1 \in Quiet
      /\ <<{"x_a", "mread", "a_i"}>> \o Next1 \in Quiet
      /\ Operand("a_i") \o Next1 \in Quiet
  BY <1>1, <1>2, Pieces, Chained
<1>5. /\ ThroughA("ml_o", "sl_i") \o ThroughA("mh_o", "sh_i") \o Next1 \in Quiet
      /\ ThroughA("sl_o", "ml_i") \o ThroughA("sh_o", "mh_i") \o Next1 \in Quiet
  BY <1>1, Pieces, Chained
<1> QED BY <1>2, <1>3, <1>4, <1>5 DEF LoadProgram

(* of 0xfX but for the interrupt,                                            *)
LEMMA StacksQuiet ==
  ASSUME NEW low, low # 15 PROVE StackProgram(low) \in Quiet
<1>1. {"xl_o", "xh_o", "ml_o", "mh_o", "xl_i", "xh_i", "ml_i", "mh_i", "off_i", "a_i"}
        \subseteq Signals
  BY DEF Signals
<1>2. /\ <<{"mf_a", "a_o", "mwrite"}>> \in Quiet
      /\ <<{"mf_a", "sel_high", "mread", "a_i"}>> \in Quiet
      /\ <<>> \in Quiet
  BY DEF Quiet, Signals
<1>3. /\ <<{"pc_a", "mread", "off_i"}, {"mf_a", "sel_high", "a_o", "mwrite"}>> \in Quiet
      /\ <<{"pc_a", "mread", "off_i"}, {"mf_a", "mread", "a_i"}>> \in Quiet
  BY DEF Quiet, Signals
<1>4. \A n \in {2, 8}, s \in {{"sl++"}, {"sl--"}} : Times(n, s) \in Quiet
  <2> TAKE n \in {2, 8}, s \in {{"sl++"}, {"sl--"}}
  <2>1. s \in SUBSET Signals /\ n \in Nat
    BY DEF Signals
  <2>2. [i \in 1 .. n |-> s] \in Seq(SUBSET Signals)
    BY <2>1
  <2> QED BY <2>2 DEF Times, Quiet
<1>5. ToA("xl_o") \o PushA \o ToA("xh_o") \o PushA
        \o ToA("ml_o") \o PushA \o ToA("mh_o") \o PushA \o Next1 \in Quiet
  BY <1>1, Pieces, Chained
<1>6. PopA \o FromA("mh_i") \o PopA \o FromA("ml_i")
        \o PopA \o FromA("xh_i") \o PopA \o FromA("xl_i") \o Next1 \in Quiet
  BY <1>1, Pieces, Chained
<1>7. /\ Times(2, {"sl++"}) \o Next1 \in Quiet /\ Times(8, {"sl++"}) \o Next1 \in Quiet
      /\ Times(2, {"sl--"}) \o Next1 \in Quiet /\ Times(8, {"sl--"}) \o Next1 \in Quiet
  BY <1>4, Pieces, Chained
<1>8. /\ LoadField \o PushA \o Next1 \in Quiet /\ PopA \o StoreField \o Next1 \in Quiet
      /\ LoadField \o StoreField \o Next1 \in Quiet
  BY Pieces, Chained
<1>9. Operand("off_i") \o <<{"mf_a", "sel_high", "mread", "a_i"}>> \o PushA
        \o <<{"pc_a", "mread", "off_i"}, {"mf_a", "mread", "a_i"}>> \o PushA \o Next1 \in Quiet
  BY <1>1, <1>2, <1>3, Pieces, Chained
<1>10. PopWord \o Next1 \in Quiet
  BY <1>1, <1>2, <1>3, Pieces, Chained DEF PopWord
<1>11. LoadField \o FromA("xl_i") \o <<{"mf_a", "sel_high", "mread", "a_i"}>> \o FromA("xh_i")
         \o Next1 \in Quiet
  BY <1>1, <1>2, Pieces, Chained
<1> QED BY <1>2, <1>5, <1>6, <1>7, <1>8, <1>9, <1>10, <1>11 DEF StackProgram

(* Of the instructions of a program no microstep takes paging off, loads the *)
(* instruction register, looks at the interrupt lines or at the backup.      *)
LEMMA RunsQuietly ==
  ASSUME NEW op \in Runs PROVE Program(op) \in Quiet
<1>1. op \in Bytes /\ op \notin {di, cpy, scall, iret, iretf, int}
  BY DEF Runs
<1>2. ~ (op \div 16 = 15 /\ op % 16 = 15)
  <2>1. op \in Int
    BY <1>1, Ranges
  <2>2. op = (op \div 16) * 16 + (op % 16)
    BY <2>1, Division, 16 \in Nat \ {0}
  <2> QED BY <1>1, <2>1, <2>2, Hexes
<1>3. Next1 \o <<{"pc_switch"}>> \in Quiet
  <2>1. <<{"pc_switch"}>> \in Quiet
    BY DEF Quiet, Signals
  <2> QED BY <2>1, Pieces, Chained
<1>4. ThreeAddress \in Quiet
  <2>1. <<{"mf_a", "mread", "b_i"}, {"pc++"}, {"alu_l"},
          {"pc_a", "mread", "off_i"}, {"alu_d", "a_i"}, {"aluf_d", "f_i"},
          {"mf_a", "a_o", "mwrite"}>> \in Quiet
    BY DEF Quiet, Signals
  <2>2. "off_i" \in Signals
    BY DEF Signals
  <2> QED BY <2>1, <2>2, Pieces, Chained DEF ThreeAddress
<1>5. <<{"alu_d", "a_i"}, {"aluf_d", "f_i"}>> \o Next1 \in Quiet
  <2>1. <<{"alu_d", "a_i"}, {"aluf_d", "f_i"}>> \in Quiet
    BY DEF Quiet, Signals
  <2> QED BY <2>1, Pieces, Chained
<1>6. ControlProgram(op) \in Quiet
  <2>1. op # \h01 /\ op # \h04 /\ op # \h0F /\ op # \h1F /\ op # \h2F
    BY <1>1 DEF di, cpy, iret, scall, iretf
  <2>2. <<{"ei"}>> \in Quiet /\ <<>> \in Quiet
        /\ <<{"pc_switch"}, {"pc++"}, {"pc_switch"}, {"pc++"}>> \in Quiet
    BY DEF Quiet, Signals
  <2>3. <<{"ei"}>> \o Next1 \in Quiet
    BY <2>2, Pieces, Chained
  <2> QED BY <2>1, <2>2, <2>3, Pieces DEF ControlProgram
<1>7. op \div 16 = 15 => StackProgram(op % 16) \in Quiet
  BY <1>2, StacksQuiet
<1>8. /\ StoreProgram(op % 16) \in Quiet /\ LoadProgram(op % 16) \in Quiet
  BY StoresQuiet, LoadsQuiet
<1> QED BY <1>3, <1>4, <1>5, <1>6, <1>7, <1>8 DEF Program

(* No microstep of an instruction of a program raises one of the four.       *)
LEMMA QuietSteps ==
  ASSUME NEW op \in Runs, NEW i \in 1 .. Len(Program(op))
  PROVE  /\ "ir_i" \notin Program(op)[i] /\ "iv_o" \notin Program(op)[i]
         /\ "sel_a" \notin Program(op)[i] /\ "load_fault" \notin Program(op)[i]
<1>1. Program(op)[i] \in SUBSET Signals
  BY RunsQuietly DEF Quiet
<1> QED BY <1>1 DEF Signals

(* An instruction of a program has microsteps, and is no return or interrupt. *)
LEMMA RunsHaveSteps ==
  ASSUME NEW op \in Runs
  PROVE  /\ Len(Program(op)) \in Nat /\ Len(Program(op)) >= 1
         /\ op \in Bytes /\ op \notin {iret, iretf, int}
  BY RunsQuietly DEF Runs, Quiet

(***************************************************************************)
(* The microsteps of the entry and of the returns: what each leaves in the *)
(* registers the invariant speaks of.                                      *)
(***************************************************************************)
(* The registers of the invariant after a microstep.                         *)
Does(d, r, A, S, PC, X, kernel, lines, inten, paging) ==
  /\ r.B = d.B /\ r.F = d.F /\ r.M = d.M /\ r.user = d.user
  /\ r.IR = d.IR /\ r.bkIR = d.bkIR
  /\ r.A = A /\ r.S = S /\ r.PC = PC /\ r.X = X
  /\ r.kernel = kernel /\ r.lines = lines /\ r.inten = inten /\ r.paging = paging
(* The program counter that does not count stays.                            *)
LEMMA Stays ==
  ASSUME NEW d \in Datapath
  PROVE  Plus(d.PC, 0) = d.PC /\ d.paging \in BOOLEAN /\ d.inten \in BOOLEAN
<1>1. d.PC \in Int /\ 0 <= d.PC /\ d.PC < 65536
  BY Ranges DEF Datapath
<1> DEFINE pc == d.PC
           q == pc \div 65536
           r == pc % 65536
<1> HIDE DEF pc
<1>2. q \in Int /\ r \in Int /\ 0 <= r /\ r < 65536 /\ pc = q * 65536 + r
  BY <1>1, Division DEF pc
<1> HIDE DEF q, r
<1>3. r = pc
  BY <1>1, <1>2 DEF pc
<1>4. pc + 0 = pc
  BY <1>1 DEF pc
<1> QED BY <1>3, <1>4 DEF Plus, Datapath, r, pc

(* Where the entry into the kernel keeps S, A and the program counter.       *)
HighCell == \hFFBD
LowCell  == \hFFBE
ACell    == \hFFBF
TopCell   == 65535
UnderCell == 65534

(* pc_switch changes PC and X over.                                          *)
LEMMA Switches ==
  ASSUME NEW d \in Datapath, (d.IR % 16) = 15
  PROVE  Does(d, Perform(d, {"pc_switch"}),
              d.A, d.S, d.X, d.PC,
              d.kernel, d.lines, d.inten, d.paging)
<1> DEFINE step == {"pc_switch"}
           r == Perform(d, step)
<1>1. Leaves(d, step, Bus(d, step), Where(d, step), r)
  BY PerformLeaves
<1>2. Condition(d.IR % 16, FlagsOf(d.F))
  BY DEF Condition
<1> HIDE DEF r
<1>3. r.kernel = d.kernel
  BY <1>1, <1>2 DEF Leaves
<1>4. r.inten = d.inten /\ r.paging = d.paging
  BY <1>1 DEF Leaves
<1>5. /\ r.B = d.B /\ r.F = d.F /\ r.M = d.M /\ r.user = d.user
      /\ r.IR = d.IR /\ r.bkIR = d.bkIR
      /\ r.A = d.A /\ r.S = d.S /\ r.lines = d.lines
  BY <1>1, <1>2 DEF Leaves
<1>6. r.PC = d.X /\ r.X = d.PC
  BY <1>1, <1>2, Stays DEF Leaves
<1> QED BY <1>3, <1>4, <1>5, <1>6 DEF Does, r

(* The low byte of S goes to its cell,                                       *)
LEMMA KeepsLowS ==
  ASSUME NEW d \in Datapath
  PROVE  Does(d, Perform(d, {"sel_a", "reg2", "sl_o", "mwrite"}),
              d.A, d.S, d.PC, d.X,
              Store(d.kernel, LowCell, LowByte(d.S)), d.lines, d.inten, FALSE)
<1> DEFINE step == {"sel_a", "reg2", "sl_o", "mwrite"}
           r == Perform(d, step)
<1>1. Leaves(d, step, Bus(d, step), Where(d, step), r)
  BY PerformLeaves
<1>2. Where(d, step) = LowCell
  BY DEF Where, Address, Unpaged, Datapath, LowCell, HighCell, ACell
<1>3. Bus(d, step) = LowByte(d.S)
  BY DEF Bus, DataBus, Unpaged, Datapath
<1> HIDE DEF r
<1>4. r.kernel = Store(d.kernel, LowCell, LowByte(d.S))
  BY <1>1, <1>2, <1>3 DEF Leaves
<1>5. r.inten = d.inten /\ r.paging = FALSE
  BY <1>1 DEF Leaves
<1>6. /\ r.B = d.B /\ r.F = d.F /\ r.M = d.M /\ r.user = d.user
      /\ r.IR = d.IR /\ r.bkIR = d.bkIR
      /\ r.A = d.A /\ r.S = d.S /\ r.lines = d.lines
  BY <1>1, <1>2, <1>3 DEF Leaves
<1>7. r.PC = d.PC /\ r.X = d.X
  BY <1>1, <1>2, <1>3, Stays DEF Leaves
<1> QED BY <1>4, <1>5, <1>6, <1>7 DEF Does, r

(* the high one to its own,                                                  *)
LEMMA KeepsHighS ==
  ASSUME NEW d \in Datapath
  PROVE  Does(d, Perform(d, {"sel_a", "reg1", "sh_o", "mwrite"}),
              d.A, d.S, d.PC, d.X,
              Store(d.kernel, HighCell, HighByte(d.S)), d.lines, d.inten, FALSE)
<1> DEFINE step == {"sel_a", "reg1", "sh_o", "mwrite"}
           r == Perform(d, step)
<1>1. Leaves(d, step, Bus(d, step), Where(d, step), r)
  BY PerformLeaves
<1>2. Where(d, step) = HighCell
  BY DEF Where, Address, Unpaged, Datapath, LowCell, HighCell, ACell
<1>3. Bus(d, step) = HighByte(d.S)
  BY DEF Bus, DataBus, Unpaged, Datapath
<1> HIDE DEF r
<1>4. r.kernel = Store(d.kernel, HighCell, HighByte(d.S))
  BY <1>1, <1>2, <1>3 DEF Leaves
<1>5. r.inten = d.inten /\ r.paging = FALSE
  BY <1>1 DEF Leaves
<1>6. /\ r.B = d.B /\ r.F = d.F /\ r.M = d.M /\ r.user = d.user
      /\ r.IR = d.IR /\ r.bkIR = d.bkIR
      /\ r.A = d.A /\ r.S = d.S /\ r.lines = d.lines
  BY <1>1, <1>2, <1>3 DEF Leaves
<1>7. r.PC = d.PC /\ r.X = d.X
  BY <1>1, <1>2, <1>3, Stays DEF Leaves
<1> QED BY <1>4, <1>5, <1>6, <1>7 DEF Does, r

(* A to its, and S is reset.                                                 *)
LEMMA KeepsA ==
  ASSUME NEW d \in Datapath
  PROVE  Does(d, Perform(d, {"sel_a", "reg3", "a_o", "mwrite", "s_rst"}),
              d.A, 0, d.PC, d.X,
              Store(d.kernel, ACell, d.A), d.lines, d.inten, FALSE)
<1> DEFINE step == {"sel_a", "reg3", "a_o", "mwrite", "s_rst"}
           r == Perform(d, step)
<1>1. Leaves(d, step, Bus(d, step), Where(d, step), r)
  BY PerformLeaves
<1>2. Where(d, step) = ACell
  BY DEF Where, Address, Unpaged, Datapath, LowCell, HighCell, ACell
<1>3. Bus(d, step) = d.A
  BY DEF Bus, DataBus, Unpaged, Datapath
<1> HIDE DEF r
<1>4. r.kernel = Store(d.kernel, ACell, d.A)
  BY <1>1, <1>2, <1>3 DEF Leaves
<1>5. r.inten = d.inten /\ r.paging = FALSE
  BY <1>1 DEF Leaves
<1>6. /\ r.B = d.B /\ r.F = d.F /\ r.M = d.M /\ r.user = d.user
      /\ r.IR = d.IR /\ r.bkIR = d.bkIR
      /\ r.A = d.A /\ r.S = 0 /\ r.lines = d.lines
  BY <1>1, <1>2, <1>3 DEF Leaves
<1>7. r.PC = d.PC /\ r.X = d.X
  BY <1>1, <1>2, <1>3, Stays DEF Leaves
<1> QED BY <1>4, <1>5, <1>6, <1>7 DEF Does, r

(* S counts down                                                             *)
LEMMA Decrements ==
  ASSUME NEW d \in Datapath
  PROVE  Does(d, Perform(d, {"sl--"}),
              d.A, Plus(d.S, 65535), d.PC, d.X,
              d.kernel, d.lines, d.inten, d.paging)
<1> DEFINE step == {"sl--"}
           r == Perform(d, step)
<1>1. Leaves(d, step, Bus(d, step), Where(d, step), r)
  BY PerformLeaves
<1> HIDE DEF r
<1>2. r.kernel = d.kernel
  BY <1>1 DEF Leaves
<1>3. r.inten = d.inten /\ r.paging = d.paging
  BY <1>1 DEF Leaves
<1>4. /\ r.B = d.B /\ r.F = d.F /\ r.M = d.M /\ r.user = d.user
      /\ r.IR = d.IR /\ r.bkIR = d.bkIR
      /\ r.A = d.A /\ r.S = Plus(d.S, 65535) /\ r.lines = d.lines
  BY <1>1 DEF Leaves
<1>5. r.PC = d.PC /\ r.X = d.X
  BY <1>1, Stays DEF Leaves
<1> QED BY <1>2, <1>3, <1>4, <1>5 DEF Does, r

(* and up.                                                                   *)
LEMMA Increments ==
  ASSUME NEW d \in Datapath
  PROVE  Does(d, Perform(d, {"sl++"}),
              d.A, Plus(d.S, 1), d.PC, d.X,
              d.kernel, d.lines, d.inten, d.paging)
<1> DEFINE step == {"sl++"}
           r == Perform(d, step)
<1>1. Leaves(d, step, Bus(d, step), Where(d, step), r)
  BY PerformLeaves
<1> HIDE DEF r
<1>2. r.kernel = d.kernel
  BY <1>1 DEF Leaves
<1>3. r.inten = d.inten /\ r.paging = d.paging
  BY <1>1 DEF Leaves
<1>4. /\ r.B = d.B /\ r.F = d.F /\ r.M = d.M /\ r.user = d.user
      /\ r.IR = d.IR /\ r.bkIR = d.bkIR
      /\ r.A = d.A /\ r.S = Plus(d.S, 1) /\ r.lines = d.lines
  BY <1>1 DEF Leaves
<1>5. r.PC = d.PC /\ r.X = d.X
  BY <1>1, Stays DEF Leaves
<1> QED BY <1>2, <1>3, <1>4, <1>5 DEF Does, r

(* The high byte of X to A,                                                  *)
LEMMA HighXToA ==
  ASSUME NEW d \in Datapath
  PROVE  Does(d, Perform(d, {"xh_o", "a_i"}),
              HighByte(d.X), d.S, d.PC, d.X,
              d.kernel, d.lines, d.inten, d.paging)
<1> DEFINE step == {"xh_o", "a_i"}
           r == Perform(d, step)
<1>1. Leaves(d, step, Bus(d, step), Where(d, step), r)
  BY PerformLeaves
<1>2. Bus(d, step) = HighByte(d.X)
  BY DEF Bus, DataBus, Unpaged, Datapath
<1> HIDE DEF r
<1>3. r.kernel = d.kernel
  BY <1>1, <1>2 DEF Leaves
<1>4. r.inten = d.inten /\ r.paging = d.paging
  BY <1>1 DEF Leaves
<1>5. /\ r.B = d.B /\ r.F = d.F /\ r.M = d.M /\ r.user = d.user
      /\ r.IR = d.IR /\ r.bkIR = d.bkIR
      /\ r.A = HighByte(d.X) /\ r.S = d.S /\ r.lines = d.lines
  BY <1>1, <1>2 DEF Leaves
<1>6. r.PC = d.PC /\ r.X = d.X
  BY <1>1, <1>2, Stays DEF Leaves
<1> QED BY <1>3, <1>4, <1>5, <1>6 DEF Does, r

(* the low one,                                                              *)
LEMMA LowXToA ==
  ASSUME NEW d \in Datapath
  PROVE  Does(d, Perform(d, {"xl_o", "a_i"}),
              LowByte(d.X), d.S, d.PC, d.X,
              d.kernel, d.lines, d.inten, d.paging)
<1> DEFINE step == {"xl_o", "a_i"}
           r == Perform(d, step)
<1>1. Leaves(d, step, Bus(d, step), Where(d, step), r)
  BY PerformLeaves
<1>2. Bus(d, step) = LowByte(d.X)
  BY DEF Bus, DataBus, Unpaged, Datapath
<1> HIDE DEF r
<1>3. r.kernel = d.kernel
  BY <1>1, <1>2 DEF Leaves
<1>4. r.inten = d.inten /\ r.paging = d.paging
  BY <1>1 DEF Leaves
<1>5. /\ r.B = d.B /\ r.F = d.F /\ r.M = d.M /\ r.user = d.user
      /\ r.IR = d.IR /\ r.bkIR = d.bkIR
      /\ r.A = LowByte(d.X) /\ r.S = d.S /\ r.lines = d.lines
  BY <1>1, <1>2 DEF Leaves
<1>6. r.PC = d.PC /\ r.X = d.X
  BY <1>1, <1>2, Stays DEF Leaves
<1> QED BY <1>3, <1>4, <1>5, <1>6 DEF Does, r

(* and the high byte of S.                                                   *)
LEMMA HighSToA ==
  ASSUME NEW d \in Datapath
  PROVE  Does(d, Perform(d, {"sh_o", "a_i"}),
              HighByte(d.S), d.S, d.PC, d.X,
              d.kernel, d.lines, d.inten, d.paging)
<1> DEFINE step == {"sh_o", "a_i"}
           r == Perform(d, step)
<1>1. Leaves(d, step, Bus(d, step), Where(d, step), r)
  BY PerformLeaves
<1>2. Bus(d, step) = HighByte(d.S)
  BY DEF Bus, DataBus, Unpaged, Datapath
<1> HIDE DEF r
<1>3. r.kernel = d.kernel
  BY <1>1, <1>2 DEF Leaves
<1>4. r.inten = d.inten /\ r.paging = d.paging
  BY <1>1 DEF Leaves
<1>5. /\ r.B = d.B /\ r.F = d.F /\ r.M = d.M /\ r.user = d.user
      /\ r.IR = d.IR /\ r.bkIR = d.bkIR
      /\ r.A = HighByte(d.S) /\ r.S = d.S /\ r.lines = d.lines
  BY <1>1, <1>2 DEF Leaves
<1>6. r.PC = d.PC /\ r.X = d.X
  BY <1>1, <1>2, Stays DEF Leaves
<1> QED BY <1>3, <1>4, <1>5, <1>6 DEF Does, r

(* A is stored where S points.                                               *)
LEMMA PushesA ==
  ASSUME NEW d \in Datapath, ~ d.paging
  PROVE  Does(d, Perform(d, {"s_a", "a_o", "mwrite"}),
              d.A, d.S, d.PC, d.X,
              Store(d.kernel, d.S, d.A), d.lines, d.inten, d.paging)
<1> DEFINE step == {"s_a", "a_o", "mwrite"}
           r == Perform(d, step)
<1>1. Leaves(d, step, Bus(d, step), Where(d, step), r)
  BY PerformLeaves
<1>2. Where(d, step) = d.S
  BY DEF Where, Address, Unpaged, Datapath, LowCell, HighCell, ACell
<1>3. Bus(d, step) = d.A
  BY DEF Bus, DataBus, Unpaged, Datapath
<1> HIDE DEF r
<1>4. r.kernel = Store(d.kernel, d.S, d.A)
  BY <1>1, <1>2, <1>3 DEF Leaves
<1>5. r.inten = d.inten /\ r.paging = d.paging
  BY <1>1 DEF Leaves
<1>6. /\ r.B = d.B /\ r.F = d.F /\ r.M = d.M /\ r.user = d.user
      /\ r.IR = d.IR /\ r.bkIR = d.bkIR
      /\ r.A = d.A /\ r.S = d.S /\ r.lines = d.lines
  BY <1>1, <1>2, <1>3 DEF Leaves
<1>7. r.PC = d.PC /\ r.X = d.X
  BY <1>1, <1>2, <1>3, Stays DEF Leaves
<1> QED BY <1>4, <1>5, <1>6, <1>7 DEF Does, r

(* iv_o: the vector is the low byte of X, the lines are cleared and interrupts are off. *)
LEMMA VectorToX ==
  ASSUME NEW d \in Datapath
  PROVE  Does(d, Perform(d, {"iv_o", "xl_i"}),
              d.A, d.S, d.PC, SetLow(d.X, Vector(d.lines)),
              d.kernel, {}, FALSE, d.paging)
<1> DEFINE step == {"iv_o", "xl_i"}
           r == Perform(d, step)
<1>1. Leaves(d, step, Bus(d, step), Where(d, step), r)
  BY PerformLeaves
<1>2. Bus(d, step) = Vector(d.lines)
  BY DEF Bus, DataBus, Unpaged, Datapath
<1> HIDE DEF r
<1>3. r.kernel = d.kernel
  BY <1>1, <1>2 DEF Leaves
<1>4. r.inten = FALSE /\ r.paging = d.paging
  BY <1>1 DEF Leaves
<1>5. /\ r.B = d.B /\ r.F = d.F /\ r.M = d.M /\ r.user = d.user
      /\ r.IR = d.IR /\ r.bkIR = d.bkIR
      /\ r.A = d.A /\ r.S = d.S /\ r.lines = {}
  BY <1>1, <1>2 DEF Leaves
<1>6. r.PC = d.PC /\ r.X = SetLow(d.X, Vector(d.lines))
  BY <1>1, <1>2, Stays DEF Leaves
<1> QED BY <1>3, <1>4, <1>5, <1>6 DEF Does, r

(* A to the high byte of X                                                   *)
LEMMA AToHighX ==
  ASSUME NEW d \in Datapath
  PROVE  Does(d, Perform(d, {"a_o", "xh_i"}),
              d.A, d.S, d.PC, SetHigh(d.X, d.A),
              d.kernel, d.lines, d.inten, d.paging)
<1> DEFINE step == {"a_o", "xh_i"}
           r == Perform(d, step)
<1>1. Leaves(d, step, Bus(d, step), Where(d, step), r)
  BY PerformLeaves
<1>2. Bus(d, step) = d.A
  BY DEF Bus, DataBus, Unpaged, Datapath
<1> HIDE DEF r
<1>3. r.kernel = d.kernel
  BY <1>1, <1>2 DEF Leaves
<1>4. r.inten = d.inten /\ r.paging = d.paging
  BY <1>1 DEF Leaves
<1>5. /\ r.B = d.B /\ r.F = d.F /\ r.M = d.M /\ r.user = d.user
      /\ r.IR = d.IR /\ r.bkIR = d.bkIR
      /\ r.A = d.A /\ r.S = d.S /\ r.lines = d.lines
  BY <1>1, <1>2 DEF Leaves
<1>6. r.PC = d.PC /\ r.X = SetHigh(d.X, d.A)
  BY <1>1, <1>2, Stays DEF Leaves
<1> QED BY <1>3, <1>4, <1>5, <1>6 DEF Does, r

(* and to the low one.                                                       *)
LEMMA AToLowX ==
  ASSUME NEW d \in Datapath
  PROVE  Does(d, Perform(d, {"a_o", "xl_i"}),
              d.A, d.S, d.PC, SetLow(d.X, d.A),
              d.kernel, d.lines, d.inten, d.paging)
<1> DEFINE step == {"a_o", "xl_i"}
           r == Perform(d, step)
<1>1. Leaves(d, step, Bus(d, step), Where(d, step), r)
  BY PerformLeaves
<1>2. Bus(d, step) = d.A
  BY DEF Bus, DataBus, Unpaged, Datapath
<1> HIDE DEF r
<1>3. r.kernel = d.kernel
  BY <1>1, <1>2 DEF Leaves
<1>4. r.inten = d.inten /\ r.paging = d.paging
  BY <1>1 DEF Leaves
<1>5. /\ r.B = d.B /\ r.F = d.F /\ r.M = d.M /\ r.user = d.user
      /\ r.IR = d.IR /\ r.bkIR = d.bkIR
      /\ r.A = d.A /\ r.S = d.S /\ r.lines = d.lines
  BY <1>1, <1>2 DEF Leaves
<1>6. r.PC = d.PC /\ r.X = SetLow(d.X, d.A)
  BY <1>1, <1>2, Stays DEF Leaves
<1> QED BY <1>3, <1>4, <1>5, <1>6 DEF Does, r

(* A is loaded from where S points,                                          *)
LEMMA PopsA ==
  ASSUME NEW d \in Datapath, ~ d.paging
  PROVE  Does(d, Perform(d, {"s_a", "mread", "a_i"}),
              Stored(d.kernel, d.S), d.S, d.PC, d.X,
              d.kernel, d.lines, d.inten, d.paging)
<1> DEFINE step == {"s_a", "mread", "a_i"}
           r == Perform(d, step)
<1>1. Leaves(d, step, Bus(d, step), Where(d, step), r)
  BY PerformLeaves
<1>2. Where(d, step) = d.S
  BY DEF Where, Address, Unpaged, Datapath, LowCell, HighCell, ACell
<1>3. Unpaged(d, step).kernel = d.kernel /\ ~ Unpaged(d, step).paging
  BY DEF Unpaged, Datapath
<1>4. Bus(d, step) = Stored(d.kernel, d.S)
  BY <1>2, <1>3 DEF Bus, DataBus, Read, Where
<1> HIDE DEF r
<1>5. r.kernel = d.kernel
  BY <1>1, <1>2, <1>4 DEF Leaves
<1>6. r.inten = d.inten /\ r.paging = d.paging
  BY <1>1 DEF Leaves
<1>7. /\ r.B = d.B /\ r.F = d.F /\ r.M = d.M /\ r.user = d.user
      /\ r.IR = d.IR /\ r.bkIR = d.bkIR
      /\ r.A = Stored(d.kernel, d.S) /\ r.S = d.S /\ r.lines = d.lines
  BY <1>1, <1>2, <1>4 DEF Leaves
<1>8. r.PC = d.PC /\ r.X = d.X
  BY <1>1, <1>2, <1>4, Stays DEF Leaves
<1> QED BY <1>5, <1>6, <1>7, <1>8 DEF Does, r

(* and from its cell, and S is reset,                                        *)
LEMMA GivesA ==
  ASSUME NEW d \in Datapath
  PROVE  Does(d, Perform(d, {"sel_a", "reg3", "mread", "a_i", "s_rst"}),
              Stored(d.kernel, ACell), 0, d.PC, d.X,
              d.kernel, d.lines, d.inten, FALSE)
<1> DEFINE step == {"sel_a", "reg3", "mread", "a_i", "s_rst"}
           r == Perform(d, step)
<1>1. Leaves(d, step, Bus(d, step), Where(d, step), r)
  BY PerformLeaves
<1>2. Where(d, step) = ACell
  BY DEF Where, Address, Unpaged, Datapath, LowCell, HighCell, ACell
<1>3. Unpaged(d, step).kernel = d.kernel /\ ~ Unpaged(d, step).paging
  BY DEF Unpaged, Datapath
<1>4. Bus(d, step) = Stored(d.kernel, ACell)
  BY <1>2, <1>3 DEF Bus, DataBus, Read, Where
<1> HIDE DEF r
<1>5. r.kernel = d.kernel
  BY <1>1, <1>2, <1>4 DEF Leaves
<1>6. r.inten = d.inten /\ r.paging = FALSE
  BY <1>1 DEF Leaves
<1>7. /\ r.B = d.B /\ r.F = d.F /\ r.M = d.M /\ r.user = d.user
      /\ r.IR = d.IR /\ r.bkIR = d.bkIR
      /\ r.A = Stored(d.kernel, ACell) /\ r.S = 0 /\ r.lines = d.lines
  BY <1>1, <1>2, <1>4 DEF Leaves
<1>8. r.PC = d.PC /\ r.X = d.X
  BY <1>1, <1>2, <1>4, Stays DEF Leaves
<1> QED BY <1>5, <1>6, <1>7, <1>8 DEF Does, r

(* S from its two cells,                                                     *)
LEMMA GivesHighS ==
  ASSUME NEW d \in Datapath
  PROVE  Does(d, Perform(d, {"sel_a", "reg1", "mread", "sh_i"}),
              d.A, SetHigh(d.S, Stored(d.kernel, HighCell)), d.PC, d.X,
              d.kernel, d.lines, d.inten, FALSE)
<1> DEFINE step == {"sel_a", "reg1", "mread", "sh_i"}
           r == Perform(d, step)
<1>1. Leaves(d, step, Bus(d, step), Where(d, step), r)
  BY PerformLeaves
<1>2. Where(d, step) = HighCell
  BY DEF Where, Address, Unpaged, Datapath, LowCell, HighCell, ACell
<1>3. Unpaged(d, step).kernel = d.kernel /\ ~ Unpaged(d, step).paging
  BY DEF Unpaged, Datapath
<1>4. Bus(d, step) = Stored(d.kernel, HighCell)
  BY <1>2, <1>3 DEF Bus, DataBus, Read, Where
<1> HIDE DEF r
<1>5. r.kernel = d.kernel
  BY <1>1, <1>2, <1>4 DEF Leaves
<1>6. r.inten = d.inten /\ r.paging = FALSE
  BY <1>1 DEF Leaves
<1>7. /\ r.B = d.B /\ r.F = d.F /\ r.M = d.M /\ r.user = d.user
      /\ r.IR = d.IR /\ r.bkIR = d.bkIR
      /\ r.A = d.A /\ r.S = SetHigh(d.S, Stored(d.kernel, HighCell)) /\ r.lines = d.lines
  BY <1>1, <1>2, <1>4 DEF Leaves
<1>8. r.PC = d.PC /\ r.X = d.X
  BY <1>1, <1>2, <1>4, Stays DEF Leaves
<1> QED BY <1>5, <1>6, <1>7, <1>8 DEF Does, r

(* the low byte last.                                                        *)
LEMMA GivesLowS ==
  ASSUME NEW d \in Datapath
  PROVE  Does(d, Perform(d, {"sel_a", "reg2", "mread", "sl_i"}),
              d.A, SetLow(d.S, Stored(d.kernel, LowCell)), d.PC, d.X,
              d.kernel, d.lines, d.inten, FALSE)
<1> DEFINE step == {"sel_a", "reg2", "mread", "sl_i"}
           r == Perform(d, step)
<1>1. Leaves(d, step, Bus(d, step), Where(d, step), r)
  BY PerformLeaves
<1>2. Where(d, step) = LowCell
  BY DEF Where, Address, Unpaged, Datapath, LowCell, HighCell, ACell
<1>3. Unpaged(d, step).kernel = d.kernel /\ ~ Unpaged(d, step).paging
  BY DEF Unpaged, Datapath
<1>4. Bus(d, step) = Stored(d.kernel, LowCell)
  BY <1>2, <1>3 DEF Bus, DataBus, Read, Where
<1> HIDE DEF r
<1>5. r.kernel = d.kernel
  BY <1>1, <1>2, <1>4 DEF Leaves
<1>6. r.inten = d.inten /\ r.paging = FALSE
  BY <1>1 DEF Leaves
<1>7. /\ r.B = d.B /\ r.F = d.F /\ r.M = d.M /\ r.user = d.user
      /\ r.IR = d.IR /\ r.bkIR = d.bkIR
      /\ r.A = d.A /\ r.S = SetLow(d.S, Stored(d.kernel, LowCell)) /\ r.lines = d.lines
  BY <1>1, <1>2, <1>4 DEF Leaves
<1>8. r.PC = d.PC /\ r.X = d.X
  BY <1>1, <1>2, <1>4, Stays DEF Leaves
<1> QED BY <1>5, <1>6, <1>7, <1>8 DEF Does, r

(* ei turns interrupts and paging on.                                        *)
LEMMA Enables ==
  ASSUME NEW d \in Datapath
  PROVE  Does(d, Perform(d, {"ei"}),
              d.A, d.S, d.PC, d.X,
              d.kernel, d.lines, TRUE, TRUE)
<1> DEFINE step == {"ei"}
           r == Perform(d, step)
<1>1. Leaves(d, step, Bus(d, step), Where(d, step), r)
  BY PerformLeaves
<1> HIDE DEF r
<1>2. r.kernel = d.kernel
  BY <1>1 DEF Leaves
<1>3. r.inten = TRUE /\ r.paging = TRUE
  BY <1>1 DEF Leaves
<1>4. /\ r.B = d.B /\ r.F = d.F /\ r.M = d.M /\ r.user = d.user
      /\ r.IR = d.IR /\ r.bkIR = d.bkIR
      /\ r.A = d.A /\ r.S = d.S /\ r.lines = d.lines
  BY <1>1 DEF Leaves
<1>5. r.PC = d.PC /\ r.X = d.X
  BY <1>1, Stays DEF Leaves
<1> QED BY <1>2, <1>3, <1>4, <1>5 DEF Does, r

(* Off comes back from the backup.                                           *)
LEMMA RestoresOff ==
  ASSUME NEW d \in Datapath
  PROVE  Does(d, Perform(d, {"load_fault", "off_i"}),
              d.A, d.S, d.PC, d.X,
              d.kernel, d.lines, d.inten, d.paging)
<1> DEFINE step == {"load_fault", "off_i"}
           r == Perform(d, step)
<1>1. Leaves(d, step, Bus(d, step), Where(d, step), r)
  BY PerformLeaves
<1> HIDE DEF r
<1>2. r.kernel = d.kernel
  BY <1>1 DEF Leaves
<1>3. r.inten = d.inten /\ r.paging = d.paging
  BY <1>1 DEF Leaves
<1>4. /\ r.B = d.B /\ r.F = d.F /\ r.M = d.M /\ r.user = d.user
      /\ r.IR = d.IR /\ r.bkIR = d.bkIR
      /\ r.A = d.A /\ r.S = d.S /\ r.lines = d.lines
  BY <1>1 DEF Leaves
<1>5. r.PC = d.PC /\ r.X = d.X
  BY <1>1, Stays DEF Leaves
<1> QED BY <1>2, <1>3, <1>4, <1>5 DEF Does, r

(***************************************************************************)
(* What the machine is doing.                                              *)
(***************************************************************************)
Served  == {\hFF00, \hFF10, \hFF30}
Returns == {iret, iretf}

Ready      == mpc = 0 /\ ~ recovery /\ c.paging
Recovering == mpc = 0 /\ recovery
Pending    == mpc = 0 /\ ~ recovery /\ ~ c.paging /\ c.inten
Handling   == mpc = 0 /\ ~ recovery /\ ~ c.paging /\ ~ c.inten
Running    == mpc > 0 /\ c.IR \in Runs
Entering   == mpc > 0 /\ c.IR = int
Returning  == mpc > 0 /\ c.IR \in Returns

(* A fault has been taken and not yet been returned from: the line of the    *)
(* fault until iv_o clears it, then its vector.                              *)
EnteringFault(n, d) == IF n <= 11 THEN 0 \in d.lines ELSE LowByte(d.X) = 0
FaultTaken ==
  \/ Pending \/ Recovering
  \/ Entering /\ EnteringFault(mpc, c)
  \/ Handling /\ c.PC = \hFF00
  \/ Returning /\ c.IR = iretf

(* The program is between two instructions: none of its own is under way.    *)
Between == ~ Running /\ (FaultTaken => bkmpc = 0)

(* Before microstep n of the entry into the kernel.                          *)
EnterControl(n, d) ==
  /\ n \in 1 .. 15
  /\ n <= 11 => d.inten /\ d.lines # {}
  /\ n >= 12 => ~ d.inten /\ 0 \notin d.lines
  /\ n <= 2 => d.paging = (0 \notin d.lines)
  /\ n >= 3 => ~ d.paging
  /\ n = 5 => d.S = 0
  /\ n >= 6 /\ n <= 9 => d.S = 65535
  /\ n >= 10 /\ n <= 14 => d.S = 65534
  /\ n = 15 => d.S = 65533
  /\ n >= 12 /\ n <= 13 => LowByte(d.X) \in {0, 16, 48}
  /\ n = 13 => d.A = 255
  /\ n >= 14 => d.X \in Served

(* Before microstep n of a return.                                           *)
ReturnControl(n, d) ==
  /\ n \in 1 .. 14 /\ (d.IR = iret => n <= 12)
  /\ 0 \notin d.lines
  /\ IF n <= 13 THEN ~ d.paging /\ ~ d.inten ELSE d.paging /\ d.inten
  /\ n <= 2 => d.S = 65533
  /\ n >= 3 /\ n <= 5 => d.S = 65534
  /\ n >= 6 /\ n <= 8 => d.S = 65535

(* What each mode leaves of paging, the enable and the lines.                *)
Control ==
  /\ recovery => mpc = 0 /\ c.paging /\ c.inten /\ 0 \notin c.lines
  /\ mpc = 0 => c.IR # iretf
  /\ mpc > 0 => c.IR \in Runs \cup Returns \cup {int}
  /\ c.bkIR # iretf
  /\ Ready => c.inten /\ 0 \notin c.lines
  /\ Pending => 0 \in c.lines
  /\ Handling => 0 \notin c.lines /\ c.PC \in Served /\ c.S = 65533
  /\ Running => c.paging /\ c.inten /\ 0 \notin c.lines /\ mpc <= Len(Program(c.IR))
  /\ Entering => EnterControl(mpc, c)
  /\ Returning => ReturnControl(mpc, c)
  /\ FaultTaken /\ bkmpc > 0 => c.bkIR \in Runs /\ bkmpc <= Len(Program(c.bkIR))
  /\ \A v \in Served : Stored(c.kernel, v) = Handlers[v]

(* Where the registers u of the program are meanwhile.                       *)
Apart(d, u) == d.B = u.B /\ d.F = u.F /\ d.M = u.M /\ d.user = u.user
Reg1(d)  == Stored(d.kernel, HighCell)
Reg2(d)  == Stored(d.kernel, LowCell)
Reg3(d)  == Stored(d.kernel, ACell)
Top(d)   == Stored(d.kernel, TopCell)
Under(d) == Stored(d.kernel, UnderCell)

(* Before microstep n of the entry,                                          *)
Enters(n, d, u) ==
  /\ Apart(d, u)
  /\ n <= 4 => d.A = u.A /\ d.S = u.S
  /\ n = 1 => d.PC = u.PC /\ d.X = u.X
  /\ n >= 2 => d.PC = u.X
  /\ n >= 2 /\ n <= 11 => d.X = u.PC
  /\ n >= 3 => Reg2(d) = LowByte(u.S)
  /\ n >= 4 => Reg1(d) = HighByte(u.S)
  /\ n >= 5 => Reg3(d) = u.A
  /\ n = 7 => d.A = HighByte(u.PC)
  /\ n >= 8 => Top(d) = HighByte(u.PC)
  /\ n >= 9 /\ n <= 10 => d.A = LowByte(u.PC)
  /\ n >= 11 => Under(d) = LowByte(u.PC)

(* in a handler,                                                             *)
Saves(d, u) ==
  /\ Apart(d, u)
  /\ Reg1(d) = HighByte(u.S) /\ Reg2(d) = LowByte(u.S) /\ Reg3(d) = u.A
  /\ Top(d) = HighByte(u.PC) /\ Under(d) = LowByte(u.PC)

(* and before microstep n of a return.                                       *)
Leaving(n, d, u) ==
  /\ Saves(d, u)
  /\ n = 1 => d.X = u.X
  /\ n >= 2 /\ n <= 11 => d.PC = u.X
  /\ n = 4 => d.A = LowByte(u.PC)
  /\ n >= 5 /\ n <= 7 => LowByte(d.X) = LowByte(u.PC)
  /\ n = 7 => d.A = HighByte(u.PC)
  /\ n >= 8 /\ n <= 11 => d.X = u.PC
  /\ n >= 9 => d.A = u.A
  /\ n = 10 => HighByte(d.S) = HighByte(u.S)
  /\ n >= 11 => d.S = u.S
  /\ n >= 12 => d.PC = u.PC /\ d.X = u.X

(* A program between two instructions is what its last one left.             *)
Kept ==
  /\ Ready => Atomic!Visible(c) = arch
  /\ Between =>
       /\ Pending \/ Recovering => Atomic!Visible(c) = arch
       /\ Entering => Enters(mpc, c, arch)
       /\ Handling => Saves(c, arch) /\ c.X = arch.X
       /\ Returning => Leaving(mpc, c, arch)

(* What a program sees of the processor.                                     *)
View == [A : Bytes, B : Bytes, F : Bytes, M : Words, S : Words, PC : Words, X : Words,
         user : Memory]

(* A store into the memory of the kernel changes one of its cells.           *)
LEMMA Cells ==
  ASSUME NEW d \in Datapath, NEW b \in Bytes, NEW a \in Words
  PROVE  \A x : Stored(Store(d.kernel, a, b), x) = IF x = a THEN b ELSE Stored(d.kernel, x)
<1> DEFINE m == d.kernel
<1>1. m \in Memory
  BY DEF Datapath
<1> HIDE DEF m
<1>2. \A x : Stored(Store(m, a, b), x) = IF x = a THEN b ELSE Stored(m, x)
  BY <1>1, StoreMemory, ZenonT(60)
<1> QED BY <1>2 DEF m

(* The cells of the entry are words,                                         *)
LEMMA CellWords ==
  /\ LowCell \in Words /\ HighCell \in Words /\ ACell \in Words
  /\ TopCell \in Words /\ UnderCell \in Words
BY Hexes, Ranges DEF HighCell, LowCell, ACell, TopCell, UnderCell

(* different from one another and from the entries of the handlers.          *)
LEMMA CellsDiffer ==
  /\ \A v \in Served : v \notin {HighCell, LowCell, ACell, TopCell, UnderCell}
  /\ HighCell \notin {LowCell, ACell, TopCell, UnderCell}
  /\ LowCell \notin {ACell, TopCell, UnderCell}
  /\ ACell \notin {TopCell, UnderCell} /\ TopCell # UnderCell
BY Hexes DEF Served, HighCell, LowCell, ACell, TopCell, UnderCell

(* Where s_rst and the steps of S on top of memory lead.                     *)
LEMMA Pointers ==
  /\ Plus(0, 65535) = 65535 /\ Plus(65535, 65535) = 65534 /\ Plus(65534, 65535) = 65533
  /\ Plus(65533, 1) = 65534 /\ Plus(65534, 1) = 65535
  /\ HighByte(65534) = 255
BY DEF Plus, HighByte

(* The microsteps of the entry, one by one.                                  *)
LEMMA EntrySteps ==
  /\ Len(EnterKernel) = 15
  /\ EnterKernel[1] = {"pc_switch"}
  /\ EnterKernel[2] = {"sel_a", "reg2", "sl_o", "mwrite"}
  /\ EnterKernel[3] = {"sel_a", "reg1", "sh_o", "mwrite"}
  /\ EnterKernel[4] = {"sel_a", "reg3", "a_o", "mwrite", "s_rst"}
  /\ EnterKernel[5] = {"sl--"}
  /\ EnterKernel[6] = {"xh_o", "a_i"}
  /\ EnterKernel[7] = {"s_a", "a_o", "mwrite"}
  /\ EnterKernel[8] = {"xl_o", "a_i"}
  /\ EnterKernel[9] = {"sl--"}
  /\ EnterKernel[10] = {"s_a", "a_o", "mwrite"}
  /\ EnterKernel[11] = {"iv_o", "xl_i"}
  /\ EnterKernel[12] = {"sh_o", "a_i"}
  /\ EnterKernel[13] = {"a_o", "xh_i"}
  /\ EnterKernel[14] = {"sl--"}
  /\ EnterKernel[15] = {"pc_switch"}
BY DEF EnterKernel

(* Microstep n of the entry done: the claim moves on by one microstep.       *)
Entered(n, d, r, u) ==
  /\ r.IR = int /\ r.bkIR = d.bkIR
  /\ EnterControl(n + 1, r)
  /\ EnteringFault(n + 1, r) <=> EnteringFault(n, d)
  /\ \A v \in Served : Stored(r.kernel, v) = Stored(d.kernel, v)
  /\ Enters(n, d, u) => Enters(n + 1, r, u)

(* The microsteps of the entry, each leading to the next one.                *)
LEMMA Enter1 ==
  ASSUME NEW d \in Datapath, NEW u \in View, d.IR = int, EnterControl(1, d)
  PROVE  Entered(1, d, Perform(d, {"pc_switch"}), u)
<1> DEFINE r == Perform(d, {"pc_switch"})
<1>1. (d.IR % 16) = 15
  BY Hexes
<1>2. Does(d, r, d.A, d.S, d.X, d.PC, d.kernel, d.lines, d.inten, d.paging)
  BY <1>1, Switches
<1> HIDE DEF r
<1>3. EnterControl(2, r)
  BY <1>2 DEF Does, EnterControl
<1>4. EnteringFault(2, r) <=> EnteringFault(1, d)
  BY <1>2 DEF Does, EnteringFault
<1>5. Enters(1, d, u) => Enters(2, r, u)
  BY <1>2 DEF Does, Enters, Apart
<1> QED BY <1>2, <1>3, <1>4, <1>5 DEF Does, Entered, r

LEMMA Enter2 ==
  ASSUME NEW d \in Datapath, NEW u \in View, d.IR = int, EnterControl(2, d)
  PROVE  Entered(2, d, Perform(d, {"sel_a", "reg2", "sl_o", "mwrite"}), u)
<1> DEFINE r == Perform(d, {"sel_a", "reg2", "sl_o", "mwrite"})
           low == LowByte(d.S)
<1>1. low \in Bytes
  BY WordParts DEF Datapath
<1>2. Does(d, r, d.A, d.S, d.PC, d.X, Store(d.kernel, LowCell, low), d.lines, d.inten, FALSE)
  BY KeepsLowS
<1> HIDE DEF r, low
<1>3. \A x : Stored(Store(d.kernel, LowCell, low), x) =
        IF x = LowCell THEN low ELSE Stored(d.kernel, x)
  BY <1>1, CellWords, Cells
<1>4. \A x : Stored(r.kernel, x) = IF x = LowCell THEN low ELSE Stored(d.kernel, x)
  BY <1>2, <1>3 DEF Does
<1>6. EnterControl(3, r)
  BY <1>2 DEF Does, EnterControl
<1>7. EnteringFault(3, r) <=> EnteringFault(2, d)
  BY <1>2 DEF Does, EnteringFault
<1>8. Enters(2, d, u) => Enters(3, r, u)
  BY <1>2, <1>4, CellsDiffer DEF Does, Enters, Apart, Reg1, Reg2, Reg3, Top, Under, low
<1>9. \A v \in Served : Stored(r.kernel, v) = Stored(d.kernel, v)
  BY <1>4, CellsDiffer
<1> QED BY <1>2, <1>6, <1>7, <1>8, <1>9 DEF Does, Entered, r
LEMMA Enter3 ==
  ASSUME NEW d \in Datapath, NEW u \in View, d.IR = int, EnterControl(3, d)
  PROVE  Entered(3, d, Perform(d, {"sel_a", "reg1", "sh_o", "mwrite"}), u)
<1> DEFINE r == Perform(d, {"sel_a", "reg1", "sh_o", "mwrite"})
           byte == HighByte(d.S)
<1>1. byte \in Bytes
  BY WordParts DEF Datapath
<1>2. Does(d, r, d.A, d.S, d.PC, d.X,
           Store(d.kernel, HighCell, byte), d.lines, d.inten, FALSE)
  BY KeepsHighS
<1> HIDE DEF r, byte
<1>3. \A x : Stored(Store(d.kernel, HighCell, byte), x) =
        IF x = HighCell THEN byte ELSE Stored(d.kernel, x)
  BY <1>1, CellWords, Cells
<1>4. \A x : Stored(r.kernel, x) = IF x = HighCell THEN byte ELSE Stored(d.kernel, x)
  BY <1>2, <1>3 DEF Does
<1>6. EnterControl(4, r)
  BY <1>2 DEF Does, EnterControl
<1>7. EnteringFault(4, r) <=> EnteringFault(3, d)
  BY <1>2 DEF Does, EnteringFault
<1>8. Enters(3, d, u) => Enters(4, r, u)
  BY <1>2, <1>4, CellsDiffer DEF Does, Enters, Apart, Reg1, Reg2, Reg3, Top, Under, byte
<1>9. \A v \in Served : Stored(r.kernel, v) = Stored(d.kernel, v)
  BY <1>4, CellsDiffer
<1> QED BY <1>2, <1>6, <1>7, <1>8, <1>9 DEF Does, Entered, r

LEMMA Enter4 ==
  ASSUME NEW d \in Datapath, NEW u \in View, d.IR = int, EnterControl(4, d)
  PROVE  Entered(4, d, Perform(d, {"sel_a", "reg3", "a_o", "mwrite", "s_rst"}), u)
<1> DEFINE r == Perform(d, {"sel_a", "reg3", "a_o", "mwrite", "s_rst"})
           byte == d.A
<1>1. byte \in Bytes
  BY DEF Datapath
<1>2. Does(d, r, d.A, 0, d.PC, d.X,
           Store(d.kernel, ACell, byte), d.lines, d.inten, FALSE)
  BY KeepsA
<1> HIDE DEF r, byte
<1>3. \A x : Stored(Store(d.kernel, ACell, byte), x) =
        IF x = ACell THEN byte ELSE Stored(d.kernel, x)
  BY <1>1, CellWords, Cells
<1>4. \A x : Stored(r.kernel, x) = IF x = ACell THEN byte ELSE Stored(d.kernel, x)
  BY <1>2, <1>3 DEF Does
<1>6. EnterControl(5, r)
  BY <1>2 DEF Does, EnterControl
<1>7. EnteringFault(5, r) <=> EnteringFault(4, d)
  BY <1>2 DEF Does, EnteringFault
<1>8. Enters(4, d, u) => Enters(5, r, u)
  BY <1>2, <1>4, CellsDiffer DEF Does, Enters, Apart, Reg1, Reg2, Reg3, Top, Under, byte
<1>9. \A v \in Served : Stored(r.kernel, v) = Stored(d.kernel, v)
  BY <1>4, CellsDiffer
<1> QED BY <1>2, <1>6, <1>7, <1>8, <1>9 DEF Does, Entered, r

LEMMA Enter5 ==
  ASSUME NEW d \in Datapath, NEW u \in View, d.IR = int, EnterControl(5, d)
  PROVE  Entered(5, d, Perform(d, {"sl--"}), u)
<1> DEFINE r == Perform(d, {"sl--"})
<1>2. Does(d, r, d.A, Plus(d.S, 65535), d.PC, d.X,
           d.kernel, d.lines, d.inten, d.paging)
  BY Decrements
<1> HIDE DEF r
<1>6. EnterControl(6, r)
  BY <1>2, Pointers DEF Does, EnterControl
<1>7. EnteringFault(6, r) <=> EnteringFault(5, d)
  BY <1>2 DEF Does, EnteringFault
<1>8. Enters(5, d, u) => Enters(6, r, u)
  BY <1>2 DEF Does, Enters, Apart, Reg1, Reg2, Reg3, Top, Under
<1>9. \A v \in Served : Stored(r.kernel, v) = Stored(d.kernel, v)
  BY <1>2 DEF Does
<1> QED BY <1>2, <1>6, <1>7, <1>8, <1>9 DEF Does, Entered, r

LEMMA Enter6 ==
  ASSUME NEW d \in Datapath, NEW u \in View, d.IR = int, EnterControl(6, d)
  PROVE  Entered(6, d, Perform(d, {"xh_o", "a_i"}), u)
<1> DEFINE r == Perform(d, {"xh_o", "a_i"})
<1>2. Does(d, r, HighByte(d.X), d.S, d.PC, d.X,
           d.kernel, d.lines, d.inten, d.paging)
  BY HighXToA
<1> HIDE DEF r
<1>6. EnterControl(7, r)
  BY <1>2 DEF Does, EnterControl
<1>7. EnteringFault(7, r) <=> EnteringFault(6, d)
  BY <1>2 DEF Does, EnteringFault
<1>8. Enters(6, d, u) => Enters(7, r, u)
  BY <1>2 DEF Does, Enters, Apart, Reg1, Reg2, Reg3, Top, Under
<1>9. \A v \in Served : Stored(r.kernel, v) = Stored(d.kernel, v)
  BY <1>2 DEF Does
<1> QED BY <1>2, <1>6, <1>7, <1>8, <1>9 DEF Does, Entered, r

LEMMA Enter7 ==
  ASSUME NEW d \in Datapath, NEW u \in View, d.IR = int, EnterControl(7, d)
  PROVE  Entered(7, d, Perform(d, {"s_a", "a_o", "mwrite"}), u)
<1> DEFINE r == Perform(d, {"s_a", "a_o", "mwrite"})
           byte == d.A
<1>0. ~ d.paging /\ d.S = TopCell
  BY DEF EnterControl, TopCell
<1>1. byte \in Bytes
  BY DEF Datapath
<1>2. Does(d, r, d.A, d.S, d.PC, d.X,
           Store(d.kernel, TopCell, byte), d.lines, d.inten, d.paging)
  BY <1>0, PushesA
<1> HIDE DEF r, byte
<1>3. \A x : Stored(Store(d.kernel, TopCell, byte), x) =
        IF x = TopCell THEN byte ELSE Stored(d.kernel, x)
  BY <1>1, CellWords, Cells
<1>4. \A x : Stored(r.kernel, x) = IF x = TopCell THEN byte ELSE Stored(d.kernel, x)
  BY <1>2, <1>3 DEF Does
<1>6. EnterControl(8, r)
  BY <1>2 DEF Does, EnterControl
<1>7. EnteringFault(8, r) <=> EnteringFault(7, d)
  BY <1>2 DEF Does, EnteringFault
<1>8. Enters(7, d, u) => Enters(8, r, u)
  BY <1>2, <1>4, CellsDiffer DEF Does, Enters, Apart, Reg1, Reg2, Reg3, Top, Under, byte
<1>9. \A v \in Served : Stored(r.kernel, v) = Stored(d.kernel, v)
  BY <1>4, CellsDiffer
<1> QED BY <1>2, <1>6, <1>7, <1>8, <1>9 DEF Does, Entered, r

LEMMA Enter8 ==
  ASSUME NEW d \in Datapath, NEW u \in View, d.IR = int, EnterControl(8, d)
  PROVE  Entered(8, d, Perform(d, {"xl_o", "a_i"}), u)
<1> DEFINE r == Perform(d, {"xl_o", "a_i"})
<1>2. Does(d, r, LowByte(d.X), d.S, d.PC, d.X,
           d.kernel, d.lines, d.inten, d.paging)
  BY LowXToA
<1> HIDE DEF r
<1>6. EnterControl(9, r)
  BY <1>2 DEF Does, EnterControl
<1>7. EnteringFault(9, r) <=> EnteringFault(8, d)
  BY <1>2 DEF Does, EnteringFault
<1>8. Enters(8, d, u) => Enters(9, r, u)
  BY <1>2 DEF Does, Enters, Apart, Reg1, Reg2, Reg3, Top, Under
<1>9. \A v \in Served : Stored(r.kernel, v) = Stored(d.kernel, v)
  BY <1>2 DEF Does
<1> QED BY <1>2, <1>6, <1>7, <1>8, <1>9 DEF Does, Entered, r

LEMMA Enter9 ==
  ASSUME NEW d \in Datapath, NEW u \in View, d.IR = int, EnterControl(9, d)
  PROVE  Entered(9, d, Perform(d, {"sl--"}), u)
<1> DEFINE r == Perform(d, {"sl--"})
<1>2. Does(d, r, d.A, Plus(d.S, 65535), d.PC, d.X,
           d.kernel, d.lines, d.inten, d.paging)
  BY Decrements
<1> HIDE DEF r
<1>6. EnterControl(10, r)
  BY <1>2, Pointers DEF Does, EnterControl
<1>7. EnteringFault(10, r) <=> EnteringFault(9, d)
  BY <1>2 DEF Does, EnteringFault
<1>8. Enters(9, d, u) => Enters(10, r, u)
  BY <1>2 DEF Does, Enters, Apart, Reg1, Reg2, Reg3, Top, Under
<1>9. \A v \in Served : Stored(r.kernel, v) = Stored(d.kernel, v)
  BY <1>2 DEF Does
<1> QED BY <1>2, <1>6, <1>7, <1>8, <1>9 DEF Does, Entered, r

LEMMA Enter10 ==
  ASSUME NEW d \in Datapath, NEW u \in View, d.IR = int, EnterControl(10, d)
  PROVE  Entered(10, d, Perform(d, {"s_a", "a_o", "mwrite"}), u)
<1> DEFINE r == Perform(d, {"s_a", "a_o", "mwrite"})
           byte == d.A
<1>0. ~ d.paging /\ d.S = UnderCell
  BY DEF EnterControl, UnderCell
<1>1. byte \in Bytes
  BY DEF Datapath
<1>2. Does(d, r, d.A, d.S, d.PC, d.X,
           Store(d.kernel, UnderCell, byte), d.lines, d.inten, d.paging)
  BY <1>0, PushesA
<1> HIDE DEF r, byte
<1>3. \A x : Stored(Store(d.kernel, UnderCell, byte), x) =
        IF x = UnderCell THEN byte ELSE Stored(d.kernel, x)
  BY <1>1, CellWords, Cells
<1>4. \A x : Stored(r.kernel, x) = IF x = UnderCell THEN byte ELSE Stored(d.kernel, x)
  BY <1>2, <1>3 DEF Does
<1>6. EnterControl(11, r)
  BY <1>2 DEF Does, EnterControl
<1>7. EnteringFault(11, r) <=> EnteringFault(10, d)
  BY <1>2 DEF Does, EnteringFault
<1>8. Enters(10, d, u) => Enters(11, r, u)
  BY <1>2, <1>4, CellsDiffer DEF Does, Enters, Apart, Reg1, Reg2, Reg3, Top, Under, byte
<1>9. \A v \in Served : Stored(r.kernel, v) = Stored(d.kernel, v)
  BY <1>4, CellsDiffer
<1> QED BY <1>2, <1>6, <1>7, <1>8, <1>9 DEF Does, Entered, r

LEMMA Enter11 ==
  ASSUME NEW d \in Datapath, NEW u \in View, d.IR = int, EnterControl(11, d)
  PROVE  Entered(11, d, Perform(d, {"iv_o", "xl_i"}), u)
<1> DEFINE r == Perform(d, {"iv_o", "xl_i"})
<1>2. Does(d, r, d.A, d.S, d.PC, SetLow(d.X, Vector(d.lines)),
           d.kernel, {}, FALSE, d.paging)
  BY VectorToX
<1> HIDE DEF r
<1> DEFINE vector == Vector(d.lines)
           x == SetLow(d.X, vector)
<1>5. /\ vector \in Bytes
      /\ IF 0 \in d.lines THEN vector = 0 ELSE vector \in {16, 48}
  BY VectorIs DEF EnterControl, Datapath
<1> HIDE DEF vector
<1>51. LowByte(x) = vector
  BY <1>5, SetParts DEF Datapath
<1>52. r.X = x /\ r.lines = {} /\ r.inten = FALSE /\ r.S = d.S /\ r.paging = d.paging
  BY <1>2 DEF Does, vector
<1> HIDE DEF x
<1>6. EnterControl(12, r)
  BY <1>5, <1>51, <1>52 DEF EnterControl
<1>7. EnteringFault(12, r) <=> EnteringFault(11, d)
  BY <1>5, <1>51, <1>52 DEF EnteringFault
<1>8. Enters(11, d, u) => Enters(12, r, u)
  BY <1>2 DEF Does, Enters, Apart, Reg1, Reg2, Reg3, Top, Under
<1>9. \A v \in Served : Stored(r.kernel, v) = Stored(d.kernel, v)
  BY <1>2 DEF Does
<1> QED BY <1>2, <1>6, <1>7, <1>8, <1>9 DEF Does, Entered, r

LEMMA Enter12 ==
  ASSUME NEW d \in Datapath, NEW u \in View, d.IR = int, EnterControl(12, d)
  PROVE  Entered(12, d, Perform(d, {"sh_o", "a_i"}), u)
<1> DEFINE r == Perform(d, {"sh_o", "a_i"})
<1>2. Does(d, r, HighByte(d.S), d.S, d.PC, d.X,
           d.kernel, d.lines, d.inten, d.paging)
  BY HighSToA
<1> HIDE DEF r
<1>6. EnterControl(13, r)
  BY <1>2, Pointers DEF Does, EnterControl
<1>7. EnteringFault(13, r) <=> EnteringFault(12, d)
  BY <1>2 DEF Does, EnteringFault
<1>8. Enters(12, d, u) => Enters(13, r, u)
  BY <1>2 DEF Does, Enters, Apart, Reg1, Reg2, Reg3, Top, Under
<1>9. \A v \in Served : Stored(r.kernel, v) = Stored(d.kernel, v)
  BY <1>2 DEF Does
<1> QED BY <1>2, <1>6, <1>7, <1>8, <1>9 DEF Does, Entered, r

LEMMA Enter13 ==
  ASSUME NEW d \in Datapath, NEW u \in View, d.IR = int, EnterControl(13, d)
  PROVE  Entered(13, d, Perform(d, {"a_o", "xh_i"}), u)
<1> DEFINE r == Perform(d, {"a_o", "xh_i"})
<1>2. Does(d, r, d.A, d.S, d.PC, SetHigh(d.X, d.A),
           d.kernel, d.lines, d.inten, d.paging)
  BY AToHighX
<1> HIDE DEF r
<1> DEFINE x == SetHigh(d.X, d.A)
<1>5. d.A = 255 /\ LowByte(d.X) \in {0, 16, 48}
  BY DEF EnterControl
<1>51. x = 256 * 255 + LowByte(d.X)
  BY <1>5 DEF SetHigh
<1>52. LowByte(x) = LowByte(d.X)
  BY SetParts DEF Datapath
<1>53. r.X = x
  BY <1>2 DEF Does
<1>54. x \in Served
  BY <1>5, <1>51, Hexes DEF Served
<1> HIDE DEF x
<1>6. EnterControl(14, r)
  BY <1>2, <1>53, <1>54 DEF Does, EnterControl
<1>7. EnteringFault(14, r) <=> EnteringFault(13, d)
  BY <1>2, <1>52, <1>53 DEF Does, EnteringFault
<1>8. Enters(13, d, u) => Enters(14, r, u)
  BY <1>2 DEF Does, Enters, Apart, Reg1, Reg2, Reg3, Top, Under
<1>9. \A v \in Served : Stored(r.kernel, v) = Stored(d.kernel, v)
  BY <1>2 DEF Does
<1> QED BY <1>2, <1>6, <1>7, <1>8, <1>9 DEF Does, Entered, r

LEMMA Enter14 ==
  ASSUME NEW d \in Datapath, NEW u \in View, d.IR = int, EnterControl(14, d)
  PROVE  Entered(14, d, Perform(d, {"sl--"}), u)
<1> DEFINE r == Perform(d, {"sl--"})
<1>2. Does(d, r, d.A, Plus(d.S, 65535), d.PC, d.X,
           d.kernel, d.lines, d.inten, d.paging)
  BY Decrements
<1> HIDE DEF r
<1>6. EnterControl(15, r)
  BY <1>2, Pointers DEF Does, EnterControl
<1>7. EnteringFault(15, r) <=> EnteringFault(14, d)
  BY <1>2 DEF Does, EnteringFault
<1>8. Enters(14, d, u) => Enters(15, r, u)
  BY <1>2 DEF Does, Enters, Apart, Reg1, Reg2, Reg3, Top, Under
<1>9. \A v \in Served : Stored(r.kernel, v) = Stored(d.kernel, v)
  BY <1>2 DEF Does
<1> QED BY <1>2, <1>6, <1>7, <1>8, <1>9 DEF Does, Entered, r
(* The last one goes on at the vector, with paging off and all registers saved. *)
LEMMA Enter15 ==
  ASSUME NEW d \in Datapath, NEW u \in View, d.IR = int, EnterControl(15, d)
  PROVE  LET r == Perform(d, {"pc_switch"})
         IN  /\ r.IR = int /\ r.bkIR = d.bkIR
             /\ ~ r.paging /\ ~ r.inten /\ 0 \notin r.lines /\ r.PC \in Served /\ r.S = 65533
             /\ r.PC = \hFF00 <=> EnteringFault(15, d)
             /\ \A v \in Served : Stored(r.kernel, v) = Stored(d.kernel, v)
             /\ Enters(15, d, u) => Saves(r, u) /\ r.X = u.X
<1> DEFINE r == Perform(d, {"pc_switch"})
<1>1. (d.IR % 16) = 15
  BY Hexes
<1>2. Does(d, r, d.A, d.S, d.X, d.PC, d.kernel, d.lines, d.inten, d.paging)
  BY <1>1, Switches
<1> HIDE DEF r
<1>3. ~ r.paging /\ ~ r.inten /\ 0 \notin r.lines /\ r.PC \in Served /\ r.S = 65533
  BY <1>2 DEF Does, EnterControl
<1>4. /\ LowByte(65280) = 0 /\ LowByte(65296) = 16 /\ LowByte(65328) = 48
  BY DEF LowByte
<1>5. r.PC = \hFF00 <=> EnteringFault(15, d)
  <2>1. r.PC = d.X /\ d.X \in Served
    BY <1>2 DEF Does, EnterControl
  <2> QED BY <2>1, <1>4, Hexes DEF Served, EnteringFault
<1>6. Enters(15, d, u) => Saves(r, u) /\ r.X = u.X
  BY <1>2 DEF Does, Enters, Saves, Apart, Reg1, Reg2, Reg3, Top, Under
<1> QED BY <1>2, <1>3, <1>5, <1>6 DEF Does, r

(* The same for a return.                                                    *)
Left(n, d, r, u) ==
  /\ r.IR = d.IR /\ r.bkIR = d.bkIR
  /\ ReturnControl(n + 1, r)
  /\ \A v \in Served : Stored(r.kernel, v) = Stored(d.kernel, v)
  /\ Leaving(n, d, u) => Leaving(n + 1, r, u)

(* The microsteps both returns have, and the last but one of iretf.          *)
LEMMA Leave1 ==
  ASSUME NEW d \in Datapath, NEW u \in View, d.IR \in Returns, ReturnControl(1, d)
  PROVE  Left(1, d, Perform(d, {"pc_switch"}), u)
<1> DEFINE r == Perform(d, {"pc_switch"})
<1>1. (d.IR % 16) = 15
  BY Hexes DEF Returns
<1>2. Does(d, r, d.A, d.S, d.X, d.PC,
           d.kernel, d.lines, d.inten, d.paging)
  BY <1>1, Switches
<1> HIDE DEF r
<1>6. ReturnControl(2, r)
  BY <1>2 DEF Does, ReturnControl, Returns
<1>8. Leaving(1, d, u) => Leaving(2, r, u)
  BY <1>2 DEF Does, Leaving, Saves, Apart, Reg1, Reg2, Reg3, Top, Under
<1> QED BY <1>2, <1>6, <1>8 DEF Does, Left, r

LEMMA Leave2 ==
  ASSUME NEW d \in Datapath, NEW u \in View, d.IR \in Returns, ReturnControl(2, d)
  PROVE  Left(2, d, Perform(d, {"sl++"}), u)
<1> DEFINE r == Perform(d, {"sl++"})
<1>2. Does(d, r, d.A, Plus(d.S, 1), d.PC, d.X,
           d.kernel, d.lines, d.inten, d.paging)
  BY Increments
<1> HIDE DEF r
<1>6. ReturnControl(3, r)
  BY <1>2, Pointers DEF Does, ReturnControl, Returns
<1>8. Leaving(2, d, u) => Leaving(3, r, u)
  BY <1>2 DEF Does, Leaving, Saves, Apart, Reg1, Reg2, Reg3, Top, Under
<1> QED BY <1>2, <1>6, <1>8 DEF Does, Left, r

LEMMA Leave3 ==
  ASSUME NEW d \in Datapath, NEW u \in View, d.IR \in Returns, ReturnControl(3, d)
  PROVE  Left(3, d, Perform(d, {"s_a", "mread", "a_i"}), u)
<1> DEFINE r == Perform(d, {"s_a", "mread", "a_i"})
<1>1. ~ d.paging /\ d.S = UnderCell
  BY DEF ReturnControl, UnderCell
<1>2. Does(d, r, Stored(d.kernel, d.S), d.S, d.PC, d.X,
           d.kernel, d.lines, d.inten, d.paging)
  BY <1>1, PopsA
<1> HIDE DEF r
<1>6. ReturnControl(4, r)
  BY <1>2 DEF Does, ReturnControl, Returns
<1>8. Leaving(3, d, u) => Leaving(4, r, u)
  BY <1>1, <1>2 DEF Does, Leaving, Saves, Apart, Reg1, Reg2, Reg3, Top, Under
<1> QED BY <1>2, <1>6, <1>8 DEF Does, Left, r

LEMMA Leave4 ==
  ASSUME NEW d \in Datapath, NEW u \in View, d.IR \in Returns, ReturnControl(4, d)
  PROVE  Left(4, d, Perform(d, {"a_o", "xl_i"}), u)
<1> DEFINE r == Perform(d, {"a_o", "xl_i"})
<1>1. LowByte(SetLow(d.X, d.A)) = d.A
  BY SetParts DEF Datapath
<1>2. Does(d, r, d.A, d.S, d.PC, SetLow(d.X, d.A),
           d.kernel, d.lines, d.inten, d.paging)
  BY AToLowX
<1> HIDE DEF r
<1>6. ReturnControl(5, r)
  BY <1>2 DEF Does, ReturnControl, Returns
<1>8. Leaving(4, d, u) => Leaving(5, r, u)
  BY <1>1, <1>2 DEF Does, Leaving, Saves, Apart, Reg1, Reg2, Reg3, Top, Under
<1> QED BY <1>2, <1>6, <1>8 DEF Does, Left, r

LEMMA Leave5 ==
  ASSUME NEW d \in Datapath, NEW u \in View, d.IR \in Returns, ReturnControl(5, d)
  PROVE  Left(5, d, Perform(d, {"sl++"}), u)
<1> DEFINE r == Perform(d, {"sl++"})
<1>2. Does(d, r, d.A, Plus(d.S, 1), d.PC, d.X,
           d.kernel, d.lines, d.inten, d.paging)
  BY Increments
<1> HIDE DEF r
<1>6. ReturnControl(6, r)
  BY <1>2, Pointers DEF Does, ReturnControl, Returns
<1>8. Leaving(5, d, u) => Leaving(6, r, u)
  BY <1>2 DEF Does, Leaving, Saves, Apart, Reg1, Reg2, Reg3, Top, Under
<1> QED BY <1>2, <1>6, <1>8 DEF Does, Left, r

LEMMA Leave6 ==
  ASSUME NEW d \in Datapath, NEW u \in View, d.IR \in Returns, ReturnControl(6, d)
  PROVE  Left(6, d, Perform(d, {"s_a", "mread", "a_i"}), u)
<1> DEFINE r == Perform(d, {"s_a", "mread", "a_i"})
<1>1. ~ d.paging /\ d.S = TopCell
  BY DEF ReturnControl, TopCell
<1>2. Does(d, r, Stored(d.kernel, d.S), d.S, d.PC, d.X,
           d.kernel, d.lines, d.inten, d.paging)
  BY <1>1, PopsA
<1> HIDE DEF r
<1>6. ReturnControl(7, r)
  BY <1>2 DEF Does, ReturnControl, Returns
<1>8. Leaving(6, d, u) => Leaving(7, r, u)
  BY <1>1, <1>2 DEF Does, Leaving, Saves, Apart, Reg1, Reg2, Reg3, Top, Under
<1> QED BY <1>2, <1>6, <1>8 DEF Does, Left, r

LEMMA Leave7 ==
  ASSUME NEW d \in Datapath, NEW u \in View, d.IR \in Returns, ReturnControl(7, d)
  PROVE  Left(7, d, Perform(d, {"a_o", "xh_i"}), u)
<1> DEFINE r == Perform(d, {"a_o", "xh_i"})
<1>1. /\ SetHigh(d.X, d.A) \in Words /\ LowByte(SetHigh(d.X, d.A)) = LowByte(d.X)
      /\ HighByte(SetHigh(d.X, d.A)) = d.A
  BY SetParts DEF Datapath
<1>11. Leaving(7, d, u) => SetHigh(d.X, d.A) = u.PC
  BY <1>1, SameParts DEF Leaving, View
<1>2. Does(d, r, d.A, d.S, d.PC, SetHigh(d.X, d.A),
           d.kernel, d.lines, d.inten, d.paging)
  BY AToHighX
<1> HIDE DEF r
<1>6. ReturnControl(8, r)
  BY <1>2 DEF Does, ReturnControl, Returns
<1>8. Leaving(7, d, u) => Leaving(8, r, u)
  BY <1>11, <1>2 DEF Does, Leaving, Saves, Apart, Reg1, Reg2, Reg3, Top, Under
<1> QED BY <1>2, <1>6, <1>8 DEF Does, Left, r

LEMMA Leave8 ==
  ASSUME NEW d \in Datapath, NEW u \in View, d.IR \in Returns, ReturnControl(8, d)
  PROVE  Left(8, d, Perform(d, {"sel_a", "reg3", "mread", "a_i", "s_rst"}), u)
<1> DEFINE r == Perform(d, {"sel_a", "reg3", "mread", "a_i", "s_rst"})
<1>2. Does(d, r, Stored(d.kernel, ACell), 0, d.PC, d.X,
           d.kernel, d.lines, d.inten, FALSE)
  BY GivesA
<1> HIDE DEF r
<1>6. ReturnControl(9, r)
  BY <1>2 DEF Does, ReturnControl, Returns
<1>8. Leaving(8, d, u) => Leaving(9, r, u)
  BY <1>2 DEF Does, Leaving, Saves, Apart, Reg1, Reg2, Reg3, Top, Under
<1> QED BY <1>2, <1>6, <1>8 DEF Does, Left, r

LEMMA Leave9 ==
  ASSUME NEW d \in Datapath, NEW u \in View, d.IR \in Returns, ReturnControl(9, d)
  PROVE  Left(9, d, Perform(d, {"sel_a", "reg1", "mread", "sh_i"}), u)
<1> DEFINE r == Perform(d, {"sel_a", "reg1", "mread", "sh_i"})
<1> DEFINE high == Stored(d.kernel, HighCell)
           s == SetHigh(d.S, high)
<1>11. high \in Bytes
  BY StoredByte DEF Datapath
<1> HIDE DEF high
<1>1. HighByte(s) = high
  BY <1>11, SetParts DEF Datapath
<1>2. Does(d, r, d.A, SetHigh(d.S, Stored(d.kernel, HighCell)), d.PC, d.X,
           d.kernel, d.lines, d.inten, FALSE)
  BY GivesHighS DEF high
<1> HIDE DEF r, s
<1>6. ReturnControl(10, r)
  BY <1>2 DEF Does, ReturnControl, Returns
<1>8. Leaving(9, d, u) => Leaving(10, r, u)
  BY <1>1, <1>2 DEF Does, Leaving, Saves, Apart, Reg1, Reg2, Reg3, Top, Under, high, s
<1> QED BY <1>2, <1>6, <1>8 DEF Does, Left, r

LEMMA Leave10 ==
  ASSUME NEW d \in Datapath, NEW u \in View, d.IR \in Returns, ReturnControl(10, d)
  PROVE  Left(10, d, Perform(d, {"sel_a", "reg2", "mread", "sl_i"}), u)
<1> DEFINE r == Perform(d, {"sel_a", "reg2", "mread", "sl_i"})
<1> DEFINE low == Stored(d.kernel, LowCell)
           s == SetLow(d.S, low)
<1>11. low \in Bytes
  BY StoredByte DEF Datapath
<1> HIDE DEF low
<1>1. s \in Words /\ LowByte(s) = low /\ HighByte(s) = HighByte(d.S)
  BY <1>11, SetParts DEF Datapath
<1>12. Leaving(10, d, u) => s = u.S
  <2> SUFFICES ASSUME Leaving(10, d, u) PROVE s = u.S
    OBVIOUS
  <2>1. u.S \in Words
    BY DEF View
  <2>2. LowByte(s) = LowByte(u.S) /\ HighByte(s) = HighByte(u.S)
    BY <1>1 DEF Leaving, Saves, Reg2, low
  <2> HIDE DEF s
  <2> QED BY <1>1, <2>1, <2>2, SameParts
<1>2. Does(d, r, d.A, SetLow(d.S, Stored(d.kernel, LowCell)), d.PC, d.X,
           d.kernel, d.lines, d.inten, FALSE)
  BY GivesLowS DEF low
<1> HIDE DEF r, s
<1>6. ReturnControl(11, r)
  BY <1>2 DEF Does, ReturnControl, Returns
<1>8. Leaving(10, d, u) => Leaving(11, r, u)
  BY <1>12, <1>2 DEF Does, Leaving, Saves, Apart, Reg1, Reg2, Reg3, Top, Under, low, s
<1> QED BY <1>2, <1>6, <1>8 DEF Does, Left, r

LEMMA Leave11 ==
  ASSUME NEW d \in Datapath, NEW u \in View, d.IR \in Returns, ReturnControl(11, d)
  PROVE  Left(11, d, Perform(d, {"pc_switch"}), u)
<1> DEFINE r == Perform(d, {"pc_switch"})
<1>1. (d.IR % 16) = 15
  BY Hexes DEF Returns
<1>2. Does(d, r, d.A, d.S, d.X, d.PC,
           d.kernel, d.lines, d.inten, d.paging)
  BY <1>1, Switches
<1> HIDE DEF r
<1>6. ReturnControl(12, r)
  BY <1>2 DEF Does, ReturnControl, Returns, iret, iretf
<1>8. Leaving(11, d, u) => Leaving(12, r, u)
  BY <1>2 DEF Does, Leaving, Saves, Apart, Reg1, Reg2, Reg3, Top, Under
<1> QED BY <1>2, <1>6, <1>8 DEF Does, Left, r

LEMMA Leave12 ==
  ASSUME NEW d \in Datapath, NEW u \in View, d.IR = iretf, ReturnControl(12, d)
  PROVE  Left(12, d, Perform(d, {"load_fault", "off_i"}), u)
<1> DEFINE r == Perform(d, {"load_fault", "off_i"})
<1>2. Does(d, r, d.A, d.S, d.PC, d.X,
           d.kernel, d.lines, d.inten, d.paging)
  BY RestoresOff
<1> HIDE DEF r
<1>6. ReturnControl(13, r)
  BY <1>2 DEF Does, ReturnControl, iret, iretf
<1>8. Leaving(12, d, u) => Leaving(13, r, u)
  BY <1>2 DEF Does, Leaving, Saves, Apart, Reg1, Reg2, Reg3, Top, Under
<1> QED BY <1>2, <1>6, <1>8 DEF Does, Left, r

LEMMA Leave13 ==
  ASSUME NEW d \in Datapath, NEW u \in View, d.IR = iretf, ReturnControl(13, d)
  PROVE  Left(13, d, Perform(d, {"ei"}), u)
<1> DEFINE r == Perform(d, {"ei"})
<1>2. Does(d, r, d.A, d.S, d.PC, d.X,
           d.kernel, d.lines, TRUE, TRUE)
  BY Enables
<1> HIDE DEF r
<1>6. ReturnControl(14, r)
  BY <1>2 DEF Does, ReturnControl, iret, iretf
<1>8. Leaving(13, d, u) => Leaving(14, r, u)
  BY <1>2 DEF Does, Leaving, Saves, Apart, Reg1, Reg2, Reg3, Top, Under
<1> QED BY <1>2, <1>6, <1>8 DEF Does, Left, r

(* The last one of iret turns paging on, with all registers given back.      *)
LEMMA LeaveLast ==
  ASSUME NEW d \in Datapath, NEW u \in View, d.IR = iret, ReturnControl(12, d)
  PROVE  LET r == Perform(d, {"ei"})
         IN  /\ r.IR = iret /\ r.bkIR = d.bkIR
             /\ r.paging /\ r.inten /\ 0 \notin r.lines
             /\ \A v \in Served : Stored(r.kernel, v) = Stored(d.kernel, v)
             /\ Leaving(12, d, u) => Atomic!Visible(r) = u
<1> DEFINE r == Perform(d, {"ei"})
<1>2. Does(d, r, d.A, d.S, d.PC, d.X, d.kernel, d.lines, TRUE, TRUE)
  BY Enables
<1> HIDE DEF r
<1>3. 0 \notin r.lines
  BY <1>2 DEF Does, ReturnControl
<1>4. Leaving(12, d, u) => Atomic!Visible(r) = u
  <2> SUFFICES ASSUME Leaving(12, d, u) PROVE Atomic!Visible(r) = u
    OBVIOUS
  <2>1. /\ r.A = u.A /\ r.B = u.B /\ r.F = u.F /\ r.M = u.M /\ r.S = u.S
        /\ r.PC = u.PC /\ r.X = u.X /\ r.user = u.user
    BY <1>2 DEF Does, Leaving, Saves, Apart
  <2> QED BY <2>1 DEF View, Atomic!Visible
<1> QED BY <1>2, <1>3, <1>4 DEF Does, r

(* The last one of iretf takes the instruction from the backup.              *)
LEMMA LeaveFault ==
  ASSUME NEW d \in Datapath, NEW u \in View, d.IR = iretf, ReturnControl(14, d)
  PROVE  LET r == Perform(d, {"load_fault", "ir_i"})
         IN  /\ r.IR = d.bkIR /\ r.bkIR = d.bkIR
             /\ r.paging /\ r.inten /\ 0 \notin r.lines
             /\ \A v \in Served : Stored(r.kernel, v) = Stored(d.kernel, v)
             /\ Leaving(14, d, u) => Atomic!Visible(r) = u
<1> DEFINE step == {"load_fault", "ir_i"}
           r == Perform(d, step)
<1>1. Leaves(d, step, Bus(d, step), Where(d, step), r)
  BY PerformLeaves
<1> HIDE DEF r
<1>2. r.IR = d.bkIR /\ r.bkIR = d.bkIR /\ r.lines = d.lines /\ r.kernel = d.kernel
  BY <1>1 DEF Leaves
<1>3. r.paging = d.paging /\ r.inten = d.inten
  BY <1>1, Stays DEF Leaves
<1>4. /\ r.A = d.A /\ r.B = d.B /\ r.F = d.F /\ r.M = d.M /\ r.S = d.S
      /\ r.PC = d.PC /\ r.X = d.X /\ r.user = d.user
  BY <1>1, Stays DEF Leaves
<1>5. r.paging /\ r.inten /\ 0 \notin r.lines
  BY <1>2, <1>3 DEF ReturnControl
<1>6. Leaving(14, d, u) => Atomic!Visible(r) = u
  <2> SUFFICES ASSUME Leaving(14, d, u) PROVE Atomic!Visible(r) = u
    OBVIOUS
  <2>1. /\ r.A = u.A /\ r.B = u.B /\ r.F = u.F /\ r.M = u.M /\ r.S = u.S
        /\ r.PC = u.PC /\ r.X = u.X /\ r.user = u.user
    BY <1>4 DEF Leaving, Saves, Apart
  <2> QED BY <2>1 DEF View, Atomic!Visible
<1> QED BY <1>2, <1>5, <1>6 DEF r, step
(* The microprograms of the interrupt and of the two returns.                *)
LEMMA Microprograms ==
  /\ Program(int) = EnterKernel
  /\ Program(iret) = Reload \o <<{"ei"}>>
  /\ Program(iretf) = Reload \o Resume
<1>1. /\ 255 \div 16 = 15 /\ 255 % 16 = 15
      /\ 15 \div 16 = 0 /\ 47 \div 16 = 2
  OBVIOUS
<1>2. Program(int) = EnterKernel
  <2>1. Program(255) = StackProgram(15)
    BY <1>1 DEF Program
  <2>2. StackProgram(15) = EnterKernel
    BY DEF StackProgram
  <2> QED BY <2>1, <2>2, Hexes
<1>3. Program(15) = ControlProgram(15) /\ Program(47) = ControlProgram(47)
  BY <1>1 DEF Program
<1>4. ControlProgram(15) = Reload \o <<{"ei"}>> /\ ControlProgram(47) = Reload \o Resume
  BY DEF ControlProgram
<1> QED BY <1>2, <1>3, <1>4, Hexes

(* Their pieces are sequences of sets of signals,                            *)
LEMMA ReturnPieces ==
  \E T : /\ Reload \in Seq(T) /\ Resume \in Seq(T) /\ <<{"ei"}>> \in Seq(T)
<1> DEFINE T == SUBSET {"pc_switch", "sl++", "s_a", "mread", "a_i", "a_o", "xl_i", "xh_i", "sel_a",
                  "reg3", "s_rst", "reg1", "sh_i", "reg2", "sl_i", "load_fault", "off_i", "ei", "ir_i"}
<1>1. /\ {"pc_switch"} \in T /\ {"sl++"} \in T /\ {"s_a", "mread", "a_i"} \in T
      /\ {"a_o", "xl_i"} \in T /\ {"a_o", "xh_i"} \in T
      /\ {"sel_a", "reg3", "mread", "a_i", "s_rst"} \in T
      /\ {"sel_a", "reg1", "mread", "sh_i"} \in T /\ {"sel_a", "reg2", "mread", "sl_i"} \in T
  OBVIOUS
<1>2. {"load_fault", "off_i"} \in T /\ {"ei"} \in T /\ {"load_fault", "ir_i"} \in T
  OBVIOUS
<1> HIDE DEF T
<1>3. Reload \in Seq(T)
  BY <1>1 DEF Reload
<1>4. Resume \in Seq(T) /\ <<{"ei"}>> \in Seq(T)
  BY <1>2 DEF Resume
<1> QED BY <1>3, <1>4

(* so long,                                                                  *)
LEMMA ReturnLengths ==
  Len(Reload) = 11 /\ Len(Resume) = 3 /\ Len(<<{"ei"}>>) = 1
BY DEF Reload, Resume
(* with these microsteps.                                                    *)
LEMMA ReturnElems ==
  /\ <<{"ei"}>>[1] = {"ei"}
  /\ Resume[1] = {"load_fault", "off_i"} /\ Resume[2] = {"ei"}
  /\ Resume[3] = {"load_fault", "ir_i"}
BY DEF Resume
(* The microsteps of the returns,                                            *)
LEMMA ReturnSteps ==
  /\ Len(Program(iret)) = 12 /\ Len(Program(iretf)) = 14
  /\ \A n \in 1 .. 11 : Program(iret)[n] = Reload[n] /\ Program(iretf)[n] = Reload[n]
  /\ Program(iret)[12] = {"ei"}
  /\ Program(iretf)[12] = {"load_fault", "off_i"}
  /\ Program(iretf)[13] = {"ei"}
  /\ Program(iretf)[14] = {"load_fault", "ir_i"}
<1> DEFINE p == Reload
           q == <<{"ei"}>>
           s == Resume
<1>1. PICK T : p \in Seq(T) /\ s \in Seq(T) /\ q \in Seq(T)
  BY ReturnPieces
<1>2. Len(p) = 11 /\ Len(s) = 3 /\ Len(q) = 1
  BY ReturnLengths
<1>3. /\ q[1] = {"ei"}
      /\ s[1] = {"load_fault", "off_i"} /\ s[2] = {"ei"} /\ s[3] = {"load_fault", "ir_i"}
  BY ReturnElems
<1>4. Program(iret) = p \o q /\ Program(iretf) = p \o s
  BY Microprograms
<1> HIDE DEF p, q, s
<1>10. /\ Len(p \o q) = Len(p) + Len(q)
       /\ \A i \in 1 .. Len(p) + Len(q) :
            (p \o q)[i] = IF i <= Len(p) THEN p[i] ELSE q[i - Len(p)]
  BY <1>1, ConcatProperties
<1>11. /\ Len(p \o s) = Len(p) + Len(s)
       /\ \A i \in 1 .. Len(p) + Len(s) :
            (p \o s)[i] = IF i <= Len(p) THEN p[i] ELSE s[i - Len(p)]
  BY <1>1, ConcatProperties
<1>5. /\ Len(p \o q) = 12 /\ (p \o q)[12] = q[1]
      /\ \A n \in 1 .. 11 : (p \o q)[n] = p[n]
  BY <1>2, <1>10, SMTT(30)
<1>6. /\ Len(p \o s) = 14 /\ (p \o s)[12] = s[1] /\ (p \o s)[13] = s[2] /\ (p \o s)[14] = s[3]
      /\ \A n \in 1 .. 11 : (p \o s)[n] = p[n]
  BY <1>2, <1>11, SMTT(30)
<1> QED BY <1>3, <1>4, <1>5, <1>6 DEF p

(* and of the piece they share.                                              *)
LEMMA ReloadSteps ==
  /\ Reload[1] = {"pc_switch"}
  /\ Reload[2] = {"sl++"}
  /\ Reload[3] = {"s_a", "mread", "a_i"}
  /\ Reload[4] = {"a_o", "xl_i"}
  /\ Reload[5] = {"sl++"}
  /\ Reload[6] = {"s_a", "mread", "a_i"}
  /\ Reload[7] = {"a_o", "xh_i"}
  /\ Reload[8] = {"sel_a", "reg3", "mread", "a_i", "s_rst"}
  /\ Reload[9] = {"sel_a", "reg1", "mread", "sh_i"}
  /\ Reload[10] = {"sel_a", "reg2", "mread", "sl_i"}
  /\ Reload[11] = {"pc_switch"}
BY DEF Reload

(* Every microstep of the entry but the last one leads to the next one.      *)
LEMMA EntryStep ==
  ASSUME NEW d \in Datapath, NEW u \in View, NEW n \in 1 .. 14, d.IR = int, EnterControl(n, d)
  PROVE  Entered(n, d, Perform(d, Program(int)[n]), u)
<1>1. CASE n = 1
  BY <1>1, Microprograms, EntrySteps, Enter1
<1>2. CASE n = 2
  BY <1>2, Microprograms, EntrySteps, Enter2
<1>3. CASE n = 3
  BY <1>3, Microprograms, EntrySteps, Enter3
<1>4. CASE n = 4
  BY <1>4, Microprograms, EntrySteps, Enter4
<1>5. CASE n = 5
  BY <1>5, Microprograms, EntrySteps, Enter5
<1>6. CASE n = 6
  BY <1>6, Microprograms, EntrySteps, Enter6
<1>7. CASE n = 7
  BY <1>7, Microprograms, EntrySteps, Enter7
<1>8. CASE n = 8
  BY <1>8, Microprograms, EntrySteps, Enter8
<1>9. CASE n = 9
  BY <1>9, Microprograms, EntrySteps, Enter9
<1>10. CASE n = 10
  BY <1>10, Microprograms, EntrySteps, Enter10
<1>11. CASE n = 11
  BY <1>11, Microprograms, EntrySteps, Enter11
<1>12. CASE n = 12
  BY <1>12, Microprograms, EntrySteps, Enter12
<1>13. CASE n = 13
  BY <1>13, Microprograms, EntrySteps, Enter13
<1>14. CASE n = 14
  BY <1>14, Microprograms, EntrySteps, Enter14
<1> QED BY <1>1, <1>2, <1>3, <1>4, <1>5, <1>6, <1>7, <1>8, <1>9, <1>10, <1>11, <1>12, <1>13, <1>14

(* So does every microstep of a return but the last one.                     *)
LEMMA ReturnStep ==
  ASSUME NEW d \in Datapath, NEW u \in View, NEW n \in 1 .. 13, d.IR \in Returns,
         d.IR = iret => n <= 11, ReturnControl(n, d)
  PROVE  Left(n, d, Perform(d, Program(d.IR)[n]), u)
<1> DEFINE step == Program(d.IR)[n]
<1>0. n <= 11 => step = Reload[n]
  BY ReturnSteps DEF Returns
<1>1. CASE n = 1
  <2>1. step = {"pc_switch"}
    BY <1>0, <1>1, ReloadSteps
  <2>2. Left(1, d, Perform(d, {"pc_switch"}), u)
    BY <1>1, Leave1
  <2> QED BY <1>1, <2>1, <2>2
<1>2. CASE n = 2
  <2>1. step = {"sl++"}
    BY <1>0, <1>2, ReloadSteps
  <2>2. Left(2, d, Perform(d, {"sl++"}), u)
    BY <1>2, Leave2
  <2> QED BY <1>2, <2>1, <2>2
<1>3. CASE n = 3
  <2>1. step = {"s_a", "mread", "a_i"}
    BY <1>0, <1>3, ReloadSteps
  <2>2. Left(3, d, Perform(d, {"s_a", "mread", "a_i"}), u)
    BY <1>3, Leave3
  <2> QED BY <1>3, <2>1, <2>2
<1>4. CASE n = 4
  <2>1. step = {"a_o", "xl_i"}
    BY <1>0, <1>4, ReloadSteps
  <2>2. Left(4, d, Perform(d, {"a_o", "xl_i"}), u)
    BY <1>4, Leave4
  <2> QED BY <1>4, <2>1, <2>2
<1>5. CASE n = 5
  <2>1. step = {"sl++"}
    BY <1>0, <1>5, ReloadSteps
  <2>2. Left(5, d, Perform(d, {"sl++"}), u)
    BY <1>5, Leave5
  <2> QED BY <1>5, <2>1, <2>2
<1>6. CASE n = 6
  <2>1. step = {"s_a", "mread", "a_i"}
    BY <1>0, <1>6, ReloadSteps
  <2>2. Left(6, d, Perform(d, {"s_a", "mread", "a_i"}), u)
    BY <1>6, Leave6
  <2> QED BY <1>6, <2>1, <2>2
<1>7. CASE n = 7
  <2>1. step = {"a_o", "xh_i"}
    BY <1>0, <1>7, ReloadSteps
  <2>2. Left(7, d, Perform(d, {"a_o", "xh_i"}), u)
    BY <1>7, Leave7
  <2> QED BY <1>7, <2>1, <2>2
<1>8. CASE n = 8
  <2>1. step = {"sel_a", "reg3", "mread", "a_i", "s_rst"}
    BY <1>0, <1>8, ReloadSteps
  <2>2. Left(8, d, Perform(d, {"sel_a", "reg3", "mread", "a_i", "s_rst"}), u)
    BY <1>8, Leave8
  <2> QED BY <1>8, <2>1, <2>2
<1>9. CASE n = 9
  <2>1. step = {"sel_a", "reg1", "mread", "sh_i"}
    BY <1>0, <1>9, ReloadSteps
  <2>2. Left(9, d, Perform(d, {"sel_a", "reg1", "mread", "sh_i"}), u)
    BY <1>9, Leave9
  <2> QED BY <1>9, <2>1, <2>2
<1>10. CASE n = 10
  <2>1. step = {"sel_a", "reg2", "mread", "sl_i"}
    BY <1>0, <1>10, ReloadSteps
  <2>2. Left(10, d, Perform(d, {"sel_a", "reg2", "mread", "sl_i"}), u)
    BY <1>10, Leave10
  <2> QED BY <1>10, <2>1, <2>2
<1>11. CASE n = 11
  <2>1. step = {"pc_switch"}
    BY <1>0, <1>11, ReloadSteps
  <2>2. Left(11, d, Perform(d, {"pc_switch"}), u)
    BY <1>11, Leave11
  <2> QED BY <1>11, <2>1, <2>2
<1>12. CASE n >= 12
  <2>1. d.IR = iretf
    BY <1>12 DEF Returns
  <2>2. CASE n = 12
    BY <2>1, <2>2, ReturnSteps, Leave12
  <2>3. CASE n = 13
    BY <2>1, <2>3, ReturnSteps, Leave13
  <2> QED BY <1>12, <2>2, <2>3
<1> HIDE DEF step
<1> QED BY <1>1, <1>2, <1>3, <1>4, <1>5, <1>6, <1>7, <1>8, <1>9, <1>10, <1>11, <1>12 DEF step

(***************************************************************************)
(* The inductive invariant, and what holds of the steps between the        *)
(* microprograms.                                                          *)
(***************************************************************************)
Types ==
  /\ c \in Datapath /\ mpc \in Nat /\ bkmpc \in Nat /\ recovery \in BOOLEAN /\ arch \in View

(* The inductive invariant.                                                  *)
Safe == Types /\ Control /\ Kept

(* The same but for the inputs of the unit, Off and the backup.              *)
Alike(d, e) ==
  /\ e.A = d.A /\ e.B = d.B /\ e.F = d.F /\ e.IR = d.IR /\ e.M = d.M /\ e.S = d.S
  /\ e.PC = d.PC /\ e.X = d.X /\ e.user = d.user /\ e.kernel = d.kernel
  /\ e.lines = d.lines /\ e.inten = d.inten /\ e.paging = d.paging

(* alul at the start of a cycle,                                             *)
LEMMA Latches ==
  ASSUME NEW d \in Datapath
  PROVE  Latched(d) \in Datapath /\ Alike(d, Latched(d)) /\ Latched(d).bkIR = d.bkIR
BY DEF Latched, Datapath, Alike

(* what is recorded before a step,                                           *)
LEMMA BacksUp ==
  ASSUME NEW d \in Datapath
  PROVE  /\ Backup(d) \in Datapath /\ Alike(d, Backup(d))
         /\ Backup(d).bkIR = IF Records(d) THEN d.IR ELSE d.bkIR
<1>1. CASE Records(d)
  <2>1. Backup(d) = [d EXCEPT !.bkIR = d.IR, !.bkOff = d.Off]
    BY <1>1 DEF Backup
  <2> QED BY <1>1, <2>1 DEF Datapath, Alike
<1>2. CASE ~ Records(d)
  BY <1>2 DEF Backup, Alike
<1> QED BY <1>1, <1>2

(* the fetch,                                                                *)
LEMMA Fetches ==
  ASSUME NEW d \in Datapath
  PROVE  LET r == Perform(d, FetchStep)
         IN  /\ r.B = d.B /\ r.F = d.F /\ r.M = d.M /\ r.S = d.S /\ r.PC = d.PC /\ r.X = d.X
             /\ r.A = d.A /\ r.user = d.user /\ r.kernel = d.kernel /\ r.lines = d.lines
             /\ r.inten = d.inten /\ r.paging = d.paging /\ r.bkIR = d.bkIR
             /\ ~ d.paging => r.IR = Stored(d.kernel, d.PC)
<1> DEFINE step == {"pc_a", "mread", "ir_i"}
           r == Perform(d, step)
<1>1. Leaves(d, step, Bus(d, step), Where(d, step), r)
  BY PerformLeaves
<1> HIDE DEF r
<1>2. ~ d.paging => Bus(d, step) = Stored(d.kernel, d.PC)
  BY DEF Bus, DataBus, Read, Unpaged, Address
<1>3. r.IR = Bus(d, step)
  BY <1>1 DEF Leaves
<1>4. r.PC = d.PC /\ r.X = d.X
  BY <1>1, Stays DEF Leaves
<1>5. r.inten = d.inten /\ r.paging = d.paging
  BY <1>1, Stays DEF Leaves
<1>6. /\ r.A = d.A /\ r.B = d.B /\ r.F = d.F /\ r.M = d.M /\ r.S = d.S
      /\ r.user = d.user /\ r.kernel = d.kernel /\ r.lines = d.lines /\ r.bkIR = d.bkIR
  BY <1>1 DEF Leaves
<1> HIDE DEF step
<1>7. ~ d.paging => r.IR = Stored(d.kernel, d.PC)
  BY <1>2, <1>3
<1> QED BY <1>4, <1>5, <1>6, <1>7 DEF FetchStep, r, step

(* an access that is blocked,                                                *)
LEMMA Faults ==
  ASSUME NEW d \in Datapath
  PROVE  LET e == Faulted(d)
         IN  /\ e \in Datapath
             /\ e.A = d.A /\ e.B = d.B /\ e.F = d.F /\ e.IR = d.IR /\ e.M = d.M /\ e.S = d.S
             /\ e.PC = d.PC /\ e.X = d.X /\ e.user = d.user /\ e.kernel = d.kernel
             /\ 0 \in e.lines /\ e.inten = d.inten /\ e.paging = FALSE /\ e.bkIR = d.bkIR
<1>1. d.lines \cup {0} \in SUBSET {0, 1, 3}
  BY DEF Datapath
<1> DEFINE lines == d.lines \cup {0}
<1>2. Faulted(d) = [d EXCEPT !.lines = lines, !.paging = FALSE]
  BY DEF Faulted
<1>3. 0 \in lines
  OBVIOUS
<1> HIDE DEF lines
<1> QED BY <1>1, <1>2, <1>3 DEF Datapath, lines

Raised(d, line) == [d EXCEPT !.lines = @ \cup {line}]

(* and a line that is set: what each leaves.                                 *)
LEMMA Raises ==
  ASSUME NEW d \in Datapath, NEW line \in {1, 3}
  PROVE  LET e == Raised(d, line)
         IN  /\ e \in Datapath
             /\ e.A = d.A /\ e.B = d.B /\ e.F = d.F /\ e.IR = d.IR /\ e.M = d.M /\ e.S = d.S
             /\ e.PC = d.PC /\ e.X = d.X /\ e.user = d.user /\ e.kernel = d.kernel
             /\ e.lines = d.lines \cup {line} /\ e.lines # {}
             /\ e.inten = d.inten /\ e.paging = d.paging /\ e.bkIR = d.bkIR
             /\ 0 \in e.lines <=> 0 \in d.lines
<1> DEFINE lines == d.lines \cup {line}
           e == [d EXCEPT !.lines = lines]
<1>1. lines \in SUBSET {0, 1, 3} /\ lines # {} /\ (0 \in lines <=> 0 \in d.lines)
  BY DEF Datapath
<1> HIDE DEF lines
<1>2. /\ e \in Datapath
      /\ e.A = d.A /\ e.B = d.B /\ e.F = d.F /\ e.IR = d.IR /\ e.M = d.M /\ e.S = d.S
      /\ e.PC = d.PC /\ e.X = d.X /\ e.user = d.user /\ e.kernel = d.kernel
      /\ e.lines = lines /\ e.bkIR = d.bkIR
  BY <1>1 DEF Datapath
<1>3. e.inten = d.inten /\ e.paging = d.paging
  BY DEF Datapath
<1> QED BY <1>1, <1>2, <1>3 DEF Raised, lines
(* What a program may start with is well typed.                              *)
LEMMA ProgramsAreViews ==
  ASSUME NEW r \in Programs
  PROVE  r \in View /\ Atomic!Visible(r) = r
<1>1. /\ r = Atomic!Visible(r)
      /\ {r.A, r.B, r.F} \subseteq Bytes /\ {r.M, r.S, r.PC, r.X} \subseteq Words
      /\ r.user \in [DOMAIN r.user -> Bytes] /\ DOMAIN r.user \subseteq Words
  BY CpuAssumption
<1>2. r.user \in Memory
  BY <1>1 DEF Memory
<1>3. Atomic!Visible(r) \in View
  BY <1>1, <1>2 DEF View, Atomic!Visible
<1> QED BY <1>1, <1>3

(* The handlers end in iretf or iret, by their vectors.                      *)
LEMMA HandlersMemory ==
  /\ Handlers \in Memory
  /\ \A v \in Served : Stored(Handlers, v) = Handlers[v]
  /\ Handlers[\hFF00] = iretf /\ Handlers[\hFF10] = iret /\ Handlers[\hFF30] = iret
<1>1. Vectors \subseteq Words
  BY Hexes, Ranges DEF Vectors
<1>2. iret \in Bytes /\ iretf \in Bytes
  BY Hexes, Ranges
<1>3. Handlers \in [Vectors -> Bytes] /\ DOMAIN Handlers = Vectors
  BY <1>2 DEF Handlers
<1>4. Handlers \in Memory
  BY <1>1, <1>3 DEF Memory
<1>5. Served \subseteq Vectors
  BY DEF Served, Vectors
<1>6. \A v \in Served : Stored(Handlers, v) = Handlers[v]
  BY <1>3, <1>5 DEF Stored
<1>7. /\ \hFF00 \in Vectors /\ \hFF10 \in Vectors /\ \hFF30 \in Vectors
      /\ \hFF10 # \hFF00 /\ \hFF30 # \hFF00
  BY Hexes DEF Vectors
<1> QED BY <1>4, <1>6, <1>7 DEF Handlers

(* The machine starts safe.                                                  *)
LEMMA Starts == Init => Safe
<1> SUFFICES ASSUME Init PROVE Safe
  OBVIOUS
<1>1. PICK r \in Programs :
        /\ c = [Atomic!Undisturbed(r) EXCEPT !.IR = 3, !.kernel = Handlers]
        /\ mpc = 0 /\ bkmpc = 0 /\ recovery = FALSE /\ arch = r
  BY DEF Init
<1>2. r \in View /\ Atomic!Visible(r) = r
  BY ProgramsAreViews
<1>3. /\ c.A = r.A /\ c.B = r.B /\ c.F = r.F /\ c.M = r.M /\ c.S = r.S /\ c.PC = r.PC
      /\ c.X = r.X /\ c.user = r.user /\ c.IR = 3 /\ c.kernel = Handlers /\ c.lines = {}
      /\ c.bkIR = 0
  BY <1>1 DEF Atomic!Undisturbed
<1>4. c.inten /\ c.paging
  BY <1>1 DEF Atomic!Undisturbed
<1>5. Types
  <2>1. 3 \in Bytes /\ 0 \in Bytes /\ {} \in SUBSET {0, 1, 3}
    BY Ranges
  <2>2. /\ r.A \in Bytes /\ r.B \in Bytes /\ r.F \in Bytes /\ r.M \in Words /\ r.S \in Words
        /\ r.PC \in Words /\ r.X \in Words /\ r.user \in Memory
    BY <1>2 DEF View
  <2>3. c = [A |-> r.A, B |-> r.B, F |-> r.F, M |-> r.M, S |-> r.S, PC |-> r.PC, X |-> r.X,
             user |-> r.user, IR |-> 3, Off |-> 0, la |-> r.A, lb |-> r.B,
             kernel |-> Handlers, lines |-> {}, inten |-> TRUE, paging |-> TRUE,
             bkIR |-> 0, bkOff |-> 0]
    BY <1>1 DEF Atomic!Undisturbed
  <2>4. c \in Datapath
    BY <2>1, <2>2, <2>3, HandlersMemory DEF Datapath
  <2> QED BY <1>1, <1>2, <2>4 DEF Types
<1>6. Ready /\ ~ Pending /\ ~ Recovering /\ ~ Handling /\ ~ Running /\ ~ Entering /\ ~ Returning
  BY <1>1, <1>4 DEF Ready, Pending, Recovering, Handling, Running, Entering, Returning
<1>7. Control
  <2>1. c.IR # iretf /\ c.bkIR # iretf
    BY <1>3, Hexes
  <2>2. ~ FaultTaken
    BY <1>6 DEF FaultTaken
  <2>3. \A v \in Served : Stored(c.kernel, v) = Handlers[v]
    BY <1>3, HandlersMemory
  <2> QED BY <1>1, <1>3, <1>4, <1>6, <2>1, <2>2, <2>3 DEF Control
<1>8. Kept
  <2>1. Atomic!Visible(c) = Atomic!Visible(r)
    BY <1>3 DEF Atomic!Visible
  <2> QED BY <1>1, <1>2, <1>6, <2>1 DEF Kept
<1> QED BY <1>5, <1>7, <1>8 DEF Safe

(* What the invariant says before the fetch of an instruction of the program, *)
LEMMA ReadyNow ==
  ASSUME Safe, Ready
  PROVE  /\ c.IR # iretf /\ c.inten /\ c.paging /\ 0 \notin c.lines /\ c.bkIR # iretf
         /\ Atomic!Visible(c) = arch
BY DEF Safe, Control, Kept, Ready

(* and with a fault set and not yet taken.                                   *)
LEMMA PendingNow ==
  ASSUME Safe, Pending
  PROVE  /\ c.IR # iretf /\ c.inten /\ ~ c.paging /\ 0 \in c.lines /\ c.bkIR # iretf
         /\ bkmpc > 0 => c.bkIR \in Runs /\ bkmpc <= Len(Program(c.bkIR))
         /\ bkmpc = 0 => Atomic!Visible(c) = arch
BY DEF Safe, Control, Kept, Pending, FaultTaken, Between, Running, Types

(***************************************************************************)
(* The invariant in each of the modes of the machine.                      *)
(***************************************************************************)
(* What holds of the next state when it is in each of the modes.             *)
LEMMA NowReady ==
  ASSUME Types', (mpc = 0)', (~ recovery)', c'.paging, c'.inten, 0 \notin c'.lines,
         c'.IR # iretf, c'.bkIR # iretf, \A v \in Served : Stored(c'.kernel, v) = Handlers[v],
         Atomic!Visible(c') = arch'
  PROVE  Safe'
<1>1. Ready' /\ ~ Pending' /\ ~ Recovering' /\ ~ Handling'
      /\ ~ Running' /\ ~ Entering' /\ ~ Returning'
  BY DEF Ready, Pending, Recovering, Handling, Running, Entering, Returning
<1>2. ~ FaultTaken'
  BY <1>1 DEF FaultTaken
<1> QED BY <1>1, <1>2 DEF Safe, Control, Kept

(* with a fault set,                                                         *)
LEMMA NowPending ==
  ASSUME Types', (mpc = 0)', (~ recovery)', ~ c'.paging, c'.inten, 0 \in c'.lines,
         c'.IR # iretf, c'.bkIR # iretf, \A v \in Served : Stored(c'.kernel, v) = Handlers[v],
         bkmpc' > 0 => c'.bkIR \in Runs /\ bkmpc' <= Len(Program(c'.bkIR)),
         bkmpc' = 0 => Atomic!Visible(c') = arch'
  PROVE  Safe'
<1>1. Pending' /\ ~ Ready' /\ ~ Recovering' /\ ~ Handling'
      /\ ~ Running' /\ ~ Entering' /\ ~ Returning'
  BY DEF Ready, Pending, Recovering, Handling, Running, Entering, Returning
<1>2. FaultTaken' /\ (Between' <=> bkmpc' = 0)
  BY <1>1 DEF FaultTaken, Between
<1> QED BY <1>1, <1>2 DEF Safe, Control, Kept

(* within an instruction,                                                    *)
LEMMA NowRunning ==
  ASSUME Types', (mpc > 0)', (~ recovery)', c'.paging, c'.inten, 0 \notin c'.lines,
         c'.IR \in Runs, mpc' <= Len(Program(c'.IR)), c'.bkIR # iretf,
         \A v \in Served : Stored(c'.kernel, v) = Handlers[v]
  PROVE  Safe'
<1>1. c'.IR \notin {int, iret, iretf}
  BY RunsHaveSteps
<1>2. Running' /\ ~ Ready' /\ ~ Recovering' /\ ~ Handling'
      /\ ~ Pending' /\ ~ Entering' /\ ~ Returning'
  BY <1>1 DEF Ready, Pending, Recovering, Handling, Running, Entering, Returning, Returns, Types
<1>3. ~ FaultTaken' /\ ~ Between'
  BY <1>2 DEF FaultTaken, Between
<1> QED BY <1>2, <1>3 DEF Safe, Control, Kept

(* within the entry into the kernel,                                         *)
LEMMA NowEntering ==
  ASSUME Types', (mpc > 0)', (~ recovery)', c'.IR = int, EnterControl(mpc', c'), c'.bkIR # iretf,
         \A v \in Served : Stored(c'.kernel, v) = Handlers[v],
         EnteringFault(mpc', c') /\ bkmpc' > 0 =>
           c'.bkIR \in Runs /\ bkmpc' <= Len(Program(c'.bkIR)),
         (EnteringFault(mpc', c') => bkmpc' = 0) => Enters(mpc', c', arch')
  PROVE  Safe'
<1>1. int \notin Runs \cup Returns
  BY Hexes DEF Runs, Returns
<1>2. Entering' /\ ~ Ready' /\ ~ Recovering' /\ ~ Handling'
      /\ ~ Pending' /\ ~ Running' /\ ~ Returning'
  BY <1>1 DEF Ready, Pending, Recovering, Handling, Running, Entering, Returning, Types
<1>3. /\ FaultTaken' <=> EnteringFault(mpc', c')
      /\ Between' <=> (EnteringFault(mpc', c') => bkmpc' = 0)
  BY <1>2 DEF FaultTaken, Between
<1> QED BY <1>2, <1>3 DEF Safe, Control, Kept

(* in a handler,                                                             *)
LEMMA NowHandling ==
  ASSUME Types', (mpc = 0)', (~ recovery)', ~ c'.paging, ~ c'.inten, 0 \notin c'.lines,
         c'.PC \in Served, c'.S = 65533, c'.IR # iretf, c'.bkIR # iretf,
         \A v \in Served : Stored(c'.kernel, v) = Handlers[v],
         c'.PC = \hFF00 /\ bkmpc' > 0 => c'.bkIR \in Runs /\ bkmpc' <= Len(Program(c'.bkIR)),
         (c'.PC = \hFF00 => bkmpc' = 0) => Saves(c', arch') /\ c'.X = arch'.X
  PROVE  Safe'
<1>1. Handling' /\ ~ Ready' /\ ~ Recovering' /\ ~ Entering'
      /\ ~ Pending' /\ ~ Running' /\ ~ Returning'
  BY DEF Ready, Pending, Recovering, Handling, Running, Entering, Returning
<1>2. (FaultTaken' <=> c'.PC = \hFF00) /\ (Between' <=> (c'.PC = \hFF00 => bkmpc' = 0))
  BY <1>1 DEF FaultTaken, Between
<1> QED BY <1>1, <1>2 DEF Safe, Control, Kept

(* within a return,                                                          *)
LEMMA NowReturning ==
  ASSUME Types', (mpc > 0)', (~ recovery)', c'.IR \in Returns, ReturnControl(mpc', c'),
         c'.bkIR # iretf, \A v \in Served : Stored(c'.kernel, v) = Handlers[v],
         c'.IR = iretf /\ bkmpc' > 0 => c'.bkIR \in Runs /\ bkmpc' <= Len(Program(c'.bkIR)),
         (c'.IR = iretf => bkmpc' = 0) => Leaving(mpc', c', arch')
  PROVE  Safe'
<1>1. int \notin Returns /\ Returns \cap Runs = {}
  BY Hexes DEF Runs, Returns
<1>2. Returning' /\ ~ Ready' /\ ~ Recovering' /\ ~ Handling'
      /\ ~ Pending' /\ ~ Running' /\ ~ Entering'
  BY <1>1 DEF Ready, Pending, Recovering, Handling, Running, Entering, Returning, Types
<1>3. (FaultTaken' <=> c'.IR = iretf) /\ (Between' <=> (c'.IR = iretf => bkmpc' = 0))
  BY <1>2 DEF FaultTaken, Between
<1> QED BY <1>2, <1>3 DEF Safe, Control, Kept

(* and after iretf.                                                          *)
LEMMA NowRecovering ==
  ASSUME Types', (mpc = 0)', recovery', c'.paging, c'.inten, 0 \notin c'.lines,
         c'.IR # iretf, c'.bkIR # iretf, \A v \in Served : Stored(c'.kernel, v) = Handlers[v],
         bkmpc' > 0 => c'.bkIR \in Runs /\ bkmpc' <= Len(Program(c'.bkIR)),
         bkmpc' = 0 => Atomic!Visible(c') = arch'
  PROVE  Safe'
<1>1. Recovering' /\ ~ Ready' /\ ~ Pending' /\ ~ Handling'
      /\ ~ Running' /\ ~ Entering' /\ ~ Returning'
  BY DEF Ready, Pending, Recovering, Handling, Running, Entering, Returning
<1>2. FaultTaken' /\ (Between' <=> bkmpc' = 0)
  BY <1>1 DEF FaultTaken, Between
<1> QED BY <1>1, <1>2 DEF Safe, Control, Kept
(* What the invariant says in a handler,                                     *)
LEMMA HandlingNow ==
  ASSUME Safe, Handling
  PROVE  /\ ~ c.paging /\ ~ c.inten /\ 0 \notin c.lines /\ c.PC \in Served /\ c.S = 65533
         /\ c.IR # iretf /\ c.bkIR # iretf
         /\ c.PC = \hFF00 /\ bkmpc > 0 => c.bkIR \in Runs /\ bkmpc <= Len(Program(c.bkIR))
         /\ (c.PC = \hFF00 => bkmpc = 0) => Saves(c, arch) /\ c.X = arch.X
<1>1. ~ Pending /\ ~ Recovering /\ ~ Running /\ ~ Entering /\ ~ Returning
  BY DEF Handling, Pending, Recovering, Running, Entering, Returning
<1>2. FaultTaken <=> c.PC = \hFF00
  BY <1>1 DEF FaultTaken
<1>3. Between <=> (c.PC = \hFF00 => bkmpc = 0)
  BY <1>1, <1>2 DEF Between
<1> QED BY <1>2, <1>3 DEF Safe, Control, Kept, Handling

(* after iretf,                                                              *)
LEMMA RecoveringNow ==
  ASSUME Safe, Recovering
  PROVE  /\ c.paging /\ c.inten /\ 0 \notin c.lines /\ c.IR # iretf /\ c.bkIR # iretf
         /\ bkmpc > 0 => c.bkIR \in Runs /\ bkmpc <= Len(Program(c.bkIR))
         /\ bkmpc = 0 => Atomic!Visible(c) = arch
BY DEF Safe, Control, Kept, Recovering, FaultTaken, Between, Running, Types

(* within an instruction,                                                    *)
LEMMA RunningNow ==
  ASSUME Safe, Running
  PROVE  /\ ~ recovery /\ c.paging /\ c.inten /\ 0 \notin c.lines /\ c.bkIR # iretf
         /\ mpc \in 1 .. Len(Program(c.IR))
<1>1. mpc <= Len(Program(c.IR)) /\ mpc \in Nat /\ mpc > 0 /\ c.IR \in Runs
  BY DEF Safe, Control, Running, Types
<1>2. mpc \in 1 .. Len(Program(c.IR))
  BY <1>1, RunsHaveSteps
<1> QED BY <1>2 DEF Safe, Control, Running, Types

(* within the entry,                                                         *)
LEMMA EnteringNow ==
  ASSUME Safe, Entering
  PROVE  /\ ~ recovery /\ EnterControl(mpc, c) /\ c.bkIR # iretf
         /\ EnteringFault(mpc, c) /\ bkmpc > 0 => c.bkIR \in Runs /\ bkmpc <= Len(Program(c.bkIR))
         /\ (EnteringFault(mpc, c) => bkmpc = 0) => Enters(mpc, c, arch)
<1>1. int \notin Runs \cup Returns
  BY Hexes DEF Runs, Returns
<1>2. ~ Recovering /\ ~ Handling /\ ~ Pending /\ ~ Running /\ ~ Returning
  BY <1>1 DEF Entering, Recovering, Handling, Pending, Running, Returning, Safe, Types
<1>3. FaultTaken <=> EnteringFault(mpc, c)
  BY <1>2 DEF FaultTaken, Entering
<1>4. Between <=> (EnteringFault(mpc, c) => bkmpc = 0)
  BY <1>2, <1>3 DEF Between
<1>5. ~ recovery
  BY DEF Safe, Control, Entering, Types
<1> QED BY <1>3, <1>4, <1>5 DEF Safe, Control, Kept

(* within a return,                                                          *)
LEMMA ReturningNow ==
  ASSUME Safe, Returning
  PROVE  /\ ~ recovery /\ ReturnControl(mpc, c) /\ c.bkIR # iretf
         /\ c.IR = iretf /\ bkmpc > 0 => c.bkIR \in Runs /\ bkmpc <= Len(Program(c.bkIR))
         /\ (c.IR = iretf => bkmpc = 0) => Leaving(mpc, c, arch)
<1>1. int \notin Returns /\ Returns \cap Runs = {}
  BY Hexes DEF Runs, Returns
<1>2. ~ Recovering /\ ~ Handling /\ ~ Pending /\ ~ Running /\ ~ Entering
  BY <1>1 DEF Entering, Recovering, Handling, Pending, Running, Returning, Safe, Types
<1>3. FaultTaken <=> c.IR = iretf
  BY <1>2 DEF FaultTaken, Returning
<1>4. Between <=> (c.IR = iretf => bkmpc = 0)
  BY <1>2, <1>3 DEF Between
<1>5. ~ recovery
  BY DEF Safe, Control, Returning, Types
<1> QED BY <1>3, <1>4, <1>5 DEF Safe, Control, Kept

(* and always of the entries of the handlers.                                *)
LEMMA CellsKept ==
  ASSUME Safe
  PROVE  \A v \in Served : Stored(c.kernel, v) = Handlers[v]
BY DEF Safe, Control

(* The program sees nothing of what Alike leaves out.                        *)
LEMMA AlikeVisible ==
  ASSUME NEW d, NEW e, Alike(d, e)
  PROVE  Atomic!Visible(e) = Atomic!Visible(d)
BY DEF Alike, Atomic!Visible

(* The cycle after iretf goes on with the saved instruction, or fetches it again. *)
LEMMA Recovers == Safe /\ Recover => Safe'
<1> SUFFICES ASSUME Safe, Recover PROVE Safe'
  OBVIOUS
<1> DEFINE e == [c EXCEPT !.IR = c.bkIR, !.Off = c.bkOff]
<1>1. c \in Datapath /\ Recovering
  BY DEF Safe, Types, Recover, Recovering
<1>2. /\ e \in Datapath /\ e.IR = c.bkIR /\ e.lines = c.lines /\ e.kernel = c.kernel
      /\ e.bkIR = c.bkIR /\ e.inten = c.inten /\ e.paging = c.paging
      /\ Atomic!Visible(e) = Atomic!Visible(c)
  BY <1>1 DEF Datapath, Atomic!Visible
<1>3. c' = Latched(e)
  BY DEF Recover, Recovered
<1> HIDE DEF e
<1>4. c' \in Datapath /\ Alike(e, c') /\ c'.bkIR = e.bkIR
  BY <1>2, <1>3, Latches
<1>5. /\ c'.IR = c.bkIR /\ c'.lines = c.lines /\ c'.kernel = c.kernel
      /\ c'.bkIR = c.bkIR /\ Atomic!Visible(c') = Atomic!Visible(c)
  BY <1>2, <1>4, AlikeVisible DEF Alike
<1>6. c'.inten /\ c'.paging
  BY <1>1, <1>2, <1>4, RecoveringNow DEF Alike
<1>7. mpc' = bkmpc /\ recovery' = FALSE /\ bkmpc' = bkmpc /\ arch' = arch
  BY DEF Recover
<1>8. Types'
  BY <1>4, <1>7 DEF Types, Safe
<1>9. CASE bkmpc = 0
  BY <1>1, <1>5, <1>6, <1>7, <1>8, <1>9, RecoveringNow, CellsKept, NowReady
<1>10. CASE bkmpc > 0
  BY <1>1, <1>5, <1>6, <1>7, <1>8, <1>10, RecoveringNow, CellsKept, NowRunning
<1> QED BY <1>9, <1>10 DEF Safe, Types
(* Nor does it decide what is recorded.                                      *)
LEMMA RecordsWhen ==
  ASSUME NEW d, NEW e, Alike(d, e)
  PROVE  Records(e) <=> Records(d)
BY DEF Alike, Records

(* The datapath that a fetch sees.                                           *)
LEMMA BeforeFetch ==
  ASSUME Safe
  PROVE  LET e == Backup(Latched(c))
         IN  /\ e \in Datapath /\ Alike(c, e)
             /\ e.bkIR = IF Records(c) THEN c.IR ELSE c.bkIR
<1> DEFINE l == Latched(c)
           e == Backup(l)
<1>1. l \in Datapath /\ Alike(c, l) /\ l.bkIR = c.bkIR
  BY Latches DEF Safe, Types
<1> HIDE DEF l
<1>2. e \in Datapath /\ Alike(l, e) /\ e.bkIR = IF Records(l) THEN l.IR ELSE l.bkIR
  BY <1>1, BacksUp
<1>3. Records(l) <=> Records(c)
  BY <1>1, RecordsWhen
<1> HIDE DEF e
<1>4. Alike(c, e)
  BY <1>1, <1>2 DEF Alike
<1>5. e.bkIR = IF Records(c) THEN c.IR ELSE c.bkIR
  BY <1>1, <1>2, <1>3 DEF Alike
<1> QED BY <1>2, <1>4, <1>5 DEF e, l

(* The entry into the kernel starts with the registers of the program.       *)
LEMMA Interrupts == Safe /\ TakeInterrupt => Safe'
<1> SUFFICES ASSUME Safe, TakeInterrupt PROVE Safe'
  OBVIOUS
<1> DEFINE e == Backup(Latched(c))
<1>1. e \in Datapath /\ Alike(c, e) /\ e.bkIR = IF Records(c) THEN c.IR ELSE c.bkIR
  BY BeforeFetch
<1>2. c' = [e EXCEPT !.IR = int]
  BY DEF TakeInterrupt
<1> HIDE DEF e
<1>3. int \in Bytes
  BY Hexes, Ranges
<1>4. /\ c' \in Datapath /\ c'.IR = int /\ c'.bkIR = e.bkIR
      /\ c'.A = e.A /\ c'.B = e.B /\ c'.F = e.F /\ c'.M = e.M /\ c'.S = e.S /\ c'.PC = e.PC
      /\ c'.X = e.X /\ c'.user = e.user /\ c'.kernel = e.kernel /\ c'.lines = e.lines
  BY <1>1, <1>2, <1>3 DEF Datapath
<1>5. c'.inten = e.inten /\ c'.paging = e.paging
  BY <1>1, <1>2 DEF Datapath
<1>6. /\ c'.A = c.A /\ c'.B = c.B /\ c'.F = c.F /\ c'.M = c.M /\ c'.S = c.S /\ c'.PC = c.PC
      /\ c'.X = c.X /\ c'.user = c.user /\ c'.kernel = c.kernel /\ c'.lines = c.lines
  BY <1>1, <1>4 DEF Alike
<1>7. c'.inten = c.inten /\ c'.paging = c.paging
  BY <1>1, <1>5 DEF Alike
<1>8. /\ mpc' = 1 /\ recovery' = recovery /\ arch' = arch /\ mpc = 0 /\ ~ recovery
      /\ c.lines # {} /\ c.inten /\ bkmpc' = IF Records(c) THEN mpc ELSE bkmpc
  BY DEF TakeInterrupt, Interrupted, RecordMpc
<1>9. Types'
  BY <1>4, <1>8 DEF Types, Safe
<1>10. Ready \/ Pending
  BY <1>8 DEF Ready, Pending
<1>11. c.IR # iretf /\ c.bkIR # iretf /\ (c.paging <=> 0 \notin c.lines)
  BY <1>10, ReadyNow, PendingNow
<1>12. c'.bkIR # iretf
  BY <1>1, <1>4, <1>11
<1>13. EnterControl(1, c')
  <2>1. (c'.inten <=> TRUE) /\ (c'.paging <=> 0 \notin c'.lines) /\ c'.lines # {}
    BY <1>6, <1>7, <1>8, <1>11
  <2>2. c'.inten = TRUE /\ c'.paging = (0 \notin c'.lines)
    BY <2>1, <1>4 DEF Datapath
  <2> QED BY <2>1, <2>2 DEF EnterControl
<1>14. EnteringFault(1, c') <=> 0 \in c.lines
  BY <1>6 DEF EnteringFault
<1>15. 0 \in c.lines => Pending /\ bkmpc' = bkmpc /\ c'.bkIR = c.bkIR
  <2> SUFFICES ASSUME 0 \in c.lines PROVE Pending /\ bkmpc' = bkmpc /\ c'.bkIR = c.bkIR
    OBVIOUS
  <2>1. ~ Records(c)
    BY DEF Records
  <2>2. Pending
    BY <1>10, ReadyNow
  <2> QED BY <2>1, <2>2, <1>1, <1>4, <1>8
<1>16. EnteringFault(1, c') /\ bkmpc' > 0 => c'.bkIR \in Runs /\ bkmpc' <= Len(Program(c'.bkIR))
  BY <1>14, <1>15, PendingNow
<1>17. (EnteringFault(1, c') => bkmpc' = 0) => Atomic!Visible(c) = arch
  BY <1>10, <1>14, <1>15, PendingNow, ReadyNow
<1>18. Atomic!Visible(c) = arch => Enters(1, c', arch')
  <2> SUFFICES ASSUME Atomic!Visible(c) = arch PROVE Enters(1, c', arch)
    BY <1>8
  <2>1. /\ arch.A = c.A /\ arch.B = c.B /\ arch.F = c.F /\ arch.M = c.M /\ arch.S = c.S
        /\ arch.PC = c.PC /\ arch.X = c.X /\ arch.user = c.user
    BY DEF Atomic!Visible
  <2> QED BY <1>6, <2>1 DEF Enters, Apart
<1>19. \A v \in Served : Stored(c'.kernel, v) = Handlers[v]
  BY <1>6, CellsKept
<1> QED BY <1>4, <1>8, <1>9, <1>12, <1>13, <1>16, <1>17, <1>18, <1>19, NowEntering

(* A fetch starts an instruction, or faults with nothing done.               *)
LEMMA FetchesNext == Safe /\ Fetch => Safe'
<1> SUFFICES ASSUME Safe, Fetch PROVE Safe'
  OBVIOUS
<1> DEFINE e == Backup(Latched(c))
<1>1. e \in Datapath /\ Alike(c, e) /\ e.bkIR = IF Records(c) THEN c.IR ELSE c.bkIR
  BY BeforeFetch
<1>2. \/ Fault(e, FetchStep)
      \/ /\ c' = Perform(e, FetchStep) /\ c'.IR \in Runs /\ mpc' = 1
         /\ recovery' = recovery /\ arch' = arch
  BY DEF Fetch
<1> HIDE DEF e
<1>3. Ready
  BY DEF Fetch, Ready
<1>4. /\ c.IR # iretf /\ c.inten /\ c.paging /\ 0 \notin c.lines /\ c.bkIR # iretf
      /\ Atomic!Visible(c) = arch
  BY <1>3, ReadyNow
<1>5. bkmpc' = 0 /\ e.bkIR = c.IR
  BY <1>1, <1>4 DEF Fetch, RecordMpc, Records
<1>6. e.inten /\ e.paging
  BY <1>1, <1>4 DEF Alike
<1>7. /\ 0 \notin e.lines /\ e.IR = c.IR /\ e.kernel = c.kernel
      /\ Atomic!Visible(e) = arch
  BY <1>1, <1>4, AlikeVisible DEF Alike
<1>8. CASE Fault(e, FetchStep)
  <2>1. c' = Faulted(e) /\ mpc' = 0 /\ recovery' = recovery /\ arch' = arch
    BY <1>8 DEF Fault
  <2>2. /\ c' \in Datapath
        /\ c'.A = e.A /\ c'.B = e.B /\ c'.F = e.F /\ c'.IR = e.IR /\ c'.M = e.M /\ c'.S = e.S
        /\ c'.PC = e.PC /\ c'.X = e.X /\ c'.user = e.user /\ c'.kernel = e.kernel
        /\ 0 \in c'.lines /\ c'.inten = e.inten /\ c'.paging = FALSE /\ c'.bkIR = e.bkIR
    BY <1>1, <2>1, Faults
  <2>3. Atomic!Visible(c') = arch'
    BY <1>7, <2>1, <2>2 DEF Atomic!Visible
  <2>4. c'.inten /\ ~ c'.paging
    BY <1>6, <2>2
  <2>5. Types'
    BY <1>5, <2>1, <2>2 DEF Safe, Types
  <2>6. \A v \in Served : Stored(c'.kernel, v) = Handlers[v]
    BY <1>7, <2>2, CellsKept
  <2>7. c'.IR # iretf /\ c'.bkIR # iretf
    BY <1>4, <1>5, <1>7, <2>2
  <2>8. ~ recovery'
    BY <2>1 DEF Fetch
  <2> QED BY <1>5, <2>1, <2>2, <2>3, <2>4, <2>5, <2>6, <2>7, <2>8, NowPending
<1>9. CASE /\ c' = Perform(e, FetchStep) /\ c'.IR \in Runs /\ mpc' = 1
           /\ recovery' = recovery /\ arch' = arch
  <2>1. /\ c' \in Datapath /\ c'.kernel = e.kernel /\ c'.lines = e.lines /\ c'.bkIR = e.bkIR
        /\ c'.inten = e.inten /\ c'.paging = e.paging
    BY <1>1, <1>9, PerformTypes, Fetches
  <2>2. c'.inten /\ c'.paging
    BY <1>6, <2>1
  <2>3. Types'
    BY <1>5, <1>9, <2>1 DEF Safe, Types
  <2>4. \A v \in Served : Stored(c'.kernel, v) = Handlers[v]
    BY <1>7, <2>1, CellsKept
  <2>5. ~ recovery'
    BY <1>9 DEF Fetch
  <2>6. Len(Program(c'.IR)) \in Nat /\ Len(Program(c'.IR)) >= 1
    BY <1>9, RunsHaveSteps
  <2>7. mpc' > 0 /\ mpc' <= Len(Program(c'.IR))
    BY <1>9, <2>6
  <2> QED BY <1>4, <1>5, <1>7, <1>9, <2>1, <2>2, <2>3, <2>4, <2>5, <2>7, NowRunning
<1> QED BY <1>2, <1>8, <1>9

(* A handler goes to its return with the registers of the program saved.     *)
LEMMA Serves == Safe /\ Serve => Safe'
<1> SUFFICES ASSUME Safe, Serve PROVE Safe'
  OBVIOUS
<1> DEFINE r == Perform(c, FetchStep)
<1>1. c \in Datapath
  BY DEF Safe, Types
<1>2. mpc = 0 /\ ~ recovery /\ ~ c.paging /\ (c.lines = {} \/ ~ c.inten)
  BY DEF Serve, Interrupted
<1>3. Handling
  <2>1. ~ Pending
    BY <1>2, PendingNow
  <2> QED BY <1>2, <2>1 DEF Handling, Pending
<1>4. /\ ~ c.paging /\ ~ c.inten /\ 0 \notin c.lines /\ c.PC \in Served /\ c.S = 65533
      /\ c.IR # iretf /\ c.bkIR # iretf
      /\ c.PC = \hFF00 /\ bkmpc > 0 => c.bkIR \in Runs /\ bkmpc <= Len(Program(c.bkIR))
      /\ (c.PC = \hFF00 => bkmpc = 0) => Saves(c, arch) /\ c.X = arch.X
  BY <1>3, HandlingNow
<1>5. /\ r \in Datapath
      /\ r.B = c.B /\ r.F = c.F /\ r.M = c.M /\ r.S = c.S /\ r.PC = c.PC /\ r.X = c.X
      /\ r.user = c.user /\ r.kernel = c.kernel /\ r.lines = c.lines /\ r.bkIR = c.bkIR
      /\ r.IR = Stored(c.kernel, c.PC)
  BY <1>1, <1>4, Fetches, PerformTypes
<1>6. r.inten = c.inten /\ r.paging = c.paging
  BY <1>1, Fetches
<1>7. r.IR = Handlers[c.PC]
  BY <1>4, <1>5, CellsKept
<1>8. r.IR \in Returns /\ (r.IR = iretf <=> c.PC = \hFF00)
  <2>1. c.PC = \hFF00 \/ c.PC = \hFF10 \/ c.PC = \hFF30
    BY <1>4 DEF Served
  <2> QED BY <1>7, <2>1, HandlersMemory, Hexes DEF Returns
<1>9. c' = [r EXCEPT !.A = Junk, !.Off = Junk, !.la = Junk, !.lb = Junk]
  BY DEF Serve
<1> HIDE DEF r
<1>10. Junk \in Bytes
  BY CpuAssumption
<1>11. /\ c' \in Datapath
       /\ c'.B = c.B /\ c'.F = c.F /\ c'.M = c.M /\ c'.S = c.S /\ c'.PC = c.PC /\ c'.X = c.X
       /\ c'.user = c.user /\ c'.kernel = c.kernel /\ c'.lines = c.lines /\ c'.bkIR = c.bkIR
       /\ c'.IR = r.IR
  BY <1>5, <1>9, <1>10 DEF Datapath
<1>12. ~ c'.inten /\ ~ c'.paging
  BY <1>4, <1>5, <1>6, <1>9 DEF Datapath
<1>13. mpc' = 1 /\ bkmpc' = bkmpc /\ recovery' = recovery /\ arch' = arch
  BY DEF Serve
<1>14. Types'
  BY <1>11, <1>13 DEF Safe, Types
<1>15. ReturnControl(1, c')
  BY <1>4, <1>11, <1>12 DEF ReturnControl
<1>16. Saves(c, arch) /\ c.X = arch.X => Leaving(1, c', arch')
  BY <1>11, <1>13 DEF Saves, Leaving, Apart, Reg1, Reg2, Reg3, Top, Under
<1>17. \A v \in Served : Stored(c'.kernel, v) = Handlers[v]
  BY <1>11, CellsKept
<1> QED BY <1>2, <1>4, <1>8, <1>11, <1>13, <1>14, <1>15, <1>16, <1>17, NowReturning
(* What a microstep that is done leaves to decide.                           *)
Done(d, step, last) ==
  /\ c' = Perform(d, step)
  /\ mpc' = IF last THEN 0 ELSE mpc + 1
  /\ recovery' = IF last /\ c.IR = iretf THEN TRUE ELSE FALSE
  /\ IF last /\ c.IR \notin {int, iret, iretf} THEN arch' = Atomic!Visible(c') ELSE arch' = arch

(* A microstep is blocked or done.                                           *)
LEMMA StepDoes ==
  ASSUME Step
  PROVE  LET step == Program(c.IR)[mpc]
             last == mpc = Len(Program(c.IR))
         IN  /\ mpc > 0 /\ bkmpc' = IF Records(c) THEN mpc ELSE bkmpc
             /\ \/ Blocked(Backup(c), step) /\ Fault(Backup(c), step)
                \/ Done(Backup(c), step, last)
BY DEF Step, RecordMpc, Done

(* A microstep of an instruction: the last one ends it, a blocked one is recorded. *)
LEMMA RunsOn == Safe /\ Running /\ Step => Safe'
<1> SUFFICES ASSUME Safe, Running, Step PROVE Safe'
  OBVIOUS
<1> DEFINE e == Backup(c)
           step == Program(c.IR)[mpc]
           last == mpc = Len(Program(c.IR))
<1>1. /\ mpc > 0 /\ bkmpc' = IF Records(c) THEN mpc ELSE bkmpc
      /\ Fault(e, step) \/ Done(e, step, last)
  BY StepDoes
<1>2. /\ ~ recovery /\ c.paging /\ c.inten /\ 0 \notin c.lines /\ c.bkIR # iretf
      /\ mpc \in 1 .. Len(Program(c.IR))
  BY RunningNow
<1>3. c.IR \in Runs /\ c.IR \notin {iret, iretf, int} /\ Len(Program(c.IR)) \in Nat
  BY RunsHaveSteps DEF Running
<1>4. /\ "ir_i" \notin step /\ "iv_o" \notin step /\ "sel_a" \notin step /\ "load_fault" \notin step
  BY <1>2, <1>3, QuietSteps
<1>5. e \in Datapath /\ Alike(c, e) /\ e.bkIR = c.IR /\ bkmpc' = mpc
  <2>1. Records(c)
    BY <1>2, <1>3 DEF Records
  <2>2. c \in Datapath
    BY DEF Safe, Types
  <2> QED BY <1>1, <2>1, <2>2, BacksUp
<1> HIDE DEF e, step
<1>6. e.inten /\ e.paging
  BY <1>2, <1>5 DEF Alike
<1>7. 0 \notin e.lines /\ e.IR = c.IR /\ e.kernel = c.kernel
  BY <1>2, <1>5 DEF Alike
<1>8. CASE Fault(e, step)
  <2>1. c' = Faulted(e) /\ mpc' = 0 /\ recovery' = recovery /\ arch' = arch
    BY <1>8 DEF Fault
  <2>2. /\ c' \in Datapath /\ c'.IR = e.IR /\ c'.kernel = e.kernel
        /\ 0 \in c'.lines /\ c'.inten = e.inten /\ c'.paging = FALSE /\ c'.bkIR = e.bkIR
    BY <1>5, <2>1, Faults
  <2>3. c'.inten /\ ~ c'.paging
    BY <1>6, <2>2
  <2>4. Types'
    BY <1>5, <2>1, <2>2 DEF Safe, Types
  <2>5. \A v \in Served : Stored(c'.kernel, v) = Handlers[v]
    BY <1>7, <2>2, CellsKept
  <2>6. c'.IR # iretf /\ c'.bkIR # iretf /\ c'.bkIR \in Runs
    BY <1>3, <1>5, <1>7, <2>2
  <2>7. bkmpc' <= Len(Program(c'.bkIR)) /\ bkmpc' # 0
    BY <1>2, <1>3, <1>5, <2>2
  <2>8. ~ recovery'
    BY <1>2, <2>1
  <2> QED BY <2>1, <2>2, <2>3, <2>4, <2>5, <2>6, <2>7, <2>8, NowPending
<1>9. CASE Done(e, step, last)
  <2>1. c' = Perform(e, step) /\ ~ recovery'
    BY <1>3, <1>9 DEF Done
  <2>2. Leaves(e, step, Bus(e, step), Where(e, step), c')
    BY <1>5, <2>1, PerformLeaves
  <2>3. c' \in Datapath
    BY <1>5, <2>1, PerformTypes
  <2>4. /\ c'.IR = e.IR /\ c'.lines = e.lines /\ c'.kernel = e.kernel /\ c'.bkIR = e.bkIR
    BY <1>4, <1>6, <2>2 DEF Leaves
  <2>5. c'.inten /\ c'.paging
    BY <1>4, <1>6, <2>2 DEF Leaves
  <2>6. \A v \in Served : Stored(c'.kernel, v) = Handlers[v]
    BY <1>7, <2>4, CellsKept
  <2>7. 0 \notin c'.lines /\ c'.IR \in Runs /\ c'.IR # iretf /\ c'.bkIR # iretf
    BY <1>3, <1>5, <1>7, <2>4
  <2>8. CASE last
    <3>1. mpc' = 0 /\ arch' = Atomic!Visible(c')
      BY <1>3, <1>9, <2>8 DEF Done
    <3>2. arch' \in View
      BY <2>3, <3>1 DEF Datapath, View, Atomic!Visible
    <3>3. Types'
      BY <1>2, <1>5, <2>1, <2>3, <3>1, <3>2, <1>9 DEF Types, Done
    <3> QED BY <2>1, <2>4, <2>5, <2>6, <2>7, <3>1, <3>3, NowReady
  <2>9. CASE ~ last
    <3>1. mpc' = mpc + 1 /\ arch' = arch
      BY <1>9, <2>9 DEF Done
    <3>2. mpc' > 0 /\ mpc' \in Nat /\ mpc' <= Len(Program(c'.IR))
      BY <1>2, <1>3, <1>7, <2>4, <2>9, <3>1
    <3>3. Types'
      BY <1>2, <1>5, <1>9, <2>1, <2>3, <3>1, <3>2 DEF Types, Safe, Done
    <3> QED BY <2>1, <2>5, <2>6, <2>7, <3>2, <3>3, NowRunning
  <2> HIDE DEF last
  <2> QED BY <2>8, <2>9
<1> QED BY <1>1, <1>8, <1>9
(* The invariant sees nothing of what Alike leaves out.                      *)
LEMMA SameControl ==
  ASSUME NEW d, NEW e, NEW n, NEW u, Alike(d, e)
  PROVE  /\ EnterControl(n, d) => EnterControl(n, e)
         /\ ReturnControl(n, d) => ReturnControl(n, e)
         /\ EnteringFault(n, e) <=> EnteringFault(n, d)
         /\ Enters(n, d, u) => Enters(n, e, u)
         /\ Leaving(n, d, u) => Leaving(n, e, u)
<1>1. (EnterControl(n, d) => EnterControl(n, e)) /\ (EnteringFault(n, e) <=> EnteringFault(n, d))
  BY DEF Alike, EnterControl, EnteringFault
<1>2. ReturnControl(n, d) => ReturnControl(n, e)
  BY DEF Alike, ReturnControl
<1>3. Apart(d, u) => Apart(e, u)
  BY DEF Alike, Apart
<1>4. /\ Reg1(e) = Reg1(d) /\ Reg2(e) = Reg2(d) /\ Reg3(e) = Reg3(d)
      /\ Top(e) = Top(d) /\ Under(e) = Under(d)
  BY DEF Alike, Reg1, Reg2, Reg3, Top, Under
<1>5. Enters(n, d, u) => Enters(n, e, u)
  BY <1>3, <1>4 DEF Alike, Enters
<1>6. Leaving(n, d, u) => Leaving(n, e, u)
  BY <1>3, <1>4 DEF Alike, Leaving, Saves
<1> QED BY <1>1, <1>2, <1>5, <1>6

(* A microstep of the entry is never blocked, and moves the registers on.    *)
LEMMA EntersOn == Safe /\ Entering /\ Step => Safe'
<1> SUFFICES ASSUME Safe, Entering, Step PROVE Safe'
  OBVIOUS
<1> DEFINE e == Backup(c)
           step == Program(int)[mpc]
           last == mpc = 15
<1>1. c.IR = int /\ Len(Program(int)) = 15 /\ c \in Datapath /\ arch \in View
  BY Microprograms, EntrySteps DEF Entering, Safe, Types
<1>2. /\ mpc > 0 /\ bkmpc' = IF Records(c) THEN mpc ELSE bkmpc
      /\ (Blocked(e, step) /\ Fault(e, step)) \/ Done(e, step, last)
  BY <1>1, StepDoes
<1>3. /\ ~ recovery /\ EnterControl(mpc, c) /\ c.bkIR # iretf
      /\ EnteringFault(mpc, c) /\ bkmpc > 0 => c.bkIR \in Runs /\ bkmpc <= Len(Program(c.bkIR))
      /\ (EnteringFault(mpc, c) => bkmpc = 0) => Enters(mpc, c, arch)
  BY EnteringNow
<1>4. e \in Datapath /\ Alike(c, e) /\ e.bkIR = IF Records(c) THEN c.IR ELSE c.bkIR
  BY <1>1, BacksUp
<1>5. mpc \in 1 .. 15
  BY <1>3 DEF EnterControl
<1>6. ~ Blocked(e, step)
  <2> SUFFICES ASSUME e.paging, "sel_a" \notin step, Accesses(step) PROVE FALSE
    BY DEF Blocked
  <2>1. c.paging
    BY <1>4 DEF Alike
  <2>2. mpc = 1 \/ mpc = 2
    BY <1>3, <1>5, <2>1 DEF EnterControl
  <2>3. step = {"pc_switch"} \/ step = {"sel_a", "reg2", "sl_o", "mwrite"}
    BY <2>2, Microprograms, EntrySteps
  <2> HIDE DEF step
  <2> QED BY <2>3 DEF Accesses
<1>7. Done(e, step, last)
  BY <1>2, <1>6
<1> DEFINE r == Perform(e, step)
<1> HIDE DEF e
<1>8. /\ c' = r /\ recovery' = FALSE /\ arch' = arch
      /\ mpc' = IF last THEN 0 ELSE mpc + 1
  BY <1>1, <1>7, Hexes DEF Done
<1>9. r \in Datapath
  BY <1>4, PerformTypes
<1>10. bkmpc' \in Nat
  BY <1>2, <1>5 DEF Safe, Types
<1>11. EnteringFault(mpc, c) => bkmpc' = bkmpc /\ e.bkIR = c.bkIR
  <2> SUFFICES ASSUME EnteringFault(mpc, c) PROVE ~ Records(c)
    BY <1>2, <1>4
  <2>1. CASE mpc <= 11
    BY <2>1 DEF EnteringFault, Records
  <2>2. CASE mpc >= 12
    <3>1. ~ c.paging
      BY <1>3, <1>5, <2>2 DEF EnterControl
    <3> QED BY <3>1 DEF Records
  <2> QED BY <1>5, <2>1, <2>2
<1>12. e.bkIR # iretf
  BY <1>1, <1>3, <1>4, Hexes
<1>13. e.IR = int /\ e.kernel = c.kernel
  BY <1>1, <1>4 DEF Alike
<1>14. /\ EnterControl(mpc, e) /\ (EnteringFault(mpc, e) <=> EnteringFault(mpc, c))
       /\ Enters(mpc, c, arch) => Enters(mpc, e, arch)
  BY <1>3, <1>4, SameControl
<1>15. \A v \in Served : Stored(e.kernel, v) = Handlers[v]
  BY <1>13, CellsKept
<1>16. CASE mpc \in 1 .. 14
  <2>1. Entered(mpc, e, r, arch)
    BY <1>1, <1>4, <1>13, <1>14, <1>16, EntryStep
  <2> HIDE DEF r
  <2>2. mpc' = mpc + 1 /\ mpc' > 0 /\ mpc' \in Nat
    BY <1>8, <1>16
  <2>3. Types'
    BY <1>8, <1>9, <1>10, <2>2 DEF Safe, Types
  <2>4. /\ c'.IR = int /\ c'.bkIR = e.bkIR /\ EnterControl(mpc', c')
        /\ (EnteringFault(mpc', c') <=> EnteringFault(mpc, c))
        /\ Enters(mpc, c, arch) => Enters(mpc', c', arch')
    BY <1>8, <1>14, <2>1, <2>2 DEF Entered
  <2>5. \A v \in Served : Stored(c'.kernel, v) = Handlers[v]
    BY <1>8, <1>15, <2>1 DEF Entered
  <2>6. EnteringFault(mpc', c') /\ bkmpc' > 0 => c'.bkIR \in Runs /\ bkmpc' <= Len(Program(c'.bkIR))
    BY <1>3, <1>11, <2>4
  <2>7. (EnteringFault(mpc', c') => bkmpc' = 0) => Enters(mpc', c', arch')
    BY <1>3, <1>11, <2>4
  <2> QED BY <1>8, <1>12, <2>2, <2>3, <2>4, <2>5, <2>6, <2>7, NowEntering
<1>17. CASE mpc = 15
  <2>1. step = {"pc_switch"}
    BY <1>17, Microprograms, EntrySteps
  <2>2. /\ r.IR = int /\ r.bkIR = e.bkIR
        /\ ~ r.paging /\ ~ r.inten /\ 0 \notin r.lines /\ r.PC \in Served /\ r.S = 65533
        /\ r.PC = \hFF00 <=> EnteringFault(15, e)
        /\ \A v \in Served : Stored(r.kernel, v) = Stored(e.kernel, v)
        /\ Enters(15, e, arch) => Saves(r, arch) /\ r.X = arch.X
    BY <1>1, <1>4, <1>13, <1>14, <1>17, <2>1, Enter15
  <2> HIDE DEF r
  <2>3. mpc' = 0
    BY <1>8, <1>17
  <2>4. Types'
    <3>1. c' \in Datapath /\ arch' \in View /\ recovery' \in BOOLEAN
      BY <1>1, <1>8, <1>9
    <3> QED BY <1>10, <2>3, <3>1 DEF Types
  <2>5. c'.PC = \hFF00 <=> EnteringFault(mpc, c)
    BY <1>8, <1>14, <1>17, <2>2
  <2>6. \A v \in Served : Stored(c'.kernel, v) = Handlers[v]
    BY <1>8, <1>15, <2>2
  <2>7. Enters(mpc, c, arch) => Saves(c', arch') /\ c'.X = arch'.X
    BY <1>8, <1>14, <1>17, <2>2
  <2>8. c'.IR # iretf
    BY <1>8, <2>2, Hexes
  <2>9. c'.PC = \hFF00 /\ bkmpc' > 0 => c'.bkIR \in Runs /\ bkmpc' <= Len(Program(c'.bkIR))
    BY <1>3, <1>8, <1>11, <2>2, <2>5
  <2>10. (c'.PC = \hFF00 => bkmpc' = 0) => Saves(c', arch') /\ c'.X = arch'.X
    BY <1>3, <1>11, <2>5, <2>7
  <2>11. ~ c'.paging /\ ~ c'.inten /\ 0 \notin c'.lines /\ c'.PC \in Served /\ c'.S = 65533
         /\ c'.bkIR # iretf
    BY <1>8, <1>12, <2>2
  <2> QED BY <1>8, <2>3, <2>4, <2>6, <2>8, <2>9, <2>10, <2>11, NowHandling
<1> QED BY <1>5, <1>16, <1>17

(* Nor is a microstep of a return, which moves them back.                    *)
LEMMA ReturnsOn == Safe /\ Returning /\ Step => Safe'
<1> SUFFICES ASSUME Safe, Returning, Step PROVE Safe'
  OBVIOUS
<1> DEFINE step == Program(c.IR)[mpc]
           last == mpc = Len(Program(c.IR))
           r == Perform(c, step)
<1>1. c.IR \in Returns /\ c \in Datapath /\ arch \in View
  BY DEF Returning, Safe, Types
<1>2. /\ ~ recovery /\ ReturnControl(mpc, c) /\ c.bkIR # iretf
      /\ c.IR = iretf /\ bkmpc > 0 => c.bkIR \in Runs /\ bkmpc <= Len(Program(c.bkIR))
      /\ (c.IR = iretf => bkmpc = 0) => Leaving(mpc, c, arch)
  BY ReturningNow
<1>3. mpc \in 1 .. 14 /\ (c.IR = iret => mpc <= 12) /\ (mpc <= 13 => ~ c.paging)
  BY <1>2 DEF ReturnControl
<1>4. ~ Records(c)
  <2>1. CASE mpc <= 13
    BY <1>3, <2>1 DEF Records
  <2>2. CASE mpc = 14
    <3>1. c.IR = iretf
      BY <1>1, <1>3, <2>2 DEF Returns
    <3> QED BY <3>1 DEF Records
  <2> QED BY <1>3, <2>1, <2>2
<1>5. Backup(c) = c
  BY <1>4 DEF Backup
<1>6. /\ bkmpc' = bkmpc
      /\ (Blocked(c, step) /\ Fault(c, step)) \/ Done(c, step, last)
  BY <1>4, <1>5, StepDoes
<1>7. ~ Blocked(c, step)
  <2> SUFFICES ASSUME c.paging, Accesses(step) PROVE FALSE
    BY DEF Blocked
  <2>1. mpc = 14 /\ c.IR = iretf
    BY <1>1, <1>3 DEF Returns
  <2>2. step = {"load_fault", "ir_i"}
    BY <2>1, ReturnSteps
  <2> HIDE DEF step
  <2> QED BY <2>2 DEF Accesses
<1>8. Done(c, step, last)
  BY <1>6, <1>7
<1>9. /\ c' = r /\ recovery' = (IF last /\ c.IR = iretf THEN TRUE ELSE FALSE) /\ arch' = arch
      /\ mpc' = IF last THEN 0 ELSE mpc + 1
  BY <1>1, <1>8 DEF Done, Returns
<1>10. r \in Datapath /\ bkmpc' \in Nat
  BY <1>1, <1>6, PerformTypes DEF Safe, Types
<1>11. last <=> mpc = IF c.IR = iret THEN 12 ELSE 14
  <2>1. Len(Program(c.IR)) = IF c.IR = iret THEN 12 ELSE 14
    BY <1>1, ReturnSteps DEF Returns
  <2> QED BY <2>1
<1> HIDE DEF last
<1>12. CASE ~ last
  <2>1. mpc \in 1 .. 13 /\ (c.IR = iret => mpc <= 11)
    BY <1>1, <1>3, <1>11, <1>12 DEF Returns
  <2>2. Left(mpc, c, r, arch)
    BY <1>1, <1>2, <2>1, ReturnStep
  <2> HIDE DEF r
  <2>3. mpc' = mpc + 1 /\ mpc' > 0 /\ mpc' \in Nat /\ recovery' = FALSE
    BY <1>9, <1>12, <2>1
  <2>4. Types'
    BY <1>9, <1>10, <2>3 DEF Safe, Types
  <2>5. /\ c'.IR = c.IR /\ c'.bkIR = c.bkIR /\ ReturnControl(mpc', c')
        /\ Leaving(mpc, c, arch) => Leaving(mpc', c', arch')
    BY <1>9, <2>2, <2>3 DEF Left
  <2>6. \A v \in Served : Stored(c'.kernel, v) = Handlers[v]
    BY <1>9, <2>2, CellsKept DEF Left
  <2>7. c'.IR = iretf /\ bkmpc' > 0 => c'.bkIR \in Runs /\ bkmpc' <= Len(Program(c'.bkIR))
    BY <1>2, <1>6, <2>5
  <2>8. (c'.IR = iretf => bkmpc' = 0) => Leaving(mpc', c', arch')
    BY <1>2, <1>6, <2>5
  <2> QED BY <1>1, <1>2, <2>3, <2>4, <2>5, <2>6, <2>7, <2>8, NowReturning
<1>13. CASE last /\ c.IR = iret
  <2>1. mpc = 12 /\ step = {"ei"}
    BY <1>11, <1>13, ReturnSteps
  <2>2. /\ r.IR = iret /\ r.bkIR = c.bkIR
        /\ r.paging /\ r.inten /\ 0 \notin r.lines
        /\ \A v \in Served : Stored(r.kernel, v) = Stored(c.kernel, v)
        /\ Leaving(12, c, arch) => Atomic!Visible(r) = arch
    BY <1>1, <1>2, <1>13, <2>1, LeaveLast
  <2> HIDE DEF r
  <2>3. iret # iretf
    BY Hexes
  <2>4. mpc' = 0 /\ recovery' = FALSE
    BY <1>9, <1>13, <2>3
  <2>5. Types'
    BY <1>9, <1>10, <2>4 DEF Safe, Types
  <2>6. Atomic!Visible(c') = arch'
    BY <1>2, <1>9, <1>13, <2>1, <2>2, <2>3
  <2>7. \A v \in Served : Stored(c'.kernel, v) = Handlers[v]
    BY <1>9, <2>2, CellsKept
  <2>8. c'.paging /\ c'.inten /\ 0 \notin c'.lines /\ c'.IR # iretf /\ c'.bkIR # iretf
    BY <1>2, <1>9, <2>2, <2>3
  <2> QED BY <2>4, <2>5, <2>6, <2>7, <2>8, NowReady
<1>14. CASE last /\ c.IR = iretf
  <2>1. iret # iretf
    BY Hexes
  <2>2. mpc = 14 /\ step = {"load_fault", "ir_i"}
    BY <1>11, <1>14, <2>1, ReturnSteps
  <2>3. /\ r.IR = c.bkIR /\ r.bkIR = c.bkIR
        /\ r.paging /\ r.inten /\ 0 \notin r.lines
        /\ \A v \in Served : Stored(r.kernel, v) = Stored(c.kernel, v)
        /\ Leaving(14, c, arch) => Atomic!Visible(r) = arch
    BY <1>1, <1>2, <1>14, <2>2, LeaveFault
  <2> HIDE DEF r
  <2>4. mpc' = 0 /\ recovery' = TRUE
    BY <1>9, <1>14
  <2>5. Types'
    BY <1>9, <1>10, <2>4 DEF Safe, Types
  <2>6. bkmpc' = 0 => Atomic!Visible(c') = arch'
    BY <1>2, <1>6, <1>9, <1>14, <2>2, <2>3
  <2>7. \A v \in Served : Stored(c'.kernel, v) = Handlers[v]
    BY <1>9, <2>3, CellsKept
  <2>8. c'.paging /\ c'.inten /\ 0 \notin c'.lines /\ c'.IR # iretf /\ c'.bkIR # iretf
    BY <1>2, <1>9, <2>3
  <2>9. bkmpc' > 0 => c'.bkIR \in Runs /\ bkmpc' <= Len(Program(c'.bkIR))
    BY <1>2, <1>6, <1>9, <1>14, <2>3
  <2> QED BY <2>4, <2>5, <2>6, <2>7, <2>8, <2>9, NowRecovering
<1> QED BY <1>1, <1>12, <1>13, <1>14 DEF Returns
(* A tick or a key disturbs nothing.                                         *)
LEMMA LineRaised ==
  ASSUME Safe, NEW line \in {1, 3}, SetInt(line)
  PROVE  Safe'
<1>1. c \in Datapath
  BY DEF Safe, Types
<1> DEFINE e == Raised(c, line)
<1>20. /\ e \in Datapath
       /\ e.A = c.A /\ e.B = c.B /\ e.F = c.F /\ e.IR = c.IR /\ e.M = c.M /\ e.S = c.S
       /\ e.PC = c.PC /\ e.X = c.X /\ e.user = c.user /\ e.kernel = c.kernel
       /\ e.lines # {} /\ (0 \in e.lines <=> 0 \in c.lines) /\ e.bkIR = c.bkIR
       /\ e.inten = c.inten /\ e.paging = c.paging
  BY <1>1, Raises
<1>2. c' = e
  BY DEF SetInt, Raised
<1> HIDE DEF e
<1>3. /\ c' \in Datapath
      /\ c'.A = c.A /\ c'.B = c.B /\ c'.F = c.F /\ c'.IR = c.IR /\ c'.M = c.M /\ c'.S = c.S
      /\ c'.PC = c.PC /\ c'.X = c.X /\ c'.user = c.user /\ c'.kernel = c.kernel
      /\ c'.lines # {} /\ (0 \in c'.lines <=> 0 \in c.lines) /\ c'.bkIR = c.bkIR
  BY <1>2, <1>20
<1>4. c'.inten = c.inten /\ c'.paging = c.paging
  BY <1>2, <1>20
<1>5. mpc' = mpc /\ bkmpc' = bkmpc /\ recovery' = recovery /\ arch' = arch
  BY DEF SetInt
<1>6. Types'
  BY <1>3, <1>5 DEF Safe, Types
<1>7. \A v \in Served : Stored(c'.kernel, v) = Handlers[v]
  BY <1>3, CellsKept
<1>8. Atomic!Visible(c') = Atomic!Visible(c)
  BY <1>3 DEF Atomic!Visible
<1>9. CASE Ready
  <2>1. c'.paging /\ c'.inten
    BY <1>4, <1>9, ReadyNow
  <2> QED BY <1>3, <1>5, <1>6, <1>7, <1>8, <1>9, <2>1, ReadyNow, NowReady DEF Ready
<1>10. CASE Recovering
  <2>1. c'.paging /\ c'.inten
    BY <1>4, <1>10, RecoveringNow
  <2> QED BY <1>3, <1>5, <1>6, <1>7, <1>8, <1>10, <2>1, RecoveringNow, NowRecovering DEF Recovering
<1>11. CASE Pending
  <2>1. ~ c'.paging /\ c'.inten
    BY <1>4, <1>11, PendingNow
  <2> QED BY <1>3, <1>5, <1>6, <1>7, <1>8, <1>11, <2>1, PendingNow, NowPending DEF Pending
<1>12. CASE Handling
  <2>1. ~ c'.paging /\ ~ c'.inten
    BY <1>4, <1>12, HandlingNow
  <2>2. Saves(c, arch) => Saves(c', arch')
    BY <1>3, <1>5 DEF Saves, Apart, Reg1, Reg2, Reg3, Top, Under
  <2> QED BY <1>3, <1>5, <1>6, <1>7, <1>12, <2>1, <2>2, HandlingNow, NowHandling DEF Handling
<1>13. CASE Running
  <2>1. c'.paging /\ c'.inten
    BY <1>4, <1>13, RunningNow
  <2>2. mpc' <= Len(Program(c'.IR))
    BY <1>3, <1>5, <1>13, RunningNow, RunsHaveSteps DEF Running
  <2> QED BY <1>3, <1>5, <1>6, <1>7, <1>13, <2>1, <2>2, RunningNow, NowRunning DEF Running
<1>14. CASE Entering
  <2>1. EnterControl(mpc, c) => EnterControl(mpc, c')
    BY <1>3, <1>4 DEF EnterControl
  <2>2. EnteringFault(mpc, c') <=> EnteringFault(mpc, c)
    BY <1>3 DEF EnteringFault
  <2>3. Enters(mpc, c, arch) => Enters(mpc, c', arch)
    BY <1>3 DEF Enters, Apart, Reg1, Reg2, Reg3, Top, Under
  <2>4. /\ mpc > 0 /\ ~ recovery /\ c.IR = int /\ EnterControl(mpc, c) /\ c.bkIR # iretf
        /\ EnteringFault(mpc, c) /\ bkmpc > 0 => c.bkIR \in Runs /\ bkmpc <= Len(Program(c.bkIR))
        /\ (EnteringFault(mpc, c) => bkmpc = 0) => Enters(mpc, c, arch)
    BY <1>14, EnteringNow DEF Entering
  <2> QED BY <1>3, <1>5, <1>6, <1>7, <2>1, <2>2, <2>3, <2>4, NowEntering
<1>15. CASE Returning
  <2>1. ReturnControl(mpc, c) => ReturnControl(mpc, c')
    BY <1>3, <1>4 DEF ReturnControl
  <2>2. Leaving(mpc, c, arch) => Leaving(mpc, c', arch)
    BY <1>3 DEF Leaving, Saves, Apart, Reg1, Reg2, Reg3, Top, Under
  <2>3. /\ mpc > 0 /\ ~ recovery /\ c.IR \in Returns /\ ReturnControl(mpc, c) /\ c.bkIR # iretf
        /\ c.IR = iretf /\ bkmpc > 0 => c.bkIR \in Runs /\ bkmpc <= Len(Program(c.bkIR))
        /\ (c.IR = iretf => bkmpc = 0) => Leaving(mpc, c, arch)
    BY <1>15, ReturningNow DEF Returning
  <2> QED BY <1>3, <1>5, <1>6, <1>7, <2>1, <2>2, <2>3, NowReturning
<1>16. \/ Ready \/ Recovering \/ Pending \/ Handling \/ Running \/ Entering \/ Returning
  BY DEF Safe, Control, Types, Ready, Recovering, Pending, Handling, Running, Entering, Returning
<1> QED BY <1>9, <1>10, <1>11, <1>12, <1>13, <1>14, <1>15, <1>16

(* Every microstep keeps the invariant.                                      *)
LEMMA Steps == Safe /\ Step => Safe'
<1>1. Safe /\ Step => Running \/ Entering \/ Returning
  BY DEF Safe, Control, Step, Running, Entering, Returning
<1> QED BY <1>1, RunsOn, EntersOn, ReturnsOn

(* The invariant Safe holds of every run of the processor: whatever pages are *)
(* missing and whenever ticks and keys come, its registers are where Enters, *)
(* Saves and Leaving say they are.                                           *)
THEOREM SafeInvariant == Spec => []Safe
<1>1. Init => Safe
  BY Starts
<1>2. Safe /\ [Next]_vars => Safe'
  <2> SUFFICES ASSUME Safe, [Next]_vars PROVE Safe'
    OBVIOUS
  <2>1. CASE Recover
    BY <2>1, Recovers
  <2>2. CASE TakeInterrupt
    BY <2>2, Interrupts
  <2>3. CASE Fetch
    BY <2>3, FetchesNext
  <2>4. CASE Serve
    BY <2>4, Serves
  <2>5. CASE Step
    BY <2>5, Steps
  <2>6. CASE Tick
    BY <2>6, LineRaised DEF Tick
  <2>7. CASE Key
    BY <2>7, LineRaised DEF Key
  <2>8. CASE UNCHANGED vars
    BY <2>8 DEF vars, Safe, Types, Control, Kept, Ready, Recovering, Pending, Handling,
       Running, Entering, Returning, FaultTaken, Between
  <2> QED BY <2>1, <2>2, <2>3, <2>4, <2>5, <2>6, <2>7, <2>8 DEF Next, Cycle
<1> QED BY <1>1, <1>2, PTL DEF Spec

(* Interrupts and faults are invisible to a program (Cpu.StateKept): at every *)
(* fetch its registers and its memory are what its last instruction left.    *)
THEOREM StateIsKept == Spec => []StateKept
<1>1. Safe => StateKept
  BY DEF Safe, Kept, StateKept, Ready
<1> QED BY <1>1, SafeInvariant, PTL

(* With paging off nothing is fetched but a handler at its vector            *)
(* (Cpu.OnlyHandlersUnpaged).                                                *)
THEOREM OnlyHandlers == Spec => []OnlyHandlersUnpaged
<1>1. Safe => OnlyHandlersUnpaged
  <2> SUFFICES ASSUME Safe, mpc = 0, ~ c.paging
               PROVE  IF c.inten THEN 0 \in c.lines ELSE c.PC \in Vectors
    BY DEF OnlyHandlersUnpaged
  <2>1. ~ recovery
    BY DEF Safe, Control
  <2>2. CASE c.inten
    BY <2>1, <2>2, PendingNow DEF Pending
  <2>3. CASE ~ c.inten
    <3>1. c.PC \in Served
      BY <2>1, <2>3, HandlingNow DEF Handling
    <3> QED BY <2>3, <3>1 DEF Served, Vectors
  <2> QED BY <2>2, <2>3
<1> QED BY <1>1, SafeInvariant, PTL
================================================================================
