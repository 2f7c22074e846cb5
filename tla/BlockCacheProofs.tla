--------------------------- MODULE BlockCacheProofs ---------------------------
(***************************************************************************)
(* The block cache never answers with the wrong bytes, for every size of   *)
(* cache, disk and block: the invariants the run of BlockCache checks, from *)
(* one inductive invariant.                                                *)
(***************************************************************************)
EXTENDS BlockCache, LeastProofs

(* What holds while bread fills a slot: the slot is claimed for the block    *)
(* wanted, the port is set to it step by step, the bytes read so far are     *)
(* right.                                                                    *)
Claimed ==
  /\ pc # "idle" => want \in BlockIds
  /\ pc \in Busy => ~IsFree(slot) /\ blockCache[slot].n = want

PortSet ==
  /\ pc \in {"ata_mid", "ata_byte"} => storage.high = want \div W
  /\ pc = "ata_byte" => /\ storage.mid = want % W
                        /\ i < BSIZE => storage.idx = i

PartlyRead ==
  pc = "ata_byte" =>
    \A o \in Offsets : o < i => blockDataCache[slot][o] = DiskByte(want, o)

IInv ==
  /\ TypeOK /\ NoDuplicates /\ Coherent /\ PinsExact
  /\ Claimed /\ PortSet /\ PartlyRead
-----------------------------------------------------------------------------
(* The two halves of a block address are bytes and make up the address. *)
LEMMA SplitAddress ==
  ASSUME NEW n \in Nat, n < W * W, W \in Nat \ {0}
  PROVE  /\ n \div W \in 0 .. W - 1
         /\ n % W \in 0 .. W - 1
         /\ (n \div W) * W + (n % W) = n
<1>1. /\ n \div W \in Nat /\ n % W \in 0 .. W - 1
      /\ n = W * (n \div W) + (n % W)
  OBVIOUS
<1>2. n \div W < W
  <2>1. SUFFICES ASSUME n \div W >= W PROVE FALSE
    BY <1>1
  <2>2. \A k \in Nat : k >= W => W * k >= W * W
    OBVIOUS
  <2> QED BY <1>1, <2>1, <2>2
<1>3. \A k \in Nat : W * k = k * W
  OBVIOUS
<1> QED BY <1>1, <1>2, <1>3

(* A block number fits the two bytes of its address. *)
LEMMA AddressFits ==
  ASSUME NEW n \in BlockIds \cup {0}
  PROVE  n \in Nat /\ n < W * W
<1>1. W * W > 0
  BY BlockCacheAssumption
<1> QED BY <1>1, BlockCacheAssumption DEF BlockIds

(* The search of a nonempty set of slots returns one of them. *)
LEMMA FirstOfIn ==
  ASSUME NEW S \in SUBSET Slots, S # {}
  PROVE  FirstOf(S) \in S
<1>1. S \in SUBSET Nat
  BY DEF Slots
<1>2. \E s \in S : \A t \in S : s <= t
  BY <1>1, LeastExists
<1> QED BY <1>2 DEF FirstOf
-----------------------------------------------------------------------------
LEMMA InitIInv == Init => IInv
<1> SUFFICES ASSUME Init PROVE IInv
  OBVIOUS
<1>1. /\ 0 \in 0 .. W - 1 /\ 0 \in 0 .. NBLOCKS /\ 0 \in 0 .. BSIZE /\ 0 \in 0 .. 255
      /\ 0 \in Offsets /\ 0 \in Slots /\ NBLOCKS \in 0 .. NBLOCKS
  BY BlockCacheAssumption DEF Offsets, Slots
<1>2. TypeOK
  BY <1>1 DEF Init, TypeOK, Junk, BLOCK_FREE, BLOCK_USED
<1>3. NoDuplicates /\ Coherent
  BY DEF Init, NoDuplicates, Coherent, IsFree
<1>4. PinsExact
  BY DEF Init, PinsExact, Busy, Filling
<1>5. Claimed /\ PortSet /\ PartlyRead
  BY DEF Init, Claimed, PortSet, PartlyRead, Busy, Filling
<1> QED BY <1>2, <1>3, <1>4, <1>5 DEF IInv

(* bread is called with the number of a block. *)
LEMMA CallBreadStep == IInv /\ CallBread => IInv'
<1> SUFFICES ASSUME IInv, CallBread PROVE IInv'
  OBVIOUS
<1> USE DEF IInv, CallBread
<1>1. TypeOK'
  BY DEF TypeOK
<1>2. NoDuplicates' /\ Coherent'
  BY DEF NoDuplicates, Coherent, IsFree, Filling
<1>3. PinsExact'
  BY DEF PinsExact, Busy, Filling
<1>4. Claimed' /\ PortSet' /\ PartlyRead'
  BY DEF Claimed, PortSet, PartlyRead, Busy, Filling
<1> QED BY <1>1, <1>2, <1>3, <1>4

(* A hit pins a slot nobody else has pinned. *)
LEMMA BreadHitStep == IInv /\ BreadHit => IInv'
<1> SUFFICES ASSUME IInv, BreadHit PROVE IInv'
  OBVIOUS
<1>1. slot' \in Slots /\ blockCache[slot'].flags # BLOCK_FREE /\ blockCache[slot'].n = want
  <2>1. slot' \in Hits
    BY FirstOfIn DEF BreadHit, Hits
  <2> QED BY <2>1 DEF Hits, Matches
<1>2. pc = "lookup" /\ pc' = "held" /\ pc \notin Busy /\ pc' \in Busy /\ pc' \notin Filling
  BY DEF BreadHit, Busy, Filling
<1>3. \A s \in Slots : blockCache[s].cnt = 0
  BY <1>2 DEF IInv, PinsExact
<1>4. /\ blockCache' = [blockCache EXCEPT ![slot'].cnt = 1]
      /\ UNCHANGED <<blockDataCache, storage, want, i>>
  <2>1. (blockCache[slot'].cnt + 1) % 256 = 1
    BY <1>1, <1>3
  <2> QED BY <2>1 DEF BreadHit
<1>5. TypeOK'
  <2> DEFINE SlotType == [flags : {BLOCK_FREE, BLOCK_USED}, n : BlockIds \cup {0}, cnt : 0 .. 255]
  <2>1. [blockCache[slot'] EXCEPT !.cnt = 1] \in SlotType
    BY <1>1 DEF IInv, TypeOK
  <2>2. blockCache' \in [Slots -> SlotType]
    BY <1>1, <1>4, <2>1 DEF IInv, TypeOK
  <2> QED BY <1>1, <1>2, <1>4, <2>2 DEF IInv, TypeOK
<1>6. \A s \in Slots : /\ blockCache'[s].flags = blockCache[s].flags
                        /\ blockCache'[s].n = blockCache[s].n
                        /\ blockCache'[s].cnt = IF s = slot' THEN 1 ELSE 0
  BY <1>1, <1>3, <1>4 DEF IInv, TypeOK
<1>7. NoDuplicates' /\ Coherent'
  BY <1>2, <1>4, <1>6 DEF IInv, NoDuplicates, Coherent, IsFree, Filling
<1>8. PinsExact'
  BY <1>2, <1>6 DEF PinsExact
<1>9. Claimed' /\ PortSet' /\ PartlyRead'
  BY <1>1, <1>2, <1>4, <1>6 DEF IInv, Claimed, PortSet, PartlyRead, IsFree
<1> QED BY <1>5, <1>7, <1>8, <1>9 DEF IInv

(* A free slot is claimed for a block that no other slot has. *)
LEMMA BreadClaimStep == IInv /\ BreadClaim => IInv'
<1> SUFFICES ASSUME IInv, BreadClaim PROVE IInv'
  OBVIOUS
<1>1. slot' \in Slots /\ IsFree(slot')
  <2>1. {s \in Slots : IsFree(s)} # {}
    BY DEF BreadClaim
  <2>2. slot' \in {s \in Slots : IsFree(s)}
    BY <2>1, FirstOfIn DEF BreadClaim
  <2> QED BY <2>2
<1>2. pc = "lookup" /\ pc' = "ata_high" /\ pc \notin Busy /\ pc \notin Filling /\ pc' \in Busy /\ pc' \in Filling
  BY DEF BreadClaim, Busy, Filling
<1>3. \A s \in Slots : blockCache[s].cnt = 0
  BY <1>2 DEF IInv, PinsExact
<1>4. /\ UNCHANGED <<blockDataCache, storage, want, i>>
      /\ blockCache' = [blockCache EXCEPT ![slot'] = [flags |-> BLOCK_USED, n |-> want, cnt |-> 1]]
  BY DEF BreadClaim
<1>5. TypeOK'
  BY <1>1, <1>2, <1>4 DEF IInv, TypeOK
<1>6. \A s \in Slots : blockCache'[s] = IF s = slot' THEN [flags |-> BLOCK_USED, n |-> want, cnt |-> 1]
                                         ELSE blockCache[s]
  BY <1>1, <1>4 DEF IInv, TypeOK
<1>7. NoDuplicates'
  <2>1. \A s \in Slots : IsFree(s) \/ blockCache[s].n # want
    BY DEF BreadClaim, Hits, Matches, IsFree
  <2> QED BY <1>6, <2>1 DEF IInv, NoDuplicates, IsFree
<1>8. Coherent'
  BY <1>2, <1>4, <1>6 DEF IInv, Coherent, IsFree
<1>9. PinsExact'
  BY <1>2, <1>3, <1>6 DEF PinsExact
<1>10. Claimed' /\ PortSet' /\ PartlyRead'
  BY <1>1, <1>2, <1>4, <1>6 DEF IInv, Claimed, PortSet, PartlyRead, IsFree, BLOCK_FREE, BLOCK_USED
<1> QED BY <1>5, <1>7, <1>8, <1>9, <1>10 DEF IInv

(* Freeing slots nobody has pinned disturbs nothing. *)
LEMMA BlockSyncStep == IInv /\ block_sync => IInv'
<1> SUFFICES ASSUME IInv, block_sync PROVE IInv'
  OBVIOUS
<1>1. \A s \in Slots : /\ blockCache'[s].flags \in {blockCache[s].flags, BLOCK_FREE}
                        /\ blockCache'[s].n = blockCache[s].n
                        /\ blockCache'[s].cnt = blockCache[s].cnt
  BY DEF block_sync, IInv, TypeOK
<1>2. pc' = "lookup" /\ UNCHANGED <<blockDataCache, storage, pc, want, slot, i>>
  BY DEF block_sync
<1>3. TypeOK'
  <2> DEFINE SlotType == [flags : {BLOCK_FREE, BLOCK_USED}, n : BlockIds \cup {0}, cnt : 0 .. 255]
  <2>1. \A s \in Slots : /\ blockCache[s] \in SlotType
                          /\ [blockCache[s] EXCEPT !.flags = BLOCK_FREE] \in SlotType
    <3>1. \A r \in SlotType : [r EXCEPT !.flags = BLOCK_FREE] \in SlotType
      OBVIOUS
    <3>2. \A s \in Slots : blockCache[s] \in SlotType
      BY DEF IInv, TypeOK
    <3> QED BY <3>1, <3>2, Zenon
  <2> DEFINE Synced(s) == IF blockCache[s].cnt = 0 THEN [blockCache[s] EXCEPT !.flags = BLOCK_FREE]
                          ELSE blockCache[s]
  <2>2. \A s \in Slots : Synced(s) \in SlotType
    BY <2>1, Zenon
  <2>3. blockCache' = [s \in Slots |-> Synced(s)]
    BY DEF block_sync
  <2> HIDE DEF SlotType, Synced
  <2>4. blockCache' \in [Slots -> SlotType]
    BY <2>2, <2>3
  <2> USE DEF SlotType
  <2> QED BY <1>2, <2>4 DEF IInv, TypeOK
<1>4. NoDuplicates' /\ Coherent'
  BY <1>1, <1>2 DEF IInv, NoDuplicates, Coherent, IsFree
<1>5. PinsExact'
  BY <1>1, <1>2 DEF IInv, PinsExact
<1>6. Claimed' /\ PortSet' /\ PartlyRead'
  BY <1>2 DEF IInv, Claimed, PortSet, PartlyRead, Busy, Filling
<1> QED BY <1>3, <1>4, <1>5, <1>6 DEF IInv

(* The two halves of the address reach the port. *)
LEMMA AtaHighStep == IInv /\ AtaHigh => IInv'
<1> SUFFICES ASSUME IInv, AtaHigh PROVE IInv'
  OBVIOUS
<1>1. want \div W \in 0 .. W - 1
  BY AddressFits, SplitAddress, BlockCacheAssumption DEF IInv, TypeOK
<1>2. 0 \in Offsets
  BY BlockCacheAssumption DEF Offsets
<1>3. /\ pc = "ata_high" /\ pc' = "ata_mid"
      /\ storage' = [storage EXCEPT !.high = want \div W, !.idx = 0]
      /\ UNCHANGED <<blockCache, blockDataCache, want, slot, i>>
  BY DEF AtaHigh
<1>4. TypeOK'
  BY <1>1, <1>2, <1>3 DEF IInv, TypeOK, Busy, Filling
<1>5. NoDuplicates' /\ Coherent' /\ PinsExact'
  BY <1>3 DEF IInv, NoDuplicates, Coherent, PinsExact, IsFree, Busy, Filling
<1>6. Claimed' /\ PortSet' /\ PartlyRead'
  BY <1>3 DEF IInv, TypeOK, Claimed, PortSet, PartlyRead, IsFree, Busy, Filling
<1> QED BY <1>4, <1>5, <1>6 DEF IInv

LEMMA AtaMidStep == IInv /\ AtaMid => IInv'
<1> SUFFICES ASSUME IInv, AtaMid PROVE IInv'
  OBVIOUS
<1>1. want % W \in 0 .. W - 1
  BY AddressFits, SplitAddress, BlockCacheAssumption DEF IInv, TypeOK
<1>2. 0 \in Offsets /\ 0 \in 0 .. BSIZE
  BY BlockCacheAssumption DEF Offsets
<1>3. /\ pc = "ata_mid" /\ pc' = "ata_byte" /\ i' = 0
      /\ storage' = [storage EXCEPT !.mid = want % W, !.idx = 0]
      /\ UNCHANGED <<blockCache, blockDataCache, want, slot>>
  BY DEF AtaMid
<1>4. TypeOK'
  BY <1>1, <1>2, <1>3 DEF IInv, TypeOK, Busy, Filling
<1>5. NoDuplicates' /\ Coherent' /\ PinsExact'
  BY <1>3 DEF IInv, NoDuplicates, Coherent, PinsExact, IsFree, Busy, Filling
<1>6. Claimed' /\ PortSet'
  BY <1>3 DEF IInv, TypeOK, Claimed, PortSet, IsFree, Busy, Filling
<1>7. PartlyRead'
  BY <1>3 DEF PartlyRead, Offsets
<1> QED BY <1>4, <1>5, <1>6, <1>7 DEF IInv

(* A byte comes from the block wanted, and goes where it belongs. *)
LEMMA AtaByteStep == IInv /\ AtaByte => IInv'
<1> SUFFICES ASSUME IInv, AtaByte PROVE IInv'
  OBVIOUS
<1>1. /\ pc = "ata_byte" /\ pc' = "ata_byte" /\ i < BSIZE /\ i' = i + 1
      /\ blockDataCache' = [blockDataCache EXCEPT ![slot][i] = ReadPort]
      /\ storage' = [storage EXCEPT !.idx = (@ + 1) % BSIZE]
      /\ UNCHANGED <<blockCache, want, slot>>
  BY DEF AtaByte
<1>2. i \in Offsets /\ slot \in Slots /\ i \in Nat /\ BSIZE \in Nat \ {0}
  BY <1>1, BlockCacheAssumption DEF IInv, TypeOK, Offsets
<1>3. ReadPort = DiskByte(want, i)
  <2>1. storage.high * W + storage.mid = want
    BY <1>1, AddressFits, SplitAddress, BlockCacheAssumption DEF IInv, TypeOK, PortSet
  <2>2. storage.idx = i
    BY <1>1 DEF IInv, PortSet
  <2> QED BY <2>1, <2>2 DEF ReadPort
<1>4. DiskByte(want, i) \in (0 .. NBLOCKS) \X Offsets
  BY <1>2, BlockCacheAssumption DEF IInv, TypeOK, DiskByte, BlockIds
<1>5. \A s \in Slots, o \in Offsets :
        blockDataCache'[s][o] = IF s = slot /\ o = i THEN DiskByte(want, i)
                                ELSE blockDataCache[s][o]
  BY <1>1, <1>2, <1>3 DEF IInv, TypeOK
<1>6. /\ storage'.high = storage.high /\ storage'.mid = storage.mid
      /\ storage'.idx = (i + 1) % BSIZE
  BY <1>1 DEF IInv, TypeOK, PortSet
<1>7. (i + 1) % BSIZE \in Offsets /\ (i + 1 < BSIZE => (i + 1) % BSIZE = i + 1)
  BY <1>2 DEF Offsets
<1>8. TypeOK'
  <2>1. blockDataCache' \in [Slots -> [Offsets -> (0 .. NBLOCKS) \X Offsets]]
    BY <1>1, <1>2, <1>3, <1>4 DEF IInv, TypeOK
  <2>2. storage' \in [high : 0 .. W - 1, mid : 0 .. W - 1, idx : Offsets]
    BY <1>1, <1>6, <1>7 DEF IInv, TypeOK, PortSet
  <2>3. i' \in 0 .. BSIZE
    BY <1>1, <1>2
  <2> QED BY <1>1, <2>1, <2>2, <2>3 DEF IInv, TypeOK
<1>9. NoDuplicates' /\ PinsExact'
  BY <1>1 DEF IInv, NoDuplicates, PinsExact, IsFree
<1>10. Coherent'
  BY <1>1, <1>5 DEF IInv, Coherent, IsFree, Filling
<1>11. Claimed'
  BY <1>1 DEF IInv, Claimed, IsFree
<1>12. PortSet'
  BY <1>1, <1>6, <1>7 DEF IInv, PortSet
<1>13. PartlyRead'
  <2> SUFFICES ASSUME NEW o \in Offsets, o < i + 1
               PROVE  blockDataCache'[slot][o] = DiskByte(want, o)
    BY <1>1 DEF PartlyRead
  <2>1. o = i \/ o < i
    BY <1>2 DEF Offsets
  <2> QED BY <1>1, <1>2, <1>5, <2>1 DEF IInv, PartlyRead
<1> QED BY <1>8, <1>9, <1>10, <1>11, <1>12, <1>13 DEF IInv

(* Once every byte is read, the slot is coherent. *)
LEMMA AtaDoneStep == IInv /\ AtaDone => IInv'
<1> SUFFICES ASSUME IInv, AtaDone PROVE IInv'
  OBVIOUS
<1>1. /\ pc = "ata_byte" /\ pc' = "held" /\ i >= BSIZE /\ i' = 0
      /\ UNCHANGED <<blockCache, blockDataCache, storage, want, slot>>
  BY DEF AtaDone
<1>2. TypeOK'
  BY <1>1, BlockCacheAssumption DEF IInv, TypeOK, Busy
<1>3. NoDuplicates' /\ PinsExact'
  BY <1>1 DEF IInv, NoDuplicates, PinsExact, IsFree, Busy, Filling
<1>4. \A o \in Offsets : blockDataCache[slot][o] = DiskByte(blockCache[slot].n, o)
  <2>1. \A o \in Offsets : o < i
    BY <1>1, BlockCacheAssumption DEF IInv, TypeOK, Offsets
  <2> QED BY <1>1, <2>1 DEF IInv, PartlyRead, Claimed, Busy, Filling
<1>5. Coherent'
  BY <1>1, <1>4 DEF IInv, Coherent, IsFree, Filling
<1>6. Claimed' /\ PortSet' /\ PartlyRead'
  BY <1>1 DEF IInv, Claimed, PortSet, PartlyRead, IsFree, Busy, Filling
<1> QED BY <1>2, <1>3, <1>5, <1>6 DEF IInv

(* Letting a block go unpins it, without wrapping the count. *)
LEMMA BfreeStep == IInv /\ bfree => IInv'
<1> SUFFICES ASSUME IInv, bfree PROVE IInv'
  OBVIOUS
<1>1. pc = "held" /\ pc' = "idle" /\ UNCHANGED <<blockDataCache, storage, want, slot, i>>
  BY DEF bfree
<1>2. slot \in Slots /\ blockCache[slot].cnt = 1
  BY <1>1 DEF IInv, TypeOK, PinsExact, Busy
<1>3. blockCache' = [blockCache EXCEPT ![slot].cnt = 0]
  <2>1. (blockCache[slot].cnt + 255) % 256 = 0
    BY <1>2
  <2> QED BY <2>1 DEF bfree
<1>4. TypeOK'
  <2> DEFINE SlotType == [flags : {BLOCK_FREE, BLOCK_USED}, n : BlockIds \cup {0}, cnt : 0 .. 255]
  <2>1. [blockCache[slot] EXCEPT !.cnt = 0] \in SlotType
    BY <1>2 DEF IInv, TypeOK
  <2>2. blockCache' \in [Slots -> SlotType]
    BY <1>2, <1>3, <2>1 DEF IInv, TypeOK
  <2> QED BY <1>1, <2>2 DEF IInv, TypeOK
<1>5. \A s \in Slots : /\ blockCache'[s].flags = blockCache[s].flags
                        /\ blockCache'[s].n = blockCache[s].n
                        /\ blockCache'[s].cnt = 0
  BY <1>1, <1>2, <1>3 DEF IInv, TypeOK, PinsExact
<1>6. NoDuplicates' /\ Coherent'
  BY <1>1, <1>5 DEF IInv, NoDuplicates, Coherent, IsFree, Filling
<1>7. PinsExact'
  BY <1>1, <1>5 DEF PinsExact, Busy, Filling
<1>8. Claimed' /\ PortSet' /\ PartlyRead'
  BY <1>1 DEF Claimed, PortSet, PartlyRead, Busy, Filling
<1> QED BY <1>4, <1>6, <1>7, <1>8 DEF IInv

LEMMA StutterStep == IInv /\ UNCHANGED vars => IInv'
BY DEF IInv, vars, TypeOK, NoDuplicates, Coherent, PinsExact, Claimed, PortSet,
       PartlyRead, IsFree, Busy, Filling

LEMMA NextIInv == IInv /\ [Next]_vars => IInv'
BY CallBreadStep, BreadHitStep, BreadClaimStep, BlockSyncStep, AtaHighStep, AtaMidStep,
   AtaByteStep, AtaDoneStep, BfreeStep, StutterStep
DEF Next, bread
-----------------------------------------------------------------------------
THEOREM InductiveInvariant == Spec => []IInv
<1> QED BY InitIInv, NextIInv, PTL DEF Spec

(* Every variable of the block cache keeps its type: no count wraps.          *)
THEOREM TypeCorrect == Spec => []TypeOK
<1>1. IInv => TypeOK
  BY DEF IInv
<1> QED BY <1>1, InductiveInvariant, PTL

(* bread never caches a block twice.                                          *)
THEOREM CacheHasNoDuplicates == Spec => []NoDuplicates
<1>1. IInv => NoDuplicates
  BY DEF IInv
<1> QED BY <1>1, InductiveInvariant, PTL

(* A hit returns the bytes on disk.                                           *)
THEOREM CacheIsCoherent == Spec => []Coherent
<1>1. IInv => Coherent
  BY DEF IInv
<1> QED BY <1>1, InductiveInvariant, PTL

(* Pins are exact: the block being read is pinned once, and no other.         *)
THEOREM CachePinsExact == Spec => []PinsExact
<1>1. IInv => PinsExact
  BY DEF IInv
<1> QED BY <1>1, InductiveInvariant, PTL
-----------------------------------------------------------------------------
(* A slot the reader is given shows exactly the block it asked for. *)
LEMMA HeldBytes ==
  IInv /\ pc = "held" => blockDataCache[slot] = [o \in Offsets |-> DiskByte(want, o)]
<1> SUFFICES ASSUME IInv, pc = "held"
             PROVE  blockDataCache[slot] = [o \in Offsets |-> DiskByte(want, o)]
  OBVIOUS
<1>1. slot \in Slots /\ ~IsFree(slot) /\ blockCache[slot].n = want /\ pc \notin Filling
  BY DEF IInv, TypeOK, Claimed, Busy, Filling
<1>2. \A o \in Offsets : blockDataCache[slot][o] = DiskByte(want, o)
  BY <1>1 DEF IInv, Coherent
<1>3. blockDataCache[slot] = [o \in Offsets |-> blockDataCache[slot][o]]
  BY <1>1 DEF IInv, TypeOK
<1> QED BY <1>2, <1>3

LEMMA StoreInit == Init => BS!BSInit
BY DEF Init, BS!BSInit, BS!NoView, View

(* A step that does not hand over or give back a block changes no view. *)
LEMMA StoreStutter ==
  ASSUME pc # "held", pc' # "held" PROVE UNCHANGED View
BY DEF View

(* Handing over a slot is taking the block wanted. *)
LEMMA StoreTake ==
  ASSUME IInv', pc # "held", pc' = "held" PROVE BS!BSNext
<1>1. blockDataCache'[slot'] = [o \in Offsets |-> DiskByte(want', o)]
  <2>1. (IInv /\ pc = "held" =>
           blockDataCache[slot] = [o \in Offsets |-> DiskByte(want, o)])'
    BY HeldBytes, PTL
  <2> QED BY <2>1
<1>2. want' \in BlockIds
  BY DEF IInv, Claimed
<1>3. BS!Take(want')
  BY <1>1 DEF BS!Take, View
<1> QED BY <1>2, <1>3 DEF BS!BSNext

(* Giving it back is letting go. *)
LEMMA StoreLetGo ==
  ASSUME pc = "held", pc' # "held" PROVE BS!BSNext
BY DEF BS!BSNext, BS!LetGo, BS!NoView, View

LEMMA StoreHeld ==
  ASSUME pc = "held", pc' = "held", [Next]_vars PROVE UNCHANGED View
BY DEF View, Next, bread, CallBread, BreadHit, BreadClaim, block_sync, AtaHigh, AtaMid,
       AtaByte, AtaDone, bfree, vars

(* Over any disk the cache and its port implement an array of blocks, read   *)
(* one at a time: a reader cannot tell bread from the disk itself.            *)
THEOREM CacheImplementsStore == Spec => ImplementsStore
<1>1. IInv' /\ [Next]_vars => [BS!BSNext]_View
  BY StoreStutter, StoreTake, StoreLetGo, StoreHeld
<1> QED BY <1>1, StoreInit, InductiveInvariant, PTL DEF Spec, ImplementsStore, BS!BSSpec
=============================================================================
