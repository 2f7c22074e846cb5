----------------------------- MODULE BlockCache -----------------------------
(***************************************************************************)
(* The block cache of the kernel (blk.c), the storage port it reads from   *)
(* (ata.c, SimpleStorage) and a reader that, as fs.c does everywhere,      *)
(* takes one block, copies from it and lets it go before the next.         *)
(*                                                                         *)
(* Block n is addressed by two bytes, n \div W and n % W (W = 256), and    *)
(* has BSIZE bytes (256); the byte at an address is the address itself, so *)
(* that a byte from any other place is seen to be wrong.                   *)
(* BLOCK_MODIFIED is never stored by the kernel, so no block is written    *)
(* back, and every device number is 0.                                     *)
(***************************************************************************)
EXTENDS Naturals

CONSTANTS
  BLOCK_CACHE_SIZE,     \* slots of the cache
  NBLOCKS,              \* blocks on the disk
  W,                    \* values of one byte of the block address
  BSIZE                 \* bytes of a block

ASSUME BlockCacheAssumption ==
  /\ BLOCK_CACHE_SIZE \in Nat \ {0} /\ NBLOCKS \in Nat /\ W \in Nat \ {0}
  /\ NBLOCKS <= W * W /\ BSIZE \in Nat \ {0}

Slots == 0 .. BLOCK_CACHE_SIZE - 1
BlockIds == 0 .. NBLOCKS - 1
Offsets == 0 .. BSIZE - 1
DiskByte(n, o) == <<n, o>>

BLOCK_FREE == 0
BLOCK_USED == 1

VARIABLES
  blockCache,       \* the slots: flags, block number, pin count
  blockDataCache,   \* the bytes of each slot
  storage,          \* SimpleStorage: c_high, c_mid and c_idx
  pc,               \* where the reader is in bread
  want,             \* the block number bread was called with
  slot,             \* the slot bread fills or returned
  i                 \* ata_read_block's loop counter

vars == <<blockCache, blockDataCache, storage, pc, want, slot, i>>

Junk == <<NBLOCKS, 0>>      \* what memory holds before a block is read into it

Init ==
  /\ blockCache = [s \in Slots |-> [flags |-> BLOCK_FREE, n |-> 0, cnt |-> 0]]
  /\ blockDataCache = [s \in Slots |-> [o \in Offsets |-> Junk]]
  /\ storage = [high |-> 0, mid |-> 0, idx |-> 0]
  /\ pc = "idle" /\ want = 0 /\ slot = 0 /\ i = 0
-----------------------------------------------------------------------------
CallBread ==
  /\ pc = "idle"
  /\ \E n \in BlockIds : want' = n
  /\ pc' = "lookup"
  /\ UNCHANGED <<blockCache, blockDataCache, storage, slot, i>>

Matches(s) == blockCache[s].flags # BLOCK_FREE /\ blockCache[s].n = want
IsFree(s) == blockCache[s].flags = BLOCK_FREE

(* The slots the first loop of bread finds.  Mutant: it starts a slot late. *)
Hits_Late == {s \in Slots : Matches(s) /\ s # 0}
Hits == {s \in Slots : Matches(s)}
FirstOf(S) == CHOOSE s \in S : \A t \in S : s <= t

BreadHit ==
  /\ pc = "lookup" /\ Hits # {}
  /\ slot' = FirstOf(Hits)
  /\ blockCache' = [blockCache EXCEPT ![slot'].cnt = (@ + 1) % 256]
  /\ pc' = "held"
  /\ UNCHANGED <<blockDataCache, storage, want, i>>

BreadClaim ==               \* no hit, and a slot is free
  /\ pc = "lookup" /\ Hits = {}
  /\ \E s \in Slots : IsFree(s)
  /\ slot' = FirstOf({s \in Slots : IsFree(s)})
  /\ blockCache' = [blockCache EXCEPT
                      ![slot'] = [flags |-> BLOCK_USED, n |-> want, cnt |-> 1]]
  /\ pc' = "ata_high"
  /\ UNCHANGED <<blockDataCache, storage, want, i>>

block_sync ==               \* free the slots nobody has pinned, then look again
  /\ pc = "lookup" /\ Hits = {}
  /\ \A s \in Slots : ~IsFree(s)
  /\ blockCache' = [s \in Slots |-> IF blockCache[s].cnt = 0
                                    THEN [blockCache[s] EXCEPT !.flags = BLOCK_FREE]
                                    ELSE blockCache[s]]
  /\ UNCHANGED <<blockDataCache, storage, pc, want, slot, i>>

(* ata_read_block: either half of the address restarts the byte index. *)
AtaHigh ==
  /\ pc = "ata_high"
  /\ storage' = [storage EXCEPT !.high = want \div W, !.idx = 0]
  /\ pc' = "ata_mid"
  /\ UNCHANGED <<blockCache, blockDataCache, want, slot, i>>

AtaMid_Missing ==           \* mutant: the low half of the address is not sent
  /\ pc = "ata_mid"
  /\ pc' = "ata_byte" /\ i' = 0
  /\ UNCHANGED <<blockCache, blockDataCache, storage, want, slot>>

AtaMid ==
  /\ pc = "ata_mid"
  /\ storage' = [storage EXCEPT !.mid = want % W, !.idx = 0]
  /\ pc' = "ata_byte" /\ i' = 0
  /\ UNCHANGED <<blockCache, blockDataCache, want, slot>>

(* SimpleStorage::read_l, as v_sim.cpp calls it.  (Under l_sim the call goes  *)
(* through SimpleStorage::read, which tests for address 4 where the masked   *)
(* address is 3, and then ends without a value.)                             *)
ReadPort == DiskByte(storage.high * W + storage.mid, storage.idx)

AtaByte ==
  /\ pc = "ata_byte" /\ i < BSIZE
  /\ blockDataCache' = [blockDataCache EXCEPT ![slot][i] = ReadPort]
  /\ storage' = [storage EXCEPT !.idx = (@ + 1) % BSIZE]
  /\ i' = i + 1
  /\ UNCHANGED <<blockCache, pc, want, slot>>

AtaDone_Early ==            \* mutant: the last byte is left unread
  /\ pc = "ata_byte" /\ i + 1 >= BSIZE
  /\ pc' = "held" /\ i' = 0
  /\ UNCHANGED <<blockCache, blockDataCache, storage, want, slot>>

AtaDone ==
  /\ pc = "ata_byte" /\ i >= BSIZE
  /\ pc' = "held" /\ i' = 0
  /\ UNCHANGED <<blockCache, blockDataCache, storage, want, slot>>

bfree_Leaks ==              \* mutant: the pin is kept
  /\ pc = "held"
  /\ pc' = "idle"
  /\ UNCHANGED <<blockCache, blockDataCache, storage, want, slot, i>>

bfree ==
  /\ pc = "held"
  /\ blockCache' = [blockCache EXCEPT ![slot].cnt = (@ + 255) % 256]
  /\ pc' = "idle"
  /\ UNCHANGED <<blockDataCache, storage, want, slot, i>>
-----------------------------------------------------------------------------
bread ==
  \/ BreadHit \/ BreadClaim \/ block_sync
  \/ AtaHigh \/ AtaMid \/ AtaByte \/ AtaDone

Next == CallBread \/ bread \/ bfree

Spec == Init /\ [][Next]_vars

(* The kernel's code runs on once it has called bread. *)
FairSpec == Spec /\ WF_vars(bread)
-----------------------------------------------------------------------------
Filling == {"ata_high", "ata_mid", "ata_byte"}
Busy == Filling \cup {"held"}

(* Types, with the byte ranges of the storage registers and of cnt. *)
TypeOK ==
  /\ blockCache \in [Slots -> [flags : {BLOCK_FREE, BLOCK_USED},
                               n : BlockIds \cup {0}, cnt : 0 .. 255]]
  /\ blockDataCache \in [Slots -> [Offsets -> (0 .. NBLOCKS) \X Offsets]]
  /\ storage \in [high : 0 .. W - 1, mid : 0 .. W - 1, idx : Offsets]
  /\ pc \in {"idle", "lookup"} \cup Busy
  /\ want \in BlockIds \cup {0} /\ slot \in Slots /\ i \in 0 .. BSIZE

(* blk.c:39-48: a block is never in two slots of the cache, whatever has     *)
(* been evicted and read again in between.                                   *)
NoDuplicates ==
  \A s, t \in Slots :
    ~IsFree(s) /\ ~IsFree(t) /\ blockCache[s].n = blockCache[t].n => s = t

(* A slot in use holds the bytes its block has on disk, unless bread is      *)
(* still filling it; so a later hit returns the right bytes.                 *)
Coherent ==
  \A s \in Slots :
    ~IsFree(s) /\ (pc \in Filling => s # slot) =>
      \A o \in Offsets : blockDataCache[s][o] = DiskByte(blockCache[s].n, o)

(* The slot a reader holds is the only one pinned: it is pinned exactly      *)
(* once, so block_sync neither takes it away nor finds every slot taken.     *)
PinsExact ==
  \A s \in Slots :
    blockCache[s].cnt = IF pc \in Busy /\ s = slot THEN 1 ELSE 0

(* The reader sees an array of blocks: the cache and the port are invisible. *)
View ==
  IF pc = "held"
  THEN [n |-> want, held |-> TRUE, bytes |-> blockDataCache[slot]]
  ELSE [n |-> 0, held |-> FALSE, bytes |-> [o \in Offsets |-> 0]]
BS == INSTANCE BlockStore WITH view <- View
ImplementsStore == BS!BSSpec

(* blk.c:38: bread's loop ends; there is always a slot that can be freed. *)
BreadReturns == pc = "lookup" ~> pc = "held"
=============================================================================
