----------------------------- MODULE FileSystem -----------------------------
(***************************************************************************)
(* Files from the host's directory into a process: cpu5mkfs (tools/mkfs.c) *)
(* lays them out in an image, the kernel (fs.c) finds one by its name in   *)
(* the first block and load_process (proc.c) reads it piece by piece.      *)
(*                                                                         *)
(* The disk is read block by block through the cache, which module         *)
(* BlockCache shows to be the same as reading the image.  A byte of the    *)
(* image is Zero, one of a file, or one of an entry, whose first stands    *)
(* for it all.  Sizes and positions are the program's, scaled: a block has *)
(* BlockSize bytes (256), an entry EntrySize (16), and both programs cut   *)
(* numbers to Word (65536).                                                *)
(***************************************************************************)
EXTENDS Integers, Sequences

CONSTANTS
  BlockSize, EntrySize, Word,
  DirBlocks,    \* the blocks mkfs leaves to the directory (2)
  FsSize,       \* the bytes of the array fs (1 MB)
  FileNames,    \* the names of the host's files
  Directories,  \* the host's directories: sequences of [name, size]
  Names,        \* the names asked for
  Long,         \* the names of 11 characters and more
  Cut,          \* what strncpy leaves of such a name
  Misread,      \* the block and size that bytes which are no entry may show as one
  Pieces        \* how much a caller reads at a time: a page (0x1000)

ASSUME SizesAssumption ==
  /\ {BlockSize, EntrySize, Word, DirBlocks, FsSize} \subseteq Nat \ {0}
  /\ Pieces \subseteq Nat \ {0}
  /\ \A p \in Pieces : p + BlockSize <= Word
ASSUME DirectoriesAssumption ==
  Directories \subseteq Seq([name : FileNames, size : Nat])
(* No name is twice in a directory.  A name cut to 11 characters is still of *)
(* 11, and so is one that goes on with junk, if it is asked for at all.      *)
ASSUME NamesAssumption ==
  /\ \A d \in Directories : \A i, j \in DOMAIN d : d[i].name = d[j].name => i = j
  /\ Cut \in Long /\ "junk" \notin Names \ Long
ASSUME MisreadAssumption == Misread \subseteq [blk : Nat, size : 0 .. Word - 1]

VARIABLES
  files,                \* the host's directory
  c_file, c_offset, fs, \* mkfs: entries made, end of the data, the image
  name, f_entry, beside,\* stat: the name, the entry looked at, the block in the next slot
  st,                   \* what stat found
  piece, got, left,     \* load_process: already_read, left_to_read
  want, already_read,   \* read_file: size, already_read
  out,                  \* the bytes read
  pc

mkfsVars == <<files, c_file, c_offset, fs>>
statVars == <<name, f_entry, beside, st>>
readVars == <<piece, got, left, want, already_read, out>>
vars == <<mkfsVars, statVars, readVars, pc>>

Zero == [kind |-> "zero"]
Junk == [kind |-> "junk"]
Data(k, i) == [kind |-> "data", file |-> k, at |-> i]
Entry(n, blk, size) == [kind |-> "entry", name |-> n, blk |-> blk, size |-> size]
IsEntry(v) == v.kind = "entry"

PerBlock == BlockSize \div EntrySize

Init ==
  /\ files \in Directories /\ c_file = 0 /\ c_offset = DirBlocks * BlockSize
  /\ fs = [a \in 0 .. FsSize - 1 |-> Zero]
  /\ name \in Names /\ f_entry = 0 /\ beside = 0
  /\ st = [found |-> FALSE, blk |-> 0, size |-> 0]
  /\ piece \in Pieces /\ got = 0 /\ left = 0 /\ want = 0 /\ already_read = 0 /\ out = <<>>
  /\ pc = "mkfs"
-----------------------------------------------------------------------------
(* append_directory: the entry, then the data, then the next whole block.    *)
(* strncpy copies 11 characters and the twelfth byte is what the stack held: *)
(* a long name ends there or goes on with junk.  Mutant: the next file       *)
(* begins where the last one ended.                                          *)
StoredNames(n) == IF n \in Long THEN {Cut, "junk"} ELSE {n}

RoundUp_Whole(n) == n
RoundUp(n) == n + ((BlockSize - (n % BlockSize)) % BlockSize)

WithEntry(image, v) ==
  [a \in DOMAIN image |->
     IF a = c_file * EntrySize THEN v
     ELSE IF a \div EntrySize = c_file THEN Junk ELSE image[a]]
WithData(image, size) ==
  [a \in DOMAIN image |->
     IF a \in c_offset .. c_offset + size - 1 THEN Data(c_file, a - c_offset) ELSE image[a]]

PutFile ==
  /\ pc = "mkfs" /\ c_file < Len(files)
  /\ LET f == files[c_file + 1] IN
     /\ c_offset + f.size <= FsSize
     /\ \E n \in StoredNames(f.name) :
          fs' = WithData(WithEntry(fs, Entry(n, c_offset \div BlockSize, f.size % Word)), f.size)
     /\ c_offset' = RoundUp(c_offset + f.size)
  /\ c_file' = c_file + 1
  /\ UNCHANGED <<files, statVars, readVars, pc>>

(* The image is the disk; stat has read its first block into a slot of the   *)
(* cache.  The next slot holds any block, one that is all zeros if it was    *)
(* never used; or there is none, and the memory behind the cache follows.    *)
Behind == FsSize
Stat ==
  /\ pc = "mkfs" /\ c_file = Len(files)
  /\ beside' \in 0 .. c_offset \div BlockSize \cup {Behind}
  /\ f_entry' = 0
  /\ pc' = "stat"
  /\ UNCHANGED <<mkfsVars, name, st, readVars>>

Byte(a) == IF a \in DOMAIN fs THEN fs[a] ELSE Zero
Cached(a) ==              \* the bytes from the slot of block 0 on
  IF a < BlockSize THEN Byte(a)
  ELSE IF beside = Behind \/ a >= 2 * BlockSize THEN Junk
  ELSE Byte(beside * BlockSize + a - BlockSize)

(* The loop of stat compares bytes, whatever they are: those of a file, or   *)
(* of the memory behind, may be 0 where the name begins, may spell the name  *)
(* or another.  The bound Reach ends a walk that nothing has stopped.        *)
(* Mutant: every entry is taken for the one asked for.                       *)
Reach == 2 * BlockSize
Matches_Any(v) == TRUE
Matches(v) == IsEntry(v) => v.name = name
Fields(v) == IF IsEntry(v) THEN {[blk |-> v.blk, size |-> v.size]} ELSE Misread

Look ==
  /\ pc = "stat"
  /\ LET v == Cached(f_entry) IN
     \/ /\ ~ IsEntry(v)                   \* the end of the directory, -1
        /\ pc' = "done" /\ UNCHANGED <<f_entry, st, left>>
     \/ /\ v # Zero /\ Matches(v)
        /\ \E e \in Fields(v) :
             /\ st' = [found |-> TRUE, blk |-> e.blk, size |-> e.size]
             /\ left' = e.size
        /\ pc' = "load" /\ UNCHANGED f_entry
     \/ /\ v # Zero /\ ~ (IsEntry(v) /\ Matches(v)) /\ f_entry < Reach
        /\ f_entry' = f_entry + EntrySize /\ UNCHANGED <<st, left, pc>>
  /\ UNCHANGED <<mkfsVars, name, beside, piece, got, want, already_read, out>>
-----------------------------------------------------------------------------
(* load_process: the call of read_file for the next piece.                   *)
LoadPiece ==
  /\ pc = "load" /\ left > 0
  /\ want' = IF left > piece THEN piece ELSE left
  /\ already_read' = 0
  /\ pc' = "read"
  /\ UNCHANGED <<mkfsVars, statVars, piece, got, left, out>>

LoadEnds ==
  /\ pc = "load" /\ left = 0
  /\ pc' = "done"
  /\ UNCHANGED <<mkfsVars, statVars, readVars>>

(* read_file, one block: from c_pos to its end, or to the end of the piece.  *)
(* A copy that left the block would bring what is beside it.  Mutant: the    *)
(* comparison forgets that the piece may begin in the middle of the block.   *)
ReadNow_WholeBlock(c_pos, rest) == IF rest > BlockSize THEN BlockSize - (c_pos % BlockSize) ELSE rest
ReadNow(c_pos, rest) ==
  IF (rest + (c_pos % BlockSize)) % Word > BlockSize THEN BlockSize - (c_pos % BlockSize) ELSE rest

Copied(blk, from, n) ==
  [i \in 1 .. n |-> IF from + i <= BlockSize THEN Byte(blk * BlockSize + from + i - 1) ELSE Junk]

ReadBlock ==
  /\ pc = "read" /\ already_read < want
  /\ LET c_pos == (got + already_read) % Word
         read_now == ReadNow(c_pos, want - already_read)
     IN  /\ out' = out \o Copied(st.blk + c_pos \div BlockSize, c_pos % BlockSize, read_now)
         /\ already_read' = already_read + read_now
  /\ UNCHANGED <<mkfsVars, statVars, piece, got, left, want, pc>>

PieceRead ==
  /\ pc = "read" /\ already_read >= want
  /\ got' = got + want /\ left' = left - want
  /\ pc' = "load"
  /\ UNCHANGED <<mkfsVars, statVars, piece, want, already_read, out>>

Next == PutFile \/ Stat \/ Look \/ LoadPiece \/ LoadEnds \/ ReadBlock \/ PieceRead
Spec == Init /\ [][Next]_vars
-----------------------------------------------------------------------------
Asked == {k \in 1 .. Len(files) : files[k].name = name}

(* stat finds every file whose entry is in the first block and whose name    *)
(* has at most ten characters, however many there are; and it says of no     *)
(* other name that it is there, as long as an entry of the block is free to  *)
(* end the directory and no name of the disk has been cut.                   *)
Finds ==
  /\ pc = "done" /\ name \notin Long =>
       \A k \in Asked : k <= PerBlock => st.found
  /\ pc = "done" /\ Len(files) < PerBlock /\ (\A k \in DOMAIN files : files[k].name \notin Long) =>
       (st.found <=> Asked # {})

(* What is read of a file is the file, from the host's directory through the *)
(* image and the blocks into the process: all of it, or the part that 16     *)
(* bits can count.  That holds of every file of the first block, and of one  *)
(* past it when stat has stopped at an entry: bytes of other files that      *)
(* spell its name load whatever they say.  mkfs writes the entries past      *)
(* DirBlocks over the first files: of so many nothing is promised.           *)
Loads ==
  pc = "done" /\ st.found /\ name \notin Long /\ Len(files) <= DirBlocks * PerBlock =>
    \A k \in Asked : k <= PerBlock \/ IsEntry(Cached(f_entry)) =>
      /\ Len(out) = files[k].size % Word
      /\ \A i \in 1 .. Len(out) : out[i] = Data(k - 1, i - 1)

(* What read_file has copied so far is what the disk has from the first      *)
(* block of the file on, without a gap, and it never looks outside a block.  *)
ReadsDisk ==
  \A i \in 1 .. Len(out) : out[i] = Byte(st.blk * BlockSize + i - 1)
=============================================================================
