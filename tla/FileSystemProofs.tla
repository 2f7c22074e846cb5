-------------------------- MODULE FileSystemProofs --------------------------
(***************************************************************************)
(* For every size of block, entry, number and piece, and for every         *)
(* directory of the host: what read_file copies is what the disk holds,    *)
(* because no sum wraps and the pieces and the blocks leave no gap; stat   *)
(* finds what mkfs has written, because the entries of the first block are *)
(* never overwritten and the rest of the block is zeros; and what is       *)
(* loaded of a file is the file, if an entry was found and not bytes that  *)
(* look like one, because its data are where its entry says as long as     *)
(* mkfs has entries left.                                                  *)
(***************************************************************************)
EXTENDS FileSystem, SequenceTheorems, TLAPS

AnyName == FileNames \cup {Cut, "junk"}
Cells ==
  [kind : {"zero", "junk"}] \cup [kind : {"data"}, file : Nat, at : Int]
  \cup [kind : {"entry"}, name : AnyName, blk : Nat, size : 0 .. Word - 1]

(* The numbers of the three loops, and how much has been copied at each of   *)
(* their places: out is as long as the positions say, got and left make up   *)
(* the size stat found, which 16 bits hold, so that no position wraps.       *)
MkfsInv ==
  /\ c_file \in Nat /\ c_offset \in Nat
  /\ files \in Directories
  /\ fs \in [0 .. FsSize - 1 -> Cells]
StatInv ==
  /\ f_entry \in Nat /\ beside \in Nat
  /\ st \in [found : BOOLEAN, blk : Nat, size : Nat]
CountInv ==
  /\ piece \in Pieces
  /\ got \in Nat /\ left \in Nat /\ want \in Nat /\ already_read \in Nat
  /\ got + left < Word
  /\ out \in Seq(Cells)
PlaceInv ==
  /\ pc \in {"mkfs", "stat"} => got = 0 /\ out = <<>>
  /\ pc = "load" => Len(out) = got
  /\ pc = "read" => /\ want <= piece /\ want <= left
                    /\ already_read <= want
                    /\ Len(out) = got + already_read
ReadInv == MkfsInv /\ StatInv /\ CountInv /\ PlaceInv /\ ReadsDisk

LEMMA Division ==
  ASSUME NEW n \in Nat, NEW d \in Nat \ {0}
  PROVE  /\ n \div d \in Nat /\ n % d \in 0 .. d - 1
         /\ n = (n \div d) * d + (n % d)
  OBVIOUS

LEMMA SmallRemainder ==
  ASSUME NEW d \in Nat \ {0}, NEW n \in 0 .. d - 1
  PROVE  n % d = n
  <1>. DEFINE q == n \div d
              r == n % d
  <1>1. q \in Nat /\ r \in Nat /\ n = q * d + r
    BY Division
  <1>. HIDE DEF q, r
  <1>2. q >= 1 => q * d >= d
    BY <1>1
  <1>3. q = 0
    BY <1>1, <1>2
  <1>. QED BY <1>1, <1>3 DEF r

(* Where position c of a file is: in this block, at this place of it.        *)
LEMMA PositionSplit ==
  ASSUME NEW c \in Nat
  PROVE  /\ c \div BlockSize \in Nat /\ c % BlockSize \in 0 .. BlockSize - 1
         /\ c = (c \div BlockSize) * BlockSize + (c % BlockSize)
  BY SizesAssumption, Division

(* One step of read_file stays in its block, and goes on.                    *)
LEMMA ReadNowFits ==
  ASSUME NEW c \in Nat, NEW rest \in Nat \ {0}, NEW p \in Pieces, rest <= p
  PROVE  /\ ReadNow(c, rest) \in 1 .. rest
         /\ (c % BlockSize) + ReadNow(c, rest) <= BlockSize
  <1>1. c % BlockSize \in 0 .. BlockSize - 1
    BY PositionSplit
  <1>2. p \in Nat /\ Word \in Nat /\ BlockSize \in Nat \ {0} /\ p + BlockSize <= Word
    BY SizesAssumption
  <1>. DEFINE o == c % BlockSize
  <1>3. rest + o < Word
    BY <1>1, <1>2
  <1>4. (rest + o) % Word = rest + o
    <2>. HIDE DEF o
    <2>1. rest + o \in 0 .. Word - 1 /\ Word \in Nat \ {0}
      BY <1>1, <1>2, <1>3 DEF o
    <2>. QED BY <2>1, SmallRemainder
  <1>. QED BY <1>1, <1>2, <1>4 DEF ReadNow

LEMMA ByteIsCell ==
  ASSUME fs \in [0 .. FsSize - 1 -> Cells], NEW a \in Int
  PROVE  Byte(a) \in Cells
  BY DEF Byte, Cells, Zero

THEOREM InitReads == Init => ReadInv
  <1>. SUFFICES ASSUME Init PROVE ReadInv
    OBVIOUS
  <1>1. MkfsInv
    BY SizesAssumption DEF Init, MkfsInv, Cells, Zero
  <1>2. StatInv
    BY DEF Init, StatInv
  <1>3. CountInv
    BY SizesAssumption DEF Init, CountInv
  <1>4. PlaceInv /\ ReadsDisk
    BY DEF Init, PlaceInv, ReadsDisk
  <1>. QED BY <1>1, <1>2, <1>3, <1>4 DEF ReadInv

(* mkfs: the entries it writes hold numbers.                                 *)
LEMMA PutFileReads == ReadInv /\ PutFile => ReadInv'
  <1>. SUFFICES ASSUME ReadInv, PutFile PROVE ReadInv'
    OBVIOUS
  <1>. DEFINE f == files[c_file + 1]
  <1>1. f.name \in FileNames /\ f.size \in Nat
    <2>1. files \in Seq([name : FileNames, size : Nat])
      BY DirectoriesAssumption DEF ReadInv, MkfsInv
    <2>2. c_file + 1 \in 1 .. Len(files)
      BY <2>1, LenProperties DEF ReadInv, MkfsInv, PutFile
    <2>3. f \in [name : FileNames, size : Nat]
      BY <2>1, <2>2, ElementOfSeq
    <2>. QED BY <2>3
  <1>2. PICK n \in StoredNames(f.name) :
          fs' = WithData(WithEntry(fs, Entry(n, c_offset \div BlockSize, f.size % Word)), f.size)
    BY DEF PutFile
  <1>3. n \in AnyName
    <2>. HIDE DEF f
    <2>. QED BY <1>1 DEF StoredNames, AnyName
  <1>4. Entry(n, c_offset \div BlockSize, f.size % Word) \in Cells
    <2>1. c_offset \div BlockSize \in Nat
      BY PositionSplit DEF ReadInv, MkfsInv
    <2>2. f.size % Word \in 0 .. Word - 1
      BY <1>1, SizesAssumption
    <2>. HIDE DEF f
    <2>. QED BY <1>3, <2>1, <2>2 DEF Entry, Cells
  <1>5. fs' \in [0 .. FsSize - 1 -> Cells]
    <2>. DEFINE v == Entry(n, c_offset \div BlockSize, f.size % Word)
    <2>1. WithEntry(fs, v) \in [0 .. FsSize - 1 -> Cells]
      <3>1. Junk \in Cells /\ v \in Cells /\ fs \in [0 .. FsSize - 1 -> Cells]
        BY <1>4 DEF Junk, Cells, ReadInv, MkfsInv
      <3>. HIDE DEF v
      <3>. QED BY <3>1 DEF WithEntry
    <2>2. \A a \in 0 .. FsSize - 1 : Data(c_file, a - c_offset) \in Cells
      BY SizesAssumption DEF Data, Cells, ReadInv, MkfsInv
    <2>3. fs' = WithData(WithEntry(fs, v), f.size)
      BY <1>2
    <2>. HIDE DEF v, f
    <2>. QED BY <2>1, <2>2, <2>3 DEF WithData
  <1>6. RoundUp(c_offset + f.size) \in Nat
    <2>1. c_offset + f.size \in Nat
      BY <1>1 DEF ReadInv, MkfsInv
    <2>. HIDE DEF f
    <2>2. (c_offset + f.size) % BlockSize \in 0 .. BlockSize - 1
      BY <2>1, PositionSplit
    <2>3. (BlockSize - ((c_offset + f.size) % BlockSize)) % BlockSize \in Nat
      <3>. DEFINE rest == (c_offset + f.size) % BlockSize
      <3>1. BlockSize - rest \in Nat /\ BlockSize \in Nat \ {0}
        <4>1. rest \in 0 .. BlockSize - 1 /\ BlockSize \in Nat \ {0}
          BY <2>2, SizesAssumption
        <4>. HIDE DEF rest
        <4>. QED BY <4>1
      <3>. HIDE DEF rest
      <3>2. (BlockSize - rest) % BlockSize \in Nat
        BY <3>1, Division
      <3>. QED BY <3>2 DEF rest
    <2>. QED BY <2>1, <2>3 DEF RoundUp
  <1>7. MkfsInv'
    BY <1>5, <1>6 DEF PutFile, MkfsInv, ReadInv
  <1>8. StatInv' /\ CountInv' /\ PlaceInv' /\ ReadsDisk'
    BY DEF ReadInv, PutFile, StatInv, CountInv, PlaceInv, ReadsDisk, statVars, readVars
  <1>. QED BY <1>7, <1>8 DEF ReadInv

LEMMA StatReads == ReadInv /\ Stat => ReadInv'
  <1>. SUFFICES ASSUME ReadInv, Stat PROVE ReadInv'
    OBVIOUS
  <1>1. MkfsInv' /\ CountInv'
    BY DEF ReadInv, Stat, MkfsInv, CountInv, mkfsVars, readVars
  <1>2. StatInv'
    <2>1. beside' \in Nat
      BY SizesAssumption DEF Stat, Behind
    <2>. QED BY <2>1 DEF ReadInv, Stat, StatInv
  <1>3. PlaceInv' /\ ReadsDisk'
    BY DEF ReadInv, Stat, PlaceInv, ReadsDisk, readVars
  <1>. QED BY <1>1, <1>2, <1>3 DEF ReadInv

(* stat: the size of an entry, or of bytes read as one, is less than Word.   *)
LEMMA LookReads == ReadInv /\ Look => ReadInv'
  <1>. SUFFICES ASSUME ReadInv, Look PROVE ReadInv'
    OBVIOUS
  <1>. DEFINE v == Cached(f_entry)
  <1>1. v \in Cells
    <2>1. beside * BlockSize + f_entry - BlockSize \in Int /\ f_entry \in Int
      BY SizesAssumption DEF ReadInv, StatInv
    <2>2. Junk \in Cells
      BY DEF Junk, Cells
    <2>. QED BY <2>1, <2>2, ByteIsCell DEF Cached, ReadInv, MkfsInv
  <1>2. MkfsInv'
    BY DEF ReadInv, Look, MkfsInv, mkfsVars
  <1>3. got = 0 /\ out = <<>> /\ got' = got /\ out' = out
    BY DEF ReadInv, PlaceInv, Look
  <1>4. CASE pc' = "done" /\ UNCHANGED <<f_entry, st, left>>
    BY <1>2, <1>3, <1>4 DEF ReadInv, Look, StatInv, CountInv, PlaceInv, ReadsDisk
  <1>5. ASSUME NEW e \in Fields(v), st' = [found |-> TRUE, blk |-> e.blk, size |-> e.size],
               left' = e.size, pc' = "load", UNCHANGED f_entry
        PROVE  ReadInv'
    <2>1. e.blk \in Nat /\ e.size \in 0 .. Word - 1
      <3>. HIDE DEF v
      <3>1. CASE IsEntry(v)
        <4>1. v.blk \in Nat /\ v.size \in 0 .. Word - 1
          BY <1>1, <3>1 DEF IsEntry, Cells
        <4>2. e = [blk |-> v.blk, size |-> v.size]
          BY <3>1 DEF Fields
        <4>. QED BY <4>1, <4>2
      <3>2. CASE ~ IsEntry(v)
        BY <3>2, MisreadAssumption DEF Fields
      <3>. QED BY <3>1, <3>2
    <2>. HIDE DEF v
    <2>2. StatInv'
      BY <1>5, <2>1 DEF ReadInv, Look, StatInv
    <2>3. CountInv'
      BY <1>3, <1>5, <2>1, SizesAssumption DEF ReadInv, Look, CountInv
    <2>4. PlaceInv' /\ ReadsDisk'
      BY <1>3, <1>5 DEF PlaceInv, ReadsDisk
    <2>. QED BY <1>2, <2>2, <2>3, <2>4 DEF ReadInv
  <1>6. CASE f_entry' = f_entry + EntrySize /\ UNCHANGED <<st, left, pc>>
    <2>1. StatInv'
      BY <1>6, SizesAssumption DEF ReadInv, Look, StatInv
    <2>2. CountInv' /\ PlaceInv' /\ ReadsDisk'
      BY <1>3, <1>6 DEF ReadInv, Look, CountInv, PlaceInv, ReadsDisk
    <2>. QED BY <1>2, <2>1, <2>2 DEF ReadInv
  <1>. QED BY <1>4, <1>5, <1>6 DEF Look

(* load_process asks for no more than is left and no more than a piece.      *)
LEMMA LoadPieceReads == ReadInv /\ LoadPiece => ReadInv'
  <1>. SUFFICES ASSUME ReadInv, LoadPiece PROVE ReadInv'
    OBVIOUS
  <1>1. MkfsInv' /\ StatInv'
    BY DEF ReadInv, LoadPiece, MkfsInv, StatInv, mkfsVars, statVars
  <1>2. piece \in Nat
    BY SizesAssumption DEF ReadInv, CountInv
  <1>3. CountInv' /\ PlaceInv'
    BY <1>2 DEF ReadInv, LoadPiece, CountInv, PlaceInv
  <1>4. ReadsDisk'
    BY DEF ReadInv, LoadPiece, ReadsDisk, Byte, mkfsVars, statVars
  <1>. QED BY <1>1, <1>3, <1>4 DEF ReadInv

LEMMA LoadEndsReads == ReadInv /\ LoadEnds => ReadInv'
  BY DEF ReadInv, LoadEnds, MkfsInv, StatInv, CountInv, PlaceInv, ReadsDisk, Byte,
         mkfsVars, statVars, readVars

(* read_file: the bytes added follow those there, position by position.      *)
LEMMA ReadBlockReads == ReadInv /\ ReadBlock => ReadInv'
  <1>. SUFFICES ASSUME ReadInv, ReadBlock PROVE ReadInv'
    OBVIOUS
  <1>. DEFINE pos == got + already_read
              now == ReadNow(pos, want - already_read)
              blk == st.blk + (pos \div BlockSize)
              from == pos % BlockSize
              more == Copied(blk, from, now)
  <1>1. /\ pc = "read" /\ already_read < want /\ want <= piece /\ want <= left
        /\ Len(out) = pos /\ pos \in Nat /\ want \in Nat /\ already_read \in Nat
        /\ got + left < Word /\ left \in Nat /\ got \in Nat /\ piece \in Pieces
    BY DEF ReadInv, ReadBlock, CountInv, PlaceInv
  <1>2. (got + already_read) % Word = pos
    <2>1. Word \in Nat \ {0}
      BY SizesAssumption
    <2>2. got + already_read < Word
      BY <1>1, <2>1
    <2>3. pos \in 0 .. Word - 1
      BY <1>1, <2>1, <2>2
    <2>. QED BY <2>1, <2>3, SmallRemainder
  <1>3. /\ out' = out \o more
        /\ already_read' = already_read + now
    BY <1>2 DEF ReadBlock
  <1>4. now \in 1 .. want - already_read /\ from + now <= BlockSize
    <2>1. want - already_read \in Nat \ {0} /\ piece \in Nat /\ want - already_read <= piece
      BY <1>1, SizesAssumption
    <2>. QED BY <1>1, <2>1, ReadNowFits
  <1>5. pos \div BlockSize \in Nat /\ from \in 0 .. BlockSize - 1
        /\ pos = (pos \div BlockSize) * BlockSize + from
    BY <1>1, PositionSplit
  <1>6. st.blk \in Nat /\ BlockSize \in Nat \ {0}
    BY SizesAssumption DEF ReadInv, StatInv
  <1>7. blk * BlockSize + from = st.blk * BlockSize + pos
    <2>. DEFINE q == pos \div BlockSize
                b == st.blk
    <2>1. q \in Nat /\ from \in Nat /\ b \in Nat /\ pos \in Nat /\ pos = q * BlockSize + from
      BY <1>1, <1>5, <1>6
    <2>2. BlockSize \in Nat
      BY <1>6
    <2>3. (b + q) * BlockSize + from = b * BlockSize + pos
      <3>. HIDE DEF q, b, pos, from
      <3>. QED BY <2>1, <2>2
    <2>. QED BY <2>3
  <1>8. /\ more = [i \in 1 .. now |-> Byte(st.blk * BlockSize + pos + i - 1)]
        /\ more \in Seq(Cells) /\ Len(more) = now
    <2>. DEFINE base == st.blk * BlockSize
    <2>1. base \in Nat /\ blk * BlockSize \in Nat
      BY <1>5, <1>6
    <2>2. \A i \in 1 .. now : /\ from + i <= BlockSize
                              /\ blk * BlockSize + from + i - 1 = base + pos + i - 1
      <3>1. \A i \in 1 .. now : from + i <= BlockSize
        BY <1>4, <1>5, <1>6
      <3>. DEFINE b == blk * BlockSize
      <3>2. b + from = base + pos /\ b \in Nat /\ from \in Nat /\ pos \in Nat /\ now \in Nat
        BY <1>1, <1>4, <1>5, <1>7, <2>1
      <3>3. \A i \in 1 .. now : b + from + i - 1 = base + pos + i - 1
        <4>. HIDE DEF b, base, pos, from, now
        <4>. QED BY <3>2, <2>1
      <3>. QED BY <3>1, <3>3
    <2>3. \A i \in 1 .. now : Byte(base + pos + i - 1) \in Cells
      <3>1. \A i \in 1 .. now : base + pos + i - 1 \in Int
        BY <1>1, <1>4, <2>1
      <3>. HIDE DEF base, pos, now
      <3>. QED BY <3>1, ByteIsCell DEF ReadInv, MkfsInv
    <2>4. more = [i \in 1 .. now |-> Byte(base + pos + i - 1)]
      <3>. HIDE DEF base, pos, now, blk, from
      <3>. QED BY <2>2 DEF Copied
    <2>. HIDE DEF base, pos, now, blk, from, more
    <2>5. now \in Nat
      BY <1>4, <1>1
    <2>. QED BY <2>3, <2>4, <2>5 DEF base
  <1>9. out \in Seq(Cells) /\ ReadsDisk
    BY DEF ReadInv, CountInv
  <1>10. out' \in Seq(Cells) /\ Len(out') = pos + now
    <2>. HIDE DEF pos, now, more
    <2>. QED BY <1>1, <1>3, <1>8, <1>9, ConcatProperties, ZenonT(60)
  <1>11. UNCHANGED <<fs, st, pc, piece, got, left, want>>
    BY DEF ReadBlock, mkfsVars, statVars
  <1>12. ReadsDisk'
    <2>1. \A i \in 1 .. pos + now : out'[i] = Byte(st.blk * BlockSize + i - 1)
      <3>. SUFFICES ASSUME NEW i \in 1 .. pos + now
                    PROVE  out'[i] = Byte(st.blk * BlockSize + i - 1)
        OBVIOUS
      <3>1. CASE i <= pos
        <4>1. out'[i] = out[i]
          <5>. HIDE DEF pos, now, more
          <5>1. i \in 1 .. Len(out) + Len(more)
            BY <1>1, <1>8
          <5>. QED BY <1>1, <1>3, <1>8, <1>9, <3>1, <5>1, ConcatProperties
        <4>. QED BY <1>1, <1>9, <3>1, <4>1 DEF ReadsDisk
      <3>2. CASE i > pos
        <4>1. i - pos \in 1 .. now
          <5>. HIDE DEF pos, now
          <5>. QED BY <1>1, <1>4, <3>2
        <4>2. out'[i] = more[i - pos]
          <5>. HIDE DEF pos, now, more
          <5>1. i \in 1 .. Len(out) + Len(more) /\ ~ (i <= Len(out))
            BY <1>1, <1>4, <1>8, <3>2
          <5>. QED BY <1>1, <1>3, <1>8, <1>9, <5>1, ConcatProperties, ZenonT(60)
        <4>3. more[i - pos] = Byte(st.blk * BlockSize + pos + (i - pos) - 1)
          <5>. HIDE DEF pos, now, more
          <5>. QED BY <1>8, <4>1
        <4>4. st.blk * BlockSize + pos + (i - pos) - 1 = st.blk * BlockSize + i - 1
          <5>1. st.blk * BlockSize \in Nat
            BY <1>6
          <5>. DEFINE base == st.blk * BlockSize
          <5>. HIDE DEF pos, now, base
          <5>. QED BY <1>1, <1>4, <5>1 DEF base
        <4>. QED BY <4>2, <4>3, <4>4
      <3>. QED BY <1>1, <1>4, <3>1, <3>2
    <2>. HIDE DEF pos, now
    <2>. QED BY <1>10, <1>11, <2>1 DEF ReadsDisk, Byte
  <1>13. MkfsInv' /\ StatInv'
    BY DEF ReadInv, ReadBlock, MkfsInv, StatInv, mkfsVars, statVars
  <1>14. already_read' \in Nat /\ already_read' <= want
    <2>. HIDE DEF now
    <2>. QED BY <1>1, <1>3, <1>4
  <1>15. CountInv'
    BY <1>10, <1>11, <1>14 DEF ReadInv, CountInv
  <1>16. PlaceInv'
    <2>1. Len(out') = got + already_read'
      <3>. HIDE DEF now
      <3>. QED BY <1>1, <1>3, <1>4, <1>10
    <2>. QED BY <1>1, <1>11, <1>14, <2>1 DEF PlaceInv
  <1>. QED BY <1>12, <1>13, <1>15, <1>16 DEF ReadInv

LEMMA PieceReadReads == ReadInv /\ PieceRead => ReadInv'
  <1>. SUFFICES ASSUME ReadInv, PieceRead PROVE ReadInv'
    OBVIOUS
  <1>1. MkfsInv' /\ StatInv'
    BY DEF ReadInv, PieceRead, MkfsInv, StatInv, mkfsVars, statVars
  <1>2. CountInv' /\ PlaceInv'
    BY DEF ReadInv, PieceRead, CountInv, PlaceInv
  <1>3. ReadsDisk'
    BY DEF ReadInv, PieceRead, ReadsDisk, Byte, mkfsVars, statVars
  <1>. QED BY <1>1, <1>2, <1>3 DEF ReadInv

LEMMA NextReads == ReadInv /\ [Next]_vars => ReadInv'
  <1>. SUFFICES ASSUME ReadInv, [Next]_vars PROVE ReadInv'
    OBVIOUS
  <1>1. CASE Next
    BY <1>1, PutFileReads, StatReads, LookReads, LoadPieceReads, LoadEndsReads,
       ReadBlockReads, PieceReadReads DEF Next
  <1>2. CASE UNCHANGED vars
    BY <1>2 DEF vars, mkfsVars, statVars, readVars, ReadInv, MkfsInv, StatInv, CountInv,
                PlaceInv, ReadsDisk, Byte
  <1>. QED BY <1>1, <1>2

(* What read_file has copied, at any time, is what the disk holds from the   *)
(* first block of the file on: every block once, in order, and nothing from  *)
(* outside a block, for every block size and every piece that leaves room    *)
(* for a block in 16 bits.                                                   *)
THEOREM ReadsTheDisk == Spec => []ReadsDisk
  <1>1. ReadInv => ReadsDisk
    BY DEF ReadInv
  <1>. QED BY InitReads, NextReads, <1>1, PTL DEF Spec

-----------------------------------------------------------------------------
(* What mkfs leaves in the image, for as many files as it has entries for:   *)
(* every entry is that of a file, whose data are where it says and stay      *)
(* there; in the first block every file has one, however many there are.     *)
InPlace(k, b) ==
  /\ b \in Nat /\ DirBlocks <= b
  /\ b * BlockSize + files[k].size <= FsSize
  /\ b * BlockSize + files[k].size <= c_offset
  /\ \A i \in 0 .. files[k].size - 1 : fs[b * BlockSize + i] = Data(k - 1, i)

EntryOf(k, v) ==
  /\ v.name \in StoredNames(files[k].name)
  /\ v.size = files[k].size % Word
  /\ InPlace(k, v.blk)

FirstEntries ==
  \A k \in 1 .. c_file : k <= PerBlock =>
    /\ (k - 1) * EntrySize \in DOMAIN fs
    /\ IsEntry(fs[(k - 1) * EntrySize])
    /\ fs[(k - 1) * EntrySize].name \in StoredNames(files[k].name)

Entries ==
  c_file <= DirBlocks * PerBlock =>
    \A a \in DOMAIN fs : IsEntry(fs[a]) => \E k \in 1 .. c_file : EntryOf(k, fs[a])

Free ==
  \A a \in DOMAIN fs : c_file * EntrySize <= a /\ a < BlockSize => fs[a] = Zero

ImageInv ==
  /\ c_file <= Len(files)
  /\ DirBlocks * BlockSize <= c_offset
  /\ \E q \in Nat : c_offset = q * BlockSize
  /\ FirstEntries /\ Entries /\ Free

(* What the loop of stat has passed, where it has stopped and what it has    *)
(* missed.                                                                   *)
Named(v) == IsEntry(v) /\ v.name = name
Passed(j) ==
  \A i \in 0 .. j - 1 : i < PerBlock =>
    Byte(i * EntrySize) # Zero /\ ~ Named(Byte(i * EntrySize))
Missed == \A k \in 1 .. Len(files) : k <= PerBlock /\ files[k].name = name => name \in Long
Shows(v) == v.name = name /\ v.blk = st.blk /\ v.size = st.size
Stopped ==
  \E j \in Nat :
    /\ f_entry = j * EntrySize /\ Passed(j)
    /\ Cached(f_entry) # Zero
    /\ IsEntry(Cached(f_entry)) => Shows(Cached(f_entry))

SearchInv ==
  /\ name \in Names
  /\ pc \in {"mkfs", "stat", "load", "read", "done"}
  /\ pc # "mkfs" => c_file = Len(files)
  /\ pc \in {"mkfs", "stat"} => ~ st.found
  /\ pc = "stat" => \E j \in Nat : f_entry = j * EntrySize /\ Passed(j)
  /\ pc \in {"load", "read"} => st.found /\ got + left = st.size
  /\ pc = "done" /\ st.found => Len(out) = st.size
  /\ pc = "done" /\ ~ st.found => Missed
  /\ st.found => Stopped

FileInv == ReadInv /\ ImageInv /\ SearchInv

(* Where multiples lie.                                                      *)
LEMMA Multiples ==
  ASSUME NEW d \in Nat \ {0}, NEW q \in Int, NEW r \in Int, 0 <= r, r < d
  PROVE  (q * d + r) \div d = q
  <1>. DEFINE v == q * d + r
              p == v \div d
              s == v % d
  <1>1. v \in Int /\ p \in Int /\ s \in Int /\ 0 <= s /\ s < d /\ v = p * d + s
    OBVIOUS
  <1>2. v = q * d + r
    OBVIOUS
  <1>. HIDE DEF v, p, s
  <1>3. (p - q) * d = r - s
    BY <1>1, <1>2
  <1>4. p - q >= 1 => (p - q) * d >= d
    BY <1>1
  <1>5. p - q <= -1 => (p - q) * d <= -d
    BY <1>1
  <1>6. p = q
    BY <1>1, <1>3, <1>4, <1>5
  <1>. QED BY <1>6 DEF p, v

LEMMA Scaled ==
  ASSUME NEW d \in Nat \ {0}, NEW i \in Int, NEW j \in Int
  PROVE  /\ i <= j => i * d <= j * d
         /\ i < j => i * d + d <= j * d
         /\ i * d <= j * d => i <= j
  <1>1. i <= j => i * d <= j * d
    OBVIOUS
  <1>2. i < j => i * d + d <= j * d
    <2>1. i < j => i + 1 <= j
      OBVIOUS
    <2>2. i + 1 <= j => (i + 1) * d <= j * d
      OBVIOUS
    <2>3. (i + 1) * d = i * d + d
      OBVIOUS
    <2>. QED BY <2>1, <2>2, <2>3
  <1>3. i * d <= j * d => i <= j
    BY <1>2
  <1>. QED BY <1>1, <1>2, <1>3

(* The entries of a block are in it, those of the directory in its blocks.   *)
LEMMA EntriesFit ==
  /\ PerBlock \in Nat
  /\ \A j \in Nat : j < PerBlock => /\ j * EntrySize \in Nat
                                    /\ j * EntrySize < BlockSize
                                    /\ j * EntrySize < DirBlocks * BlockSize
  /\ \A j \in Nat : j < DirBlocks * PerBlock =>
       /\ j * EntrySize \in Nat
       /\ j * EntrySize + EntrySize <= DirBlocks * BlockSize
  <1>. DEFINE p == PerBlock
  <1>0. BlockSize \in Nat \ {0} /\ EntrySize \in Nat \ {0} /\ DirBlocks \in Nat \ {0}
    BY SizesAssumption
  <1>1. p \in Nat /\ p * EntrySize <= BlockSize
    <2>1. PerBlock \in Nat /\ BlockSize % EntrySize \in Nat
          /\ BlockSize = PerBlock * EntrySize + (BlockSize % EntrySize)
      BY <1>0, Division DEF PerBlock
    <2>. DEFINE r == BlockSize % EntrySize
    <2>2. p * EntrySize \in Nat /\ r \in Nat /\ BlockSize = p * EntrySize + r
      BY <1>0, <2>1
    <2>. HIDE DEF r, p
    <2>. QED BY <1>0, <2>1, <2>2 DEF p
  <1>2. p \in Nat /\ DirBlocks * p \in Nat /\ DirBlocks * BlockSize \in Nat
    BY <1>0, <1>1
  <1>3. BlockSize <= DirBlocks * BlockSize
    BY <1>0
  <1>4. (DirBlocks * p) * EntrySize <= DirBlocks * BlockSize
    <2>. DEFINE e == p * EntrySize
    <2>1. e \in Nat /\ e <= BlockSize
      BY <1>0, <1>1
    <2>2. (DirBlocks * p) * EntrySize = DirBlocks * e
      <3>. HIDE DEF p
      <3>. QED BY <1>0, <1>1
    <2>. HIDE DEF e
    <2>3. DirBlocks * e <= DirBlocks * BlockSize
      BY <1>0, <2>1
    <2>. QED BY <2>2, <2>3
  <1>. HIDE DEF p
  <1>5. ASSUME NEW j \in Nat, j < p
        PROVE  /\ j * EntrySize \in Nat /\ j * EntrySize < BlockSize
               /\ j * EntrySize < DirBlocks * BlockSize
    <2>1. j * EntrySize \in Nat
      BY <1>0
    <2>2. j * EntrySize + EntrySize <= p * EntrySize
      BY <1>0, <1>1, <1>5, Scaled
    <2>. QED BY <1>0, <1>1, <1>2, <1>3, <2>1, <2>2
  <1>6. ASSUME NEW j \in Nat, j < DirBlocks * p
        PROVE  /\ j * EntrySize \in Nat
               /\ j * EntrySize + EntrySize <= DirBlocks * BlockSize
    <2>. DEFINE n == DirBlocks * p
    <2>1. j * EntrySize \in Nat
      BY <1>0
    <2>2. n \in Int /\ j < n
      BY <1>2, <1>6
    <2>. HIDE DEF n
    <2>3. j * EntrySize + EntrySize <= n * EntrySize
      BY <1>0, <2>2, Scaled
    <2>4. n * EntrySize <= DirBlocks * BlockSize
      BY <1>4 DEF n
    <2>5. n * EntrySize \in Int
      BY <1>0, <2>2
    <2>. QED BY <1>0, <1>2, <2>1, <2>3, <2>4, <2>5
  <1>. QED BY <1>1, <1>5, <1>6 DEF p

(* The next file begins at a whole block, not before the end of this one.    *)
LEMMA RoundUpIs ==
  ASSUME NEW n \in Nat
  PROVE  /\ RoundUp(n) \in Nat /\ n <= RoundUp(n)
         /\ \E q \in Nat : RoundUp(n) = q * BlockSize
  <1>. DEFINE q == n \div BlockSize
              r == n % BlockSize
              s == (BlockSize - r) % BlockSize
  <1>1. BlockSize \in Nat \ {0} /\ q \in Nat /\ r \in 0 .. BlockSize - 1 /\ n = q * BlockSize + r
    BY SizesAssumption, PositionSplit
  <1>2. RoundUp(n) = n + s
    BY DEF RoundUp
  <1>. HIDE DEF q, r
  <1>3. CASE r = 0
    <2>1. s = 0
      <3>1. BlockSize - r = 1 * BlockSize + 0
        BY <1>1, <1>3
      <3>. DEFINE v == BlockSize - r
      <3>2. v \in Nat /\ v = BlockSize
        BY <1>1, <1>3
      <3>3. (1 * BlockSize + 0) \div BlockSize = 1
        BY <1>1, Multiples
      <3>4. v \div BlockSize = 1
        BY <3>1, <3>3
      <3>. HIDE DEF v
      <3>5. v = (v \div BlockSize) * BlockSize + (v % BlockSize) /\ v % BlockSize \in Nat
        BY <1>1, <3>2, Division
      <3>. DEFINE m == v % BlockSize
      <3>6. v = 1 * BlockSize + m /\ m \in Nat
        BY <3>4, <3>5
      <3>. HIDE DEF m
      <3>7. m = 0
        BY <1>1, <3>2, <3>6
      <3>. QED BY <3>7 DEF m, v
    <2>2. q * BlockSize \in Nat
      BY <1>1
    <2>. HIDE DEF s
    <2>3. n + s = q * BlockSize
      BY <1>1, <1>3, <2>1, <2>2
    <2>. QED BY <1>1, <1>2, <1>3, <2>1, <2>2, <2>3
  <1>4. CASE r # 0
    <2>1. s = BlockSize - r
      <3>1. BlockSize - r \in 0 .. BlockSize - 1
        BY <1>1, <1>4
      <3>. QED BY <1>1, <3>1, SmallRemainder
    <2>2. q * BlockSize \in Nat /\ (q + 1) * BlockSize = q * BlockSize + BlockSize
      BY <1>1
    <2>. HIDE DEF s
    <2>3. n + s = (q + 1) * BlockSize /\ s \in Nat
      BY <1>1, <1>4, <2>1, <2>2
    <2>4. n + s \in Nat /\ n <= n + s /\ q + 1 \in Nat
      BY <1>1, <2>3
    <2>. QED BY <1>2, <2>3, <2>4
  <1>. QED BY <1>3, <1>4

LEMMA InitFinds == Init => ImageInv /\ SearchInv
  <1>. SUFFICES ASSUME Init PROVE ImageInv /\ SearchInv
    OBVIOUS
  <1>1. files \in Seq([name : FileNames, size : Nat])
    BY DirectoriesAssumption DEF Init
  <1>2. Len(files) \in Nat
    BY <1>1, LenProperties
  <1>3. DirBlocks \in Nat /\ BlockSize \in Nat /\ DirBlocks * BlockSize \in Nat
    BY SizesAssumption
  <1>4. c_offset = DirBlocks * BlockSize /\ c_file = 0
    BY DEF Init
  <1>5. FirstEntries
    BY <1>4 DEF FirstEntries
  <1>6. \A a \in DOMAIN fs : ~ IsEntry(fs[a])
    BY DEF Init, IsEntry, Zero
  <1>7. Entries
    BY <1>6 DEF Entries
  <1>8. ImageInv
    <2>1. Free
      BY DEF Init, Free
    <2>. QED BY <1>2, <1>3, <1>4, <1>5, <1>7, <2>1 DEF ImageInv
  <1>9. SearchInv
    BY DEF Init, SearchInv
  <1>. QED BY <1>8, <1>9

(* What append_directory changes in the image: the new data, the new entry   *)
(* and the bytes it stands for.                                              *)
LEMMA PutFileWrites ==
  ASSUME ReadInv, ImageInv, PutFile
  PROVE  LET f == files[c_file + 1] IN
         /\ f.size \in Nat /\ c_file + 1 <= Len(files)
         /\ c_offset + f.size <= FsSize
         /\ c_offset' = RoundUp(c_offset + f.size) /\ c_file' = c_file + 1
         /\ DOMAIN fs = 0 .. FsSize - 1 /\ DOMAIN fs' = 0 .. FsSize - 1
         /\ \A i \in 0 .. f.size - 1 : fs'[c_offset + i] = Data(c_file, i)
         /\ \E n \in StoredNames(f.name), q \in Nat :
              /\ c_offset = q * BlockSize
              /\ \A a \in DOMAIN fs : a = c_file * EntrySize /\ a < c_offset =>
                   fs'[a] = Entry(n, q, f.size % Word)
              /\ \A a \in DOMAIN fs : IsEntry(fs'[a]) =>
                   fs'[a] = fs[a] \/ fs'[a] = Entry(n, q, f.size % Word)
         /\ \A a \in DOMAIN fs :
              a < c_offset /\ a # c_file * EntrySize /\ a \div EntrySize # c_file =>
                fs'[a] = fs[a]
  <1>. DEFINE f == files[c_file + 1]
              size == f.size
  <1>1. size \in Nat /\ c_file + 1 \in 1 .. Len(files) /\ c_file + 1 <= Len(files)
    <2>1. files \in Seq([name : FileNames, size : Nat])
      BY DirectoriesAssumption DEF ReadInv, MkfsInv
    <2>2. c_file + 1 \in 1 .. Len(files) /\ c_file + 1 <= Len(files)
      BY <2>1, LenProperties DEF ReadInv, MkfsInv, PutFile
    <2>3. f \in [name : FileNames, size : Nat]
      BY <2>1, <2>2, ElementOfSeq
    <2>. HIDE DEF f
    <2>. QED BY <2>2, <2>3
  <1>2. /\ c_offset + size <= FsSize
        /\ c_offset' = RoundUp(c_offset + size) /\ c_file' = c_file + 1
    BY DEF PutFile
  <1>3. PICK n \in StoredNames(f.name) :
          fs' = WithData(WithEntry(fs, Entry(n, c_offset \div BlockSize, size % Word)), size)
    BY DEF PutFile
  <1>4. PICK q \in Nat : c_offset = q * BlockSize
    BY DEF ImageInv
  <1>5. c_offset \div BlockSize = q
    <2>1. BlockSize \in Nat \ {0} /\ q * BlockSize + 0 = q * BlockSize
      BY SizesAssumption, <1>4
    <2>2. (q * BlockSize + 0) \div BlockSize = q
      BY <2>1, Multiples
    <2>. QED BY <1>4, <2>1, <2>2
  <1>. DEFINE v == Entry(n, q, size % Word)
  <1>6. fs' = WithData(WithEntry(fs, v), size)
    BY <1>3, <1>5
  <1>7. DOMAIN fs = 0 .. FsSize - 1 /\ c_offset \in Nat /\ FsSize \in Nat
    BY SizesAssumption DEF ReadInv, MkfsInv
  <1>. HIDE DEF f, v, size
  <1>8. /\ DOMAIN fs' = 0 .. FsSize - 1
        /\ \A a \in DOMAIN fs :
             fs'[a] = IF a \in c_offset .. c_offset + size - 1 THEN Data(c_file, a - c_offset)
                      ELSE IF a = c_file * EntrySize THEN v
                      ELSE IF a \div EntrySize = c_file THEN Junk ELSE fs[a]
    BY <1>6, <1>7 DEF WithData, WithEntry
  <1>9. \A i \in 0 .. size - 1 : fs'[c_offset + i] = Data(c_file, i)
    <2>. SUFFICES ASSUME NEW i \in 0 .. size - 1 PROVE fs'[c_offset + i] = Data(c_file, i)
      OBVIOUS
    <2>1. /\ c_offset + i \in DOMAIN fs /\ c_offset + i \in c_offset .. c_offset + size - 1
          /\ (c_offset + i) - c_offset = i
      BY <1>1, <1>2, <1>7
    <2>. QED BY <1>8, <2>1
  <1>10. \A a \in DOMAIN fs : a = c_file * EntrySize /\ a < c_offset => fs'[a] = v
    BY <1>7, <1>8
  <1>11. \A a \in DOMAIN fs : IsEntry(fs'[a]) => fs'[a] = fs[a] \/ fs'[a] = v
    <2>1. \A i : ~ IsEntry(Data(c_file, i))
      BY DEF IsEntry, Data
    <2>2. ~ IsEntry(Junk)
      BY DEF IsEntry, Junk
    <2>. QED BY <1>8, <2>1, <2>2
  <1>12. \A a \in DOMAIN fs :
           a < c_offset /\ a # c_file * EntrySize /\ a \div EntrySize # c_file => fs'[a] = fs[a]
    BY <1>7, <1>8
  <1>13. \E nn \in StoredNames(f.name), qq \in Nat :
              /\ c_offset = qq * BlockSize
              /\ \A a \in DOMAIN fs : a = c_file * EntrySize /\ a < c_offset =>
                   fs'[a] = Entry(nn, qq, size % Word)
              /\ \A a \in DOMAIN fs : IsEntry(fs'[a]) =>
                   fs'[a] = fs[a] \/ fs'[a] = Entry(nn, qq, size % Word)
    BY <1>3, <1>4, <1>10, <1>11 DEF v
  <1>. QED BY <1>1, <1>2, <1>7, <1>8, <1>9, <1>12, <1>13 DEF f, size

(* mkfs: the entries and the data of the earlier files stay.                 *)
LEMMA PutFileKeepsFirst ==
  ASSUME ReadInv, ImageInv, PutFile
  PROVE  FirstEntries'
  <1>. DEFINE f == files[c_file + 1]
              size == f.size
  <1>1. PICK n \in StoredNames(f.name), q \in Nat :
          /\ c_offset = q * BlockSize
          /\ \A a \in DOMAIN fs : a = c_file * EntrySize /\ a < c_offset =>
               fs'[a] = Entry(n, q, size % Word)
    BY PutFileWrites
  <1>2. /\ size \in Nat /\ c_offset + size <= FsSize /\ c_file' = c_file + 1
        /\ DOMAIN fs = 0 .. FsSize - 1 /\ DOMAIN fs' = 0 .. FsSize - 1
    BY PutFileWrites
  <1>3. \A a \in DOMAIN fs :
          a < c_offset /\ a # c_file * EntrySize /\ a \div EntrySize # c_file => fs'[a] = fs[a]
    BY PutFileWrites
  <1>4. /\ c_file \in Nat /\ c_offset \in Nat /\ FsSize \in Nat /\ DirBlocks * BlockSize <= c_offset
        /\ FirstEntries /\ files' = files /\ EntrySize \in Nat \ {0}
        /\ DirBlocks * BlockSize \in Nat
    BY SizesAssumption DEF ReadInv, MkfsInv, ImageInv, PutFile
  <1>. HIDE DEF f, size
  <1>. SUFFICES ASSUME NEW k \in 1 .. c_file', k <= PerBlock
                PROVE  /\ (k - 1) * EntrySize \in DOMAIN fs'
                       /\ IsEntry(fs'[(k - 1) * EntrySize])
                       /\ fs'[(k - 1) * EntrySize].name \in StoredNames(files[k].name)
    BY <1>4 DEF FirstEntries, StoredNames
  <1>. DEFINE j == k - 1
              a == j * EntrySize
  <1>5. j \in Nat /\ j < PerBlock /\ k = j + 1
    BY <1>2, <1>4, EntriesFit
  <1>6. a \in Nat /\ a < DirBlocks * BlockSize
    BY <1>5, EntriesFit
  <1>7. a < c_offset /\ a \in DOMAIN fs /\ a \in DOMAIN fs'
    <2>. HIDE DEF a
    <2>. QED BY <1>2, <1>4, <1>6
  <1>8. CASE k = c_file + 1
    <2>1. j = c_file
      BY <1>4, <1>8
    <2>2. fs'[a] = Entry(n, q, size % Word)
      BY <1>1, <1>7, <2>1
    <2>3. IsEntry(fs'[a]) /\ fs'[a].name = n
      BY <2>2 DEF IsEntry, Entry
    <2>4. files[k].name = f.name
      BY <1>8 DEF f
    <2>. QED BY <1>7, <2>3, <2>4
  <1>9. CASE k # c_file + 1
    <2>1. k \in 1 .. c_file /\ j < c_file /\ j # c_file
      BY <1>2, <1>4, <1>9
    <2>2. a \div EntrySize = j
      <3>. HIDE DEF j
      <3>1. j * EntrySize + 0 = j * EntrySize /\ j \in Int /\ 0 < EntrySize
        BY <1>4, <1>5
      <3>2. (j * EntrySize + 0) \div EntrySize = j
        BY <1>4, <3>1, Multiples
      <3>. QED BY <3>1, <3>2
    <2>3. a # c_file * EntrySize
      <3>. HIDE DEF j
      <3>1. j * EntrySize + EntrySize <= c_file * EntrySize
        BY <1>4, <1>5, <2>1, Scaled
      <3>2. c_file * EntrySize \in Nat /\ 0 < EntrySize
        BY <1>4
      <3>. HIDE DEF a
      <3>3. a + EntrySize <= c_file * EntrySize
        BY <3>1 DEF a
      <3>. QED BY <1>4, <1>6, <3>2, <3>3
    <2>4. fs'[a] = fs[a]
      <3>. HIDE DEF a, j
      <3>. QED BY <1>3, <1>7, <2>1, <2>2, <2>3
    <2>5. IsEntry(fs[a]) /\ fs[a].name \in StoredNames(files[k].name)
      BY <1>4, <2>1 DEF FirstEntries
    <2>. QED BY <1>7, <2>4, <2>5
  <1>. QED BY <1>8, <1>9

LEMMA PutFileKeepsPlaces ==
  ASSUME ReadInv, ImageInv, PutFile, c_file < DirBlocks * PerBlock,
         NEW k \in 1 .. c_file, NEW b, InPlace(k, b)
  PROVE  InPlace(k, b)'
  <1>. DEFINE f == files[c_file + 1]
              size == f.size
              more == files[k].size
  <1>1. /\ size \in Nat /\ c_offset + size <= FsSize
        /\ c_offset' = RoundUp(c_offset + size)
        /\ DOMAIN fs = 0 .. FsSize - 1
    BY PutFileWrites
  <1>2. \A a \in DOMAIN fs :
          a < c_offset /\ a # c_file * EntrySize /\ a \div EntrySize # c_file => fs'[a] = fs[a]
    BY PutFileWrites
  <1>3. /\ c_file \in Nat /\ c_offset \in Nat /\ FsSize \in Nat
        /\ files' = files /\ EntrySize \in Nat \ {0} /\ BlockSize \in Nat \ {0}
        /\ DirBlocks \in Nat /\ DirBlocks * BlockSize \in Nat
    BY SizesAssumption DEF ReadInv, MkfsInv, ImageInv, PutFile
  <1>4. /\ b \in Nat /\ DirBlocks <= b
        /\ b * BlockSize + more <= FsSize /\ b * BlockSize + more <= c_offset
        /\ \A i \in 0 .. more - 1 : fs[b * BlockSize + i] = Data(k - 1, i)
    BY DEF InPlace
  <1>5. more \in Nat
    <2>1. files \in Seq([name : FileNames, size : Nat])
      BY DirectoriesAssumption DEF ReadInv, MkfsInv
    <2>2. k \in 1 .. Len(files)
      BY <1>3, <2>1, LenProperties DEF ImageInv
    <2>3. files[k] \in [name : FileNames, size : Nat]
      BY <2>1, <2>2, ElementOfSeq
    <2>. QED BY <2>3
  <1>. HIDE DEF f, size, more
  <1>6. c_offset <= c_offset' /\ c_offset' \in Nat
    <2>1. c_offset + size \in Nat /\ c_offset <= c_offset + size
      BY <1>1, <1>3
    <2>2. RoundUp(c_offset + size) \in Nat /\ c_offset + size <= RoundUp(c_offset + size)
      BY <2>1, RoundUpIs
    <2>. QED BY <1>1, <1>3, <2>1, <2>2
  <1>7. c_file * EntrySize \in Nat /\ c_file * EntrySize + EntrySize <= DirBlocks * BlockSize
    BY <1>3, EntriesFit
  <1>8. b * BlockSize \in Nat /\ DirBlocks * BlockSize <= b * BlockSize
    BY <1>3, <1>4, Scaled
  <1>9. ASSUME NEW i \in 0 .. more - 1
        PROVE  fs'[b * BlockSize + i] = Data(k - 1, i)
    <2>. DEFINE a == b * BlockSize + i
    <2>1. a \in Nat /\ a < c_offset /\ a \in DOMAIN fs /\ DirBlocks * BlockSize <= a
      <3>. DEFINE base == b * BlockSize
                  start == DirBlocks * BlockSize
      <3>1. /\ base \in Nat /\ start \in Nat /\ start <= base /\ i \in Nat /\ i < more
            /\ base + more <= FsSize /\ base + more <= c_offset
        BY <1>3, <1>4, <1>5, <1>8
      <3>. HIDE DEF base, start
      <3>2. base + i \in Nat /\ base + i < c_offset /\ base + i < FsSize /\ start <= base + i
        BY <1>3, <1>5, <3>1
      <3>3. base + i \in DOMAIN fs
        BY <1>1, <1>3, <3>2
      <3>. QED BY <3>2, <3>3 DEF base, start
    <2>. HIDE DEF a
    <2>2. a # c_file * EntrySize
      BY <1>3, <1>7, <2>1
    <2>3. a \div EntrySize # c_file
      <3>. DEFINE q == a \div EntrySize
                  r == a % EntrySize
      <3>1. q \in Nat /\ r \in 0 .. EntrySize - 1 /\ a = q * EntrySize + r
        BY <1>3, <2>1, Division
      <3>. HIDE DEF q, r
      <3>2. q = c_file => FALSE
        BY <1>3, <1>7, <2>1, <3>1
      <3>. QED BY <3>2 DEF q
    <2>4. fs'[a] = fs[a]
      BY <1>2, <2>1, <2>2, <2>3
    <2>. QED BY <1>4, <2>4 DEF a
  <1>10. b * BlockSize + more <= c_offset'
    BY <1>3, <1>4, <1>5, <1>6, <1>8
  <1>. QED BY <1>3, <1>4, <1>9, <1>10 DEF InPlace, more

LEMMA PutFileKeepsEntries ==
  ASSUME ReadInv, ImageInv, PutFile
  PROVE  Entries'
  <1>. DEFINE f == files[c_file + 1]
              size == f.size
  <1>1. PICK n \in StoredNames(f.name), q \in Nat :
          /\ c_offset = q * BlockSize
          /\ \A a \in DOMAIN fs : IsEntry(fs'[a]) =>
               fs'[a] = fs[a] \/ fs'[a] = Entry(n, q, size % Word)
    BY PutFileWrites
  <1>2. /\ size \in Nat /\ c_offset + size <= FsSize /\ c_file' = c_file + 1
        /\ c_offset' = RoundUp(c_offset + size)
        /\ DOMAIN fs' = DOMAIN fs
        /\ \A i \in 0 .. size - 1 : fs'[c_offset + i] = Data(c_file, i)
    BY PutFileWrites
  <1>3. /\ c_file \in Nat /\ c_offset \in Nat /\ FsSize \in Nat /\ DirBlocks * BlockSize <= c_offset
        /\ Entries /\ files' = files /\ BlockSize \in Nat \ {0} /\ DirBlocks \in Nat
        /\ PerBlock \in Nat /\ DirBlocks * PerBlock \in Nat
    BY SizesAssumption, EntriesFit DEF ReadInv, MkfsInv, ImageInv, PutFile
  <1>. HIDE DEF f, size
  <1>. SUFFICES ASSUME c_file' <= DirBlocks * PerBlock,
                       NEW a \in DOMAIN fs', IsEntry(fs'[a])
                PROVE  \E k \in 1 .. c_file' : EntryOf(k, fs[a])'
    BY DEF Entries
  <1>4. c_file < DirBlocks * PerBlock
    BY <1>2, <1>3
  <1>5. CASE fs'[a] = fs[a]
    <2>1. PICK k \in 1 .. c_file : EntryOf(k, fs[a])
      BY <1>2, <1>3, <1>4, <1>5 DEF Entries
    <2>2. InPlace(k, fs[a].blk)
      BY <2>1 DEF EntryOf
    <2>. DEFINE b == fs[a].blk
    <2>3. fs'[a].blk = b
      BY <1>5
    <2>. HIDE DEF b
    <2>4. InPlace(k, b)
      BY <2>2 DEF b
    <2>5. /\ b \in Nat /\ DirBlocks <= b
          /\ b * BlockSize + files'[k].size <= FsSize
          /\ b * BlockSize + files'[k].size <= c_offset'
          /\ \A i \in 0 .. files'[k].size - 1 : fs'[b * BlockSize + i] = Data(k - 1, i)
      BY <1>3, <1>4, <2>4, PutFileKeepsPlaces DEF InPlace
    <2>6. EntryOf(k, fs[a])'
      BY <1>3, <1>5, <2>1, <2>3, <2>5 DEF EntryOf, InPlace, StoredNames
    <2>7. k \in 1 .. c_file'
      BY <1>2, <1>3
    <2>. QED BY <2>6, <2>7
  <1>6. CASE fs'[a] = Entry(n, q, size % Word)
    <2>1. fs'[a].name = n /\ fs'[a].blk = q /\ fs'[a].size = size % Word
      BY <1>6 DEF Entry
    <2>2. DirBlocks <= q
      BY <1>1, <1>3, Scaled
    <2>3. c_offset + size \in Nat /\ c_offset + size <= c_offset'
      <3>1. c_offset + size \in Nat
        BY <1>2, <1>3
      <3>. QED BY <1>2, <3>1, RoundUpIs
    <2>4. PICK k \in 1 .. c_file' : k = c_file + 1 /\ k - 1 = c_file /\ files'[k] = f
      <3>1. /\ c_file + 1 \in 1 .. c_file' /\ (c_file + 1) - 1 = c_file
            /\ files'[c_file + 1] = f
        BY <1>2, <1>3 DEF f
      <3>. QED BY <3>1
    <2>5. InPlace(k, fs[a].blk)'
      <3>1. f.size = size
        BY DEF size
      <3>. QED BY <1>1, <1>2, <2>1, <2>2, <2>3, <2>4, <3>1 DEF InPlace
    <2>6. EntryOf(k, fs[a])'
      BY <2>1, <2>4, <2>5 DEF EntryOf, StoredNames, size
    <2>. QED BY <2>4, <2>6
  <1>. QED BY <1>1, <1>2, <1>5, <1>6

(* mkfs: what is behind the last entry stays empty.                          *)
LEMMA PutFileKeepsFree ==
  ASSUME ReadInv, ImageInv, PutFile
  PROVE  Free'
  <1>1. /\ c_file' = c_file + 1 /\ DOMAIN fs = 0 .. FsSize - 1 /\ DOMAIN fs' = 0 .. FsSize - 1
        /\ \A a \in DOMAIN fs :
             a < c_offset /\ a # c_file * EntrySize /\ a \div EntrySize # c_file =>
               fs'[a] = fs[a]
    BY PutFileWrites
  <1>2. /\ c_file \in Nat /\ c_offset \in Nat /\ DirBlocks * BlockSize <= c_offset /\ Free
        /\ EntrySize \in Nat \ {0} /\ BlockSize \in Nat /\ DirBlocks \in Nat \ {0}
    BY SizesAssumption DEF ReadInv, MkfsInv, ImageInv
  <1>3. BlockSize <= c_offset
    <2>1. DirBlocks * BlockSize \in Nat /\ BlockSize <= DirBlocks * BlockSize
      BY <1>2
    <2>. QED BY <1>2, <2>1
  <1>4. c_file * EntrySize \in Nat /\ (c_file + 1) * EntrySize = c_file * EntrySize + EntrySize
    BY <1>2
  <1>. SUFFICES ASSUME NEW a \in DOMAIN fs', c_file' * EntrySize <= a, a < BlockSize
                PROVE  fs'[a] = Zero
    BY DEF Free
  <1>5. a \in DOMAIN fs /\ a \in Nat
    BY <1>1
  <1>. DEFINE here == c_file * EntrySize
  <1>6. here \in Nat /\ here + EntrySize <= a
    BY <1>1, <1>4
  <1>7. a \div EntrySize # c_file
    <2>. DEFINE q == a \div EntrySize
                r == a % EntrySize
    <2>1. q \in Nat /\ r \in 0 .. EntrySize - 1 /\ a = q * EntrySize + r
      BY <1>2, <1>5, Division
    <2>2. q = c_file => a = here + r
      BY <2>1
    <2>. HIDE DEF q, r, here
    <2>3. q # c_file
      BY <1>2, <1>5, <1>6, <2>1, <2>2
    <2>. QED BY <2>3 DEF q
  <1>8. here <= a /\ a # here
    <2>. HIDE DEF here
    <2>. QED BY <1>2, <1>5, <1>6
  <1>9. a < c_offset
    BY <1>2, <1>3, <1>5
  <1>10. fs'[a] = fs[a]
    BY <1>1, <1>5, <1>7, <1>8, <1>9
  <1>. QED BY <1>2, <1>5, <1>8, <1>10 DEF Free

LEMMA PutFileKeepsImage ==
  ASSUME ReadInv, ImageInv, PutFile
  PROVE  ImageInv'
  <1>. DEFINE size == files[c_file + 1].size
  <1>1. /\ size \in Nat /\ c_file + 1 <= Len(files) /\ c_file' = c_file + 1
        /\ c_offset' = RoundUp(c_offset + size)
    BY PutFileWrites
  <1>2. /\ c_offset \in Nat /\ DirBlocks * BlockSize <= c_offset /\ files' = files
        /\ DirBlocks * BlockSize \in Nat
    BY SizesAssumption DEF ReadInv, MkfsInv, ImageInv, PutFile
  <1>. HIDE DEF size
  <1>3. c_offset + size \in Nat /\ c_offset <= c_offset + size
    BY <1>1, <1>2
  <1>4. /\ c_offset' \in Nat /\ c_offset + size <= c_offset'
        /\ \E q \in Nat : c_offset' = q * BlockSize
    BY <1>1, <1>3, RoundUpIs
  <1>5. DirBlocks * BlockSize <= c_offset'
    BY <1>2, <1>3, <1>4
  <1>. QED BY <1>1, <1>2, <1>4, <1>5, PutFileKeepsFirst, PutFileKeepsEntries,
              PutFileKeepsFree DEF ImageInv

LEMMA PutFileFinds == ReadInv /\ ImageInv /\ SearchInv /\ PutFile => SearchInv'
  <1>. SUFFICES ASSUME ReadInv, ImageInv, SearchInv, PutFile PROVE SearchInv'
    OBVIOUS
  <1>1. pc = "mkfs" /\ pc' = pc /\ UNCHANGED <<name, st>>
    BY DEF PutFile, statVars
  <1>. QED BY <1>1 DEF SearchInv

(* The image is left alone from here on.                                     *)
LEMMA ImageStays == ImageInv /\ UNCHANGED mkfsVars => ImageInv'
  <1>. SUFFICES ASSUME ImageInv, UNCHANGED mkfsVars PROVE ImageInv'
    OBVIOUS
  <1>1. files' = files /\ c_file' = c_file /\ c_offset' = c_offset /\ fs' = fs
    BY DEF mkfsVars
  <1>2. FirstEntries'
    BY <1>1 DEF ImageInv, FirstEntries, StoredNames, IsEntry
  <1>3. ASSUME NEW k, NEW v, EntryOf(k, v) PROVE EntryOf(k, v)'
    BY <1>1, <1>3 DEF EntryOf, InPlace, StoredNames
  <1>4. Entries'
    <2>. SUFFICES ASSUME c_file <= DirBlocks * PerBlock, NEW a \in DOMAIN fs, IsEntry(fs[a])
                  PROVE  \E k \in 1 .. c_file : EntryOf(k, fs[a])'
      BY <1>1 DEF Entries, IsEntry
    <2>1. PICK k \in 1 .. c_file : EntryOf(k, fs[a])
      BY DEF ImageInv, Entries
    <2>2. PICK v : v = fs[a] /\ v = fs'[a]
      BY <1>1
    <2>3. EntryOf(k, v)'
      BY <1>3, <2>1, <2>2
    <2>4. EntryOf(k, fs[a])'
      BY <2>2, <2>3 DEF EntryOf, InPlace
    <2>. QED BY <2>4
  <1>5. Free'
    BY <1>1 DEF ImageInv, Free
  <1>. QED BY <1>1, <1>2, <1>4, <1>5 DEF ImageInv

(* And so is what stat has found.                                            *)
LEMMA StoppedStays == Stopped /\ UNCHANGED <<fs, name, f_entry, beside, st>> => Stopped'
  <1>. SUFFICES ASSUME Stopped, UNCHANGED <<fs, name, f_entry, beside, st>> PROVE Stopped'
    OBVIOUS
  <1>1. PICK j \in Nat : /\ f_entry = j * EntrySize /\ Passed(j)
                         /\ Cached(f_entry) # Zero
                         /\ IsEntry(Cached(f_entry)) => Shows(Cached(f_entry))
    BY DEF Stopped
  <1>2. Passed(j)'
    BY <1>1 DEF Passed, Named, IsEntry, Byte
  <1>3. PICK v : v = Cached(f_entry) /\ v = Cached(f_entry)'
    BY DEF Cached, Byte
  <1>4. v # Zero /\ (v.kind = "entry" => v.name = name' /\ v.blk = st'.blk /\ v.size = st'.size)
    BY <1>1, <1>3 DEF IsEntry, Shows
  <1>5. Cached(f_entry)' # Zero /\ (IsEntry(Cached(f_entry)) => Shows(Cached(f_entry)))'
    BY <1>3, <1>4 DEF IsEntry, Shows
  <1>6. f_entry' = j * EntrySize /\ Zero' = Zero
    BY <1>1
  <1>. QED BY <1>2, <1>5, <1>6 DEF Stopped

LEMMA StatFinds == ReadInv /\ ImageInv /\ SearchInv /\ Stat => ImageInv' /\ SearchInv'
  <1>. SUFFICES ASSUME ReadInv, ImageInv, SearchInv, Stat PROVE ImageInv' /\ SearchInv'
    OBVIOUS
  <1>1. /\ pc' = "stat" /\ f_entry' = 0 /\ UNCHANGED <<mkfsVars, name, st, c_file, files>>
        /\ c_file = Len(files) /\ ~ st.found
    BY DEF Stat, SearchInv, mkfsVars
  <1>2. 0 \in Nat /\ f_entry' = 0 * EntrySize /\ Passed(0)'
    BY <1>1, SizesAssumption DEF Passed
  <1>. QED BY <1>1, <1>2, ImageStays DEF SearchInv

(* One entry looked at: it is the end, the one asked for, or passed.         *)
LEMMA LookFinds == ReadInv /\ ImageInv /\ SearchInv /\ Look => ImageInv' /\ SearchInv'
  <1>. SUFFICES ASSUME ReadInv, ImageInv, SearchInv, Look PROVE ImageInv' /\ SearchInv'
    OBVIOUS
  <1>. DEFINE v == Cached(f_entry)
  <1>1. /\ pc = "stat" /\ ~ st.found /\ c_file = Len(files) /\ name \in Names
        /\ UNCHANGED <<mkfsVars, files, c_file, fs, name, beside, got, out>>
        /\ got = 0
    BY DEF Look, SearchInv, ReadInv, PlaceInv, mkfsVars
  <1>2. ImageInv'
    BY <1>1, ImageStays
  <1>3. PICK j \in Nat : f_entry = j * EntrySize /\ Passed(j)
    BY <1>1 DEF SearchInv
  <1>4. j < PerBlock => v = Byte(j * EntrySize)
    BY <1>3, EntriesFit DEF Cached
  <1>5. CASE ~ IsEntry(v) /\ pc' = "done" /\ UNCHANGED <<f_entry, st, left>>
    <2>1. ASSUME NEW k \in 1 .. Len(files), k <= PerBlock, files[k].name = name, name \notin Long
          PROVE  FALSE
      <3>. DEFINE i == k - 1
      <3>1. k \in 1 .. c_file /\ i \in Nat /\ i < PerBlock /\ PerBlock \in Nat /\ k \in Nat
        BY <1>1, <2>1, EntriesFit
      <3>2. /\ i * EntrySize \in DOMAIN fs /\ IsEntry(fs[i * EntrySize])
            /\ fs[i * EntrySize].name \in StoredNames(files[k].name)
        BY <2>1, <3>1 DEF ImageInv, FirstEntries
      <3>3. Named(Byte(i * EntrySize))
        BY <2>1, <3>2 DEF StoredNames, Named, Byte
      <3>4. ~ (i \in 0 .. j - 1)
        BY <1>3, <3>1, <3>3 DEF Passed
      <3>5. j <= i /\ j < PerBlock /\ j + 1 \in 1 .. c_file /\ j + 1 <= PerBlock /\ (j + 1) - 1 = j
        <4>1. c_file \in Nat
          BY DEF ReadInv, MkfsInv
        <4>. QED BY <1>3, <3>1, <3>4, <4>1
      <3>6. j * EntrySize \in DOMAIN fs /\ IsEntry(fs[j * EntrySize])
        BY <3>5 DEF ImageInv, FirstEntries
      <3>7. IsEntry(v)
        BY <1>4, <3>5, <3>6 DEF Byte
      <3>. HIDE DEF v
      <3>. QED BY <1>5, <3>7
    <2>2. Missed'
      BY <1>1, <2>1 DEF Missed
    <2>. HIDE DEF v
    <2>. QED BY <1>1, <1>2, <1>5, <2>2 DEF SearchInv
  <1>6. ASSUME v # Zero, Matches(v), NEW e \in Fields(v),
               st' = [found |-> TRUE, blk |-> e.blk, size |-> e.size],
               left' = e.size, pc' = "load", UNCHANGED f_entry
        PROVE  ImageInv' /\ SearchInv'
    <2>1. st'.found = TRUE /\ st'.blk = e.blk /\ st'.size = e.size
      BY <1>6
    <2>2. IsEntry(v) => v.name = name /\ v.blk = st'.blk /\ v.size = st'.size
      <3>. HIDE DEF v
      <3>1. IsEntry(v) => v.name = name /\ e = [blk |-> v.blk, size |-> v.size]
        BY <1>6 DEF Matches, Fields
      <3>. QED BY <2>1, <3>1
    <2>3. Cached(f_entry)' = v
      BY <1>1, <1>6 DEF Cached, Byte
    <2>4. Passed(j)'
      BY <1>1, <1>3 DEF Passed, Named, IsEntry, Byte
    <2>. HIDE DEF v
    <2>5. Cached(f_entry)' # Zero /\ (IsEntry(Cached(f_entry)) => Shows(Cached(f_entry)))'
      BY <1>1, <1>6, <2>2, <2>3 DEF Shows, IsEntry
    <2>6. Stopped'
      <3>1. f_entry' = j * EntrySize
        BY <1>3, <1>6
      <3>. QED BY <2>4, <2>5, <3>1 DEF Stopped
    <2>7. got' + left' = st'.size
      <3>1. st'.size \in Nat
        BY LookReads DEF ReadInv, StatInv
      <3>. QED BY <1>1, <1>6, <2>1, <3>1
    <2>. QED BY <1>1, <1>2, <1>6, <2>1, <2>6, <2>7 DEF SearchInv
  <1>7. CASE /\ v # Zero /\ ~ (IsEntry(v) /\ Matches(v))
             /\ f_entry' = f_entry + EntrySize /\ UNCHANGED <<st, left, pc>>
    <2>1. j + 1 \in Nat /\ f_entry' = (j + 1) * EntrySize
      <3>1. (j + 1) * EntrySize = j * EntrySize + EntrySize
        BY SizesAssumption
      <3>. QED BY <1>3, <1>7, <3>1
    <2>2. \A i \in 0 .. (j + 1) - 1 : i < PerBlock =>
            Byte(i * EntrySize) # Zero /\ ~ Named(Byte(i * EntrySize))
      <3>. SUFFICES ASSUME NEW i \in 0 .. (j + 1) - 1, i < PerBlock
                    PROVE  Byte(i * EntrySize) # Zero /\ ~ Named(Byte(i * EntrySize))
        OBVIOUS
      <3>1. CASE i = j
        <4>. HIDE DEF v
        <4>. QED BY <1>4, <1>7, <3>1 DEF Named, Matches
      <3>2. CASE i # j
        <4>1. i \in 0 .. j - 1
          BY <1>3, <3>2
        <4>. QED BY <1>3, <4>1 DEF Passed
      <3>. QED BY <3>1, <3>2
    <2>3. Passed(j + 1)'
      BY <1>1, <2>2 DEF Passed, Named, IsEntry, Byte
    <2>4. \E m \in Nat : f_entry' = m * EntrySize /\ Passed(m)'
      BY <2>1, <2>3
    <2>. HIDE DEF v
    <2>. QED BY <1>1, <1>2, <1>7, <2>4 DEF SearchInv
  <1>8. \/ ~ IsEntry(v) /\ pc' = "done" /\ UNCHANGED <<f_entry, st, left>>
        \/ /\ v # Zero /\ Matches(v)
           /\ \E e \in Fields(v) : /\ st' = [found |-> TRUE, blk |-> e.blk, size |-> e.size]
                                   /\ left' = e.size
           /\ pc' = "load" /\ UNCHANGED f_entry
        \/ /\ v # Zero /\ ~ (IsEntry(v) /\ Matches(v))
           /\ f_entry' = f_entry + EntrySize /\ UNCHANGED <<st, left, pc>>
    BY DEF Look
  <1>. HIDE DEF v
  <1>. QED BY <1>5, <1>6, <1>7, <1>8

(* Reading: the pieces and what is left make up the size that was found.     *)
LEMMA LoadPieceFinds == ReadInv /\ SearchInv /\ LoadPiece => SearchInv'
  <1>. SUFFICES ASSUME ReadInv, SearchInv, LoadPiece PROVE SearchInv'
    OBVIOUS
  <1>1. /\ pc = "load" /\ pc' = "read"
        /\ UNCHANGED <<files, c_file, fs, name, f_entry, beside, st, got, left>>
    BY DEF LoadPiece, mkfsVars, statVars
  <1>. QED BY <1>1, StoppedStays DEF SearchInv

LEMMA LoadEndsFinds == ReadInv /\ SearchInv /\ LoadEnds => SearchInv'
  <1>. SUFFICES ASSUME ReadInv, SearchInv, LoadEnds PROVE SearchInv'
    OBVIOUS
  <1>1. /\ pc = "load" /\ pc' = "done" /\ left = 0
        /\ UNCHANGED <<files, c_file, fs, name, f_entry, beside, st, out>>
    BY DEF LoadEnds, mkfsVars, statVars, readVars
  <1>2. Len(out) = got /\ got \in Nat /\ st.found /\ got + left = st.size
    BY <1>1 DEF ReadInv, PlaceInv, CountInv, SearchInv
  <1>3. Len(out') = st'.size /\ st'.found
    BY <1>1, <1>2
  <1>. QED BY <1>1, <1>3, StoppedStays DEF SearchInv

LEMMA ReadBlockFinds == ReadInv /\ SearchInv /\ ReadBlock => SearchInv'
  <1>. SUFFICES ASSUME ReadInv, SearchInv, ReadBlock PROVE SearchInv'
    OBVIOUS
  <1>1. /\ pc = "read" /\ pc' = "read"
        /\ UNCHANGED <<files, c_file, fs, name, f_entry, beside, st, got, left>>
    BY DEF ReadBlock, mkfsVars, statVars
  <1>. QED BY <1>1, StoppedStays DEF SearchInv

LEMMA PieceReadFinds == ReadInv /\ SearchInv /\ PieceRead => SearchInv'
  <1>. SUFFICES ASSUME ReadInv, SearchInv, PieceRead PROVE SearchInv'
    OBVIOUS
  <1>1. /\ pc = "read" /\ pc' = "load" /\ got' = got + want /\ left' = left - want
        /\ UNCHANGED <<files, c_file, fs, name, f_entry, beside, st>>
    BY DEF PieceRead, mkfsVars, statVars
  <1>2. /\ got \in Nat /\ left \in Nat /\ want \in Nat /\ st.found /\ got + left = st.size
    BY <1>1 DEF ReadInv, CountInv, SearchInv
  <1>3. got' + left' = st'.size
    BY <1>1, <1>2
  <1>. QED BY <1>1, <1>2, <1>3, StoppedStays DEF SearchInv

LEMMA NextFinds == FileInv /\ [Next]_vars => FileInv'
  <1>. SUFFICES ASSUME FileInv, [Next]_vars PROVE FileInv'
    OBVIOUS
  <1>0. ReadInv /\ ImageInv /\ SearchInv /\ ReadInv'
    BY NextReads DEF FileInv
  <1>1. CASE PutFile
    BY <1>0, <1>1, PutFileKeepsImage, PutFileFinds DEF FileInv
  <1>2. CASE Stat
    BY <1>0, <1>2, StatFinds DEF FileInv
  <1>3. CASE Look
    BY <1>0, <1>3, LookFinds DEF FileInv
  <1>4. CASE LoadPiece
    <2>1. UNCHANGED mkfsVars
      BY <1>4 DEF LoadPiece
    <2>. QED BY <1>0, <1>4, <2>1, ImageStays, LoadPieceFinds DEF FileInv
  <1>5. CASE LoadEnds
    <2>1. UNCHANGED mkfsVars
      BY <1>5 DEF LoadEnds
    <2>. QED BY <1>0, <1>5, <2>1, ImageStays, LoadEndsFinds DEF FileInv
  <1>6. CASE ReadBlock
    <2>1. UNCHANGED mkfsVars
      BY <1>6 DEF ReadBlock
    <2>. QED BY <1>0, <1>6, <2>1, ImageStays, ReadBlockFinds DEF FileInv
  <1>7. CASE PieceRead
    <2>1. UNCHANGED mkfsVars
      BY <1>7 DEF PieceRead
    <2>. QED BY <1>0, <1>7, <2>1, ImageStays, PieceReadFinds DEF FileInv
  <1>8. CASE UNCHANGED vars
    <2>1. /\ UNCHANGED mkfsVars
          /\ UNCHANGED <<files, c_file, fs, name, f_entry, beside, st, got, left, out, pc>>
      BY <1>8 DEF vars, mkfsVars, statVars, readVars
    <2>2. SearchInv'
      BY <1>0, <2>1, StoppedStays DEF SearchInv, Missed, Passed, Named, IsEntry, Byte
    <2>. QED BY <1>0, <2>1, <2>2, ImageStays DEF FileInv
  <1>. QED BY <1>1, <1>2, <1>3, <1>4, <1>5, <1>6, <1>7, <1>8 DEF Next

LEMMA RemainderIsLess ==
  ASSUME NEW n \in Nat, NEW d \in Nat \ {0}
  PROVE  n % d \in Nat /\ n % d <= n
  <1>. DEFINE q == n \div d
              r == n % d
  <1>1. q \in Nat /\ r \in Nat /\ n = q * d + r
    BY Division
  <1>. HIDE DEF q, r
  <1>2. q * d \in Nat
    BY <1>1
  <1>3. r <= n
    BY <1>1, <1>2
  <1>. QED BY <1>1, <1>3 DEF r

(* An entry that stat has found is that of a file.                           *)
LEMMA FoundIsFile ==
  ASSUME FileInv, st.found, IsEntry(Cached(f_entry)),
         c_file = Len(files), Len(files) <= DirBlocks * PerBlock
  PROVE  \E k \in 1 .. Len(files) :
           /\ name \in StoredNames(files[k].name)
           /\ st.size = files[k].size % Word /\ InPlace(k, st.blk)
  <1>1. PICK a \in DOMAIN fs : /\ IsEntry(fs[a]) /\ fs[a].name = name
                               /\ fs[a].blk = st.blk /\ fs[a].size = st.size
    <2>. DEFINE v == Cached(f_entry)
    <2>1. IsEntry(v) /\ Shows(v)
      BY DEF FileInv, SearchInv, Stopped
    <2>2. ~ IsEntry(Zero) /\ ~ IsEntry(Junk)
      BY DEF IsEntry, Zero, Junk
    <2>3. \A a : Byte(a) = Zero \/ (a \in DOMAIN fs /\ Byte(a) = fs[a])
      BY DEF Byte
    <2>4. \E a : v = Byte(a) \/ v = Junk
      BY DEF Cached
    <2>. HIDE DEF v
    <2>5. \E a \in DOMAIN fs : v = fs[a]
      BY <2>1, <2>2, <2>3, <2>4
    <2>. QED BY <2>1, <2>5 DEF Shows
  <1>2. PICK k \in 1 .. c_file : EntryOf(k, fs[a])
    BY <1>1 DEF FileInv, ImageInv, Entries
  <1>. QED BY <1>1, <1>2 DEF EntryOf

(* The name stored is the file's, unless it was long.                        *)
LEMMA StoredIsName ==
  ASSUME NEW n \in Names, NEW m, n \in StoredNames(m), n \notin Long
  PROVE  n = m
  BY NamesAssumption DEF StoredNames

(* An entry of the first block, as the walk of stat sees it.                 *)
LEMMA EntrySeen ==
  ASSUME FileInv, c_file = Len(files), NEW j \in Nat, j < PerBlock, j < Len(files),
         f_entry = j * EntrySize
  PROVE  /\ IsEntry(Cached(f_entry))
         /\ Cached(f_entry).name \in StoredNames(files[j + 1].name)
  <1>1. Len(files) \in Nat /\ PerBlock \in Nat
    BY EntriesFit DEF FileInv, ReadInv, MkfsInv
  <1>2. j + 1 \in 1 .. c_file /\ j + 1 <= PerBlock /\ (j + 1) - 1 = j
    BY <1>1
  <1>3. /\ j * EntrySize \in DOMAIN fs /\ IsEntry(fs[j * EntrySize])
        /\ fs[j * EntrySize].name \in StoredNames(files[j + 1].name)
    BY <1>2 DEF FileInv, ImageInv, FirstEntries
  <1>4. Cached(f_entry) = fs[j * EntrySize]
    BY <1>3, EntriesFit DEF Cached, Byte
  <1>. QED BY <1>3, <1>4

LEMMA InvFinds == FileInv => Finds
  <1>. SUFFICES ASSUME FileInv, pc = "done" PROVE Finds
    BY DEF Finds
  <1>1. c_file = Len(files) /\ c_file \in Nat /\ name \in Names
    BY DEF FileInv, SearchInv, ReadInv, MkfsInv
  <1>2. ASSUME name \notin Long, NEW k \in Asked, k <= PerBlock
        PROVE  st.found
    BY <1>2 DEF FileInv, SearchInv, Missed, Asked
  <1>3. ASSUME Len(files) < PerBlock, \A k \in DOMAIN files : files[k].name \notin Long
        PROVE  st.found <=> Asked # {}
    <2>0. files \in Seq([name : FileNames, size : Nat])
      BY DirectoriesAssumption DEF FileInv, ReadInv, MkfsInv
    <2>1. DOMAIN files = 1 .. Len(files)
      BY <2>0, LenProperties
    <2>2. Asked # {} => st.found
      <3>. SUFFICES ASSUME NEW k \in Asked PROVE st.found
        OBVIOUS
      <3>1. k \in 1 .. Len(files) /\ files[k].name = name
        BY DEF Asked
      <3>2. name \notin Long /\ k <= PerBlock
        BY <1>1, <1>3, <2>1, <3>1, EntriesFit
      <3>. QED BY <1>2, <3>2
    <2>3. st.found => Asked # {}
      <3>. SUFFICES ASSUME st.found PROVE Asked # {}
        OBVIOUS
      <3>1. PICK j \in Nat : /\ f_entry = j * EntrySize /\ Passed(j)
                             /\ Cached(f_entry) # Zero
                             /\ IsEntry(Cached(f_entry)) => Shows(Cached(f_entry))
        BY DEF FileInv, SearchInv, Stopped
      <3>2. /\ c_file < PerBlock /\ PerBlock \in Nat
            /\ c_file * EntrySize \in Nat /\ c_file * EntrySize < BlockSize
        BY <1>1, <1>3, EntriesFit
      <3>3. Byte(c_file * EntrySize) = Zero
        BY <3>2 DEF FileInv, ImageInv, Free, Byte
      <3>4. ~ (c_file \in 0 .. j - 1)
        BY <3>1, <3>2, <3>3 DEF Passed
      <3>5. j # c_file
        BY <3>1, <3>2, <3>3 DEF Cached
      <3>6. j < Len(files) /\ j < PerBlock /\ j + 1 \in 1 .. Len(files)
        BY <1>1, <3>2, <3>4, <3>5
      <3>7. name \in StoredNames(files[j + 1].name)
        BY <1>1, <3>1, <3>6, EntrySeen DEF Shows
      <3>8. files[j + 1].name = name
        BY <1>3, <2>1, <3>6, <3>7 DEF StoredNames
      <3>. QED BY <3>6, <3>8 DEF Asked
    <2>. QED BY <2>2, <2>3
  <1>. QED BY <1>2, <1>3 DEF Finds

LEMMA InvLoads == FileInv => Loads
  <1>. SUFFICES ASSUME FileInv, pc = "done", st.found, name \notin Long,
                       Len(files) <= DirBlocks * PerBlock, NEW k \in Asked,
                       k <= PerBlock \/ IsEntry(Cached(f_entry))
                PROVE  /\ Len(out) = files[k].size % Word
                       /\ \A i \in 1 .. Len(out) : out[i] = Data(k - 1, i - 1)
    BY DEF Loads
  <1>1. c_file = Len(files) /\ name \in Names /\ Len(out) = st.size
    BY DEF FileInv, SearchInv
  <1>0. IsEntry(Cached(f_entry))
    <2>. SUFFICES ASSUME k <= PerBlock PROVE IsEntry(Cached(f_entry))
      OBVIOUS
    <2>1. PICK j \in Nat : f_entry = j * EntrySize /\ Passed(j)
      BY DEF FileInv, SearchInv, Stopped
    <2>. DEFINE i == k - 1
    <2>2. /\ k \in 1 .. c_file /\ files[k].name = name /\ c_file \in Nat /\ PerBlock \in Nat
          /\ i \in Nat /\ i < PerBlock /\ i < Len(files)
      BY <1>1, EntriesFit DEF Asked, FileInv, ReadInv, MkfsInv
    <2>3. /\ i * EntrySize \in DOMAIN fs /\ IsEntry(fs[i * EntrySize])
          /\ fs[i * EntrySize].name \in StoredNames(files[k].name)
      BY <2>2 DEF FileInv, ImageInv, FirstEntries
    <2>4. Named(Byte(i * EntrySize))
      BY <2>2, <2>3 DEF StoredNames, Named, Byte
    <2>5. ~ (i \in 0 .. j - 1)
      BY <2>1, <2>2, <2>4 DEF Passed
    <2>6. j < PerBlock /\ j < Len(files)
      BY <1>1, <2>1, <2>2, <2>5
    <2>. QED BY <1>1, <2>1, <2>6, EntrySeen
  <1>2. PICK m \in 1 .. Len(files) : /\ name \in StoredNames(files[m].name)
                                     /\ st.size = files[m].size % Word /\ InPlace(m, st.blk)
    BY <1>0, <1>1, FoundIsFile
  <1>3. files \in Directories /\ files \in Seq([name : FileNames, size : Nat])
    BY DirectoriesAssumption DEF FileInv, ReadInv, MkfsInv
  <1>4. DOMAIN files = 1 .. Len(files) /\ Len(files) \in Nat
    BY <1>3, LenProperties
  <1>5. m = k
    <2>1. files[m].name = name
      BY <1>1, <1>2, StoredIsName
    <2>2. k \in 1 .. Len(files) /\ files[k].name = name
      BY DEF Asked
    <2>. QED BY <1>3, <1>4, <2>1, <2>2, NamesAssumption
  <1>6. Len(out) = files[k].size % Word
    BY <1>1, <1>2, <1>5
  <1>7. files[k].size \in Nat
    <2>1. files[k] \in [name : FileNames, size : Nat]
      BY <1>2, <1>3, <1>5, ElementOfSeq
    <2>. QED BY <2>1
  <1>8. Len(out) \in Nat /\ Len(out) <= files[k].size
    <2>1. Word \in Nat \ {0}
      BY SizesAssumption
    <2>. QED BY <1>6, <1>7, <2>1, RemainderIsLess
  <1>9. ASSUME NEW i \in 1 .. Len(out)
        PROVE  out[i] = Data(k - 1, i - 1)
    <2>. DEFINE b == st.blk * BlockSize
    <2>1. out[i] = Byte(b + i - 1)
      BY DEF FileInv, ReadInv, ReadsDisk
    <2>2. /\ st.blk \in Nat /\ b + files[k].size <= FsSize
          /\ \A x \in 0 .. files[k].size - 1 : fs[b + x] = Data(k - 1, x)
      BY <1>2, <1>5 DEF InPlace
    <2>3. b \in Nat /\ FsSize \in Nat
      BY <2>2, SizesAssumption
    <2>4. DOMAIN fs = 0 .. FsSize - 1
      BY DEF FileInv, ReadInv, MkfsInv
    <2>. HIDE DEF b
    <2>5. i - 1 \in 0 .. files[k].size - 1 /\ b + i - 1 = b + (i - 1)
      <3>. DEFINE n == Len(out)
                  z == files[k].size
      <3>1. n \in Nat /\ z \in Nat /\ n <= z /\ i \in 1 .. n
        BY <1>7, <1>8
      <3>. HIDE DEF n, z
      <3>2. i - 1 \in 0 .. z - 1
        BY <3>1
      <3>3. i \in Int /\ b \in Int
        BY <2>3, <3>1
      <3>4. b + i - 1 = b + (i - 1)
        BY <3>3
      <3>. QED BY <3>2, <3>4 DEF z
    <2>6. b + (i - 1) \in DOMAIN fs
      BY <1>7, <2>2, <2>3, <2>4, <2>5
    <2>7. Byte(b + (i - 1)) = fs[b + (i - 1)]
      BY <2>6 DEF Byte
    <2>. QED BY <2>1, <2>2, <2>5, <2>7
  <1>. QED BY <1>6, <1>9

(* cpu5mkfs and stat: a file whose entry is in the first block is found by   *)
(* its name, however many files there are, and a name that is not there is   *)
(* not found.                                                                *)
THEOREM FilesAreFound == Spec => []Finds
  <1>1. Init => FileInv
    BY InitReads, InitFinds DEF FileInv
  <1>. QED BY <1>1, NextFinds, InvFinds, PTL DEF Spec

(* cpu5mkfs, stat, load_process and read_file together: what is loaded of a  *)
(* file is the file, from the host's directory through the image, the blocks *)
(* and the pieces: its first size % Word bytes, in order.  Of a file past    *)
(* the first block it says so only when stat stopped at an entry.            *)
THEOREM FilesAreLoaded == Spec => []Loads
  <1>1. Init => FileInv
    BY InitReads, InitFinds DEF FileInv
  <1>. QED BY <1>1, NextFinds, InvLoads, PTL DEF Spec
=============================================================================
