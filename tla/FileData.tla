------------------------------ MODULE FileData ------------------------------
(***************************************************************************)
(* The data of files: the block allocator, bmap(), itrunc(), readi() and   *)
(* writei() of kernel/fs.c under fileread() and filewrite() of             *)
(* kernel/file.c, on a disk that mkfs/mkfs.c writes first.                 *)
(*                                                                         *)
(* A block holds BSIZE words; a word is a byte of a file or, in an         *)
(* indirect block, a block number.  The bytes a process writes are its own *)
(* name.  A step is one balloc() or one bfree() with the entry it is for,  *)
(* or the bytes of one block, under the lock of the inode; processes that  *)
(* work on different inodes share the bitmap and the free blocks.          *)
(***************************************************************************)
EXTENDS Integers, Sequences

CONSTANTS Users, NoUser, \* the processes
          NBLOCKS,      \* data blocks of the disk
          BSIZE,        \* words in a block
          NDIRECT,      \* blocks listed in the inode itself
          MAXOPBLOCKS,  \* blocks a call may write in one transaction
          FileOf,       \* FileOf[f] is the inode that file f has open
          Lengths,      \* the n of read() and write()
          MkfsSize      \* the bytes mkfs puts into each inode

RootIno == 1
Inos == DOMAIN MkfsSize
Opened == DOMAIN FileOf
Blocks == 1 .. NBLOCKS
Words == 0 .. BSIZE - 1
NINDIRECT == BSIZE
MAXFILE == NDIRECT + NINDIRECT
MaxBytes == MAXFILE * BSIZE
Bytes == 0 .. MaxBytes - 1
Least(a, b) == IF a < b THEN a ELSE b

\* What filewrite() writes in one transaction.
MaxWrite == ((MAXOPBLOCKS - 1 - 1 - 2) \div 2) * BSIZE

(* mkfs rounds the size of the root directory up, by a whole block when it  *)
(* fills its blocks exactly: that size is left out.                         *)
ASSUME FileDataAssumption ==
  /\ NoUser \notin Users
  /\ NBLOCKS \in Nat /\ BSIZE \in Nat \ {0} /\ NDIRECT \in Nat
  /\ MAXOPBLOCKS \in Nat /\ MAXOPBLOCKS >= 6
  /\ Lengths \subseteq Nat \ {0}
  /\ MkfsSize \in Seq(Nat) /\ RootIno \in Inos
  /\ MkfsSize[RootIno] % BSIZE # 0
  /\ FileOf \in [Opened -> Inos]

VARIABLES used,     \* the bitmap: the blocks that are marked
          data,     \* the blocks
          size,     \* of each inode
          addrs,    \* of each inode; the last entry is the indirect block
          made,     \* mkfs is done
          ilk,      \* the holder of the lock of each inode
          off,      \* the offset of each open file
          io,       \* where each process is in its call
          held,     \* history: the bytes each file is to hold
          len       \* history: and how many

dataVars == <<used, data, size, addrs, made, ilk, off, io, held, len>>
diskVars == <<used, data, size, addrs>>
history == <<held, len>>

Zero == [w \in Words |-> 0]
Nothing == [k \in Bytes |-> 0]
NoIo == [pc |-> "idle", f |-> 0, n |-> 0, n1 |-> 0, tot |-> 0]

\* mkfs has cleared the disk.
DataInit ==
  /\ used = {} /\ data = [b \in Blocks |-> Zero]
  /\ size = [i \in Inos |-> 0]
  /\ addrs = [i \in Inos |-> [k \in 0 .. NDIRECT |-> 0]]
  /\ made = FALSE
  /\ ilk = [i \in Inos |-> NoUser]
  /\ off = [f \in Opened |-> 0]
  /\ io = [p \in Users |-> NoIo]
  /\ held = [i \in Inos |-> Nothing] /\ len = [i \in Inos |-> 0]
-----------------------------------------------------------------------------
\* Byte k of a file is word Wd(k) of its block Bn(k).
Bn(k) == k \div BSIZE
Wd(k) == k % BSIZE

\* The entries of a block list: the direct blocks, the indirect block, and
\* the numbers in it.
Slots == 0 .. MAXFILE
Slot(bn) == IF bn < NDIRECT THEN bn ELSE bn + 1
AddrOf(i, q) ==
  IF q <= NDIRECT THEN addrs[i][q]
  ELSE IF addrs[i][NDIRECT] = 0 THEN 0
  ELSE data[addrs[i][NDIRECT]][q - NDIRECT - 1]

\* The block of byte k, without allocation; 0 for a hole.
BlockOf(i, k) == AddrOf(i, Slot(Bn(k)))

\* What bmap() allocates for a block bn that is not there: the indirect block
\* first.
Missing(i, bn) ==
  IF bn >= NDIRECT /\ addrs[i][NDIRECT] = 0 THEN NDIRECT ELSE Slot(bn)

\* balloc() of the first free block b, which is cleared; its number goes into
\* entry q.
Balloc(i, q, b) ==
  /\ b \in Blocks \ used /\ \A c \in Blocks \ used : b <= c
  /\ used' = used \cup {b}
  /\ addrs' = IF q <= NDIRECT THEN [addrs EXCEPT ![i][q] = b] ELSE addrs
  /\ data' = [c \in Blocks |->
                IF c = b THEN Zero
                ELSE IF q > NDIRECT /\ c = addrs[i][NDIRECT]
                  THEN [data[c] EXCEPT ![q - NDIRECT - 1] = b]
                ELSE data[c]]
  /\ UNCHANGED size

\* m words of block b, from word w on, are set to v.
Fill(b, w, m, v) ==
  data' = [data EXCEPT ![b] = [k \in Words |-> IF k \in w .. w + m - 1 THEN v
                                               ELSE @[k]]]
-----------------------------------------------------------------------------
\* mkfs, iappend(): a block, or a byte, at the end of inode i.  freeblock is
\* the first block that is not in use, for mkfs never frees one.  "." and
\* ".." of the root directory come first, then one file after the other.
Iappend(i) ==
  LET k == size[i]
      b == BlockOf(i, k)
  IN
  /\ ~made /\ k < MkfsSize[i] /\ Bn(k) < MAXFILE
  /\ i # RootIno => /\ size[RootIno] > 0
                    /\ \A j \in 2 .. i - 1 : size[j] = MkfsSize[j]
  /\ IF b = 0
       THEN /\ \E c \in Blocks : Balloc(i, Missing(i, Bn(k)), c)
            /\ UNCHANGED history
       ELSE /\ Fill(b, Wd(k), 1, 1)
            /\ size' = [size EXCEPT ![i] = @ + 1]
            /\ held' = [held EXCEPT ![i][k] = 1]
            /\ len' = [len EXCEPT ![i] = @ + 1]
            /\ UNCHANGED <<used, addrs>>
  /\ UNCHANGED <<made, ilk, off, io>>

\* mkfs, main(): the size of the root directory is rounded up, and the
\* bitmap written.
MkfsDone ==
  LET end == (size[RootIno] \div BSIZE + 1) * BSIZE IN
  /\ ~made /\ size = MkfsSize
  /\ made' = TRUE
  /\ size' = [size EXCEPT ![RootIno] = end]
  /\ len' = [len EXCEPT ![RootIno] = end]
  /\ UNCHANGED <<used, data, addrs, ilk, off, io, held>>
-----------------------------------------------------------------------------
GoTo(p, pc, f, n, n1, tot) ==
  io' = [io EXCEPT ![p] = [pc |-> pc, f |-> f, n |-> n, n1 |-> n1,
                           tot |-> tot]]
Ino(p) == FileOf[io[p].f]
Unlock(p) == ilk' = [ilk EXCEPT ![Ino(p)] = NoUser]

\* One turn of the loop of filewrite(): begin_op(), ilock() and the tests of
\* writei().
WriteChunk(p, f, n) ==
  LET i == FileOf[f]
      n1 == Least(n, MaxWrite)
  IN
  /\ made
  /\ \/ io[p].pc = "idle" /\ n \in Lengths
     \/ io[p].pc = "write" /\ f = io[p].f /\ n = io[p].n
  /\ ilk[i] = NoUser
  /\ IF off[f] > size[i] \/ off[f] + n1 > MaxBytes
       THEN io' = [io EXCEPT ![p] = NoIo] /\ UNCHANGED ilk
       ELSE GoTo(p, "writei", f, n, n1, 0) /\ ilk' = [ilk EXCEPT ![i] = p]
  /\ UNCHANGED <<diskVars, made, off, history>>

\* The offset that writei() has come to.
Here(p) == off[io[p].f] + io[p].tot

\* bmap() in writei(), where there is no block yet: balloc(), once or twice,
\* or the disk is full, which may leave an indirect block without entries.
Bmap(p) ==
  LET i == Ino(p)
      bn == Bn(Here(p))
  IN
  /\ io[p].pc = "writei" /\ BlockOf(i, Here(p)) = 0
  /\ IF Blocks \subseteq used
       THEN /\ GoTo(p, "writen", io[p].f, io[p].n, io[p].n1, io[p].tot)
            /\ UNCHANGED diskVars
       ELSE /\ \E b \in Blocks : Balloc(i, Missing(i, bn), b)
            /\ UNCHANGED io
  /\ UNCHANGED <<made, ilk, off, history>>

\* One block of writei().  copied is less than what there is to copy when
\* either_copyin() meets a bad address half way; the block is logged all
\* the same.
WriteBlock(p, copied) ==
  LET i == Ino(p)
      o == Here(p)
      b == BlockOf(i, o)
      m == Least(io[p].n1 - io[p].tot, BSIZE - Wd(o))
      ok == copied = m
      tot == IF ok THEN io[p].tot + m ELSE io[p].tot
  IN
  /\ io[p].pc = "writei" /\ b # 0 /\ copied \in 0 .. m
  /\ Fill(b, Wd(o), copied, p)
  /\ held' = [held EXCEPT ![i] = [k \in Bytes |->
                IF k \in o .. o + copied - 1 /\ (ok \/ k < len[i]) THEN p
                ELSE @[k]]]
  /\ len' = [len EXCEPT ![i] = IF ok /\ o + m > @ THEN o + m ELSE @]
  /\ GoTo(p, IF ok /\ tot < io[p].n1 THEN "writei" ELSE "writen",
          io[p].f, io[p].n, io[p].n1, tot)
  /\ UNCHANGED <<used, size, addrs, made, ilk, off>>

\* Wrong on purpose: a write that is cut short does not set the size.
WriteEndShort(p) ==
  LET i == Ino(p)
      r == io[p]
      all == r.tot = r.n1
  IN
  /\ r.pc = "writen"
  /\ size' = IF Here(p) > size[i] /\ all THEN [size EXCEPT ![i] = Here(p)]
             ELSE size
  /\ off' = [off EXCEPT ![r.f] = Here(p)]
  /\ Unlock(p)
  /\ IF all /\ r.n > r.n1
       THEN GoTo(p, "write", r.f, r.n - r.n1, 0, 0)
       ELSE io' = [io EXCEPT ![p] = NoIo]
  /\ UNCHANGED <<used, data, addrs, made, history>>

\* The end of writei(): size and iupdate(); then f->off, iunlock(), end_op()
\* and the next turn of the loop, if all was written.
WriteEnd(p) ==
  LET i == Ino(p)
      r == io[p]
  IN
  /\ r.pc = "writen"
  /\ size' = IF Here(p) > size[i] THEN [size EXCEPT ![i] = Here(p)] ELSE size
  /\ off' = [off EXCEPT ![r.f] = Here(p)]
  /\ Unlock(p)
  /\ IF r.tot = r.n1 /\ r.n > r.n1
       THEN GoTo(p, "write", r.f, r.n - r.n1, 0, 0)
       ELSE io' = [io EXCEPT ![p] = NoIo]
  /\ UNCHANGED <<used, data, addrs, made, history>>

\* What readi() finds of n bytes at offset o.
ReadLen(i, o, n) == IF o > size[i] THEN 0 ELSE Least(n, size[i] - o)

\* fileread() and readi(), which change nothing but the offset.  There is no
\* transaction: a bmap() that meets a hole ends in the panic of log_write().
\* A copy that fails returns -1.
Fileread(p, f, n, fails) ==
  LET i == FileOf[f]
      m == ReadLen(i, off[f], n)
  IN
  /\ made /\ io[p].pc = "idle" /\ ilk[i] = NoUser
  /\ IF \E k \in off[f] .. off[f] + m - 1 : BlockOf(i, k) = 0
       THEN GoTo(p, "panic", f, n, 0, 0) /\ UNCHANGED off
       ELSE /\ off' = [off EXCEPT ![f] = IF fails THEN @ ELSE @ + m]
            /\ UNCHANGED io
  /\ UNCHANGED <<diskVars, made, ilk, history>>

\* open() with O_TRUNC: ilock(), and itrunc() begins.
Open(p, f) ==
  LET i == FileOf[f] IN
  /\ made /\ io[p].pc = "idle" /\ ilk[i] = NoUser
  /\ off' = [off EXCEPT ![f] = 0]
  /\ ilk' = [ilk EXCEPT ![i] = p]
  /\ held' = [held EXCEPT ![i] = Nothing] /\ len' = [len EXCEPT ![i] = 0]
  /\ GoTo(p, "itrunc", f, 0, 0, 0)
  /\ UNCHANGED <<diskVars, made>>

\* Wrong on purpose: the inode keeps the number of a block it has freed.
KeepAddr(a, q) == a

\* ip->addrs once itrunc() has freed the block of entry q.  The indirect
\* block keeps its numbers until it is freed itself.
ClearAddr(a, q) == IF q <= NDIRECT THEN [a EXCEPT ![q] = 0] ELSE a

\* The entry itrunc() comes to after tot others.
Turn(tot) == IF tot < MAXFILE THEN Slot(tot) ELSE NDIRECT

\* itrunc(), one bfree().
TruncBlock(p) ==
  LET i == Ino(p)
      r == io[p]
      q == Turn(r.tot)
      b == AddrOf(i, q)
  IN
  /\ r.pc = "itrunc" /\ r.tot <= MAXFILE
  /\ IF b # 0 /\ b \notin used
       THEN GoTo(p, "panic", r.f, 0, 0, 0) /\ UNCHANGED diskVars
       ELSE /\ used' = used \ {b}
            /\ addrs' = [addrs EXCEPT ![i] = ClearAddr(@, q)]
            /\ GoTo(p, "itrunc", r.f, 0, 0, r.tot + 1)
            /\ UNCHANGED <<data, size>>
  /\ UNCHANGED <<made, ilk, off, history>>

\* The end of itrunc(): size = 0, iupdate(), iunlock().
TruncEnd(p) ==
  /\ io[p].pc = "itrunc" /\ io[p].tot > MAXFILE
  /\ size' = [size EXCEPT ![Ino(p)] = 0]
  /\ Unlock(p)
  /\ io' = [io EXCEPT ![p] = NoIo]
  /\ UNCHANGED <<used, data, addrs, made, off, history>>
-----------------------------------------------------------------------------
DataStep(p) ==
  \/ \E f \in Opened, n \in Lengths \cup {io[p].n} : WriteChunk(p, f, n)
  \/ Bmap(p) \/ (\E k \in 0 .. BSIZE : WriteBlock(p, k)) \/ WriteEnd(p)
  \/ \E f \in Opened, n \in Lengths, fails \in BOOLEAN :
       Fileread(p, f, n, fails)
  \/ (\E f \in Opened : Open(p, f)) \/ TruncBlock(p) \/ TruncEnd(p)

DataNext ==
  (\E i \in Inos : Iappend(i)) \/ MkfsDone \/ \E p \in Users : DataStep(p)

DataSpec == DataInit /\ [][DataNext]_dataVars
-----------------------------------------------------------------------------
\* The inodes that are being truncated, and the entries of an indirect block
\* whose blocks have been freed already.
Truncates(p, i) == io[p].pc = "itrunc" /\ Ino(p) = i
IsFreed(i, q) ==
  q > NDIRECT /\ \E p \in Users : Truncates(p, i) /\ q <= io[p].tot

\* The entries that own a block.
Owned(i) == {q \in Slots : AddrOf(i, q) # 0 /\ ~IsFreed(i, q)}

(* The bitmap marks exactly the blocks of the inodes, and no block belongs *)
(* to two of them or twice to one: nothing is lost or shared when a write  *)
(* fails half way, for want of space or because of a bad address, however  *)
(* the calls overlap.  No file has a hole, so that a read never allocates, *)
(* and no block is freed twice: nobody panics.                             *)
BlocksExact ==
  /\ \A i, j \in Inos : \A q \in Owned(i), r \in Owned(j) :
       AddrOf(i, q) = AddrOf(j, r) => i = j /\ q = r
  /\ used = UNION {{AddrOf(i, q) : q \in Owned(i)} : i \in Inos}
  /\ \A i \in Inos : (~ \E p \in Users : Truncates(p, i)) =>
       \A k \in 0 .. size[i] - 1 : BlockOf(i, k) # 0
  /\ \A p \in Users : io[p].pc # "panic"

(* Every file holds what was written to it, byte by byte, across the       *)
(* border between direct and indirect blocks and for writes that are cut   *)
(* short; its size covers exactly the bytes that were written in full.     *)
DataKept ==
  \A i \in Inos : ilk[i] = NoUser =>
    /\ size[i] = len[i]
    /\ \A k \in 0 .. size[i] - 1 : data[BlockOf(i, k)][Wd(k)] = held[i][k]
=============================================================================
