-------------------------------- MODULE Mkfs --------------------------------
(***************************************************************************)
(* mkfs.c: the file system image, sector by sector, as main() writes it    *)
(* from its arguments, and what the kernel makes of it: the image is read  *)
(* with the operators of FileData, and files grow in it afterwards.        *)
(*                                                                         *)
(* A byte, a directory entry, a dinode and a block number each fill one of *)
(* the BSIZE places of a sector.  Two sequences of bytes are told apart by *)
(* the file and the position they are of.                                  *)
(***************************************************************************)
EXTENDS Integers, Sequences, FiniteSets

CONSTANTS
  nblocks, nlog, ninodes, size,
  BSIZE, NDIRECT,
  BPB,            \* bits of a sector
  MaxFiles,       \* bound: files in argv
  MaxLen          \* bound: length of a file

IPB == BSIZE
NINDIRECT == BSIZE
MAXFILE == NDIRECT + NINDIRECT
ROOTINO == 1
Inum == 1 .. MaxFiles + 1
File == Inum \ {ROOTINO}
bitblocks == (size \div BPB) + 1
Meta == (ninodes \div IPB) + 3 + bitblocks      \* usedblocks at first
BitSector == (ninodes \div IPB) + 3

\* main(): assert(nblocks + usedblocks + nlog == size).
ASSUME MkfsAssumption ==
  /\ nblocks + Meta + nlog = size
  /\ MaxFiles + 1 <= ninodes

VARIABLES
  img,            \* the sectors of fs.img
  freeblock, usedblocks, freeinode,
  len,            \* length of each file of argv
  left,           \* what read(fd) has still to return of the last one
  phase,          \* mkfs, boot, or how it ended: exit, abort
  kern            \* the file system as the kernel has it

vars == <<img, freeblock, usedblocks, freeinode, len, left, phase, kern>>

zeroes == [k \in 0 .. BSIZE - 1 |-> 0]
zinode == [size |-> 0, addrs |-> [k \in 0 .. NDIRECT |-> 0]]
i2b(inum) == (inum \div IPB) + 2
rinode(im, inum) == im[i2b(inum)][inum % IPB]
winode(im, inum, din) == [im EXCEPT ![i2b(inum)][inum % IPB] = din]

-----------------------------------------------------------------------------
(* iappend()                                                               *)

\* Mutant: usedblocks is not counted.
Alloc_quiet(s, addr) ==
  IF addr # 0 THEN [s EXCEPT !.x = addr] ELSE [s EXCEPT !.x = s.freeblock, !.freeblock = @ + 1]

\* A free sector, as addrs[] or indirect[] is given one when it has none.
Alloc(s, addr) ==
  IF addr # 0 THEN [s EXCEPT !.x = addr]
  ELSE [s EXCEPT !.x = s.freeblock, !.freeblock = @ + 1, !.usedblocks = @ + 1]

\* rsect() and wsect() of s.x, place k becoming v.
Store(s, k, v) ==
  IF s.x \in DOMAIN s.img THEN [s EXCEPT !.img[s.x][k] = v] ELSE [s EXCEPT !.end = "exit"]

SectorOf(s, fbn) ==
  LET k == IF fbn < NDIRECT THEN fbn ELSE NDIRECT
      a == Alloc(s, s.din.addrs[k])
      d == [a EXCEPT !.din.addrs[k] = a.x] IN
  IF fbn < NDIRECT \/ d.x \notin DOMAIN d.img THEN d
  ELSE LET b == Alloc(d, d.img[d.x][fbn - NDIRECT]) IN
       [b EXCEPT !.img[d.x][fbn - NDIRECT] = b.x]

\* One value v at the end of the file; s.din is its dinode.
Put(s, v) ==
  LET fbn == s.din.size \div BSIZE
      t == SectorOf(s, fbn) IN
  IF s.end # "mkfs" THEN s
  ELSE IF fbn >= MAXFILE THEN [s EXCEPT !.end = "abort"]
  ELSE [Store(t, s.din.size % BSIZE, v) EXCEPT !.din.size = @ + 1]

State == [img |-> img, freeblock |-> freeblock, usedblocks |-> usedblocks,
          x |-> 0, end |-> "mkfs", din |-> 0]

iappend(s, inum, vs) ==
  LET f[k \in 0 .. Len(vs)] ==
        IF k = 0 THEN [s EXCEPT !.din = rinode(s.img, inum)] ELSE Put(f[k - 1], vs[k])
      t == f[Len(vs)] IN
  [t EXCEPT !.img = winode(@, inum, t.din)]

ialloc(s, inum) ==
  [s EXCEPT !.img = winode(@, inum, zinode)]

-----------------------------------------------------------------------------
(* main()                                                                  *)

Becomes(s) ==
  /\ img' = s.img /\ freeblock' = s.freeblock /\ usedblocks' = s.usedblocks
  /\ phase' = s.end

NoKern == 0

\* The sectors zeroed, and a root directory with . and ..
Init ==
  LET s == [img |-> [b \in 0 .. size - 1 |-> zeroes], freeblock |-> Meta, usedblocks |-> Meta,
            x |-> 0, end |-> "mkfs", din |-> 0]
      t == iappend(iappend(ialloc(s, ROOTINO), ROOTINO, <<ROOTINO>>), ROOTINO, <<ROOTINO>>) IN
  /\ img = t.img /\ freeblock = t.freeblock /\ usedblocks = t.usedblocks
  /\ freeinode = ROOTINO + 1
  /\ len = [i \in File |-> 0]
  /\ left = 0 /\ phase = "mkfs" /\ kern = NoKern

Byte(i, k) == 10 * i + k

\* The next file of argv: its inode and its directory entry.
add_file ==
  /\ phase = "mkfs" /\ left = 0 /\ freeinode \in Inum
  /\ \E n \in 0 .. MaxLen : len' = [len EXCEPT ![freeinode] = n] /\ left' = n
  /\ Becomes(iappend(ialloc(State, freeinode), ROOTINO, <<freeinode>>))
  /\ freeinode' = freeinode + 1
  /\ UNCHANGED kern

\* read(fd, buf, sizeof(buf)) returns some bytes of it.
copy ==
  /\ phase = "mkfs" /\ left > 0
  /\ LET i == freeinode - 1 IN
     \E cc \in 1 .. BSIZE :
       /\ cc <= left
       /\ Becomes(iappend(State, i, [k \in 1 .. cc |-> Byte(i, len[i] - left + k)]))
       /\ left' = left - cc
  /\ UNCHANGED <<freeinode, len, kern>>

\* balloc(): the bitmap with the first `used' sectors marked.
balloc(im, used) ==
  LET w == BPB \div BSIZE IN
  [im EXCEPT ![BitSector] = [k \in 0 .. BSIZE - 1 |-> {i \in w * k .. w * k + w - 1 : i < used}]]

finish ==
  /\ phase = "mkfs" /\ left = 0
  /\ LET din == rinode(img, ROOTINO)
         off == ((din.size \div BSIZE) + 1) * BSIZE IN
       img' = balloc(winode(img, ROOTINO, [din EXCEPT !.size = off]), usedblocks)
  /\ phase' = IF usedblocks < BPB THEN "boot" ELSE "abort"
  /\ UNCHANGED <<freeblock, usedblocks, freeinode, len, left, kern>>

-----------------------------------------------------------------------------
(* What the kernel reads: IBLOCK(), BBLOCK(), addrs[] and the bitmap.      *)

Allocated == {i \in Inum : i < freeinode}
Block == Meta .. size - 1
Bitmap == UNION {img[BitSector][k] : k \in 0 .. BSIZE - 1}
Dinode(i) == IF i \in Allocated THEN rinode(img, i) ELSE zinode
View ==
  [addrs |-> [i \in Inum |-> Dinode(i).addrs],
   size  |-> [i \in Inum |-> Dinode(i).size],
   used  |-> Bitmap \cap Block,
   data  |-> [b \in Block |-> img[b]],
   lh    |-> {}, panic |-> "no"]

Self(f) == f
Kernel(d) == INSTANCE FileData WITH
  Proc <- {}, File <- {}, Inode <- Inum, ip <- Self, Buffer <- {}, Block <- Block,
  LOGSIZE <- size, UINT <- 2 * MAXFILE * BSIZE, MaxN <- 1,
  fs <- d, off <- <<>>, todo <- <<>>, ret <- <<>>, panicked <- "no"

boot ==
  /\ phase = "boot" /\ kern' = View /\ phase' = "kernel"
  /\ UNCHANGED <<img, freeblock, usedblocks, freeinode, len, left>>

\* A process appends a block to a file.
grow(i) ==
  /\ phase = "kernel" /\ i \in Allocated \ {ROOTINO}
  /\ kern.size[i] + BSIZE <= MAXFILE * BSIZE
  /\ LET d == Kernel(kern)!writei(kern, i, kern.size[i], BSIZE, [k \in 1 .. BSIZE |-> 0]) IN
       d.panic = "no" /\ kern' = [d EXCEPT !.lh = {}]
  /\ UNCHANGED <<img, freeblock, usedblocks, freeinode, len, left, phase>>

Next == add_file \/ copy \/ finish \/ boot \/ \E i \in Inum : grow(i)

Spec == Init /\ [][Next]_vars

-----------------------------------------------------------------------------
Entries == [k \in 1 .. Cardinality(Allocated) + 1 |-> IF k <= 2 THEN ROOTINO ELSE k - 1]

\* mkfs writes what the kernel expects: read through IBLOCK(), addrs[] and the
\* indirect block, the root directory has the entries . and .. and one for
\* each file of argv, then free ones; each file has its bytes; no sector
\* serves twice, and the bitmap marks the metadata and exactly the sectors in
\* use.  When the entries fill their last sector the size that main() gives
\* the root directory reaches a sector further, which does not exist.
ImageConsistent ==
  phase = "boot" =>
    LET K(x) == Kernel(View)!readi(View, x, 0, View.size[x]).bytes
        full == Len(Entries) % BSIZE = 0 IN
    /\ \A i \in Allocated \ {ROOTINO} : K(i) = [k \in 1 .. len[i] |-> Byte(i, k)]
    /\ Kernel(View)!readi(View, ROOTINO, 0, Len(Entries)).bytes = Entries
    /\ ~full => \A k \in Len(Entries) + 1 .. View.size[ROOTINO] : K(ROOTINO)[k] = 0
    /\ Kernel(View)!BlocksExact
    /\ 0 .. Meta - 1 \subseteq Bitmap

\* fs.h: "Then sb.nblocks data blocks. / Then sb.nlog log blocks.": no sector of
\* a file is one of the log, which starts at sb.size - sb.nlog.
DataOutsideLog ==
  phase = "kernel" => kern.used \cap (size - nlog .. size - 1) = {}
=============================================================================
