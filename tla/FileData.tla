------------------------------ MODULE FileData ------------------------------
(***************************************************************************)
(* The contents of files: balloc(), bfree(), bmap(), itrunc(), readi() and *)
(* writei() of fs.c under fileread() and filewrite() of file.c.            *)
(*                                                                         *)
(* A transaction with the inode locked is one action: filewrite() makes one*)
(* for every `max' bytes, and other processes write in between.  The bitmap*)
(* is one block and an inode has a block of its own.                       *)
(***************************************************************************)
EXTENDS Integers, Sequences, FiniteSets

CONSTANTS
  Proc, File,
  Inode,          \* 1 .. n
  ip(_),          \* f->ip
  Buffer,         \* what a process may write: sequences of bytes
  Block,          \* 1 .. n, the data blocks
  BSIZE, NDIRECT, LOGSIZE,
  UINT,           \* 2^32: a count is unsigned in readi()
  MaxN            \* bound: the largest count of a read, but for UINT - 1

\* A block holds BSIZE bytes or as many block numbers.
NINDIRECT == BSIZE
MAXFILE == NDIRECT + NINDIRECT
\* The other blocks of a transaction.
Bitmap == 0
Dinode(i) == -i

VARIABLES
  fs,             \* the blocks and the inodes: see Empty
  off,            \* f->off
  todo,           \* filewrite(): the open file, its n bytes at addr and i
  ret,            \* the last fileread(): its count, what it returned and stored
  panicked

vars == <<fs, off, todo, ret, panicked>>

\* addrs[] and size of the inodes, the bitmap and the contents of the blocks;
\* lh is the transaction.
Empty ==
  [addrs |-> [i \in Inode |-> [k \in 0 .. NDIRECT |-> 0]],
   size  |-> [i \in Inode |-> 0],
   used  |-> {},
   data  |-> [b \in Block |-> [k \in 0 .. BSIZE - 1 |-> 0]],
   lh    |-> {},
   panic |-> "no"]

Idle == [f |-> 0, addr |-> <<>>, i |-> 0]

Init ==
  /\ fs = Empty
  /\ off = [f \in File |-> 0]
  /\ todo = [p \in Proc |-> Idle]
  /\ ret = [n |-> 0, r |-> 0, bytes |-> <<>>]
  /\ panicked = "no"

-----------------------------------------------------------------------------
(* fs.c                                                                    *)

\* log_write() with a log of LOGSIZE blocks, the header one of them.
log_write(d, x) ==
  IF Cardinality(d.lh) >= LOGSIZE - 1 THEN [d EXCEPT !.panic = "too big a transaction"]
  ELSE [d EXCEPT !.lh = @ \cup {x}]

\* balloc(): the first free block, zeroed.  The result is the new state and
\* the block.
balloc(d) ==
  LET unused == Block \ d.used
      b == CHOOSE x \in unused : \A y \in unused : x <= y IN
  IF unused = {} THEN [d |-> [d EXCEPT !.panic = "balloc: out of blocks"], addr |-> 0]
  ELSE [d |-> log_write(log_write([d EXCEPT !.used = @ \cup {b},
                                            !.data[b] = Empty.data[b]], Bitmap), b),
        addr |-> b]

\* bmap(): the block with bytes bn * BSIZE on, allocated when there is none.
bmap_direct(d, i, k) ==
  IF d.addrs[i][k] # 0 THEN [d |-> d, addr |-> d.addrs[i][k]]
  ELSE LET n == balloc(d) IN [n EXCEPT !.d.addrs[i][k] = n.addr]

bmap_indirect(d, b, k) ==
  IF b = 0 \/ d.data[b][k] # 0 THEN [d |-> d, addr |-> IF b = 0 THEN 0 ELSE d.data[b][k]]
  ELSE LET n == balloc(d) IN
       [d |-> log_write([n.d EXCEPT !.data[b][k] = n.addr], b), addr |-> n.addr]

bmap(d, i, bn) ==
  IF bn < NDIRECT THEN bmap_direct(d, i, bn)
  ELSE LET ind == bmap_direct(d, i, NDIRECT) IN bmap_indirect(ind.d, ind.addr, bn - NDIRECT)

min(x, y) == IF x < y THEN x ELSE y
Chunk(n, tot, o) == min(n - tot, BSIZE - (o % BSIZE))

\* readi() of n bytes from position o on: to[k] is what is copied in k turns of
\* the loop.  Inside the file bmap() finds every block.
readi(d, i, o, n) ==
  LET m == IF o + n > d.size[i] THEN d.size[i] - o ELSE n
      turn(s) ==
        LET x == o + Len(s)
            data == d.data[bmap(d, i, x \div BSIZE).addr] IN
        s \o [k \in 1 .. Chunk(m, Len(s), x) |-> data[(x % BSIZE) + k - 1]]
      to[k \in 0 .. m] ==
        IF k = 0 THEN <<>>
        ELSE LET s == to[k - 1] IN IF Len(s) >= m THEN s ELSE turn(s) IN
  IF o > d.size[i] \/ (o + n) % UINT < o THEN [n |-> n, r |-> -1, bytes |-> <<>>]
  ELSE [n |-> n, r |-> m, bytes |-> to[m]]

\* writei() of n bytes v[1], v[2], ...: f[k] is the state after k turns of the
\* loop; `moves' says that src += m is one of its statements.
Loop(d, i, o, n, v, moves) ==
  LET turn(s) ==
        LET at == s.o % BSIZE
            m == Chunk(n, s.tot, s.o)
            src == IF moves THEN s.tot ELSE 0
            x == bmap(s.d, i, s.o \div BSIZE) IN
        IF x.addr = 0 THEN [s EXCEPT !.d = x.d, !.tot = n]
        ELSE [d |-> log_write([x.d EXCEPT !.data[x.addr] =
                                 [k \in 0 .. BSIZE - 1 |->
                                    IF k \in at .. at + m - 1 THEN v[src + k - at + 1] ELSE @[k]]],
                              x.addr),
              tot |-> s.tot + m, o |-> s.o + m]
      f[k \in 0 .. n] ==
        IF k = 0 THEN [d |-> d, tot |-> 0, o |-> o]
        ELSE LET s == f[k - 1] IN IF s.tot >= n THEN s ELSE turn(s)
      end == f[n] IN
  IF n > 0 /\ end.o > d.size[i]
    THEN log_write([end.d EXCEPT !.size[i] = end.o], Dinode(i))
    ELSE end.d


writei(d, i, o, n, v) == Loop(d, i, o, n, v, TRUE)

\* The blocks of inode i, with the indirect block.
Direct(d, i) == {d.addrs[i][k] : k \in 0 .. NDIRECT - 1} \ {0}
Indirect(d, i) ==
  IF d.addrs[i][NDIRECT] = 0 THEN {}
  ELSE {d.data[d.addrs[i][NDIRECT]][k] : k \in 0 .. NINDIRECT - 1} \ {0}

\* bfree() of blocks bs, each of which must be in use.
bfree(d, bs) ==
  log_write([d EXCEPT !.used = @ \ bs,
                      !.panic = IF bs \subseteq d.used THEN @ ELSE "freeing free block"], Bitmap)

\* Mutant: the blocks that the indirect block names are not freed.
itrunc_direct(d, i) ==
  log_write([bfree(d, Direct(d, i) \cup ({d.addrs[i][NDIRECT]} \ {0}))
               EXCEPT !.addrs[i] = Empty.addrs[i], !.size[i] = 0], Dinode(i))

itrunc(d, i) ==
  log_write([bfree(d, Direct(d, i) \cup Indirect(d, i) \cup ({d.addrs[i][NDIRECT]} \ {0}))
               EXCEPT !.addrs[i] = Empty.addrs[i], !.size[i] = 0], Dinode(i))

-----------------------------------------------------------------------------
(* file.c                                                                  *)

\* A transaction ends: commit_trans(), or panic().
Commit(d) ==
  /\ fs' = [d EXCEPT !.lh = {}, !.panic = "no"]
  /\ panicked' = d.panic

max == ((LOGSIZE - 1 - 1 - 2) \div 2) * BSIZE

\* With n <= 0 the loop is not entered.
filewrite(p, f) ==
  /\ panicked = "no" /\ todo[p] = Idle
  /\ \E addr \in Buffer : todo' = [todo EXCEPT ![p] = [f |-> f, addr |-> addr, i |-> 0]]
  /\ UNCHANGED <<fs, off, ret, panicked>>

\* One turn of the loop of filewrite(), with addr + i: writei() returns -1 or
\* all of n1.
filewrite_trans(p) ==
  /\ panicked = "no" /\ todo[p] # Idle
  /\ LET f == todo[p].f
         i == todo[p].i
         n == Len(todo[p].addr)
         n1 == min(n - i, max) IN
     IF off[f] > fs.size[ip(f)] \/ off[f] + n1 > MAXFILE * BSIZE
       THEN /\ todo' = [todo EXCEPT ![p] = Idle]
            /\ UNCHANGED <<fs, off, panicked>>
       ELSE /\ Commit(writei(fs, ip(f), off[f], n1, SubSeq(todo[p].addr, i + 1, n)))
            /\ off' = [off EXCEPT ![f] = @ + n1]
            /\ todo' = [todo EXCEPT ![p] = IF i + n1 = n THEN Idle ELSE [@ EXCEPT !.i = i + n1]]
  /\ UNCHANGED ret

\* fileread(): argptr() lets a negative count through, which readi() takes for
\* a very large one: UINT - 1 stands for these.
fileread(f) ==
  /\ panicked = "no"
  /\ \E n \in (0 .. MaxN) \cup {UINT - 1} : ret' = readi(fs, ip(f), off[f], n)
  /\ off' = [off EXCEPT ![f] = IF ret'.r > 0 THEN @ + ret'.r ELSE @]
  /\ UNCHANGED <<fs, todo, panicked>>

\* sys_open(): f is closed, and the file is opened again.
open(f) ==
  /\ panicked = "no"
  /\ \A p \in Proc : todo[p].f # f
  /\ off' = [off EXCEPT ![f] = 0]
  /\ UNCHANGED <<fs, todo, ret, panicked>>

\* The file is removed and made again: iput() of the last reference.
remove(i) ==
  /\ panicked = "no"
  /\ \A p \in Proc : todo[p] = Idle \/ ip(todo[p].f) # i
  /\ fs.size[i] > 0
  /\ Commit(itrunc(fs, i))
  /\ off' = [f \in File |-> IF ip(f) = i THEN 0 ELSE off[f]]
  /\ UNCHANGED <<todo, ret>>

\* panic() never returns.
halt == panicked # "no" /\ UNCHANGED vars

Next ==
  \/ \E p \in Proc, f \in File : filewrite(p, f)
  \/ \E p \in Proc : filewrite_trans(p)
  \/ \E f \in File : fileread(f) \/ open(f)
  \/ \E i \in Inode : remove(i)
  \/ halt

Spec == Init /\ [][Next]_vars

-----------------------------------------------------------------------------
\* The bytes of each file, in the blocks where bmap() finds them.
Contents ==
  [i \in Inode |-> [k \in 1 .. fs.size[i] |->
     fs.data[bmap(fs, i, (k - 1) \div BSIZE).addr][(k - 1) % BSIZE]]]
Bytes == INSTANCE ByteFile WITH bytes <- Contents, MaxLen <- MAXFILE * BSIZE


Owned(i) == Direct(fs, i) \cup Indirect(fs, i) \cup ({fs.addrs[i][NDIRECT]} \ {0})

\* filewrite() writes "a few blocks at a time to avoid exceeding the maximum
\* log transaction size, including i-node, indirect block, allocation blocks,
\* and 2 blocks of slop for non-aligned writes".
FitsLog == panicked # "too big a transaction"

\* The bitmap marks exactly the blocks of files, and no two files, or two
\* places of a file, share a block: bfree() never finds a free block, and a
\* transaction of filewrite() with the blocks it allocates fits the log.
BlocksExact ==
  /\ FitsLog
  /\ panicked # "freeing free block"
  /\ panicked = "no" =>
    /\ fs.used = UNION {Owned(i) : i \in Inode}
    /\ Cardinality(fs.used) =
         Cardinality({<<i, k>> \in Inode \X (0 .. MAXFILE) :
           IF k <= NDIRECT THEN fs.addrs[i][k] # 0
           ELSE /\ fs.addrs[i][NDIRECT] # 0
                /\ fs.data[fs.addrs[i][NDIRECT]][k - NDIRECT - 1] # 0})
=============================================================================
