----------------------------- MODULE MCResources ----------------------------
(***************************************************************************)
(* Model checking of five components that hand out what the kernel has:    *)
(* pages (Kalloc), the kernel's page table (KernMap), user memory          *)
(* (AddrSpace), open files (FileTable), and inodes and directories         *)
(* (FsCalls).  `part' says which one a behaviour is about; the others stay *)
(* in their first state.                                                   *)
(***************************************************************************)
EXTENDS Kalloc

CONSTANTS t1, t2, p1, p2, f1, f2, f3, c1, c2, g1, g2, g3, g4, g5, g6, g7, g8

VARIABLES
  part,
  lay, kpages, vec, pgdir, mem, k, ka, last, pa, mode,
  free, as, sz, spc, proc, new, a, goal, child, ignored, emptied,
  ref, file, ofile, state, fpc, hand, ip, ff, i, np, pipe, alloced, iref,
  type, nlink, ent, nref, valid, busy, trans, cwd, nfile, me, panicked, orphaned, dangling

kvars == <<lay, kpages, vec, pgdir, mem, k, ka, last, pa, mode>>
avars == <<free, as, sz, spc, proc, new, a, goal, child, ignored, emptied>>
fvars == <<ref, file, ofile, state, fpc, hand, ip, ff, i, np, pipe, alloced, iref>>
nvars == <<type, nlink, ent, nref, valid, busy, trans, cwd, nfile, me, panicked, orphaned, dangling>>

\* 4 pages to a table; the kernel ends 4 to 7 pages up, with 14 pages mapped
\* at first: enough for all tables, or too few.
Layout == {[data |-> 32 + d, end |-> 32 + e, uart |-> u] :
             d \in 3 .. 5, e \in 4 .. 7, u \in {20, 36}}
KM == INSTANCE KernMap WITH
  VSIZE <- 64, NPT <- 4, KERNBASE <- 32, EXTMEM <- 2, PHYSTOP <- 16, ENTRYTOP <- 14,
  UART0_BASE_V <- 50, VIC_BASE <- 61, VEC_TBL <- 62, TIMER_BASE <- 28,
  Layouts <- {l \in Layout : l.data < l.end}, free <- kpages, a <- ka

AS == INSTANCE AddrSpace WITH
  Proc <- {p1, p2}, First <- p1, Page <- {g1, g2, g3, g4, g5, g6, g7, g8},
  PGSIZE <- 2, NPages <- 4, TabSize <- 2, NPTENTRIES <- 8, UINT <- 16, MaxGrow <- 4,
  pc <- spc

\* g1 stands for the page of a pipe here, and g2 for an inode.
FT == INSTANCE FileTable WITH
  Proc <- {p1, p2}, initproc <- p1, File <- {f1, f2, f3}, NOFILE <- 2,
  PipePage <- {g1}, Inode <- {g2}, pc <- fpc

\* Two inodes, two names, and the paths a, b, .. and /a.
FS == INSTANCE FsCalls WITH
  Proc <- {c1, c2}, NInodes <- 2, Name <- {"a", "b"},
  Path <- {[abs |-> FALSE, elems |-> <<n>>] : n \in {"a", "b", ".."}}
            \cup {[abs |-> TRUE, elems |-> <<"a">>]},
  ref <- nref, file <- nfile

ASSUME AS!AddrSpaceAssumption /\ FT!FileTableAssumption /\ FS!FsCallsAssumption

ResInit ==
  /\ part \in {"kalloc", "kernel", "user", "files", "inodes"}
  /\ Init /\ AS!Init /\ FT!Init /\ FS!Init
  /\ KM!Init /\ (part # "kernel" => lay = CHOOSE l \in Layout : l.data < l.end)

\* setupkvm() ends or hangs, and copyuvm() may panic: those two parts stop.
ResNext ==
  /\ UNCHANGED part
  /\ \/ part = "kalloc" /\ Next /\ UNCHANGED <<kvars, avars, fvars, nvars>>
     \/ part = "kernel" /\ KM!Next /\ UNCHANGED <<vars, avars, fvars, nvars>>
     \/ part = "user" /\ AS!Next /\ UNCHANGED <<vars, kvars, fvars, nvars>>
     \/ part = "files" /\ FT!Next /\ UNCHANGED <<vars, kvars, avars, nvars>>
     \/ part = "inodes" /\ FS!Next /\ UNCHANGED <<vars, kvars, avars, fvars>>
     \/ part \in {"kernel", "user"} /\ UNCHANGED <<vars, kvars, avars, fvars, nvars>>

ResSpec == ResInit /\ [][ResNext]_<<part, vars, kvars, avars, fvars, nvars>>

\* States that differ by a renaming of pages of AddrSpace (none of them
\* shared), of open files or of the processes of FsCalls are the same: pages
\* are left out of the view, files and processes stand in it for what is
\* known of them, with the number of files of which the same is known.
Present(s) ==
  <<s.dir # None, {t \in AS!Tab : s.tab[t] # None}, {v \in AS!Vpn : s.map[v] # None}>>
Known(f) ==
  <<ref[f], file[f], {<<q, d>> \in {p1, p2} \X (0 .. 1) : ofile[q][d] = f},
    {<<q, j>> \in {p1, p2} \X (1 .. 2) : j <= Len(hand[q]) /\ hand[q][j] = f}>>
Files == {Known(f) : f \in {f1, f2, f3}}
Caller(c) == <<cwd[c], nfile[c], me[c], {n \in FS!Inum : busy[n] = c}, trans = c>>
ResView ==
  CASE part = "kalloc" -> <<part, vars>>
    [] part = "kernel" -> <<part, kvars>>
    [] part = "files" ->
         <<part, [x \in Files |-> Cardinality({f \in {f1, f2, f3} : Known(f) = x})],
           state, fpc, ip, ff, i, np, pipe, alloced, iref>>
    [] part = "inodes" ->
         <<part, {Caller(c) : c \in {c1, c2}}, type, nlink, ent, nref, valid,
           panicked, orphaned, dangling>>
    [] part = "user" ->
         <<part, [q \in {p1, p2} |-> Present(as[q])], Present(new), Cardinality(free),
           AS!NoSharedPages, sz, spc, proc, a, goal, child, ignored, emptied>>

\* KernMap: kpgdir maps what kmap[] promises and nothing else.
KernelMapped == part = "kernel" => KM!KernelMapped
\* AddrSpace: no page serves two purposes and none is lost.
PagesAccounted == part = "user" => AS!NoSharedPages /\ AS!NoLeak
\* AddrSpace: a process has exactly the pages below proc->sz mapped.
MappedBelowSz == part = "user" => AS!MappedBelowSz
\* FileTable: references to files, pipe ends and inodes are counted exactly,
\* and a descriptor a process can use names a file that is there.
RefExact == part = "files" => FT!RefExact /\ FT!DescriptorsUsable
\* FsCalls: ip->ref counts the pointers to an inode.
InodeRefExact == part = "inodes" => FS!InodeRefExact
\* FsCalls: nlink is the number of directory entries that name an inode.
LinksExact == part = "inodes" => FS!LinksExact
\* FsCalls: an inode is allocated exactly while it has a link or a user.
AllocatedWhileUsed == part = "inodes" => FS!AllocatedWhileUsed
=============================================================================
