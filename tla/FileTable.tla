----------------------------- MODULE FileTable ------------------------------
(***************************************************************************)
(* Open files: the table ftable of file.c, the descriptors ofile of each   *)
(* process, and the system calls of sysfile.c and pipe.c that move         *)
(* references between them, together with fork() and exit() of proc.c.     *)
(*                                                                         *)
(* One action is one critical section of ftable.lock (or of a pipe's lock, *)
(* or of the inode cache) with the process-local code around it; between   *)
(* two of them the process can be preempted.  Which free struct file,      *)
(* page or process slot is taken is left open.                             *)
(***************************************************************************)
EXTENDS Integers, Sequences, FiniteSets, FiniteSetsExt

CONSTANTS
  Proc,           \* slots of ptable
  initproc,
  File,           \* slots of ftable
  NOFILE,         \* descriptors per process
  PipePage,       \* pages kalloc() can give to pipealloc()
  Inode,
  None            \* a null pointer

FileTableAssumption ==
  /\ initproc \in Proc
  /\ NOFILE \in Nat
  /\ None \notin File \cup PipePage \cup Inode \cup Proc

Fd == 0 .. NOFILE - 1

VARIABLES
  ref,            \* f->ref
  file,           \* f->type, f->pipe or f->ip, f->writable
  ofile,          \* proc->ofile
  state,          \* unused, embryo, run, exit
  pc,             \* where the process is inside a system call
  hand,           \* struct file pointers held in local variables
  ip,             \* sys_open's ip
  ff,             \* fileclose's copy of the file it closed
  i,              \* loop index of fork() and exit()
  np,             \* fork's new process
  pipe,           \* readopen and writeopen of each pipe
  alloced,        \* the pages in use for a pipe
  iref            \* references to each in-memory inode

vars == <<ref, file, ofile, state, pc, hand, ip, ff, i, np, pipe, alloced, iref>>
local == <<ip, ff, i, np>>
objects == <<pipe, alloced, iref>>

NoFile == [type |-> "none", obj |-> None, writable |-> 0]

Init ==
  /\ ref = [f \in File |-> 0]
  /\ file = [f \in File |-> NoFile]
  /\ ofile = [p \in Proc |-> [fd \in Fd |-> None]]
  /\ state = [p \in Proc |-> IF p = initproc THEN "run" ELSE "unused"]
  /\ pc = [p \in Proc |-> "user"]
  /\ hand = [p \in Proc |-> <<>>]
  /\ ip = [p \in Proc |-> None]
  /\ ff = [p \in Proc |-> NoFile]
  /\ i = [p \in Proc |-> 0]
  /\ np = [p \in Proc |-> None]
  /\ pipe = [q \in PipePage |-> [readopen |-> 0, writeopen |-> 0]]
  /\ alloced = {}
  /\ iref = [n \in Inode |-> 0]

At(p, l) == state[p] \in {"run", "exit"} /\ pc[p] = l
Goto(p, l) == pc' = [pc EXCEPT ![p] = l]
Free == {f \in File : ref[f] = 0}
Empty(p) == {fd \in Fd : ofile[p][fd] = None}

-----------------------------------------------------------------------------
(* file.c                                                                  *)

\* filealloc(): f is a free slot, or None when there is none.
filealloc(f) ==
  /\ IF Free = {} THEN f = None ELSE f \in Free
  /\ ref' = IF f = None THEN ref ELSE [ref EXCEPT ![f] = 1]

\* fileclose(), first half: drop the reference, under ftable.lock.  With the
\* type reset the other fields of the file are dead.
fileclose(p) ==
  /\ At(p, "fileclose")
  /\ LET f == Head(hand[p]) IN
       IF ref[f] < 1
         THEN Goto(p, "panic") /\ UNCHANGED <<ref, file, hand, ff>>
         ELSE /\ ref' = [ref EXCEPT ![f] = @ - 1]
              /\ file' = IF ref[f] > 1 THEN file ELSE [file EXCEPT ![f] = NoFile]
              /\ ff' = [ff EXCEPT ![p] = IF ref[f] > 1 THEN NoFile ELSE file[f]]
              /\ hand' = [hand EXCEPT ![p] = Tail(@)]
              /\ Goto(p, "closed")
  /\ UNCHANGED <<ofile, state, ip, i, np, objects>>

\* Mutant: the page is freed with the first end.
pipeclose_first(q, writable) ==
  LET now == IF writable = 1 THEN [pipe[q] EXCEPT !.writeopen = 0]
                             ELSE [pipe[q] EXCEPT !.readopen = 0] IN
  /\ pipe' = [pipe EXCEPT ![q] = now]
  /\ alloced' = alloced \ {q}

\* pipeclose() of one end; the page is freed with the second.
pipeclose(q, writable) ==
  LET now == IF writable = 1 THEN [pipe[q] EXCEPT !.writeopen = 0]
                             ELSE [pipe[q] EXCEPT !.readopen = 0] IN
  /\ pipe' = [pipe EXCEPT ![q] = now]
  /\ alloced' = IF now.readopen = 0 /\ now.writeopen = 0 THEN alloced \ {q} ELSE alloced

\* fileclose(), second half, and the return to the caller: the next file of
\* sys_pipe's or pipealloc's error path, sys_open's iunlockput(ip), the loop
\* of exit(), or user space.
fileclose_object(p) ==
  /\ At(p, "closed")
  /\ CASE ff[p].type = "pipe" ->
            pipeclose(ff[p].obj, ff[p].writable) /\ UNCHANGED iref
       [] ff[p].type = "inode" ->
            iref' = [iref EXCEPT ![ff[p].obj] = @ - 1] /\ UNCHANGED <<pipe, alloced>>
       [] OTHER -> UNCHANGED objects
  /\ ff' = [ff EXCEPT ![p] = NoFile]
  /\ Goto(p, IF hand[p] # <<>> THEN "fileclose"
             ELSE IF ip[p] # None THEN "iput"
             ELSE IF state[p] = "exit" THEN "exit_clear" ELSE "user")
  /\ UNCHANGED <<ref, file, ofile, state, hand, ip, i, np>>

-----------------------------------------------------------------------------
(* sysfile.c                                                               *)

\* proc->ofile[fd] = f for the lowest empty fd; the caller has Empty(p) # {}.
fdalloc(p, f) == [ofile EXCEPT ![p][Min(Empty(p))] = f]

\* argfd() and fdalloc() of sys_dup; without a free descriptor it returns -1.
sys_dup(p, fd) ==
  /\ At(p, "user")
  /\ ofile[p][fd] # None
  /\ Empty(p) # {}
  /\ ofile' = fdalloc(p, ofile[p][fd])
  /\ hand' = [hand EXCEPT ![p] = <<ofile[p][fd]>>]
  /\ Goto(p, "filedup")
  /\ UNCHANGED <<ref, file, state, local, objects>>

filedup(p) ==
  /\ At(p, "filedup")
  /\ LET f == Head(hand[p]) IN
       IF ref[f] < 1
         THEN Goto(p, "panic") /\ UNCHANGED ref
         ELSE ref' = [ref EXCEPT ![f] = @ + 1] /\ Goto(p, "user")
  /\ hand' = [hand EXCEPT ![p] = <<>>]
  /\ UNCHANGED <<file, ofile, state, local, objects>>

sys_close(p, fd) ==
  /\ At(p, "user")
  /\ ofile[p][fd] # None
  /\ ofile' = [ofile EXCEPT ![p][fd] = None]
  /\ hand' = [hand EXCEPT ![p] = <<ofile[p][fd]>>]
  /\ Goto(p, "fileclose")
  /\ UNCHANGED <<ref, file, state, local, objects>>

\* sys_open up to namei() or create(), which return a referenced inode.
sys_open(p, n) ==
  /\ At(p, "user")
  /\ iref' = [iref EXCEPT ![n] = @ + 1]
  /\ ip' = [ip EXCEPT ![p] = n]
  /\ Goto(p, "open_file")
  /\ UNCHANGED <<ref, file, ofile, state, hand, ff, i, np, pipe, alloced>>

sys_open_filealloc(p) ==
  /\ At(p, "open_file")
  /\ \E f \in File \cup {None} :
       /\ filealloc(f)
       /\ hand' = [hand EXCEPT ![p] = IF f = None THEN <<>> ELSE <<f>>]
       /\ Goto(p, IF f = None THEN "iput" ELSE "open_fd")
  /\ UNCHANGED <<file, ofile, state, local, objects>>

\* fdalloc(f); when there is no descriptor the file is closed again.
sys_open_fdalloc(p) ==
  /\ At(p, "open_fd")
  /\ IF Empty(p) = {}
       THEN Goto(p, "fileclose") /\ UNCHANGED ofile
       ELSE Goto(p, "open_fill") /\ ofile' = fdalloc(p, Head(hand[p]))
  /\ UNCHANGED <<ref, file, state, hand, local, objects>>

\* f->type = FD_INODE and the rest: the file takes over the inode reference.
sys_open_fill(p) ==
  /\ At(p, "open_fill")
  /\ \E w \in {0, 1} :
       file' = [file EXCEPT ![Head(hand[p])] =
                  [type |-> "inode", obj |-> ip[p], writable |-> w]]
  /\ hand' = [hand EXCEPT ![p] = <<>>]
  /\ ip' = [ip EXCEPT ![p] = None]
  /\ Goto(p, "user")
  /\ UNCHANGED <<ref, ofile, state, ff, i, np, objects>>

\* The error path of sys_open: iunlockput(ip).
sys_open_bad(p) ==
  /\ At(p, "iput")
  /\ iref' = [iref EXCEPT ![ip[p]] = @ - 1]
  /\ ip' = [ip EXCEPT ![p] = None]
  /\ Goto(p, "user")
  /\ UNCHANGED <<ref, file, ofile, state, hand, ff, i, np, pipe, alloced>>

\* pipealloc(): the first, then the second filealloc().
pipealloc_file(p) ==
  /\ At(p, "user") \/ At(p, "pipe_file")
  /\ \E f \in File \cup {None} :
       /\ filealloc(f)
       /\ hand' = IF f = None THEN hand ELSE [hand EXCEPT ![p] = Append(@, f)]
       /\ Goto(p, IF f # None THEN IF hand[p] = <<>> THEN "pipe_file" ELSE "pipe_page"
                              ELSE IF hand[p] # <<>> THEN "fileclose" ELSE "user")
  /\ UNCHANGED <<file, ofile, state, local, objects>>

\* pipealloc(): kalloc() and the two files, or both files are closed again.
\* Other users of memory can leave kalloc() without a page at any time.
pipealloc_page(p) ==
  /\ At(p, "pipe_page")
  /\ \/ \E q \in PipePage \ alloced :
          /\ alloced' = alloced \cup {q}
          /\ pipe' = [pipe EXCEPT ![q] = [readopen |-> 1, writeopen |-> 1]]
          /\ file' = [file EXCEPT
               ![hand[p][1]] = [type |-> "pipe", obj |-> q, writable |-> 0],
               ![hand[p][2]] = [type |-> "pipe", obj |-> q, writable |-> 1]]
          /\ Goto(p, "pipe_fd")
     \/ Goto(p, "fileclose") /\ UNCHANGED <<file, pipe, alloced>>
  /\ UNCHANGED <<ref, ofile, state, hand, local, iref>>

\* sys_pipe: two descriptors, or none and both files are closed.
sys_pipe(p) ==
  /\ At(p, "pipe_fd")
  /\ IF Cardinality(Empty(p)) < 2
       THEN Goto(p, "fileclose") /\ UNCHANGED <<ofile, hand>>
       ELSE /\ LET fd0 == Min(Empty(p)) IN
                 ofile' = [ofile EXCEPT ![p][fd0] = hand[p][1],
                                        ![p][Min(Empty(p) \ {fd0})] = hand[p][2]]
            /\ hand' = [hand EXCEPT ![p] = <<>>]
            /\ Goto(p, "user")
  /\ UNCHANGED <<ref, file, state, local, objects>>

-----------------------------------------------------------------------------
(* fork() and exit() of proc.c                                             *)

\* allocproc() and copyuvm() of fork() went well; where they do not, fork()
\* returns before it looks at a file.
fork(p, q) ==
  /\ At(p, "user")
  /\ state[q] = "unused"
  /\ state' = [state EXCEPT ![q] = "embryo"]
  /\ np' = [np EXCEPT ![p] = q]
  /\ i' = [i EXCEPT ![p] = 0]
  /\ Goto(p, "fork")
  /\ UNCHANGED <<ref, file, ofile, hand, ip, ff, objects>>

\* One turn of the loop of fork(), or its end: np->state = RUNNABLE.
fork_file(p) ==
  /\ At(p, "fork")
  /\ IF i[p] = NOFILE
       THEN /\ state' = [state EXCEPT ![np[p]] = "run"]
            /\ np' = [np EXCEPT ![p] = None]
            /\ i' = [i EXCEPT ![p] = 0]
            /\ Goto(p, "user")
            /\ UNCHANGED <<ref, ofile>>
       ELSE /\ LET f == ofile[p][i[p]] IN
               IF f = None
                 THEN UNCHANGED <<ref, ofile, pc>>
                 ELSE IF ref[f] < 1
                   THEN Goto(p, "panic") /\ UNCHANGED <<ref, ofile>>
                   ELSE /\ ref' = [ref EXCEPT ![f] = @ + 1]
                        /\ ofile' = [ofile EXCEPT ![np[p]][i[p]] = f]
                        /\ UNCHANGED pc
            /\ i' = [i EXCEPT ![p] = @ + 1]
            /\ UNCHANGED <<state, np>>
  /\ UNCHANGED <<file, hand, ip, ff, objects>>

exit(p) ==
  /\ At(p, "user")
  /\ p # initproc
  /\ state' = [state EXCEPT ![p] = "exit"]
  /\ i' = [i EXCEPT ![p] = 0]
  /\ Goto(p, "exit")
  /\ UNCHANGED <<ref, file, ofile, hand, ip, ff, np, objects>>

\* The loop of exit(): fileclose(proc->ofile[fd]), or, at its end, a zombie
\* that wait() makes an unused slot again.
exit_file(p) ==
  /\ At(p, "exit")
  /\ IF i[p] = NOFILE
       THEN /\ state' = [state EXCEPT ![p] = "unused"]
            /\ i' = [i EXCEPT ![p] = 0]
            /\ Goto(p, "user")
            /\ UNCHANGED hand
       ELSE IF ofile[p][i[p]] = None
         THEN i' = [i EXCEPT ![p] = @ + 1] /\ UNCHANGED <<state, pc, hand>>
         ELSE /\ hand' = [hand EXCEPT ![p] = <<ofile[p][i[p]]>>]
              /\ Goto(p, "fileclose")
              /\ UNCHANGED <<state, i>>
  /\ UNCHANGED <<ref, file, ofile, ip, ff, np, objects>>

\* proc->ofile[fd] = 0, after fileclose() has returned.
exit_clear(p) ==
  /\ At(p, "exit_clear")
  /\ ofile' = [ofile EXCEPT ![p][i[p]] = None]
  /\ i' = [i EXCEPT ![p] = @ + 1]
  /\ Goto(p, "exit")
  /\ UNCHANGED <<ref, file, state, hand, ip, ff, np, objects>>

-----------------------------------------------------------------------------
Step(p) ==
  \/ fileclose(p)
  \/ fileclose_object(p)
  \/ filedup(p)
  \/ sys_open_filealloc(p)
  \/ sys_open_fdalloc(p)
  \/ sys_open_fill(p)
  \/ sys_open_bad(p)
  \/ pipealloc_file(p)
  \/ pipealloc_page(p)
  \/ sys_pipe(p)
  \/ fork_file(p)
  \/ exit(p)
  \/ exit_file(p)
  \/ exit_clear(p)

Next ==
  \E p \in Proc :
    \/ Step(p)
    \/ \E fd \in Fd : sys_dup(p, fd) \/ sys_close(p, fd)
    \/ \E n \in Inode : sys_open(p, n)
    \/ \E q \in Proc : fork(p, q)

Spec == Init /\ [][Next]_vars

-----------------------------------------------------------------------------
OpenFile == [type : {"none", "pipe", "inode"},
             obj : PipePage \cup Inode \cup {None}, writable : {0, 1}]
Label == {"user", "fileclose", "closed", "filedup", "open_file", "open_fd", "open_fill",
          "iput", "pipe_file", "pipe_page", "pipe_fd", "fork", "exit", "exit_clear"}

\* No process is ever at "panic": filedup() and fileclose() find a reference.
TypeOK ==
  /\ ref \in [File -> Nat]
  /\ file \in [File -> OpenFile]
  /\ ofile \in [Proc -> [Fd -> File \cup {None}]]
  /\ state \in [Proc -> {"unused", "embryo", "run", "exit"}]
  /\ pc \in [Proc -> Label]
  /\ hand \in [Proc -> UNION {[1 .. k -> File] : k \in 0 .. 2}]
  /\ ip \in [Proc -> Inode \cup {None}]
  /\ ff \in [Proc -> OpenFile]
  /\ i \in [Proc -> 0 .. NOFILE]
  /\ np \in [Proc -> Proc \cup {None}]
  /\ pipe \in [PipePage -> [readopen : {0, 1}, writeopen : {0, 1}]]
  /\ alloced \subseteq PipePage
  /\ iref \in [Inode -> Nat]

Slots(f) == {s \in Proc \X Fd : ofile[s[1]][s[2]] = f}
Holds(p, f) == \E k \in 1 .. Len(hand[p]) : hand[p][k] = f

\* References that a process has in a local variable and in no descriptor,
Extra(f) == {p \in Proc :
  /\ Holds(p, f)
  /\ pc[p] \in {"open_fd", "pipe_file", "pipe_page", "pipe_fd", "fileclose", "closed"}
  /\ state[p] = "run"}
\* and descriptors whose reference is not counted: not yet in sys_dup, and no
\* longer in exit(), which clears the descriptor after fileclose().
Uncounted(f) == {p \in Proc :
  \/ pc[p] = "filedup" /\ Holds(p, f)
  \/ state[p] = "exit" /\ pc[p] \in {"closed", "exit_clear"} /\ ofile[p][i[p]] = f}

\* Who answers for an end of a pipe or for a reference to an inode.
Owners(o) ==
  {f \in File : ref[f] > 0 /\ [file[f] EXCEPT !.writable = o.writable] = o /\
                (o.type = "pipe" => file[f] = o)}
Closing(o) ==
  {p \in Proc : [ff[p] EXCEPT !.writable = o.writable] = o /\ (o.type = "pipe" => ff[p] = o)}
Count(o) == Cardinality(Owners(o)) + Cardinality(Closing(o))
PipeEnd(q, w) == [type |-> "pipe", obj |-> q, writable |-> w]
InodeFile(n) == [type |-> "inode", obj |-> n, writable |-> 0]

\* p->readopen is 1 exactly while one open file is the read end, likewise
\* p->writeopen, and the page is freed exactly when both ends are closed,
\* whatever failed in pipealloc() or sys_pipe.
PipeEndsMatch ==
  \A q \in PipePage :
    /\ pipe[q].readopen = Count(PipeEnd(q, 0))
    /\ pipe[q].writeopen = Count(PipeEnd(q, 1))
    /\ q \in alloced <=> Count(PipeEnd(q, 0)) + Count(PipeEnd(q, 1)) > 0

\* Every reference that sys_open took on an inode is given back once: by the
\* last close of the file or by an error path.
InodeRefsMatch ==
  \A n \in Inode :
    iref[n] = Count(InodeFile(n)) + Cardinality({p \in Proc : ip[p] = n})

\* f->ref is the number of references to f: the descriptors of all processes
\* and the ones in the middle of a system call.  So no file is freed while a
\* descriptor names it, and none stays allocated without one; the objects
\* behind the files are counted as exactly.
RefExact ==
  /\ TypeOK /\ PipeEndsMatch /\ InodeRefsMatch
  /\ \A f \in File :
       ref[f] = Cardinality(Slots(f)) + Cardinality(Extra(f)) - Cardinality(Uncounted(f))

\* A descriptor that a process can use names a file with a type (fileread()
\* and filewrite() panic without one) whose pipe end or inode is still there.
DescriptorsUsable ==
  \A p \in Proc, fd \in Fd :
    (At(p, "user") /\ ofile[p][fd] # None) =>
      LET f == ofile[p][fd] IN
      /\ ref[f] >= 1
      /\ file[f].type # "none"
      /\ file[f].type = "pipe" =>
           /\ file[f].obj \in alloced
           /\ IF file[f].writable = 1 THEN pipe[file[f].obj].writeopen = 1
                                      ELSE pipe[file[f].obj].readopen = 1
      /\ file[f].type = "inode" => iref[file[f].obj] >= 1
=============================================================================
