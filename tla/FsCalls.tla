------------------------------ MODULE FsCalls -------------------------------
(***************************************************************************)
(* The inode layer and the directory tree of fs.c under the system calls   *)
(* of sysfile.c that use them: open, mkdir, link, unlink, chdir and close, *)
(* by several processes.  (mknod is mkdir without the dots.)               *)
(*                                                                         *)
(* What a process does to an inode while it holds it I_BUSY is one action; *)
(* waiting for I_BUSY, for the transaction and every iput() between two    *)
(* such stretches is a step of its own.  The copy of an inode in icache    *)
(* and the one on disk agree (every change is followed by iupdate()), so   *)
(* there is one of them.  Directories are functions from names to i-numbers*)
(* and "." is left out.                                                    *)
(***************************************************************************)
EXTENDS Integers, Sequences, FiniteSets

CONSTANTS
  Proc,
  NInodes,        \* sb.ninodes - 1
  Name,           \* the names of files
  Path,           \* bound: the paths used, [abs, elems]
  None

FsCallsAssumption ==
  /\ NInodes \in Nat \ {0}
  /\ ".." \notin Name
  /\ \A q \in Path : q.abs \in BOOLEAN /\ q.elems \in Seq(Name \cup {".."})

ROOTINO == 1
T_DIR == 1
T_FILE == 2
Inum == 1 .. NInodes
Entry == Name \cup {".."}
NoEntries == [n \in Entry |-> 0]

VARIABLES
  type,           \* dip->type, 0 for a free inode
  nlink,
  ent,            \* the entries of each directory, 0 for none
  ref,            \* ip->ref, 0 when the inode is not in icache
  valid,          \* the cached inodes with I_VALID
  busy,           \* who holds I_BUSY
  trans,          \* the process between begin_trans() and commit_trans()
  cwd,            \* proc->cwd
  file,           \* the inode of the process's open file, or 0
  me,             \* the system call of each process
  panicked,
  orphaned,       \* history: an entry made in a directory without links
  dangling        \* history: an inode freed with entries that name it

fs == <<type, nlink, ent>>
hist == <<orphaned, dangling>>
vars == <<fs, ref, valid, busy, trans, cwd, file, me, panicked, hist>>

Idle == [op |-> "none", pc |-> "user", todo |-> <<>>, name |-> None, ip |-> 0, tgt |-> 0,
         puts |-> <<>>, freeing |-> FALSE]

\* mkfs: a root directory.  Every process starts in it.
Init ==
  /\ type = [i \in Inum |-> IF i = ROOTINO THEN T_DIR ELSE 0]
  /\ nlink = [i \in Inum |-> IF i = ROOTINO THEN 1 ELSE 0]
  /\ ent = [i \in Inum |-> IF i = ROOTINO THEN [NoEntries EXCEPT ![".."] = ROOTINO]
                                          ELSE NoEntries]
  /\ ref = [i \in Inum |-> IF i = ROOTINO THEN Cardinality(Proc) ELSE 0]
  /\ valid = {}
  /\ busy = [i \in Inum |-> None]
  /\ trans = None
  /\ cwd = [p \in Proc |-> ROOTINO]
  /\ file = [p \in Proc |-> 0]
  /\ me = [p \in Proc |-> Idle]
  /\ panicked = None
  /\ orphaned = FALSE /\ dangling = FALSE

-----------------------------------------------------------------------------
At(p, l) == panicked = None /\ me[p].pc = l /\ me[p].puts = <<>>
Set(p, r) == me' = [me EXCEPT ![p] = r]

\* begin_trans() waits for its turn before namex() or after it.
InTrans == {"create", "mkdir", "link2", "close"}
WantsParent == {"create", "mkdir", "unlink", "link2"}

\* Where a call goes on when namex() has found nothing, or its inode.
AfterFailure(op) ==
  IF op = "link2" THEN "link_bad" ELSE IF op \in InTrans THEN "commit" ELSE "user"
AfterNamex(op) ==
  CASE op \in {"create", "mkdir"}  -> "create"
    [] op \in {"unlink", "link"}   -> "begin"
    [] OTHER                       -> op

\* ilock(): the inode is free to lock, and it has a type.
CanLock(i) == busy[i] = None
NoType(i) == i \notin valid /\ type[i] = 0
ilock_panics == panicked' = "ilock: no type" /\ UNCHANGED <<fs, ref, valid, busy, cwd, file, me, hist>>

isdirempty(i) == \A n \in Name : ent[i][n] = 0

-----------------------------------------------------------------------------
(* iput()                                                                  *)

Put(p) == Head(me[p].puts)

\* Mutant: an inode without links is freed although others still use it.
Last_shared(i) == i \in valid /\ nlink[i] = 0

Last(i) == ref[i] = 1 /\ i \in valid /\ nlink[i] = 0

\* ref--.  An entry that nobody uses loses I_VALID, as iget() clears it before
\* the entry is used again.
Drop(p, vl) ==
  LET i == Put(p)
      rest == [me[p] EXCEPT !.puts = Tail(@), !.freeing = FALSE] IN
  /\ ref' = [ref EXCEPT ![i] = @ - 1]
  /\ valid' = IF ref[i] = 1 THEN vl \ {i} ELSE vl
  /\ Set(p, IF rest.pc = "user" /\ rest.puts = <<>> THEN Idle ELSE rest)

iput(p) ==
  /\ panicked = None /\ me[p].puts # <<>> /\ ~me[p].freeing
  /\ ~Last(Put(p))
  /\ Drop(p, valid)
  /\ UNCHANGED <<fs, busy, trans, cwd, file, panicked, hist>>

\* The last reference to an inode without links: itrunc() and iupdate() with
\* I_BUSY set.  log_write() panics when no transaction is open, and joins one
\* of another process.
iput_free(p) ==
  /\ panicked = None /\ me[p].puts # <<>> /\ ~me[p].freeing
  /\ LET i == Put(p) IN
     /\ Last(i)
     /\ IF busy[i] # None
          THEN panicked' = "iput busy" /\ UNCHANGED <<fs, busy, me, hist>>
        ELSE IF trans = None
          THEN panicked' = "write outside of trans" /\ UNCHANGED <<fs, busy, me, hist>>
        ELSE /\ type' = [type EXCEPT ![i] = 0]
             /\ ent' = [ent EXCEPT ![i] = NoEntries]
             /\ busy' = [busy EXCEPT ![i] = p]
             /\ Set(p, [me[p] EXCEPT !.freeing = TRUE])
             /\ dangling' = (dangling \/ \E d \in Inum \ {i}, n \in Entry : ent[d][n] = i)
             /\ UNCHANGED <<nlink, orphaned, panicked>>
  /\ UNCHANGED <<ref, valid, trans, cwd, file>>

\* flags = 0, wakeup() and ref--; ialloc() may have taken the inode meanwhile.
iput_freed(p) ==
  /\ panicked = None /\ me[p].freeing
  /\ busy' = [busy EXCEPT ![Put(p)] = None]
  /\ Drop(p, valid \ {Put(p)})
  /\ UNCHANGED <<fs, trans, cwd, file, panicked, hist>>

-----------------------------------------------------------------------------
(* namex() and the transaction                                             *)

Failed(r) == [Idle EXCEPT !.pc = AfterFailure(r.op), !.puts = <<r.ip>>, !.tgt = r.tgt]

\* namex() of path q begins: iget() of the root or idup() of the current
\* directory.  The parent of an empty path is not found.
Start(p, q, op, tgt) ==
  LET i == IF q.abs THEN ROOTINO ELSE cwd[p]
      r == [Idle EXCEPT !.op = op, !.pc = "namex", !.todo = q.elems, !.ip = i, !.tgt = tgt] IN
  /\ ref' = [ref EXCEPT ![i] = @ + 1]
  /\ Set(p, IF q.elems # <<>> THEN r
            ELSE IF op \in WantsParent THEN Failed(r)
            ELSE [r EXCEPT !.pc = AfterNamex(op)])

\* A system call begins with namex(), or with begin_trans().
Call(p, op) ==
  /\ At(p, "user")
  /\ \E q \in Path : Start(p, q, op, 0)
  /\ UNCHANGED <<fs, valid, busy, trans, cwd, file, panicked, hist>>

CallTrans(p, op) ==
  /\ At(p, "user")
  /\ Set(p, [Idle EXCEPT !.op = op, !.pc = "begin"])
  /\ UNCHANGED <<fs, ref, valid, busy, trans, cwd, file, panicked, hist>>

\* sys_close() of the last descriptor: fileclose()
close(p) ==
  /\ At(p, "user") /\ file[p] # 0
  /\ file' = [file EXCEPT ![p] = 0]
  /\ Set(p, [Idle EXCEPT !.op = "close", !.pc = "begin", !.ip = file[p]])
  /\ UNCHANGED <<fs, ref, valid, busy, trans, cwd, panicked, hist>>

begin_trans(p) ==
  /\ At(p, "begin") /\ trans = None
  /\ trans' = p
  /\ \/ /\ me[p].op = "close"
        /\ Set(p, [Idle EXCEPT !.pc = "commit", !.puts = <<me[p].ip>>])
        /\ UNCHANGED ref
     \/ /\ me[p].op \in {"link", "unlink"}
        /\ Set(p, [me[p] EXCEPT !.pc = me[p].op])
        /\ UNCHANGED ref
     \/ /\ me[p].op \in {"create", "mkdir"}
        /\ \E q \in Path : Start(p, q, me[p].op, 0)
  /\ UNCHANGED <<fs, valid, busy, cwd, file, panicked, hist>>

\* sys_open(O_CREATE) goes on with the inode that create() returned, locked.
commit_trans(p) ==
  /\ At(p, "commit")
  /\ trans' = None
  /\ Set(p, IF me[p].ip # 0 THEN [me[p] EXCEPT !.pc = "created"] ELSE Idle)
  /\ UNCHANGED <<fs, ref, valid, busy, cwd, file, panicked, hist>>

\* One turn of the loop of namex(): ilock(), dirlookup() and iunlock().
namex(p) ==
  /\ At(p, "namex") /\ CanLock(me[p].ip)
  /\ LET i == me[p].ip
         name == Head(me[p].todo)
         rest == Tail(me[p].todo)
         next == ent[i][name] IN
     IF NoType(i) THEN ilock_panics
     ELSE /\ valid' = valid \cup {i}
          /\ IF type[i] = T_DIR /\ rest = <<>> /\ me[p].op \in WantsParent
               THEN /\ Set(p, [me[p] EXCEPT !.pc = AfterNamex(me[p].op), !.name = name, !.todo = <<>>])
                    /\ UNCHANGED ref
             ELSE IF type[i] # T_DIR \/ next = 0
               THEN Set(p, Failed(me[p])) /\ UNCHANGED ref
             ELSE /\ ref' = [ref EXCEPT ![next] = @ + 1]
                  /\ Set(p, [me[p] EXCEPT !.ip = next, !.todo = rest, !.puts = <<i>>,
                                          !.pc = IF rest = <<>> THEN AfterNamex(me[p].op) ELSE @])
          /\ UNCHANGED <<fs, busy, cwd, file, panicked, hist>>
  /\ UNCHANGED trans

-----------------------------------------------------------------------------
(* sysfile.c                                                               *)

\* A call ends, or reaches commit_trans(), after some iput().
Done(p, l, puts) == Set(p, [Idle EXCEPT !.pc = l, !.puts = puts])

\* sys_open() with its inode: filealloc() and fdalloc() give it a descriptor,
\* or it is given back.
Descriptor(p, i) ==
  \/ file[p] = 0 /\ file' = [file EXCEPT ![p] = i] /\ Set(p, Idle)
  \/ Done(p, "user", <<i>>) /\ UNCHANGED file

open(p) ==
  /\ At(p, "open") /\ CanLock(me[p].ip)
  /\ IF NoType(me[p].ip) THEN ilock_panics
     ELSE /\ valid' = valid \cup {me[p].ip}
          /\ Descriptor(p, me[p].ip)
          /\ UNCHANGED <<fs, ref, busy, cwd, panicked, hist>>
  /\ UNCHANGED trans

open_created(p) ==
  /\ At(p, "created")
  /\ busy' = [busy EXCEPT ![me[p].ip] = None]
  /\ Descriptor(p, me[p].ip)
  /\ UNCHANGED <<fs, ref, valid, trans, cwd, panicked, hist>>

\* Mutant: the old directory is not given back.
chdir_keep(p) ==
  /\ At(p, "chdir") /\ CanLock(me[p].ip)
  /\ valid' = valid \cup {me[p].ip}
  /\ Set(p, [me[p] EXCEPT !.pc = "chdir_set"])
  /\ UNCHANGED <<fs, ref, busy, trans, cwd, file, panicked, hist>>

\* sys_chdir(): no transaction around the iput() of the old directory.
chdir(p) ==
  /\ At(p, "chdir") /\ CanLock(me[p].ip)
  /\ IF NoType(me[p].ip) THEN ilock_panics
     ELSE /\ valid' = valid \cup {me[p].ip}
          /\ IF type[me[p].ip] # T_DIR
               THEN Done(p, "user", <<me[p].ip>>)
               ELSE Set(p, [me[p] EXCEPT !.pc = "chdir_set", !.puts = <<cwd[p]>>])
          /\ UNCHANGED <<fs, ref, busy, cwd, file, panicked, hist>>
  /\ UNCHANGED trans

\* proc->cwd = ip; until then it points to the directory that is given back.
chdir_set(p) ==
  /\ At(p, "chdir_set")
  /\ cwd' = [cwd EXCEPT ![p] = me[p].ip]
  /\ Set(p, Idle)
  /\ UNCHANGED <<fs, ref, valid, busy, trans, file, panicked, hist>>

\* create(): ilock(dp) and dirlookup().  A new inode is allocated on disk
\* while dp stays locked.
create(p) ==
  /\ At(p, "create") /\ CanLock(me[p].ip)
  /\ LET dp == me[p].ip
         next == ent[dp][me[p].name]
         unused == {i \in Inum : type[i] = 0} IN
     \/ /\ next # 0
        /\ ref' = [ref EXCEPT ![next] = @ + 1]
        /\ Set(p, [me[p] EXCEPT !.pc = "create_found", !.ip = next, !.puts = <<dp>>])
        /\ UNCHANGED <<fs, busy, panicked>>
     \/ /\ next = 0 /\ unused = {}
        /\ panicked' = "ialloc: no inodes"
        /\ UNCHANGED <<fs, ref, busy, me>>
     \/ /\ next = 0 /\ unused # {}
        /\ LET f == CHOOSE i \in unused : \A j \in unused : i <= j IN
             /\ type' = [type EXCEPT ![f] = IF me[p].op = "mkdir" THEN T_DIR ELSE T_FILE]
             /\ ref' = [ref EXCEPT ![f] = @ + 1]
             /\ Set(p, [me[p] EXCEPT !.pc = "create_new", !.tgt = f])
        /\ busy' = [busy EXCEPT ![dp] = p]
        /\ UNCHANGED <<nlink, ent, panicked>>
  /\ UNCHANGED <<valid, trans, cwd, file, hist>>

\* The name exists: sys_open() takes a file, everybody else fails.
create_found(p) ==
  /\ At(p, "create_found") /\ CanLock(me[p].ip)
  /\ IF NoType(me[p].ip) THEN ilock_panics
     ELSE /\ valid' = valid \cup {me[p].ip}
          /\ IF me[p].op = "create" /\ type[me[p].ip] = T_FILE
               THEN /\ busy' = [busy EXCEPT ![me[p].ip] = p]
                    /\ Set(p, [Idle EXCEPT !.pc = "commit", !.ip = me[p].ip])
               ELSE Done(p, "commit", <<me[p].ip>>) /\ UNCHANGED busy
          /\ UNCHANGED <<fs, ref, cwd, file, panicked, hist>>
  /\ UNCHANGED trans

\* ilock(ip), the links and the entries.  sys_open() keeps the new inode
\* locked; sys_mkdir() and sys_mknod() give it back.
create_new(p) ==
  /\ At(p, "create_new") /\ CanLock(me[p].tgt)
  /\ LET dp == me[p].ip
         f == me[p].tgt
         dir == type[f] = T_DIR
         keep == me[p].op = "create" IN
     /\ valid' = valid \cup {f}
     /\ nlink' = [nlink EXCEPT ![f] = 1, ![dp] = IF dir THEN @ + 1 ELSE @]
     /\ ent' = [ent EXCEPT ![dp][me[p].name] = f, ![f][".."] = IF dir THEN dp ELSE 0]
     /\ orphaned' = (orphaned \/ nlink[dp] = 0)
     /\ busy' = [busy EXCEPT ![dp] = None, ![f] = IF keep THEN p ELSE None]
     /\ IF keep THEN Set(p, [Idle EXCEPT !.pc = "commit", !.puts = <<dp>>, !.ip = f])
                ELSE Done(p, "commit", <<dp, f>>)
  /\ UNCHANGED <<type, ref, trans, cwd, file, panicked, dangling>>

\* sys_link(), in its transaction: the old file gets one more link, and the
\* walk to the new name begins.
link(p) ==
  /\ At(p, "link") /\ CanLock(me[p].ip)
  /\ IF NoType(me[p].ip) THEN ilock_panics
     ELSE /\ valid' = valid \cup {me[p].ip}
          /\ \/ /\ type[me[p].ip] = T_DIR
                /\ Done(p, "commit", <<me[p].ip>>)
                /\ UNCHANGED <<nlink, ref>>
             \/ /\ type[me[p].ip] # T_DIR
                /\ nlink' = [nlink EXCEPT ![me[p].ip] = @ + 1]
                /\ \E q \in Path : Start(p, q, "link2", me[p].ip)
          /\ UNCHANGED <<type, ent, busy, cwd, file, panicked, hist>>
  /\ UNCHANGED trans

\* dirlink() of the new name.
link_new(p) ==
  /\ At(p, "link2") /\ CanLock(me[p].ip)
  /\ LET dp == me[p].ip
         next == ent[dp][me[p].name] IN
     IF next # 0
       THEN /\ ref' = [ref EXCEPT ![next] = @ + 1]
            /\ Set(p, [Idle EXCEPT !.pc = "link_bad", !.puts = <<next, dp>>, !.tgt = me[p].tgt])
            /\ UNCHANGED <<ent, orphaned>>
       ELSE /\ ent' = [ent EXCEPT ![dp][me[p].name] = me[p].tgt]
            /\ orphaned' = (orphaned \/ nlink[dp] = 0)
            /\ Done(p, "commit", <<dp, me[p].tgt>>)
            /\ UNCHANGED ref
  /\ UNCHANGED <<type, nlink, valid, busy, trans, cwd, file, panicked, dangling>>

\* Mutant: the link that was counted is not taken back.
link_bad_keep(p) ==
  /\ At(p, "link_bad") /\ CanLock(me[p].tgt)
  /\ Done(p, "commit", <<me[p].tgt>>)
  /\ UNCHANGED <<fs, ref, valid, busy, trans, cwd, file, panicked, hist>>

\* "bad:" of sys_link()
link_bad(p) ==
  /\ At(p, "link_bad") /\ CanLock(me[p].tgt)
  /\ nlink' = [nlink EXCEPT ![me[p].tgt] = @ - 1]
  /\ Done(p, "commit", <<me[p].tgt>>)
  /\ UNCHANGED <<type, ent, ref, valid, busy, trans, cwd, file, panicked, hist>>

\* sys_unlink(): ilock(dp) and dirlookup().
unlink(p) ==
  /\ At(p, "unlink") /\ CanLock(me[p].ip)
  /\ LET dp == me[p].ip
         next == ent[dp][me[p].name] IN
     IF me[p].name = ".." \/ next = 0
       THEN Done(p, "commit", <<dp>>) /\ UNCHANGED <<ref, busy>>
       ELSE /\ ref' = [ref EXCEPT ![next] = @ + 1]
            /\ busy' = [busy EXCEPT ![dp] = p]
            /\ Set(p, [me[p] EXCEPT !.pc = "unlink_ip", !.tgt = next])
  /\ UNCHANGED <<fs, valid, trans, cwd, file, panicked, hist>>

\* ilock(ip), and both inodes change.
unlink_ip(p) ==
  /\ At(p, "unlink_ip") /\ CanLock(me[p].tgt)
  /\ LET dp == me[p].ip
         ip == me[p].tgt
         dir == type[ip] = T_DIR IN
     IF NoType(ip) THEN ilock_panics
     ELSE IF nlink[ip] < 1
       THEN panicked' = "unlink: nlink < 1" /\ UNCHANGED <<fs, ref, valid, busy, cwd, file, me, hist>>
     ELSE /\ valid' = valid \cup {ip}
          /\ busy' = [busy EXCEPT ![dp] = None]
          /\ IF dir /\ ~isdirempty(ip)
               THEN Done(p, "commit", <<ip, dp>>) /\ UNCHANGED <<nlink, ent>>
               ELSE /\ ent' = [ent EXCEPT ![dp][me[p].name] = 0]
                    /\ nlink' = [nlink EXCEPT ![ip] = @ - 1, ![dp] = IF dir THEN @ - 1 ELSE @]
                    /\ Done(p, "commit", <<dp, ip>>)
          /\ UNCHANGED <<type, ref, cwd, file, panicked, hist>>
  /\ UNCHANGED trans

\* panic() never returns.
halt == panicked # None /\ UNCHANGED vars

-----------------------------------------------------------------------------
Next ==
  \/ \E p \in Proc :
       \/ \E op \in {"open", "link", "unlink", "chdir"} : Call(p, op)
       \/ \E op \in {"create", "mkdir"} : CallTrans(p, op)
       \/ close(p)
       \/ begin_trans(p)
       \/ commit_trans(p)
       \/ iput(p)
       \/ iput_free(p)
       \/ iput_freed(p)
       \/ namex(p)
       \/ open(p)
       \/ open_created(p)
       \/ chdir(p)
       \/ chdir_set(p)
       \/ create(p)
       \/ create_found(p)
       \/ create_new(p)
       \/ link(p)
       \/ link_new(p)
       \/ link_bad(p)
       \/ unlink(p)
       \/ unlink_ip(p)
  \/ halt

Spec == Init /\ [][Next]_vars

-----------------------------------------------------------------------------
TypeOK ==
  /\ type \in [Inum -> {0, T_DIR, T_FILE}]
  /\ nlink \in [Inum -> Nat]
  /\ ent \in [Inum -> [Entry -> Inum \cup {0}]]
  /\ ref \in [Inum -> Nat]
  /\ valid \subseteq {i \in Inum : ref[i] > 0}
  /\ busy \in [Inum -> Proc \cup {None}]
  /\ trans \in Proc \cup {None}
  /\ cwd \in [Proc -> Inum]
  /\ file \in [Proc -> Inum \cup {0}]

\* ip->ref "tracks the number of in-memory pointers to the entry (open files
\* and current directories)": the pointers that calls under way hold included,
\* on every success and error path (proc->cwd is no such pointer while
\* sys_chdir() gives it back).
InodeRefExact ==
  /\ TypeOK
  /\ \A i \in Inum : ref[i] =
    Cardinality({p \in Proc : cwd[p] = i /\ me[p].pc # "chdir_set"}) + Cardinality({p \in Proc : file[p] = i})
    + Cardinality({p \in Proc : me[p].ip = i}) + Cardinality({p \in Proc : me[p].tgt = i})
    + Cardinality({<<p, k>> \in Proc \X (1 .. 2) : k <= Len(me[p].puts) /\ me[p].puts[k] = i})

\* Between transactions nlink is the number of entries that name the inode,
\* ".." counted for directories that are linked themselves: unless an entry
\* was made in a directory that had lost its own links.
LinksExact ==
  trans = None /\ panicked = None /\ ~orphaned /\ ~dangling =>
    \A i \in Inum : type[i] # 0 =>
      nlink[i] = Cardinality({<<d, n>> \in Inum \X Name : ent[d][n] = i})
                 + Cardinality({d \in Inum : type[d] = T_DIR /\ nlink[d] > 0 /\ ent[d][".."] = i})

\* An inode somebody holds a pointer to is allocated on disk, so that the
\* pointer remains valid when its file or directory is removed meanwhile; the
\* process that frees it is the exception.
HeldIsAllocated ==
  ~dangling => \A i \in Inum : ref[i] > 0 =>
    type[i] # 0 \/ \E p \in Proc : me[p].freeing /\ Put(p) = i

\* iput(): "If that was the last reference and the inode has no links to it,
\* free the inode (and its content) on disk".  An inode is allocated exactly
\* while it has a link or a user, whichever of the calls that race for it
\* drops it last; so ilock() finds a type in it, iput() finds it unlocked and
\* sys_unlink() finds a link to take back.
AllocatedWhileUsed ==
  /\ HeldIsAllocated
  /\ \A i \in Inum : type[i] # 0 /\ nlink[i] = 0 => ref[i] > 0
  /\ panicked \in {"ilock: no type", "iput busy", "unlink: nlink < 1"} => dangling

\* The comment on itrunc(): "Only called when the inode has no links to it (no
\* directory entries referring to it) and has no in-memory reference to it".
TruncUnreferenced == ~dangling
=============================================================================
