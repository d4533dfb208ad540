-------------------------------- MODULE Pipe --------------------------------
(***************************************************************************)
(* One pipe of pipe.c, used by the processes that share its two ends: the  *)
(* ring buffer with its wrapping counters, the sleeps and wakeups between  *)
(* readers and writers, kill(), and the closes that free it.               *)
(*                                                                         *)
(* lk is the holder of p->lock.  On the one CPU a lock holder runs with    *)
(* interrupts masked (module Sched), so while lk is taken only its holder  *)
(* moves.  sleep() gives up the lock and the CPU in one step, because it   *)
(* holds ptable.lock in between.                                           *)
(***************************************************************************)
EXTENDS Integers, Sequences, FiniteSets

CONSTANTS
  Proc,        \* processes
  Byte,        \* contents of a byte
  PIPESIZE,    \* bytes in the ring
  UINT,        \* number of values of the uint counters: 2^32 in the code
  MaxN,        \* bound on the length of one read or write
  None         \* no process

ASSUME PipeAssumption ==
  /\ PIPESIZE \in Nat \ {0} /\ UINT \in Nat /\ UINT > PIPESIZE /\ UINT % PIPESIZE = 0
  /\ MaxN \in Nat
  /\ None \notin Proc

VARIABLES
  data,        \* p->data
  nread, nwrite,
  readopen, writeopen,
  freed,       \* kfree(p) was called
  lk,          \* holder of p->lock, or None
  fds,         \* fds[p]: the ends p has open, "r" and "w"
  killed,      \* proc->killed
  pc,          \* where each process is in pipewrite() or piperead()
  left,        \* n - i
  got,         \* the last byte piperead() returned
  aborted      \* history: a killed writer gave up on a full ring

pipeVars == <<data, nread, nwrite, readopen, writeopen, freed>>
vars == <<pipeVars, lk, fds, killed, pc, left, got, aborted>>

\* Mutant: the sum is not reduced to a uint.
Full_wide == nwrite = nread + PIPESIZE

Full == nwrite = (nread + PIPESIZE) % UINT
Empty == nread = nwrite

\* pipealloc(): one process has both ends.
Init ==
  /\ data \in [0 .. PIPESIZE - 1 -> Byte]
  /\ nread = 0 /\ nwrite = 0
  /\ readopen = 1 /\ writeopen = 1
  /\ freed = FALSE
  /\ lk = None
  /\ \E p \in Proc : fds = [q \in Proc |-> IF q = p THEN {"r", "w"} ELSE {}]
  /\ killed = [p \in Proc |-> 0]
  /\ pc = [p \in Proc |-> "idle"]
  /\ left = [p \in Proc |-> 0]
  /\ got \in Byte
  /\ aborted = FALSE

-----------------------------------------------------------------------------
(* proc.c, as far as pipes are concerned.                                  *)

\* fork(): the child q gets the ends of p (filedup).
fork(p, q) ==
  /\ lk = None
  /\ pc[p] = "idle" /\ killed[p] = 0
  /\ pc[q] = "idle"
  /\ fds[p] # {} /\ fds[q] = {}
  /\ fds' = [fds EXCEPT ![q] = fds[p]]
  /\ killed' = [killed EXCEPT ![q] = 0]
  /\ UNCHANGED <<pipeVars, lk, pc, left, got, aborted>>

\* wakeup(chan): chan is "rsleep" for &p->nread and "wsleep" for &p->nwrite.
wakeup(chan) ==
  [p \in Proc |-> IF pc[p] = chan THEN IF chan = "rsleep" THEN "rlock" ELSE "wlock"
                  ELSE pc[p]]

kill(p) ==
  /\ lk = None
  /\ fds[p] # {}
  /\ killed' = [killed EXCEPT ![p] = 1]
  /\ pc' = [pc EXCEPT ![p] = IF @ = "rsleep" THEN "rlock"
                             ELSE IF @ = "wsleep" THEN "wlock" ELSE @]
  /\ UNCHANGED <<pipeVars, lk, fds, left, got, aborted>>

\* sleep(chan, &p->lock).
sleep(p) ==
  /\ lk = p
  /\ pc[p] \in {"rwait", "wwait"}
  /\ lk' = None
  /\ pc' = [pc EXCEPT ![p] = IF @ = "rwait" THEN "rsleep" ELSE "wsleep"]
  /\ UNCHANGED <<pipeVars, fds, killed, left, got, aborted>>

-----------------------------------------------------------------------------
(* pipe.c.                                                                 *)

\* Mutant: pipeclose() frees the pipe when either end is closed.
pipeclose_either(p, end) ==
  /\ lk = None
  /\ pc[p] = "idle"
  /\ end \in fds[p]
  /\ fds' = [fds EXCEPT ![p] = @ \ {end}]
  /\ freed' = (\A q \in Proc \ {p} : end \notin fds[q])
  /\ UNCHANGED <<data, nread, nwrite, readopen, writeopen, lk, killed, pc, left, got, aborted>>

\* Mutant: pipeclose() wakes the writers only.
pipeclose_silent(p, end) ==
  /\ lk = None
  /\ pc[p] = "idle"
  /\ end \in fds[p]
  /\ fds' = [fds EXCEPT ![p] = @ \ {end}]
  /\ writeopen' = IF \E q \in Proc : "w" \in fds'[q] THEN 1 ELSE 0
  /\ readopen' = IF \E q \in Proc : "r" \in fds'[q] THEN 1 ELSE 0
  /\ pc' = IF readopen' = 0 THEN wakeup("wsleep") ELSE pc
  /\ UNCHANGED <<data, nread, nwrite, freed, lk, killed, left, got, aborted>>

\* close(), or exit() of a killed process: the last fileclose() of an end calls pipeclose().
pipeclose(p, end) ==
  /\ lk = None
  /\ pc[p] = "idle"
  /\ end \in fds[p]
  /\ fds' = [fds EXCEPT ![p] = @ \ {end}]
  /\ IF \E q \in Proc \ {p} : end \in fds[q]
       THEN UNCHANGED <<pipeVars, pc>>
       ELSE /\ writeopen' = IF end = "w" THEN 0 ELSE writeopen
            /\ readopen' = IF end = "r" THEN 0 ELSE readopen
            /\ pc' = wakeup(IF end = "w" THEN "rsleep" ELSE "wsleep")
            /\ freed' = (readopen' = 0 /\ writeopen' = 0)
            /\ UNCHANGED <<data, nread, nwrite>>
  /\ UNCHANGED <<lk, killed, left, got, aborted>>

\* write() and read() reach acquire(&p->lock).  trap() let the caller in
\* because it was not killed; it may be killed before it gets the lock.
pipewrite(p, n) ==
  /\ lk = None
  /\ pc[p] = "idle" /\ "w" \in fds[p] /\ killed[p] = 0
  /\ pc' = [pc EXCEPT ![p] = "wlock"]
  /\ left' = [left EXCEPT ![p] = n]
  /\ UNCHANGED <<pipeVars, lk, fds, killed, got, aborted>>

piperead(p, n) ==
  /\ lk = None
  /\ pc[p] = "idle" /\ "r" \in fds[p] /\ killed[p] = 0
  /\ pc' = [pc EXCEPT ![p] = "rlock"]
  /\ left' = [left EXCEPT ![p] = n]
  /\ UNCHANGED <<pipeVars, lk, fds, killed, got, aborted>>

\* acquire(&p->lock), at the start of a call and at the end of sleep().
acquire(p) ==
  /\ lk = None
  /\ pc[p] \in {"rlock", "wlock"}
  /\ lk' = p
  /\ pc' = [pc EXCEPT ![p] = IF @ = "rlock" THEN "read" ELSE "write"]
  /\ UNCHANGED <<pipeVars, fds, killed, left, got, aborted>>

\* The ring is full: give up, or wake the readers and sleep.
pipewrite_full(p) ==
  /\ lk = p
  /\ pc[p] = "write"
  /\ left[p] > 0
  /\ Full
  /\ IF readopen = 0 \/ killed[p] = 1
       THEN lk' = None /\ pc' = [pc EXCEPT ![p] = "idle"]
       ELSE lk' = lk /\ pc' = [wakeup("rsleep") EXCEPT ![p] = "wwait"]
  /\ aborted' = (aborted \/ killed[p] = 1)
  /\ UNCHANGED <<pipeVars, fds, killed, left, got>>

pipewrite_byte(p, d) ==
  /\ lk = p
  /\ pc[p] = "write"
  /\ left[p] > 0
  /\ ~Full
  /\ data' = [data EXCEPT ![nwrite % PIPESIZE] = d]
  /\ nwrite' = (nwrite + 1) % UINT
  /\ left' = [left EXCEPT ![p] = @ - 1]
  /\ UNCHANGED <<nread, readopen, writeopen, freed, lk, fds, killed, pc, got, aborted>>

pipewrite_end(p) ==
  /\ lk = p
  /\ pc[p] = "write"
  /\ left[p] = 0
  /\ pc' = [wakeup("rsleep") EXCEPT ![p] = "idle"]
  /\ lk' = None
  /\ UNCHANGED <<pipeVars, fds, killed, left, got, aborted>>

\* Nothing to read yet: give up, or sleep.
piperead_empty(p) ==
  /\ lk = p
  /\ pc[p] = "read"
  /\ Empty /\ writeopen = 1
  /\ IF killed[p] = 1
       THEN lk' = None /\ pc' = [pc EXCEPT ![p] = "idle"]
       ELSE lk' = lk /\ pc' = [pc EXCEPT ![p] = "rwait"]
  /\ UNCHANGED <<pipeVars, fds, killed, left, got, aborted>>

\* Behind the waiting loop.
piperead_copy(p) ==
  /\ lk = p
  /\ pc[p] = "read"
  /\ ~(Empty /\ writeopen = 1)
  /\ pc' = [pc EXCEPT ![p] = "copy"]
  /\ UNCHANGED <<pipeVars, lk, fds, killed, left, got, aborted>>

piperead_byte(p) ==
  /\ lk = p
  /\ pc[p] = "copy"
  /\ left[p] > 0 /\ ~Empty
  /\ got' = data[nread % PIPESIZE]
  /\ nread' = (nread + 1) % UINT
  /\ left' = [left EXCEPT ![p] = @ - 1]
  /\ UNCHANGED <<data, nwrite, readopen, writeopen, freed, lk, fds, killed, pc, aborted>>

\* Mutant: no wakeup(&p->nwrite).
piperead_end_silent(p) ==
  /\ lk = p
  /\ pc[p] = "copy"
  /\ left[p] = 0 \/ Empty
  /\ pc' = [pc EXCEPT ![p] = "idle"]
  /\ lk' = None
  /\ UNCHANGED <<pipeVars, fds, killed, left, got, aborted>>

piperead_end(p) ==
  /\ lk = p
  /\ pc[p] = "copy"
  /\ left[p] = 0 \/ Empty
  /\ pc' = [wakeup("wsleep") EXCEPT ![p] = "idle"]
  /\ lk' = None
  /\ UNCHANGED <<pipeVars, fds, killed, left, got, aborted>>

-----------------------------------------------------------------------------
\* One turn of a process inside a call.
Continue(p) ==
  \/ sleep(p)
  \/ acquire(p)
  \/ pipewrite_full(p)
  \/ \E d \in Byte : pipewrite_byte(p, d)
  \/ pipewrite_end(p)
  \/ piperead_empty(p)
  \/ piperead_copy(p)
  \/ piperead_byte(p)
  \/ piperead_end(p)

Next ==
  \/ \E p, q \in Proc : fork(p, q)
  \/ \E p \in Proc : kill(p)
  \/ \E p \in Proc, end \in {"r", "w"} : pipeclose(p, end)
  \/ \E p \in Proc, n \in 0 .. MaxN : pipewrite(p, n) \/ piperead(p, n)
  \/ \E p \in Proc : Continue(p)

Spec == Init /\ [][Next]_vars

\* A process inside a call gets the CPU again and again (Sched!RunnableRuns).
Fairness == \A p \in Proc : SF_vars(Continue(p))

FairSpec == Spec /\ Fairness

-----------------------------------------------------------------------------
TypeOK ==
  /\ data \in [0 .. PIPESIZE - 1 -> Byte]
  /\ nread \in 0 .. UINT - 1 /\ nwrite \in 0 .. UINT - 1
  /\ readopen \in {0, 1} /\ writeopen \in {0, 1}
  /\ freed \in BOOLEAN /\ aborted \in BOOLEAN
  /\ lk \in Proc \cup {None}
  /\ fds \in [Proc -> SUBSET {"r", "w"}]
  /\ killed \in [Proc -> {0, 1}]
  /\ pc \in [Proc -> {"idle", "read", "rwait", "rsleep", "rlock", "copy",
                      "write", "wwait", "wsleep", "wlock"}]
  /\ left \in [Proc -> 0 .. MaxN]
  /\ got \in Byte

\* The bytes in the ring, oldest first.
Count == (nwrite - nread) % UINT
Contents == [i \in 1 .. Count |-> data[(nread + i - 1) % PIPESIZE]]

\* pipe.c as a whole: across the wraparound of the uint counters and any
\* interleaving of readers, writers, kills and closes, the pipe is a queue of
\* at most PIPESIZE bytes.
Queue == INSTANCE Channel WITH q <- Contents, Cap <- PIPESIZE,
                               rend <- readopen, wend <- writeopen
FifoChannel == Queue!Spec

\* Whoever sleeps has a reason to: once p->lock is free, a writer sleeps only
\* while the ring is full, a reader only while it is empty, each only while the
\* other end is open and the sleeper was not killed.  A killed writer may have
\* left bytes for which it woke nobody.
NoLostWakeup ==
  lk = None => \A p \in Proc :
    /\ pc[p] = "rsleep" => writeopen = 1 /\ killed[p] = 0 /\ (Empty \/ aborted)
    /\ pc[p] = "wsleep" => readopen = 1 /\ killed[p] = 0 /\ Full

\* pipeclose(): the pipe is freed exactly when nobody can reach it any more,
\* so no call touches it afterwards.
FreedUnreachable ==
  /\ TypeOK
  /\ freed <=> \A p \in Proc : fds[p] = {} /\ pc[p] = "idle"

\* A reader gets its end of file once the last write end is closed, and a
\* killed process leaves the pipe, even one that was asleep in it.
WaitsEnd ==
  \A p \in Proc :
    (writeopen = 0 /\ pc[p] \in {"read", "rsleep", "rlock"}) \/ killed[p] = 1 ~> pc[p] = "idle"
=============================================================================
