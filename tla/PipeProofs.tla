----------------------------- MODULE PipeProofs -----------------------------
(***************************************************************************)
(* Proofs about Pipe, for any processes, bytes, size of the ring and       *)
(* number of values of the counters: that the pipe is freed exactly when   *)
(* it is unreachable, that nobody sleeps without a reason, and that Pipe   *)
(* implements Channel.                                                     *)
(***************************************************************************)
EXTENDS Pipe, SequenceTheorems, TLAPS

-----------------------------------------------------------------------------
(* The counters: they count modulo UINT, and the ring is addressed modulo  *)
(* PIPESIZE.                                                               *)

\* Division with remainder.
LEMMA DivMod ==
  ASSUME NEW n \in Nat \ {0}, NEW x \in Int
  PROVE  /\ x = n * (x \div n) + (x % n)
         /\ x \div n \in Int
         /\ x % n \in 0 .. n - 1
<1>1. n \in Int /\ n > 0
  OBVIOUS
<1>2. x = n * (x \div n) + (x % n)
  BY <1>1
<1>3. x % n \in 0 .. n - 1 /\ x \div n \in Int
  BY <1>1
<1> QED
  BY <1>2, <1>3

\* Adding a multiple of n does not change the remainder.
LEMMA ModAddMultiple ==
  ASSUME NEW n \in Nat \ {0}, NEW k \in Int, NEW x \in Int
  PROVE  (x + k * n) % n = x % n
<1> DEFINE d == x \div n
           m == x % n
<1>1. x = n * d + m /\ d \in Int /\ m \in 0 .. n - 1
  BY DivMod
<1> HIDE DEF d, m
<1>2. x + k * n = (d + k) * n + m
  BY <1>1
<1>3. ((d + k) * n + m) % n = m
  BY <1>1
<1> QED
  BY <1>2, <1>3 DEF m

\* In particular adding n.
LEMMA ModAddN ==
  ASSUME NEW n \in Nat \ {0}, NEW x \in Int
  PROVE  (x + n) % n = x % n
<1>1. (x + 1 * n) % n = x % n
  BY ModAddMultiple, 1 \in Int
<1> QED
  BY <1>1

\* A value below n is its own remainder.
LEMMA ModSmall ==
  ASSUME NEW n \in Nat \ {0}, NEW x \in 0 .. n - 1
  PROVE  x % n = x
OBVIOUS

\* nwrite and nread go from UINT - 1 to 0.
LEMMA CounterNext ==
  ASSUME NEW n \in 0 .. UINT - 1
  PROVE  (n + 1) % UINT = IF n = UINT - 1 THEN 0 ELSE n + 1
<1>1. UINT \in Nat \ {0}
  BY PipeAssumption
<1>2. CASE n = UINT - 1
  <2>1. UINT % UINT = 0
    BY <1>1
  <2> QED
    BY <1>1, <1>2, <2>1
<1>3. CASE n # UINT - 1
  BY <1>1, <1>3, ModSmall, n + 1 \in 0 .. UINT - 1
<1> QED
  BY <1>2, <1>3

\* How far a counter w is ahead of a counter r.
LEMMA Difference ==
  ASSUME NEW r \in 0 .. UINT - 1, NEW w \in 0 .. UINT - 1
  PROVE  (w - r) % UINT = IF r <= w THEN w - r ELSE w - r + UINT
<1>1. UINT \in Nat \ {0}
  BY PipeAssumption
<1>2. CASE r <= w
  <2>1. w - r \in 0 .. UINT - 1
    BY <1>1, <1>2
  <2> QED
    BY <1>1, <1>2, <2>1, ModSmall
<1>3. CASE r > w
  <2>1. w - r + UINT \in 0 .. UINT - 1
    BY <1>1, <1>3
  <2>2. (w - r + UINT) % UINT = (w - r) % UINT
    BY <1>1, ModAddN, w - r \in Int
  <2> QED
    BY <1>1, <1>3, <2>1, <2>2, ModSmall
<1> QED
  BY <1>1, <1>2, <1>3

\* The number of bytes in the ring.
LEMMA CountValue ==
  ASSUME nread \in 0 .. UINT - 1, nwrite \in 0 .. UINT - 1
  PROVE  Count = IF nread <= nwrite THEN nwrite - nread ELSE nwrite - nread + UINT
BY Difference DEF Count

\* pipewrite()'s test for a full ring is right where the sum wraps as well.
LEMMA FullMeans ==
  ASSUME nread \in 0 .. UINT - 1, nwrite \in 0 .. UINT - 1
  PROVE  Full <=> Count = PIPESIZE
<1>1. UINT \in Nat \ {0} /\ PIPESIZE \in Nat \ {0} /\ PIPESIZE < UINT
  BY PipeAssumption
<1>2. CASE nread + PIPESIZE < UINT
  <2>1. (nread + PIPESIZE) % UINT = nread + PIPESIZE
    BY <1>1, <1>2, ModSmall, nread + PIPESIZE \in 0 .. UINT - 1
  <2> QED
    BY <1>1, <1>2, <2>1, CountValue DEF Full
<1>3. CASE nread + PIPESIZE >= UINT
  <2> DEFINE x == nread + PIPESIZE - UINT
  <2>1. x \in 0 .. UINT - 1
    BY <1>1, <1>3
  <2>2. nread + PIPESIZE = x + UINT
    BY <1>1
  <2> HIDE DEF x
  <2>3. x % UINT = x
    BY <1>1, <2>1, ModSmall
  <2>4. (x + UINT) % UINT = x % UINT
    BY <1>1, <2>1, ModAddN, x \in Int
  <2>5. (nread + PIPESIZE) % UINT = nread + PIPESIZE - UINT
    BY <1>1, <2>1, <2>2, <2>3, <2>4
  <2> QED
    BY <1>1, <1>3, <2>5, CountValue DEF Full
<1> QED
  BY <1>1, <1>2, <1>3

\* A counter that wraps goes on at the next place of the ring, because UINT
\* is a multiple of PIPESIZE.
LEMMA RingWrap ==
  ASSUME NEW x \in Int
  PROVE  (x + UINT) % PIPESIZE = x % PIPESIZE
<1> DEFINE k == UINT \div PIPESIZE
<1>1. UINT \in Nat /\ PIPESIZE \in Nat \ {0} /\ UINT % PIPESIZE = 0
  BY PipeAssumption
<1>2. k \in Int /\ UINT = PIPESIZE * k + (UINT % PIPESIZE)
  BY <1>1, UINT \in Int, DivMod
<1> HIDE DEF k
<1>3. UINT = k * PIPESIZE
  <2>1. UINT = PIPESIZE * k
    BY <1>1, <1>2
  <2>2. PIPESIZE * k = k * PIPESIZE
    BY <1>1, <1>2
  <2> QED
    BY <2>1, <2>2
<1>4. (x + k * PIPESIZE) % PIPESIZE = x % PIPESIZE
  BY Zenon, <1>1, <1>2, ModAddMultiple
<1> QED
  BY <1>3, <1>4

\* Fewer than PIPESIZE apart, two bytes are in different places.
LEMMA RingDistinct ==
  ASSUME NEW x \in Int, NEW j \in 1 .. PIPESIZE - 1
  PROVE  x % PIPESIZE # (x + j) % PIPESIZE
<1> DEFINE d == x \div PIPESIZE
           e == (x + j) \div PIPESIZE
           m == x % PIPESIZE
<1>1. PIPESIZE \in Nat \ {0}
  BY PipeAssumption
<1>2. x = PIPESIZE * d + m /\ d \in Int /\ m \in 0 .. PIPESIZE - 1
  BY <1>1, DivMod
<1>3. x + j = PIPESIZE * e + ((x + j) % PIPESIZE) /\ e \in Int
  BY <1>1, DivMod, x + j \in Int
<1> SUFFICES ASSUME (x + j) % PIPESIZE = m PROVE FALSE
  OBVIOUS
<1> HIDE DEF d, e, m
<1>4. j = PIPESIZE * (e - d)
  BY <1>1, <1>2, <1>3
<1>5. CASE e - d <= 0
  <2>1. PIPESIZE * (e - d) <= 0
    BY <1>1, <1>2, <1>3, <1>5
  <2> QED
    BY <1>4, <2>1
<1>6. CASE e - d >= 1
  <2>1. PIPESIZE * (e - d) >= PIPESIZE
    BY <1>1, <1>2, <1>3, <1>6
  <2> QED
    BY <1>1, <1>4, <2>1
<1> QED
  BY <1>2, <1>3, <1>5, <1>6

\* The place after the last byte is where the next one goes.
LEMMA RingEnd ==
  ASSUME nread \in 0 .. UINT - 1, nwrite \in 0 .. UINT - 1
  PROVE  nwrite % PIPESIZE = (nread + Count) % PIPESIZE
<1>1. UINT \in Nat
  BY PipeAssumption
<1>2. CASE nread <= nwrite
  BY <1>2, CountValue
<1>3. CASE nread > nwrite
  BY <1>1, <1>3, CountValue, RingWrap, nwrite \in Int, nread + Count = nwrite + UINT
<1> QED
  BY <1>2, <1>3

-----------------------------------------------------------------------------
(* The invariant.                                                          *)

Reading == {"read", "rwait", "rsleep", "rlock", "copy"}
Writing == {"write", "wwait", "wsleep", "wlock"}
Locked == {"read", "rwait", "copy", "write", "wwait"}

\* The ends: a process inside a call has the end it uses, and readopen and
\* writeopen say whether anybody has theirs.
EndsInv ==
  /\ \A p \in Proc : pc[p] \in Reading => "r" \in fds[p]
  /\ \A p \in Proc : pc[p] \in Writing => "w" \in fds[p]
  /\ readopen = 1 <=> \E p \in Proc : "r" \in fds[p]
  /\ writeopen = 1 <=> \E p \in Proc : "w" \in fds[p]
  /\ freed <=> readopen = 0 /\ writeopen = 0

\* p->lock has one holder, and the ring never holds more than it can.
LockInv ==
  /\ \A p \in Proc : pc[p] \in Locked <=> lk = p
  /\ Count <= PIPESIZE

\* Why a process sleeps, or is about to.  While a writer has the lock it may
\* have filled an empty ring, and a reader may have emptied a full one.
SleepInv ==
  \A p \in Proc :
    /\ pc[p] \in {"rwait", "rsleep"} => writeopen = 1 /\ killed[p] = 0
    /\ pc[p] \in {"wwait", "wsleep"} => readopen = 1 /\ killed[p] = 0
    /\ pc[p] = "rwait" => Empty
    /\ pc[p] = "wwait" => Full
    /\ pc[p] = "rsleep" => Empty \/ aborted \/ \E q \in Proc : pc[q] = "write"
    /\ pc[p] = "wsleep" => Full \/ \E q \in Proc : pc[q] = "copy"

PInv == TypeOK /\ EndsInv /\ LockInv /\ SleepInv

\* pipealloc() establishes the invariant.
LEMMA PipeInit == Init => PInv
<1> SUFFICES ASSUME Init PROVE PInv
  OBVIOUS
<1>1. TypeOK
  <2>1. PICK p \in Proc : fds = [q \in Proc |-> IF q = p THEN {"r", "w"} ELSE {}]
    BY DEF Init
  <2>2. fds \in [Proc -> SUBSET {"r", "w"}]
    BY <2>1
  <2>3. 0 \in 0 .. UINT - 1 /\ 0 \in 0 .. MaxN
    BY PipeAssumption
  <2> QED
    BY Zenon, <2>2, <2>3 DEF Init, TypeOK
<1>2. EndsInv
  BY DEF Init, EndsInv, Reading, Writing
<1>3. Count = 0
  BY <1>1, CountValue DEF Init, TypeOK
<1>4. LockInv /\ SleepInv
  BY <1>3, PipeAssumption DEF Init, LockInv, SleepInv, Locked
<1> QED
  BY <1>1, <1>2, <1>4 DEF PInv

\* A byte more in the ring ...
LEMMA CountWritten ==
  ASSUME TypeOK, Count < PIPESIZE, nread' = nread, nwrite' = (nwrite + 1) % UINT
  PROVE  nwrite' \in 0 .. UINT - 1 /\ Count' = Count + 1
<1>1. /\ UINT \in Nat /\ PIPESIZE \in Nat /\ PIPESIZE < UINT
      /\ nread \in 0 .. UINT - 1 /\ nwrite \in 0 .. UINT - 1
  BY PipeAssumption DEF TypeOK
<1>2. nwrite' = IF nwrite = UINT - 1 THEN 0 ELSE nwrite + 1
  BY <1>1, CounterNext
<1>3. nwrite' \in 0 .. UINT - 1
  BY <1>1, <1>2
<1>4. Count' = IF nread <= nwrite' THEN nwrite' - nread ELSE nwrite' - nread + UINT
  BY Zenon, <1>1, <1>3, Difference DEF Count
<1> QED
  BY <1>1, <1>2, <1>3, <1>4, CountValue

\* ... and a byte less.
LEMMA CountRead ==
  ASSUME TypeOK, Count > 0, nwrite' = nwrite, nread' = (nread + 1) % UINT
  PROVE  nread' \in 0 .. UINT - 1 /\ Count' = Count - 1
<1>1. /\ UINT \in Nat /\ nread \in 0 .. UINT - 1 /\ nwrite \in 0 .. UINT - 1
  BY PipeAssumption DEF TypeOK
<1>2. nread' = IF nread = UINT - 1 THEN 0 ELSE nread + 1
  BY <1>1, CounterNext
<1>3. nread' \in 0 .. UINT - 1
  BY <1>1, <1>2
<1>4. Count' = IF nread' <= nwrite THEN nwrite - nread' ELSE nwrite - nread' + UINT
  BY <1>1, <1>3, Difference DEF Count
<1> QED
  BY <1>1, <1>2, <1>3, <1>4, CountValue

\* The number of bytes in the ring is a natural number.
LEMMA CountNat ==
  ASSUME TypeOK
  PROVE  Count \in Nat
BY PipeAssumption, CountValue DEF TypeOK

\* piperead()'s test for an empty ring.
LEMMA EmptyMeans ==
  ASSUME TypeOK
  PROVE  Empty <=> Count = 0
BY PipeAssumption, CountValue DEF TypeOK, Empty

-----------------------------------------------------------------------------
(* Every step keeps the invariant: the system calls around pipe.c first.   *)

\* fork() gives the ends to a child that is in no call.
LEMMA ForkStep ==
  ASSUME PInv, NEW p \in Proc, NEW q \in Proc, fork(p, q)
  PROVE  PInv'
<1> USE DEF PInv, fork, pipeVars
<1>1. TypeOK'
  BY DEF TypeOK
<1>2. EndsInv'
  BY DEF TypeOK, EndsInv, Reading, Writing
<1>3. LockInv'
  BY DEF LockInv, Count
<1>4. SleepInv'
  BY DEF TypeOK, SleepInv, Empty, Full
<1> QED
  BY <1>1, <1>2, <1>3, <1>4

\* kill() wakes a sleeper, so that a sleeper is never killed.
LEMMA KillStep ==
  ASSUME PInv, NEW p \in Proc, kill(p)
  PROVE  PInv'
<1> USE DEF PInv, kill, pipeVars
<1>1. TypeOK'
  BY DEF TypeOK
<1>2. EndsInv'
  BY DEF TypeOK, EndsInv, Reading, Writing
<1>3. LockInv'
  BY DEF TypeOK, LockInv, Locked, Count
<1>4. SleepInv'
  BY PipeAssumption DEF TypeOK, LockInv, Locked, SleepInv, Empty, Full
<1> QED
  BY <1>1, <1>2, <1>3, <1>4

\* sleep() gives the lock up with the reason to sleep still true.
LEMMA SleepStep ==
  ASSUME PInv, NEW p \in Proc, sleep(p)
  PROVE  PInv'
<1> USE DEF PInv, sleep, pipeVars
<1>1. TypeOK'
  BY DEF TypeOK
<1>2. EndsInv'
  BY DEF TypeOK, EndsInv, Reading, Writing
<1>3. LockInv'
  BY PipeAssumption DEF TypeOK, LockInv, Locked, Count
<1>4. SleepInv'
  BY DEF TypeOK, LockInv, Locked, SleepInv, Empty, Full
<1> QED
  BY <1>1, <1>2, <1>3, <1>4

\* pipeclose() wakes those who wait for the end that is gone.
LEMMA CloseStep ==
  ASSUME PInv, NEW p \in Proc, NEW end \in {"r", "w"}, pipeclose(p, end)
  PROVE  PInv'
<1> USE DEF PInv, pipeclose, pipeVars
<1>1. TypeOK'
  BY Zenon DEF TypeOK, wakeup
<1>2. CASE \E q \in Proc \ {p} : end \in fds[q]
  <2>1. EndsInv'
    BY <1>2 DEF TypeOK, EndsInv, Reading, Writing
  <2>2. LockInv' /\ SleepInv'
    BY <1>2 DEF LockInv, SleepInv, Count, Empty, Full
  <2> QED
    BY <1>1, <2>1, <2>2
<1>3. CASE ~\E q \in Proc \ {p} : end \in fds[q]
  <2>1. /\ fds \in [Proc -> SUBSET {"r", "w"}]
        /\ fds' = [fds EXCEPT ![p] = @ \ {end}]
        /\ end \in fds[p] /\ pc[p] = "idle" /\ lk = None /\ lk' = lk
    BY DEF TypeOK
  <2>2. \A q \in Proc : \/ pc'[q] = pc[q]
                        \/ pc[q] = "rsleep" /\ pc'[q] = "rlock"
                        \/ pc[q] = "wsleep" /\ pc'[q] = "wlock"
    BY <1>3, <2>1 DEF wakeup
  <2>3. EndsInv'
    <3>1. \A q \in Proc : pc'[q] \in Reading => "r" \in fds'[q]
      BY <1>3, <2>1, <2>2 DEF EndsInv, Reading
    <3>2. \A q \in Proc : pc'[q] \in Writing => "w" \in fds'[q]
      BY <1>3, <2>1, <2>2 DEF EndsInv, Writing
    <3>3. readopen' = 1 <=> \E q \in Proc : "r" \in fds'[q]
      BY <1>3, <2>1 DEF EndsInv
    <3>4. writeopen' = 1 <=> \E q \in Proc : "w" \in fds'[q]
      BY <1>3, <2>1 DEF EndsInv
    <3> QED
      BY Zenon, <1>3, <3>1, <3>2, <3>3, <3>4 DEF EndsInv
  <2>4. LockInv'
    BY <1>3, <2>1, <2>2 DEF LockInv, Locked, Count
  <2>5. SleepInv'
    BY <1>3, PipeAssumption DEF TypeOK, LockInv, Locked, SleepInv, EndsInv, Reading, Writing,
                                Empty, Full, wakeup
  <2> QED
    BY <1>1, <2>3, <2>4, <2>5
<1> QED
  BY <1>2, <1>3

\* The start of read() and write().
LEMMA EnterStep ==
  ASSUME PInv, NEW p \in Proc, NEW n \in 0 .. MaxN, pipewrite(p, n) \/ piperead(p, n)
  PROVE  PInv'
<1>1. PICK l \in {"rlock", "wlock"} :
        /\ lk = None /\ pc[p] = "idle" /\ killed[p] = 0
        /\ IF l = "rlock" THEN "r" \in fds[p] ELSE "w" \in fds[p]
        /\ pc' = [pc EXCEPT ![p] = l]
        /\ left' = [left EXCEPT ![p] = n]
        /\ UNCHANGED <<pipeVars, lk, fds, killed, got, aborted>>
  BY DEF pipewrite, piperead
<1> USE DEF PInv, pipeVars
<1>2. TypeOK'
  BY <1>1 DEF TypeOK
<1>3. EndsInv'
  BY <1>1 DEF TypeOK, EndsInv, Reading, Writing
<1>4. LockInv'
  BY <1>1, PipeAssumption DEF TypeOK, LockInv, Locked, Count
<1>5. SleepInv'
  BY <1>1, PipeAssumption DEF TypeOK, LockInv, Locked, SleepInv, Empty, Full
<1> QED
  BY <1>2, <1>3, <1>4, <1>5

\* acquire(), at the start of a call and at the end of sleep().
LEMMA AcquireStep ==
  ASSUME PInv, NEW p \in Proc, acquire(p)
  PROVE  PInv'
<1> USE DEF PInv, acquire, pipeVars
<1>1. TypeOK'
  BY DEF TypeOK
<1>2. EndsInv'
  BY DEF TypeOK, EndsInv, Reading, Writing
<1>3. LockInv'
  BY PipeAssumption DEF TypeOK, LockInv, Locked, Count
<1>4. SleepInv'
  BY PipeAssumption DEF TypeOK, LockInv, Locked, SleepInv, Empty, Full
<1> QED
  BY <1>1, <1>2, <1>3, <1>4

(* pipe.c with p->lock held.                                               *)

\* pipewrite() on a full ring leaves, or wakes the readers before it waits.
LEMMA WriteFullStep ==
  ASSUME PInv, NEW p \in Proc, pipewrite_full(p)
  PROVE  PInv'
<1> USE DEF PInv, pipewrite_full, pipeVars
<1>1. TypeOK'
  BY Zenon DEF TypeOK, wakeup
<1>2. CASE readopen = 0 \/ killed[p] = 1
  <2>1. lk' = None /\ pc' = [pc EXCEPT ![p] = "idle"]
    BY <1>2
  <2>2. EndsInv'
    BY <2>1 DEF TypeOK, EndsInv, Reading, Writing
  <2>3. LockInv'
    BY <2>1, PipeAssumption DEF TypeOK, LockInv, Locked, Count
  <2>4. SleepInv'
    BY Zenon, <1>2, <2>1 DEF TypeOK, LockInv, Locked, EndsInv, Reading, SleepInv, Empty, Full
  <2> QED
    BY <1>1, <2>2, <2>3, <2>4
<1>3. CASE ~(readopen = 0 \/ killed[p] = 1)
  <2>1. lk' = lk /\ pc' = [wakeup("rsleep") EXCEPT ![p] = "wwait"]
    BY <1>3
  <2>2. EndsInv'
    BY <2>1 DEF TypeOK, EndsInv, Reading, Writing, wakeup
  <2>3. LockInv'
    BY <2>1, PipeAssumption DEF TypeOK, LockInv, Locked, Count, wakeup
  <2>4. SleepInv'
    BY <1>3, <2>1 DEF TypeOK, LockInv, Locked, SleepInv, Empty, Full, wakeup
  <2> QED
    BY <1>1, <2>2, <2>3, <2>4
<1> QED
  BY <1>2, <1>3

\* A byte is written only where there is room.
LEMMA WriteByteStep ==
  ASSUME PInv, NEW p \in Proc, NEW d \in Byte, pipewrite_byte(p, d)
  PROVE  PInv' /\ Count < PIPESIZE /\ Count' = Count + 1
<1> USE DEF PInv, pipewrite_byte
<1>1. Count \in Nat /\ Count < PIPESIZE
  <2>1. Count # PIPESIZE
    BY FullMeans DEF TypeOK
  <2> QED
    BY <2>1, CountNat, PipeAssumption DEF LockInv
<1>2. nwrite' \in 0 .. UINT - 1 /\ Count' = Count + 1
  BY <1>1, CountWritten
<1>3. TypeOK'
  BY <1>2, PipeAssumption DEF TypeOK
<1>4. EndsInv'
  BY DEF EndsInv
<1>5. LockInv'
  BY <1>1, <1>2, PipeAssumption DEF LockInv
<1>6. SleepInv'
  BY DEF TypeOK, LockInv, Locked, SleepInv
<1> QED
  BY <1>1, <1>2, <1>3, <1>4, <1>5, <1>6

\* The end of pipewrite() wakes the readers it has bytes for.
LEMMA WriteEndStep ==
  ASSUME PInv, NEW p \in Proc, pipewrite_end(p)
  PROVE  PInv'
<1> USE DEF PInv, pipewrite_end, pipeVars
<1>1. TypeOK'
  BY DEF TypeOK, wakeup
<1>2. EndsInv'
  BY DEF TypeOK, EndsInv, Reading, Writing, wakeup
<1>3. LockInv'
  BY PipeAssumption DEF TypeOK, LockInv, Locked, Count, wakeup
<1>4. SleepInv'
  BY DEF TypeOK, LockInv, Locked, SleepInv, Empty, Full, wakeup
<1> QED
  BY <1>1, <1>2, <1>3, <1>4

\* piperead() waits only on an empty ring with a write end.
LEMMA ReadEmptyStep ==
  ASSUME PInv, NEW p \in Proc, piperead_empty(p)
  PROVE  PInv'
<1> USE DEF PInv, piperead_empty, pipeVars
<1>1. TypeOK'
  BY Zenon DEF TypeOK
<1>2. EndsInv'
  BY DEF TypeOK, EndsInv, Reading, Writing
<1>3. LockInv'
  BY ZenonT(30), PipeAssumption DEF TypeOK, LockInv, Locked, Count
<1>4. SleepInv'
  BY DEF TypeOK, LockInv, Locked, SleepInv, Empty, Full
<1> QED
  BY <1>1, <1>2, <1>3, <1>4

\* piperead() leaves its waiting loop.
LEMMA ReadCopyStep ==
  ASSUME PInv, NEW p \in Proc, piperead_copy(p)
  PROVE  PInv'
<1> USE DEF PInv, piperead_copy, pipeVars
<1>1. TypeOK'
  BY DEF TypeOK
<1>2. EndsInv'
  BY DEF TypeOK, EndsInv, Reading, Writing
<1>3. LockInv'
  BY DEF TypeOK, LockInv, Locked, Count
<1>4. SleepInv'
  BY DEF TypeOK, LockInv, Locked, SleepInv, Empty, Full
<1> QED
  BY <1>1, <1>2, <1>3, <1>4

\* A byte is read only when there is one.
LEMMA ReadByteStep ==
  ASSUME PInv, NEW p \in Proc, piperead_byte(p)
  PROVE  PInv' /\ Count > 0 /\ Count' = Count - 1
<1> USE DEF PInv, piperead_byte
<1>1. Count \in Nat /\ Count > 0 /\ Count <= PIPESIZE
  BY CountNat, EmptyMeans DEF LockInv
<1>2. nread' \in 0 .. UINT - 1 /\ Count' = Count - 1
  BY <1>1, CountRead
<1>3. TypeOK'
  <2>1. nread % PIPESIZE \in 0 .. PIPESIZE - 1
    BY PipeAssumption, DivMod DEF TypeOK
  <2> QED
    BY <1>2, <2>1, PipeAssumption DEF TypeOK
<1>4. EndsInv'
  BY DEF EndsInv
<1>5. LockInv'
  BY <1>1, <1>2, PipeAssumption DEF LockInv
<1>6. SleepInv'
  BY DEF TypeOK, LockInv, Locked, SleepInv, Empty
<1> QED
  BY <1>1, <1>2, <1>3, <1>4, <1>5, <1>6

\* The end of piperead() wakes the writers it made room for.
LEMMA ReadEndStep ==
  ASSUME PInv, NEW p \in Proc, piperead_end(p)
  PROVE  PInv'
<1> USE DEF PInv, piperead_end, pipeVars
<1>1. TypeOK'
  BY DEF TypeOK, wakeup
<1>2. EndsInv'
  BY DEF TypeOK, EndsInv, Reading, Writing, wakeup
<1>3. LockInv'
  BY PipeAssumption DEF TypeOK, LockInv, Locked, Count, wakeup
<1>4. SleepInv'
  BY DEF TypeOK, LockInv, Locked, SleepInv, Empty, Full, wakeup
<1> QED
  BY <1>1, <1>2, <1>3, <1>4

\* Every step of the pipe keeps the invariant.
LEMMA PipeStep == PInv /\ [Next]_vars => PInv'
<1> SUFFICES ASSUME PInv, [Next]_vars PROVE PInv'
  OBVIOUS
<1>1. ASSUME NEW p \in Proc, NEW q \in Proc, fork(p, q) PROVE PInv'
  BY <1>1, ForkStep
<1>2. ASSUME NEW p \in Proc, kill(p) PROVE PInv'
  BY <1>2, KillStep
<1>3. ASSUME NEW p \in Proc, NEW end \in {"r", "w"}, pipeclose(p, end) PROVE PInv'
  BY <1>3, CloseStep
<1>4. ASSUME NEW p \in Proc, NEW n \in 0 .. MaxN, pipewrite(p, n) \/ piperead(p, n) PROVE PInv'
  BY <1>4, EnterStep
<1>5. ASSUME NEW p \in Proc, Continue(p) PROVE PInv'
  BY <1>5, SleepStep, AcquireStep, WriteFullStep, WriteByteStep, WriteEndStep, ReadEmptyStep,
     ReadCopyStep, ReadByteStep, ReadEndStep DEF Continue
<1>6. CASE UNCHANGED vars
  BY <1>6 DEF vars, pipeVars, PInv, TypeOK, EndsInv, LockInv, SleepInv, Count, Empty, Full
<1> QED
  BY <1>1, <1>2, <1>3, <1>4, <1>5, <1>6 DEF Next

\* The invariant holds for ever.
THEOREM PInvHolds == Spec => []PInv
<1> QED
  BY PipeInit, PipeStep, PTL DEF Spec

\* pipeclose() calls kfree() exactly when no descriptor names the pipe and no
\* call is inside it.
THEOREM FreedUnreachableHolds == Spec => []FreedUnreachable
<1>1. PInv => FreedUnreachable
  <2> SUFFICES ASSUME PInv PROVE FreedUnreachable
    OBVIOUS
  <2>1. ASSUME NEW p \in Proc, fds[p] = {} PROVE pc[p] = "idle"
    BY <2>1 DEF PInv, TypeOK, EndsInv, Reading, Writing
  <2>2. ASSUME NEW p \in Proc, freed PROVE fds[p] = {}
    BY <2>2 DEF PInv, TypeOK, EndsInv
  <2>3. (\A p \in Proc : fds[p] = {}) => freed
    BY DEF PInv, TypeOK, EndsInv
  <2> QED
    BY <2>1, <2>2, <2>3 DEF PInv, FreedUnreachable
<1> QED
  BY <1>1, PInvHolds, PTL

\* Once p->lock is free, whoever sleeps in piperead() or pipewrite() has a
\* reason to.
THEOREM NoLostWakeupHolds == Spec => []NoLostWakeup
<1>1. PInv => NoLostWakeup
  BY PipeAssumption DEF PInv, LockInv, Locked, SleepInv, NoLostWakeup
<1> QED
  BY <1>1, PInvHolds, PTL

-----------------------------------------------------------------------------
(* Pipe implements Channel.                                                *)

\* n bytes of a ring D from position r on are a sequence.
LEMMA RingSeq ==
  ASSUME NEW D \in [0 .. PIPESIZE - 1 -> Byte], NEW r \in Int, NEW n \in Nat
  PROVE  /\ [i \in 1 .. n |-> D[(r + i - 1) % PIPESIZE]] \in Seq(Byte)
         /\ Len([i \in 1 .. n |-> D[(r + i - 1) % PIPESIZE]]) = n
<1>1. \A i \in 1 .. n : D[(r + i - 1) % PIPESIZE] \in Byte
  <2> TAKE i \in 1 .. n
  <2>1. (r + i - 1) % PIPESIZE \in 0 .. PIPESIZE - 1
    BY PipeAssumption, DivMod, r + i - 1 \in Int
  <2> QED
    BY <2>1
<1> QED
  BY <1>1

\* pipewrite() appends its byte: it goes where no byte is.
LEMMA WriteAppends ==
  ASSUME PInv, NEW p \in Proc, NEW d \in Byte, pipewrite_byte(p, d)
  PROVE  Len(Contents) < PIPESIZE /\ Contents' = Append(Contents, d)
<1> DEFINE n == Count
           C == Contents
           E == Contents'
<1>1. /\ nread \in Int /\ nread \in 0 .. UINT - 1 /\ nwrite \in 0 .. UINT - 1
      /\ data \in [0 .. PIPESIZE - 1 -> Byte] /\ data' \in [0 .. PIPESIZE - 1 -> Byte]
      /\ data' = [data EXCEPT ![nwrite % PIPESIZE] = d] /\ nread' = nread
  BY WriteByteStep, PipeAssumption DEF PInv, TypeOK, pipewrite_byte
<1>2. n \in Nat /\ n < PIPESIZE /\ Count' = n + 1
  BY WriteByteStep, CountNat DEF PInv
<1>3. nwrite % PIPESIZE = (nread + n) % PIPESIZE
  BY <1>1, RingEnd
<1>4. (nread + n) % PIPESIZE \in 0 .. PIPESIZE - 1
  BY <1>1, <1>2, PipeAssumption, DivMod, nread + n \in Int
<1> HIDE DEF n
<1>5. C = [i \in 1 .. n |-> data[(nread + i - 1) % PIPESIZE]]
  BY DEF Contents, n
<1>6. E = [i \in 1 .. n + 1 |-> data'[(nread + i - 1) % PIPESIZE]]
  BY <1>1, <1>2 DEF Contents
<1> HIDE DEF C, E
<1>7. C \in Seq(Byte) /\ Len(C) = n
  <2>1. nread \in Int /\ n \in Nat /\ data \in [0 .. PIPESIZE - 1 -> Byte]
    BY <1>1, <1>2
  <2> QED
    BY ZenonT(30), <2>1, <1>5, RingSeq
<1>8. E \in Seq(Byte) /\ Len(E) = n + 1
  <2>1. nread \in Int /\ n + 1 \in Nat /\ data' \in [0 .. PIPESIZE - 1 -> Byte]
    BY <1>1, <1>2
  <2> QED
    BY ZenonT(30), <2>1, <1>6, RingSeq
<1>9. ASSUME NEW i \in 1 .. n PROVE E[i] = C[i]
  <2>1. /\ nread + i - 1 \in Int /\ n - i + 1 \in 1 .. PIPESIZE - 1
        /\ nread + n = (nread + i - 1) + (n - i + 1)
    BY <1>1, <1>2, PipeAssumption
  <2>2. (nread + i - 1) % PIPESIZE # (nread + n) % PIPESIZE
    BY <2>1, RingDistinct
  <2>3. (nread + i - 1) % PIPESIZE \in 0 .. PIPESIZE - 1
    BY Zenon, <2>1, PipeAssumption, DivMod
  <2>4. data'[(nread + i - 1) % PIPESIZE] = data[(nread + i - 1) % PIPESIZE]
    BY <1>1, <1>3, <2>2, <2>3
  <2>5. i \in 1 .. n + 1
    BY <1>2
  <2> QED
    BY <1>5, <1>6, <2>4, <2>5
<1>10. E[n + 1] = d
  <2>1. data'[(nread + n) % PIPESIZE] = d
    BY <1>1, <1>3, <1>4
  <2>2. n + 1 \in 1 .. n + 1 /\ nread + (n + 1) - 1 = nread + n
    BY <1>1, <1>2
  <2> QED
    BY <1>6, <2>1, <2>2
<1>11. E = Append(C, d)
  <2>1. /\ Append(C, d) \in Seq(Byte) /\ Len(Append(C, d)) = n + 1
        /\ \A i \in 1 .. n : Append(C, d)[i] = C[i]
        /\ Append(C, d)[n + 1] = d
    BY <1>7, AppendProperties
  <2>2. \A i \in 1 .. n + 1 : E[i] = Append(C, d)[i]
    BY <1>2, <1>9, <1>10, <2>1
  <2> QED
    BY <1>8, <2>1, <2>2, SeqEqual
<1> QED
  BY <1>2, <1>7, <1>11 DEF C, E

\* piperead() takes the oldest byte, where nread wraps as well.
LEMMA ReadTakes ==
  ASSUME PInv, NEW p \in Proc, piperead_byte(p)
  PROVE  Contents # <<>> /\ got' = Head(Contents) /\ Contents' = Tail(Contents)
<1> DEFINE n == Count
           C == Contents
           E == Contents'
<1>1. /\ nread \in Int /\ nread \in 0 .. UINT - 1 /\ UINT \in Nat
      /\ data \in [0 .. PIPESIZE - 1 -> Byte] /\ data' = data
      /\ nread' = (nread + 1) % UINT /\ got' = data[nread % PIPESIZE]
  BY PipeAssumption DEF PInv, TypeOK, piperead_byte
<1>2. n \in Nat \ {0} /\ n - 1 \in Nat /\ Count' = n - 1
  BY ReadByteStep, CountNat DEF PInv
<1>3. nread' = (IF nread = UINT - 1 THEN 0 ELSE nread + 1) /\ nread' \in Int
  BY <1>1, CounterNext
<1> HIDE DEF n
<1>4. C = [i \in 1 .. n |-> data[(nread + i - 1) % PIPESIZE]]
  BY DEF Contents, n
<1>5. E = [i \in 1 .. n - 1 |-> data[(nread' + i - 1) % PIPESIZE]]
  BY <1>1, <1>2 DEF Contents
<1> HIDE DEF C, E
<1>6. C \in Seq(Byte) /\ Len(C) = n /\ C # <<>>
  <2>1. C \in Seq(Byte) /\ Len(C) = n
    BY Zenon, <1>1, <1>2, <1>4, RingSeq
  <2> QED
    BY <1>2, <2>1
<1>7. E \in Seq(Byte) /\ Len(E) = n - 1
  BY Zenon, <1>1, <1>2, <1>3, <1>5, RingSeq
<1>8. got' = Head(C)
  <2>1. C[1] = data[nread % PIPESIZE]
    BY <1>1, <1>2, <1>4, 1 \in 1 .. n, nread + 1 - 1 = nread
  <2> QED
    BY <1>1, <1>6, <2>1
<1>9. ASSUME NEW i \in 1 .. n - 1 PROVE E[i] = C[i + 1]
  <2>1. (nread' + i - 1) % PIPESIZE = (nread + i) % PIPESIZE
    <3>1. CASE nread = UINT - 1
      <4>1. nread' + i - 1 = i - 1 /\ nread + i = (i - 1) + UINT /\ i - 1 \in Int
        BY <1>1, <1>2, <1>3, <3>1
      <4>2. ((i - 1) + UINT) % PIPESIZE = (i - 1) % PIPESIZE
        BY <4>1, RingWrap
      <4> QED
        BY <4>1, <4>2
    <3>2. CASE nread # UINT - 1
      BY <1>1, <1>2, <1>3, <3>2, nread' + i - 1 = nread + i
    <3> QED
      BY <3>1, <3>2
  <2>2. i + 1 \in 1 .. n /\ nread + (i + 1) - 1 = nread + i
    BY <1>1, <1>2
  <2> QED
    BY <1>4, <1>5, <2>1, <2>2
<1>10. E = Tail(C)
  <2>1. /\ Tail(C) \in Seq(Byte) /\ Len(Tail(C)) = n - 1
        /\ \A i \in 1 .. n - 1 : Tail(C)[i] = C[i + 1]
    BY <1>6, HeadTailProperties
  <2> QED
    BY <1>7, <1>9, <2>1, SeqEqual
<1> QED
  BY <1>6, <1>8, <1>10 DEF C, E

\* A step that leaves the ring and the ends alone is none of the channel.
LEMMA Stutters ==
  ASSUME UNCHANGED <<data, nread, nwrite, readopen, writeopen, got>>
  PROVE  UNCHANGED Queue!vars
BY DEF Queue!vars, Contents, Count

\* Across the wraparound of the counters and any interleaving of readers,
\* writers, kills and closes, the ring buffer is a queue of bytes.
THEOREM FifoChannelHolds == Spec => FifoChannel
<1>1. Init => Queue!Init
  <2> SUFFICES ASSUME Init PROVE Queue!Init
    OBVIOUS
  <2>1. Count = 0
    BY PipeInit, CountValue DEF Init, PInv, TypeOK
  <2>2. Contents = <<>>
    BY <2>1 DEF Contents
  <2> QED
    BY <2>2 DEF Init, Queue!Init
<1>2. PInv /\ [Next]_vars => [Queue!Next]_(Queue!vars)
  <2> SUFFICES ASSUME PInv, [Next]_vars PROVE [Queue!Next]_(Queue!vars)
    OBVIOUS
  <2>1. ASSUME NEW p \in Proc, NEW end \in {"r", "w"}, pipeclose(p, end)
        PROVE  [Queue!Next]_(Queue!vars)
    <3>1. UNCHANGED Contents /\ UNCHANGED got
      BY <2>1 DEF pipeclose, pipeVars, Contents, Count
    <3>2. CASE \E q \in Proc \ {p} : end \in fds[q]
      BY <2>1, <3>2, Stutters DEF pipeclose, pipeVars
    <3>3. CASE ~\E q \in Proc \ {p} : end \in fds[q]
      <4>1. CASE end = "r"
        <5>1. Queue!CloseRead
          BY <2>1, <3>1, <3>3, <4>1 DEF pipeclose, PInv, EndsInv, Queue!CloseRead
        <5> QED
          BY <5>1 DEF Queue!Next
      <4>2. CASE end = "w"
        <5>1. Queue!CloseWrite
          BY <2>1, <3>1, <3>3, <4>2 DEF pipeclose, PInv, EndsInv, Queue!CloseWrite
        <5> QED
          BY <5>1 DEF Queue!Next
      <4> QED
        BY <4>1, <4>2
    <3> QED
      BY <3>2, <3>3
  <2>2. ASSUME NEW p \in Proc, NEW d \in Byte, pipewrite_byte(p, d) PROVE Queue!Send(d)
    <3>1. writeopen = 1
      BY <2>2 DEF pipewrite_byte, PInv, EndsInv, Writing
    <3> QED
      BY Zenon, <2>2, <3>1, WriteAppends DEF pipewrite_byte, Queue!Send
  <2>3. ASSUME NEW p \in Proc, piperead_byte(p) PROVE Queue!Recv
    <3>1. readopen = 1
      BY <2>3 DEF piperead_byte, PInv, EndsInv, Reading
    <3> QED
      BY Zenon, <2>3, <3>1, ReadTakes DEF piperead_byte, Queue!Recv
  <2>4. ASSUME NEW p \in Proc,
               \/ \E q \in Proc : fork(p, q)
               \/ \E n \in 0 .. MaxN : pipewrite(p, n) \/ piperead(p, n)
               \/ kill(p) \/ sleep(p) \/ acquire(p) \/ pipewrite_full(p) \/ pipewrite_end(p)
               \/ piperead_empty(p) \/ piperead_copy(p) \/ piperead_end(p)
        PROVE  UNCHANGED Queue!vars
    BY Zenon, <2>4, Stutters DEF fork, pipewrite, piperead, kill, sleep, acquire, pipewrite_full,
       pipewrite_end, piperead_empty, piperead_copy, piperead_end, pipeVars
  <2>5. CASE UNCHANGED vars
    BY <2>5, Stutters DEF vars, pipeVars
  <2>6. ASSUME NEW p \in Proc, Continue(p) PROVE [Queue!Next]_(Queue!vars)
    BY <2>2, <2>3, <2>4, <2>6 DEF Continue, Queue!Next
  <2> QED
    BY <2>1, <2>4, <2>5, <2>6 DEF Next
<1> QED
  BY <1>1, <1>2, PInvHolds, PTL DEF Spec, FifoChannel, Queue!Spec
=============================================================================
