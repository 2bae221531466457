-------------------------- MODULE QueueCountProofs --------------------------
(***************************************************************************)
(* The accounts of Queue, for any finite numbers of dispatcher loops and   *)
(* workers: dispatcher_counts is the number of loops, and every permit of  *)
(* a pool is free, with a loop or with a worker.  A step changes the       *)
(* members of a set by one, and the number that stands for it by one.  The *)
(* count of loops then says when a task on a heap is left without one.     *)
(***************************************************************************)
EXTENDS QueueProofs, FiniteSetTheorems

USE DepsAssumption, HashAssumption, PoolAssumption, RetryAssumption, KindAssumption,
    SwitchAssumption, BoundAssumption, NoneAssumption

\* One member more.
LEMMA Plus ==
  ASSUME NEW S, NEW T, NEW x, IsFiniteSet(S), x \notin S, T = S \cup {x}
  PROVE  Cardinality(S) \in Nat /\ Cardinality(T) = Cardinality(S) + 1
  BY FS_CardinalityType, FS_AddElement

\* One member less.
LEMMA Minus ==
  ASSUME NEW S, NEW T, NEW x, IsFiniteSet(S), x \in S, T = S \ {x}
  PROVE  Cardinality(S) \in Nat /\ Cardinality(T) = Cardinality(S) - 1
  BY FS_CardinalityType, FS_RemoveElement

\* No member.
LEMMA Empty == Cardinality({}) = 0
  BY FS_EmptySet

----------------------------------------------------------------------------
(* Loops. *)

Loops(p) == {d \in Dispatcher : dpc[d] # "idle" /\ dpool[d] = p}
LoopsCounted == \A p \in Pool : counts[p] = Cardinality(Loops(p)) /\ counts[p] <= 2

\* Steps that start and end no loop.
LEMMA SameLoops ==
  ASSUME LoopsCounted, UNCHANGED <<counts, dpool>>,
         \A d \in Dispatcher : dpc'[d] = "idle" <=> dpc[d] = "idle"
  PROVE  LoopsCounted'
  <1>1. \A p \in Pool : Loops(p)' = Loops(p) BY DEF Loops
  <1> QED BY <1>1 DEF LoopsCounted

\* Every step keeps the count of the loops.
LEMMA LoopsStep ==
  ASSUME IsFiniteSet(Dispatcher), TypeOK, LoopsCounted, [Next]_vars
  PROVE  LoopsCounted'
  <1>1. CASE \/ \E t \in Task : Elapse(t) \/ ClaimHash(t) \/ CheckCycle(t) \/ SaveNew(t)
                                \/ RegisterHandler(t) \/ Evict(t)
             \/ (\E c \in lingering : Linger(c)) \/ Compact
             \/ UNCHANGED vars
    <2>1. UNCHANGED dispatchers
      BY <1>1 DEF Elapse, ClaimHash, CheckCycle, SaveNew, RegisterHandler, Evict, Linger, Compact, vars
    <2> QED BY <2>1, SameLoops DEF dispatchers
  <1>2. CASE \E w \in Worker : WorkerStep(w) \/ Timeout(w)
    <2>1. UNCHANGED <<counts, dpool, dpc>>
      BY <1>2 DEF WorkerStep, Timeout, Check, Call, Return, Reschedule, Retry, Scan, BlockChild,
                  DeadLetter, Complete, Delete, Unhash, Drop, dispatchers
    <2> QED BY <2>1, SameLoops
  <1>3. CASE \E s \in Sweep : PollRead(s) \/ PollLock(s) \/ (\E c \in snap[s] : PollTask(s, c))
                              \/ PollUnlock(s) \/ PollDone(s)
    <2>1. UNCHANGED <<counts, dpool, dpc>>
      BY <1>3 DEF PollRead, PollLock, PollTask, PollUnlock, PollDone, dispatchers
    <2> QED BY <2>1, SameLoops
  <1>4. CASE \E s \in Sweep : \E p \in Pool : PollDispatch(s, p)
    <2> PICK s \in Sweep, p \in Pool : PollDispatch(s, p) BY <1>4
    <2>1. CASE ~RoomForDispatcher(p)
      <3>1. UNCHANGED <<counts, dpool, dpc>> BY <2>1 DEF PollDispatch
      <3> QED BY <3>1, SameLoops
    <2>2. CASE RoomForDispatcher(p)
      <3>1. counts' = [counts EXCEPT ![p] = counts[p] + 1] /\ counts[p] < 2
        BY <2>2 DEF PollDispatch, RoomForDispatcher
      <3>2. PICK d \in Dispatcher : /\ dpc[d] = "idle"
                                    /\ dpc' = [dpc EXCEPT ![d] = "acquire"]
                                    /\ dpool' = [dpool EXCEPT ![d] = p]
        BY <2>2 DEF PollDispatch
      <3>3. /\ \A e \in Dispatcher \ {d} : dpc'[e] = dpc[e] /\ dpool'[e] = dpool[e]
            /\ dpc'[d] # "idle" /\ dpool'[d] = p
        BY <3>2 DEF TypeOK
      <3> SUFFICES ASSUME NEW q \in Pool
                   PROVE  counts'[q] = Cardinality(Loops(q)') /\ counts'[q] <= 2
        BY DEF LoopsCounted
      <3>4. IsFiniteSet(Loops(q)) /\ counts[q] = Cardinality(Loops(q)) /\ counts[q] <= 2
        BY FS_Subset DEF LoopsCounted, Loops
      <3>5. CASE q = p
        <4>1. Loops(q)' = Loops(q) \cup {d} /\ d \notin Loops(q) BY <3>2, <3>3, <3>5 DEF Loops
        <4>2. Cardinality(Loops(q)) \in Nat /\ Cardinality(Loops(q)') = Cardinality(Loops(q)) + 1
          BY <3>4, <4>1, Plus
        <4>3. counts'[q] = counts[q] + 1 BY <3>1, <3>5 DEF TypeOK
        <4> QED BY <3>1, <3>4, <3>5, <4>2, <4>3
      <3>6. CASE q # p
        <4>1. Loops(q)' = Loops(q) BY <3>2, <3>3, <3>6 DEF Loops
        <4>2. counts'[q] = counts[q] BY <3>1, <3>6 DEF TypeOK
        <4> QED BY <3>4, <4>1, <4>2
      <3> QED BY <3>5, <3>6
    <2> QED BY <2>1, <2>2
  <1>5. ASSUME NEW d \in Dispatcher, DispatcherStep(d), ~Exit(d) PROVE LoopsCounted'
    <2>1. UNCHANGED <<counts, dpool>> /\ dpc[d] # "idle"
      BY <1>5 DEF DispatcherStep, Acquire, Pop, PopEmpty, Grant, Deny, Unqueue, Move
    <2>2. \E pc : pc # "idle" /\ dpc' = [dpc EXCEPT ![d] = pc]
      BY <1>5 DEF DispatcherStep, Acquire, Pop, PopEmpty, Grant, Deny, Unqueue, Move
    <2>3. \A e \in Dispatcher : dpc'[e] = "idle" <=> dpc[e] = "idle"
      BY <2>1, <2>2 DEF TypeOK
    <2> QED BY <2>1, <2>3, SameLoops
  <1>6. ASSUME NEW d \in Dispatcher, Exit(d) PROVE LoopsCounted'
    <2>1. /\ dpc[d] = "exit"
          /\ counts' = [counts EXCEPT ![dpool[d]] = counts[dpool[d]] - 1]
          /\ dpc' = [dpc EXCEPT ![d] = "idle"] /\ dpool' = [dpool EXCEPT ![d] = Default]
      BY <1>6 DEF Exit
    <2>2. /\ \A e \in Dispatcher \ {d} : dpc'[e] = dpc[e] /\ dpool'[e] = dpool[e]
          /\ dpc'[d] = "idle"
      BY <2>1 DEF TypeOK
    <2> SUFFICES ASSUME NEW q \in Pool
                 PROVE  counts'[q] = Cardinality(Loops(q)') /\ counts'[q] <= 2
      BY DEF LoopsCounted
    <2>3. IsFiniteSet(Loops(q)) /\ counts[q] = Cardinality(Loops(q)) /\ counts[q] <= 2
      BY FS_Subset DEF LoopsCounted, Loops
    <2>4. CASE q = dpool[d]
      <3>1. Loops(q)' = Loops(q) \ {d} /\ d \in Loops(q) BY <2>1, <2>2, <2>4 DEF Loops
      <3>2. Cardinality(Loops(q)) \in Nat /\ Cardinality(Loops(q)') = Cardinality(Loops(q)) - 1
        BY <2>3, <3>1, Minus
      <3>3. counts'[q] = counts[q] - 1 BY <2>1, <2>4 DEF TypeOK
      <3> QED BY <2>3, <3>2, <3>3
    <2>5. CASE q # dpool[d]
      <3>1. Loops(q)' = Loops(q) BY <2>1, <2>2, <2>5 DEF Loops
      <3>2. counts'[q] = counts[q] BY <2>1, <2>5 DEF TypeOK
      <3> QED BY <2>3, <3>1, <3>2
    <2> QED BY <2>4, <2>5
  <1>7. CASE Restart
    <2>1. \A p \in Pool : Loops(p)' = {} /\ counts'[p] = 0 BY <1>7 DEF Restart, Loops
    <2>2. \A p \in Pool : counts'[p] = Cardinality(Loops(p)') BY <2>1, Empty
    <2> QED BY <2>1, <2>2 DEF LoopsCounted
  <1> QED BY <1>1, <1>2, <1>3, <1>4, <1>5, <1>6, <1>7 DEF Next, SweepStep

\* dispatcher_counts is the number of loops of the pool, and there are at most two, however
\* sweeps and loops interleave (queue.rs:311-317, 398-401).
THEOREM LoopsAreCounted ==
  ASSUME IsFiniteSet(Dispatcher)
  PROVE  Spec => []DispatchersCounted
  <1>1. Init => LoopsCounted
    <2>1. Init => \A p \in Pool : Loops(p) = {} /\ counts[p] = 0 BY DEF Init, Loops
    <2>2. Init => \A p \in Pool : counts[p] = Cardinality(Loops(p)) BY <2>1, Empty
    <2> QED BY <2>1, <2>2 DEF LoopsCounted
  <1>2. TypeOK /\ LoopsCounted /\ [Next]_vars => LoopsCounted' BY LoopsStep
  <1>3. LoopsCounted => DispatchersCounted BY DEF LoopsCounted, Loops, DispatchersCounted
  <1> QED BY <1>1, <1>2, <1>3, TypeCorrect, PTL DEF Spec

----------------------------------------------------------------------------
(* Wakeups. *)

\* A heap, the loops of its pool and the sweeps that owe it one.
Unserved(p) == counts[p] = 0 /\ \A s \in Sweep : p \notin pools[s]

\* No heap grows, and no pool loses a loop or a sweep that owes it one.
LEMMA NothingStranded ==
  ASSUME NEW t, \A p \in Pool : pq'[p] \subseteq pq[p] /\ (Unserved(p)' => Unserved(p))
  PROVE  Stranded(t)' => Stranded(t)
  BY DEF Stranded, Unserved

\* Only a loop that ends strands a task.
LEMMA StrandedStep ==
  ASSUME TypeOK, LoopsCounted, IsFiniteSet(Dispatcher), [Next]_vars,
         NEW t \in Task, ~Stranded(t), Stranded(t)'
  PROVE  \E d \in Dispatcher : dpc[d] = "exit" /\ dpc'[d] = "idle"
  <1>1. CASE \/ \E u \in Task : Elapse(u) \/ ClaimHash(u) \/ CheckCycle(u) \/ SaveNew(u)
                                \/ RegisterHandler(u) \/ Evict(u)
             \/ \E s \in Sweep : PollRead(s) \/ PollLock(s) \/ PollUnlock(s) \/ PollDone(s)
             \/ \E w \in Worker : WorkerStep(w) \/ Timeout(w)
             \/ (\E c \in lingering : Linger(c)) \/ Compact
             \/ UNCHANGED vars
    <2>1. UNCHANGED <<pq, counts, pools>>
      <3>1. CASE \E w \in Worker : WorkerStep(w) \/ Timeout(w)
        BY <3>1 DEF WorkerStep, Timeout, Check, Call, Return, Reschedule, Retry, Scan, BlockChild,
               DeadLetter, Complete, Delete, Unhash, Drop, dispatchers, sweeps
      <3>2. CASE ~\E w \in Worker : WorkerStep(w) \/ Timeout(w)
        BY <1>1, <3>2 DEF Elapse, ClaimHash, CheckCycle, SaveNew, RegisterHandler, Evict, PollRead,
               PollLock, PollUnlock, PollDone, Linger, Compact, vars, dispatchers, sweeps
      <3> QED BY <3>1, <3>2
    <2> QED BY <2>1, NothingStranded DEF Unserved
  <1>2. CASE \E s \in Sweep : \E c \in snap[s] : PollTask(s, c)
    <2> PICK s \in Sweep : \E c \in snap[s] : PollTask(s, c) BY <1>2
    <2> PICK c \in snap[s] : PollTask(s, c) OBVIOUS
    <2>1. UNCHANGED counts BY DEF PollTask, dispatchers
    <2>2. CASE ~Eligible(c.id)
      <3>1. UNCHANGED <<pq, pools>> BY <2>2 DEF PollTask
      <3> QED BY <2>1, <3>1, NothingStranded DEF Unserved
    <2>3. CASE Eligible(c.id)
      <3>1. /\ pq' = [pq EXCEPT ![PoolOf(c.id)] = pq[PoolOf(c.id)] \cup {c}]
            /\ pools' = [pools EXCEPT ![s] = pools[s] \cup {PoolOf(c.id)}]
        BY <2>3 DEF PollTask
      <3>2. PICK p \in Pool : (\E b \in pq'[p] : b.id = t) /\ Unserved(p)'
        BY DEF Stranded, Unserved
      <3>3. p # PoolOf(c.id) BY <3>1, <3>2 DEF TypeOK, Unserved
      <3>4. pq'[p] = pq[p] BY <3>1, <3>3 DEF TypeOK
      <3>5. \A r \in Sweep : pools[r] \subseteq pools'[r] BY <3>1 DEF TypeOK
      <3>6. Unserved(p) BY <2>1, <3>2, <3>5 DEF Unserved
      <3> QED BY <3>2, <3>4, <3>6 DEF Stranded, Unserved
    <2> QED BY <2>2, <2>3
  <1>3. CASE \E s \in Sweep : \E p \in Pool : PollDispatch(s, p)
    <2> PICK s \in Sweep, p \in Pool : PollDispatch(s, p) BY <1>3
    <2>1. /\ UNCHANGED pq
          /\ \A r \in Sweep : \A q \in Pool : q \in pools[r] => q \in pools'[r] \/ q = p
      BY DEF PollDispatch, TypeOK
    <2>2. counts[p] \in Nat
      <3>1. IsFiniteSet(Loops(p)) BY FS_Subset DEF Loops
      <3> QED BY <3>1, FS_CardinalityType DEF LoopsCounted
    <2>3. counts'[p] # 0
      <3>1. CASE RoomForDispatcher(p)
        <4>1. counts' = [counts EXCEPT ![p] = counts[p] + 1] BY <3>1 DEF PollDispatch
        <4> QED BY <2>2, <4>1 DEF TypeOK
      <3>2. CASE ~RoomForDispatcher(p)
        <4>1. UNCHANGED counts /\ ~(counts[p] < 2)
          BY <3>2 DEF PollDispatch, RoomForDispatcher
        <4> QED BY <2>2, <4>1
      <3> QED BY <3>1, <3>2
    <2>4. \A q \in Pool : q # p => counts'[q] = counts[q]
      <3>1. UNCHANGED counts \/ counts' = [counts EXCEPT ![p] = counts[p] + 1]
        BY DEF PollDispatch
      <3> QED BY <3>1 DEF TypeOK
    <2>5. \A q \in Pool : Unserved(q)' => Unserved(q) BY <2>1, <2>3, <2>4 DEF Unserved
    <2> QED BY <2>1, <2>5, NothingStranded
  <1>4. ASSUME NEW d \in Dispatcher, DispatcherStep(d), ~Exit(d) PROVE FALSE
    <2>1. UNCHANGED <<counts, pools>>
      BY <1>4 DEF DispatcherStep, Acquire, Pop, PopEmpty, Grant, Deny, Unqueue, Move, sweeps
    <2>2. \A p \in Pool : pq'[p] \subseteq pq[p]
      <3>1. UNCHANGED pq \/ \E c \in pq[dpool[d]] : pq' = [pq EXCEPT ![dpool[d]] = pq[dpool[d]] \ {c}]
        BY <1>4 DEF DispatcherStep, Acquire, Pop, PopEmpty, Grant, Deny, Unqueue, Move
      <3> QED BY <3>1 DEF TypeOK
    <2> QED BY <2>1, <2>2, NothingStranded DEF Unserved
  <1>5. CASE \E d \in Dispatcher : Exit(d)
    BY <1>5 DEF Exit, TypeOK
  <1>6. CASE Restart BY <1>6 DEF Restart, Stranded
  <1> QED BY <1>1, <1>2, <1>3, <1>4, <1>5, <1>6 DEF Next, SweepStep

\* The engine loses a wakeup in one place only: whatever sweeps, loops, workers and restarts do,
\* a task comes to wait on a heap that nobody will pop only when a loop that has seen the heap
\* empty signs off (queue.rs:265-319, 392-401).
THEOREM WakeupsLostAtExit ==
  ASSUME IsFiniteSet(Dispatcher)
  PROVE  Spec => LostOnlyAtExit
  <1>1. Init => LoopsCounted
    <2>1. Init => \A p \in Pool : Loops(p) = {} /\ counts[p] = 0 BY DEF Init, Loops
    <2>2. Init => \A p \in Pool : counts[p] = Cardinality(Loops(p)) BY <2>1, Empty
    <2> QED BY <2>1, <2>2 DEF LoopsCounted
  <1>2. TypeOK /\ LoopsCounted /\ [Next]_vars => LoopsCounted' BY LoopsStep
  <1>3. TypeOK /\ LoopsCounted /\ [Next]_vars
          => [\A t \in Task : ~Stranded(t) /\ Stranded(t)' =>
                \E d \in Dispatcher : dpc[d] = "exit" /\ dpc'[d] = "idle"]_vars
    BY StrandedStep
  <1> QED BY <1>1, <1>2, <1>3, TypeCorrect, PTL DEF Spec, LostOnlyAtExit

----------------------------------------------------------------------------
(* Permits. *)

\* A copy waits on the heap of its task's pool, and is taken by a loop of that pool.
InPool ==
  /\ \A p \in Pool : \A c \in pq[p] : PoolOf(c.id) = p
  /\ \A d \in Dispatcher : Holding(d) => PoolOf(hand[d].id) = dpool[d]

\* A loop holds a permit of its pool; a worker holds the one its loop gave it.
Has(d) == dpc[d] = "pop" \/ Holding(d)
Holders(p) == {d \in Dispatcher : dpool[d] = p /\ Has(d)}
Workers(p) == {w \in Worker : Busy(w) /\ PoolOf(copy[w].id) = p}
PermitsCounted ==
  \A p \in Pool : permits[p] + Cardinality(Holders(p)) + Cardinality(Workers(p)) = Capacity[p]

\* A step that moves no copy between heaps and hands.
LEMMA InPoolStays ==
  ASSUME InPool, UNCHANGED <<pq, hand>>,
         \A d \in Dispatcher : Holding(d)' => Holding(d) /\ dpool'[d] = dpool[d]
  PROVE  InPool'
  BY DEF InPool, PoolOf

\* Every step keeps the copies with their pools.
LEMMA InPoolStep ==
  ASSUME TypeOK, InPool, [Next]_vars
  PROVE  InPool'
  <1>1. CASE \/ \E t \in Task : Elapse(t) \/ ClaimHash(t) \/ CheckCycle(t) \/ SaveNew(t)
                                \/ RegisterHandler(t) \/ Evict(t)
             \/ (\E c \in lingering : Linger(c)) \/ Compact
             \/ UNCHANGED vars
    <2>1. UNCHANGED <<pq, hand, dpc, dpool>>
      BY <1>1 DEF Elapse, ClaimHash, CheckCycle, SaveNew, RegisterHandler, Evict, Linger, Compact, vars,
                  dispatchers
    <2> QED BY <2>1, InPoolStays DEF Holding
  <1>2. CASE \E w \in Worker : WorkerStep(w) \/ Timeout(w)
    <2>1. UNCHANGED <<pq, hand, dpc, dpool>>
      BY <1>2 DEF WorkerStep, Timeout, Check, Call, Return, Reschedule, Retry, Scan, BlockChild,
                  DeadLetter, Complete, Delete, Unhash, Drop, dispatchers
    <2> QED BY <2>1, InPoolStays DEF Holding
  <1>3. CASE \E s \in Sweep : PollRead(s) \/ PollLock(s) \/ PollUnlock(s) \/ PollDone(s)
    <2>1. UNCHANGED <<pq, hand, dpc, dpool>>
      BY <1>3 DEF PollRead, PollLock, PollUnlock, PollDone, dispatchers
    <2> QED BY <2>1, InPoolStays DEF Holding
  <1>4. CASE \E s \in Sweep : \E c \in snap[s] : PollTask(s, c)
    <2> PICK s \in Sweep : \E c \in snap[s] : PollTask(s, c) BY <1>4
    <2> PICK c \in snap[s] : PollTask(s, c) OBVIOUS
    <2>1. UNCHANGED <<hand, dpc, dpool>> BY DEF PollTask, dispatchers
    <2>2. \A p \in Pool : \A b \in pq'[p] : b \in pq[p] \/ (b = c /\ p = PoolOf(c.id))
      <3>1. CASE Eligible(c.id)
        <4>1. pq' = [pq EXCEPT ![PoolOf(c.id)] = pq[PoolOf(c.id)] \cup {c}]
          BY <3>1 DEF PollTask
        <4> QED BY <4>1 DEF TypeOK
      <3>2. CASE ~Eligible(c.id) BY <3>2 DEF PollTask
      <3> QED BY <3>1, <3>2
    <2> QED BY <2>1, <2>2 DEF InPool, PoolOf, Holding
  <1>5. CASE \E s \in Sweep : \E p \in Pool : PollDispatch(s, p)
    <2> PICK s \in Sweep, p \in Pool : PollDispatch(s, p) BY <1>5
    <2>1. UNCHANGED <<pq, hand>> BY DEF PollDispatch
    <2>2. \A d \in Dispatcher : Holding(d)' => Holding(d) /\ dpool'[d] = dpool[d]
      <3>1. CASE RoomForDispatcher(p)
        <4> PICK d \in Dispatcher : /\ dpc[d] = "idle"
                                    /\ dpc' = [dpc EXCEPT ![d] = "acquire"]
                                    /\ dpool' = [dpool EXCEPT ![d] = p]
          BY <3>1 DEF PollDispatch
        <4> QED BY DEF TypeOK, Holding
      <3>2. CASE ~RoomForDispatcher(p) BY <3>2 DEF PollDispatch, Holding
      <3> QED BY <3>1, <3>2
    <2> QED BY <2>1, <2>2, InPoolStays
  <1>6. ASSUME NEW d \in Dispatcher, Pop(d) PROVE InPool'
    <2> PICK c \in pq[dpool[d]] : /\ pq' = [pq EXCEPT ![dpool[d]] = pq[dpool[d]] \ {c}]
                                  /\ hand' = [hand EXCEPT ![d] = c]
                                  /\ dpc' = [dpc EXCEPT ![d] = IF c.id \in Limited THEN "limit" ELSE "move"]
      BY <1>6 DEF Pop
    <2>1. UNCHANGED dpool BY <1>6 DEF Pop
    <2>2. PoolOf(c.id) = dpool[d] BY DEF TypeOK, InPool
    <2>3. \A p \in Pool : pq'[p] \subseteq pq[p] BY DEF TypeOK
    <2>4. \A e \in Dispatcher \ {d} : Holding(e)' => Holding(e) /\ hand'[e] = hand[e]
      BY DEF TypeOK, Holding
    <2>5. hand'[d] = c BY DEF TypeOK
    <2>6. \A p \in Pool : \A b \in pq'[p] : PoolOf(b.id) = p BY <2>3 DEF InPool
    <2>7. \A e \in Dispatcher : Holding(e)' => PoolOf(hand'[e].id) = dpool'[e]
      <3>1. \A e \in Dispatcher \ {d} : Holding(e)' => PoolOf(hand'[e].id) = dpool'[e]
        BY <2>1, <2>4 DEF InPool
      <3>2. PoolOf(hand'[d].id) = dpool'[d] BY <2>1, <2>2, <2>5
      <3> QED BY <3>1, <3>2
    <2> QED BY <2>6, <2>7 DEF InPool, PoolOf
  <1>7. ASSUME NEW d \in Dispatcher, Acquire(d) \/ PopEmpty(d) \/ Grant(d) \/ Deny(d) PROVE InPool'
    <2>1. UNCHANGED <<pq, hand, dpool>>
      BY <1>7 DEF Acquire, PopEmpty, Grant, Deny
    <2>2. \A e \in Dispatcher : Holding(e)' => Holding(e)
      BY <1>7 DEF TypeOK, Acquire, PopEmpty, Grant, Deny, Holding
    <2> QED BY <2>1, <2>2, InPoolStays
  <1>8. ASSUME NEW d \in Dispatcher, Exit(d) PROVE InPool'
    <2>1. UNCHANGED <<pq, hand>> BY <1>8 DEF Exit
    <2>2. \A e \in Dispatcher : Holding(e)' => Holding(e) /\ dpool'[e] = dpool[e]
      BY <1>8 DEF TypeOK, Exit, Holding
    <2> QED BY <2>1, <2>2, InPoolStays
  <1>9. ASSUME NEW d \in Dispatcher, Unqueue(d) \/ Move(d) PROVE InPool'
    <2>1. /\ UNCHANGED <<pq, dpool>>
          /\ hand' = [hand EXCEPT ![d] = None] /\ dpc' = [dpc EXCEPT ![d] = "acquire"]
      BY <1>9 DEF Unqueue, Move
    <2>2. \A e \in Dispatcher : Holding(e)' => Holding(e) /\ hand'[e] = hand[e]
      BY <2>1 DEF TypeOK, Holding
    <2>3. \A e \in Dispatcher : Holding(e)' => PoolOf(hand'[e].id) = dpool'[e]
      BY <2>1, <2>2 DEF InPool
    <2> QED BY <2>1, <2>3 DEF InPool, PoolOf
  <1>10. CASE Restart
    BY <1>10 DEF Restart, InPool, Holding
  <1> QED BY <1>1, <1>2, <1>3, <1>4, <1>5, <1>6, <1>7, <1>8, <1>9, <1>10
          DEF Next, SweepStep, DispatcherStep
\* The workers of a pool stay the same when no worker starts or ends.
LEMMA SameWorkers ==
  ASSUME \A w \in Worker : Busy(w)' <=> Busy(w), \A w \in Worker : Busy(w) => copy'[w] = copy[w],
         NEW p \in Pool
  PROVE  Workers(p)' = Workers(p)
  BY DEF Workers, PoolOf

\* Steps that move no permit.
LEMMA SamePermits ==
  ASSUME PermitsCounted, UNCHANGED permits,
         \A d \in Dispatcher : Has(d)' <=> Has(d),
         \A d \in Dispatcher : Has(d) => dpool'[d] = dpool[d],
         \A w \in Worker : Busy(w)' <=> Busy(w),
         \A w \in Worker : Busy(w) => copy'[w] = copy[w]
  PROVE  PermitsCounted'
  <1>1. \A p \in Pool : Holders(p)' = Holders(p) BY DEF Holders
  <1>2. \A p \in Pool : Workers(p)' = Workers(p) BY SameWorkers
  <1> QED BY <1>1, <1>2 DEF PermitsCounted

\* The sets that are counted are finite.
LEMMA Finite ==
  ASSUME IsFiniteSet(Dispatcher), IsFiniteSet(Worker), NEW p \in Pool
  PROVE  /\ IsFiniteSet(Holders(p)) /\ Cardinality(Holders(p)) \in Nat
         /\ IsFiniteSet(Workers(p)) /\ Cardinality(Workers(p)) \in Nat
  <1>1. Holders(p) \in SUBSET Dispatcher /\ Workers(p) \in SUBSET Worker BY DEF Holders, Workers
  <1>2. IsFiniteSet(Holders(p)) /\ IsFiniteSet(Workers(p)) BY <1>1, FS_Subset
  <1> QED BY <1>2, FS_CardinalityType

\* A loop takes a permit of its pool, or gives one back.
LEMMA LoopMovesPermit ==
  ASSUME IsFiniteSet(Dispatcher), IsFiniteSet(Worker), TypeOK, PermitsCounted,
         NEW d \in Dispatcher, UNCHANGED dpool,
         \A e \in Dispatcher \ {d} : Has(e)' <=> Has(e),
         \A w \in Worker : Busy(w)' <=> Busy(w), \A w \in Worker : Busy(w) => copy'[w] = copy[w],
         \/ Has(d)' /\ ~Has(d) /\ permits' = [permits EXCEPT ![dpool[d]] = permits[dpool[d]] - 1]
         \/ ~Has(d)' /\ Has(d) /\ permits' = [permits EXCEPT ![dpool[d]] = permits[dpool[d]] + 1]
  PROVE  PermitsCounted'
  <1> SUFFICES ASSUME NEW p \in Pool
               PROVE  permits'[p] + Cardinality(Holders(p)') + Cardinality(Workers(p)') = Capacity[p]
    BY DEF PermitsCounted
  <1>1. Workers(p)' = Workers(p) BY SameWorkers
  <1>2. permits[p] + Cardinality(Holders(p)) + Cardinality(Workers(p)) = Capacity[p]
    BY DEF PermitsCounted
  <1>3. /\ IsFiniteSet(Holders(p)) /\ Cardinality(Holders(p)) \in Nat
        /\ Cardinality(Workers(p)) \in Nat /\ permits[p] \in Int
    BY Finite DEF TypeOK
  <1>4. CASE p # dpool[d]
    <2>1. Holders(p)' = Holders(p) BY <1>4 DEF Holders
    <2>2. permits'[p] = permits[p] BY <1>4 DEF TypeOK
    <2> QED BY <1>1, <1>2, <2>1, <2>2
  <1>5. CASE p = dpool[d] /\ Has(d)' /\ ~Has(d)
    <2>1. Holders(p)' = Holders(p) \cup {d} /\ d \notin Holders(p) BY <1>5 DEF Holders
    <2>2. Cardinality(Holders(p)') = Cardinality(Holders(p)) + 1 BY <1>3, <2>1, Plus
    <2>3. permits'[p] = permits[p] - 1 BY <1>5 DEF TypeOK
    <2> QED BY <1>1, <1>2, <1>3, <2>2, <2>3
  <1>6. CASE p = dpool[d] /\ ~Has(d)' /\ Has(d)
    <2>1. Holders(p)' = Holders(p) \ {d} /\ d \in Holders(p) BY <1>6 DEF Holders
    <2>2. Cardinality(Holders(p)') = Cardinality(Holders(p)) - 1 BY <1>3, <2>1, Minus
    <2>3. permits'[p] = permits[p] + 1 BY <1>6 DEF TypeOK
    <2> QED BY <1>1, <1>2, <1>3, <2>2, <2>3
  <1> QED BY <1>4, <1>5, <1>6

\* A worker ends and gives its permit back.
LEMMA WorkerReturnsPermit ==
  ASSUME IsFiniteSet(Dispatcher), IsFiniteSet(Worker), TypeOK, PermitsCounted,
         NEW w \in Worker, Busy(w), UNCHANGED <<dpc, dpool>>, Leave(w)
  PROVE  PermitsCounted'
  <1> DEFINE P == PoolOf(copy[w].id)
  <1>1. /\ wpc' = [wpc EXCEPT ![w] = "idle"] /\ copy' = [copy EXCEPT ![w] = None]
        /\ permits' = [permits EXCEPT ![P] = permits[P] + 1]
    BY DEF Leave, Goto, Refund
  <1>2. ~Busy(w)' /\ \A v \in Worker \ {w} : (Busy(v)' <=> Busy(v)) /\ copy'[v] = copy[v]
    BY <1>1 DEF TypeOK, Busy
  <1>3. \A d \in Dispatcher : Has(d)' <=> Has(d) BY DEF Has, Holding
  <1> SUFFICES ASSUME NEW p \in Pool
               PROVE  permits'[p] + Cardinality(Holders(p)') + Cardinality(Workers(p)') = Capacity[p]
    BY DEF PermitsCounted
  <1>4. Holders(p)' = Holders(p) BY <1>3 DEF Holders
  <1>5. permits[p] + Cardinality(Holders(p)) + Cardinality(Workers(p)) = Capacity[p]
    BY DEF PermitsCounted
  <1>6. /\ IsFiniteSet(Workers(p)) /\ Cardinality(Holders(p)) \in Nat
        /\ Cardinality(Workers(p)) \in Nat /\ permits[p] \in Int
    BY Finite DEF TypeOK
  <1>7. CASE p = P
    <2>1. Workers(p)' = Workers(p) \ {w} /\ w \in Workers(p) BY <1>2, <1>7 DEF Workers, PoolOf
    <2>2. Cardinality(Workers(p)') = Cardinality(Workers(p)) - 1 BY <1>6, <2>1, Minus
    <2>3. permits'[p] = permits[p] + 1 BY <1>1, <1>7 DEF TypeOK
    <2> QED BY <1>4, <1>5, <1>6, <2>2, <2>3
  <1>8. CASE p # P
    <2>1. Workers(p)' = Workers(p) BY <1>2, <1>8 DEF Workers, PoolOf
    <2>2. permits'[p] = permits[p] BY <1>1, <1>8 DEF TypeOK
    <2> QED BY <1>4, <1>5, <2>1, <2>2
  <1> QED BY <1>7, <1>8

\* A loop gives its permit, with the copy, to a worker it starts.
LEMMA MovePassesPermit ==
  ASSUME IsFiniteSet(Dispatcher), IsFiniteSet(Worker), TypeOK, InPool, PermitsCounted,
         NEW d \in Dispatcher, Move(d), hand[d].id \notin executing
  PROVE  PermitsCounted'
  <1> PICK w \in Worker : /\ wpc[w] = "idle"
                          /\ wpc' = [wpc EXCEPT ![w] = "check"]
                          /\ copy' = [copy EXCEPT ![w] = hand[d]]
    BY DEF Move
  <1>1. /\ UNCHANGED <<permits, dpool>> /\ dpc[d] = "move" /\ dpc' = [dpc EXCEPT ![d] = "acquire"]
    BY DEF Move
  <1>2. /\ Has(d) /\ ~Has(d)' /\ \A e \in Dispatcher \ {d} : Has(e)' <=> Has(e)
    BY <1>1 DEF TypeOK, Has, Holding
  <1>3. /\ ~Busy(w) /\ Busy(w)' /\ copy'[w] = hand[d]
        /\ \A v \in Worker \ {w} : (Busy(v)' <=> Busy(v)) /\ copy'[v] = copy[v]
    BY DEF TypeOK, Busy
  <1>4. PoolOf(hand[d].id) = dpool[d] BY <1>1 DEF InPool, Holding
  <1> SUFFICES ASSUME NEW p \in Pool
               PROVE  permits'[p] + Cardinality(Holders(p)') + Cardinality(Workers(p)') = Capacity[p]
    BY DEF PermitsCounted
  <1>5. permits[p] + Cardinality(Holders(p)) + Cardinality(Workers(p)) = Capacity[p]
    BY DEF PermitsCounted
  <1>6. /\ IsFiniteSet(Workers(p)) /\ IsFiniteSet(Holders(p)) /\ Cardinality(Holders(p)) \in Nat
        /\ Cardinality(Workers(p)) \in Nat /\ permits[p] \in Int /\ permits'[p] = permits[p]
    BY <1>1, Finite DEF TypeOK
  <1>7. CASE p = dpool[d]
    <2>1. Workers(p)' = Workers(p) \cup {w} /\ w \notin Workers(p)
      BY <1>3, <1>4, <1>7 DEF Workers, PoolOf
    <2>2. Cardinality(Workers(p)') = Cardinality(Workers(p)) + 1 BY <1>6, <2>1, Plus
    <2>3. Holders(p)' = Holders(p) \ {d} /\ d \in Holders(p) BY <1>1, <1>2, <1>7 DEF Holders
    <2>4. Cardinality(Holders(p)') = Cardinality(Holders(p)) - 1 BY <1>6, <2>3, Minus
    <2> QED BY <1>5, <1>6, <2>2, <2>4
  <1>8. CASE p # dpool[d]
    <2>1. Workers(p)' = Workers(p) BY <1>3, <1>4, <1>8 DEF Workers, PoolOf
    <2>2. Holders(p)' = Holders(p) BY <1>1, <1>2, <1>8 DEF Holders
    <2> QED BY <1>5, <1>6, <2>1, <2>2
  <1> QED BY <1>7, <1>8
\* The steps of a loop.
LEMMA LoopPermits ==
  ASSUME IsFiniteSet(Dispatcher), IsFiniteSet(Worker), TypeOK, InPool, PermitsCounted,
         NEW d \in Dispatcher, DispatcherStep(d)
  PROVE  PermitsCounted'
  <1>1. CASE Pop(d) \/ Grant(d) \/ Deny(d)
    <2>1. UNCHANGED <<permits, dpool, wpc, copy>> BY <1>1 DEF Pop, Grant, Deny, workers
    <2>2. /\ dpc[d] \in {"pop", "limit"}
          /\ \E pc \in {"limit", "move", "unqueue"} : dpc' = [dpc EXCEPT ![d] = pc]
      BY <1>1 DEF Pop, Grant, Deny
    <2>3. \A e \in Dispatcher : Has(e)' <=> Has(e) BY <2>2 DEF TypeOK, Has, Holding
    <2> QED BY <2>1, <2>3, SamePermits DEF Busy
  <1>2. CASE Exit(d)
    <2>1. UNCHANGED <<permits, wpc, copy>> BY <1>2 DEF Exit, workers
    <2>2. \A e \in Dispatcher : (Has(e)' <=> Has(e)) /\ (Has(e) => dpool'[e] = dpool[e])
      BY <1>2 DEF TypeOK, Exit, Has, Holding
    <2> QED BY <2>1, <2>2, SamePermits DEF Busy
  <1>3. CASE Acquire(d)
    <2>1. /\ permits' = [permits EXCEPT ![dpool[d]] = permits[dpool[d]] - 1]
          /\ UNCHANGED <<dpool, wpc, copy>>
          /\ dpc[d] = "acquire" /\ dpc' = [dpc EXCEPT ![d] = "pop"]
      BY <1>3 DEF Acquire, workers
    <2>2. Has(d)' /\ ~Has(d) /\ \A e \in Dispatcher \ {d} : Has(e)' <=> Has(e)
      BY <2>1 DEF TypeOK, Has, Holding
    <2> QED BY <2>1, <2>2, LoopMovesPermit DEF Busy
  <1>4. CASE PopEmpty(d) \/ Unqueue(d) \/ (Move(d) /\ hand[d].id \in executing)
    <2>1. /\ permits' = [permits EXCEPT ![dpool[d]] = permits[dpool[d]] + 1]
          /\ UNCHANGED <<dpool, wpc, copy>>
          /\ dpc[d] \in {"pop", "unqueue", "move"}
          /\ \E pc \in {"exit", "acquire"} : dpc' = [dpc EXCEPT ![d] = pc]
      BY <1>4 DEF PopEmpty, Unqueue, Move, Refund, workers
    <2>2. ~Has(d)' /\ Has(d) /\ \A e \in Dispatcher \ {d} : Has(e)' <=> Has(e)
      BY <2>1 DEF TypeOK, Has, Holding
    <2> QED BY <2>1, <2>2, LoopMovesPermit DEF Busy
  <1>5. CASE Move(d) /\ hand[d].id \notin executing BY <1>5, MovePassesPermit
  <1> QED BY <1>1, <1>2, <1>3, <1>4, <1>5 DEF DispatcherStep

\* The steps of a worker.
LEMMA WorkerPermits ==
  ASSUME IsFiniteSet(Dispatcher), IsFiniteSet(Worker), TypeOK, PermitsCounted,
         NEW w \in Worker, WorkerStep(w) \/ Timeout(w)
  PROVE  PermitsCounted'
  <1>1. CASE (Check(w) /\ SkipCompleted(copy[w].id)) \/ Drop(w)
    <2>1. UNCHANGED <<dpc, dpool>> /\ Leave(w) /\ Busy(w) BY <1>1 DEF Check, Drop, Busy
    <2> QED BY <2>1, WorkerReturnsPermit
  <1>2. CASE Check(w) /\ ~SkipCompleted(copy[w].id)
    <2>1. UNCHANGED <<dpc, dpool, hand, permits, copy>> /\ \A v \in Worker : Busy(v)' <=> Busy(v)
      BY <1>2 DEF TypeOK, Check, Goto, Busy
    <2> QED BY <2>1, SamePermits DEF Has, Holding
  <1>3. CASE \/ Call(w) \/ Return(w) \/ Timeout(w) \/ Reschedule(w) \/ Retry(w) \/ Scan(w)
             \/ (\E t \in Task : BlockChild(w, t)) \/ DeadLetter(w) \/ Complete(w) \/ Delete(w)
             \/ Unhash(w)
    <2>1. UNCHANGED <<dpc, dpool, permits, copy>>
      BY <1>3 DEF Call, Return, Timeout, Reschedule, Retry, Scan, BlockChild, DeadLetter, Complete,
                  Delete, Unhash, dispatchers
    <2>2. \A v \in Worker : Busy(v)' <=> Busy(v)
      BY <1>3 DEF TypeOK, Busy, Call, Return, Timeout, Reschedule, Retry, Scan, BlockChild,
                  DeadLetter, Complete, Delete, Unhash, Goto
    <2> QED BY <2>1, <2>2, SamePermits DEF Has, Holding
  <1> QED BY <1>1, <1>2, <1>3 DEF WorkerStep

\* Every step keeps the account of the permits.
LEMMA PermitsStep ==
  ASSUME IsFiniteSet(Dispatcher), IsFiniteSet(Worker), TypeOK, InPool, PermitsCounted, [Next]_vars
  PROVE  PermitsCounted'
  <1>1. CASE \/ \E t \in Task : Elapse(t) \/ ClaimHash(t) \/ CheckCycle(t) \/ SaveNew(t)
                                \/ RegisterHandler(t) \/ Evict(t)
             \/ (\E c \in lingering : Linger(c)) \/ Compact
             \/ UNCHANGED vars
    <2>1. UNCHANGED <<permits, dpc, dpool, wpc, copy>>
      BY <1>1 DEF Elapse, ClaimHash, CheckCycle, SaveNew, RegisterHandler, Evict, Linger, Compact, vars,
                  dispatchers, workers
    <2> QED BY <2>1, SamePermits DEF Has, Holding, Busy
  <1>2. CASE \E s \in Sweep : PollRead(s) \/ PollLock(s) \/ (\E c \in snap[s] : PollTask(s, c))
                              \/ PollUnlock(s) \/ PollDone(s)
    <2>1. UNCHANGED <<permits, dpc, dpool, wpc, copy>>
      BY <1>2 DEF PollRead, PollLock, PollTask, PollUnlock, PollDone, dispatchers, workers
    <2> QED BY <2>1, SamePermits DEF Has, Holding, Busy
  <1>3. CASE \E s \in Sweep : \E p \in Pool : PollDispatch(s, p)
    <2> PICK s \in Sweep, p \in Pool : PollDispatch(s, p) BY <1>3
    <2>1. UNCHANGED <<permits, wpc, copy>> BY DEF PollDispatch, workers
    <2>2. \A d \in Dispatcher : (Has(d)' <=> Has(d)) /\ (Has(d) => dpool'[d] = dpool[d])
      <3>1. CASE RoomForDispatcher(p)
        <4> PICK d \in Dispatcher : /\ dpc[d] = "idle"
                                    /\ dpc' = [dpc EXCEPT ![d] = "acquire"]
                                    /\ dpool' = [dpool EXCEPT ![d] = p]
          BY <3>1 DEF PollDispatch
        <4> QED BY DEF TypeOK, Has, Holding
      <3>2. CASE ~RoomForDispatcher(p) BY <3>2 DEF PollDispatch, Has, Holding
      <3> QED BY <3>1, <3>2
    <2> QED BY <2>1, <2>2, SamePermits DEF Busy
  <1>4. CASE \E d \in Dispatcher : DispatcherStep(d) BY <1>4, LoopPermits
  <1>5. CASE \E w \in Worker : WorkerStep(w) \/ Timeout(w) BY <1>5, WorkerPermits
  <1>6. CASE Restart
    <2>1. \A p \in Pool : Holders(p)' = {} /\ Workers(p)' = {} /\ permits'[p] = Capacity[p]
      BY <1>6 DEF Restart, Holders, Workers, Has, Holding, Busy
    <2>2. \A p \in Pool : Cardinality(Holders(p)') = 0 /\ Cardinality(Workers(p)') = 0
      BY <2>1, Empty
    <2>3. \A p \in Pool : Capacity[p] + 0 + 0 = Capacity[p] OBVIOUS
    <2> QED BY <2>1, <2>2, <2>3 DEF PermitsCounted
  <1> QED BY <1>1, <1>2, <1>3, <1>4, <1>5, <1>6 DEF Next, SweepStep

\* Every permit of a pool is free, with a loop or with a worker: on no path of the dispatcher
\* or of execute_task is one leaked or returned twice (queue.rs:340-391).
THEOREM PermitsAreAccounted ==
  ASSUME IsFiniteSet(Dispatcher), IsFiniteSet(Worker)
  PROVE  Spec => []PermitsAccounted
  <1>1. Init => InPool /\ PermitsCounted
    <2>1. Init => \A p \in Pool : Holders(p) = {} /\ Workers(p) = {} /\ permits[p] = Capacity[p]
      BY DEF Init, Holders, Workers, Has, Holding, Busy
    <2>2. Init => \A p \in Pool : Cardinality(Holders(p)) = 0 /\ Cardinality(Workers(p)) = 0
      BY <2>1, Empty
    <2>3. Init => PermitsCounted
      <3>1. \A p \in Pool : Capacity[p] + 0 + 0 = Capacity[p] OBVIOUS
      <3> QED BY <2>1, <2>2, <3>1 DEF PermitsCounted
    <2>4. Init => InPool BY DEF Init, InPool, Holding
    <2> QED BY <2>3, <2>4
  <1>2. TypeOK /\ InPool /\ PermitsCounted /\ [Next]_vars => InPool' /\ PermitsCounted'
    BY InPoolStep, PermitsStep
  <1>3. PermitsCounted => PermitsAccounted
    BY DEF PermitsCounted, PermitsAccounted, Holders, Workers, Has
  <1> QED BY <1>1, <1>2, <1>3, TypeCorrect, PTL DEF Spec
=============================================================================
