-------------------------- MODULE QueueLifeProofs --------------------------
(***************************************************************************)
(* What becomes of a task of Queue, for any number of tasks, pools, sweeps *)
(* and workers: when its record may go, whether it runs again, what it     *)
(* runs after, which tasks are pending together, what it leaves behind,    *)
(* and that all of this is the life of a task in TaskLife.  Each theorem   *)
(* says under which use of the queue, and which faults, it holds.          *)
(***************************************************************************)
EXTENDS QueueProofs

USE DepsAssumption, HashAssumption, PoolAssumption, RetryAssumption, KindAssumption,
    SwitchAssumption, BoundAssumption, NoneAssumption

\* A copy of t is past the tests of the sweep, or anywhere in the engine.
Started(t) ==
  \/ \E p \in Pool : \E c \in pq[p] : c.id = t
  \/ \E d \in Dispatcher : Holding(d) /\ hand[d].id = t
  \/ \E w \in Worker : Busy(w) /\ copy[w].id = t
Read(t) == \E s \in Sweep : \E c \in snap[s] : c.id = t
Carried(t) == Read(t) \/ Started(t)

\* A step of a worker is about its own copy.
LEMMA AtWork ==
  ASSUME TypeOK, NEW w \in Worker, WorkerStep(w) \/ Timeout(w)
  PROVE  Busy(w) /\ copy[w] \in Copy /\ copy[w].id \in Task /\ Started(copy[w].id)
  <1>1. Busy(w)
    BY DEF WorkerStep, Timeout, Check, Call, Return, Reschedule, Retry, Scan, BlockChild,
           DeadLetter, Complete, Delete, Unhash, Drop, Busy
  <1> QED BY <1>1 DEF TypeOK, Copy, Started

\* No copy moves in these steps.
LEMMA StartedStays ==
  ASSUME NEW t, UNCHANGED <<pq, hand, copy>>,
         \A d \in Dispatcher : Holding(d)' => Holding(d), \A w \in Worker : Busy(w)' => Busy(w)
  PROVE  Started(t)' => Started(t)
  BY DEF Started

\* A task gets past the tests of a sweep only by passing them.
LEMMA StartedStep ==
  ASSUME TypeOK, [Next]_vars, NEW t \in Task, Started(t)', ~Started(t)
  PROVE  \E s \in Sweep : \E c \in snap[s] : c.id = t /\ PollTask(s, c) /\ Eligible(t)
  <1>1. CASE \/ \E u \in Task : Elapse(u) \/ ClaimHash(u) \/ CheckCycle(u) \/ SaveNew(u)
                                \/ RegisterHandler(u) \/ Evict(u)
             \/ (\E c \in lingering : Linger(c)) \/ Compact
             \/ UNCHANGED vars
    <2>1. UNCHANGED <<pq, hand, dpc, wpc, copy>>
      BY <1>1 DEF Elapse, ClaimHash, CheckCycle, SaveNew, RegisterHandler, Evict, Linger, Compact, vars,
                  dispatchers, workers
    <2> QED BY <2>1, StartedStays DEF Holding, Busy
  <1>2. CASE \E s \in Sweep : PollRead(s) \/ PollLock(s) \/ PollUnlock(s) \/ PollDone(s)
    <2>1. UNCHANGED <<pq, hand, dpc, wpc, copy>>
      BY <1>2 DEF PollRead, PollLock, PollUnlock, PollDone, dispatchers, workers
    <2> QED BY <2>1, StartedStays DEF Holding, Busy
  <1>3. CASE \E s \in Sweep : \E p \in Pool : PollDispatch(s, p)
    <2> PICK s \in Sweep, p \in Pool : PollDispatch(s, p) BY <1>3
    <2>1. UNCHANGED <<pq, hand, wpc, copy>> BY DEF PollDispatch, workers
    <2>2. \A d \in Dispatcher : Holding(d)' => Holding(d)
      <3>1. UNCHANGED dpc \/ \E d \in Dispatcher : dpc' = [dpc EXCEPT ![d] = "acquire"]
        BY DEF PollDispatch
      <3> QED BY <3>1 DEF TypeOK, Holding
    <2> QED BY <2>1, <2>2, StartedStays DEF Busy
  <1>4. CASE \E s \in Sweep : \E c \in snap[s] : PollTask(s, c)
    <2> PICK s \in Sweep : \E c \in snap[s] : PollTask(s, c) BY <1>4
    <2> PICK c \in snap[s] : PollTask(s, c) OBVIOUS
    <2>1. UNCHANGED <<hand, dpc, wpc, copy>> BY DEF PollTask, dispatchers, workers
    <2>2. CASE ~Eligible(c.id)
      <3>1. UNCHANGED pq BY <2>2 DEF PollTask
      <3> QED BY <2>1, <3>1, StartedStays DEF Holding, Busy
    <2>3. CASE Eligible(c.id)
      <3>1. pq' = [pq EXCEPT ![PoolOf(c.id)] = pq[PoolOf(c.id)] \cup {c}] BY <2>3 DEF PollTask
      <3>2. \A p \in Pool : \A b \in pq'[p] : b \in pq[p] \/ b = c BY <3>1 DEF TypeOK
      <3>3. c.id = t BY <2>1, <3>2 DEF Started, Holding, Busy
      <3> QED BY <2>3, <3>3
    <2> QED BY <2>2, <2>3
  <1>5. ASSUME NEW d \in Dispatcher, DispatcherStep(d), ~Pop(d), ~Move(d) PROVE FALSE
    <2>1. UNCHANGED <<pq, wpc, copy>>
      BY <1>5 DEF DispatcherStep, Acquire, PopEmpty, Exit, Grant, Deny, Unqueue, workers
    <2>2. \A e \in Dispatcher : Holding(e)' => Holding(e) /\ hand'[e] = hand[e]
      <3>1. CASE Unqueue(d) BY <3>1 DEF TypeOK, Unqueue, Holding
      <3>2. CASE ~Unqueue(d)
        BY <1>5, <3>2 DEF TypeOK, DispatcherStep, Acquire, PopEmpty, Exit, Grant, Deny, Holding
      <3> QED BY <3>1, <3>2
    <2> QED BY <2>1, <2>2 DEF Started, Busy
  <1>6. ASSUME NEW d \in Dispatcher, Pop(d) PROVE FALSE
    <2> PICK c \in pq[dpool[d]] : /\ pq' = [pq EXCEPT ![dpool[d]] = pq[dpool[d]] \ {c}]
                                  /\ hand' = [hand EXCEPT ![d] = c]
                                  /\ dpc' = [dpc EXCEPT ![d] = IF c.id \in Limited THEN "limit" ELSE "move"]
      BY <1>6 DEF Pop
    <2>1. UNCHANGED <<wpc, copy>> /\ dpool[d] \in Pool BY <1>6 DEF TypeOK, Pop, workers
    <2>2. \A p \in Pool : pq'[p] \subseteq pq[p] BY DEF TypeOK
    <2>3. \A e \in Dispatcher : e # d /\ Holding(e)' => Holding(e) /\ hand'[e] = hand[e]
      BY DEF TypeOK, Holding
    <2>4. hand'[d] = c BY DEF TypeOK
    <2> QED BY <2>1, <2>2, <2>3, <2>4 DEF Started, Busy
  <1>7. ASSUME NEW d \in Dispatcher, Move(d) PROVE FALSE
    <2>1. UNCHANGED pq /\ Holding(d) /\ hand' = [hand EXCEPT ![d] = None]
          /\ dpc' = [dpc EXCEPT ![d] = "acquire"]
      BY <1>7 DEF Move, Holding
    <2>2. \A e \in Dispatcher : Holding(e)' => Holding(e) /\ hand'[e] = hand[e]
      BY <2>1 DEF TypeOK, Holding
    <2>3. \A v \in Worker : Busy(v)' => (Busy(v) /\ copy'[v] = copy[v]) \/ copy'[v] = hand[d]
      <3>1. CASE hand[d].id \in executing BY <1>7, <3>1 DEF Move, Busy
      <3>2. CASE hand[d].id \notin executing
        <4> PICK w \in Worker : /\ wpc[w] = "idle"
                                /\ wpc' = [wpc EXCEPT ![w] = "check"]
                                /\ copy' = [copy EXCEPT ![w] = hand[d]]
          BY <1>7, <3>2 DEF Move
        <4> QED BY DEF TypeOK, Busy
      <3> QED BY <3>1, <3>2
    <2> QED BY <2>1, <2>2, <2>3 DEF Started
  <1>8. ASSUME NEW w \in Worker, WorkerStep(w) \/ Timeout(w) PROVE FALSE
    <2>1. UNCHANGED <<pq, hand, dpc>>
      BY <1>8 DEF WorkerStep, Timeout, Check, Call, Return, Reschedule, Retry, Scan, BlockChild,
                  DeadLetter, Complete, Delete, Unhash, Drop, dispatchers
    <2>2. UNCHANGED copy \/ Leave(w)
      BY <1>8 DEF WorkerStep, Timeout, Check, Call, Return, Reschedule, Retry, Scan, BlockChild,
                  DeadLetter, Complete, Delete, Unhash, Drop
    <2>3. \A v \in Worker : v # w => wpc'[v] = wpc[v]
      BY <1>8 DEF WorkerStep, Timeout, Check, Call, Return, Reschedule, Retry, Scan, BlockChild,
                  DeadLetter, Complete, Delete, Unhash, Drop, Goto, Leave, TypeOK
    <2>4. \A v \in Worker : Busy(v)' => Busy(v) /\ copy'[v] = copy[v]
      <3>1. CASE UNCHANGED copy BY <3>1, <2>3, <1>8, AtWork DEF Busy
      <3>2. CASE Leave(w) BY <3>2 DEF TypeOK, Leave, Goto, Busy
      <3> QED BY <2>2, <3>1, <3>2
    <2> QED BY <2>1, <2>4 DEF Started, Holding
  <1>9. CASE Restart BY <1>9 DEF Restart, Started, Holding, Busy
  <1> QED BY <1>1, <1>2, <1>3, <1>4, <1>5, <1>6, <1>7, <1>8, <1>9 DEF Next, SweepStep

\* What a sweep knows of a task it has read from the store.
LEMMA ReadStep ==
  ASSUME TypeOK, [Next]_vars, NEW t \in Task, Read(t)', ~Read(t)
  PROVE  t \in Stored
  <1>1. CASE \E s \in Sweep : PollRead(s)
    <2> PICK s \in Sweep : PollRead(s) BY <1>1
    <2>1. \A r \in Sweep : \A c \in snap'[r] :
            c \in snap[r] \/ c \in {[id |-> u, rc |-> store[u].rc] : u \in {v \in Stored : store[v].due}}
      BY DEF TypeOK, PollRead
    <2> QED BY <2>1 DEF Read
  <1>2. CASE \A s \in Sweep : snap'[s] \subseteq snap[s] BY <1>2 DEF Read
  <1>3. CASE \E s \in Sweep : PollLock(s) \/ (\E c \in snap[s] : PollTask(s, c)) \/ PollUnlock(s)
                              \/ (\E p \in Pool : PollDispatch(s, p)) \/ PollDone(s)
    <2>1. \A s \in Sweep : snap'[s] \subseteq snap[s]
      BY <1>3 DEF TypeOK, PollLock, PollTask, PollUnlock, PollDispatch, PollDone
    <2> QED BY <2>1, <1>2
  <1>4. CASE \/ \E u \in Task : Elapse(u) \/ ClaimHash(u) \/ CheckCycle(u) \/ SaveNew(u)
                                \/ RegisterHandler(u) \/ Evict(u)
             \/ (\E c \in lingering : Linger(c)) \/ Compact
             \/ UNCHANGED vars
    <2>1. UNCHANGED snap
      BY <1>4 DEF Elapse, ClaimHash, CheckCycle, SaveNew, RegisterHandler, Evict, Linger, Compact, vars, sweeps
    <2> QED BY <2>1, <1>2
  <1>5. CASE \E d \in Dispatcher : DispatcherStep(d)
    <2>1. UNCHANGED snap
      BY <1>5 DEF DispatcherStep, Acquire, Pop, PopEmpty, Exit, Grant, Deny, Unqueue, Move, sweeps
    <2> QED BY <2>1, <1>2
  <1>6. CASE \E w \in Worker : WorkerStep(w) \/ Timeout(w)
    <2>1. UNCHANGED snap
      BY <1>6 DEF WorkerStep, Timeout, Check, Call, Return, Reschedule, Retry, Scan, BlockChild,
                  DeadLetter, Complete, Delete, Unhash, Drop, sweeps
    <2> QED BY <2>1, <1>2
  <1>7. CASE Restart BY <1>7, <1>2 DEF Restart
  <1> QED BY <1>1, <1>3, <1>4, <1>5, <1>6, <1>7 DEF Next, SweepStep

\* A copy of a task comes from the store.
LEMMA CarriedStep ==
  ASSUME TypeOK, [Next]_vars, NEW t \in Task, Carried(t)', ~Carried(t)
  PROVE  t \in Stored
  <1>1. CASE Read(t)' BY <1>1, ReadStep DEF Carried
  <1>2. CASE Started(t)' /\ ~Started(t)
    <2>1. Read(t) BY <1>2, StartedStep DEF Read
    <2> QED BY <2>1 DEF Carried
  <1> QED BY <1>1, <1>2 DEF Carried

\* A worker deletes, or saves, the record of a task.
Ends(w, t) == (Delete(w) /\ copy[w].id = t) \/ BlockChild(w, t)
Saves(w, t) == (Retry(w) \/ Reschedule(w)) /\ copy[w].id = t

\* A write is about one task.
LEMMA WriteIsLocal ==
  ASSUME TypeOK, NEW u, NEW r, Write(u, r),
         NEW t \in Task, store'[t] # store[t] \/ doubt'[t] # doubt[t]
  PROVE  u = t
  <1>1. CASE store' = [store EXCEPT ![u] = r] /\ doubt' = [doubt EXCEPT ![u] = {}]
    BY <1>1 DEF TypeOK
  <1>2. CASE doubt' = [doubt EXCEPT ![u] = @ \cup {r}] /\ UNCHANGED store
    BY <1>2 DEF TypeOK
  <1> QED BY <1>1, <1>2 DEF Write

\* What a write does to the record of its task.
LEMMA WriteIsDone ==
  ASSUME TypeOK, NEW t \in Task, NEW r, Write(t, r)
  PROVE  \/ store'[t] = r /\ doubt'[t] = {}
         \/ WritesFail /\ store'[t] = store[t] /\ doubt'[t] = doubt[t] \cup {r}
  <1>1. CASE store' = [store EXCEPT ![t] = r] /\ doubt' = [doubt EXCEPT ![t] = {}]
    BY <1>1 DEF TypeOK
  <1>2. CASE WritesFail /\ doubt' = [doubt EXCEPT ![t] = @ \cup {r}] /\ UNCHANGED store
    BY <1>2 DEF TypeOK
  <1> QED BY <1>1, <1>2 DEF Write

\* A reading of the log again settles every doubt.
LEMMA RereadIsDone ==
  ASSUME TypeOK, Reread, NEW t \in Task
  PROVE  store'[t] \in {store[t]} \cup doubt[t] /\ doubt'[t] = {}
  BY DEF Reread, NoDoubt

\* Who writes, or may have written, the record of a task.
Saving(t) ==
  \/ SaveNew(t)
  \/ \E d \in Dispatcher : Deny(d) /\ hand[d].id = t
  \/ \E w \in Worker : Saves(w, t)

LEMMA WriterStep ==
  ASSUME TypeOK, [Next]_vars, NEW t \in Task, store'[t] # store[t] \/ doubt'[t] # doubt[t]
  PROVE  \/ t \in Stored /\ store'[t] # None /\ Elapse(t) /\ UNCHANGED doubt
         \/ Saving(t) /\ \E r \in Record : Write(t, r)
         \/ (\E w \in Worker : Ends(w, t)) /\ Write(t, None)
         \/ Reread /\ (Compact \/ Restart)
  <1>1. CASE UNCHANGED <<store, doubt>> BY <1>1
  <1>2. ASSUME NEW u \in Task, Elapse(u)
        PROVE  t \in Stored /\ store'[t] # None /\ Elapse(t) /\ UNCHANGED doubt
    <2>1. u = t /\ UNCHANGED doubt BY <1>2 DEF TypeOK, Elapse, environment
    <2>2. store[u] \in Record BY <1>2 DEF TypeOK, Elapse, Stored
    <2>3. [store[u] EXCEPT !.due = TRUE] \in Record BY <2>2 DEF Record
    <2>4. store'[u] = [store[u] EXCEPT !.due = TRUE] BY <1>2 DEF TypeOK, Elapse
    <2> QED BY <1>2, <2>1, <2>3, <2>4 DEF Elapse
  <1>3. ASSUME NEW u \in Task, SaveNew(u) PROVE Saving(t) /\ \E r \in Record : Write(t, r)
    <2>1. PICK due \in BOOLEAN : Write(u, [rc |-> 0, due |-> due]) BY <1>3 DEF SaveNew, Write
    <2>2. [rc |-> 0, due |-> due] \in Record BY DEF Record
    <2> QED BY <1>3, <2>1, <2>2, WriteIsLocal DEF Saving
  <1>4. ASSUME NEW d \in Dispatcher, Deny(d) PROVE Saving(t) /\ \E r \in Record : Write(t, r)
    <2>1. hand[d] \in Copy BY <1>4 DEF TypeOK, Deny, Holding
    <2>2. [rc |-> hand[d].rc, due |-> FALSE] \in Record BY <2>1 DEF Copy, Record
    <2>3. Write(hand[d].id, [rc |-> hand[d].rc, due |-> FALSE]) BY <1>4 DEF Deny
    <2>4. hand[d].id = t BY <2>3, WriteIsLocal
    <2> QED BY <1>4, <2>2, <2>3, <2>4 DEF Saving
  <1>5. ASSUME NEW w \in Worker, Retry(w) PROVE Saving(t) /\ \E r \in Record : Write(t, r)
    <2>1. copy[w] \in Copy BY <1>5, AtWork DEF WorkerStep
    <2>2. [rc |-> NextCount(copy[w].rc), due |-> FALSE] \in Record
      BY <2>1 DEF Copy, Record, NextCount
    <2>3. Write(copy[w].id, [rc |-> NextCount(copy[w].rc), due |-> FALSE]) BY <1>5 DEF Retry
    <2>4. copy[w].id = t BY <2>3, WriteIsLocal
    <2> QED BY <1>5, <2>2, <2>3, <2>4 DEF Saving, Saves
  <1>6. ASSUME NEW w \in Worker, Reschedule(w) PROVE Saving(t) /\ \E r \in Record : Write(t, r)
    <2>1. [rc |-> 0, due |-> FALSE] \in Record BY DEF Record
    <2>2. Write(copy[w].id, [rc |-> 0, due |-> FALSE]) BY <1>6 DEF Reschedule
    <2>3. copy[w].id = t BY <2>2, WriteIsLocal
    <2> QED BY <1>6, <2>1, <2>2, <2>3 DEF Saving, Saves
  <1>7. ASSUME NEW w \in Worker, Delete(w) PROVE Ends(w, t) /\ Write(t, None)
    <2>1. Write(copy[w].id, None) BY <1>1, <1>7 DEF Delete, Erase
    <2>2. copy[w].id = t BY <2>1, WriteIsLocal
    <2> QED BY <1>7, <2>1, <2>2 DEF Ends
  <1>8. ASSUME NEW w \in Worker, NEW u \in Task, BlockChild(w, u)
        PROVE  Ends(w, t) /\ Write(t, None)
    <2>1. Write(u, None) BY <1>8 DEF BlockChild
    <2>2. u = t BY <2>1, WriteIsLocal
    <2> QED BY <1>8, <2>1, <2>2 DEF Ends
  <1>9. CASE \/ \E u \in Task : ClaimHash(u) \/ CheckCycle(u) \/ RegisterHandler(u) \/ Evict(u)
             \/ \E s \in Sweep : SweepStep(s)
             \/ (\E c \in lingering : Linger(c)) \/ UNCHANGED vars
    <2>1. UNCHANGED <<store, doubt>>
      BY <1>9 DEF ClaimHash, CheckCycle, RegisterHandler, Evict, SweepStep, PollRead, PollLock,
                  PollTask, PollUnlock, PollDispatch, PollDone, Linger, vars, environment
    <2> QED BY <1>1, <2>1
  <1>10. ASSUME NEW d \in Dispatcher, DispatcherStep(d), ~Deny(d) PROVE FALSE
    <2>1. UNCHANGED <<store, doubt>>
      BY <1>10 DEF DispatcherStep, Acquire, Pop, PopEmpty, Exit, Grant, Unqueue, Move, environment
    <2> QED BY <1>1, <2>1
  <1>11. ASSUME NEW w \in Worker,
                \/ Check(w) \/ Call(w) \/ Return(w) \/ Timeout(w) \/ Scan(w) \/ DeadLetter(w)
                \/ Complete(w) \/ Unhash(w) \/ Drop(w)
         PROVE  FALSE
    <2>1. UNCHANGED <<store, doubt>>
      BY <1>11 DEF Check, Call, Return, Timeout, Scan, DeadLetter, Complete, Unhash, Drop,
                   environment
    <2> QED BY <1>1, <2>1
  <1>12. CASE Compact \/ Restart BY <1>12 DEF Compact, Restart
  <1> QED BY <1>2, <1>3, <1>4, <1>5, <1>6, <1>7, <1>8, <1>9, <1>10, <1>11, <1>12
          DEF Next, WorkerStep

\* How the record of a task changes.
LEMMA StoreStep ==
  ASSUME TypeOK, [Next]_vars, NEW t \in Task, store'[t] # store[t]
  PROVE  \/ t \in Stored /\ store'[t] # None /\ Elapse(t)
         \/ store'[t] # None /\ Saving(t)
         \/ store'[t] = None /\ \E w \in Worker : Ends(w, t)
         \/ store'[t] \in doubt[t] /\ (Compact \/ Restart)
  <1>1. CASE Saving(t) /\ \E r \in Record : Write(t, r) BY <1>1, WriteIsDone
  <1>2. CASE (\E w \in Worker : Ends(w, t)) /\ Write(t, None) BY <1>2, WriteIsDone
  <1>3. CASE Reread /\ (Compact \/ Restart) BY <1>3, RereadIsDone
  <1> QED BY <1>1, <1>2, <1>3, WriterStep

\* How a record comes into doubt.
LEMMA DoubtStep ==
  ASSUME TypeOK, [Next]_vars, NEW t \in Task, NEW r \in doubt'[t], r \notin doubt[t]
  PROVE  /\ WritesFail /\ store'[t] = store[t] /\ doubt'[t] = doubt[t] \cup {r}
         /\ \/ r # None /\ Saving(t)
            \/ r = None /\ \E w \in Worker : Ends(w, t)
  <1>1. CASE Saving(t) /\ \E b \in Record : Write(t, b) BY <1>1, WriteIsDone
  <1>2. CASE (\E w \in Worker : Ends(w, t)) /\ Write(t, None) BY <1>2, WriteIsDone
  <1>3. CASE Reread /\ (Compact \/ Restart) BY <1>3, RereadIsDone
  <1> QED BY <1>1, <1>2, <1>3, WriterStep

\* Where no write fails nothing is in doubt, and a rereading changes nothing.
Certain == doubt = NoDoubt

LEMMA CertainAlways ==
  ASSUME ~WritesFail
  PROVE  Spec => []Certain
  <1>1. Init => Certain BY DEF Init, Certain
  <1>2. TypeOK /\ TypeOK' /\ Certain /\ [Next]_vars => Certain'
    <2> SUFFICES ASSUME TypeOK, TypeOK', Certain, [Next]_vars PROVE Certain' OBVIOUS
    <2>1. \A t \in Task : doubt'[t] = {}
      <3> SUFFICES ASSUME NEW t \in Task, NEW r \in doubt'[t] PROVE FALSE OBVIOUS
      <3>1. r \notin doubt[t] BY DEF Certain, NoDoubt
      <3> QED BY <3>1, DoubtStep
    <2> QED BY <2>1 DEF Certain, NoDoubt, TypeOK
  <1> QED BY <1>1, <1>2, TypeCorrect, PTL DEF Spec

LEMMA SureStep ==
  ASSUME TypeOK, Certain, [Next]_vars, NEW t \in Task, store'[t] # store[t]
  PROVE  \/ t \in Stored /\ store'[t] # None /\ Elapse(t)
         \/ store'[t] # None /\ Saving(t)
         \/ store'[t] = None /\ \E w \in Worker : Ends(w, t)
  BY StoreStep DEF Certain, NoDoubt

LEMMA RereadIsSame ==
  ASSUME TypeOK, Certain, Reread
  PROVE  UNCHANGED store
  <1>1. \A t \in Task : store'[t] = store[t] BY RereadIsDone DEF Certain, NoDoubt
  <1>2. StoreTypes' BY RereadTypes
  <1> QED BY <1>1, <1>2 DEF TypeOK, StoreTypes

\* Who says how a task ended.
LEMMA OutcomeStep ==
  ASSUME TypeOK, [Next]_vars, NEW t \in Task, outcome'[t] # outcome[t]
  PROVE  \/ SaveNew(t) /\ outcome'[t] = "none" /\ store'[t] # None /\ doubt'[t] = {}
         \/ outcome'[t] = "blocked" /\ \E w \in Worker : BlockChild(w, t)
         \/ \E w \in Worker : Complete(w) /\ copy[w].id = t /\ outcome'[t] = wpc[w]
  <1>1. ASSUME NEW u \in Task, SaveNew(u)
        PROVE  SaveNew(t) /\ outcome'[t] = "none" /\ store'[t] # None /\ doubt'[t] = {}
    <2>1. outcome' = [outcome EXCEPT ![u] = "none"] BY <1>1 DEF SaveNew, history
    <2>2. u = t BY <2>1 DEF TypeOK
    <2>3. PICK due \in BOOLEAN : /\ store' = [store EXCEPT ![u] = [rc |-> 0, due |-> due]]
                                  /\ doubt' = [doubt EXCEPT ![u] = {}]
      BY <1>1, <2>1 DEF SaveNew, history
    <2>4. [rc |-> 0, due |-> due] \in Record BY DEF Record
    <2>5. store'[u] = [rc |-> 0, due |-> due] BY <2>3 DEF TypeOK
    <2> QED BY <1>1, <2>1, <2>2, <2>3, <2>4, <2>5 DEF TypeOK
  <1>2. ASSUME NEW w \in Worker, NEW u \in Task, BlockChild(w, u)
        PROVE  outcome'[t] = "blocked" /\ BlockChild(w, t)
    <2>1. outcome' = [outcome EXCEPT ![u] = "blocked"] BY <1>2 DEF BlockChild
    <2>2. u = t BY <2>1 DEF TypeOK
    <2> QED BY <1>2, <2>1, <2>2 DEF TypeOK
  <1>3. ASSUME NEW w \in Worker, Complete(w)
        PROVE  copy[w].id = t /\ outcome'[t] = wpc[w]
    <2>1. outcome' = [outcome EXCEPT ![copy[w].id] = wpc[w]] BY <1>3 DEF Complete
    <2>2. copy[w].id = t BY <2>1 DEF TypeOK
    <2> QED BY <2>1, <2>2 DEF TypeOK
  <1>4. CASE \/ \E u \in Task : Elapse(u) \/ ClaimHash(u) \/ CheckCycle(u) \/ RegisterHandler(u)
                                \/ Evict(u)
             \/ \E s \in Sweep : SweepStep(s)
             \/ \E d \in Dispatcher : DispatcherStep(d)
             \/ (\E c \in lingering : Linger(c)) \/ Compact
             \/ Restart \/ UNCHANGED vars
    <2>1. UNCHANGED outcome
      BY <1>4 DEF Elapse, ClaimHash, CheckCycle, RegisterHandler, Evict, SweepStep, PollRead,
                  PollLock, PollTask, PollUnlock, PollDispatch, PollDone, DispatcherStep, Acquire,
                  Pop, PopEmpty, Exit, Grant, Deny, Unqueue, Move, Linger, Compact, Restart, vars, history
    <2> QED BY <2>1
  <1>5. ASSUME NEW w \in Worker,
               \/ Check(w) \/ Call(w) \/ Return(w) \/ Timeout(w) \/ Reschedule(w) \/ Retry(w)
               \/ Scan(w) \/ DeadLetter(w) \/ Delete(w) \/ Unhash(w) \/ Drop(w)
        PROVE  FALSE
    <2>1. UNCHANGED outcome
      BY <1>5 DEF Check, Call, Return, Timeout, Reschedule, Retry, Scan, DeadLetter, Delete,
                  Unhash, Drop, history
    <2> QED BY <2>1
  <1> QED BY <1>1, <1>2, <1>3, <1>4, <1>5 DEF Next, WorkerStep

\* Who has children to fail.
LEMMA KidsStep ==
  ASSUME TypeOK, [Next]_vars, NEW t \in Task, NEW w \in Worker, t \in kids'[w], t \notin kids[w]
  PROVE  Scan(w) /\ t \in Stored /\ copy[w].id \in Deps[t]
  <1>1. ASSUME NEW v \in Worker, Scan(v) PROVE Scan(w) /\ t \in Stored /\ copy[w].id \in Deps[t]
    <2>1. kids' = [kids EXCEPT ![v] = {u \in Stored : copy[v].id \in Deps[u]}] BY <1>1 DEF Scan
    <2>2. v = w BY <2>1 DEF TypeOK
    <2>3. kids'[w] = {u \in Stored : copy[w].id \in Deps[u]} BY <2>1, <2>2 DEF TypeOK
    <2> QED BY <1>1, <2>2, <2>3
  <1>2. ASSUME NEW v \in Worker, NEW u \in Task, BlockChild(v, u) PROVE FALSE
    BY <1>2 DEF TypeOK, BlockChild
  <1>3. ASSUME NEW v \in Worker,
               \/ Check(v) \/ Call(v) \/ Return(v) \/ Timeout(v) \/ Reschedule(v) \/ Retry(v)
               \/ DeadLetter(v) \/ Complete(v) \/ Delete(v) \/ Unhash(v) \/ Drop(v)
        PROVE  FALSE
    <2>1. UNCHANGED kids
      BY <1>3 DEF Check, Call, Return, Timeout, Reschedule, Retry, DeadLetter, Complete, Delete,
                  Unhash, Drop
    <2> QED BY <2>1
  <1>4. CASE \/ \E u \in Task : Elapse(u) \/ ClaimHash(u) \/ CheckCycle(u) \/ SaveNew(u)
                                \/ RegisterHandler(u) \/ Evict(u)
             \/ \E s \in Sweep : SweepStep(s)
             \/ \E d \in Dispatcher : DispatcherStep(d)
             \/ (\E c \in lingering : Linger(c)) \/ Compact
             \/ UNCHANGED vars
    <2>1. UNCHANGED kids
      BY <1>4 DEF Elapse, ClaimHash, CheckCycle, SaveNew, RegisterHandler, Evict, SweepStep,
                  PollRead, PollLock, PollTask, PollUnlock, PollDispatch, PollDone, DispatcherStep,
                  Acquire, Pop, PopEmpty, Exit, Grant, Deny, Unqueue, Move, Linger, Compact, vars, workers
    <2> QED BY <2>1
  <1>5. CASE Restart BY <1>5 DEF Restart
  <1> QED BY <1>1, <1>2, <1>3, <1>4, <1>5 DEF Next, WorkerStep

\* Only ClaimHash counts a call of enqueue and begins one; only SaveNew and CheckCycle go on.
LEMMA CallerStep ==
  ASSUME TypeOK, [Next]_vars, NEW t \in Task
  PROVE  \/ UNCHANGED <<caller[t], issued[t]>>
         \/ ClaimHash(t) /\ caller[t] = "idle" /\ issued[t] < MaxCalls /\ issued'[t] = issued[t] + 1
         \/ /\ issued'[t] = issued[t] /\ caller[t] = "cycle" /\ caller'[t] \in {"idle", "save"}
            /\ UNCHANGED <<store, outcome, snap, pq, hand, dpc, wpc, copy, kids>>
         \/ issued'[t] = issued[t] /\ caller[t] = "save" /\ caller'[t] = "idle" /\ SaveNew(t)
         \/ issued'[t] = issued[t] /\ caller'[t] = "idle" /\ Restart
  <1>1. ASSUME NEW u \in Task, ClaimHash(u)
        PROVE  \/ UNCHANGED <<caller[t], issued[t]>>
               \/ /\ ClaimHash(t) /\ caller[t] = "idle" /\ issued[t] < MaxCalls
                  /\ issued'[t] = issued[t] + 1
    <2>1. issued' = [issued EXCEPT ![u] = issued[u] + 1] /\ caller[u] = "idle" /\ issued[u] < MaxCalls
      BY <1>1 DEF ClaimHash
    <2>2. CASE u = t BY <1>1, <2>1, <2>2 DEF TypeOK
    <2>3. CASE u # t
      <3>1. UNCHANGED caller \/ caller' = [caller EXCEPT ![u] = "cycle"] BY <1>1 DEF ClaimHash
      <3> QED BY <2>1, <2>3, <3>1 DEF TypeOK
    <2> QED BY <2>2, <2>3
  <1>2. ASSUME NEW u \in Task, CheckCycle(u)
        PROVE  \/ UNCHANGED <<caller[t], issued[t]>>
               \/ /\ issued'[t] = issued[t] /\ caller[t] = "cycle" /\ caller'[t] \in {"idle", "save"}
                  /\ UNCHANGED <<store, outcome, snap, pq, hand, dpc, wpc, copy, kids>>
    BY <1>2 DEF TypeOK, CheckCycle, dispatchers, workers, sweeps, history
  <1>3. ASSUME NEW u \in Task, SaveNew(u)
        PROVE  \/ UNCHANGED <<caller[t], issued[t]>>
               \/ issued'[t] = issued[t] /\ caller[t] = "save" /\ caller'[t] = "idle" /\ SaveNew(t)
    BY <1>3 DEF TypeOK, SaveNew
  <1>4. CASE \/ \E u \in Task : Elapse(u) \/ RegisterHandler(u) \/ Evict(u)
             \/ \E s \in Sweep : SweepStep(s)
             \/ \E d \in Dispatcher : DispatcherStep(d)
             \/ (\E c \in lingering : Linger(c)) \/ Compact
             \/ UNCHANGED vars
    <2>1. UNCHANGED <<caller, issued>>
      BY <1>4 DEF Elapse, RegisterHandler, Evict, SweepStep, PollRead, PollLock, PollTask,
                  PollUnlock, PollDispatch, PollDone, DispatcherStep, Acquire, Pop, PopEmpty, Exit,
                  Grant, Deny, Unqueue, Move, Linger, Compact, vars, clients
    <2> QED BY <2>1
  <1>5. CASE \E w \in Worker : WorkerStep(w) \/ Timeout(w)
    <2>1. UNCHANGED <<caller, issued>>
      BY <1>5 DEF WorkerStep, Timeout, Check, Call, Return, Reschedule, Retry, Scan, BlockChild,
                  DeadLetter, Complete, Delete, Unhash, Drop, clients
    <2> QED BY <2>1
  <1>6. CASE Restart BY <1>6 DEF Restart
  <1> QED BY <1>1, <1>2, <1>3, <1>4, <1>5, <1>6 DEF Next
----------------------------------------------------------------------------
(* A task id that is enqueued once. *)

\* Before its record is saved, nothing of a task is anywhere.
Unborn(t) == issued[t] = 0 \/ caller[t] # "idle"
Nowhere(t) ==
  /\ store[t] = None /\ doubt[t] = {} /\ outcome[t] = "none"
  /\ ~Carried(t) /\ \A w \in Worker : t \notin kids[w]
Once == \A t \in Task : /\ caller[t] # "idle" => issued[t] # 0
                        /\ Unborn(t) => Nowhere(t)

\* A task that is nowhere appears only when enqueue saves it.
LEMMA NowhereStep ==
  ASSUME TypeOK, [Next]_vars, NEW t \in Task, Nowhere(t), ~SaveNew(t)
  PROVE  Nowhere(t)'
  <1>1. t \notin Stored BY DEF Nowhere, Stored
  <1>2. \A w \in Worker : WorkerStep(w) => copy[w].id # t BY AtWork DEF Nowhere, Carried
  <1>3. store'[t] = None /\ doubt'[t] = {}
    <2>1. ~\E d \in Dispatcher : Deny(d) /\ hand[d].id = t
      BY DEF Deny, Holding, Nowhere, Carried, Started
    <2>2. ~\E w \in Worker : Saves(w, t) BY <1>2 DEF Saves, WorkerStep
    <2>3. ~Saving(t) BY <2>1, <2>2 DEF Saving
    <2>4. ~\E w \in Worker : Ends(w, t) BY <1>2 DEF Ends, WorkerStep, BlockChild, Nowhere
    <2>5. doubt'[t] = {} BY <2>3, <2>4, DoubtStep DEF Nowhere
    <2> QED BY <1>1, <2>3, <2>5, StoreStep DEF Nowhere
  <1>4. outcome'[t] = "none"
    <2>1. ~\E w \in Worker : BlockChild(w, t) BY DEF BlockChild, Nowhere
    <2>2. ~\E w \in Worker : Complete(w) /\ copy[w].id = t BY <1>2 DEF WorkerStep
    <2> QED BY <2>1, <2>2, OutcomeStep DEF Nowhere
  <1>5. ~Carried(t)' BY <1>1, CarriedStep DEF Nowhere
  <1>6. \A w \in Worker : t \notin kids'[w] BY <1>1, KidsStep DEF Nowhere
  <1> QED BY <1>3, <1>4, <1>5, <1>6 DEF Nowhere

\* A task that is enqueued once is nowhere before.
LEMMA OnceStep ==
  ASSUME MaxCalls <= 1, TypeOK, Once, [Next]_vars
  PROVE  Once'
  <1> SUFFICES ASSUME NEW t \in Task
               PROVE  /\ caller'[t] # "idle" => issued'[t] # 0
                      /\ Unborn(t)' => Nowhere(t)'
    BY DEF Once
  <1>1. issued[t] \in Nat BY DEF TypeOK
  <1>2. (caller[t] # "idle" => issued[t] # 0) /\ (Unborn(t) => Nowhere(t)) BY DEF Once
  <1>3. caller'[t] # "idle" => issued'[t] # 0 BY <1>1, <1>2, CallerStep
  <1>4. ASSUME Unborn(t)' PROVE Nowhere(t)'
    <2>1. ~SaveNew(t)
      <3>1. SaveNew(t) => caller[t] = "save" /\ caller'[t] = "idle" /\ UNCHANGED issued
        BY DEF TypeOK, SaveNew
      <3> QED BY <1>2, <1>4, <3>1 DEF Unborn
    <2>2. Unborn(t) BY <1>1, <1>4, <2>1, CallerStep DEF Unborn
    <2> QED BY <1>2, <2>1, <2>2, NowhereStep
  <1> QED BY <1>3, <1>4

\* It is so in every behaviour.
LEMMA OnceAlways ==
  ASSUME MaxCalls <= 1
  PROVE  Spec => []Once
  <1>1. Init => Once
    BY DEF Init, NoDoubt, Once, Unborn, Nowhere, Carried, Read, Started, Holding, Busy
  <1>2. TypeOK /\ Once /\ [Next]_vars => Once' BY OnceStep
  <1> QED BY <1>1, <1>2, TypeCorrect, PTL DEF Spec

----------------------------------------------------------------------------
(* Records and ends. *)

\* A record that is about to be deleted, or may have been, is that of a task that has ended.
Deleting ==
  /\ \A w \in Worker : wpc[w] = "delete" => outcome[copy[w].id] # "none"
  /\ \A t \in Task : None \in doubt[t] => outcome[t] # "none"

Finishing == {"delete", "unhash"}

\* How a worker comes to the deletion of a record, and on to the hash.
LEMMA FinishingStep ==
  ASSUME TypeOK, [Next]_vars, NEW w \in Worker, wpc'[w] \in Finishing
  PROVE  /\ UNCHANGED copy[w]
         /\ \/ wpc[w] = wpc'[w]
            \/ wpc'[w] = "delete" /\ Complete(w)
            \/ wpc'[w] = "unhash" /\ Delete(w)
  <1>1. CASE \/ \E u \in Task : Elapse(u) \/ ClaimHash(u) \/ CheckCycle(u) \/ SaveNew(u)
                                \/ RegisterHandler(u) \/ Evict(u)
             \/ \E s \in Sweep : SweepStep(s)
             \/ (\E c \in lingering : Linger(c)) \/ Compact
             \/ UNCHANGED vars
    <2>1. UNCHANGED <<wpc, copy>>
      BY <1>1 DEF Elapse, ClaimHash, CheckCycle, SaveNew, RegisterHandler, Evict, SweepStep,
                  PollRead, PollLock, PollTask, PollUnlock, PollDispatch, PollDone, Linger, Compact, vars,
                  workers
    <2> QED BY <2>1
  <1>2. ASSUME NEW d \in Dispatcher, DispatcherStep(d) PROVE UNCHANGED <<wpc[w], copy[w]>>
    <2>1. CASE ~Move(d)
      <3>1. UNCHANGED <<wpc, copy>>
        BY <1>2, <2>1 DEF DispatcherStep, Acquire, Pop, PopEmpty, Exit, Grant, Deny, Unqueue, workers
      <3> QED BY <3>1
    <2>2. CASE Move(d)
      <3>1. \/ UNCHANGED <<wpc, copy>>
            \/ \E v \in Worker : /\ wpc' = [wpc EXCEPT ![v] = "check"]
                                 /\ copy' = [copy EXCEPT ![v] = hand[d]]
        BY <2>2 DEF Move
      <3> QED BY <3>1 DEF TypeOK, Finishing
    <2> QED BY <2>1, <2>2
  <1>3. ASSUME NEW v \in Worker, (WorkerStep(v) \/ Timeout(v)), v # w
        PROVE  UNCHANGED <<wpc[w], copy[w]>>
    <2>1. UNCHANGED wpc \/ \E pc : wpc' = [wpc EXCEPT ![v] = pc]
      BY <1>3 DEF WorkerStep, Timeout, Check, Call, Return, Reschedule, Retry, Scan, BlockChild,
                  DeadLetter, Complete, Delete, Unhash, Drop, Goto, Leave
    <2>2. UNCHANGED copy \/ copy' = [copy EXCEPT ![v] = None]
      BY <1>3 DEF WorkerStep, Timeout, Check, Call, Return, Reschedule, Retry, Scan, BlockChild,
                  DeadLetter, Complete, Delete, Unhash, Drop, Leave
    <2> QED BY <1>3, <2>1, <2>2 DEF TypeOK
  <1>4. ASSUME WorkerStep(w) \/ Timeout(w), ~Complete(w), ~Delete(w)
        PROVE  UNCHANGED <<wpc[w], copy[w]>>
    <2>1. ASSUME Check(w) \/ Drop(w) PROVE FALSE
      BY <2>1 DEF TypeOK, Check, Drop, Leave, Goto, Finishing
    <2>2. ASSUME \/ Call(w) \/ Return(w) \/ Timeout(w) \/ Reschedule(w) \/ Retry(w) \/ Scan(w)
                 \/ DeadLetter(w) \/ Unhash(w)
          PROVE  FALSE
      BY <2>2 DEF TypeOK, Call, Return, Timeout, Reschedule, Retry, Scan, DeadLetter, Unhash, Goto,
                  Finishing
    <2>3. CASE \E u \in Task : BlockChild(w, u) BY <2>3 DEF BlockChild
    <2> QED BY <1>4, <2>1, <2>2, <2>3 DEF WorkerStep
  <1>5. CASE Complete(w) BY <1>5 DEF TypeOK, Complete, Goto
  <1>6. CASE Delete(w) BY <1>6 DEF TypeOK, Delete, Goto
  <1>7. CASE Restart BY <1>7 DEF Restart, Finishing
  <1> QED BY <1>1, <1>2, <1>3, <1>4, <1>5, <1>6, <1>7 DEF Next

\* What is saved for the first time has no copies yet.
LEMMA SavedIsNew ==
  ASSUME TypeOK, Once, NEW t \in Task, SaveNew(t)
  PROVE  Nowhere(t)
  BY DEF Once, Unborn, SaveNew

\* An end is on record before the deletion, and stays there.
LEMMA EndStays ==
  ASSUME TypeOK, Once, [Next]_vars, NEW t \in Task, outcome[t] # "none"
  PROVE  outcome'[t] # "none"
  <1>1. ~SaveNew(t) BY SavedIsNew DEF Nowhere
  <1>2. \A w \in Worker : Complete(w) => wpc[w] # "none" BY DEF Complete
  <1> QED BY <1>1, <1>2, OutcomeStep

\* A record is deleted, or may be, with the end of its task.
LEMMA EndedStep ==
  ASSUME TypeOK, Once, Deleting, [Next]_vars, NEW t \in Task, NEW w \in Worker, Ends(w, t)
  PROVE  outcome'[t] # "none"
  <1>1. CASE Delete(w) /\ copy[w].id = t
    <2>1. outcome[t] # "none" BY <1>1 DEF Deleting, Delete
    <2> QED BY <2>1, EndStays
  <1>2. CASE BlockChild(w, t) BY <1>2 DEF BlockChild, TypeOK
  <1> QED BY <1>1, <1>2 DEF Ends

\* Every step keeps that.
LEMMA DeletingStep ==
  ASSUME TypeOK, Once, Deleting, [Next]_vars
  PROVE  Deleting'
  <1>1. ASSUME NEW w \in Worker, wpc'[w] = "delete" PROVE outcome'[copy'[w].id] # "none"
    <2>1. CASE wpc[w] = "delete" /\ UNCHANGED copy[w]
      <3>1. copy[w].id \in Task BY <2>1 DEF TypeOK, Busy, Copy
      <3> QED BY <2>1, <3>1, EndStays DEF Deleting
    <2>2. CASE Complete(w) /\ UNCHANGED copy[w]
      <3>1. copy[w].id \in Task BY <2>2, AtWork DEF WorkerStep
      <3>2. outcome' = [outcome EXCEPT ![copy[w].id] = wpc[w]] /\ wpc[w] \in {"ok", "dead"}
        BY <2>2 DEF Complete
      <3> QED BY <2>2, <3>1, <3>2 DEF TypeOK
    <2> QED BY <1>1, <2>1, <2>2, FinishingStep DEF Finishing
  <1>2. ASSUME NEW t \in Task, None \in doubt'[t] PROVE outcome'[t] # "none"
    <2>1. CASE None \in doubt[t] BY <2>1, EndStays DEF Deleting
    <2>2. CASE None \notin doubt[t] BY <1>2, <2>2, DoubtStep, EndedStep
    <2> QED BY <2>1, <2>2
  <1> QED BY <1>1, <1>2 DEF Deleting

\* A record goes with the end of its task.
LEMMA LossStep ==
  ASSUME TypeOK, Once, Deleting, [Next]_vars,
         NEW t \in Task, store[t] # None, store'[t] = None
  PROVE  outcome'[t] # "none"
  <1>1. CASE \E w \in Worker : Ends(w, t) BY <1>1, EndedStep
  <1>2. CASE None \in doubt[t] BY <1>2, EndStays DEF Deleting
  <1> QED BY <1>1, <1>2, StoreStep

\* It is so in every behaviour.
LEMMA DeletingAlways ==
  ASSUME MaxCalls <= 1
  PROVE  Spec => []Deleting
  <1>1. Init => Deleting BY DEF Init, NoDoubt, Deleting
  <1>2. TypeOK /\ Once /\ Deleting /\ [Next]_vars => Deleting' BY DeletingStep
  <1> QED BY <1>1, <1>2, TypeCorrect, OnceAlways, PTL DEF Spec

\* If no id is enqueued twice, a record leaves the log only when its task has succeeded, has
\* been dead-lettered or waited for one that was, whatever copies of it are about, whichever
\* writes fail and wherever the process restarts (queue.rs:502-505, 537-541, 577-579).
THEOREM RecordsGoAtTheEnd ==
  ASSUME MaxCalls <= 1
  PROVE  Spec => NothingLost
  <1> DEFINE Step == \A t \in Task : (store[t] # None /\ store'[t] = None) => outcome'[t] # "none"
  <1>1. TypeOK /\ Once /\ Deleting /\ [Next]_vars => Step BY LossStep
  <1> QED BY <1>1, TypeCorrect, OnceAlways, DeletingAlways, PTL DEF Spec, NothingLost

----------------------------------------------------------------------------
(* Parents. *)

\* The parents of a task that was enqueued are on file or have ended; those of a task that
\* is past the tests of a sweep have ended.
Known(t) == \A p \in Deps[t] : p \in Stored \/ outcome[p] # "none"
Ended(t) == \A p \in Deps[t] : outcome[p] # "none"
Families == \A t \in Task : (issued[t] # 0 => Known(t)) /\ (Started(t) => Ended(t))

\* Every step keeps that.
LEMMA FamiliesStep ==
  ASSUME ParentsFirst, TypeOK, Once, Deleting, Families, [Next]_vars
  PROVE  Families'
  <1> SUFFICES ASSUME NEW t \in Task
               PROVE  (issued'[t] # 0 => Known(t)') /\ (Started(t)' => Ended(t)')
    BY DEF Families
  <1>1. \A p \in Task : outcome[p] # "none" => outcome'[p] # "none" BY EndStays
  <1>2. \A p \in Task : store[p] # None => store'[p] # None \/ outcome'[p] # "none" BY LossStep
  <1>3. Deps[t] \subseteq Task OBVIOUS
  <1>4. ASSUME issued'[t] # 0 PROVE Known(t)'
    <2>1. Known(t)
      <3>1. CASE issued[t] # 0 BY <3>1 DEF Families
      <3>2. CASE issued[t] = 0
        <4>1. ClaimHash(t) BY <1>4, <3>2, CallerStep
        <4> QED BY <4>1 DEF ClaimHash, Known
      <3> QED BY <3>1, <3>2
    <2> QED BY <1>1, <1>2, <1>3, <2>1 DEF Known, Stored
  <1>5. ASSUME Started(t)' PROVE Ended(t)'
    <2>1. CASE Started(t) BY <1>1, <1>3, <2>1 DEF Families, Ended
    <2>2. CASE ~Started(t)
      <3>1. Read(t) /\ Deps[t] \cap Stored = {} BY <1>5, <2>2, StartedStep DEF Read, Eligible
      <3>2. issued[t] # 0 BY <3>1 DEF Once, Unborn, Nowhere, Carried
      <3>3. Ended(t) BY <3>1, <3>2 DEF Families, Known, Ended
      <3> QED BY <1>1, <1>3, <3>3 DEF Ended
    <2> QED BY <2>1, <2>2
  <1> QED BY <1>4, <1>5

\* If clients enqueue a task after the tasks it waits for, and no id twice, it runs only when
\* each of them has ended, also from old copies and after a restart (queue.rs:282-286).
THEOREM ParentsEnd ==
  ASSUME MaxCalls <= 1, ParentsFirst
  PROVE  Spec => []ParentsEndFirst
  <1>1. Init => Families
    BY DEF Init, Families, Started, Holding, Busy
  <1>2. TypeOK /\ Once /\ Deleting /\ Families /\ [Next]_vars => Families' BY FamiliesStep
  <1>3. TypeOK /\ Families => ParentsEndFirst
    <2> SUFFICES ASSUME TypeOK, Families, NEW w \in Worker, wpc[w] = "run"
                 PROVE  Ended(copy[w].id)
      BY DEF ParentsEndFirst, Ended
    <2>1. Busy(w) /\ copy[w].id \in Task BY DEF TypeOK, Busy, Copy
    <2>2. Started(copy[w].id) BY <2>1 DEF Started
    <2> QED BY <2>1, <2>2 DEF Families
  <1> QED BY <1>1, <1>2, <1>3, TypeCorrect, OnceAlways, DeletingAlways, PTL DEF Spec
----------------------------------------------------------------------------
(* Executions. *)

\* What a worker may do between its test of completed_tasks and the end of its task.
Working == {"call", "run", "ok", "reschedule", "retry", "scan", "block", "dead"}
Past == \A w \in Worker : wpc[w] \in Working => copy[w].id \notin completed

\* How a worker comes there, and stays.
LEMMA WorkingStep ==
  ASSUME TypeOK, [Next]_vars, NEW w \in Worker, wpc'[w] \in Working
  PROVE  /\ UNCHANGED copy[w] /\ ~Complete(w)
         /\ wpc[w] \in Working \/ (Check(w) /\ copy[w].id \notin completed)
  <1>1. CASE \/ \E u \in Task : Elapse(u) \/ ClaimHash(u) \/ CheckCycle(u) \/ SaveNew(u)
                                \/ RegisterHandler(u) \/ Evict(u)
             \/ \E s \in Sweep : SweepStep(s)
             \/ (\E c \in lingering : Linger(c)) \/ Compact
             \/ UNCHANGED vars
    <2>1. UNCHANGED <<wpc, copy>>
      BY <1>1 DEF Elapse, ClaimHash, CheckCycle, SaveNew, RegisterHandler, Evict, SweepStep,
                  PollRead, PollLock, PollTask, PollUnlock, PollDispatch, PollDone, Linger, Compact, vars,
                  workers
    <2>2. Complete(w) => wpc'[w] = "delete" BY DEF TypeOK, Complete, Goto
    <2> QED BY <2>1, <2>2 DEF Working
  <1>2. ASSUME NEW d \in Dispatcher, DispatcherStep(d)
        PROVE  UNCHANGED copy[w] /\ wpc[w] \in Working
    <2>1. CASE ~Move(d)
      <3>1. UNCHANGED <<wpc, copy>>
        BY <1>2, <2>1 DEF DispatcherStep, Acquire, Pop, PopEmpty, Exit, Grant, Deny, Unqueue, workers
      <3> QED BY <3>1
    <2>2. CASE Move(d)
      <3>1. \/ UNCHANGED <<wpc, copy>>
            \/ \E v \in Worker : /\ wpc' = [wpc EXCEPT ![v] = "check"]
                                 /\ copy' = [copy EXCEPT ![v] = hand[d]]
        BY <2>2 DEF Move
      <3> QED BY <3>1 DEF TypeOK, Working
    <2> QED BY <2>1, <2>2
  <1>3. ASSUME NEW v \in Worker, (WorkerStep(v) \/ Timeout(v)), v # w
        PROVE  UNCHANGED copy[w] /\ wpc[w] \in Working
    <2>1. UNCHANGED wpc \/ \E pc : wpc' = [wpc EXCEPT ![v] = pc]
      BY <1>3 DEF WorkerStep, Timeout, Check, Call, Return, Reschedule, Retry, Scan, BlockChild,
                  DeadLetter, Complete, Delete, Unhash, Drop, Goto, Leave
    <2>2. UNCHANGED copy \/ copy' = [copy EXCEPT ![v] = None]
      BY <1>3 DEF WorkerStep, Timeout, Check, Call, Return, Reschedule, Retry, Scan, BlockChild,
                  DeadLetter, Complete, Delete, Unhash, Drop, Leave
    <2> QED BY <1>3, <2>1, <2>2 DEF TypeOK
  <1>4. ASSUME Drop(w) \/ Complete(w) \/ Delete(w) \/ Unhash(w) PROVE FALSE
    BY <1>4 DEF TypeOK, Drop, Leave, Complete, Delete, Unhash, Goto, Working
  <1>5. CASE Check(w)
    <2>1. copy[w].id \notin completed
      BY <1>5 DEF TypeOK, Check, SkipCompleted, Leave, Goto, Working
    <2>2. UNCHANGED copy BY <1>5, <2>1 DEF Check, SkipCompleted
    <2> QED BY <1>4, <1>5, <2>1, <2>2
  <1>6. CASE \/ Call(w) \/ Return(w) \/ Timeout(w) \/ Reschedule(w) \/ Retry(w) \/ Scan(w)
             \/ (\E t \in Task : BlockChild(w, t)) \/ DeadLetter(w)
    <2>1. UNCHANGED copy /\ wpc[w] \in Working
      BY <1>6 DEF Call, Return, Timeout, Reschedule, Retry, Scan, BlockChild, DeadLetter, Working
    <2> QED BY <1>4, <2>1
  <1>7. CASE Restart BY <1>7 DEF Restart, Working
  <1> QED BY <1>1, <1>2, <1>3, <1>4, <1>5, <1>6, <1>7 DEF Next, WorkerStep

\* completed_tasks grows with the ends of tasks and shrinks only by the sweeper or a restart.
LEMMA CompletedStep ==
  ASSUME [Next]_vars
  PROVE  \/ UNCHANGED completed
         \/ \E w \in Worker : Complete(w) /\ completed' = completed \cup {copy[w].id}
         \/ TTLExpires /\ completed' \subseteq completed
         \/ Restart /\ completed' = {}
  <1>1. CASE \/ \E u \in Task : Elapse(u) \/ ClaimHash(u) \/ CheckCycle(u) \/ SaveNew(u)
                                \/ RegisterHandler(u)
             \/ \E s \in Sweep : SweepStep(s)
             \/ \E d \in Dispatcher : DispatcherStep(d)
             \/ (\E c \in lingering : Linger(c)) \/ Compact
             \/ UNCHANGED vars
    <2>1. UNCHANGED completed
      BY <1>1 DEF Elapse, ClaimHash, CheckCycle, SaveNew, RegisterHandler, SweepStep, PollRead,
                  PollLock, PollTask, PollUnlock, PollDispatch, PollDone, DispatcherStep, Acquire,
                  Pop, PopEmpty, Exit, Grant, Deny, Unqueue, Move, Linger, Compact, vars, sets
    <2> QED BY <2>1
  <1>2. ASSUME NEW w \in Worker,
               \/ Check(w) \/ Call(w) \/ Return(w) \/ Timeout(w) \/ Reschedule(w) \/ Retry(w)
               \/ Scan(w) \/ (\E t \in Task : BlockChild(w, t)) \/ DeadLetter(w) \/ Delete(w)
               \/ Unhash(w) \/ Drop(w)
        PROVE  UNCHANGED completed
    BY <1>2 DEF Check, Call, Return, Timeout, Reschedule, Retry, Scan, BlockChild, DeadLetter,
                Delete, Unhash, Drop, sets
  <1>3. ASSUME NEW w \in Worker, Complete(w) PROVE completed' = completed \cup {copy[w].id}
    BY <1>3 DEF Complete
  <1>4. ASSUME NEW t \in Task, Evict(t) PROVE TTLExpires /\ completed' \subseteq completed
    BY <1>4 DEF Evict
  <1>5. CASE Restart BY <1>5 DEF Restart
  <1> QED BY <1>1, <1>2, <1>3, <1>4, <1>5 DEF Next, WorkerStep

\* A worker at work has no completed task, as no other worker has its task.
LEMMA PastStep ==
  ASSUME TypeOK, OnePlace, Past, [Next]_vars
  PROVE  Past'
  <1> SUFFICES ASSUME NEW w \in Worker, wpc'[w] \in Working
               PROVE  copy'[w].id \notin completed'
    BY DEF Past
  <1>1. UNCHANGED copy[w] /\ ~Complete(w) /\ copy[w].id \notin completed
    BY WorkingStep DEF Past
  <1>2. Busy(w) BY WorkingStep DEF Working, Check, Busy
  <1>3. ASSUME NEW v \in Worker, Complete(v) PROVE copy[v].id # copy[w].id
    <2>1. v # w /\ Busy(v) BY <1>1, <1>3, AtWork DEF WorkerStep
    <2> QED BY <1>2, <2>1 DEF OnePlace, OneWorkerPerTask
  <1> QED BY <1>1, <1>3, CompletedStep

\* It is so in every behaviour.
LEMMA PastAlways == Spec => []Past
  <1>1. Init => Past BY DEF Init, Past, Working
  <1>2. TypeOK /\ OnePlace /\ Past /\ [Next]_vars => Past' BY PastStep
  <1> QED BY <1>1, <1>2, TypeCorrect, TaskInOnePlace, PTL DEF Spec

\* Until a restart, who has succeeded or been dead-lettered is in completed_tasks.
Remembered ==
  crashes = 0 => \A t \in Task : outcome[t] \in {"ok", "dead"} => t \in completed

\* Every step keeps that.
LEMMA RememberedStep ==
  ASSUME ~TTLExpires, TypeOK, Remembered, [Next]_vars
  PROVE  Remembered'
  <1> SUFFICES ASSUME crashes' = 0, NEW t \in Task, outcome'[t] \in {"ok", "dead"}
               PROVE  t \in completed'
    BY DEF Remembered
  <1>1. ~Restart BY DEF Restart, TypeOK
  <1>2. crashes = 0
    <2>1. UNCHANGED crashes
      BY <1>1 DEF Next, Elapse, ClaimHash, CheckCycle, SaveNew, RegisterHandler, Evict, SweepStep,
                  PollRead, PollLock, PollTask, PollUnlock, PollDispatch, PollDone, DispatcherStep,
                  Acquire, Pop, PopEmpty, Exit, Grant, Deny, Unqueue, Move, WorkerStep, Timeout,
                  Check, Call, Return, Reschedule, Retry, Scan, BlockChild, DeadLetter, Complete,
                  Delete, Unhash, Drop, Linger, Compact, vars, environment
    <2> QED BY <2>1
  <1>3. completed \subseteq completed' BY <1>1, CompletedStep
  <1>4. CASE outcome'[t] = outcome[t] BY <1>2, <1>3, <1>4 DEF Remembered
  <1>5. CASE outcome'[t] # outcome[t]
    <2>1. PICK w \in Worker : Complete(w) /\ copy[w].id = t BY <1>5, OutcomeStep
    <2> QED BY <2>1 DEF Complete
  <1> QED BY <1>4, <1>5

\* While completed_tasks forgets nothing, and until a restart, no handler is called again for a
\* task that has succeeded or been dead-lettered, whatever old copies of it come up
\* (queue.rs:406-412).
THEOREM EndedNotRunAgain ==
  ASSUME ~TTLExpires
  PROVE  Spec => EndedStaysEnded
  <1> DEFINE Step == \A w \in Worker : (wpc[w] = "call" /\ wpc'[w] = "run" /\ crashes = 0)
                                         => outcome[copy[w].id] \notin {"ok", "dead"}
  <1>1. Init => Remembered BY DEF Init, Remembered
  <1>2. TypeOK /\ Remembered /\ [Next]_vars => Remembered' BY RememberedStep
  <1>3. TypeOK /\ Past /\ Remembered => Step
    <2> SUFFICES ASSUME TypeOK, Past, Remembered, NEW w \in Worker, wpc[w] = "call", crashes = 0
                 PROVE  outcome[copy[w].id] \notin {"ok", "dead"}
      OBVIOUS
    <2>1. copy[w].id \in Task BY DEF TypeOK, Busy, Copy
    <2>2. copy[w].id \notin completed BY DEF Past, Working
    <2> QED BY <2>1, <2>2 DEF Remembered
  <1> QED BY <1>1, <1>2, <1>3, TypeCorrect, PastAlways, PTL DEF Spec, EndedStaysEnded
----------------------------------------------------------------------------
(* Payload hashes. *)

\* Whose hash must be active: a task that is pending, that may still run, or whose worker has
\* not come to the hash yet.
Holds(t) ==
  \/ Pending(t)
  \/ t \notin completed /\ Carried(t)
  \/ \E w \in Worker : wpc[w] \in Finishing /\ copy[w].id = t

HashesActive == \A t \in Task : Holds(t) => PayloadHash[t] \subseteq active_hashes
HoldersApart ==
  \A t, u \in Task : Holds(t) /\ Holds(u) /\ t # u => PayloadHash[t] \cap PayloadHash[u] = {}

\* A worker that finishes has completed its task, which is gone before its hash; and no other
\* trace of a task can come back while enqueue has claimed its hash.
Finished ==
  \A w \in Worker :
    /\ wpc[w] \in Finishing => copy[w].id \in completed
    /\ wpc[w] = "unhash" /\ PayloadHash[copy[w].id] # {} => store[copy[w].id] = None
Claimed ==
  \A t \in Task : caller[t] # "idle" /\ PayloadHash[t] # {} =>
    /\ store[t] = None
    /\ Carried(t) => t \in completed
    /\ \A w \in Worker : wpc[w] \in Finishing => copy[w].id # t

\* No task is limited.
Unlimited == \A d \in Dispatcher : dpc[d] # "limit"

\* The places of a loop.
LEMMA UnlimitedStep ==
  ASSUME Limited = {}, TypeOK, Unlimited, [Next]_vars
  PROVE  Unlimited'
  <1>1. CASE UNCHANGED dpc BY <1>1 DEF Unlimited
  <1>2. CASE \E d \in Dispatcher : \E pc : pc # "limit" /\ dpc' = [dpc EXCEPT ![d] = pc]
    BY <1>2 DEF TypeOK, Unlimited
  <1>3. CASE Restart BY <1>3 DEF Restart, Unlimited
  <1>4. CASE \/ \E t \in Task : Elapse(t) \/ ClaimHash(t) \/ CheckCycle(t) \/ SaveNew(t)
                                \/ RegisterHandler(t) \/ Evict(t)
             \/ \E s \in Sweep : SweepStep(s) /\ ~\E p \in Pool : PollDispatch(s, p)
             \/ (\E c \in lingering : Linger(c)) \/ Compact
             \/ UNCHANGED vars
    <2>1. UNCHANGED dpc
      BY <1>4 DEF Elapse, ClaimHash, CheckCycle, SaveNew, RegisterHandler, Evict, SweepStep,
                  PollRead, PollLock, PollTask, PollUnlock, PollDone, Linger, Compact, vars, dispatchers
    <2> QED BY <2>1, <1>1
  <1>5. ASSUME NEW s \in Sweep, NEW p \in Pool, PollDispatch(s, p) PROVE Unlimited'
    <2>1. UNCHANGED dpc \/ \E d \in Dispatcher : dpc' = [dpc EXCEPT ![d] = "acquire"]
      BY <1>5 DEF PollDispatch
    <2> QED BY <1>1, <1>2, <2>1
  <1>6. ASSUME NEW d \in Dispatcher, Pop(d) PROVE Unlimited'
    <2>1. dpc' = [dpc EXCEPT ![d] = "move"] BY <1>6 DEF Pop
    <2> QED BY <1>2, <2>1
  <1>7. ASSUME NEW d \in Dispatcher, DispatcherStep(d), ~Pop(d) PROVE Unlimited'
    <2>1. \E pc : pc # "limit" /\ dpc' = [dpc EXCEPT ![d] = pc]
      BY <1>7 DEF DispatcherStep, Acquire, PopEmpty, Exit, Grant, Deny, Unqueue, Move
    <2> QED BY <1>2, <2>1
  <1>8. CASE \E w \in Worker : WorkerStep(w) \/ Timeout(w)
    <2>1. UNCHANGED dpc
      BY <1>8 DEF WorkerStep, Timeout, Check, Call, Return, Reschedule, Retry, Scan, BlockChild,
                  DeadLetter, Complete, Delete, Unhash, Drop, dispatchers
    <2> QED BY <2>1, <1>1
  <1> QED BY <1>3, <1>4, <1>5, <1>6, <1>7, <1>8 DEF Next

\* Who saves a record without being the first has a copy of it that has not ended.
LEMMA SaverCarries ==
  ASSUME TypeOK, Past, NEW t \in Task, NEW w \in Worker, Saves(w, t) \/ (Complete(w) /\ copy[w].id = t)
  PROVE  t \notin completed /\ Carried(t)
  <1>1. wpc[w] \in Working BY DEF Saves, Retry, Reschedule, Complete, Working
  <1>2. Carried(t) BY AtWork DEF Saves, WorkerStep, Carried
  <1> QED BY <1>1, <1>2 DEF Past, Saves

\* A task begins to hold its hash only by claiming it.
LEMMA HoldsStep ==
  ASSUME ~TTLExpires, TypeOK, Certain, Unlimited, Past, [Next]_vars,
         NEW t \in Task, Holds(t)', ~Holds(t)
  PROVE  ClaimHash(t) /\ caller[t] = "idle" /\ caller'[t] # "idle"
  <1>1. store[t] = None /\ caller[t] = "idle" BY DEF Holds, Pending, Stored
  <1>2. ~\E d \in Dispatcher : Deny(d) BY DEF Unlimited, Deny
  <1>3. \A w \in Worker : ~Saves(w, t) /\ ~(Complete(w) /\ copy[w].id = t)
    BY SaverCarries DEF Holds
  <1>4. ~SaveNew(t) BY <1>1 DEF SaveNew
  <1>5. store'[t] = None BY <1>1, <1>2, <1>3, <1>4, SureStep DEF Stored, Saving
  <1>6. ASSUME t \notin completed', Carried(t)' PROVE FALSE
    <2>1. Carried(t) BY <1>1, <1>6, CarriedStep DEF Stored
    <2>2. ~Restart BY <1>6 DEF Restart, Carried, Read, Started, Holding, Busy
    <2>3. t \notin completed BY <1>6, <2>2, CompletedStep
    <2> QED BY <2>1, <2>3 DEF Holds
  <1>7. ASSUME NEW w \in Worker, wpc'[w] \in Finishing, copy'[w].id = t PROVE FALSE
    <2>1. UNCHANGED copy[w] /\ (wpc[w] \in Finishing \/ Complete(w))
      BY <1>7, FinishingStep DEF Delete, Finishing
    <2> QED BY <1>3, <1>7, <2>1 DEF Holds
  <1>8. caller'[t] # "idle" BY <1>5, <1>6, <1>7 DEF Holds, Pending, Stored
  <1> QED BY <1>1, <1>8, CallerStep

\* What becomes of active_hashes.
LEMMA HashStep ==
  ASSUME [Next]_vars
  PROVE  \/ UNCHANGED active_hashes
         \/ \E t \in Task : ClaimHash(t) /\ active_hashes' = active_hashes \cup PayloadHash[t]
         \/ \E w \in Worker : Unhash(w)
         \/ Restart
  <1>1. CASE \/ \E u \in Task : Elapse(u) \/ CheckCycle(u) \/ SaveNew(u) \/ RegisterHandler(u)
                                \/ Evict(u)
             \/ \E s \in Sweep : SweepStep(s)
             \/ \E d \in Dispatcher : DispatcherStep(d)
             \/ (\E c \in lingering : Linger(c)) \/ Compact
             \/ UNCHANGED vars
    <2>1. UNCHANGED active_hashes
      BY <1>1 DEF Elapse, CheckCycle, SaveNew, RegisterHandler, Evict, SweepStep, PollRead,
                  PollLock, PollTask, PollUnlock, PollDispatch, PollDone, DispatcherStep, Acquire,
                  Pop, PopEmpty, Exit, Grant, Deny, Unqueue, Move, Linger, Compact, vars, sets
    <2> QED BY <2>1
  <1>2. ASSUME NEW w \in Worker, WorkerStep(w) \/ Timeout(w), ~Unhash(w)
        PROVE  UNCHANGED active_hashes
    BY <1>2 DEF WorkerStep, Timeout, Check, Call, Return, Reschedule, Retry, Scan, BlockChild,
                DeadLetter, Complete, Delete, Drop, sets
  <1>3. ASSUME NEW t \in Task, ClaimHash(t)
        PROVE  UNCHANGED active_hashes \/ active_hashes' = active_hashes \cup PayloadHash[t]
    BY <1>3 DEF ClaimHash
  <1> QED BY <1>1, <1>2, <1>3 DEF Next

\* A claim that is granted finds the hash free.
LEMMA ClaimIsNew ==
  ASSUME TypeOK, NEW t \in Task, ClaimHash(t), caller[t] = "idle", caller'[t] # "idle"
  PROVE  /\ PayloadHash[t] \cap active_hashes = {}
         /\ active_hashes' = active_hashes \cup PayloadHash[t]
         /\ \A u \in Task : u # t => caller'[u] = caller[u]
         /\ UNCHANGED <<store, completed, snap, pq, hand, dpc, wpc, copy>>
  BY DEF TypeOK, ClaimHash, dispatchers, workers, sweeps

\* Two holders have no hash in common.
LEMMA ApartStep ==
  ASSUME ~TTLExpires, TypeOK, Certain, Unlimited, Past, HashesActive, HoldersApart, [Next]_vars
  PROVE  HoldersApart'
  <1> SUFFICES ASSUME NEW t \in Task, NEW u \in Task, Holds(t)', Holds(u)', t # u
               PROVE  PayloadHash[t] \cap PayloadHash[u] = {}
    BY DEF HoldersApart
  <1>1. CASE Holds(t) /\ Holds(u) BY <1>1 DEF HoldersApart
  <1>2. ASSUME NEW a \in Task, NEW b \in Task, a # b, Holds(a)', Holds(b)', ~Holds(a)
        PROVE  PayloadHash[a] \cap PayloadHash[b] = {}
    <2>1. ClaimHash(a) /\ caller[a] = "idle" /\ caller'[a] # "idle" BY <1>2, HoldsStep
    <2>2. PayloadHash[a] \cap active_hashes = {} /\ caller'[b] = caller[b]
      BY <1>2, <2>1, ClaimIsNew
    <2>3. Holds(b) BY <1>2, <2>2, HoldsStep
    <2> QED BY <2>2, <2>3 DEF HashesActive
  <1> QED BY <1>1, <1>2

\* What has finished stays finished until its hash is free.
LEMMA FinishedStep ==
  ASSUME ~TTLExpires, ~WritesFail, TypeOK, Certain, OnePlace, Unlimited, Past, Finished, Claimed,
         [Next]_vars
  PROVE  Finished'
  <1> SUFFICES ASSUME NEW w \in Worker, wpc'[w] \in Finishing
               PROVE  /\ copy'[w].id \in completed'
                      /\ wpc'[w] = "unhash" /\ PayloadHash[copy'[w].id] # {} => store'[copy'[w].id] = None
    BY DEF Finished, Finishing
  <1> DEFINE t == copy[w].id
  <1>1. UNCHANGED copy[w] BY FinishingStep
  <1>2. Busy(w) /\ t \in Task
    <2>1. Busy(w) BY FinishingStep DEF Finishing, Complete, Delete, Busy
    <2> QED BY <2>1 DEF TypeOK, Copy
  <1>3. ~Restart BY DEF Restart, Finishing
  <1>4. t \in completed'
    <2>1. CASE Complete(w) BY <2>1 DEF Complete
    <2>2. CASE ~Complete(w)
      <3>1. wpc[w] \in Finishing BY <2>2, FinishingStep DEF Delete, Finishing
      <3>2. t \in completed BY <3>1 DEF Finished
      <3> QED BY <1>3, <3>2, CompletedStep
    <2> QED BY <2>1, <2>2
  <1>5. ASSUME wpc'[w] = "unhash", PayloadHash[t] # {} PROVE store'[t] = None
    <2>1. CASE Delete(w)
      <3>1. CASE Write(t, None) BY <1>2, <3>1, WriteIsDone
      <3>2. CASE t \notin Stored /\ UNCHANGED store BY <1>2, <3>2 DEF Stored
      <3> QED BY <2>1, <3>1, <3>2 DEF Delete, Erase
    <2>2. CASE ~Delete(w)
      <3>1. wpc[w] = "unhash" BY <1>5, <2>2, FinishingStep
      <3>2. store[t] = None BY <1>5, <3>1 DEF Finished
      <3>3. ~SaveNew(t) BY <1>2, <1>5, <3>1 DEF Claimed, SaveNew, Finishing
      <3>4. ~\E d \in Dispatcher : Deny(d) BY DEF Unlimited, Deny
      <3>5. ASSUME NEW v \in Worker, Saves(v, t) PROVE FALSE
        <4>1. wpc[v] # "unhash" /\ Busy(v) /\ copy[v].id = t BY <3>5 DEF Saves, Retry, Reschedule, Busy
        <4> QED BY <1>2, <3>1, <4>1 DEF OnePlace, OneWorkerPerTask
      <3> QED BY <1>2, <3>2, <3>3, <3>4, <3>5, SureStep DEF Stored, Saving
    <2> QED BY <2>1, <2>2
  <1> QED BY <1>1, <1>4, <1>5

\* While enqueue has claimed a hash, nothing else of its task comes up.
LEMMA ClaimedStep ==
  ASSUME ~TTLExpires, TypeOK, Certain, Unlimited, Past, HashesActive, Claimed, [Next]_vars
  PROVE  Claimed'
  <1> SUFFICES ASSUME NEW t \in Task, caller'[t] # "idle", PayloadHash[t] # {}
               PROVE  /\ store'[t] = None
                      /\ Carried(t)' => t \in completed'
                      /\ \A w \in Worker : wpc'[w] \in Finishing => copy'[w].id # t
    BY DEF Claimed
  <1>1. ~Restart BY DEF Restart
  <1>2. ~SaveNew(t) BY DEF TypeOK, SaveNew
  <1>3. /\ store[t] = None /\ (Carried(t) => t \in completed)
        /\ \A w \in Worker : wpc[w] \in Finishing => copy[w].id # t
    <2>1. CASE caller[t] # "idle" BY <2>1 DEF Claimed
    <2>2. CASE caller[t] = "idle"
      <3>1. ClaimHash(t) BY <2>2, CallerStep
      <3>2. PayloadHash[t] \cap active_hashes = {} BY <2>2, <3>1, ClaimIsNew
      <3>3. ~Holds(t) BY <3>2 DEF HashesActive
      <3> QED BY <3>3 DEF Holds, Pending, Stored
    <2> QED BY <2>1, <2>2
  <1>4. \A w \in Worker : ~Saves(w, t) /\ ~(Complete(w) /\ copy[w].id = t) BY <1>3, SaverCarries
  <1>5. store'[t] = None
    <2>1. ~\E d \in Dispatcher : Deny(d) BY DEF Unlimited, Deny
    <2> QED BY <1>2, <1>3, <1>4, <2>1, SureStep DEF Stored, Saving
  <1>6. Carried(t)' => t \in completed'
    <2>1. Carried(t)' => Carried(t) BY <1>3, CarriedStep DEF Stored
    <2>2. t \in completed => t \in completed' BY <1>1, CompletedStep
    <2> QED BY <1>3, <2>1, <2>2
  <1>7. ASSUME NEW w \in Worker, wpc'[w] \in Finishing PROVE copy'[w].id # t
    <2>1. UNCHANGED copy[w] /\ (wpc[w] \in Finishing \/ Complete(w))
      BY <1>7, FinishingStep DEF Delete, Finishing
    <2> QED BY <1>3, <1>4, <2>1
  <1> QED BY <1>5, <1>6, <1>7

\* The hash of a holder stays active.
LEMMA ActiveStep ==
  ASSUME ~TTLExpires, TypeOK, Certain, OnePlace, Unlimited, Past, HashesActive, HoldersApart,
         Finished, Claimed, [Next]_vars
  PROVE  HashesActive'
  <1> SUFFICES ASSUME NEW t \in Task, Holds(t)' PROVE PayloadHash[t] \subseteq active_hashes'
    BY DEF HashesActive
  <1>1. CASE Restart
    <2>1. t \in Stored'
      BY <1>1 DEF Restart, Holds, Pending, Carried, Read, Started, Holding, Busy, Finishing
    <2>2. active_hashes' = UNION {PayloadHash[u] : u \in Stored'}
      BY <1>1 DEF Restart, StoredHashes
    <2> QED BY <2>1, <2>2
  <1>2. CASE ~Holds(t)
    <2>1. ClaimHash(t) /\ caller[t] = "idle" /\ caller'[t] # "idle" BY <1>2, HoldsStep
    <2> QED BY <2>1, ClaimIsNew
  <1>3. CASE Holds(t) /\ active_hashes \subseteq active_hashes' BY <1>3 DEF HashesActive
  <1>4. ASSUME Holds(t), NEW w \in Worker, Unhash(w) PROVE PayloadHash[t] \subseteq active_hashes'
    <2> DEFINE u == copy[w].id
    <2>1. active_hashes' = active_hashes \ PayloadHash[u] BY <1>4 DEF Unhash
    <2>2. wpc[w] = "unhash" /\ Busy(w) /\ u \in Task BY <1>4, AtWork DEF Unhash, WorkerStep
    <2>3. Holds(u) BY <2>2 DEF Holds, Finishing
    <2>4. CASE t # u
      <3>1. PayloadHash[t] \cap PayloadHash[u] = {} BY <1>4, <2>2, <2>3, <2>4 DEF HoldersApart
      <3> QED BY <1>4, <2>1, <3>1 DEF HashesActive
    <2>5. CASE t = u /\ PayloadHash[u] = {} BY <2>5
    <2>6. CASE t = u /\ PayloadHash[u] # {}
      <3>1. u \in completed /\ store[u] = None BY <2>2, <2>6 DEF Finished, Finishing
      <3>2. caller[u] = "idle" BY <2>2, <2>6 DEF Claimed, Finishing
      <3>3. UNCHANGED <<store, caller, completed, copy>> /\ wpc' = [wpc EXCEPT ![w] = "drop"]
        BY <1>4 DEF Unhash, clients, Goto
      <3>4. ~Pending(t)' BY <2>6, <3>1, <3>2, <3>3 DEF Pending, Stored
      <3>5. t \in completed' BY <2>6, <3>1, <3>3
      <3>6. PICK v \in Worker : wpc'[v] \in Finishing /\ copy'[v].id = t
        BY <3>4, <3>5 DEF Holds
      <3>7. v # w BY <2>2, <3>3, <3>6 DEF TypeOK, Finishing
      <3>8. Busy(v) /\ copy[v].id = u BY <2>6, <3>3, <3>6, <3>7 DEF TypeOK, Finishing, Busy
      <3> QED BY <2>2, <3>7, <3>8 DEF OnePlace, OneWorkerPerTask
    <2> QED BY <2>4, <2>5, <2>6
  <1> QED BY <1>1, <1>2, <1>3, <1>4, HashStep

\* If writes succeed, completed_tasks forgets nothing and no task is rate limited, two tasks
\* with one payload hash are never pending together, through retries, dead letters, old copies,
\* ids that are enqueued again and restarts (queue.rs:211-218, 148-157).
THEOREM TwinsExclude ==
  ASSUME ~WritesFail, ~TTLExpires, Limited = {}
  PROVE  Spec => []NoTwins
  <1> DEFINE Inv == Unlimited /\ HashesActive /\ HoldersApart /\ Finished /\ Claimed
  <1>1. Init => Inv
    <2>1. Init => \A t \in Task : ~Holds(t)
      BY DEF Init, Holds, Pending, Stored, Carried, Read, Started, Holding, Busy, Finishing
    <2>2. Init => Unlimited /\ Finished /\ Claimed
      BY DEF Init, Unlimited, Finished, Claimed, Finishing
    <2> QED BY <2>1, <2>2 DEF HashesActive, HoldersApart
  <1>2. TypeOK /\ Certain /\ OnePlace /\ Past /\ Inv /\ [Next]_vars => Inv'
    BY UnlimitedStep, ActiveStep, ApartStep, FinishedStep, ClaimedStep
  <1>3. Inv => NoTwins BY DEF HoldersApart, NoTwins, Holds
  <1> QED BY <1>1, <1>2, <1>3, TypeCorrect, CertainAlways, TaskInOnePlace, PastAlways, PTL
          DEF Spec

----------------------------------------------------------------------------
(* Attempts.  The handler of a task can be called for its stored count h,  *)
(* and once more for h - 1, from the one copy that the sweep had read when *)
(* the count was saved.                                                     *)

\* A copy whose handler is yet to be called, and one whose handler has been.
Waits(c) ==
  \/ \E p \in Pool : c \in pq[p]
  \/ \E d \in Dispatcher : Holding(d) /\ hand[d] = c
  \/ \E w \in Worker : wpc[w] \in {"check", "call"} /\ copy[w] = c
Called(c) == \E w \in Worker : wpc[w] \in Attempting /\ copy[w] = c

\* The sweep has a copy that is older than the record.
Stale(t, h) == \E s \in Sweep : \E c \in snap[s] : c.id = t /\ c.rc = h - 1

Level(t, h) ==
  /\ h < TotalAttempts(t)
  /\ store[t] # None => store[t].rc = h
  /\ \A s \in Sweep : \A c \in snap[s] :
       c.id = t => /\ c.rc = h \/ c.rc = h - 1
                   /\ \A b \in snap[s] : b.id = t => b = c
  /\ \A c \in Copy :
       c.id = t /\ (Waits(c) \/ Called(c)) => (c.rc = h \/ c.rc = h - 1) /\ ~Stale(t, h)
  /\ \/ attempts[t] <= 2 * h - 1
     \/ /\ attempts[t] <= 2 * h /\ ~Stale(t, h)
        /\ \A c \in Copy : c.id = t /\ Waits(c) => c.rc = h
     \/ attempts[t] <= 2 * h + 1 /\ \E c \in Copy : c.id = t /\ c.rc = h /\ Called(c)

Doubled ==
  crashes = 0 => \A t \in Task \ Cron :
    IF t \in completed THEN attempts[t] < 2 * TotalAttempts(t) ELSE \E h \in Nat : Level(t, h)

\* Only a cron task is rescheduled, and only an attempt that is not the last is retried.
Verdicts ==
  \A w \in Worker : /\ wpc[w] = "reschedule" => copy[w].id \in Cron
                    /\ wpc[w] = "retry" => copy[w].rc < MaxRetries[copy[w].id] - 1

\* A handler's answer decides.
LEMMA VerdictsStep ==
  ASSUME TypeOK, Verdicts, [Next]_vars
  PROVE  Verdicts'
  <1> SUFFICES ASSUME NEW w \in Worker, wpc'[w] \in {"reschedule", "retry"}
               PROVE  /\ wpc'[w] = "reschedule" => copy'[w].id \in Cron
                      /\ wpc'[w] = "retry" => copy'[w].rc < MaxRetries[copy'[w].id] - 1
    BY DEF Verdicts
  <1>1. UNCHANGED copy[w] BY WorkingStep DEF Working
  <1>2. CASE wpc'[w] = wpc[w] BY <1>1, <1>2 DEF Verdicts
  <1>3. CASE Return(w) \/ Timeout(w)
    <2>1. wpc'[w] = "reschedule" => copy[w].id \in Cron
      BY <1>3 DEF TypeOK, Return, Timeout, Goto
    <2>2. wpc'[w] = "retry" => copy[w].rc < MaxRetries[copy[w].id] - 1
      BY <1>3 DEF TypeOK, Return, Timeout, Goto
    <2> QED BY <1>1, <2>1, <2>2
  <1>4. CASE \/ \E u \in Task : Elapse(u) \/ ClaimHash(u) \/ CheckCycle(u) \/ SaveNew(u)
                                \/ RegisterHandler(u) \/ Evict(u)
             \/ \E s \in Sweep : SweepStep(s)
             \/ \E d \in Dispatcher : DispatcherStep(d) /\ ~Move(d)
             \/ (\E c \in lingering : Linger(c)) \/ Compact
             \/ UNCHANGED vars
    <2>1. UNCHANGED wpc
      BY <1>4 DEF Elapse, ClaimHash, CheckCycle, SaveNew, RegisterHandler, Evict, SweepStep,
                  PollRead, PollLock, PollTask, PollUnlock, PollDispatch, PollDone, DispatcherStep,
                  Acquire, Pop, PopEmpty, Exit, Grant, Deny, Unqueue, Linger, Compact, vars, workers
    <2> QED BY <2>1, <1>2
  <1>5. ASSUME NEW d \in Dispatcher, Move(d) PROVE wpc'[w] = wpc[w]
    <2>1. UNCHANGED wpc \/ \E v \in Worker : wpc' = [wpc EXCEPT ![v] = "check"]
      BY <1>5 DEF Move
    <2> QED BY <2>1 DEF TypeOK
  <1>6. ASSUME NEW v \in Worker, WorkerStep(v) \/ Timeout(v), ~(Return(w) \/ Timeout(w))
        PROVE  wpc'[w] = wpc[w]
    <2>1. CASE v # w
      <3>1. UNCHANGED wpc \/ \E pc : wpc' = [wpc EXCEPT ![v] = pc]
        BY <1>6 DEF WorkerStep, Timeout, Check, Call, Return, Reschedule, Retry, Scan, BlockChild,
                    DeadLetter, Complete, Delete, Unhash, Drop, Goto, Leave
      <3> QED BY <2>1, <3>1 DEF TypeOK
    <2>2. CASE v = w
      <3>1. UNCHANGED wpc
            \/ \E pc \in {"idle", "call", "run", "drop", "block", "dead", "delete", "unhash"} :
                 wpc' = [wpc EXCEPT ![w] = pc]
        BY <1>6, <2>2 DEF WorkerStep, Check, Call, Reschedule, Retry, Scan, BlockChild,
                    DeadLetter, Complete, Delete, Unhash, Drop, Goto, Leave
      <3> QED BY <3>1 DEF TypeOK
    <2> QED BY <2>1, <2>2
  <1>7. CASE Restart BY <1>7 DEF Restart
  <1> QED BY <1>2, <1>3, <1>4, <1>5, <1>6, <1>7 DEF Next

\* Steps that bring no copy of t nearer to its handler, and do not call it.
LEMMA SameLevel ==
  ASSUME NEW t \in Task, NEW h \in Nat, Level(t, h),
         store'[t] = None \/ store'[t].rc = h,
         \A s \in Sweep : \A c \in snap'[s] : c.id = t => c \in snap[s],
         \A c \in Copy : c.id = t => /\ Waits(c)' => Waits(c)
                                     /\ Called(c)' => Called(c)
                                     /\ Called(c) /\ c.rc = h => Called(c)',
         attempts'[t] = attempts[t]
  PROVE  Level(t, h)'
  <1>1. Stale(t, h)' => Stale(t, h) BY DEF Stale
  <1>2. h < TotalAttempts(t) /\ (store'[t] # None => store'[t].rc = h) BY DEF Level
  <1>3. \A s \in Sweep : \A c \in snap'[s] :
          c.id = t => /\ c.rc = h \/ c.rc = h - 1
                      /\ \A b \in snap'[s] : b.id = t => b = c
    BY DEF Level
  <1>4. \A c \in Copy : c.id = t /\ (Waits(c)' \/ Called(c)') =>
          (c.rc = h \/ c.rc = h - 1) /\ ~Stale(t, h)'
    BY <1>1 DEF Level
  <1>5. \/ attempts'[t] <= 2 * h - 1
        \/ /\ attempts'[t] <= 2 * h /\ ~Stale(t, h)'
           /\ \A c \in Copy : c.id = t /\ Waits(c)' => c.rc = h
        \/ attempts'[t] <= 2 * h + 1 /\ \E c \in Copy : c.id = t /\ c.rc = h /\ Called(c)'
    <2>1. CASE attempts[t] <= 2 * h - 1 BY <2>1
    <2>2. CASE /\ attempts[t] <= 2 * h /\ ~Stale(t, h)
               /\ \A c \in Copy : c.id = t /\ Waits(c) => c.rc = h
      <3>1. \A c \in Copy : c.id = t /\ Waits(c)' => c.rc = h BY <2>2
      <3> QED BY <1>1, <2>2, <3>1
    <2>3. CASE attempts[t] <= 2 * h + 1 /\ \E c \in Copy : c.id = t /\ c.rc = h /\ Called(c)
      <3>1. \E c \in Copy : c.id = t /\ c.rc = h /\ Called(c)' BY <2>3
      <3> QED BY <2>3, <3>1
    <2> QED BY <2>1, <2>2, <2>3 DEF Level
  <1>6. TotalAttempts(t)' = TotalAttempts(t) BY DEF TotalAttempts
  <1> QED BY <1>2, <1>3, <1>4, <1>5, <1>6 DEF Level

\* A copy begins to wait only when the sweep puts it on a heap.
LEMMA WaitsStep ==
  ASSUME TypeOK, [Next]_vars, NEW b \in Copy, Waits(b)', ~Waits(b)
  PROVE  \E s \in Sweep : b \in snap[s] /\ PollTask(s, b) /\ Eligible(b.id)
  <1>1. CASE \/ \E u \in Task : Elapse(u) \/ ClaimHash(u) \/ CheckCycle(u) \/ SaveNew(u)
                                \/ RegisterHandler(u) \/ Evict(u)
             \/ (\E c \in lingering : Linger(c)) \/ Compact
             \/ \E s \in Sweep : PollRead(s) \/ PollLock(s) \/ PollUnlock(s) \/ PollDone(s)
             \/ UNCHANGED vars
    <2>1. UNCHANGED <<pq, hand, dpc, wpc, copy>>
      BY <1>1 DEF Elapse, ClaimHash, CheckCycle, SaveNew, RegisterHandler, Evict, Linger, Compact, vars,
                  PollRead, PollLock, PollUnlock, PollDone, dispatchers, workers
    <2> QED BY <2>1 DEF Waits, Holding
  <1>2. CASE \E s \in Sweep : \E p \in Pool : PollDispatch(s, p)
    <2>1. UNCHANGED <<pq, hand, wpc, copy>> BY <1>2 DEF PollDispatch, workers
    <2>2. \A d \in Dispatcher : Holding(d)' => Holding(d)
      <3>1. UNCHANGED dpc \/ \E d \in Dispatcher : dpc' = [dpc EXCEPT ![d] = "acquire"]
        BY <1>2 DEF PollDispatch
      <3> QED BY <3>1 DEF TypeOK, Holding
    <2> QED BY <2>1, <2>2 DEF Waits
  <1>3. CASE \E s \in Sweep : \E c \in snap[s] : PollTask(s, c)
    <2> PICK s \in Sweep : \E c \in snap[s] : PollTask(s, c) BY <1>3
    <2> PICK c \in snap[s] : PollTask(s, c) OBVIOUS
    <2>1. UNCHANGED <<hand, dpc, wpc, copy>> BY DEF PollTask, dispatchers, workers
    <2>2. CASE ~Eligible(c.id)
      <3>1. UNCHANGED pq BY <2>2 DEF PollTask
      <3> QED BY <2>1, <3>1 DEF Waits, Holding
    <2>3. CASE Eligible(c.id)
      <3>1. pq' = [pq EXCEPT ![PoolOf(c.id)] = pq[PoolOf(c.id)] \cup {c}] BY <2>3 DEF PollTask
      <3>2. \A p \in Pool : \A e \in pq'[p] : e \in pq[p] \/ e = c BY <3>1 DEF TypeOK
      <3>3. b = c BY <2>1, <3>2 DEF Waits, Holding
      <3> QED BY <2>3, <3>3
    <2> QED BY <2>2, <2>3
  <1>4. ASSUME NEW d \in Dispatcher, DispatcherStep(d), ~Pop(d), ~Move(d) PROVE FALSE
    <2>1. UNCHANGED <<pq, wpc, copy>>
      BY <1>4 DEF DispatcherStep, Acquire, PopEmpty, Exit, Grant, Deny, Unqueue, workers
    <2>2. \A e \in Dispatcher : Holding(e)' => Holding(e) /\ hand'[e] = hand[e]
      <3>1. CASE Unqueue(d) BY <3>1 DEF TypeOK, Unqueue, Holding
      <3>2. CASE ~Unqueue(d)
        BY <1>4, <3>2 DEF TypeOK, DispatcherStep, Acquire, PopEmpty, Exit, Grant, Deny, Holding
      <3> QED BY <3>1, <3>2
    <2> QED BY <2>1, <2>2 DEF Waits
  <1>5. ASSUME NEW d \in Dispatcher, Pop(d) PROVE FALSE
    <2> PICK c \in pq[dpool[d]] :
          /\ pq' = [pq EXCEPT ![dpool[d]] = pq[dpool[d]] \ {c}]
          /\ hand' = [hand EXCEPT ![d] = c]
          /\ dpc' = [dpc EXCEPT ![d] = IF c.id \in Limited THEN "limit" ELSE "move"]
      BY <1>5 DEF Pop
    <2>1. UNCHANGED <<wpc, copy>> /\ dpool[d] \in Pool BY <1>5 DEF TypeOK, Pop, workers
    <2>2. \A p \in Pool : pq'[p] \subseteq pq[p] BY DEF TypeOK
    <2>3. \A e \in Dispatcher : e # d /\ Holding(e)' => Holding(e) /\ hand'[e] = hand[e]
      BY DEF TypeOK, Holding
    <2>4. hand'[d] = c /\ Waits(c) BY <2>1 DEF TypeOK, Waits
    <2>5. \A p \in Pool : \A e \in pq'[p] : Waits(e) BY <2>2 DEF Waits
    <2>6. \A e \in Dispatcher : Holding(e)' => Waits(hand'[e]) BY <2>3, <2>4 DEF Waits
    <2>7. \A v \in Worker : wpc'[v] \in {"check", "call"} => Waits(copy'[v])
      BY <2>1 DEF Waits
    <2>8. \/ \E p \in Pool : b \in pq'[p]
          \/ \E e \in Dispatcher : Holding(e)' /\ hand'[e] = b
          \/ \E v \in Worker : wpc'[v] \in {"check", "call"} /\ copy'[v] = b
      BY DEF Waits
    <2> QED BY <2>5, <2>6, <2>7, <2>8
  <1>6. ASSUME NEW d \in Dispatcher, Move(d) PROVE FALSE
    <2>1. /\ UNCHANGED pq /\ Holding(d) /\ hand' = [hand EXCEPT ![d] = None]
          /\ dpc' = [dpc EXCEPT ![d] = "acquire"]
      BY <1>6 DEF Move, Holding
    <2>2. \A e \in Dispatcher : Holding(e)' => Holding(e) /\ hand'[e] = hand[e]
      BY <2>1 DEF TypeOK, Holding
    <2>3. \A v \in Worker :
            \/ wpc'[v] = wpc[v] /\ copy'[v] = copy[v]
            \/ copy'[v] = hand[d]
      <3>1. CASE hand[d].id \in executing BY <1>6, <3>1 DEF Move
      <3>2. CASE hand[d].id \notin executing
        <4> PICK w \in Worker : /\ wpc' = [wpc EXCEPT ![w] = "check"]
                                /\ copy' = [copy EXCEPT ![w] = hand[d]]
          BY <1>6, <3>2 DEF Move
        <4> QED BY DEF TypeOK
      <3> QED BY <3>1, <3>2
    <2>4. Waits(hand[d]) BY <2>1 DEF Waits
    <2> QED BY <2>1, <2>2, <2>3, <2>4 DEF Waits
  <1>7. ASSUME NEW w \in Worker, WorkerStep(w) \/ Timeout(w) PROVE FALSE
    <2>1. UNCHANGED <<pq, hand, dpc>>
      BY <1>7 DEF WorkerStep, Timeout, Check, Call, Return, Reschedule, Retry, Scan, BlockChild,
                  DeadLetter, Complete, Delete, Unhash, Drop, dispatchers
    <2>2. \A v \in Worker : v # w => wpc'[v] = wpc[v] /\ copy'[v] = copy[v]
      BY <1>7 DEF WorkerStep, Timeout, Check, Call, Return, Reschedule, Retry, Scan, BlockChild,
                  DeadLetter, Complete, Delete, Unhash, Drop, Goto, Leave, TypeOK
    <2>3. wpc'[w] \in {"check", "call"} =>
            wpc[w] \in {"check", "call"} /\ copy'[w] = copy[w]
      <3>1. CASE Check(w) BY <3>1 DEF TypeOK, Check, Leave, Goto
      <3>2. CASE ~Check(w)
        <4>1. \/ UNCHANGED <<wpc, copy>>
              \/ \E pc \in {"idle", "run", "ok", "reschedule", "retry", "scan", "block", "drop",
                            "dead", "delete", "unhash"} : wpc' = [wpc EXCEPT ![w] = pc]
          BY <1>7, <3>2 DEF WorkerStep, Timeout, Call, Return, Reschedule, Retry, Scan,
                  BlockChild, DeadLetter, Complete, Delete, Unhash, Drop, Goto, Leave
        <4> QED BY <4>1 DEF TypeOK
      <3> QED BY <3>1, <3>2
    <2> QED BY <2>1, <2>2, <2>3 DEF Waits, Holding
  <1>8. CASE Restart BY <1>8 DEF Restart, Waits, Holding
  <1> QED BY <1>1, <1>2, <1>3, <1>4, <1>5, <1>6, <1>7, <1>8 DEF Next, SweepStep

\* A handler is called by Call, and the call is over when the worker writes or completes.
LEMMA CalledStep ==
  ASSUME TypeOK, [Next]_vars, NEW c \in Copy
  PROVE  /\ Called(c)' /\ ~Called(c) =>
              \E w \in Worker : Call(w) /\ wpc'[w] = "run" /\ copy[w] = c
         /\ Called(c) /\ ~Called(c)' =>
              \/ Restart
              \/ \E w \in Worker : (Saves(w, c.id) \/ Complete(w)) /\ copy[w] = c
  <1>1. CASE UNCHANGED <<wpc, copy>> BY <1>1 DEF Called
  <1>2. CASE \/ \E u \in Task : Elapse(u) \/ ClaimHash(u) \/ CheckCycle(u) \/ SaveNew(u)
                                \/ RegisterHandler(u) \/ Evict(u)
             \/ \E s \in Sweep : SweepStep(s)
             \/ \E d \in Dispatcher : DispatcherStep(d) /\ ~Move(d)
             \/ (\E e \in lingering : Linger(e)) \/ Compact
             \/ UNCHANGED vars
    <2>1. UNCHANGED <<wpc, copy>>
      BY <1>2 DEF Elapse, ClaimHash, CheckCycle, SaveNew, RegisterHandler, Evict, SweepStep,
                  PollRead, PollLock, PollTask, PollUnlock, PollDispatch, PollDone, DispatcherStep,
                  Acquire, Pop, PopEmpty, Exit, Grant, Deny, Unqueue, Linger, Compact, vars, workers
    <2> QED BY <2>1, <1>1
  <1>3. ASSUME NEW d \in Dispatcher, Move(d)
        PROVE  Called(c)' <=> Called(c)
    <2>1. \/ UNCHANGED <<wpc, copy>>
          \/ \E w \in Worker : /\ wpc[w] = "idle" /\ wpc' = [wpc EXCEPT ![w] = "check"]
                               /\ copy' = [copy EXCEPT ![w] = hand[d]]
      BY <1>3 DEF Move
    <2>2. \A v \in Worker : \/ wpc'[v] = wpc[v] /\ copy'[v] = copy[v]
                            \/ wpc[v] = "idle" /\ wpc'[v] = "check"
      BY <2>1 DEF TypeOK
    <2> QED BY <2>2 DEF Called, Attempting
  <1>4. ASSUME NEW w \in Worker, WorkerStep(w) \/ Timeout(w)
        PROVE  /\ Called(c)' /\ ~Called(c) =>
                    Call(w) /\ wpc'[w] = "run" /\ copy[w] = c
               /\ Called(c) /\ ~Called(c)' => (Saves(w, c.id) \/ Complete(w)) /\ copy[w] = c
    <2>1. \A v \in Worker : v # w => wpc'[v] = wpc[v] /\ copy'[v] = copy[v]
      BY <1>4 DEF WorkerStep, Timeout, Check, Call, Return, Reschedule, Retry, Scan, BlockChild,
                  DeadLetter, Complete, Delete, Unhash, Drop, Goto, Leave, TypeOK
    <2>2. CASE Return(w) \/ Timeout(w) \/ Scan(w) \/ (\E t \in Task : BlockChild(w, t)) \/ DeadLetter(w)
      <3>1. wpc[w] \in Attempting /\ wpc'[w] \in Attempting /\ copy'[w] = copy[w]
        BY <2>2 DEF TypeOK, Return, Timeout, Scan, BlockChild, DeadLetter, Goto, Attempting
      <3> QED BY <2>1, <3>1 DEF Called
    <2>3. CASE Call(w)
      <3>1. /\ wpc[w] = "call" /\ copy'[w] = copy[w] /\ wpc'[w] \in {"run", "drop"}
        BY <2>3 DEF TypeOK, Call, Goto
      <3>2. Called(c) => Called(c)' BY <2>1, <3>1 DEF Called, Attempting
      <3>3. Called(c)' /\ ~Called(c) => wpc'[w] = "run" /\ copy[w] = c
        BY <2>1, <3>1 DEF Called, Attempting
      <3> QED BY <2>3, <3>2, <3>3
    <2>4. CASE Check(w) \/ Delete(w) \/ Unhash(w) \/ Drop(w)
      <3>1. wpc[w] \notin Attempting /\ wpc'[w] \notin Attempting
        BY <2>4 DEF TypeOK, Check, Delete, Unhash, Drop, Leave, Goto, Attempting
      <3> QED BY <2>1, <3>1 DEF Called
    <2>5. CASE Retry(w) \/ Reschedule(w) \/ Complete(w)
      <3>1. wpc'[w] \notin Attempting /\ copy'[w] = copy[w]
        BY <2>5 DEF TypeOK, Retry, Reschedule, Complete, Goto, Attempting
      <3>2. Called(c)' => Called(c) BY <2>1, <3>1 DEF Called
      <3>3. Called(c) /\ ~Called(c)' => copy[w] = c BY <2>1 DEF Called
      <3> QED BY <2>5, <3>2, <3>3 DEF Saves
    <2> QED BY <1>4, <2>2, <2>3, <2>4, <2>5 DEF WorkerStep
  <1>5. CASE Restart BY <1>5 DEF Restart, Called, Attempting
  <1> QED BY <1>1, <1>2, <1>3, <1>4, <1>5 DEF Next

\* A task that a worker has is nowhere else in the engine.
LEMMA AloneAtWork ==
  ASSUME TypeOK, OnePlace, NEW w \in Worker, Busy(w)
  PROVE  /\ \A p \in Pool : \A c \in pq[p] : c.id # copy[w].id
         /\ \A d \in Dispatcher : Holding(d) => hand[d].id # copy[w].id
         /\ \A v \in Worker : Busy(v) /\ v # w => copy[v].id # copy[w].id
  <1>1. copy[w].id \in executing BY DEF OnePlace, WorkersMarked
  <1>2. copy[w].id \notin queued BY <1>1 DEF OnePlace, QueuedNotExecuting
  <1>3. \A p \in Pool : \A c \in pq[p] : c.id # copy[w].id
    BY <1>2 DEF OnePlace, QueuedExact
  <1>4. \A d \in Dispatcher : Holding(d) => hand[d].id # copy[w].id
    BY <1>2 DEF OnePlace, QueuedExact
  <1>5. \A v \in Worker : Busy(v) /\ v # w => copy[v].id # copy[w].id
    BY DEF OnePlace, OneWorkerPerTask
  <1> QED BY <1>3, <1>4, <1>5

\* Attempts are counted when a handler is called, and from zero for a new record.
LEMMA AttemptsStep ==
  ASSUME TypeOK, [Next]_vars, NEW t \in Task, attempts'[t] # attempts[t]
  PROVE  \/ SaveNew(t)
         \/ \E w \in Worker : /\ Call(w) /\ copy[w].id = t /\ wpc'[w] = "run"
                              /\ attempts'[t] <= attempts[t] + 1
  <1>1. CASE \E u \in Task : SaveNew(u)
    <2> PICK u \in Task : SaveNew(u) BY <1>1
    <2>1. UNCHANGED attempts \/ attempts' = [attempts EXCEPT ![u] = 0] BY DEF SaveNew, history
    <2>2. u = t BY <2>1 DEF TypeOK
    <2> QED BY <2>2
  <1>2. CASE \E w \in Worker : Call(w)
    <2> PICK w \in Worker : Call(w) BY <1>2
    <2>1. Busy(w) /\ copy[w].id \in Task BY AtWork DEF WorkerStep
    <2>2. attempts' # attempts OBVIOUS
    <2>3. /\ Goto(w, "run")
          /\ attempts' = [attempts EXCEPT ![copy[w].id] = IF @ < AttemptCap THEN @ + 1 ELSE @]
      BY <2>2 DEF Call
    <2>4. copy[w].id = t BY <2>1, <2>3 DEF TypeOK
    <2>5. attempts'[t] <= attempts[t] + 1 BY <2>3, <2>4 DEF TypeOK
    <2>6. wpc'[w] = "run" BY <2>3 DEF TypeOK, Goto
    <2> QED BY <2>4, <2>5, <2>6
  <1>3. CASE \/ \E u \in Task : Elapse(u) \/ ClaimHash(u) \/ CheckCycle(u)
                                \/ RegisterHandler(u) \/ Evict(u)
             \/ \E s \in Sweep : SweepStep(s)
             \/ (\E c \in lingering : Linger(c)) \/ Compact
             \/ UNCHANGED vars
    BY <1>3 DEF Elapse, ClaimHash, CheckCycle, RegisterHandler, Evict, SweepStep, PollRead,
                PollLock, PollTask, PollUnlock, PollDispatch, PollDone, Linger, Compact, vars, history
  <1>4. CASE \E d \in Dispatcher : DispatcherStep(d)
    BY <1>4 DEF DispatcherStep, Acquire, Pop, PopEmpty, Exit, Grant, Deny, Unqueue, Move, history
  <1>5. CASE \E w \in Worker : (WorkerStep(w) /\ ~Call(w)) \/ Timeout(w)
    BY <1>5 DEF WorkerStep, Timeout, Check, Return, Reschedule, Retry, Scan, BlockChild,
                DeadLetter, Complete, Delete, Unhash, Drop, history
  <1>6. CASE Restart BY <1>6 DEF Restart, history
  <1> QED BY <1>1, <1>2, <1>3, <1>4, <1>5, <1>6 DEF Next

\* A snapshot is read by PollRead and only shrinks until the next one.
LEMMA SnapStep ==
  ASSUME TypeOK, [Next]_vars, NEW s \in Sweep, ~PollRead(s)
  PROVE  snap'[s] \subseteq snap[s]
  <1>1. CASE \E r \in Sweep : PollRead(r)
    <2> PICK r \in Sweep : PollRead(r) BY <1>1
    <2>1. \A q \in Sweep : q # r => snap'[q] = snap[q] BY DEF PollRead, TypeOK
    <2> QED BY <2>1
  <1>2. CASE \E r \in Sweep : \E c \in snap[r] : PollTask(r, c)
    <2> PICK r \in Sweep : \E c \in snap[r] : PollTask(r, c) BY <1>2
    <2> PICK c \in snap[r] : PollTask(r, c) OBVIOUS
    <2>1. snap' = [snap EXCEPT ![r] = snap[r] \ {c}] BY DEF PollTask
    <2> QED BY <2>1 DEF TypeOK
  <1>3. CASE \/ \E u \in Task : Elapse(u) \/ ClaimHash(u) \/ CheckCycle(u) \/ SaveNew(u)
                                \/ RegisterHandler(u) \/ Evict(u)
             \/ \E r \in Sweep : \/ PollLock(r) \/ PollUnlock(r) \/ PollDone(r)
                                 \/ \E p \in Pool : PollDispatch(r, p)
             \/ (\E c \in lingering : Linger(c)) \/ Compact
             \/ UNCHANGED vars
    BY <1>3 DEF Elapse, ClaimHash, CheckCycle, SaveNew, RegisterHandler, Evict, PollLock,
                PollUnlock, PollDispatch, PollDone, Linger, Compact, vars, sweeps
  <1>4. CASE \E d \in Dispatcher : DispatcherStep(d)
    BY <1>4 DEF DispatcherStep, Acquire, Pop, PopEmpty, Exit, Grant, Deny, Unqueue, Move, sweeps
  <1>5. CASE \E w \in Worker : WorkerStep(w) \/ Timeout(w)
    BY <1>5 DEF WorkerStep, Timeout, Check, Call, Return, Reschedule, Retry, Scan, BlockChild,
                DeadLetter, Complete, Delete, Unhash, Drop, sweeps
  <1>6. CASE Restart BY <1>6 DEF Restart, TypeOK
  <1> QED BY <1>1, <1>2, <1>3, <1>4, <1>5, <1>6 DEF Next, SweepStep

\* A handler is called: for the stored count, or for the one before.
LEMMA CallLevel ==
  ASSUME TypeOK, OnePlace, [Next]_vars, NEW t \in Task, NEW h \in Nat, Level(t, h),
         NEW w \in Worker, Call(w), copy[w].id = t, wpc'[w] = "run",
         attempts'[t] <= attempts[t] + 1
  PROVE  Level(t, h)'
  <1>1. /\ UNCHANGED <<store, snap, pq, hand, dpc, copy>> /\ wpc' = [wpc EXCEPT ![w] = "run"]
        /\ wpc[w] = "call"
    <2>1. UNCHANGED <<store, snap, pq, hand, dpc, copy>> /\ wpc[w] = "call"
      BY DEF Call, sweeps, dispatchers
    <2>2. Goto(w, "run") \/ Goto(w, "drop") BY DEF Call
    <2>3. Goto(w, "run") BY <2>2 DEF TypeOK, Goto
    <2> QED BY <2>1, <2>3 DEF Goto
  <1>2. Busy(w) /\ copy[w] \in Copy BY <1>1 DEF TypeOK, Busy
  <1>3. /\ \A p \in Pool : \A c \in pq[p] : c.id # t
        /\ \A d \in Dispatcher : Holding(d) => hand[d].id # t
        /\ \A v \in Worker : Busy(v) /\ v # w => copy[v].id # t
    BY <1>2, AloneAtWork
  <1>4. Waits(copy[w]) BY <1>1 DEF Waits
  <1>5. (copy[w].rc = h \/ copy[w].rc = h - 1) /\ ~Stale(t, h) BY <1>2, <1>4 DEF Level
  <1>6. \A c \in Copy : c.id = t => ~Called(c)
    BY <1>1, <1>3 DEF Called, Attempting, Busy
  <1>7. \A c \in Copy : c.id = t => ~Waits(c)'
    <2>1. \A c \in Copy : c.id = t => /\ \A p \in Pool : c \notin pq'[p]
                                      /\ \A d \in Dispatcher : Holding(d)' => hand'[d] # c
      BY <1>1, <1>3 DEF Holding
    <2>2. wpc'[w] = "run" OBVIOUS
    <2>3. \A v \in Worker : v # w /\ wpc'[v] \in {"check", "call"} => copy'[v].id # t
      BY <1>1, <1>3 DEF TypeOK, Busy
    <2> QED BY <2>1, <2>2, <2>3 DEF Waits
  <1>8. \A c \in Copy : c.id = t /\ Called(c)' => c = copy[w]
    <2>1. \A v \in Worker : v # w /\ wpc'[v] \in Attempting => copy'[v].id # t
      BY <1>1, <1>3 DEF TypeOK, Busy, Attempting
    <2> QED BY <1>1, <2>1 DEF Called
  <1>9. \A c \in Copy : c = copy[w] => Called(c)'
    <2>1. wpc'[w] \in Attempting /\ copy'[w] = copy[w] BY <1>1 DEF TypeOK, Attempting
    <2> QED BY <2>1 DEF Called
  <1>10. UNCHANGED Stale(t, h) BY <1>1 DEF Stale
  <1>11. attempts[t] \in Nat /\ attempts'[t] \in Nat
    <2>1. attempts[t] \in Nat BY DEF TypeOK
    <2>2. attempts'[t] \in Nat
      <3>1. UNCHANGED attempts
            \/ attempts' = [attempts EXCEPT ![t] = IF @ < AttemptCap THEN @ + 1 ELSE @]
        BY DEF Call
      <3> QED BY <3>1 DEF TypeOK
    <2> QED BY <2>1, <2>2
  <1>12. \/ attempts'[t] <= 2 * h - 1
         \/ /\ attempts'[t] <= 2 * h /\ ~Stale(t, h)'
            /\ \A c \in Copy : c.id = t /\ Waits(c)' => c.rc = h
         \/ attempts'[t] <= 2 * h + 1 /\ \E c \in Copy : c.id = t /\ c.rc = h /\ Called(c)'
    <2>1. CASE attempts[t] <= 2 * h - 1
      <3>1. attempts'[t] <= 2 * h BY <1>11, <2>1
      <3> QED BY <3>1, <1>5, <1>7, <1>10
    <2>2. CASE attempts[t] <= 2 * h /\ \A c \in Copy : c.id = t /\ Waits(c) => c.rc = h
      <3>1. attempts'[t] <= 2 * h + 1 BY <1>11, <2>2
      <3>2. copy[w].rc = h BY <2>2, <1>2, <1>4
      <3> QED BY <3>1, <3>2, <1>2, <1>9
    <2> QED BY <2>1, <2>2, <1>6 DEF Level
  <1>13. /\ h < TotalAttempts(t)
         /\ store'[t] # None => store'[t].rc = h
         /\ \A s \in Sweep : \A c \in snap'[s] :
              c.id = t => /\ c.rc = h \/ c.rc = h - 1
                          /\ \A b \in snap'[s] : b.id = t => b = c
    BY <1>1 DEF Level
  <1>14. \A c \in Copy : c.id = t /\ (Waits(c)' \/ Called(c)') =>
           (c.rc = h \/ c.rc = h - 1) /\ ~Stale(t, h)'
    BY <1>5, <1>7, <1>8, <1>10
  <1>15. TotalAttempts(t)' = TotalAttempts(t) BY DEF TotalAttempts
  <1> QED BY <1>12, <1>13, <1>14, <1>15 DEF Level

\* Nothing of t waits or is called.
Quiet(t) == \A c \in Copy : c.id = t => ~Waits(c) /\ ~Called(c)

\* An attempt is to be repeated: the next count is stored.
LEMMA RetryLevel ==
  ASSUME ~WritesFail, TypeOK, OnePlace, Verdicts, [Next]_vars,
         NEW t \in Task, NEW h \in Nat, Level(t, h),
         NEW w \in Worker, Retry(w), copy[w].id = t
  PROVE  \E g \in Nat : Level(t, g)'
  <1>1. /\ UNCHANGED <<snap, pq, hand, dpc, copy, attempts>>
        /\ wpc' = [wpc EXCEPT ![w] = "drop"] /\ wpc[w] = "retry"
    BY DEF Retry, Goto, sweeps, dispatchers, history
  <1>2. Busy(w) /\ copy[w] \in Copy /\ copy[w].rc \in Nat BY <1>1 DEF TypeOK, Busy, Copy
  <1>3. /\ \A p \in Pool : \A c \in pq[p] : c.id # t
        /\ \A d \in Dispatcher : Holding(d) => hand[d].id # t
        /\ \A v \in Worker : Busy(v) /\ v # w => copy[v].id # t
    BY <1>2, AloneAtWork
  <1>4. Called(copy[w]) BY <1>1 DEF Called, Attempting
  <1>5. (copy[w].rc = h \/ copy[w].rc = h - 1) /\ ~Stale(t, h) BY <1>2, <1>4 DEF Level
  <1>6. \A s \in Sweep : \A c \in snap[s] :
          c.id = t => c.rc = h /\ \A b \in snap[s] : b.id = t => b = c
    BY <1>5 DEF Level, Stale
  <1>7. Quiet(t)'
    <2>1. \A c \in Copy : c.id = t => /\ \A p \in Pool : c \notin pq'[p]
                                      /\ \A d \in Dispatcher : Holding(d)' => hand'[d] # c
      BY <1>1, <1>3 DEF Holding
    <2>2. wpc'[w] = "drop" BY <1>1 DEF TypeOK
    <2>3. \A v \in Worker : v # w /\ wpc'[v] \in {"check", "call"} \cup Attempting => copy'[v].id # t
      BY <1>1, <1>3 DEF TypeOK, Busy, Attempting
    <2>4. \A c \in Copy : c.id = t => ~Waits(c)' BY <2>1, <2>2, <2>3 DEF Waits
    <2>5. \A c \in Copy : c.id = t => ~Called(c)' BY <2>2, <2>3 DEF Called, Attempting
    <2> QED BY <2>4, <2>5 DEF Quiet
  <1>8. store'[t] # None => store'[t].rc = copy[w].rc + 1
    <2>1. store' = [store EXCEPT ![t] = [rc |-> copy[w].rc + 1, due |-> FALSE]]
      BY DEF Retry, Write, NextCount
    <2> QED BY <2>1 DEF TypeOK
  <1>9. copy[w].rc < MaxRetries[t] - 1 BY <1>1 DEF Verdicts
  <1>10. attempts[t] \in Nat /\ MaxRetries[t] \in Nat BY DEF TypeOK
  <1>11. attempts[t] <= 2 * h + 1 BY <1>10 DEF Level
  <1>12. CASE copy[w].rc = h
    <2>1. h + 1 < TotalAttempts(t)' BY <1>9, <1>10, <1>12 DEF TotalAttempts
    <2>2. attempts'[t] <= 2 * (h + 1) - 1 BY <1>1, <1>11, <1>10
    <2>3. \A s \in Sweep : \A c \in snap'[s] :
            c.id = t => /\ c.rc = h + 1 \/ c.rc = h + 1 - 1
                        /\ \A b \in snap'[s] : b.id = t => b = c
      <3>1. h + 1 - 1 = h OBVIOUS
      <3> QED BY <1>1, <1>6, <3>1
    <2>4. store'[t] # None => store'[t].rc = h + 1 BY <1>8, <1>12
    <2>5. Level(t, h + 1)' BY <1>7, <2>1, <2>2, <2>3, <2>4 DEF Level, Quiet
    <2> QED BY <2>5
  <1>13. CASE copy[w].rc = h - 1
    <2>1. \A c \in Copy : c.id = t /\ Called(c) => c = copy[w]
      BY <1>3 DEF Called, Attempting, Busy
    <2>2. ~\E c \in Copy : c.id = t /\ c.rc = h /\ Called(c) BY <1>13, <2>1
    <2>3. attempts'[t] <= 2 * h BY <1>1, <1>10, <2>2 DEF Level
    <2>4. ~Stale(t, h)' BY <1>1, <1>5 DEF Stale
    <2>5. store'[t] # None => store'[t].rc = h BY <1>2, <1>8, <1>13
    <2>6. h < TotalAttempts(t)' BY DEF Level, TotalAttempts
    <2>7. \A s \in Sweep : \A c \in snap'[s] :
            c.id = t => /\ c.rc = h \/ c.rc = h - 1
                        /\ \A b \in snap'[s] : b.id = t => b = c
      BY <1>1, <1>6
    <2>8. \A c \in Copy : c.id = t => ~Waits(c)' /\ ~Called(c)' BY <1>7 DEF Quiet
    <2>9. Level(t, h)' BY <2>3, <2>4, <2>5, <2>6, <2>7, <2>8 DEF Level
    <2> QED BY <2>9
  <1> QED BY <1>5, <1>12, <1>13

\* A task that is not queued and not executing has no copy to call.
LEMMA QuietUnlessMarked ==
  ASSUME TypeOK, OnePlace, NEW t \in Task, t \notin queued, t \notin executing
  PROVE  Quiet(t)
  <1>1. /\ \A p \in Pool : \A c \in pq[p] : c.id # t
        /\ \A d \in Dispatcher : Holding(d) => hand[d].id # t
    BY DEF OnePlace, QueuedExact
  <1>2. \A w \in Worker : Busy(w) => copy[w].id # t BY DEF OnePlace, WorkersMarked
  <1>3. \A c \in Copy : c.id = t => ~Called(c) BY <1>2 DEF Called, Attempting, Busy
  <1>4. \A c \in Copy : c.id = t => ~Waits(c) BY <1>1, <1>2 DEF Waits, Busy
  <1> QED BY <1>3, <1>4 DEF Quiet

\* The only sweep reads the store again.
LEMMA ReadLevel ==
  ASSUME TypeOK, NEW t \in Task, NEW h \in Nat, Level(t, h),
         NEW s \in Sweep, \A r \in Sweep : r = s, PollRead(s)
  PROVE  Level(t, h)'
  <1>1. /\ UNCHANGED <<store, pq, hand, dpc, wpc, copy, attempts>>
        /\ snap'[s] = {[id |-> u, rc |-> store[u].rc] : u \in {v \in Stored : store[v].due}}
    BY DEF PollRead, TypeOK, dispatchers, workers, history
  <1>2. \A r \in Sweep : \A c \in snap'[r] : c.id = t => c = [id |-> t, rc |-> h]
    BY <1>1 DEF Level, Stored
  <1>3. \A r \in Sweep : \A c \in snap'[r] :
          c.id = t => c.rc = h /\ \A b \in snap'[r] : b.id = t => b = c
    BY <1>2
  <1>4. ~Stale(t, h)' BY <1>3 DEF Stale
  <1>5. \A c \in Copy : (Waits(c)' <=> Waits(c)) /\ (Called(c)' <=> Called(c))
    BY <1>1 DEF Waits, Called, Holding
  <1>6. \/ attempts'[t] <= 2 * h - 1
        \/ /\ attempts'[t] <= 2 * h
           /\ \A c \in Copy : c.id = t /\ Waits(c)' => c.rc = h
        \/ attempts'[t] <= 2 * h + 1 /\ \E c \in Copy : c.id = t /\ c.rc = h /\ Called(c)'
    BY <1>1, <1>5 DEF Level
  <1>7. h < TotalAttempts(t)' /\ (store'[t] # None => store'[t].rc = h)
    BY <1>1 DEF Level, TotalAttempts
  <1>8. \A c \in Copy : c.id = t /\ (Waits(c)' \/ Called(c)') => c.rc = h \/ c.rc = h - 1
    BY <1>5 DEF Level
  <1> QED BY <1>3, <1>4, <1>6, <1>7, <1>8 DEF Level

\* The only sweep puts a copy of t on a heap: nothing else of t is in the engine.
LEMMA PushLevel ==
  ASSUME TypeOK, OnePlace, [Next]_vars, NEW t \in Task, NEW h \in Nat, Level(t, h),
         NEW s \in Sweep, \A r \in Sweep : r = s,
         NEW c \in snap[s], c.id = t, PollTask(s, c), Eligible(t)
  PROVE  Level(t, h)'
  <1>1. /\ UNCHANGED <<store, hand, dpc, wpc, copy, attempts>>
        /\ snap'[s] = snap[s] \ {c}
    BY DEF PollTask, TypeOK, dispatchers, workers, history
  <1>2. Quiet(t) BY QuietUnlessMarked DEF Eligible
  <1>3. c \in Copy BY DEF TypeOK
  <1>4. \A r \in Sweep : \A b \in snap'[r] : b.id # t BY <1>1 DEF Level
  <1>5. ~Stale(t, h)' BY <1>4 DEF Stale
  <1>6. \A b \in Copy : b.id = t /\ Waits(b)' => b = c
    <2>1. pq' = [pq EXCEPT ![PoolOf(t)] = pq[PoolOf(t)] \cup {c}] BY DEF PollTask
    <2>2. \A p \in Pool : \A b \in pq'[p] : b \in pq[p] \/ b = c BY <2>1 DEF TypeOK
    <2>3. \A b : Waits(b)' => Waits(b) \/ b = c BY <1>1, <2>2 DEF Waits, Holding
    <2> QED BY <1>2, <2>3 DEF Quiet
  <1>7. \A b \in Copy : b.id = t => ~Called(b)' BY <1>1, <1>2 DEF Called, Quiet
  <1>8. c.rc = h \/ c.rc = h - 1 BY DEF Level
  <1>9. \/ attempts'[t] <= 2 * h - 1
        \/ attempts'[t] <= 2 * h /\ \A b \in Copy : b.id = t /\ Waits(b)' => b.rc = h
    <2>1. CASE attempts[t] <= 2 * h - 1 BY <1>1, <2>1
    <2>2. CASE attempts[t] <= 2 * h /\ ~Stale(t, h)
      <3>1. c.rc # h - 1 BY <2>2 DEF Stale
      <3> QED BY <1>1, <1>6, <1>8, <2>2, <3>1
    <2> QED BY <1>2, <2>1, <2>2 DEF Level, Quiet
  <1>10. h < TotalAttempts(t)' /\ (store'[t] # None => store'[t].rc = h)
    BY <1>1 DEF Level, TotalAttempts
  <1>11. \A b \in Copy : b.id = t /\ (Waits(b)' \/ Called(b)') => b.rc = h \/ b.rc = h - 1
    BY <1>6, <1>7, <1>8
  <1> QED BY <1>4, <1>5, <1>9, <1>10, <1>11 DEF Level

\* A record is saved for the first time: nothing of it is in the engine.
LEMMA NewLevel ==
  ASSUME ~WritesFail, TypeOK, Once, NEW t \in Task, SaveNew(t)
  PROVE  attempts'[t] = 0 /\ Level(t, 0)'
  <1>1. /\ UNCHANGED <<snap, pq, hand, dpc, wpc, copy>>
        /\ \E due \in BOOLEAN : store' = [store EXCEPT ![t] = [rc |-> 0, due |-> due]]
        /\ attempts' = [attempts EXCEPT ![t] = 0]
    BY DEF SaveNew, sweeps, dispatchers, workers
  <1>2. attempts'[t] = 0 /\ store'[t].rc = 0 BY <1>1 DEF TypeOK
  <1>3. ~Carried(t) BY SavedIsNew DEF Nowhere
  <1>4. \A s \in Sweep : \A c \in snap'[s] : c.id # t BY <1>1, <1>3 DEF Carried, Read
  <1>5. \A c \in Copy : c.id = t => ~Waits(c)' /\ ~Called(c)'
    BY <1>1, <1>3 DEF Carried, Started, Waits, Called, Attempting, Holding, Busy
  <1>6. ~Stale(t, 0)' BY <1>4 DEF Stale
  <1>7. 0 < TotalAttempts(t)' BY DEF TotalAttempts
  <1>8. attempts'[t] <= 2 * 0 BY <1>2
  <1>9. Level(t, 0)' BY <1>2, <1>4, <1>5, <1>6, <1>7, <1>8 DEF Level
  <1> QED BY <1>2, <1>9

\* The level of a task that stays uncompleted.
LEMMA LevelStep ==
  ASSUME ~WritesFail, \A r, s \in Sweep : r = s, TypeOK, Certain, OnePlace, Once, Unlimited,
         Verdicts, [Next]_vars, ~Restart, NEW t \in Task \ Cron, t \notin completed', NEW h \in Nat,
         Level(t, h)
  PROVE  \E g \in Nat : Level(t, g)'
  <1>1. CASE SaveNew(t) BY <1>1, NewLevel
  <1>2. CASE \E w \in Worker : Call(w) /\ copy[w].id = t /\ wpc'[w] = "run"
    <2> PICK w \in Worker : Call(w) /\ copy[w].id = t /\ wpc'[w] = "run" BY <1>2
    <2>1. attempts'[t] <= attempts[t] + 1
      <3>1. \/ UNCHANGED attempts
            \/ attempts' = [attempts EXCEPT ![t] = IF @ < AttemptCap THEN @ + 1 ELSE @]
        BY DEF Call
      <3> QED BY <3>1 DEF TypeOK
    <2> QED BY <2>1, CallLevel
  <1>3. CASE \E w \in Worker : Retry(w) /\ copy[w].id = t BY <1>3, RetryLevel
  <1>4. CASE \E s \in Sweep : PollRead(s) BY <1>4, ReadLevel
  <1>5. CASE \E s \in Sweep : \E c \in snap[s] : c.id = t /\ PollTask(s, c) /\ Eligible(t)
    BY <1>5, PushLevel
  <1>6. CASE ~(\/ SaveNew(t)
               \/ \E w \in Worker : Call(w) /\ copy[w].id = t /\ wpc'[w] = "run"
               \/ \E w \in Worker : Retry(w) /\ copy[w].id = t
               \/ \E s \in Sweep : PollRead(s)
               \/ \E s \in Sweep : \E c \in snap[s] : c.id = t /\ PollTask(s, c) /\ Eligible(t))
    <2>1. ~\E w \in Worker : Saves(w, t) BY <1>6 DEF Saves, Verdicts, Reschedule
    <2>2. ~\E w \in Worker : Complete(w) /\ copy[w].id = t BY DEF Complete
    <2>3. store'[t] = None \/ store'[t].rc = h
      <3>1. CASE store'[t] = store[t] BY <3>1 DEF Level
      <3>2. CASE Elapse(t) /\ t \in Stored
        <4>1. store'[t].rc = store[t].rc BY <3>2 DEF Elapse, TypeOK, Record, Stored
        <4> QED BY <3>2, <4>1 DEF Level, Stored
      <3>3. ~\E d \in Dispatcher : Deny(d) BY DEF Unlimited, Deny
      <3> QED BY <1>6, <2>1, <3>1, <3>2, <3>3, SureStep DEF Saving
    <2>4. \A s \in Sweep : \A c \in snap'[s] : c.id = t => c \in snap[s] BY <1>6, SnapStep
    <2>5. \A c \in Copy : c.id = t => (Waits(c)' => Waits(c)) BY <1>6, WaitsStep
    <2>6. \A c \in Copy : c.id = t => (Called(c)' => Called(c)) /\ (Called(c) => Called(c)')
      BY <1>6, <2>1, <2>2, CalledStep
    <2>7. attempts'[t] = attempts[t] BY <1>6, AttemptsStep
    <2>8. Level(t, h)' BY <2>3, <2>4, <2>5, <2>6, <2>7, SameLevel
    <2> QED BY <2>8
  <1> QED BY <1>1, <1>2, <1>3, <1>4, <1>5, <1>6

\* A completed task keeps its count, and one that completes has called its handler for the
\* last time.
LEMMA DoubledStep ==
  ASSUME ~WritesFail, ~TTLExpires, \A r, s \in Sweep : r = s,
         TypeOK, Certain, OnePlace, Once, Past, Unlimited, Verdicts, Doubled, [Next]_vars
  PROVE  Doubled'
  <1> SUFFICES ASSUME crashes' = 0, NEW t \in Task \ Cron
               PROVE  IF t \in completed' THEN attempts'[t] < 2 * TotalAttempts(t)
                      ELSE \E h \in Nat : Level(t, h)'
    BY DEF Doubled, TotalAttempts
  <1>1. ~Restart /\ crashes = 0
    <2>1. ~Restart BY DEF Restart, TypeOK
    <2>2. UNCHANGED crashes
      <3>1. CASE \/ \E u \in Task : Elapse(u) \/ ClaimHash(u) \/ CheckCycle(u) \/ SaveNew(u)
                                    \/ RegisterHandler(u) \/ Evict(u)
                 \/ \E s \in Sweep : SweepStep(s)
                 \/ (\E c \in lingering : Linger(c)) \/ Compact
                 \/ UNCHANGED vars
        BY <3>1 DEF Elapse, ClaimHash, CheckCycle, SaveNew, RegisterHandler, Evict, SweepStep,
             PollRead, PollLock, PollTask, PollUnlock, PollDispatch, PollDone, Linger, Compact, vars,
             environment
      <3>2. CASE \E d \in Dispatcher : DispatcherStep(d)
        BY <3>2 DEF DispatcherStep, Acquire, Pop, PopEmpty, Exit, Grant, Deny, Unqueue, Move,
             environment
      <3>3. CASE \E w \in Worker : WorkerStep(w) \/ Timeout(w)
        BY <3>3 DEF WorkerStep, Timeout, Check, Call, Return, Reschedule, Retry, Scan,
             BlockChild, DeadLetter, Complete, Delete, Unhash, Drop, environment
      <3> QED BY <2>1, <3>1, <3>2, <3>3 DEF Next
    <2> QED BY <2>1, <2>2
  <1>2. completed \subseteq completed' BY <1>1, CompletedStep
  <1>3. TotalAttempts(t) \in Nat \ {0} /\ attempts[t] \in Nat BY DEF TotalAttempts, TypeOK
  <1>4. CASE t \in completed
    <2>1. attempts[t] < 2 * TotalAttempts(t) BY <1>1, <1>4 DEF Doubled
    <2>2. CASE attempts'[t] = attempts[t] BY <1>2, <1>4, <2>1, <2>2
    <2>3. CASE SaveNew(t)
      <3>1. attempts'[t] = 0 BY <2>3, NewLevel
      <3> QED BY <1>2, <1>3, <1>4, <3>1
    <2>4. ~\E w \in Worker : Call(w) /\ copy[w].id = t BY <1>4 DEF Past, Call, Working
    <2> QED BY <2>2, <2>3, <2>4, AttemptsStep
  <1>5. CASE t \notin completed /\ t \in completed'
    <2> PICK h \in Nat : Level(t, h) BY <1>1, <1>5 DEF Doubled
    <2>1. \E w \in Worker : Complete(w) BY <1>1, <1>5, CompletedStep
    <2>2. UNCHANGED attempts BY <2>1 DEF Complete
    <2>3. attempts[t] <= 2 * h + 1 /\ h < TotalAttempts(t) BY <1>3 DEF Level
    <2>4. attempts'[t] < 2 * TotalAttempts(t) BY <1>3, <2>2, <2>3
    <2> QED BY <1>5, <2>4
  <1>6. CASE t \notin completed /\ t \notin completed'
    <2> PICK h \in Nat : Level(t, h) BY <1>1, <1>6 DEF Doubled
    <2>1. \E g \in Nat : Level(t, g)' BY <1>1, <1>6, LevelStep
    <2> QED BY <1>6, <2>1
  <1> QED BY <1>4, <1>5, <1>6

\* One polling loop repeats an attempt at most once, and never the last: a task enqueued once,
\* under no rate limit, with no failing write and no expiry, is called less than twice its
\* total attempts until a restart (queue.rs:266, 289-292, 406-412, 517).
THEOREM AttemptsBound ==
  ASSUME MaxCalls <= 1, ~WritesFail, ~TTLExpires, Limited = {}, \A r, s \in Sweep : r = s
  PROVE  Spec => []AttemptsAtMostDoubled
  <1> DEFINE Inv == Unlimited /\ Verdicts /\ Doubled
  <1>1. Init => Inv
    <2>1. Init => Unlimited /\ Verdicts BY DEF Init, Unlimited, Verdicts
    <2>2. ASSUME Init, NEW t \in Task PROVE t \notin completed /\ Level(t, 0)
      <3>1. store[t] = None /\ attempts[t] = 0 /\ \A s \in Sweep : snap[s] = {}
        BY <2>2 DEF Init
      <3>2. \A c \in Copy : ~Waits(c) /\ ~Called(c)
        BY <2>2 DEF Init, Waits, Called, Attempting, Holding
      <3>3. ~Stale(t, 0) BY <3>1 DEF Stale
      <3>4. 0 < TotalAttempts(t) /\ attempts[t] <= 2 * 0 BY <3>1 DEF TotalAttempts
      <3>5. completed = {} BY <2>2 DEF Init
      <3> QED BY <3>1, <3>2, <3>3, <3>4, <3>5 DEF Level
    <2>3. Init => Doubled BY <2>2 DEF Doubled
    <2> QED BY <2>1, <2>3
  <1>2. TypeOK /\ Certain /\ OnePlace /\ Once /\ Past /\ Inv /\ [Next]_vars => Inv'
    BY UnlimitedStep, VerdictsStep, DoubledStep
  <1>3. TypeOK /\ Inv => AttemptsAtMostDoubled
    <2> SUFFICES ASSUME TypeOK, Doubled, NEW t \in Task \ Cron, crashes = 0
                 PROVE  attempts[t] < 2 * TotalAttempts(t)
      BY DEF AttemptsAtMostDoubled
    <2>1. CASE t \in completed BY <2>1 DEF Doubled
    <2>2. CASE t \notin completed
      <3> PICK h \in Nat : Level(t, h) BY <2>2 DEF Doubled
      <3>1. TotalAttempts(t) \in Nat /\ attempts[t] \in Nat BY DEF TotalAttempts, TypeOK
      <3>2. attempts[t] <= 2 * h + 1 /\ h < TotalAttempts(t) BY <3>1 DEF Level
      <3> QED BY <3>1, <3>2
    <2> QED BY <2>1, <2>2
  <1>4. Spec => []Once BY OnceAlways
  <1> QED BY <1>1, <1>2, <1>3, <1>4, TypeCorrect, CertainAlways, TaskInOnePlace, PastAlways, PTL
          DEF Spec

----------------------------------------------------------------------------
(* Marks in executing_tasks. *)

\* Nobody moves a worker but itself, the loop that gives it a task, and a restart.
LEMMA OnlyItself ==
  ASSUME TypeOK, [Next]_vars, NEW w \in Worker, wpc'[w] # wpc[w] \/ copy'[w] # copy[w]
  PROVE  Restart \/ WorkerStep(w) \/ Timeout(w) \/ (wpc[w] = "idle" /\ wpc'[w] = "check")
  <1>1. CASE \/ \E u \in Task : Elapse(u) \/ ClaimHash(u) \/ CheckCycle(u) \/ SaveNew(u)
                                \/ RegisterHandler(u) \/ Evict(u)
             \/ \E s \in Sweep : SweepStep(s)
             \/ \E d \in Dispatcher : DispatcherStep(d) /\ ~Move(d)
             \/ (\E c \in lingering : Linger(c)) \/ Compact
             \/ UNCHANGED vars
    <2>1. UNCHANGED <<wpc, copy>>
      BY <1>1 DEF Elapse, ClaimHash, CheckCycle, SaveNew, RegisterHandler, Evict, SweepStep,
                  PollRead, PollLock, PollTask, PollUnlock, PollDispatch, PollDone, DispatcherStep,
                  Acquire, Pop, PopEmpty, Exit, Grant, Deny, Unqueue, Linger, Compact, vars, workers
    <2> QED BY <2>1
  <1>2. ASSUME NEW d \in Dispatcher, Move(d) PROVE wpc[w] = "idle" /\ wpc'[w] = "check"
    <2>1. \/ UNCHANGED <<wpc, copy>>
          \/ \E v \in Worker : /\ wpc[v] = "idle" /\ wpc' = [wpc EXCEPT ![v] = "check"]
                               /\ copy' = [copy EXCEPT ![v] = hand[d]]
      BY <1>2 DEF Move
    <2> QED BY <2>1 DEF TypeOK
  <1>3. ASSUME NEW v \in Worker, WorkerStep(v) \/ Timeout(v), v # w PROVE FALSE
    <2>1. UNCHANGED wpc \/ \E pc : wpc' = [wpc EXCEPT ![v] = pc]
      BY <1>3 DEF WorkerStep, Timeout, Check, Call, Return, Reschedule, Retry, Scan, BlockChild,
                  DeadLetter, Complete, Delete, Unhash, Drop, Goto, Leave
    <2>2. UNCHANGED copy \/ copy' = [copy EXCEPT ![v] = None]
      BY <1>3 DEF WorkerStep, Timeout, Check, Call, Return, Reschedule, Retry, Scan, BlockChild,
                  DeadLetter, Complete, Delete, Unhash, Drop, Leave
    <2> QED BY <1>3, <2>1, <2>2 DEF TypeOK
  <1> QED BY <1>1, <1>2, <1>3 DEF Next

\* A worker lets go of its task by its guard, or by skipping it.
LEMMA BusyStep ==
  ASSUME TypeOK, [Next]_vars, NEW w \in Worker, Busy(w), ~Busy(w)' \/ copy'[w] # copy[w]
  PROVE  Restart \/ Drop(w) \/ (Check(w) /\ copy[w].id \in completed)
  <1>1. Restart \/ WorkerStep(w) \/ Timeout(w)
    <2>1. wpc'[w] # wpc[w] \/ copy'[w] # copy[w] BY DEF Busy
    <2> QED BY <2>1, OnlyItself DEF Busy
  <1>2. ASSUME \/ Call(w) \/ Return(w) \/ Timeout(w) \/ Reschedule(w) \/ Retry(w) \/ Scan(w)
               \/ DeadLetter(w) \/ Complete(w) \/ Delete(w) \/ Unhash(w)
        PROVE  FALSE
    <2>1. UNCHANGED copy
      BY <1>2 DEF Call, Return, Timeout, Reschedule, Retry, Scan, DeadLetter, Complete, Delete, Unhash
    <2>2. wpc'[w] # "idle"
      BY <1>2 DEF TypeOK, Call, Return, Timeout, Reschedule, Retry, Scan, DeadLetter, Complete,
                  Delete, Unhash, Goto
    <2> QED BY <2>1, <2>2 DEF Busy
  <1>3. ASSUME NEW t \in Task, BlockChild(w, t) PROVE FALSE BY <1>3 DEF BlockChild, Busy
  <1>4. ASSUME Check(w), copy[w].id \notin completed PROVE FALSE
    BY <1>4 DEF TypeOK, Check, SkipCompleted, Goto, Busy
  <1> QED BY <1>1, <1>2, <1>3, <1>4 DEF WorkerStep

\* executing_tasks grows when a loop gives a task to a worker.
LEMMA MarkStep ==
  ASSUME TypeOK, [Next]_vars, NEW t \in Task, t \in executing', t \notin executing
  PROVE  \E w \in Worker : Busy(w)' /\ copy'[w].id = t
  <1>1. CASE \/ \E u \in Task : Elapse(u) \/ ClaimHash(u) \/ CheckCycle(u) \/ SaveNew(u)
                                \/ RegisterHandler(u) \/ Evict(u)
             \/ \E s \in Sweep : SweepStep(s)
             \/ \E d \in Dispatcher : DispatcherStep(d) /\ ~Move(d)
             \/ (\E c \in lingering : Linger(c)) \/ Compact
             \/ UNCHANGED vars
    BY <1>1 DEF Elapse, ClaimHash, CheckCycle, SaveNew, RegisterHandler, Evict, SweepStep,
                PollRead, PollLock, PollTask, PollUnlock, PollDispatch, PollDone, DispatcherStep,
                Acquire, Pop, PopEmpty, Exit, Grant, Deny, Unqueue, Linger, Compact, vars, sets
  <1>2. ASSUME NEW w \in Worker, WorkerStep(w) \/ Timeout(w) PROVE FALSE
    <2>1. executing' \subseteq executing
      BY <1>2 DEF WorkerStep, Timeout, Check, Call, Return, Reschedule, Retry, Scan, BlockChild,
                  DeadLetter, Complete, Delete, Unhash, Drop, sets
    <2> QED BY <2>1
  <1>3. ASSUME NEW d \in Dispatcher, Move(d)
        PROVE  \E w \in Worker : Busy(w)' /\ copy'[w].id = t
    <2>1. hand[d].id \notin executing BY <1>3 DEF Move
    <2>2. executing' = executing \cup {hand[d].id} BY <1>3, <2>1 DEF Move, MarkExecuting
    <2>3. PICK w \in Worker : /\ wpc' = [wpc EXCEPT ![w] = "check"]
                              /\ copy' = [copy EXCEPT ![w] = hand[d]]
      BY <1>3, <2>1 DEF Move
    <2> QED BY <2>2, <2>3 DEF TypeOK, Busy
  <1>4. CASE Restart BY <1>4 DEF Restart
  <1> QED BY <1>1, <1>2, <1>3, <1>4 DEF Next

\* A mark without its worker is left by the skip of a completed task.
LEMMA LeaksStep ==
  ASSUME ~TTLExpires, TypeOK, LeaksAreEnded, [Next]_vars
  PROVE  LeaksAreEnded'
  <1> SUFFICES ASSUME NEW t \in Task, t \in executing', \A w \in Worker : Busy(w)' => copy'[w].id # t
               PROVE  t \in completed'
    BY DEF LeaksAreEnded, Leaked
  <1>1. ~Restart BY DEF Restart
  <1>2. completed \subseteq completed' BY <1>1, CompletedStep
  <1>3. t \in executing BY MarkStep
  <1>4. CASE Leaked(t) BY <1>2, <1>4 DEF LeaksAreEnded
  <1>5. CASE ~Leaked(t)
    <2> PICK w \in Worker : Busy(w) /\ copy[w].id = t BY <1>3, <1>5 DEF Leaked
    <2>1. Drop(w) \/ t \in completed BY <1>1, BusyStep
    <2>2. ~Drop(w) BY DEF Drop
    <2> QED BY <1>2, <2>1, <2>2
  <1> QED BY <1>4, <1>5

\* While completed_tasks forgets nothing, a mark that outlives its call in executing_tasks is
\* that of a task that has succeeded or been dead-lettered: the return of line 410 holds back
\* no task that still has to run (queue.rs:383, 407-415).
THEOREM LeakedHaveEnded ==
  ASSUME ~TTLExpires
  PROVE  Spec => []LeaksAreEnded
  <1>1. Init => LeaksAreEnded BY DEF Init, LeaksAreEnded, Leaked
  <1>2. TypeOK /\ LeaksAreEnded /\ [Next]_vars => LeaksAreEnded' BY LeaksStep
  <1> QED BY <1>1, <1>2, TypeCorrect, PTL DEF Spec

----------------------------------------------------------------------------
(* Ends that the log does not know. *)

\* Who deletes a record has completed its task; where a deletion is in doubt, the task is
\* completed or was blocked; a task that has ended and is not in completed_tasks has its record
\* still, or no copy.
DeletesCompleted == \A w \in Worker : wpc[w] = "delete" => copy[w].id \in completed
DoubtsCompleted ==
  \A t \in Task : None \in doubt[t] => t \in completed \/ outcome[t] = "blocked"
OffRecord ==
  \A t \in Task : outcome[t] \in {"ok", "dead"} /\ t \notin completed /\ Carried(t) => t \in Stored

\* completed_tasks comes before the deletion.
LEMMA DeletesCompletedStep ==
  ASSUME ~TTLExpires, TypeOK, DeletesCompleted, [Next]_vars
  PROVE  DeletesCompleted'
  <1> SUFFICES ASSUME NEW w \in Worker, wpc'[w] = "delete" PROVE copy'[w].id \in completed'
    BY DEF DeletesCompleted
  <1>1. ~Restart BY DEF Restart
  <1>2. completed \subseteq completed' BY <1>1, CompletedStep
  <1>3. UNCHANGED copy[w] /\ (wpc[w] = "delete" \/ Complete(w)) BY FinishingStep DEF Finishing
  <1>4. Complete(w) => copy[w].id \in completed' BY DEF Complete
  <1> QED BY <1>2, <1>3, <1>4 DEF DeletesCompleted

\* A deletion that fails is that of a completed task or of a blocked one.
LEMMA DoubtsCompletedStep ==
  ASSUME ~TTLExpires, TypeOK, DeletesCompleted, DoubtsCompleted, [Next]_vars
  PROVE  DoubtsCompleted'
  <1> SUFFICES ASSUME NEW t \in Task, None \in doubt'[t]
               PROVE  t \in completed' \/ outcome'[t] = "blocked"
    BY DEF DoubtsCompleted
  <1>1. ~Restart BY DEF Restart, Reread, NoDoubt
  <1>2. completed \subseteq completed' BY <1>1, CompletedStep
  <1>3. CASE None \in doubt[t] /\ outcome'[t] = outcome[t]
    BY <1>2, <1>3 DEF DoubtsCompleted
  <1>4. CASE outcome'[t] # outcome[t]
    <2>1. \A w \in Worker : Complete(w) => copy[w].id \in completed' BY DEF Complete
    <2> QED BY <1>4, <2>1, OutcomeStep
  <1>5. CASE None \notin doubt[t]
    <2>1. PICK w \in Worker : Ends(w, t) BY <1>5, DoubtStep
    <2>2. CASE Delete(w) /\ copy[w].id = t BY <1>2, <2>2 DEF Delete, DeletesCompleted
    <2>3. CASE BlockChild(w, t) BY <2>3 DEF BlockChild, TypeOK
    <2> QED BY <2>1, <2>2, <2>3 DEF Ends
  <1> QED BY <1>3, <1>4, <1>5

\* A record goes by the worker that has completed its task, or with a blocked outcome.
LEMMA OffRecordStep ==
  ASSUME ~TTLExpires, TypeOK, DeletesCompleted, DoubtsCompleted, OffRecord, [Next]_vars
  PROVE  OffRecord'
  <1> SUFFICES ASSUME NEW t \in Task, outcome'[t] \in {"ok", "dead"}, t \notin completed', Carried(t)'
               PROVE  store'[t] # None
    BY DEF OffRecord, Stored
  <1>1. ~Restart BY DEF Restart, Carried, Read, Started, Holding, Busy
  <1>2. completed \subseteq completed' BY <1>1, CompletedStep
  <1>3. outcome'[t] = outcome[t]
    <2>1. \A w \in Worker : Complete(w) => copy[w].id \in completed' BY DEF Complete
    <2> QED BY <2>1, OutcomeStep
  <1>4. t \in Stored BY <1>2, <1>3, CarriedStep DEF OffRecord
  <1>5. ASSUME store'[t] = None PROVE FALSE
    <2>1. None \notin doubt[t] BY <1>2, <1>3 DEF DoubtsCompleted
    <2>2. PICK w \in Worker : Ends(w, t) BY <1>4, <1>5, <2>1, StoreStep DEF Stored
    <2>3. ~(Delete(w) /\ copy[w].id = t) BY <1>2 DEF Delete, DeletesCompleted
    <2>4. outcome'[t] = "blocked" BY <2>2, <2>3 DEF Ends, BlockChild, TypeOK
    <2> QED BY <2>4
  <1> QED BY <1>5

\* They are so in every behaviour.
LEMMA OffRecordAlways ==
  ASSUME ~TTLExpires
  PROVE  Spec => [](DeletesCompleted /\ DoubtsCompleted /\ OffRecord)
  <1> DEFINE Inv == DeletesCompleted /\ DoubtsCompleted /\ OffRecord
  <1>1. Init => Inv BY DEF Init, NoDoubt, DeletesCompleted, DoubtsCompleted, OffRecord
  <1>2. TypeOK /\ Inv /\ [Next]_vars => Inv'
    BY DeletesCompletedStep, DoubtsCompletedStep, OffRecordStep
  <1> QED BY <1>1, <1>2, TypeCorrect, PTL DEF Spec

\* While completed_tasks forgets nothing, no handler is called for a task that has succeeded or
\* been dead-lettered and whose record is gone, restarts included and whichever writes fail: a
\* task runs again after its end only if the process died before the tombstone was written
\* (queue.rs:406-412, 502-505, 577-579).
THEOREM GoneNotRunAgain ==
  ASSUME ~TTLExpires
  PROVE  Spec => GoneStaysGone
  <1> DEFINE Step == \A w \in Worker : (wpc[w] = "call" /\ wpc'[w] = "run" /\ copy[w].id \notin Stored)
                                         => outcome[copy[w].id] \notin {"ok", "dead"}
  <1>1. TypeOK /\ Past /\ OffRecord => Step
    <2> SUFFICES ASSUME TypeOK, Past, OffRecord, NEW w \in Worker, wpc[w] = "call",
                        copy[w].id \notin Stored
                 PROVE  outcome[copy[w].id] \notin {"ok", "dead"}
      OBVIOUS
    <2>1. Busy(w) /\ copy[w].id \in Task BY DEF TypeOK, Busy, Copy
    <2>2. Carried(copy[w].id) BY <2>1 DEF Carried, Started
    <2>3. copy[w].id \notin completed BY DEF Past, Working
    <2> QED BY <2>1, <2>2, <2>3 DEF OffRecord
  <1> QED BY <1>1, TypeCorrect, PastAlways, OffRecordAlways, PTL DEF Spec, GoneStaysGone

----------------------------------------------------------------------------
(* Hashes given back. *)

\* A worker that finishes goes on to the hash, and leaves it by freeing it.
LEMMA FinishingStays ==
  ASSUME TypeOK, [Next]_vars, NEW w \in Worker, wpc[w] \in Finishing
  PROVE  Restart \/ Unhash(w) \/ (wpc'[w] \in Finishing /\ UNCHANGED copy[w])
  <1>1. CASE wpc'[w] = wpc[w] /\ copy'[w] = copy[w] BY <1>1
  <1>2. CASE WorkerStep(w) \/ Timeout(w)
    <2>1. ASSUME \/ Check(w) \/ Call(w) \/ Return(w) \/ Timeout(w) \/ Reschedule(w) \/ Retry(w)
                 \/ Scan(w) \/ (\E t \in Task : BlockChild(w, t)) \/ DeadLetter(w) \/ Complete(w)
                 \/ Drop(w)
          PROVE  FALSE
      BY <2>1 DEF Check, Call, Return, Timeout, Reschedule, Retry, Scan, BlockChild, DeadLetter,
                  Complete, Drop, Finishing
    <2>2. CASE Delete(w) BY <2>2 DEF TypeOK, Delete, Goto, Finishing
    <2> QED BY <1>2, <2>1, <2>2 DEF WorkerStep
  <1> QED BY <1>1, <1>2, OnlyItself DEF Finishing

\* Why a task may keep its hash: it is being enqueued, surely has a record, has not succeeded or
\* been dead-lettered, or has a worker that is about to give the hash back.
Keeps(t) ==
  \/ caller[t] # "idle"
  \/ t \in Stored /\ None \notin doubt[t]
  \/ outcome[t] \notin {"ok", "dead"}
  \/ \E w \in Worker : wpc[w] \in Finishing /\ copy[w].id = t

\* A task stops keeping its hash when its worker gives it back.
LEMMA KeepsStep ==
  ASSUME TypeOK, Once, [Next]_vars, ~Restart, NEW t \in Task, Keeps(t), ~Keeps(t)'
  PROVE  \E w \in Worker : Unhash(w) /\ copy[w].id = t
  <1>1. /\ caller'[t] = "idle" /\ outcome'[t] \in {"ok", "dead"}
        /\ store'[t] = None \/ None \in doubt'[t]
        /\ \A w \in Worker : wpc'[w] \in Finishing => copy'[w].id # t
    BY DEF Keeps, Stored
  <1>2. outcome'[t] = outcome[t]
    <2>1. ASSUME NEW w \in Worker, Complete(w), copy[w].id = t PROVE FALSE
      <3>1. wpc'[w] = "delete" /\ copy'[w] = copy[w] BY <2>1 DEF TypeOK, Complete, Goto
      <3> QED BY <1>1, <2>1, <3>1 DEF Finishing
    <2> QED BY <1>1, <2>1, OutcomeStep
  <1>3. caller[t] = "idle" BY <1>1, <1>2 DEF Once, Unborn, Nowhere
  <1>4. ASSUME t \in Stored, None \notin doubt[t] PROVE FALSE
    <2>1. PICK w \in Worker : Ends(w, t) BY <1>1, <1>4, StoreStep, DoubtStep DEF Stored
    <2>2. CASE Delete(w) /\ copy[w].id = t
      <3>1. wpc'[w] = "unhash" /\ copy'[w] = copy[w] BY <2>2 DEF TypeOK, Delete, Goto
      <3> QED BY <1>1, <2>2, <3>1 DEF Finishing
    <2>3. CASE BlockChild(w, t) BY <1>1, <2>3 DEF TypeOK, BlockChild
    <2> QED BY <2>1, <2>2, <2>3 DEF Ends
  <1>5. PICK w \in Worker : wpc[w] \in Finishing /\ copy[w].id = t
    BY <1>1, <1>2, <1>3, <1>4 DEF Keeps
  <1>6. Unhash(w) BY <1>1, <1>5, FinishingStays
  <1> QED BY <1>5, <1>6

\* Until a restart, who has passed the test of active_hashes has passed it.
LEMMA ClaimedStays == ASSUME [Next]_vars, ~Restart PROVE claimed \subseteq claimed'
  <1>1. CASE \/ \E u \in Task : \/ Elapse(u) \/ ClaimHash(u) \/ CheckCycle(u) \/ SaveNew(u)
                                \/ RegisterHandler(u) \/ Evict(u)
             \/ \E s \in Sweep : SweepStep(s)
             \/ (\E c \in lingering : Linger(c)) \/ Compact
             \/ UNCHANGED vars
    BY <1>1 DEF Elapse, ClaimHash, CheckCycle, SaveNew, RegisterHandler, Evict, SweepStep,
         PollRead, PollLock, PollTask, PollUnlock, PollDispatch, PollDone, Linger, Compact, vars,
         clients
  <1>2. CASE \E d \in Dispatcher : DispatcherStep(d)
    BY <1>2 DEF DispatcherStep, Acquire, Pop, PopEmpty, Exit, Grant, Deny, Unqueue, Move, clients
  <1>3. CASE \E w \in Worker : WorkerStep(w) \/ Timeout(w)
    BY <1>3 DEF WorkerStep, Timeout, Check, Call, Return, Reschedule, Retry, Scan, BlockChild,
         DeadLetter, Complete, Delete, Unhash, Drop, clients
  <1> QED BY <1>1, <1>2, <1>3 DEF Next

\* An active hash has a task that took it and keeps it.
Kept == \A h \in active_hashes : \E t \in claimed : h \in PayloadHash[t] /\ Keeps(t)

\* Every step keeps that.
LEMMA KeptStep ==
  ASSUME TypeOK, Once, Kept, [Next]_vars
  PROVE  Kept'
  <1> SUFFICES ASSUME NEW h \in active_hashes'
               PROVE  \E t \in claimed' : h \in PayloadHash[t] /\ Keeps(t)'
    BY DEF Kept
  <1>1. CASE Restart
    <2>1. PICK t \in Stored' : h \in PayloadHash[t] BY <1>1 DEF Restart, StoredHashes
    <2>2. t \in Task /\ t \in claimed' BY <1>1 DEF Restart, Stored
    <2>3. doubt'[t] = {} BY <1>1, <2>2 DEF Restart, Reread, NoDoubt
    <2> QED BY <2>1, <2>2, <2>3 DEF Keeps
  <1>2. CASE ~Restart /\ h \in active_hashes
    <2> PICK t \in claimed : h \in PayloadHash[t] /\ Keeps(t) BY <1>2 DEF Kept
    <2>0. t \in Task /\ t \in claimed' BY <1>2, ClaimedStays DEF TypeOK
    <2>1. ASSUME NEW w \in Worker, Unhash(w), copy[w].id = t PROVE FALSE
      <3>1. active_hashes' = active_hashes \ PayloadHash[t] BY <2>1 DEF Unhash
      <3> QED BY <3>1
    <2>2. Keeps(t)' BY <1>2, <2>0, <2>1, KeepsStep
    <2> QED BY <2>0, <2>2
  <1>3. CASE ~Restart /\ h \notin active_hashes
    <2>1. PICK t \in Task : ClaimHash(t) /\ active_hashes' = active_hashes \cup PayloadHash[t]
      <3>1. \A w \in Worker : Unhash(w) => active_hashes' \subseteq active_hashes BY DEF Unhash
      <3> QED BY <1>3, <3>1, HashStep
    <2>2. active_hashes' # active_hashes BY <1>3
    <2>3. caller' = [caller EXCEPT ![t] = "cycle"] /\ t \in claimed'
      BY <2>1, <2>2 DEF ClaimHash
    <2>4. Keeps(t)' BY <2>3 DEF TypeOK, Keeps
    <2> QED BY <1>3, <2>1, <2>3, <2>4
  <1> QED BY <1>1, <1>2, <1>3

\* If no id is enqueued twice, the hash of a task that has succeeded or been dead-lettered is
\* given back, whichever writes fail, whatever is forgotten and wherever the process restarts:
\* what is kept for nothing was taken by a task that was then refused as part of a cycle, could
\* not be saved or was blocked, and never by one dropped as a duplicate (queue.rs:211-218,
\* 505-509, 537-541, 579-583).
THEOREM HashesGivenBack ==
  ASSUME MaxCalls <= 1
  PROVE  Spec => []HashesFreed
  <1>1. Init => Kept BY DEF Init, Kept
  <1>2. TypeOK /\ Once /\ Kept /\ [Next]_vars => Kept' BY KeptStep
  <1>3. Kept => HashesFreed BY DEF Kept, Keeps, HashesFreed, Pending, Finishing
  <1> QED BY <1>1, <1>2, <1>3, TypeCorrect, OnceAlways, PTL DEF Spec
----------------------------------------------------------------------------
(* The life of a task. *)

\* A task with a copy about and no end has its record.
OnRecord == \A t \in Task : outcome[t] = "none" /\ Carried(t) => t \in Stored
CompletedEnded == \A t \in Task : t \in completed => outcome[t] # "none"

\* The children of a worker are those of its task, on file when it looked: another one may have
\* blocked or ended them since.
KidsKnown ==
  \A w \in Worker : \A t \in Task : t \in kids[w] =>
    /\ wpc[w] = "block" /\ copy[w].id \in Deps[t]
    /\ t \in Stored \/ outcome[t] = "blocked" \/ t \in completed

\* A parent is over for good, until a restart: the parents of what is past a sweep are.
IsOver(p) == \/ outcome[p] = "blocked"
             \/ outcome[p] # "none" /\ (p \in completed \/ p \notin Stored)
Orderly == \A t \in Task : Started(t) \/ t \in completed => \A p \in Deps[t] : IsOver(p)

\* A record is lost at an end only.
LEMMA OnRecordStep ==
  ASSUME TypeOK, Once, Deleting, OnRecord, [Next]_vars
  PROVE  OnRecord'
  <1> SUFFICES ASSUME NEW t \in Task, outcome'[t] = "none", Carried(t)', store'[t] = None
               PROVE  FALSE
    BY DEF OnRecord, Stored
  <1>1. outcome[t] = "none"
    <2>1. \A w \in Worker : Complete(w) => wpc[w] # "none" BY DEF Complete
    <2> QED BY <2>1, OutcomeStep
  <1>2. t \in Stored BY <1>1, CarriedStep DEF OnRecord
  <1> QED BY <1>2, LossStep DEF Stored

\* completed_tasks has ended tasks.
LEMMA CompletedEndedStep ==
  ASSUME TypeOK, Once, CompletedEnded, [Next]_vars
  PROVE  CompletedEnded'
  <1> SUFFICES ASSUME NEW t \in Task, t \in completed' PROVE outcome'[t] # "none"
    BY DEF CompletedEnded
  <1>1. CASE t \in completed BY <1>1, EndStays DEF CompletedEnded
  <1>2. CASE t \notin completed
    <2>1. PICK w \in Worker : Complete(w) /\ copy[w].id = t BY <1>2, CompletedStep
    <2>2. outcome' = [outcome EXCEPT ![t] = wpc[w]] /\ wpc[w] \in {"ok", "dead"}
      BY <2>1 DEF Complete
    <2> QED BY <2>2 DEF TypeOK
  <1> QED BY <1>1, <1>2

\* A worker that fails its children goes on until there are none.
LEMMA KidsKnownStep ==
  ASSUME ~TTLExpires, TypeOK, Certain, DeletesCompleted, KidsKnown, [Next]_vars
  PROVE  KidsKnown'
  <1> SUFFICES ASSUME NEW w \in Worker, NEW t \in Task, t \in kids'[w]
               PROVE  /\ wpc'[w] = "block" /\ copy'[w].id \in Deps[t]
                      /\ store'[t] # None \/ outcome'[t] = "blocked" \/ t \in completed'
    BY DEF KidsKnown, Stored
  <1>2. ~Restart BY DEF Restart
  <1>3. CASE t \notin kids[w]
    <2>1. Scan(w) /\ t \in Stored /\ copy[w].id \in Deps[t] BY <1>3, KidsStep
    <2>2. wpc'[w] = "block" /\ UNCHANGED <<copy, store>> BY <2>1 DEF TypeOK, Scan, Goto
    <2> QED BY <2>1, <2>2 DEF Stored
  <1>4. CASE t \in kids[w]
    <2>1. wpc[w] = "block" /\ copy[w].id \in Deps[t] BY <1>4 DEF KidsKnown
    <2>2. wpc'[w] = "block" /\ copy'[w] = copy[w]
      <3>1. CASE WorkerStep(w) \/ Timeout(w)
        <4>1. DeadLetter(w) \/ \E u \in Task : BlockChild(w, u)
          BY <2>1, <3>1 DEF WorkerStep, Timeout, Check, Call, Return, Reschedule, Retry, Scan,
                  Complete, Delete, Unhash, Drop
        <4>2. ~DeadLetter(w) BY <1>4 DEF DeadLetter
        <4> QED BY <2>1, <4>1, <4>2 DEF BlockChild
      <3>2. CASE ~(WorkerStep(w) \/ Timeout(w)) BY <1>2, <2>1, <3>2, OnlyItself
      <3> QED BY <3>1, <3>2
    <2>3. completed \subseteq completed' BY <1>2, CompletedStep
    <2>4. CASE t \in completed BY <2>1, <2>2, <2>3, <2>4
    <2>5. CASE outcome[t] = "blocked"
      <3>1. \A v \in Worker : Complete(v) /\ copy[v].id = t => t \in completed' BY DEF Complete
      <3>2. outcome'[t] = "blocked" \/ store'[t] # None \/ t \in completed'
        BY <2>5, <3>1, OutcomeStep
      <3> QED BY <2>1, <2>2, <3>2
    <2>6. CASE t \in Stored
      <3>1. ASSUME store'[t] = None PROVE outcome'[t] = "blocked" \/ t \in completed'
        <4>1. PICK v \in Worker : Ends(v, t) BY <2>6, <3>1, SureStep DEF Stored
        <4>2. Delete(v) /\ copy[v].id = t => t \in completed BY DEF DeletesCompleted, Delete
        <4>3. BlockChild(v, t) => outcome'[t] = "blocked" BY DEF TypeOK, BlockChild
        <4> QED BY <2>3, <4>1, <4>2, <4>3 DEF Ends
      <3> QED BY <2>1, <2>2, <3>1
    <2> QED BY <1>4, <2>4, <2>5, <2>6 DEF KidsKnown
  <1> QED BY <1>3, <1>4

\* What is over stays so.
LEMMA OverStays ==
  ASSUME ~TTLExpires, TypeOK, Certain, Unlimited, Once, Past, OffRecord, [Next]_vars, ~Restart,
         NEW p \in Task, IsOver(p)
  PROVE  IsOver(p)'
  <1>1. completed \subseteq completed' BY CompletedStep
  <1>2. outcome[p] # "none" /\ outcome'[p] # "none" BY EndStays DEF IsOver
  <1>3. CASE p \in completed BY <1>1, <1>2, <1>3 DEF IsOver
  <1>4. CASE \E w \in Worker : Complete(w) /\ copy[w].id = p
    <2>1. p \in completed' BY <1>4 DEF Complete
    <2> QED BY <1>2, <2>1 DEF IsOver
  <1>5. CASE ~\E w \in Worker : Complete(w) /\ copy[w].id = p
    <2>1. outcome'[p] = outcome[p] \/ outcome'[p] = "blocked" BY <1>2, <1>5, OutcomeStep
    <2>2. CASE outcome'[p] = "blocked" BY <2>2 DEF IsOver
    <2>3. CASE outcome'[p] # "blocked" /\ p \notin completed
      <3>1. outcome[p] \in {"ok", "dead"} /\ p \notin Stored
        BY <2>1, <2>3, <1>2 DEF IsOver, TypeOK
      <3>2. ~Carried(p) BY <2>3, <3>1 DEF OffRecord
      <3>3. ~\E w \in Worker : Saves(w, p) BY <3>2, SaverCarries
      <3>4. ~\E d \in Dispatcher : Deny(d) BY DEF Deny, Unlimited
      <3>5. ~SaveNew(p) BY <1>2, SavedIsNew DEF Nowhere
      <3>6. store'[p] = None BY <3>1, <3>3, <3>4, <3>5, SureStep DEF Stored, Saving
      <3> QED BY <1>2, <3>6 DEF IsOver, Stored
    <2> QED BY <1>3, <2>2, <2>3
  <1> QED BY <1>4, <1>5

\* A task starts, and completes, after the tasks it waits for.
LEMMA OrderlyStep ==
  ASSUME ~TTLExpires, ParentsFirst, TypeOK, Certain, Unlimited, Once, Past, OffRecord, Families,
         Orderly, [Next]_vars
  PROVE  Orderly'
  <1> SUFFICES ASSUME NEW t \in Task, Started(t)' \/ t \in completed', NEW p \in Task, p \in Deps[t]
               PROVE  IsOver(p)'
    BY DEF Orderly
  <1>1. CASE Restart BY <1>1 DEF Restart, Started, Holding, Busy
  <1>2. CASE ~Restart
    <2>1. CASE Started(t) \/ t \in completed
      <3>1. IsOver(p) BY <2>1 DEF Orderly
      <3> QED BY <1>2, <3>1, OverStays
    <2>2. CASE t \in completed' /\ t \notin completed
      <3>1. PICK w \in Worker : Complete(w) /\ copy[w].id = t BY <2>2, CompletedStep
      <3>2. Started(t) BY <3>1, AtWork DEF WorkerStep
      <3> QED BY <2>1, <3>2
    <2>3. CASE Started(t)' /\ ~Started(t)
      <3>1. Read(t) /\ Deps[t] \cap Stored = {} BY <2>3, StartedStep DEF Read, Eligible
      <3>2. issued[t] # 0 BY <3>1 DEF Once, Unborn, Nowhere, Carried
      <3>3. outcome[p] # "none" /\ p \notin Stored BY <3>1, <3>2 DEF Families, Known
      <3>4. IsOver(p) BY <3>3 DEF IsOver
      <3> QED BY <1>2, <3>4, OverStays
    <2> QED BY <2>1, <2>2, <2>3
  <1> QED BY <1>1, <1>2

\* A call of process_due_tasks has used up its snapshot before it looks again.
Drained == \A s \in Sweep : polling[s] \in {"idle", "dispatch"} => snap[s] = {}

LEMMA DrainedStep ==
  ASSUME TypeOK, Drained, [Next]_vars
  PROVE  Drained'
  <1>1. CASE UNCHANGED <<polling, snap>> BY <1>1 DEF Drained
  <1>2. CASE \/ \E u \in Task : Elapse(u) \/ ClaimHash(u) \/ CheckCycle(u) \/ SaveNew(u)
                                \/ RegisterHandler(u) \/ Evict(u)
             \/ \E s \in Sweep : \E p \in Pool : PollDispatch(s, p)
             \/ (\E c \in lingering : Linger(c)) \/ Compact
             \/ UNCHANGED vars
    <2>1. UNCHANGED <<polling, snap>>
      BY <1>2 DEF Elapse, ClaimHash, CheckCycle, SaveNew, RegisterHandler, Evict, PollDispatch,
                  Linger, Compact, vars, sweeps
    <2> QED BY <1>1, <2>1
  <1>3. ASSUME NEW d \in Dispatcher, DispatcherStep(d) PROVE UNCHANGED <<polling, snap>>
    BY <1>3 DEF DispatcherStep, Acquire, Pop, PopEmpty, Exit, Grant, Deny, Unqueue, Move, sweeps
  <1>4. ASSUME NEW w \in Worker, WorkerStep(w) \/ Timeout(w) PROVE UNCHANGED <<polling, snap>>
    BY <1>4 DEF WorkerStep, Timeout, Check, Call, Return, Reschedule, Retry, Scan, BlockChild,
                DeadLetter, Complete, Delete, Unhash, Drop, sweeps
  <1>5. ASSUME NEW s \in Sweep, PollRead(s) \/ PollLock(s) \/ PollUnlock(s) \/ PollDone(s)
        PROVE  Drained'
    BY <1>5 DEF TypeOK, Drained, PollRead, PollLock, PollUnlock, PollDone
  <1>6. ASSUME NEW s \in Sweep, NEW c \in snap[s], PollTask(s, c) PROVE Drained'
    BY <1>6 DEF TypeOK, Drained, PollTask
  <1>7. CASE Restart BY <1>7 DEF Restart, Drained
  <1> QED BY <1>1, <1>2, <1>3, <1>4, <1>5, <1>6, <1>7 DEF Next, SweepStep

\* Running(t) is the first line of LifeOf; these are the variables of TaskLife.
Running(t) == \E w \in Worker : wpc[w] \in Attempting /\ copy[w].id = t
Life == [t \in Task |-> LifeOf(t)]
Cut == {t \in Task : outcome[t] = "blocked"}
Astray == {t \in Task : Loose(t)}
Fixed == UNCHANGED <<Life, Stored, Cut>>
Same == Fixed /\ UNCHANGED Astray

\* What makes up the life of a task.
LEMMA SameLife ==
  ASSUME NEW t \in Task, outcome'[t] = outcome[t], Running(t)' <=> Running(t),
         t \in completed' <=> t \in completed, store'[t] = None <=> store[t] = None
  PROVE  LifeOf(t)' = LifeOf(t)
  BY DEF LifeOf, Running, Stored

\* Nothing happens to a task.
LEMMA NothingHappens ==
  ASSUME UNCHANGED <<outcome, completed>>, \A t \in Task : Running(t)' <=> Running(t),
         \A t \in Task : store'[t] = None <=> store[t] = None
  PROVE  Fixed
  <1>1. \A t \in Task : LifeOf(t)' = LifeOf(t) BY SameLife
  <1> QED BY <1>1 DEF Fixed, Life, Stored, Cut

\* One task enters a stage.
LEMMA Entered ==
  ASSUME NEW t \in Task, NEW stage, LifeOf(t)' = stage,
         \A u \in Task : u # t => LifeOf(u)' = LifeOf(u)
  PROVE  TL!Enter(t, stage)
  BY DEF TL!Enter

\* A write that succeeds.
LEMMA SureWrite ==
  ASSUME ~WritesFail, TypeOK, NEW t \in Task, NEW r, Write(t, r)
  PROVE  store'[t] = r /\ \A u \in Task : u # t => store'[u] = store[u]
  BY WriteIsDone, WriteIsLocal

\* A worker moves on with its own task.
LEMMA OthersStay ==
  ASSUME TypeOK, NEW w \in Worker, NEW pc, wpc' = [wpc EXCEPT ![w] = pc], UNCHANGED copy,
         NEW u \in Task, u # copy[w].id
  PROVE  Running(u)' <=> Running(u)
  BY DEF TypeOK, Running

\* Attempts begin and end in Attempting.
LEMMA SameRunning ==
  ASSUME \A v \in Worker : wpc[v] \in Attempting \/ wpc'[v] \in Attempting =>
           wpc[v] \in Attempting /\ wpc'[v] \in Attempting /\ copy'[v] = copy[v],
         NEW u \in Task
  PROVE  Running(u)' <=> Running(u)
  BY DEF Running

\* No copy is found or used up.
Fetched == {"check", "call"}
LEMMA SameCopies ==
  ASSUME UNCHANGED <<snap, pq>>,
         \A d \in Dispatcher : Holding(d) \/ Holding(d)' =>
           Holding(d) /\ Holding(d)' /\ hand'[d] = hand[d],
         \A v \in Worker : wpc[v] \in Fetched \/ wpc'[v] \in Fetched =>
           wpc[v] \in Fetched /\ wpc'[v] \in Fetched /\ copy'[v] = copy[v]
  PROVE  UNCHANGED Astray
  <1>1. \A t \in Task : Loose(t)' <=> Loose(t) BY DEF Loose, Fetched
  <1> QED BY <1>1 DEF Astray

\* A copy of one task is used up, perhaps the last one.
LEMMA OneCopyLess ==
  ASSUME NEW t \in Task, Loose(t), \A u \in Task : u # t => (Loose(u)' <=> Loose(u))
  PROVE  Astray' \in {Astray, Astray \ {t}}
  <1>1. CASE Loose(t)'
    <2>1. Astray' = Astray BY <1>1 DEF Astray
    <2> QED BY <2>1
  <1>2. CASE ~Loose(t)'
    <2>1. Astray' = Astray \ {t} BY <1>2 DEF Astray
    <2> QED BY <2>1
  <1> QED BY <1>1, <1>2

\* A worker that is past the call of its handler has no copy to use.
LEMMA WorkerCopies ==
  ASSUME TypeOK, NEW w \in Worker,
         \/ Return(w) \/ Timeout(w) \/ Reschedule(w) \/ Retry(w) \/ Scan(w)
         \/ (\E t \in Task : BlockChild(w, t)) \/ DeadLetter(w) \/ Complete(w) \/ Delete(w)
         \/ Unhash(w) \/ Drop(w)
  PROVE  UNCHANGED Astray
  <1>1. UNCHANGED <<snap, pq, hand, dpc>>
    BY DEF Return, Timeout, Reschedule, Retry, Scan, BlockChild, DeadLetter, Complete, Delete,
           Unhash, Drop, sweeps, dispatchers
  <1>2. wpc[w] \notin Fetched
    BY DEF Return, Timeout, Reschedule, Retry, Scan, BlockChild, DeadLetter, Complete, Delete,
           Unhash, Drop, Fetched
  <1>3. wpc'[w] \notin Fetched /\ \A v \in Worker : v # w => wpc'[v] = wpc[v] /\ copy'[v] = copy[v]
    <2>1. CASE Drop(w) BY <2>1 DEF TypeOK, Drop, Leave, Goto, Fetched
    <2>2. CASE \E t \in Task : BlockChild(w, t) BY <1>2, <2>2 DEF BlockChild
    <2>3. CASE ~Drop(w) /\ ~\E t \in Task : BlockChild(w, t)
      <3>1. UNCHANGED copy
        BY <2>3 DEF Return, Timeout, Reschedule, Retry, Scan, DeadLetter, Complete, Delete, Unhash
      <3>2. \E pc : pc \notin Fetched /\ wpc' = [wpc EXCEPT ![w] = pc]
        BY <2>3 DEF Return, Timeout, Reschedule, Retry, Scan, DeadLetter, Complete, Delete, Unhash,
                    Goto, Fetched
      <3> QED BY <3>1, <3>2 DEF TypeOK
    <2> QED BY <2>1, <2>2, <2>3
  <1> QED BY <1>1, <1>2, <1>3, SameCopies DEF Holding

\* A worker that tests completed_tasks, or calls the handler, has a copy.
LEMMA FetchedCopies ==
  ASSUME TypeOK, NEW w \in Worker, NEW t \in Task, copy[w].id = t, Check(w) \/ Call(w)
  PROVE  Loose(t) /\ Astray' \in {Astray, Astray \ {t}}
  <1>1. wpc[w] \in Fetched BY DEF Check, Call, Fetched
  <1>2. UNCHANGED <<snap, pq, hand, dpc>> BY DEF Check, Call, sweeps, dispatchers
  <1>3. \A v \in Worker : v # w => wpc'[v] = wpc[v] /\ copy'[v] = copy[v]
    BY DEF TypeOK, Check, Call, Leave, Goto
  <1>4. wpc'[w] \in Fetched => copy'[w] = copy[w]
    <2>1. CASE Call(w) BY <2>1 DEF Call
    <2>2. CASE Check(w) BY <2>2 DEF TypeOK, Check, Leave, Goto, Fetched
    <2> QED BY <2>1, <2>2
  <1>5. Loose(t) BY <1>1 DEF Loose, Fetched
  <1>6. \A u \in Task : u # t => (Loose(u)' <=> Loose(u))
    <2> SUFFICES ASSUME NEW u \in Task, u # t PROVE Loose(u)' <=> Loose(u) OBVIOUS
    <2>1. (\E v \in Worker : wpc'[v] \in Fetched /\ copy'[v].id = u)
            <=> \E v \in Worker : wpc[v] \in Fetched /\ copy[v].id = u
      BY <1>3, <1>4
    <2> QED BY <1>2, <2>1 DEF Loose, Holding, Fetched
  <1> QED BY <1>1, <1>5, <1>6, OneCopyLess

\* A task whose handler is to be called, or has been, is on file unless a parent blocked it.
LEMMA AtWorkLife ==
  ASSUME TypeOK, OnePlace, Past, OnRecord, OffRecord, NEW w \in Worker, wpc[w] \in Working
  PROVE  /\ copy[w].id \in Task /\ copy[w].id \notin completed
         /\ outcome[copy[w].id] # "blocked" => copy[w].id \in Stored
         /\ \A v \in Worker : Busy(v) /\ copy[v].id = copy[w].id => v = w
  <1>1. Busy(w) /\ copy[w].id \in Task BY DEF TypeOK, Busy, Copy, Working
  <1>2. copy[w].id \notin completed BY DEF Past
  <1>3. Carried(copy[w].id) BY <1>1 DEF Carried, Started
  <1>4. outcome[copy[w].id] # "blocked" => copy[w].id \in Stored
    BY <1>1, <1>2, <1>3 DEF OnRecord, OffRecord, TypeOK
  <1> QED BY <1>1, <1>2, <1>4 DEF OnePlace, OneWorkerPerTask

\* enqueue saves a task that is nowhere yet.
LEMMA SaveNewLives ==
  ASSUME ~WritesFail, TypeOK, Once, NEW t \in Task, SaveNew(t)
  PROVE  TL!Submit(t)
  <1>1. UNCHANGED <<completed, wpc, copy, snap, pq, hand, dpc>>
    BY DEF SaveNew, sets, workers, sweeps, dispatchers
  <1>2. \A u \in Task : Running(u)' <=> Running(u) BY <1>1 DEF Running
  <1> PICK due \in BOOLEAN : /\ store' = [store EXCEPT ![t] = [rc |-> 0, due |-> due]]
                             /\ outcome' = [outcome EXCEPT ![t] = "none"]
    BY DEF SaveNew
  <1>3. [rc |-> 0, due |-> due] \in Record BY DEF Record
  <1>4. store'[t] # None /\ outcome'[t] = "none" /\ Stored' = Stored \cup {t}
    BY <1>3 DEF TypeOK, Stored
  <1>5. store[t] = None /\ outcome[t] = "none" /\ ~Carried(t) BY SavedIsNew DEF Nowhere
  <1>6. ~Running(t) BY <1>5 DEF Running, Carried, Started, Busy, Attempting
  <1>7. LifeOf(t) = "new" BY <1>5, <1>6 DEF LifeOf, Running, Stored
  <1>8. LifeOf(t)' = "pending" BY <1>2, <1>4, <1>6 DEF LifeOf, Running
  <1>9. \A u \in Task : u # t => LifeOf(u)' = LifeOf(u)
    <2> SUFFICES ASSUME NEW u \in Task, u # t PROVE LifeOf(u)' = LifeOf(u) OBVIOUS
    <2>1. outcome'[u] = outcome[u] /\ store'[u] = store[u] BY DEF TypeOK
    <2> QED BY <1>1, <1>2, <2>1, SameLife
  <1>10. TL!Enter(t, "pending") BY <1>8, <1>9, Entered
  <1>11. Cut' = Cut BY <1>5 DEF TypeOK, Cut
  <1>12. Astray' = Astray BY <1>1, SameCopies DEF Holding
  <1> QED BY <1>4, <1>7, <1>10, <1>11, <1>12 DEF TL!Submit, Cut, Astray

\* What is over has ended, or was last blocked and may be running.
LEMMA OverLife ==
  ASSUME TypeOK, Past, OffRecord, NEW p \in Task, IsOver(p)
  PROVE  LifeOf(p) \in TL!Over \/ p \in Cut
  <1>1. CASE outcome[p] = "blocked" BY <1>1 DEF Cut
  <1>2. CASE outcome[p] # "blocked"
    <2>1. outcome[p] \in {"ok", "dead"} /\ (p \in completed \/ p \notin Stored)
      BY <1>2 DEF IsOver, TypeOK
    <2>2. p \in completed \/ ~Carried(p) BY <2>1 DEF OffRecord
    <2>3. ~Running(p)
      <3>1. \A w \in Worker : wpc[w] \in Attempting => wpc[w] \in Working /\ Busy(w)
        BY DEF Attempting, Working, Busy
      <3> QED BY <2>2, <3>1 DEF Running, Past, Carried, Started
    <2>4. LifeOf(p) = outcome[p] BY <2>1, <2>3 DEF LifeOf, Running
    <2> QED BY <2>1, <2>4 DEF TL!Over, TL!Done
  <1> QED BY <1>1, <1>2

\* A handler is called from a copy, for a task whose parents are over.
LEMMA CallLives ==
  ASSUME TypeOK, OnePlace, Past, OnRecord, OffRecord, Orderly, NEW w \in Worker, NEW t \in Task,
         copy[w].id = t, Call(w)
  PROVE  TL!Start(t) \/ TL!Drop(t) \/ Same
  <1>1. UNCHANGED <<store, outcome, completed, copy>> BY DEF Call, sets
  <1>2. wpc[w] = "call" /\ wpc[w] \in Working BY DEF Call, Working
  <1>3. t \in Task /\ t \notin completed /\ (outcome[t] # "blocked" => t \in Stored)
    BY <1>2, AtWorkLife
  <1>4. Stored' = Stored /\ Cut' = Cut BY <1>1 DEF Stored, Cut
  <1>5. Loose(t) /\ Astray' \in {Astray, Astray \ {t}} BY FetchedCopies
  <1>6. CASE wpc' = [wpc EXCEPT ![w] = "drop"]
    <2>1. \A v \in Worker : wpc[v] \in Attempting \/ wpc'[v] \in Attempting => wpc'[v] = wpc[v]
      BY <1>2, <1>6 DEF TypeOK, Attempting
    <2>2. \A u \in Task : Running(u)' <=> Running(u) BY <1>1, <2>1, SameRunning
    <2>3. Fixed BY <1>1, <2>2, NothingHappens
    <2> QED BY <1>5, <2>3 DEF TL!Drop, Same, Fixed, Life, Cut, Astray
  <1>7. CASE wpc' = [wpc EXCEPT ![w] = "run"]
    <2>1. \A u \in Task : u # t => LifeOf(u)' = LifeOf(u) BY <1>1, <1>7, OthersStay, SameLife
    <2>2. ~Running(t) BY <1>2, AtWorkLife DEF Running, Busy, Attempting
    <2>3. LifeOf(t) \in {"pending", "blocked"} BY <1>3, <2>2 DEF LifeOf, Running
    <2>4. Running(t)' BY <1>1, <1>7 DEF TypeOK, Running, Attempting
    <2>5. LifeOf(t)' = "running" BY <2>4 DEF LifeOf, Running
    <2>6. TL!Enter(t, "running") BY <1>3, <2>1, <2>5, Entered
    <2>7. Started(t) BY <1>2 DEF Started, Busy
    <2>8. \A p \in Deps[t] : p \in Task /\ (LifeOf(p) \in TL!Over \/ p \in Cut)
      BY <1>3, <2>7, OverLife DEF Orderly
    <2>9. t \in Astray BY <1>3, <1>5 DEF Astray
    <2> QED BY <1>3, <1>4, <1>5, <2>3, <2>6, <2>8, <2>9 DEF TL!Start, Cut, Astray
  <1> QED BY <1>6, <1>7 DEF Call, Goto

\* An attempt that is not the last one keeps the task.
LEMMA SaveLives ==
  ASSUME ~WritesFail, TypeOK, OnePlace, Past, OnRecord, OffRecord, NEW w \in Worker,
         NEW t \in Task, copy[w].id = t, Retry(w) \/ Reschedule(w)
  PROVE  TL!Yield(t)
  <1>1. UNCHANGED <<outcome, completed, copy>> /\ wpc' = [wpc EXCEPT ![w] = "drop"]
    BY DEF Retry, Reschedule, sets, history, Goto
  <1>2. wpc[w] \in Working /\ wpc[w] \in Attempting BY DEF Retry, Reschedule, Working, Attempting
  <1>3. t \in Task /\ t \notin completed BY <1>2, AtWorkLife
  <1> PICK r \in Record : Write(t, r)
    <2>1. copy[w].rc \in Nat BY <1>2 DEF TypeOK, Busy, Copy, Attempting
    <2>2. [rc |-> 0, due |-> FALSE] \in Record
      BY DEF Record
    <2>3. [rc |-> NextCount(copy[w].rc), due |-> FALSE] \in Record BY <2>1 DEF Record, NextCount
    <2> QED BY <2>2, <2>3 DEF Retry, Reschedule
  <1>4. store'[t] # None /\ \A u \in Task : u # t => store'[u] = store[u] BY <1>3, SureWrite
  <1>5. \A u \in Task : u # t => LifeOf(u)' = LifeOf(u) BY <1>1, <1>4, OthersStay, SameLife
  <1>6. Running(t) BY <1>2 DEF Running
  <1>7. ~Running(t)'
    <2>1. \A v \in Worker : v # w => wpc'[v] = wpc[v] BY <1>1 DEF TypeOK
    <2>2. wpc'[w] \notin Attempting BY <1>1 DEF TypeOK, Attempting
    <2> QED BY <1>1, <1>2, <2>1, <2>2, AtWorkLife DEF Running, Busy, Attempting
  <1>8. LifeOf(t) = "running" BY <1>6 DEF LifeOf, Running
  <1>9. LifeOf(t)' = "pending" BY <1>1, <1>3, <1>4, <1>7 DEF LifeOf, Running, Stored
  <1>10. TL!Enter(t, "pending") BY <1>3, <1>5, <1>9, Entered
  <1>11. Stored' = Stored \cup {t} BY <1>3, <1>4 DEF Stored
  <1>12. Cut' = Cut BY <1>1 DEF Cut
  <1>13. Astray' = Astray BY WorkerCopies
  <1> QED BY <1>8, <1>10, <1>11, <1>12, <1>13 DEF TL!Yield, Cut, Astray

\* The last attempt ends the task, whatever became of it meanwhile.
LEMMA CompleteLives ==
  ASSUME TypeOK, OnePlace, Past, OnRecord, OffRecord, NEW w \in Worker,
         NEW t \in Task, copy[w].id = t, Complete(w)
  PROVE  TL!End(t)
  <1>1. /\ UNCHANGED <<store, copy>> /\ wpc' = [wpc EXCEPT ![w] = "delete"]
        /\ wpc[w] \in {"ok", "dead"}
        /\ completed' = completed \cup {t} /\ outcome' = [outcome EXCEPT ![t] = wpc[w]]
    BY DEF Complete, Goto
  <1>2. wpc[w] \in Working /\ wpc[w] \in Attempting BY <1>1 DEF Working, Attempting
  <1>3. t \in Task BY <1>2, AtWorkLife
  <1>4. \A u \in Task : u # t => LifeOf(u)' = LifeOf(u)
    <2> SUFFICES ASSUME NEW u \in Task, u # t PROVE LifeOf(u)' = LifeOf(u) OBVIOUS
    <2>1. outcome'[u] = outcome[u] BY <1>1 DEF TypeOK
    <2> QED BY <1>1, <2>1, OthersStay, SameLife
  <1>5. outcome'[t] = wpc[w] BY <1>1, <1>3 DEF TypeOK
  <1>6. ~Running(t)'
    <2>1. \A v \in Worker : v # w => wpc'[v] = wpc[v] BY <1>1 DEF TypeOK
    <2>2. wpc'[w] \notin Attempting BY <1>1 DEF TypeOK, Attempting
    <2> QED BY <1>1, <1>2, <2>1, <2>2, AtWorkLife DEF Running, Busy, Attempting
  <1>7. LifeOf(t)' = wpc[w] BY <1>1, <1>5, <1>6 DEF LifeOf, Running
  <1>8. TL!Enter(t, wpc[w]) /\ wpc[w] \in TL!Done BY <1>1, <1>3, <1>4, <1>7, Entered DEF TL!Done
  <1>9. Stored' = Stored BY <1>1 DEF Stored
  <1>10. LifeOf(t) = "running" BY <1>2 DEF LifeOf
  <1>11. Cut' = Cut \ {t} BY <1>1 DEF TypeOK, Cut
  <1>12. Astray' = Astray BY WorkerCopies
  <1> QED BY <1>3, <1>8, <1>9, <1>10, <1>11, <1>12 DEF TL!End, Cut, Astray

\* A record is deleted when its task is over.
LEMMA DeleteLives ==
  ASSUME ~WritesFail, TypeOK, OnePlace, DeletesCompleted, CompletedEnded, NEW w \in Worker,
         NEW t \in Task, copy[w].id = t, Delete(w)
  PROVE  TL!Forget(t)
  <1>1. UNCHANGED <<outcome, completed, copy>> /\ wpc' = [wpc EXCEPT ![w] = "unhash"]
    BY DEF Delete, sets, history, Goto
  <1>2. t \in Task /\ t \in completed /\ wpc[w] = "delete" /\ Busy(w)
    BY AtWork DEF WorkerStep, DeletesCompleted, Delete
  <1>3. store'[t] = None /\ \A u \in Task : u # t => store'[u] = store[u]
    <2>1. CASE Write(t, None) BY <1>2, <2>1, SureWrite
    <2>2. CASE t \notin Stored /\ UNCHANGED store BY <1>2, <2>2 DEF Stored
    <2> QED BY <2>1, <2>2 DEF Delete, Erase
  <1>4. ~Running(t) /\ ~Running(t)'
    <2>1. \A v \in Worker : Busy(v) /\ copy[v].id = t => v = w
      BY <1>2 DEF OnePlace, OneWorkerPerTask
    <2>2. \A v \in Worker : v # w => wpc'[v] = wpc[v] BY <1>1 DEF TypeOK
    <2>3. wpc[w] \notin Attempting /\ wpc'[w] \notin Attempting BY <1>1, <1>2 DEF TypeOK, Attempting
    <2> QED BY <1>1, <2>1, <2>2, <2>3 DEF Running, Busy, Attempting
  <1>5. outcome[t] \in TL!Over BY <1>2 DEF CompletedEnded, TypeOK, TL!Over, TL!Done
  <1>6. LifeOf(t) = outcome[t] /\ LifeOf(t)' = outcome[t]
    BY <1>1, <1>2, <1>4, <1>5 DEF CompletedEnded, LifeOf, Running
  <1>7. \A u \in Task : u # t => LifeOf(u)' = LifeOf(u) BY <1>1, <1>3, OthersStay, SameLife
  <1>8. UNCHANGED Life BY <1>6, <1>7 DEF Life
  <1>9. Stored' = Stored \ {t} BY <1>3 DEF Stored
  <1>10. Cut' = Cut BY <1>1 DEF Cut
  <1>11. Astray' = Astray BY WorkerCopies
  <1> QED BY <1>2, <1>5, <1>6, <1>8, <1>9, <1>10, <1>11 DEF TL!Forget, Life, Cut, Astray

\* A child is blocked by a parent that is being given up; if that one had itself been blocked,
\* the child may be anywhere.
LEMMA BlockLives ==
  ASSUME ~WritesFail, TypeOK, OnePlace, Past, OnRecord, OffRecord, Orderly, CompletedEnded,
         KidsKnown, NEW w \in Worker, NEW t \in Task, BlockChild(w, t)
  PROVE  TL!Block(t)
  <1>1. UNCHANGED <<completed, wpc, copy>> BY DEF BlockChild, sets
  <1>2. wpc[w] \in Working /\ wpc[w] \in Attempting BY DEF BlockChild, Working, Attempting
  <1> PICK p \in Task : p = copy[w].id BY <1>2, AtWorkLife
  <1>3. p \notin completed /\ (outcome[p] # "blocked" => p \in Stored) BY <1>2, AtWorkLife
  <1>4. p \in Deps[t] /\ (t \in Stored \/ outcome[t] = "blocked" \/ t \in completed)
    BY DEF BlockChild, KidsKnown
  <1>5. \A u \in Task : Running(u)' <=> Running(u) BY <1>1 DEF Running
  <1>6. /\ store'[t] = None /\ \A u \in Task : u # t => store'[u] = store[u]
        /\ outcome' = [outcome EXCEPT ![t] = "blocked"]
    BY SureWrite DEF BlockChild
  <1>7. \A u \in Task : u # t => LifeOf(u)' = LifeOf(u)
    <2> SUFFICES ASSUME NEW u \in Task, u # t PROVE LifeOf(u)' = LifeOf(u) OBVIOUS
    <2>1. outcome'[u] = outcome[u] BY <1>6 DEF TypeOK
    <2> QED BY <1>1, <1>5, <1>6, <2>1, SameLife
  <1>8. LifeOf(t)' = IF LifeOf(t) = "running" THEN "running" ELSE "blocked"
    <2>1. outcome'[t] = "blocked" /\ t \notin Stored' BY <1>6 DEF TypeOK, Stored
    <2>2. LifeOf(t) = "running" <=> Running(t) BY DEF LifeOf, Running, TypeOK
    <2>3. LifeOf(t)' = IF Running(t)' THEN "running" ELSE "blocked"
      BY <2>1 DEF LifeOf, Running
    <2> QED BY <1>5, <2>2, <2>3
  <1>9. TL!Enter(t, IF LifeOf(t) = "running" THEN "running" ELSE "blocked")
    BY <1>7, <1>8, Entered
  <1>10. Stored' = Stored \ {t} BY <1>6 DEF Stored
  <1>11. Cut' = Cut \cup {t} BY <1>6 DEF TypeOK, Cut
  <1>12. Astray' = Astray BY WorkerCopies
  <1>13. LifeOf(p) = "running" BY <1>2 DEF LifeOf
  <1>14. LifeOf(t) \in {"pending", "blocked"} \/ (p \in Cut /\ LifeOf(t) # "new")
    <2>1. CASE outcome[p] = "blocked"
      <3>1. LifeOf(t) # "new" BY <1>4 DEF TypeOK, LifeOf, CompletedEnded
      <3> QED BY <2>1, <3>1 DEF Cut
    <2>2. CASE outcome[p] # "blocked"
      <3>1. ~IsOver(p) BY <1>3, <2>2 DEF IsOver
      <3>2. ~Started(t) /\ t \notin completed BY <1>4, <3>1 DEF Orderly
      <3>3. ~Running(t) BY <3>2 DEF Running, Started, Busy, Attempting
      <3> QED BY <1>4, <3>2, <3>3 DEF LifeOf, Running
    <2> QED BY <2>1, <2>2
  <1> QED BY <1>4, <1>9, <1>10, <1>11, <1>12, <1>13, <1>14 DEF TL!Block, Cut, Astray

\* A restart keeps what is on file, for another attempt.
LEMMA RestartLives ==
  ASSUME TypeOK, Certain, OnePlace, Past, OnRecord, OffRecord, Restart
  PROVE  TL!Restart
  <1>1. UNCHANGED <<store, outcome>> /\ completed' = {} BY RereadIsSame DEF Restart, history
  <1>2. Stored' = Stored /\ Cut' = Cut BY <1>1 DEF Stored, Cut
  <1>3. \A t \in Task : ~Running(t)' BY DEF Restart, Running, Attempting
  <1>4. ASSUME NEW t \in Task
        PROVE  LifeOf(t)' = IF t \in Stored THEN "pending"
                            ELSE IF LifeOf(t) = "running" THEN "blocked" ELSE LifeOf(t)
    <2>1. CASE t \in Stored BY <1>1, <1>2, <1>3, <2>1 DEF LifeOf, Running
    <2>2. CASE t \notin Stored /\ Running(t)
      <3>1. outcome[t] = "blocked"
        <4>1. Attempting \subseteq Working BY DEF Attempting, Working
        <4> QED BY <2>2, <4>1, AtWorkLife DEF Running
      <3>2. LifeOf(t) = "running" BY <2>2 DEF LifeOf, Running
      <3>3. LifeOf(t)' = "blocked" BY <1>1, <1>2, <1>3, <2>2, <3>1 DEF LifeOf, Running
      <3> QED BY <2>2, <3>2, <3>3
    <2>3. CASE t \notin Stored /\ ~Running(t)
      <3>1. LifeOf(t)' = LifeOf(t) BY <1>1, <1>2, <1>3, <2>3 DEF LifeOf, Running
      <3>2. LifeOf(t) # "running" BY <2>3 DEF TypeOK, LifeOf, Running
      <3> QED BY <2>3, <3>1, <3>2
    <2> QED BY <2>1, <2>2, <2>3
  <1>5. Astray' = {} BY DEF Restart, Astray, Loose, Holding
  <1> QED BY <1>2, <1>4, <1>5 DEF TL!Restart, Cut, Astray

\* The steps that are about no task's life.
Still ==
  /\ \A t \in Task : ~SaveNew(t)
  /\ \A w \in Worker : ~(Call(w) \/ Retry(w) \/ Reschedule(w) \/ Complete(w) \/ Delete(w))
  /\ \A w \in Worker : \A t \in Task : ~BlockChild(w, t)
  /\ ~Restart

\* Heaps, loops and the bookkeeping of the workers are invisible.
LEMMA StillLives ==
  ASSUME ~TTLExpires, TypeOK, Certain, Unlimited, [Next]_vars, Still
  PROVE  Fixed
  <1>1. ASSUME UNCHANGED <<store, outcome, completed, wpc, copy>> PROVE Fixed
    <2>1. \A u \in Task : Running(u)' <=> Running(u) BY <1>1 DEF Running
    <2> QED BY <1>1, <2>1, NothingHappens
  <1>2. ASSUME NEW t \in Task, Elapse(t) PROVE Fixed
    <2>1. UNCHANGED <<outcome, completed, wpc, copy>>
      BY <1>2 DEF Elapse, sets, workers, history
    <2>2. \A u \in Task : Running(u)' <=> Running(u) BY <2>1 DEF Running
    <2>3. \A u \in Task : store'[u] = None <=> store[u] = None
      <3> SUFFICES ASSUME NEW u \in Task, store'[u] # store[u]
                   PROVE  store'[u] # None /\ store[u] # None
        OBVIOUS
      <3>1. u = t /\ store'[t] = [store[t] EXCEPT !.due = TRUE] /\ store[t] # None
        BY <1>2 DEF TypeOK, Elapse, Stored
      <3>2. store[t] \in Record BY <3>1 DEF TypeOK
      <3>3. [store[t] EXCEPT !.due = TRUE] \in Record BY <3>2 DEF Record
      <3> QED BY <3>1, <3>3
    <2> QED BY <2>1, <2>2, <2>3, NothingHappens
  <1>3. CASE Compact
    <2>1. UNCHANGED <<outcome, completed, wpc, copy>> BY <1>3 DEF Compact, sets, workers, history
    <2>2. UNCHANGED store BY <1>3, RereadIsSame DEF Compact
    <2> QED BY <1>1, <2>1, <2>2
  <1>4. CASE \/ \E t \in Task : ClaimHash(t) \/ CheckCycle(t) \/ RegisterHandler(t) \/ Evict(t)
             \/ \E s \in Sweep : SweepStep(s)
             \/ (\E c \in lingering : Linger(c))
             \/ UNCHANGED vars
    <2>1. UNCHANGED <<store, outcome, completed, wpc, copy>>
      BY <1>4 DEF ClaimHash, CheckCycle, RegisterHandler, Evict, SweepStep, PollRead, PollLock,
                  PollTask, PollUnlock, PollDispatch, PollDone, Linger, vars, sets, workers, history
    <2> QED BY <1>1, <2>1
  <1>5. ASSUME NEW d \in Dispatcher, DispatcherStep(d), ~Move(d) PROVE Fixed
    <2>1. ~Deny(d) BY DEF Unlimited, Deny
    <2>2. UNCHANGED <<store, outcome, completed, wpc, copy>>
      BY <1>5, <2>1 DEF DispatcherStep, Acquire, Pop, PopEmpty, Exit, Grant, Unqueue, sets, workers,
                        history
    <2> QED BY <1>1, <2>2
  <1>6. ASSUME NEW d \in Dispatcher, Move(d) PROVE Fixed
    <2>1. UNCHANGED <<store, outcome, completed>> BY <1>6 DEF Move, history
    <2>2. \/ UNCHANGED <<wpc, copy>>
          \/ \E w \in Worker : /\ wpc[w] = "idle" /\ wpc' = [wpc EXCEPT ![w] = "check"]
                               /\ copy' = [copy EXCEPT ![w] = hand[d]]
      BY <1>6 DEF Move
    <2>3. \A v \in Worker : wpc[v] \in Attempting \/ wpc'[v] \in Attempting =>
            wpc'[v] = wpc[v] /\ copy'[v] = copy[v]
      BY <2>2 DEF TypeOK, Attempting
    <2>4. \A u \in Task : Running(u)' <=> Running(u) BY <2>3, SameRunning
    <2> QED BY <2>1, <2>4, NothingHappens
  <1>7. ASSUME NEW w \in Worker, Check(w) \/ Unhash(w) \/ Drop(w) PROVE Fixed
    <2>1. UNCHANGED <<store, outcome, completed>>
      BY <1>7 DEF Check, Unhash, Drop, sets, history
    <2>2. /\ wpc[w] \notin Attempting /\ wpc'[w] \notin Attempting
          /\ \A v \in Worker : v # w => wpc'[v] = wpc[v] /\ copy'[v] = copy[v]
      BY <1>7 DEF TypeOK, Check, Unhash, Drop, Leave, Goto, Attempting
    <2>3. \A u \in Task : Running(u)' <=> Running(u) BY <2>2, SameRunning
    <2> QED BY <2>1, <2>3, NothingHappens
  <1>8. ASSUME NEW w \in Worker, Return(w) \/ Timeout(w) \/ Scan(w) \/ DeadLetter(w) PROVE Fixed
    <2>1. UNCHANGED <<store, outcome, completed, copy>>
      BY <1>8 DEF Return, Timeout, Scan, DeadLetter, sets, history
    <2>2. /\ wpc[w] \in Attempting /\ wpc'[w] \in Attempting
          /\ \A v \in Worker : v # w => wpc'[v] = wpc[v]
      BY <1>8 DEF TypeOK, Return, Timeout, Scan, DeadLetter, Goto, Attempting
    <2>3. \A u \in Task : Running(u)' <=> Running(u) BY <2>1, <2>2, SameRunning
    <2> QED BY <2>1, <2>3, NothingHappens
  <1> QED BY <1>2, <1>3, <1>4, <1>5, <1>6, <1>7, <1>8 DEF Next, WorkerStep, Still

\* Copies come from a sweep, and are used up one by one.
LEMMA StillCopies ==
  ASSUME TypeOK, OnePlace, Drained, [Next]_vars, Still
  PROVE  \/ UNCHANGED Astray
         \/ \E t \in Task : Astray' = Astray \ {t}
         \/ \E S \in SUBSET Stored : Astray' = Astray \cup S
  <1>1. CASE \/ \E u \in Task : Elapse(u) \/ ClaimHash(u) \/ CheckCycle(u) \/ RegisterHandler(u)
                                \/ Evict(u)
             \/ \E s \in Sweep : PollLock(s) \/ PollUnlock(s) \/ PollDone(s)
             \/ (\E c \in lingering : Linger(c)) \/ Compact
             \/ UNCHANGED vars
    <2>1. UNCHANGED <<snap, pq, hand, dpc, wpc, copy>>
      BY <1>1 DEF Elapse, ClaimHash, CheckCycle, RegisterHandler, Evict, PollLock, PollUnlock,
                  PollDone, Linger, Compact, vars, dispatchers, workers, sweeps
    <2> QED BY <2>1, SameCopies DEF Holding
  <1>2. ASSUME NEW s \in Sweep, NEW p \in Pool, PollDispatch(s, p) PROVE UNCHANGED Astray
    <2>1. UNCHANGED <<snap, pq, hand, wpc, copy>> BY <1>2 DEF PollDispatch, workers
    <2>2. \A d \in Dispatcher : Holding(d)' <=> Holding(d)
      <3>1. \/ UNCHANGED dpc
            \/ \E d \in Dispatcher : dpc[d] = "idle" /\ dpc' = [dpc EXCEPT ![d] = "acquire"]
        BY <1>2 DEF PollDispatch
      <3> QED BY <3>1 DEF TypeOK, Holding
    <2> QED BY <2>1, <2>2, SameCopies
  <1>3. ASSUME NEW s \in Sweep, PollRead(s)
        PROVE  \E S \in SUBSET Stored : Astray' = Astray \cup S
    <2> DEFINE S == {u \in Stored : store[u].due}
    <2>1. /\ UNCHANGED <<pq, hand, dpc, wpc, copy>>
          /\ snap' = [snap EXCEPT ![s] = {[id |-> t, rc |-> store[t].rc] : t \in S}]
      BY <1>3 DEF PollRead, dispatchers, workers
    <2>2. snap[s] = {} BY <1>3 DEF Drained, PollRead
    <2>3. \A t \in Task : Read(t)' <=> Read(t) \/ t \in S
      <3> SUFFICES ASSUME NEW t \in Task PROVE Read(t)' <=> Read(t) \/ t \in S OBVIOUS
      <3>1. \A r \in Sweep : r # s => snap'[r] = snap[r] BY <2>1 DEF TypeOK
      <3>2. snap'[s] = {[id |-> u, rc |-> store[u].rc] : u \in S} BY <2>1 DEF TypeOK
      <3>3. ASSUME t \in S PROVE \E c \in snap'[s] : c.id = t
        <4>1. [id |-> t, rc |-> store[t].rc] \in snap'[s] BY <3>2, <3>3
        <4> QED BY <4>1
      <3>4. ASSUME NEW c \in snap'[s], c.id = t PROVE t \in S
        <4> HIDE DEF S
        <4> QED BY <3>2, <3>4
      <3>5. (\E c \in snap'[s] : c.id = t) <=> t \in S BY <3>3, <3>4
      <3> QED BY <2>2, <3>1, <3>5 DEF Read
    <2>4. \A t \in Task : Loose(t)' <=> Loose(t) \/ t \in S BY <2>1, <2>3 DEF Loose, Read, Holding
    <2>5. S \in SUBSET Stored /\ S \subseteq Task BY DEF Stored
    <2>6. Astray' = Astray \cup S BY <2>4, <2>5 DEF Astray
    <2> QED BY <2>5, <2>6
  <1>4. ASSUME NEW s \in Sweep, NEW c \in snap[s], PollTask(s, c)
        PROVE  c.id \in Task /\ Astray' \in {Astray, Astray \ {c.id}}
    <2>1. /\ UNCHANGED <<hand, dpc, wpc, copy>> /\ snap' = [snap EXCEPT ![s] = snap[s] \ {c}]
          /\ UNCHANGED pq \/ pq' = [pq EXCEPT ![PoolOf(c.id)] = pq[PoolOf(c.id)] \cup {c}]
      BY <1>4 DEF PollTask, dispatchers, workers
    <2>2. c.id \in Task /\ Loose(c.id) BY DEF TypeOK, Copy, Loose
    <2>3. ASSUME NEW u \in Task, u # c.id PROVE Loose(u)' <=> Loose(u)
      <3>1. (\E r \in Sweep : \E b \in snap'[r] : b.id = u) <=> \E r \in Sweep : \E b \in snap[r] : b.id = u
        BY <2>1, <2>3 DEF TypeOK
      <3>2. (\E p \in Pool : \E b \in pq'[p] : b.id = u) <=> \E p \in Pool : \E b \in pq[p] : b.id = u
        BY <2>1, <2>3 DEF TypeOK
      <3> QED BY <2>1, <3>1, <3>2 DEF Loose, Holding
    <2> QED BY <2>2, <2>3, OneCopyLess
  <1>5. ASSUME NEW d \in Dispatcher, DispatcherStep(d), ~Pop(d), ~Unqueue(d), ~Move(d)
        PROVE  UNCHANGED Astray
    <2>1. UNCHANGED <<snap, pq, hand, wpc, copy>>
      BY <1>5 DEF DispatcherStep, Acquire, PopEmpty, Exit, Grant, Deny, workers, sweeps
    <2>2. \A e \in Dispatcher : Holding(e)' <=> Holding(e)
      BY <1>5 DEF TypeOK, DispatcherStep, Acquire, PopEmpty, Exit, Grant, Deny, Holding
    <2> QED BY <2>1, <2>2, SameCopies
  <1>6. ASSUME NEW d \in Dispatcher, Pop(d) PROVE \E t \in Task : Astray' \in {Astray, Astray \ {t}}
    <2> PICK c \in pq[dpool[d]] : /\ pq' = [pq EXCEPT ![dpool[d]] = pq[dpool[d]] \ {c}]
                                  /\ hand' = [hand EXCEPT ![d] = c]
                                  /\ dpc' = [dpc EXCEPT ![d] = IF c.id \in Limited THEN "limit" ELSE "move"]
      BY <1>6 DEF Pop
    <2>1. UNCHANGED <<snap, wpc, copy>> /\ dpool[d] \in Pool /\ ~Holding(d)
      BY <1>6 DEF TypeOK, Pop, workers, sweeps, Holding
    <2>2. c.id \in Task /\ Loose(c.id) BY <2>1 DEF TypeOK, Copy, Loose
    <2>3. ASSUME NEW u \in Task, u # c.id PROVE Loose(u)' <=> Loose(u)
      <3>1. (\E p \in Pool : \E b \in pq'[p] : b.id = u) <=> \E p \in Pool : \E b \in pq[p] : b.id = u
        BY <2>1, <2>3 DEF TypeOK
      <3>2. \A e \in Dispatcher : e # d => (Holding(e)' <=> Holding(e)) /\ hand'[e] = hand[e]
        BY DEF TypeOK, Holding
      <3>3. hand'[d] = c BY DEF TypeOK
      <3>4. (\E e \in Dispatcher : Holding(e)' /\ hand'[e].id = u)
              <=> \E e \in Dispatcher : Holding(e) /\ hand[e].id = u
        BY <2>1, <2>3, <3>2, <3>3
      <3> QED BY <2>1, <3>1, <3>4 DEF Loose
    <2> QED BY <2>2, <2>3, OneCopyLess
  <1>7. ASSUME NEW d \in Dispatcher, Unqueue(d) \/ Move(d)
        PROVE  \E t \in Task : Astray' \in {Astray, Astray \ {t}}
    <2> DEFINE t == hand[d].id
    <2>1. /\ UNCHANGED <<snap, pq>> /\ Holding(d)
          /\ hand' = [hand EXCEPT ![d] = None] /\ dpc' = [dpc EXCEPT ![d] = "acquire"]
      BY <1>7 DEF Unqueue, Move, sweeps, Holding
    <2>2. t \in Task /\ Loose(t) BY <2>1 DEF TypeOK, Copy, Loose
    <2>3. \A e \in Dispatcher : Holding(e)' => e # d /\ Holding(e)
      BY <2>1 DEF TypeOK, Holding
    <2>4. \A e \in Dispatcher : e # d => (Holding(e)' <=> Holding(e)) /\ hand'[e] = hand[e]
      BY <2>1 DEF TypeOK, Holding
    <2>5. \A v \in Worker : \/ wpc'[v] = wpc[v] /\ copy'[v] = copy[v]
                            \/ wpc[v] \notin Fetched /\ copy'[v] = hand[d]
      <3>1. CASE Unqueue(d) BY <3>1 DEF Unqueue, workers
      <3>2. CASE Move(d) /\ hand[d].id \in executing BY <3>2 DEF Move
      <3>3. CASE Move(d) /\ hand[d].id \notin executing
        <4> PICK w \in Worker : /\ wpc[w] = "idle" /\ wpc' = [wpc EXCEPT ![w] = "check"]
                                /\ copy' = [copy EXCEPT ![w] = hand[d]]
          BY <3>3 DEF Move
        <4> QED BY DEF TypeOK, Fetched
      <3> QED BY <1>7, <3>1, <3>2, <3>3
    <2>6. ASSUME NEW u \in Task, u # t PROVE Loose(u)' <=> Loose(u)
      <3>1. (\E e \in Dispatcher : Holding(e)' /\ hand'[e].id = u)
              <=> \E e \in Dispatcher : Holding(e) /\ hand[e].id = u
        BY <2>3, <2>4, <2>6
      <3>2. (\E v \in Worker : wpc'[v] \in Fetched /\ copy'[v].id = u)
              <=> \E v \in Worker : wpc[v] \in Fetched /\ copy[v].id = u
        BY <2>5, <2>6
      <3> QED BY <2>1, <3>1, <3>2 DEF Loose, Fetched
    <2> QED BY <2>2, <2>6, OneCopyLess
  <1>8. ASSUME NEW w \in Worker, Check(w)
        PROVE  \E t \in Task : Astray' \in {Astray, Astray \ {t}}
    <2> PICK t \in Task : copy[w].id = t BY <1>8, AtWork DEF WorkerStep
    <2> QED BY <1>8, FetchedCopies
  <1>9. ASSUME NEW w \in Worker,
               \/ Return(w) \/ Timeout(w) \/ Scan(w) \/ DeadLetter(w) \/ Unhash(w) \/ Drop(w)
        PROVE  UNCHANGED Astray
    BY <1>9, WorkerCopies
  <1> QED BY <1>1, <1>2, <1>3, <1>4, <1>5, <1>6, <1>7, <1>8, <1>9
          DEF Next, SweepStep, WorkerStep, Still

\* What the engine does to its tasks is what TaskLife lets it do.
Living ==
  /\ Certain /\ Once /\ Past /\ Deleting /\ Unlimited /\ DeletesCompleted /\ DoubtsCompleted
  /\ OffRecord /\ OnRecord /\ CompletedEnded /\ KidsKnown /\ Families /\ Orderly /\ Drained

\* Each step of the engine is a step of TaskLife, or none.
LEMMA LifeStep ==
  ASSUME ~WritesFail, ~TTLExpires, TypeOK, OnePlace, Living, [Next]_vars
  PROVE  TL!Next \/ Same
  <1> USE DEF Living
  <1>1. ASSUME NEW t \in Task, SaveNew(t) PROVE TL!Next BY <1>1, SaveNewLives DEF TL!Next
  <1>2. ASSUME NEW w \in Worker,
               Call(w) \/ Retry(w) \/ Reschedule(w) \/ Complete(w) \/ Delete(w)
        PROVE  TL!Next \/ Same
    <2> PICK t \in Task : copy[w].id = t BY <1>2, AtWork DEF WorkerStep
    <2>1. TL!Start(t) \/ TL!Drop(t) \/ TL!Yield(t) \/ TL!End(t) \/ TL!Forget(t) \/ Same
      BY <1>2, CallLives, SaveLives, CompleteLives, DeleteLives
    <2> QED BY <2>1 DEF TL!Next
  <1>3. ASSUME NEW w \in Worker, NEW t \in Task, BlockChild(w, t) PROVE TL!Next
    BY <1>3, BlockLives DEF TL!Next
  <1>4. CASE Restart BY <1>4, RestartLives DEF TL!Next
  <1>5. CASE Still
    <2>1. Fixed BY <1>5, StillLives
    <2>2. CASE UNCHANGED Astray BY <2>1, <2>2 DEF Same
    <2>3. ASSUME NEW t \in Task, Astray' = Astray \ {t} PROVE TL!Drop(t)
      BY <2>1, <2>3 DEF TL!Drop, Fixed, Life, Cut, Astray
    <2>4. ASSUME NEW S \in SUBSET Stored, Astray' = Astray \cup S PROVE TL!Read(S)
      BY <2>1, <2>4 DEF TL!Read, Fixed, Life, Cut, Astray
    <2> QED BY <1>5, <2>2, <2>3, <2>4, StillCopies DEF TL!Next
  <1> QED BY <1>1, <1>2, <1>3, <1>4, <1>5 DEF Still

\* The invariant of the refinement is kept.
LEMMA LivingStep ==
  ASSUME MaxCalls <= 1, ParentsFirst, ~WritesFail, ~TTLExpires, Limited = {}, TypeOK, OnePlace,
         Living, Certain', [Next]_vars
  PROVE  Living'
  <1> USE DEF Living
  <1>1. Once' BY OnceStep
  <1>2. Past' BY PastStep
  <1>3. Deleting' BY DeletingStep
  <1>4. Unlimited' BY UnlimitedStep
  <1>5. DeletesCompleted' /\ DoubtsCompleted' BY DeletesCompletedStep, DoubtsCompletedStep
  <1>6. OffRecord' BY OffRecordStep
  <1>7. OnRecord' BY OnRecordStep
  <1>8. CompletedEnded' BY CompletedEndedStep
  <1>9. KidsKnown' BY KidsKnownStep
  <1>10. Families' BY FamiliesStep
  <1>11. Orderly' BY OrderlyStep
  <1>12. Drained' BY DrainedStep
  <1> QED BY <1>1, <1>2, <1>3, <1>4, <1>5, <1>6, <1>7, <1>8, <1>9, <1>10, <1>11, <1>12

\* If no id is enqueued twice, parents are enqueued first, writes succeed, no task is rate
\* limited and completed_tasks forgets nothing, the engine implements TaskLife for any number of
\* tasks, pools, sweeps, loops and workers, wherever the process restarts: heaps, permits and
\* marks add nothing to the life of a task, and an old copy adds one thing, a run of a task that
\* was failed with its parent (queue.rs:198-626).
THEOREM LifeImplemented ==
  ASSUME MaxCalls <= 1, ParentsFirst, ~WritesFail, ~TTLExpires, Limited = {}
  PROVE  Spec => ImplementsTaskLife
  <1>1. Init => TL!Init
    BY DEF Init, TL!Init, LifeOf, Stored, Attempting, Loose, Holding
  <1>2. Init => Living
    BY DEF Init, NoDoubt, Living, Certain, Once, Unborn, Nowhere, Past, Working, Deleting,
           Unlimited, DeletesCompleted, DoubtsCompleted, OffRecord, OnRecord, CompletedEnded,
           KidsKnown, Families, Orderly, Drained, Carried, Read, Started, Holding, Busy
  <1>3. TypeOK /\ OnePlace /\ Living /\ Certain' /\ [Next]_vars => Living' BY LivingStep
  <1>4. TypeOK /\ OnePlace /\ Living /\ [Next]_vars => [TL!Next]_<<Life, Stored, Cut, Astray>>
    BY LifeStep DEF Same, Fixed
  <1>5. Spec => []Living
    BY <1>2, <1>3, TypeCorrect, CertainAlways, TaskInOnePlace, PTL DEF Spec
  <1>6. Spec => TL!Init /\ [][TL!Next]_<<Life, Stored, Cut, Astray>>
    BY <1>1, <1>4, <1>5, TypeCorrect, TaskInOnePlace, PTL DEF Spec
  <1> QED BY <1>6, PTL DEF ImplementsTaskLife, TL!Spec, TL!vars, Life, Cut, Astray
----------------------------------------------------------------------------
(* Cycles. *)

\* Tasks that each wait for one of them; a set without such tasks has one that may run.
Knot(X) == X # {} /\ \A t \in X : Deps[t] \cap X # {}
Unknotted(S) == \A X \in SUBSET S : ~Knot(X)

\* What a closed set of detect_cycle is; t is reached from u when it is in all of those.
Closed(X) == \A u \in X \cap Stored : Deps[u] \subseteq X
Reaches(u, t) == \A X \in SUBSET Task : Deps[u] \subseteq X /\ Closed(X) => t \in X

\* A task from which t is reached waits for t, or for a stored one from which t is reached.
LEMMA ReachesOn ==
  ASSUME NEW t \in Task, NEW u \in Task, Reaches(u, t)
  PROVE  \E p \in Deps[u] : p = t \/ (p \in Stored /\ Reaches(p, t))
  <1> SUFFICES ASSUME \A p \in Deps[u] : p # t /\ ~(p \in Stored /\ Reaches(p, t)) PROVE FALSE
    OBVIOUS
  <1> DEFINE X == {v \in Task : v # t /\ ~(v \in Stored /\ Reaches(v, t))}
  <1>1. Deps[u] \subseteq X OBVIOUS
  <1>2. ASSUME NEW v \in X \cap Stored, NEW q \in Deps[v] PROVE q \in X
    <2>1. PICK Z \in SUBSET Task : Deps[v] \subseteq Z /\ Closed(Z) /\ t \notin Z
      BY <1>2 DEF Reaches
    <2>2. q \in Z /\ q \in Task /\ q # t BY <1>2, <2>1
    <2>3. q \in Stored => Deps[q] \subseteq Z BY <2>1, <2>2 DEF Closed
    <2>4. ~(q \in Stored /\ Reaches(q, t)) BY <2>1, <2>3 DEF Reaches
    <2> QED BY <2>2, <2>4
  <1>3. Closed(X)
    <2> SUFFICES ASSUME NEW v \in X \cap Stored PROVE Deps[v] \subseteq X BY DEF Closed
    <2> QED BY <1>2
  <1>4. X \in SUBSET Task /\ t \notin X OBVIOUS
  <1> QED BY <1>1, <1>3, <1>4 DEF Reaches

\* detect_cycle refuses a task exactly when, with it, some stored tasks would each wait for
\* another of them for ever, provided that there were none before (queue.rs:219-223,
\* file_store.rs:148-170).
THEOREM CycleTestExact ==
  ASSUME NEW t \in Task, Unknotted(Stored)
  PROVE  Cyclic(t) <=> ~Unknotted(Stored \cup {t})
  <1>1. Cyclic(t) <=> Reaches(t, t) BY DEF Cyclic, Reaches, Closed
  <1>2. ASSUME Reaches(t, t) PROVE ~Unknotted(Stored \cup {t})
    <2> DEFINE Y == {u \in Stored \cup {t} : Reaches(u, t)}
    <2>1. t \in Y BY <1>2
    <2>2. \A u \in Y : u \in Task BY DEF Stored
    <2>3. ASSUME NEW u \in Y PROVE Deps[u] \cap Y # {}
      <3>1. PICK p \in Deps[u] : p = t \/ (p \in Stored /\ Reaches(p, t))
        BY <2>2, <2>3, ReachesOn
      <3> QED BY <2>1, <3>1
    <2>4. Knot(Y) BY <2>1, <2>3 DEF Knot
    <2>5. Y \in SUBSET (Stored \cup {t}) OBVIOUS
    <2> QED BY <2>4, <2>5 DEF Unknotted
  <1>3. ASSUME ~Unknotted(Stored \cup {t}) PROVE Reaches(t, t)
    <2> PICK Y \in SUBSET (Stored \cup {t}) : Knot(Y) BY <1>3 DEF Unknotted
    <2>1. t \in Y
      <3>1. t \notin Y => Y \in SUBSET Stored OBVIOUS
      <3> QED BY <3>1 DEF Unknotted
    <2> SUFFICES ASSUME NEW X \in SUBSET Task, Deps[t] \subseteq X, Closed(X), t \notin X
                 PROVE  FALSE
      BY DEF Reaches
    <2>2. X \cap Y \in SUBSET Stored OBVIOUS
    <2>3. X \cap Y # {} BY <2>1 DEF Knot
    <2>4. ASSUME NEW u \in X \cap Y PROVE Deps[u] \cap (X \cap Y) # {}
      <3>1. Deps[u] \subseteq X BY <2>2, <2>4 DEF Closed
      <3>2. Deps[u] \cap Y # {} BY <2>4 DEF Knot
      <3> QED BY <3>1, <3>2
    <2>5. Knot(X \cap Y) BY <2>3, <2>4 DEF Knot
    <2> QED BY <2>2, <2>5 DEF Unknotted
  <1> QED BY <1>1, <1>2, <1>3

\* What was never enqueued is nowhere.  With parents first, what was waits for such tasks only,
\* and is free of knots, saved or not.
Enqueued == {t \in Task : issued[t] # 0}
Unknown == \A t \in Task \ Enqueued : caller[t] = "idle" /\ Nowhere(t)
FamilyTree == Unknotted(Enqueued) /\ \A t \in Enqueued : Deps[t] \subseteq Enqueued

\* A task is heard of from its first call of enqueue on.
LEMMA UnknownStep ==
  ASSUME TypeOK, Unknown, [Next]_vars
  PROVE  Unknown'
  <1> SUFFICES ASSUME NEW t \in Task, issued'[t] = 0
               PROVE  caller'[t] = "idle" /\ Nowhere(t)'
    BY DEF Unknown, Enqueued
  <1>1. issued[t] = 0 BY CallerStep DEF TypeOK
  <1>2. caller[t] = "idle" /\ Nowhere(t) BY <1>1 DEF Unknown, Enqueued
  <1>3. ~SaveNew(t) BY <1>2 DEF SaveNew
  <1>4. issued[t] + 1 # 0 BY <1>1
  <1> QED BY <1>2, <1>3, <1>4, CallerStep, NowhereStep

\* What is enqueued waits for what was enqueued before.
LEMMA FamilyTreeStep ==
  ASSUME ParentsFirst, TypeOK, Unknown, FamilyTree, [Next]_vars
  PROVE  FamilyTree'
  <1>1. CASE \A t \in Task : issued'[t] = issued[t]
    <2>1. Enqueued' = Enqueued BY <1>1 DEF Enqueued
    <2> QED BY <2>1 DEF FamilyTree, Unknotted, Knot
  <1>2. CASE \E t \in Task : issued'[t] # issued[t]
    <2> PICK t \in Task : issued'[t] # issued[t] BY <1>2
    <2>1. ClaimHash(t) BY CallerStep
    <2>2. Enqueued' = Enqueued \cup {t} BY <2>1 DEF TypeOK, ClaimHash, Enqueued
    <2>3. \A p \in Deps[t] : p \in Enqueued
      <3>1. \A p \in Deps[t] : p \in Task /\ (p \in Stored \/ outcome[p] # "none")
        BY <2>1 DEF ClaimHash
      <3> QED BY <3>1 DEF Unknown, Nowhere, Stored
    <2>4. CASE t \in Enqueued
      <3>1. Enqueued' = Enqueued BY <2>2, <2>4
      <3> QED BY <3>1 DEF FamilyTree, Unknotted, Knot
    <2>5. CASE t \notin Enqueued
      <3>1. \A u \in Enqueued' : Deps[u] \subseteq Enqueued BY <2>2, <2>3 DEF FamilyTree
      <3>2. ASSUME NEW X \in SUBSET Enqueued', Knot(X) PROVE FALSE
        <4> DEFINE Y == X \ {t}
        <4>1. Y \in SUBSET Enqueued BY <2>2
        <4>2. \A u \in X : Deps[u] \cap Y # {} BY <2>5, <3>1, <3>2 DEF Knot
        <4>3. Knot(Y) BY <3>2, <4>2 DEF Knot
        <4> QED BY <4>1, <4>3 DEF FamilyTree, Unknotted
      <3>3. \A u \in Enqueued' : Deps[u] \subseteq Enqueued' BY <2>2, <3>1
      <3> QED BY <3>2, <3>3 DEF FamilyTree, Unknotted, Knot
    <2> QED BY <2>4, <2>5
  <1> QED BY <1>1, <1>2

\* If clients enqueue a task after the tasks it waits for, stored tasks never wait for each other
\* in a circle, however many enqueue at once and whatever is lost: the gap between the test and
\* the save does no harm, and the test refuses nobody (queue.rs:210-226, file_store.rs:148-170).
THEOREM NeverInACircle ==
  ASSUME ParentsFirst
  PROVE  Spec => [](Unknotted(Stored) /\ \A t \in Task : caller[t] = "cycle" => ~Cyclic(t))
  <1> DEFINE Free == Unknotted(Stored) /\ \A t \in Task : caller[t] = "cycle" => ~Cyclic(t)
  <1>1. Init => Unknown /\ FamilyTree
    BY DEF Init, NoDoubt, Unknown, Nowhere, FamilyTree, Enqueued, Unknotted, Knot, Carried, Read, Started,
           Holding, Busy
  <1>2. TypeOK /\ Unknown /\ FamilyTree /\ [Next]_vars => Unknown' /\ FamilyTree'
    BY UnknownStep, FamilyTreeStep
  <1>3. Unknown /\ FamilyTree => Free
    <2> SUFFICES ASSUME Unknown, FamilyTree PROVE Free OBVIOUS
    <2>1. Stored \subseteq Enqueued BY DEF Unknown, Nowhere, Stored
    <2>2. \A S \in SUBSET Enqueued : Unknotted(S) BY DEF FamilyTree, Unknotted
    <2>3. Unknotted(Stored) BY <2>1, <2>2
    <2>4. ASSUME NEW t \in Task, caller[t] = "cycle" PROVE ~Cyclic(t)
      <3>1. t \in Enqueued BY <2>4 DEF Unknown
      <3>2. Unknotted(Stored \cup {t}) BY <2>1, <2>2, <3>1
      <3> QED BY <2>3, <3>2, CycleTestExact
    <2> QED BY <2>3, <2>4
  <1> QED BY <1>1, <1>2, <1>3, TypeCorrect, PTL DEF Spec
=============================================================================
