---------------------------- MODULE QueueProofs ----------------------------
(***************************************************************************)
(* Theorems about Queue for every value of its constants: every behaviour  *)
(* keeps the types, and a task is in one place at a time.                  *)
(***************************************************************************)
EXTENDS QueueProperties, TLAPS

USE DepsAssumption, HashAssumption, PoolAssumption, RetryAssumption, KindAssumption,
    SwitchAssumption, BoundAssumption, NoneAssumption

\* The pool of a task is one of the pools (queue.rs:294-304).
LEMMA PoolOfIsPool == \A t : PoolOf(t) \in Pool
  BY DEF PoolOf

\* Initially every variable has its type.
LEMMA InitTypes == Init => TypeOK
  BY DEF Init, TypeOK, NoDoubt, Record, Copy, Busy, Holding

\* A write to the log, a deletion and a rereading keep the types of the store.
StoreTypes == /\ store \in [Task -> Record \cup {None}]
              /\ doubt \in [Task -> SUBSET (Record \cup {None})]

LEMMA WriteTypes ==
  ASSUME TypeOK, NEW t \in Task, NEW r \in Record \cup {None}, Write(t, r)
  PROVE  StoreTypes'
  <1>1. StoreTypes BY DEF TypeOK, StoreTypes
  <1>2. CASE store' = [store EXCEPT ![t] = r] /\ doubt' = [doubt EXCEPT ![t] = {}]
    BY <1>1, <1>2 DEF StoreTypes
  <1>3. CASE doubt' = [doubt EXCEPT ![t] = @ \cup {r}] /\ UNCHANGED store
    BY <1>1, <1>3 DEF StoreTypes
  <1> QED BY <1>2, <1>3 DEF Write

LEMMA EraseTypes == ASSUME TypeOK, NEW t \in Task, Erase(t) PROVE StoreTypes'
  <1>1. CASE Write(t, None) BY <1>1, WriteTypes
  <1>2. CASE UNCHANGED <<store, doubt>> BY <1>2 DEF TypeOK, StoreTypes
  <1> QED BY <1>1, <1>2 DEF Erase

LEMMA RereadTypes == ASSUME TypeOK, Reread PROVE StoreTypes'
  <1>1. \A t \in Task : store[t] \in Record \cup {None} /\ doubt[t] \subseteq Record \cup {None}
    BY DEF TypeOK
  <1> DEFINE Known == {store[t] : t \in Task} \cup UNION {doubt[t] : t \in Task}
  <1>2. Known \subseteq Record \cup {None} BY <1>1
  <1>3. store' \in [Task -> Known] BY DEF Reread
  <1>4. doubt' \in [Task -> SUBSET (Record \cup {None})] BY DEF Reread, NoDoubt
  <1> QED BY <1>2, <1>3, <1>4 DEF StoreTypes

\* The steps of enqueue's callers, of the clock and of the completed-task sweeper.
LEMMA ClientTypes ==
  ASSUME TypeOK, NEW t \in Task,
         Elapse(t) \/ ClaimHash(t) \/ CheckCycle(t) \/ SaveNew(t) \/ RegisterHandler(t) \/ Evict(t)
  PROVE  TypeOK'
  <1>1. CASE Elapse(t)
    <2>1. store[t] \in Record BY <1>1 DEF TypeOK, Elapse, Stored
    <2>2. [store[t] EXCEPT !.due = TRUE] \in Record BY <2>1 DEF Record
    <2>3. store' \in [Task -> Record \cup {None}] BY <1>1, <2>2 DEF TypeOK, Elapse
    <2> QED BY <1>1, <2>3 DEF TypeOK, Elapse, Busy, Holding, sets, dispatchers, workers, sweeps,
                clients, history, environment
  <1>2. CASE ClaimHash(t)
    BY <1>2 DEF TypeOK, ClaimHash, Busy, Holding, dispatchers, workers, sweeps, history, environment
  <1>3. CASE CheckCycle(t)
    BY <1>3 DEF TypeOK, CheckCycle, Busy, Holding, sets, dispatchers, workers, sweeps, history,
                environment
  <1>4. CASE SaveNew(t)
    <2>1. \A due \in BOOLEAN : [rc |-> 0, due |-> due] \in Record BY DEF Record
    <2>2. StoreTypes'
      <3> PICK due \in BOOLEAN : Write(t, [rc |-> 0, due |-> due]) BY <1>4 DEF SaveNew, Write
      <3> QED BY <2>1, WriteTypes
    <2>3. attempts' \in [Task -> Nat] /\ outcome' \in [Task -> {"none", "ok", "dead", "blocked"}]
      <3>1. /\ attempts \in [Task -> Nat]
            /\ outcome \in [Task -> {"none", "ok", "dead", "blocked"}]
        BY DEF TypeOK
      <3>2. CASE attempts' = [attempts EXCEPT ![t] = 0] /\ outcome' = [outcome EXCEPT ![t] = "none"]
        BY <3>1, <3>2
      <3>3. CASE UNCHANGED history BY <3>1, <3>3 DEF history
      <3> QED BY <1>4, <3>2, <3>3 DEF SaveNew, history
    <2> QED BY <1>4, <2>2, <2>3 DEF TypeOK, StoreTypes, SaveNew, Busy, Holding, sets, dispatchers,
                workers, sweeps
  <1>5. CASE RegisterHandler(t)
    BY <1>5 DEF TypeOK, RegisterHandler, Busy, Holding, sets, dispatchers, workers, sweeps, clients,
                history
  <1>6. CASE Evict(t)
    BY <1>6 DEF TypeOK, Evict, Busy, Holding, dispatchers, workers, sweeps, clients, history,
                environment
  <1> QED BY <1>1, <1>2, <1>3, <1>4, <1>5, <1>6

\* The steps of a process_due_tasks call.
LEMMA SweepTypes ==
  ASSUME TypeOK, NEW s \in Sweep, SweepStep(s)
  PROVE  TypeOK'
  <1>1. CASE PollRead(s)
    <2>1. \A t \in Stored : [id |-> t, rc |-> store[t].rc] \in Copy
      BY DEF TypeOK, Stored, Record, Copy
    <2> QED BY <1>1, <2>1 DEF TypeOK, PollRead, Busy, Holding, sets, dispatchers, workers, clients,
                history, environment
  <1>2. CASE PollLock(s)
    BY <1>2 DEF TypeOK, PollLock, Busy, Holding, sets, dispatchers, workers, clients, history,
                environment
  <1>3. CASE \E c \in snap[s] : PollTask(s, c)
    <2> PICK c \in snap[s] : PollTask(s, c) BY <1>3
    <2>1. c \in Copy /\ c.id \in Task BY DEF TypeOK, Copy
    <2>2. pq' \in [Pool -> SUBSET Copy] /\ queued' \subseteq Task
      BY <2>1, PoolOfIsPool DEF TypeOK, PollTask
    <2>3. pools' \in [Sweep -> SUBSET Pool] /\ snap' \in [Sweep -> SUBSET Copy]
      BY <2>1, PoolOfIsPool DEF TypeOK, PollTask
    <2> QED BY <2>2, <2>3 DEF TypeOK, PollTask, Busy, Holding, dispatchers, workers, clients,
                history, environment
  <1>4. CASE PollUnlock(s)
    BY <1>4 DEF TypeOK, PollUnlock, Busy, Holding, sets, dispatchers, workers, clients, history,
                environment
  <1>5. CASE \E p \in Pool : PollDispatch(s, p)
    <2> PICK p \in Pool : PollDispatch(s, p) BY <1>5
    <2>1. counts' \in [Pool -> Int]
      <3>1. CASE RoomForDispatcher(p) BY <3>1 DEF TypeOK, PollDispatch
      <3>2. CASE ~RoomForDispatcher(p) BY <3>2 DEF TypeOK, PollDispatch
      <3> QED BY <3>1, <3>2
    <2>2. /\ dpool' \in [Dispatcher -> Pool]
          /\ dpc' \in [Dispatcher -> {"idle", "acquire", "pop", "limit", "unqueue", "move", "exit"}]
          /\ \A d \in Dispatcher : Holding(d)' <=> Holding(d)
      <3>1. CASE RoomForDispatcher(p)
        <4> PICK d \in Dispatcher : /\ dpc[d] = "idle"
                                    /\ dpc' = [dpc EXCEPT ![d] = "acquire"]
                                    /\ dpool' = [dpool EXCEPT ![d] = p]
          BY <3>1 DEF PollDispatch
        <4> QED BY DEF TypeOK, Holding
      <3>2. CASE ~RoomForDispatcher(p) BY <3>2 DEF TypeOK, PollDispatch, Holding
      <3> QED BY <3>1, <3>2
    <2>3. pools' \in [Sweep -> SUBSET Pool] BY DEF TypeOK, PollDispatch
    <2> QED BY <2>1, <2>2, <2>3 DEF TypeOK, PollDispatch, Busy, sets, workers, clients, history,
                environment
  <1>6. CASE PollDone(s)
    BY <1>6 DEF TypeOK, PollDone, Busy, Holding, sets, dispatchers, workers, clients, history,
                environment
  <1> QED BY <1>1, <1>2, <1>3, <1>4, <1>5, <1>6 DEF SweepStep

\* The steps of a dispatcher loop.
LEMMA DispatcherTypes ==
  ASSUME TypeOK, NEW d \in Dispatcher, DispatcherStep(d)
  PROVE  TypeOK'
  <1>1. CASE Acquire(d)
    BY <1>1 DEF TypeOK, Acquire, Busy, Holding, sets, workers, sweeps, clients, history,
                environment
  <1>2. CASE Pop(d)
    <2> PICK c \in pq[dpool[d]] : /\ pq' = [pq EXCEPT ![dpool[d]] = @ \ {c}]
                                  /\ hand' = [hand EXCEPT ![d] = c]
                                  /\ dpc' = [dpc EXCEPT ![d] = IF c.id \in Limited THEN "limit" ELSE "move"]
      BY <1>2 DEF Pop
    <2>1. c \in Copy /\ c # None BY DEF TypeOK
    <2>2. pq' \in [Pool -> SUBSET Copy] /\ hand' \in [Dispatcher -> Copy \cup {None}]
      BY <2>1 DEF TypeOK
    <2>3. dpc' \in [Dispatcher -> {"idle", "acquire", "pop", "limit", "unqueue", "move", "exit"}]
      BY DEF TypeOK
    <2>4. \A e \in Dispatcher : Holding(e)' <=> hand'[e] # None
      BY <2>1 DEF TypeOK, Holding
    <2> QED BY <1>2, <2>2, <2>3, <2>4 DEF TypeOK, Pop, Busy, sets, workers, sweeps, clients,
                history, environment
  <1>3. CASE PopEmpty(d)
    BY <1>3 DEF TypeOK, PopEmpty, Refund, Busy, Holding, sets, workers, sweeps, clients, history,
                environment
  <1>4. CASE Exit(d)
    BY <1>4 DEF TypeOK, Exit, Busy, Holding, sets, workers, sweeps, clients, history, environment
  <1>5. CASE Grant(d)
    BY <1>5 DEF TypeOK, Grant, Busy, Holding, sets, workers, sweeps, clients, history, environment
  <1>6. CASE Deny(d)
    <2>1. hand[d] \in Copy /\ hand[d].id \in Task BY <1>6 DEF TypeOK, Deny, Holding, Copy
    <2>2. [rc |-> hand[d].rc, due |-> FALSE] \in Record BY <2>1 DEF Copy, Record
    <2>3. StoreTypes' BY <1>6, <2>1, <2>2, WriteTypes DEF Deny
    <2> QED BY <1>6, <2>3 DEF TypeOK, StoreTypes, Deny, Busy, Holding, sets, workers, sweeps,
                clients, history
  <1>7. CASE Unqueue(d)
    BY <1>7 DEF TypeOK, Unqueue, LeaveQueued, Refund, Busy, Holding, workers, sweeps, clients,
                history, environment
  <1>8. CASE Move(d)
    <2>1. hand[d] \in Copy /\ hand[d].id \in Task BY <1>8 DEF TypeOK, Move, Holding, Copy
    <2>2. queued' \subseteq Task /\ executing' \subseteq Task /\ permits' \in [Pool -> Int]
      BY <1>8, <2>1 DEF TypeOK, Move, LeaveQueued, MarkExecuting, Refund
    <2>3. /\ hand' \in [Dispatcher -> Copy \cup {None}]
          /\ dpc' \in [Dispatcher -> {"idle", "acquire", "pop", "limit", "unqueue", "move", "exit"}]
          /\ \A e \in Dispatcher : Holding(e)' <=> hand'[e] # None
      BY <1>8 DEF TypeOK, Move, Holding
    <2>4. /\ copy' \in [Worker -> Copy \cup {None}]
          /\ wpc' \in [Worker -> {"idle", "check", "call", "run", "ok", "reschedule", "retry", "scan",
                                  "block", "dead", "delete", "unhash", "drop"}]
          /\ \A w \in Worker : Busy(w)' <=> copy'[w] # None
      <3>1. CASE hand[d].id \in executing BY <1>8, <3>1 DEF TypeOK, Move, Busy
      <3>2. CASE hand[d].id \notin executing
        <4> PICK w \in Worker : /\ wpc[w] = "idle"
                               /\ wpc' = [wpc EXCEPT ![w] = "check"]
                               /\ copy' = [copy EXCEPT ![w] = hand[d]]
          BY <1>8, <3>2 DEF Move
        <4> QED BY <2>1 DEF TypeOK, Busy
      <3> QED BY <3>1, <3>2
    <2> QED BY <1>8, <2>2, <2>3, <2>4 DEF TypeOK, Move, sweeps, clients, history, environment
  <1> QED BY <1>1, <1>2, <1>3, <1>4, <1>5, <1>6, <1>7, <1>8 DEF DispatcherStep

\* The steps of an execute_task call.
LEMMA WorkerTypes ==
  ASSUME TypeOK, NEW w \in Worker, WorkerStep(w) \/ Timeout(w)
  PROVE  TypeOK'
  <1>1. copy[w] \in Copy /\ copy[w].id \in Task /\ copy[w].rc \in Nat /\ w \in Worker
    <2>1. Busy(w)
      BY DEF WorkerStep, Timeout, Check, Call, Return, Reschedule, Retry, Scan, BlockChild,
             DeadLetter, Complete, Delete, Unhash, Drop, Busy
    <2> QED BY <2>1 DEF TypeOK, Copy
  <1>2. CASE Check(w)
    <2>1. CASE SkipCompleted(copy[w].id)
      <3>1. permits' \in [Pool -> Int] BY <1>2, <2>1, PoolOfIsPool DEF TypeOK, Check, Leave, Refund
      <3>2. copy' = [copy EXCEPT ![w] = None] /\ wpc' = [wpc EXCEPT ![w] = "idle"]
        BY <1>2, <2>1 DEF Check, Leave, Goto
      <3> QED BY <1>2, <3>1, <3>2 DEF TypeOK, Check, Busy, Holding, sets, sweeps, clients, history,
                  environment
    <2>2. CASE ~SkipCompleted(copy[w].id)
      BY <1>1, <1>2, <2>2 DEF TypeOK, Check, Goto, Busy, Holding, sets, sweeps, clients, history,
                  environment
    <2> QED BY <2>1, <2>2
  <1>3. CASE Call(w)
    <2>1. attempts' \in [Task -> Nat]
      <3>1. attempts \in [Task -> Nat] BY DEF TypeOK
      <3>2. CASE attempts' = [attempts EXCEPT ![copy[w].id] = IF @ < AttemptCap THEN @ + 1 ELSE @]
        BY <1>1, <3>1, <3>2
      <3>3. CASE UNCHANGED attempts BY <3>1, <3>3
      <3> QED BY <1>3, <3>2, <3>3 DEF Call
    <2>2. /\ wpc' = [wpc EXCEPT ![w] = "run"] \/ wpc' = [wpc EXCEPT ![w] = "drop"]
          /\ wpc[w] = "call" /\ UNCHANGED copy
      BY <1>3 DEF Call, Goto
    <2>3. /\ wpc' \in [Worker -> {"idle", "check", "call", "run", "ok", "reschedule", "retry", "scan",
                                  "block", "dead", "delete", "unhash", "drop"}]
          /\ \A v \in Worker : Busy(v)' <=> copy'[v] # None
      <3>1. wpc \in [Worker -> {"idle", "check", "call", "run", "ok", "reschedule", "retry", "scan",
                                "block", "dead", "delete", "unhash", "drop"}]
            /\ \A v \in Worker : Busy(v) <=> copy[v] # None
        BY DEF TypeOK
      <3>2. \A v \in Worker : wpc'[v] = wpc[v] \/ (v = w /\ wpc'[v] \in {"run", "drop"})
        BY <2>2, <3>1
      <3> QED BY <2>2, <3>1, <3>2 DEF Busy
    <2> QED BY <1>3, <2>1, <2>2, <2>3 DEF TypeOK, Call, Holding, sets, dispatchers, sweeps,
                clients, environment
  <1>4. CASE Return(w)
    BY <1>1, <1>4 DEF TypeOK, Return, Goto, Busy, Holding, sets, dispatchers, sweeps, clients,
                history, environment
  <1>5. CASE Timeout(w)
    BY <1>1, <1>5 DEF TypeOK, Timeout, Goto, Busy, Holding, sets, dispatchers, sweeps, clients,
                history, environment
  <1>6. CASE Reschedule(w)
    <2>1. [rc |-> 0, due |-> FALSE] \in Record BY DEF Record
    <2>2. StoreTypes' BY <1>1, <1>6, <2>1, WriteTypes DEF Reschedule
    <2> QED BY <1>1, <1>6, <2>2 DEF TypeOK, StoreTypes, Reschedule, Goto, Busy, Holding, sets,
                dispatchers, sweeps, clients, history
  <1>7. CASE Retry(w)
    <2>1. [rc |-> NextCount(copy[w].rc), due |-> FALSE] \in Record BY <1>1 DEF Record, NextCount
    <2>2. StoreTypes' BY <1>1, <1>7, <2>1, WriteTypes DEF Retry
    <2> QED BY <1>1, <1>7, <2>2 DEF TypeOK, StoreTypes, Retry, Goto, Busy, Holding, sets,
                dispatchers, sweeps, clients, history
  <1>8. CASE Scan(w)
    BY <1>1, <1>8 DEF TypeOK, Scan, Stored, Goto, Busy, Holding, sets, dispatchers, sweeps,
                clients, history, environment
  <1>9. CASE \E t \in Task : BlockChild(w, t)
    <2> PICK t \in Task : BlockChild(w, t) BY <1>9
    <2>1. StoreTypes' BY WriteTypes DEF BlockChild
    <2> QED BY <1>1, <2>1 DEF TypeOK, StoreTypes, BlockChild, Busy, Holding, sets, dispatchers,
                sweeps, clients
  <1>10. CASE DeadLetter(w)
    BY <1>1, <1>10 DEF TypeOK, DeadLetter, Goto, Busy, Holding, sets, dispatchers, sweeps, clients,
                history, environment
  <1>11. CASE Complete(w)
    BY <1>1, <1>11 DEF TypeOK, Complete, Goto, Busy, Holding, dispatchers, sweeps, clients,
                environment
  <1>12. CASE Delete(w)
    <2>1. StoreTypes' BY <1>1, <1>12, EraseTypes DEF Delete
    <2> QED BY <1>1, <1>12, <2>1 DEF TypeOK, StoreTypes, Delete, Goto, Busy, Holding, sets,
                dispatchers, sweeps, clients, history
  <1>13. CASE Unhash(w)
    BY <1>1, <1>13 DEF TypeOK, Unhash, Goto, Busy, Holding, dispatchers, sweeps, clients, history,
                environment
  <1>14. CASE Drop(w)
    BY <1>1, <1>14, PoolOfIsPool DEF TypeOK, Drop, Leave, Goto, Refund, Busy, Holding, sweeps,
                clients, history, environment
  <1> QED BY <1>2, <1>3, <1>4, <1>5, <1>6, <1>7, <1>8, <1>9, <1>10, <1>11, <1>12, <1>13, <1>14
          DEF WorkerStep


\* A restart.
LEMMA RestartTypes == ASSUME TypeOK, Restart PROVE TypeOK'
  <1>1. StoreTypes' BY RereadTypes DEF Restart
  <1>2. claimed' \subseteq Task /\ active_hashes' \subseteq Hash
    BY DEF Restart, StoredHashes, Stored
  <1> QED BY <1>1, <1>2 DEF TypeOK, StoreTypes, Restart, Busy, Holding, history

\* A handler abandoned by a timeout ends; a compaction; nothing happens.
LEMMA OtherTypes ==
  ASSUME TypeOK, (\E c \in lingering : Linger(c)) \/ Compact \/ UNCHANGED vars
  PROVE  TypeOK'
  <1>1. CASE \E c \in lingering : Linger(c)
    BY <1>1 DEF TypeOK, Linger, Busy, Holding, sets, dispatchers, sweeps, clients, history,
                environment
  <1>2. CASE UNCHANGED vars
    BY <1>2 DEF TypeOK, vars, Busy, Holding, sets, dispatchers, workers, sweeps, clients, history,
                environment
  <1>3. CASE Compact
    <2>1. StoreTypes' BY <1>3, RereadTypes DEF Compact
    <2> QED BY <1>3, <2>1 DEF TypeOK, StoreTypes, Compact, Busy, Holding, sets, dispatchers,
                workers, sweeps, clients, history
  <1> QED BY <1>1, <1>2, <1>3

\* Every variable always has its type, for any tasks, pools and capacities.
THEOREM TypeCorrect == Spec => []TypeOK
  <1>1. TypeOK /\ [Next]_vars => TypeOK'
    BY ClientTypes, SweepTypes, DispatcherTypes, WorkerTypes, RestartTypes, OtherTypes DEF Next
  <1> QED BY <1>1, InitTypes, PTL DEF Spec

----------------------------------------------------------------------------
(* One place at a time. *)

\* Initially no task is anywhere.
LEMMA InitPlace == Init => OnePlace
  BY DEF Init, OnePlace, QueuedExact, QueuedNotExecuting, WorkersMarked, OneWorkerPerTask, Busy, Holding

\* A step that moves no copy keeps every task where it is.
LEMMA Unmoved ==
  ASSUME OnePlace,
         UNCHANGED <<queued, executing, pq, hand, copy>>,
         \A d \in Dispatcher : Holding(d)' <=> Holding(d),
         \A w \in Worker : Busy(w)' <=> Busy(w)
  PROVE  OnePlace'
  <1>1. QueuedExact' BY DEF OnePlace, QueuedExact
  <1>2. QueuedNotExecuting' BY DEF OnePlace, QueuedNotExecuting
  <1>3. WorkersMarked' BY DEF OnePlace, WorkersMarked
  <1>4. OneWorkerPerTask' BY DEF OnePlace, OneWorkerPerTask
  <1> QED BY <1>1, <1>2, <1>3, <1>4 DEF OnePlace

\* Clients, the clock, the completed-task sweeper, abandoned handlers and compactions move no
\* copy.
LEMMA ClientPlace ==
  ASSUME OnePlace,
         \/ \E t \in Task : Elapse(t) \/ ClaimHash(t) \/ CheckCycle(t) \/ SaveNew(t)
                            \/ RegisterHandler(t) \/ Evict(t)
         \/ \E c \in lingering : Linger(c)
         \/ Compact \/ UNCHANGED vars
  PROVE  OnePlace'
  <1>1. UNCHANGED <<queued, executing, pq, hand, copy, dpc, wpc>>
    BY DEF Elapse, ClaimHash, CheckCycle, SaveNew, RegisterHandler, Evict, Linger, Compact, vars,
           sets, dispatchers, workers
  <1> QED BY <1>1, Unmoved DEF Holding, Busy

\* A sweep puts a copy on a heap only if its task is nowhere; the rest moves none.
LEMMA SweepPlace ==
  ASSUME TypeOK, OnePlace, NEW s \in Sweep, SweepStep(s)
  PROVE  OnePlace'
  <1>1. CASE PollRead(s) \/ PollLock(s) \/ PollUnlock(s) \/ PollDone(s)
    <2>1. UNCHANGED <<queued, executing, pq, hand, copy, dpc, wpc>>
      BY <1>1 DEF PollRead, PollLock, PollUnlock, PollDone, sets, dispatchers, workers
    <2> QED BY <2>1, Unmoved DEF Holding, Busy
  <1>2. CASE \E p \in Pool : PollDispatch(s, p)
    <2>1. UNCHANGED <<queued, executing, pq, hand, copy, wpc>>
      BY <1>2 DEF PollDispatch, sets, workers
    <2>2. \A d \in Dispatcher : Holding(d)' <=> Holding(d)
      BY <1>2 DEF TypeOK, PollDispatch, Holding
    <2> QED BY <2>1, <2>2, Unmoved DEF Busy
  <1>3. CASE \E c \in snap[s] : PollTask(s, c)
    <2> PICK c \in snap[s] : PollTask(s, c) BY <1>3
    <2>1. UNCHANGED <<executing, hand, copy, dpc, wpc>>
      BY DEF PollTask, dispatchers, workers
    <2>2. CASE ~Eligible(c.id)
      BY <2>1, <2>2, Unmoved DEF PollTask, Holding, Busy
    <2>3. CASE Eligible(c.id)
      <3>1. /\ c.id \notin queued /\ c.id \notin executing
            /\ queued' = queued \cup {c.id}
            /\ pq' = [pq EXCEPT ![PoolOf(c.id)] = @ \cup {c}]
        BY <2>3 DEF PollTask, Eligible
      <3>2. /\ PoolOf(c.id) \in Pool
            /\ pq'[PoolOf(c.id)] = pq[PoolOf(c.id)] \cup {c}
            /\ \A p \in Pool : p # PoolOf(c.id) => pq'[p] = pq[p]
        BY <3>1, PoolOfIsPool DEF TypeOK
      <3>3. QueuedExact'
        <4>1. /\ \A p \in Pool : \A b \in pq'[p] : b.id \in queued'
              /\ (\A d \in Dispatcher : Holding(d)' => hand'[d].id \in queued')
          BY <2>1, <3>1, <3>2 DEF OnePlace, QueuedExact, Holding
        <4>2. \A t \in queued' : \/ \E p \in Pool : \E b \in pq'[p] : b.id = t
                                 \/ \E d \in Dispatcher : Holding(d)' /\ hand'[d].id = t
          <5> SUFFICES ASSUME NEW t \in queued'
                       PROVE  \/ \E p \in Pool : \E b \in pq'[p] : b.id = t
                              \/ \E d \in Dispatcher : Holding(d)' /\ hand'[d].id = t
            OBVIOUS
          <5>1. CASE t = c.id
            <6>1. c \in pq'[PoolOf(c.id)] BY <3>2
            <6> QED BY <5>1, <6>1, <3>2
          <5>2. CASE t \in queued
            <6>1. \A p \in Pool : \A b \in pq[p] : b \in pq'[p] BY <3>2
            <6>2. \A d \in Dispatcher : Holding(d) => Holding(d)' /\ hand'[d] = hand[d]
              BY <2>1 DEF Holding
            <6>3. \/ \E p \in Pool : \E b \in pq[p] : b.id = t
                  \/ \E d \in Dispatcher : Holding(d) /\ hand[d].id = t
              BY <5>2 DEF OnePlace, QueuedExact
            <6> QED BY <6>1, <6>2, <6>3
          <5> QED BY <3>1, <5>1, <5>2
        <4>3. \A p, q \in Pool : \A b \in pq'[p], e \in pq'[q] : b.id = e.id => b = e /\ p = q
          <5>1. \A p \in Pool : \A b \in pq[p] : b.id # c.id BY <3>1 DEF OnePlace, QueuedExact
          <5>2. \A p, q \in Pool : \A b \in pq[p], e \in pq[q] : b.id = e.id => b = e /\ p = q
            BY DEF OnePlace, QueuedExact
          <5>3. \A p \in Pool : \A b \in pq'[p] : b \in pq[p] \/ (b = c /\ p = PoolOf(c.id))
            BY <3>2
          <5> QED BY <5>1, <5>2, <5>3
        <4>4. \A d \in Dispatcher : Holding(d)' => \A p \in Pool : \A b \in pq'[p] : b.id # hand'[d].id
          BY <2>1, <3>1, <3>2 DEF OnePlace, QueuedExact, Holding
        <4>5. \A d, e \in Dispatcher : Holding(d)' /\ Holding(e)' /\ hand'[d].id = hand'[e].id => d = e
          BY <2>1 DEF OnePlace, QueuedExact, Holding
        <4> QED BY <4>1, <4>2, <4>3, <4>4, <4>5 DEF QueuedExact
      <3>4. QueuedNotExecuting' /\ WorkersMarked' /\ OneWorkerPerTask'
        BY <2>1, <3>1 DEF OnePlace, QueuedNotExecuting, WorkersMarked, OneWorkerPerTask, Busy
      <3> QED BY <3>3, <3>4 DEF OnePlace
    <2> QED BY <2>2, <2>3
  <1> QED BY <1>1, <1>2, <1>3 DEF SweepStep

\* A dispatcher takes a copy off a heap, and gives it back to nobody or to a new worker.
LEMMA DispatcherPlace ==
  ASSUME TypeOK, OnePlace, NEW d \in Dispatcher, DispatcherStep(d)
  PROVE  OnePlace'
  <1>1. CASE Acquire(d) \/ PopEmpty(d) \/ Exit(d) \/ Grant(d) \/ Deny(d)
    <2>1. UNCHANGED <<queued, executing, pq, hand, copy, wpc>>
      BY <1>1 DEF Acquire, PopEmpty, Exit, Grant, Deny, sets, workers
    <2>2. \A e \in Dispatcher : Holding(e)' <=> Holding(e)
      BY <1>1 DEF TypeOK, Acquire, PopEmpty, Exit, Grant, Deny, Holding
    <2> QED BY <2>1, <2>2, Unmoved DEF Busy
  <1>2. CASE Pop(d)
    <2> PICK c \in pq[dpool[d]] : /\ pq' = [pq EXCEPT ![dpool[d]] = @ \ {c}]
                                  /\ hand' = [hand EXCEPT ![d] = c]
                                  /\ dpc' = [dpc EXCEPT ![d] = IF c.id \in Limited THEN "limit" ELSE "move"]
      BY <1>2 DEF Pop
    <2>1. UNCHANGED <<queued, executing, copy, wpc>> /\ dpc[d] = "pop"
      BY <1>2 DEF Pop, sets, workers
    <2>2. \A p \in Pool : pq'[p] = (IF p = dpool[d] THEN pq[p] \ {c} ELSE pq[p]) /\ c \notin pq'[dpool[d]]
      BY DEF TypeOK
    <2>3. \A e \in Dispatcher : /\ hand'[e] = IF e = d THEN c ELSE hand[e]
                                /\ Holding(e)' <=> (e = d \/ Holding(e))
      BY <2>1 DEF TypeOK, Holding
    <2>4. ~Holding(d) /\ dpool[d] \in Pool BY <2>1 DEF TypeOK, Holding
    <2>5. QueuedExact'
      <3>1. /\ \A p \in Pool : \A b \in pq'[p] : b.id \in queued'
            /\ (\A e \in Dispatcher : Holding(e)' => hand'[e].id \in queued')
        BY <2>1, <2>2, <2>3, <2>4 DEF OnePlace, QueuedExact
      <3>2. \A t \in queued' : \/ \E p \in Pool : \E b \in pq'[p] : b.id = t
                               \/ \E e \in Dispatcher : Holding(e)' /\ hand'[e].id = t
        <4> SUFFICES ASSUME NEW t \in queued'
                     PROVE  \/ \E p \in Pool : \E b \in pq'[p] : b.id = t
                            \/ \E e \in Dispatcher : Holding(e)' /\ hand'[e].id = t
          OBVIOUS
        <4>1. CASE t = c.id BY <4>1, <2>3
        <4>2. CASE t # c.id
          <5>1. \A p \in Pool : \A b \in pq[p] : b.id = t => b \in pq'[p]
            BY <4>2, <2>2
          <5>2. \A e \in Dispatcher : Holding(e) => e # d /\ Holding(e)' /\ hand'[e] = hand[e]
            BY <2>3, <2>4
          <5> QED BY <2>1, <5>1, <5>2 DEF OnePlace, QueuedExact
        <4> QED BY <4>1, <4>2
      <3>3. \A p, q \in Pool : \A b \in pq'[p], e \in pq'[q] : b.id = e.id => b = e /\ p = q
        BY <2>2 DEF OnePlace, QueuedExact
      <3>4. \A e \in Dispatcher : Holding(e)' => \A p \in Pool : \A b \in pq'[p] : b.id # hand'[e].id
        <4>1. \A p \in Pool : \A b \in pq'[p] : b.id # c.id
          <5>1. \A p \in Pool : \A b \in pq[p] : b.id = c.id => b = c /\ p = dpool[d]
            BY <2>4 DEF OnePlace, QueuedExact
          <5>2. \A p \in Pool : pq'[p] \subseteq pq[p] BY <2>2
          <5>3. c \notin pq'[dpool[d]] BY <2>2, <2>4
          <5> QED BY <5>1, <5>2, <5>3
        <4>2. \A e \in Dispatcher : Holding(e) => \A p \in Pool : \A b \in pq'[p] : b.id # hand[e].id
          <5>1. \A p \in Pool : pq'[p] \subseteq pq[p] BY <2>2
          <5> QED BY <5>1 DEF OnePlace, QueuedExact
        <4> QED BY <4>1, <4>2, <2>3
      <3>5. \A e, f \in Dispatcher : Holding(e)' /\ Holding(f)' /\ hand'[e].id = hand'[f].id => e = f
        BY <2>3, <2>4 DEF OnePlace, QueuedExact
      <3> QED BY <3>1, <3>2, <3>3, <3>4, <3>5 DEF QueuedExact
    <2>6. QueuedNotExecuting' /\ WorkersMarked' /\ OneWorkerPerTask'
      BY <2>1 DEF OnePlace, QueuedNotExecuting, WorkersMarked, OneWorkerPerTask, Busy
    <2> QED BY <2>5, <2>6 DEF OnePlace
  <1>3. ASSUME Unqueue(d) \/ Move(d) PROVE QueuedExact'
    <2>1. /\ Holding(d) /\ UNCHANGED pq
          /\ queued' = queued \ {hand[d].id}
          /\ hand' = [hand EXCEPT ![d] = None]
          /\ dpc' = [dpc EXCEPT ![d] = "acquire"]
      BY <1>3 DEF Unqueue, Move, LeaveQueued, Holding
    <2>2. \A e \in Dispatcher : /\ e # d => hand'[e] = hand[e]
                                /\ Holding(e)' <=> (e # d /\ Holding(e))
      BY <2>1 DEF TypeOK, Holding
    <2> QED BY <2>1, <2>2 DEF OnePlace, QueuedExact
  <1>4. CASE Unqueue(d)
    <2>1. UNCHANGED <<executing, copy, wpc>> /\ queued' \subseteq queued
      BY <1>4 DEF Unqueue, LeaveQueued, workers
    <2>2. QueuedNotExecuting' /\ WorkersMarked' /\ OneWorkerPerTask'
      BY <2>1 DEF OnePlace, QueuedNotExecuting, WorkersMarked, OneWorkerPerTask, Busy
    <2> QED BY <1>3, <1>4, <2>2 DEF OnePlace
  <1>5. CASE Move(d)
    <2>1. Holding(d) /\ hand[d] # None /\ hand[d].id \in queued /\ hand[d].id \notin executing
      BY <1>5 DEF TypeOK, Move, Holding, OnePlace, QueuedExact, QueuedNotExecuting
    <2>2. /\ queued' = queued \ {hand[d].id}
          /\ executing' = executing \cup {hand[d].id}
      BY <1>5, <2>1 DEF Move, LeaveQueued, MarkExecuting
    <2>3. PICK w \in Worker : /\ wpc[w] = "idle"
                              /\ wpc' = [wpc EXCEPT ![w] = "check"]
                              /\ copy' = [copy EXCEPT ![w] = hand[d]]
      BY <1>5, <2>1 DEF Move
    <2>4. \A v \in Worker : /\ Busy(v)' <=> (v = w \/ Busy(v))
                            /\ copy'[v] = IF v = w THEN hand[d] ELSE copy[v]
      BY <2>3 DEF TypeOK, Busy
    <2>5. QueuedNotExecuting' BY <2>2 DEF OnePlace, QueuedNotExecuting
    <2>6. WorkersMarked' BY <2>2, <2>4 DEF OnePlace, WorkersMarked
    <2>7. OneWorkerPerTask'
      <3>1. \A v \in Worker : v # w /\ Busy(v) => copy[v].id # hand[d].id
        BY <2>1 DEF OnePlace, WorkersMarked
      <3> QED BY <2>4, <3>1 DEF OnePlace, OneWorkerPerTask
    <2> QED BY <1>3, <1>5, <2>5, <2>6, <2>7 DEF OnePlace
  <1> QED BY <1>1, <1>2, <1>4, <1>5 DEF DispatcherStep

\* A worker moves its copy only by ending.
LEMMA WorkerPlace ==
  ASSUME TypeOK, OnePlace, NEW w \in Worker, WorkerStep(w) \/ Timeout(w)
  PROVE  OnePlace'
  <1>1. CASE \/ Call(w) \/ Return(w) \/ Timeout(w) \/ Reschedule(w) \/ Retry(w) \/ Scan(w)
             \/ (\E t \in Task : BlockChild(w, t)) \/ DeadLetter(w) \/ Complete(w) \/ Delete(w)
             \/ Unhash(w)
    <2>1. UNCHANGED <<queued, executing, pq, hand, copy, dpc>>
      BY <1>1 DEF Call, Return, Timeout, Reschedule, Retry, Scan, BlockChild, DeadLetter, Complete,
                  Delete, Unhash, sets, dispatchers
    <2>2. \A v \in Worker : Busy(v)' <=> Busy(v)
      BY <1>1 DEF TypeOK, Busy, Call, Return, Timeout, Reschedule, Retry, Scan, BlockChild,
                  DeadLetter, Complete, Delete, Unhash, Goto
    <2> QED BY <2>1, <2>2, Unmoved DEF Holding
  <1>2. CASE Check(w) /\ ~SkipCompleted(copy[w].id)
    <2>1. UNCHANGED <<queued, executing, pq, hand, copy, dpc>> /\ \A v \in Worker : Busy(v)' <=> Busy(v)
      BY <1>2 DEF TypeOK, Check, Goto, Busy, sets
    <2> QED BY <2>1, Unmoved DEF Holding
  <1>3. CASE (Check(w) /\ SkipCompleted(copy[w].id)) \/ Drop(w)
    <2>1. /\ UNCHANGED <<queued, pq, hand, dpc>>
          /\ executing' = executing \/ executing' = executing \ {copy[w].id}
          /\ copy' = [copy EXCEPT ![w] = None] /\ wpc' = [wpc EXCEPT ![w] = "idle"]
          /\ Busy(w)
      BY <1>3 DEF Check, Drop, Leave, Goto, Busy, sets
    <2>2. \A v \in Worker : Busy(v)' => v # w /\ Busy(v) /\ copy'[v] = copy[v]
      BY <2>1 DEF TypeOK, Busy
    <2>3. QueuedExact' BY <2>1 DEF OnePlace, QueuedExact, Holding
    <2>4. QueuedNotExecuting' BY <2>1 DEF OnePlace, QueuedNotExecuting
    <2>5. WorkersMarked' BY <2>1, <2>2 DEF OnePlace, WorkersMarked, OneWorkerPerTask
    <2>6. OneWorkerPerTask' BY <2>2 DEF OnePlace, OneWorkerPerTask
    <2> QED BY <2>3, <2>4, <2>5, <2>6 DEF OnePlace
  <1> QED BY <1>1, <1>2, <1>3 DEF WorkerStep

\* After a restart no task is anywhere.
LEMMA RestartPlace == Restart => OnePlace'
  BY DEF Restart, OnePlace, QueuedExact, QueuedNotExecuting, WorkersMarked, OneWorkerPerTask, Busy, Holding

\* For any tasks, pools, dispatchers and workers, under failing writes, evictions,
\* repeated enqueues and restarts: a task is queued once or executed once, never both.
THEOREM TaskInOnePlace == Spec => []OnePlace
  <1>1. TypeOK /\ OnePlace /\ [Next]_vars => OnePlace'
    BY ClientPlace, SweepPlace, DispatcherPlace, WorkerPlace, RestartPlace DEF Next
  <1> QED BY <1>1, InitPlace, TypeCorrect, PTL DEF Spec

\* No task is executed by two calls of execute_task at once.
THEOREM NeverTwoWorkers == Spec => []OneWorkerPerTask
  <1>1. OnePlace => OneWorkerPerTask BY DEF OnePlace
  <1> QED BY <1>1, TaskInOnePlace, PTL

\* queued_tasks names exactly the copies on a heap or in a dispatcher's hands, and there is one
\* for each id in it (queue.rs:277-306, 346-391).
THEOREM QueuedIsExact == Spec => []QueuedExact
  <1>1. OnePlace => QueuedExact BY DEF OnePlace
  <1> QED BY <1>1, TaskInOnePlace, PTL

\* No task waits for a worker while one may be executing it: the test of line 379 never fires.
THEOREM QueuedIsNotExecuting == Spec => []QueuedNotExecuting
  <1>1. OnePlace => QueuedNotExecuting BY DEF OnePlace
  <1> QED BY <1>1, TaskInOnePlace, PTL

\* Every call of execute_task has its id in executing_tasks from before its start to its end
\* (queue.rs:383, 415).
THEOREM EveryWorkerMarked == Spec => []WorkersMarked
  <1>1. OnePlace => WorkersMarked BY DEF OnePlace
  <1> QED BY <1>1, TaskInOnePlace, PTL
=============================================================================
