------------------------------- MODULE Queue -------------------------------
(***************************************************************************)
(* One SnerdQueue (src/queue.rs): the callers of enqueue, the polling loop *)
(* process_due_tasks, the priority dispatchers it spawns and the tokio     *)
(* tasks that run execute_task, interleaved at the granularity of the      *)
(* mutexes, semaphores and awaits of the code.                             *)
(*                                                                         *)
(* Time is abstract: a record is due or not (execute_at and                *)
(* retry_after_time against the clock), and Elapse lets it become due.     *)
(* The task log and its cache are the map of TaskStore: `store`, and in    *)
(* `doubt` what writes that failed may yet make of it; the FileStore       *)
(* module is about the log.  A task's type has one handler, so handlers    *)
(* are registered per task.                                                *)
(***************************************************************************)
EXTENDS Integers, FiniteSets

CONSTANTS
  Task,          \* task ids
  Pool,          \* the worker pools of this queue
  Default,       \* the pool "default", which new_with_pools always adds
  Dispatcher,    \* slots for spawned dispatcher loops
  Sweep,         \* callers of process_due_tasks
  Worker,        \* slots for spawned execute_task calls
  Hash,          \* payload hashes
  None,          \* no record, no copy
  Deps,          \* Deps[t]: its trigger_after_ids
  PayloadHash,   \* PayloadHash[t]: {} or {its payload_hash}
  PoolName,      \* PoolName[t]: the pool it asks for, "default" if it asks for none
  Urgency,       \* Urgency[t]: its urgency_score
  MaxRetries,    \* MaxRetries[t]: its max_retries
  Capacity,      \* Capacity[p]: the permits of pool p
  Cron,          \* tasks with a valid cron_expression
  Limited,       \* tasks with a rate_limit_group and a max_per_minute
  Timed,         \* tasks with a local handler and max_execution_seconds
  Webhook,       \* tasks with a webhook_url: they need no handler
  Registered,    \* tasks whose handler is registered before the first poll
  WritesFail,    \* may a write to the task log fail?
  TTLExpires,    \* does the sweeper of completed_tasks run?
  ParentsFirst,  \* do clients enqueue a task once the tasks it waits for are saved?
  MaxCalls,      \* bound: calls of enqueue for one task id
  MaxCrashes,    \* bound: restarts of the process
  AttemptCap     \* bound: handler runs of a task that `attempts` can count

ASSUME DepsAssumption == Deps \in [Task -> SUBSET Task]
ASSUME HashAssumption ==
  /\ PayloadHash \in [Task -> SUBSET Hash]
  /\ \A t \in Task : \A g, h \in PayloadHash[t] : g = h
ASSUME PoolAssumption == Default \in Pool /\ Capacity \in [Pool -> Nat]
ASSUME UrgencyAssumption == Urgency \in [Task -> Int]
ASSUME RetryAssumption == MaxRetries \in [Task -> Nat]
ASSUME KindAssumption ==
  Cron \subseteq Task /\ Limited \subseteq Task /\ Timed \subseteq Task \ Webhook
  /\ Registered \subseteq Task
ASSUME SwitchAssumption == {WritesFail, TTLExpires, ParentsFirst} \subseteq BOOLEAN
ASSUME BoundAssumption == MaxCalls \in Nat /\ MaxCrashes \in Nat /\ AttemptCap \in Nat

Record == [rc : Nat, due : BOOLEAN]    \* what the store keeps: retry_count, is it due
Copy == [id : Task, rc : Nat]          \* a clone of a record travelling through the engine

ASSUME NoneAssumption == None \notin Record /\ None \notin Copy

VARIABLES
  store,          \* file_store: the live record of each task, or None
  active_hashes, queued, executing, completed,    \* the four sets of SnerdQueue
  pq, permits, counts,    \* shared_pqs, worker_pools, dispatcher_counts
  dpc, dpool, hand,       \* dispatcher loops: where, for which pool, holding which copy
  wpc, copy, kids,        \* execute_task calls: where, on which copy, children left to fail
  polling, snap, pools,   \* process_due_tasks calls: where, tasks left, pools_to_dispatch
  caller,                 \* enqueue calls in flight: where, for each task
  handlers,               \* tasks whose handler is registered
  lingering,              \* copies whose handler was abandoned by a timeout and still runs
  issued, crashes,        \* enqueue calls and restarts so far
  doubt,          \* what failed writes of each task have left in the log, perhaps
  attempts, outcome,      \* history: handler runs, and how the task ended
  claimed         \* history: tasks that passed the test of active_hashes, since the restart

sets == <<active_hashes, queued, executing, completed>>
dispatchers == <<permits, counts, dpc, dpool, hand>>
workers == <<wpc, copy, kids, lingering>>
sweeps == <<polling, snap, pools>>
clients == <<caller, issued, claimed>>
history == <<attempts, outcome>>
environment == <<handlers, crashes, doubt>>
vars == <<store, sets, pq, dispatchers, workers, sweeps, clients, history, environment>>

----------------------------------------------------------------------------
(* The task store, as its callers see it. *)

Stored == {t \in Task : store[t] # None}

\* save_task.  The append or its sync may fail: the cache is as before, and the line may or
\* may not be in the log.
Write(t, r) ==
  \/ store' = [store EXCEPT ![t] = r] /\ doubt' = [doubt EXCEPT ![t] = {}]
  \/ WritesFail /\ doubt' = [doubt EXCEPT ![t] = @ \cup {r}] /\ UNCHANGED store

\* delete_task: a tombstone for what is in the cache.
Erase(t) ==
  \/ t \in Stored /\ Write(t, None)
  \/ t \notin Stored /\ UNCHANGED <<store, doubt>>

\* The log is read again: each failed write turns out to be in it, or not.
NoDoubt == [t \in Task |-> {}]
Reread ==
  /\ \E read \in [Task -> {store[t] : t \in Task} \cup UNION {doubt[t] : t \in Task}] :
       (\A t \in Task : read[t] \in {store[t]} \cup doubt[t]) /\ store' = read
  /\ doubt' = NoDoubt

\* A compaction, spawned by an earlier save, loads the cache from the log.
Compact ==
  /\ Reread
  /\ UNCHANGED <<sets, pq, dispatchers, workers, sweeps, clients, history, handlers, crashes>>

\* detect_cycle: t is among its own parents, or theirs, as far as the store knows.
Cyclic(t) ==
  \A X \in SUBSET Task :
    (Deps[t] \subseteq X /\ \A u \in X \cap Stored : Deps[u] \subseteq X) => t \in X

Elapse(t) ==
  /\ t \in Stored /\ ~store[t].due
  /\ store' = [store EXCEPT ![t].due = TRUE]
  /\ UNCHANGED <<sets, pq, dispatchers, workers, sweeps, clients, history, environment>>

----------------------------------------------------------------------------
(* enqueue *)

\* The hash is tested and inserted under the lock of active_hashes.
ClaimHash(t) ==
  /\ caller[t] = "idle" /\ issued[t] < MaxCalls
  /\ ParentsFirst => \A p \in Deps[t] : p \in Stored \/ outcome[p] # "none"
  /\ issued' = [issued EXCEPT ![t] = @ + 1]
  /\ \/ PayloadHash[t] \cap active_hashes # {} /\ UNCHANGED <<active_hashes, caller, claimed>>
     \/ /\ PayloadHash[t] \cap active_hashes = {}
        /\ active_hashes' = active_hashes \cup PayloadHash[t]
        /\ claimed' = claimed \cup {t}
        /\ caller' = [caller EXCEPT ![t] = "cycle"]
  /\ UNCHANGED <<store, queued, executing, completed, pq, dispatchers, workers, sweeps,
                 history, environment>>

CheckCycle(t) ==
  /\ caller[t] = "cycle"
  /\ caller' = [caller EXCEPT ![t] = IF Deps[t] # {} /\ Cyclic(t) THEN "idle" ELSE "save"]
  /\ UNCHANGED <<store, sets, pq, dispatchers, workers, sweeps, issued, claimed, history,
                 environment>>

SaveNew(t) ==
  /\ caller[t] = "save"
  /\ caller' = [caller EXCEPT ![t] = "idle"]
  /\ \E due \in BOOLEAN :
       LET new == [rc |-> 0, due |-> due]
       IN  \/ /\ store' = [store EXCEPT ![t] = new] /\ doubt' = [doubt EXCEPT ![t] = {}]
              /\ attempts' = [attempts EXCEPT ![t] = 0]
              /\ outcome' = [outcome EXCEPT ![t] = "none"]
           \/ /\ WritesFail
              /\ doubt' = [doubt EXCEPT ![t] = @ \cup {new}] /\ UNCHANGED <<store, history>>
  /\ UNCHANGED <<sets, pq, dispatchers, workers, sweeps, issued, claimed, handlers, crashes>>

RegisterHandler(t) ==
  /\ t \notin handlers
  /\ handlers' = handlers \cup {t}
  /\ UNCHANGED <<store, sets, pq, dispatchers, workers, sweeps, clients, history, crashes,
                 doubt>>

----------------------------------------------------------------------------
(* process_due_tasks, called by the polling loop and by hand.  Between     *)
(* PollLock and PollUnlock a call holds the locks of shared_pqs,           *)
(* queued_tasks and executing_tasks; its snapshot of the store is older.   *)

Locked == \E s \in Sweep : polling[s] = "push"

PollRead(s) ==
  /\ polling[s] = "idle"
  /\ polling' = [polling EXCEPT ![s] = "lock"]
  /\ snap' = [snap EXCEPT ![s] =
                {[id |-> t, rc |-> store[t].rc] : t \in {u \in Stored : store[u].due}}]
  /\ UNCHANGED <<store, sets, pq, dispatchers, workers, pools, clients, history, environment>>

PollLock(s) ==
  /\ polling[s] = "lock" /\ ~Locked
  /\ polling' = [polling EXCEPT ![s] = "push"]
  /\ UNCHANGED <<store, sets, pq, dispatchers, workers, snap, pools, clients, history,
                 environment>>

\* (Mutant: an unknown pool is not replaced by the default one.)
PoolAsked(t) == PoolName[t]
PoolOf(t) == IF PoolName[t] \in Pool THEN PoolName[t] ELSE Default

\* (Mutants: the dependencies, or executing_tasks, are not looked at.)
EligibleTooEarly(t) == t \notin executing /\ t \notin queued
EligibleTwice(t) == Deps[t] \cap Stored = {} /\ t \notin queued
Eligible(t) == Deps[t] \cap Stored = {} /\ t \notin executing /\ t \notin queued

PollTask(s, c) ==
  /\ polling[s] = "push" /\ c \in snap[s]
  /\ snap' = [snap EXCEPT ![s] = @ \ {c}]
  /\ IF Eligible(c.id)
     THEN /\ queued' = queued \cup {c.id}
          /\ pq' = [pq EXCEPT ![PoolOf(c.id)] = @ \cup {c}]
          /\ pools' = [pools EXCEPT ![s] = @ \cup {PoolOf(c.id)}]
     ELSE UNCHANGED <<queued, pq, pools>>
  /\ UNCHANGED <<store, active_hashes, executing, completed, dispatchers, workers, polling,
                 clients, history, environment>>

PollUnlock(s) ==
  /\ polling[s] = "push" /\ snap[s] = {}
  /\ polling' = [polling EXCEPT ![s] = "dispatch"]
  /\ UNCHANGED <<store, sets, pq, dispatchers, workers, snap, pools, clients, history,
                 environment>>

\* At most two dispatcher loops per pool.  (Mutants: off by one; only beside another one.)
ThreeDispatchers(p) == counts[p] <= 2
SecondDispatcher(p) == counts[p] = 1
RoomForDispatcher(p) == counts[p] < 2

PollDispatch(s, p) ==
  /\ polling[s] = "dispatch" /\ p \in pools[s]
  /\ pools' = [pools EXCEPT ![s] = @ \ {p}]
  /\ IF RoomForDispatcher(p)
     THEN /\ counts' = [counts EXCEPT ![p] = @ + 1]
          /\ \E d \in Dispatcher :
               /\ dpc[d] = "idle"
               /\ dpc' = [dpc EXCEPT ![d] = "acquire"]
               /\ dpool' = [dpool EXCEPT ![d] = p]
     ELSE UNCHANGED <<counts, dpc, dpool>>
  /\ UNCHANGED <<store, sets, pq, permits, hand, workers, polling, snap, clients, history,
                 environment>>

PollDone(s) ==
  /\ polling[s] = "dispatch" /\ pools[s] = {}
  /\ polling' = [polling EXCEPT ![s] = "idle"]
  /\ UNCHANGED <<store, sets, pq, dispatchers, workers, snap, pools, clients, history,
                 environment>>

----------------------------------------------------------------------------
(* A dispatcher loop: permit, pop, rate limit, move to executing, spawn.   *)

Acquire(d) ==
  /\ dpc[d] = "acquire" /\ permits[dpool[d]] > 0
  /\ permits' = [permits EXCEPT ![dpool[d]] = @ - 1]
  /\ dpc' = [dpc EXCEPT ![d] = "pop"]
  /\ UNCHANGED <<store, sets, pq, counts, dpool, hand, workers, sweeps, clients, history,
                 environment>>

Pop(d) ==
  /\ dpc[d] = "pop" /\ ~Locked
  /\ \E c \in pq[dpool[d]] :
       /\ \A o \in pq[dpool[d]] : Urgency[o.id] <= Urgency[c.id]
       /\ pq' = [pq EXCEPT ![dpool[d]] = @ \ {c}]
       /\ hand' = [hand EXCEPT ![d] = c]
       /\ dpc' = [dpc EXCEPT ![d] = IF c.id \in Limited THEN "limit" ELSE "move"]
  /\ UNCHANGED <<store, sets, permits, counts, dpool, workers, sweeps, clients, history,
                 environment>>

\* Nothing to pop: the permit is dropped and the loop left; Exit tells the pool.
\* (Mutant of Refund: the permit is not returned.)
Forget(p) == UNCHANGED permits
Refund(p) == permits' = [permits EXCEPT ![p] = @ + 1]

PopEmpty(d) ==
  /\ dpc[d] = "pop" /\ ~Locked /\ pq[dpool[d]] = {}
  /\ Refund(dpool[d])
  /\ dpc' = [dpc EXCEPT ![d] = "exit"]
  /\ UNCHANGED <<store, sets, pq, counts, dpool, hand, workers, sweeps, clients, history,
                 environment>>

\* (Mutant: the loop does not sign off.)
ExitSilently(d) ==
  /\ dpc[d] = "exit"
  /\ dpc' = [dpc EXCEPT ![d] = "idle"]
  /\ dpool' = [dpool EXCEPT ![d] = Default]
  /\ UNCHANGED <<store, sets, pq, permits, counts, hand, workers, sweeps, clients, history,
                 environment>>

Exit(d) ==
  /\ dpc[d] = "exit"
  /\ counts' = [counts EXCEPT ![dpool[d]] = @ - 1]
  /\ dpc' = [dpc EXCEPT ![d] = "idle"]
  /\ dpool' = [dpool EXCEPT ![d] = Default]
  /\ UNCHANGED <<store, sets, pq, permits, hand, workers, sweeps, clients, history,
                 environment>>

Grant(d) ==
  /\ dpc[d] = "limit"
  /\ dpc' = [dpc EXCEPT ![d] = "move"]
  /\ UNCHANGED <<store, sets, pq, permits, counts, dpool, hand, workers, sweeps, clients,
                 history, environment>>

\* Over the limit: the copy in hand is saved with a later retry_after_time.
Deny(d) ==
  /\ dpc[d] = "limit"
  /\ Write(hand[d].id, [rc |-> hand[d].rc, due |-> FALSE])
  /\ dpc' = [dpc EXCEPT ![d] = "unqueue"]
  /\ UNCHANGED <<sets, pq, permits, counts, dpool, hand, workers, sweeps, clients, history,
                 handlers, crashes>>

\* Back to acquiring, the id no longer queued.  (Mutant: it stays queued.)
StayQueued(t) == UNCHANGED queued
LeaveQueued(t) == queued' = queued \ {t}

Unqueue(d) ==
  /\ dpc[d] = "unqueue" /\ ~Locked
  /\ LeaveQueued(hand[d].id)
  /\ Refund(dpool[d])
  /\ hand' = [hand EXCEPT ![d] = None]
  /\ dpc' = [dpc EXCEPT ![d] = "acquire"]
  /\ UNCHANGED <<store, active_hashes, executing, completed, pq, counts, dpool, workers,
                 sweeps, clients, history, environment>>

\* (Mutant: the insertion into executing_tasks is missing.)
Unmarked(t) == UNCHANGED executing
MarkExecuting(t) == executing' = executing \cup {t}

\* queued_tasks to executing_tasks under both locks; the permit goes with the copy.
Move(d) ==
  /\ dpc[d] = "move" /\ ~Locked
  /\ LeaveQueued(hand[d].id)
  /\ hand' = [hand EXCEPT ![d] = None]
  /\ dpc' = [dpc EXCEPT ![d] = "acquire"]
  /\ IF hand[d].id \in executing
     THEN /\ Refund(dpool[d])
          /\ UNCHANGED <<executing, wpc, copy>>
     ELSE /\ MarkExecuting(hand[d].id)
          /\ \E w \in Worker :
               /\ wpc[w] = "idle"
               /\ wpc' = [wpc EXCEPT ![w] = "check"]
               /\ copy' = [copy EXCEPT ![w] = hand[d]]
          /\ UNCHANGED permits
  /\ UNCHANGED <<store, active_hashes, completed, pq, counts, dpool, kids, lingering, sweeps,
                 clients, history, environment>>

----------------------------------------------------------------------------
(* execute_task *)

Goto(w, pc) == wpc' = [wpc EXCEPT ![w] = pc]

\* The end of the spawned future: the permit comes back, the slot is free.
Leave(w) ==
  /\ Goto(w, "idle")
  /\ copy' = [copy EXCEPT ![w] = None]
  /\ Refund(PoolOf(copy[w].id))

\* An id in completed_tasks is skipped before the drop guard exists.  (Mutants: it is not;
\* one without a record is.)
SkipNone(t) == FALSE
SkipGone(t) == t \notin Stored
SkipCompleted(t) == t \in completed

Check(w) ==
  /\ wpc[w] = "check"
  /\ IF SkipCompleted(copy[w].id)
     THEN Leave(w)
     ELSE Goto(w, "call") /\ UNCHANGED <<copy, permits>>
  /\ UNCHANGED <<store, sets, pq, counts, dpc, dpool, hand, kids, lingering, sweeps, clients,
                 history, environment>>

Call(w) ==
  /\ wpc[w] = "call"
  /\ IF copy[w].id \in Webhook \cup handlers
     THEN /\ Goto(w, "run")
          /\ attempts' = [attempts EXCEPT ![copy[w].id] = IF @ < AttemptCap THEN @ + 1 ELSE @]
     ELSE Goto(w, "drop") /\ UNCHANGED attempts
  /\ UNCHANGED <<store, sets, pq, dispatchers, copy, kids, lingering, sweeps, clients,
                 outcome, environment>>

\* The handler or the webhook answers, well or badly.
Return(w) ==
  /\ wpc[w] = "run"
  /\ \/ Goto(w, IF copy[w].id \in Cron THEN "reschedule" ELSE "ok")
     \/ Goto(w, IF copy[w].rc < MaxRetries[copy[w].id] - 1 THEN "retry" ELSE "scan")
  /\ UNCHANGED <<store, sets, pq, dispatchers, copy, kids, lingering, sweeps, clients,
                 history, environment>>

\* tokio::time::timeout gives up on the blocking call, which goes on.
Timeout(w) ==
  /\ wpc[w] = "run" /\ copy[w].id \in Timed
  /\ Goto(w, IF copy[w].rc < MaxRetries[copy[w].id] - 1 THEN "retry" ELSE "scan")
  /\ lingering' = lingering \cup {copy[w]}
  /\ UNCHANGED <<store, sets, pq, dispatchers, copy, kids, sweeps, clients, history,
                 environment>>

Linger(c) ==
  /\ c \in lingering
  /\ lingering' = lingering \ {c}
  /\ UNCHANGED <<store, sets, pq, dispatchers, wpc, copy, kids, sweeps, clients, history,
                 environment>>

Reschedule(w) ==
  /\ wpc[w] = "reschedule"
  /\ Write(copy[w].id, [rc |-> 0, due |-> FALSE])
  /\ Goto(w, "drop")
  /\ UNCHANGED <<sets, pq, dispatchers, copy, kids, lingering, sweeps, clients, history,
                 handlers, crashes>>

\* update_retry_config.  (Mutant: it does not count.)
SameCount(rc) == rc
NextCount(rc) == rc + 1

Retry(w) ==
  /\ wpc[w] = "retry"
  /\ Write(copy[w].id, [rc |-> NextCount(copy[w].rc), due |-> FALSE])
  /\ Goto(w, "drop")
  /\ UNCHANGED <<sets, pq, dispatchers, copy, kids, lingering, sweeps, clients, history,
                 handlers, crashes>>

\* No attempt left: the stored tasks that wait for this one.
Scan(w) ==
  /\ wpc[w] = "scan"
  /\ kids' = [kids EXCEPT ![w] = {t \in Stored : copy[w].id \in Deps[t]}]
  /\ Goto(w, "block")
  /\ UNCHANGED <<store, sets, pq, dispatchers, copy, lingering, sweeps, clients, history,
                 environment>>

\* Each gets a tombstone, blocked_by_failed_parent; whether it was written is not looked at.
BlockChild(w, t) ==
  /\ wpc[w] = "block" /\ t \in kids[w]
  /\ kids' = [kids EXCEPT ![w] = @ \ {t}]
  /\ Write(t, None)
  /\ outcome' = [outcome EXCEPT ![t] = "blocked"]
  /\ UNCHANGED <<sets, pq, dispatchers, wpc, copy, lingering, sweeps, clients, attempts,
                 handlers, crashes>>

\* The max-retry handler has run, or its webhook has been fired.
DeadLetter(w) ==
  /\ wpc[w] = "block" /\ kids[w] = {}
  /\ Goto(w, "dead")
  /\ UNCHANGED <<store, sets, pq, dispatchers, copy, kids, lingering, sweeps, clients,
                 history, environment>>

\* (Mutant: the record is deleted before the task counts as completed.)
DeleteFirst(w) ==
  /\ wpc[w] \in {"ok", "dead"}
  /\ Erase(copy[w].id)
  /\ Goto(w, "unhash")
  /\ UNCHANGED <<sets, pq, dispatchers, copy, kids, lingering, sweeps, clients, history,
                 handlers, crashes>>

Complete(w) ==
  /\ wpc[w] \in {"ok", "dead"}
  /\ completed' = completed \cup {copy[w].id}
  /\ outcome' = [outcome EXCEPT ![copy[w].id] = wpc[w]]
  /\ Goto(w, "delete")
  /\ UNCHANGED <<store, active_hashes, queued, executing, pq, dispatchers, copy, kids,
                 lingering, sweeps, clients, attempts, environment>>

Delete(w) ==
  /\ wpc[w] = "delete"
  /\ Erase(copy[w].id)
  /\ Goto(w, "unhash")
  /\ UNCHANGED <<sets, pq, dispatchers, copy, kids, lingering, sweeps, clients, history,
                 handlers, crashes>>

\* (Mutant: the hash is not given back.)
KeepHash(w) ==
  /\ wpc[w] = "unhash"
  /\ Goto(w, "drop")
  /\ UNCHANGED <<store, sets, pq, dispatchers, copy, kids, lingering, sweeps, clients, history,
                 environment>>

Unhash(w) ==
  /\ wpc[w] = "unhash"
  /\ active_hashes' = active_hashes \ PayloadHash[copy[w].id]
  /\ Goto(w, "drop")
  /\ UNCHANGED <<store, queued, executing, completed, pq, dispatchers, copy, kids, lingering,
                 sweeps, clients, history, environment>>

\* ExecutingGuard::drop, then the permit.
Drop(w) ==
  /\ wpc[w] = "drop" /\ ~Locked
  /\ executing' = executing \ {copy[w].id}
  /\ Leave(w)
  /\ UNCHANGED <<store, active_hashes, queued, completed, pq, counts, dpc, dpool, hand, kids,
                 lingering, sweeps, clients, history, environment>>

----------------------------------------------------------------------------
(* The completed-task sweeper, and a restart on the same log. *)

Evict(t) ==
  /\ TTLExpires /\ t \in completed
  /\ completed' = completed \ {t}
  /\ UNCHANGED <<store, active_hashes, queued, executing, pq, dispatchers, workers, sweeps,
                 clients, history, environment>>

\* (Mutant: the hashes are not rebuilt.)
NoHashes == {}
StoredHashes == UNION {PayloadHash[t] : t \in Stored}

\* The process dies and SnerdQueue::new opens the log again: only the log survives, and
\* active_hashes is rebuilt from it.
Restart ==
  /\ crashes < MaxCrashes
  /\ crashes' = crashes + 1
  /\ Reread
  /\ active_hashes' = StoredHashes' /\ claimed' = Stored'
  /\ queued' = {} /\ executing' = {} /\ completed' = {} /\ lingering' = {}
  /\ pq' = [p \in Pool |-> {}] /\ permits' = Capacity /\ counts' = [p \in Pool |-> 0]
  /\ dpc' = [d \in Dispatcher |-> "idle"] /\ dpool' = [d \in Dispatcher |-> Default]
  /\ hand' = [d \in Dispatcher |-> None]
  /\ wpc' = [w \in Worker |-> "idle"] /\ copy' = [w \in Worker |-> None]
  /\ kids' = [w \in Worker |-> {}]
  /\ polling' = [s \in Sweep |-> "idle"]
  /\ snap' = [s \in Sweep |-> {}] /\ pools' = [s \in Sweep |-> {}]
  /\ caller' = [t \in Task |-> "idle"] /\ handlers' = Registered
  /\ UNCHANGED <<issued, history>>

----------------------------------------------------------------------------
Init ==
  /\ store = [t \in Task |-> None] /\ active_hashes = {}
  /\ queued = {} /\ executing = {} /\ completed = {} /\ lingering = {}
  /\ pq = [p \in Pool |-> {}] /\ permits = Capacity /\ counts = [p \in Pool |-> 0]
  /\ dpc = [d \in Dispatcher |-> "idle"] /\ dpool = [d \in Dispatcher |-> Default]
  /\ hand = [d \in Dispatcher |-> None]
  /\ wpc = [w \in Worker |-> "idle"] /\ copy = [w \in Worker |-> None]
  /\ kids = [w \in Worker |-> {}]
  /\ polling = [s \in Sweep |-> "idle"]
  /\ snap = [s \in Sweep |-> {}] /\ pools = [s \in Sweep |-> {}]
  /\ caller = [t \in Task |-> "idle"] /\ handlers = Registered
  /\ issued = [t \in Task |-> 0] /\ claimed = {} /\ crashes = 0 /\ doubt = NoDoubt
  /\ attempts = [t \in Task |-> 0] /\ outcome = [t \in Task |-> "none"]

DispatcherStep(d) ==
  Acquire(d) \/ Pop(d) \/ PopEmpty(d) \/ Exit(d) \/ Grant(d) \/ Deny(d) \/ Unqueue(d) \/ Move(d)

\* What an execute_task call does once it has started, its handler's answer included.
WorkerStep(w) ==
  \/ Check(w) \/ Call(w) \/ Return(w) \/ Reschedule(w) \/ Retry(w) \/ Scan(w)
  \/ (\E t \in Task : BlockChild(w, t))
  \/ DeadLetter(w) \/ Complete(w) \/ Delete(w) \/ Unhash(w) \/ Drop(w)

SweepStep(s) ==
  \/ PollRead(s) \/ PollLock(s) \/ (\E c \in snap[s] : PollTask(s, c)) \/ PollUnlock(s)
  \/ (\E p \in Pool : PollDispatch(s, p)) \/ PollDone(s)

Next ==
  \/ \E t \in Task :
       Elapse(t) \/ ClaimHash(t) \/ CheckCycle(t) \/ SaveNew(t) \/ RegisterHandler(t) \/ Evict(t)
  \/ \E s \in Sweep : SweepStep(s)
  \/ \E d \in Dispatcher : DispatcherStep(d)
  \/ \E w \in Worker : WorkerStep(w) \/ Timeout(w)
  \/ \E c \in lingering : Linger(c)
  \/ Compact \/ Restart

Spec == Init /\ [][Next]_vars
=============================================================================
