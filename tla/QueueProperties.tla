-------------------------- MODULE QueueProperties --------------------------
(***************************************************************************)
(* What one SnerdQueue is expected to guarantee, stated over the state of  *)
(* module Queue.  Which of it the code keeps, and under which constants,   *)
(* is for the runs of MCQueue and the theorems of QueueProofs to say.      *)
(***************************************************************************)
EXTENDS Queue

Busy(w) == wpc[w] # "idle"
Holding(d) == dpc[d] \in {"limit", "unqueue", "move"}

\* Every variable has its type; an idle slot holds nothing.
TypeOK ==
  /\ store \in [Task -> Record \cup {None}]
  /\ active_hashes \subseteq Hash
  /\ queued \subseteq Task /\ executing \subseteq Task /\ completed \subseteq Task
  /\ pq \in [Pool -> SUBSET Copy]
  /\ permits \in [Pool -> Int] /\ counts \in [Pool -> Int]
  /\ dpc \in [Dispatcher -> {"idle", "acquire", "pop", "limit", "unqueue", "move", "exit"}]
  /\ dpool \in [Dispatcher -> Pool]
  /\ hand \in [Dispatcher -> Copy \cup {None}]
  /\ \A d \in Dispatcher : Holding(d) <=> hand[d] # None
  /\ wpc \in [Worker -> {"idle", "check", "call", "run", "ok", "reschedule", "retry", "scan",
                         "block", "dead", "delete", "unhash", "drop"}]
  /\ copy \in [Worker -> Copy \cup {None}]
  /\ \A w \in Worker : Busy(w) <=> copy[w] # None
  /\ kids \in [Worker -> SUBSET Task] /\ lingering \subseteq Copy
  /\ polling \in [Sweep -> {"idle", "lock", "push", "dispatch"}]
  /\ snap \in [Sweep -> SUBSET Copy] /\ pools \in [Sweep -> SUBSET Pool]
  /\ caller \in [Task -> {"idle", "cycle", "save"}] /\ handlers \subseteq Task
  /\ issued \in [Task -> Nat] /\ claimed \subseteq Task /\ crashes \in Nat
  /\ doubt \in [Task -> SUBSET (Record \cup {None})]
  /\ attempts \in [Task -> Nat] /\ outcome \in [Task -> {"none", "ok", "dead", "blocked"}]

----------------------------------------------------------------------------
(* Where a task can be. *)

\* queued_tasks names exactly the copies on a heap or in a dispatcher's hands
\* (queue.rs:277-306, 346-391), and never two copies of one task.
QueuedExact ==
  /\ \A p \in Pool : \A c \in pq[p] : c.id \in queued
  /\ \A d \in Dispatcher : Holding(d) => hand[d].id \in queued
  /\ \A t \in queued : \/ \E p \in Pool : \E c \in pq[p] : c.id = t
                       \/ \E d \in Dispatcher : Holding(d) /\ hand[d].id = t
  /\ \A p, q \in Pool : \A b \in pq[p], c \in pq[q] : b.id = c.id => b = c /\ p = q
  /\ \A d \in Dispatcher : Holding(d) => \A p \in Pool : \A c \in pq[p] : c.id # hand[d].id
  /\ \A d, e \in Dispatcher : Holding(d) /\ Holding(e) /\ hand[d].id = hand[e].id => d = e

\* A task is not waiting for a worker while one may be executing it: the second
\* test of executing_tasks in the dispatcher (queue.rs:379) never succeeds.
QueuedNotExecuting == queued \cap executing = {}

\* Every running execute_task has its id in executing_tasks (queue.rs:383, 415).
WorkersMarked == \A w \in Worker : Busy(w) => copy[w].id \in executing

\* No task is executed by two calls of execute_task at once.
OneWorkerPerTask ==
  \A v, w \in Worker : Busy(v) /\ Busy(w) /\ copy[v].id = copy[w].id => v = w

\* What keeps a task in one place at a time: waiting once or executed once.
OnePlace == QueuedExact /\ QueuedNotExecuting /\ WorkersMarked /\ OneWorkerPerTask

\* Each permit of a pool is free, with a dispatcher or with a worker (queue.rs:340-391):
\* no path of the dispatcher or of the worker leaks one or returns it twice.
PermitsAccounted ==
  \A p \in Pool :
    permits[p] + Cardinality({d \in Dispatcher : dpool[d] = p /\ (dpc[d] = "pop" \/ Holding(d))})
               + Cardinality({w \in Worker : Busy(w) /\ PoolOf(copy[w].id) = p}) = Capacity[p]

\* dispatcher_counts is the number of dispatcher loops of the pool, at most two
\* (queue.rs:311-317, 398-401).
DispatchersCounted ==
  \A p \in Pool :
    /\ counts[p] = Cardinality({d \in Dispatcher : dpc[d] # "idle" /\ dpool[d] = p})
    /\ counts[p] <= 2

----------------------------------------------------------------------------
(* What becomes of a task. *)

\* A record leaves the store only when its task has ended: it succeeded, it was
\* dead-lettered, or a parent was (queue.rs:502-505, 537-541, 577-579).
NothingLost ==
  [][\A t \in Task : (store[t] # None /\ store'[t] = None) => outcome'[t] # "none"]_vars

\* Until the next restart the handler of a task that has succeeded or been dead-lettered
\* is not called again, whatever old copies of its record are on a heap or in a snapshot
\* (queue.rs:406-412).
EndedStaysEnded ==
  [][\A w \in Worker : (wpc[w] = "call" /\ wpc'[w] = "run" /\ crashes = 0)
                         => outcome[copy[w].id] \notin {"ok", "dead"}]_vars

\* A task runs only when each task it waits for has ended (queue.rs:282-286).
ParentsEndFirst ==
  \A w \in Worker : wpc[w] = "run" => \A p \in Deps[copy[w].id] : outcome[p] # "none"

\* Two tasks with the same payload hash are not pending together (queue.rs:211-218, 148-157).
Pending(t) == t \in Stored \/ caller[t] # "idle"
NoTwins ==
  \A t, u \in Task : Pending(t) /\ Pending(u) /\ t # u => PayloadHash[t] \cap PayloadHash[u] = {}

\* Old copies can make one polling loop run an attempt again, but not twice again, and not
\* the last one, which ends the task: until a restart a handler is called less than
\* 2 * max_retries times (queue.rs:266, 289-292, 406-412, 517).
TotalAttempts(t) == IF MaxRetries[t] = 0 THEN 1 ELSE MaxRetries[t]
AttemptsAtMostDoubled ==
  \A t \in Task \ Cron : crashes = 0 => attempts[t] < 2 * TotalAttempts(t)

\* A task that has succeeded or been dead-lettered, and whose record is gone, is not called
\* again, restarts included: only a restart between completed_tasks and the tombstone makes
\* an ended task run again (queue.rs:406-412, 502-505, 577-579; file_store.rs:54-76).
GoneStaysGone ==
  [][\A w \in Worker : (wpc[w] = "call" /\ wpc'[w] = "run" /\ copy[w].id \notin Stored)
                         => outcome[copy[w].id] \notin {"ok", "dead"}]_vars

\* A payload hash stays claimed only by a task that took it, or had it at the last restart, and
\* is being enqueued or finished, has a record, or went another way: refused as part of a
\* cycle, not saved, or blocked (queue.rs:148-157, 211-218, 505-509, 537-541, 579-583).
HashesFreed ==
  \A h \in active_hashes : \E t \in claimed :
    /\ h \in PayloadHash[t]
    /\ \/ Pending(t) \/ outcome[t] \notin {"ok", "dead"}
       \/ \E w \in Worker : wpc[w] \in {"delete", "unhash"} /\ copy[w].id = t

\* A mark left in executing_tasks by a call that was skipped is that of an ended task
\* (queue.rs:383, 407-415): it holds back no task but one enqueued again under its id.
Leaked(t) == t \in executing /\ \A w \in Worker : Busy(w) => copy[w].id # t
LeaksAreEnded == \A t \in Task : Leaked(t) => t \in completed

\* On a heap that no dispatcher will pop.  A task gets there only when a dispatcher that found
\* the heap empty signs off: never by a sweep, which asks for a dispatcher of each pool it fills
\* (queue.rs:265-319, 392-401).
Stranded(t) ==
  \E p \in Pool : (\E c \in pq[p] : c.id = t) /\ counts[p] = 0 /\ \A s \in Sweep : p \notin pools[s]
LostOnlyAtExit ==
  [][\A t \in Task : ~Stranded(t) /\ Stranded(t)' =>
       \E d \in Dispatcher : dpc[d] = "exit" /\ dpc'[d] = "idle"]_vars

\* A copy of t is on its way: in a snapshot, on a heap, in a hand, or with a worker that has
\* not called the handler.
Loose(t) ==
  \/ \E s \in Sweep : \E c \in snap[s] : c.id = t
  \/ \E p \in Pool : \E c \in pq[p] : c.id = t
  \/ \E d \in Dispatcher : Holding(d) /\ hand[d].id = t
  \/ \E w \in Worker : wpc[w] \in {"check", "call"} /\ copy[w].id = t

\* What a task has come to: "running" from the call of its handler to the end of the attempt;
\* one that has ended and is still stored when completed_tasks is gone is pending again.
Attempting == {"run", "ok", "reschedule", "retry", "scan", "block", "dead"}
LifeOf(t) ==
  IF \E w \in Worker : wpc[w] \in Attempting /\ copy[w].id = t THEN "running"
  ELSE IF outcome[t] # "none" /\ (t \in completed \/ t \notin Stored) THEN outcome[t]
  ELSE IF t \in Stored THEN "pending" ELSE "new"

\* The queue is the life of its tasks (queue.rs:198-626): sweeps, heaps, loops, permits and
\* restarts add nothing to it; a copy read before its task was blocked does run it again.
TL == INSTANCE TaskLife WITH life <- [t \in Task |-> LifeOf(t)], kept <- Stored,
                             cut <- {t \in Task : outcome[t] = "blocked"},
                             loose <- {t \in Task : Loose(t)}
ImplementsTaskLife == TL!Spec

----------------------------------------------------------------------------
(* What the documentation or a comment promises and the code does not keep. *)

\* queue.rs:414 "Drop guard guarantees removal from executing_tasks".
ExecutingIsRunning == \A t \in executing : \E w \in Worker : Busy(w) /\ copy[w].id = t

\* queue.rs:514 "max_retries means total attempts (not retries after first)".
AttemptsBounded == \A t \in Task : attempts[t] <= MaxRetries[t]

\* queue.rs:523 "Mark children as failed": a child failed with its parent does not run.
ChildrenFail == \A w \in Worker : wpc[w] = "run" => outcome[copy[w].id] # "blocked"

----------------------------------------------------------------------------
(* Progress.  Tokio runs every ready task, its semaphore serves waiters in  *)
(* order, the interval timer keeps polling, and time passes; handlers are   *)
(* assumed to return, well or badly as they will.  The poll sleeps between  *)
(* two rounds with its locks free, so who waits for one of them gets it.    *)

Fairness ==
  /\ \A s \in Sweep : SF_vars(SweepStep(s))
  /\ \A d \in Dispatcher : SF_vars(DispatcherStep(d))
  /\ \A w \in Worker : SF_vars(WorkerStep(w))
  /\ \A t \in Task : WF_vars(Elapse(t) \/ CheckCycle(t) \/ SaveNew(t))

FairSpec == Spec /\ Fairness

\* README.md:386 "Boot the background polling loop that executes due tasks": every
\* stored task ends.
EveryTaskEnds == \A t \in Task : t \in Stored ~> t \notin Stored

\* Nothing but that stops a stored task or a stored parent: it ends, or a lost wakeup
\* or a leaked mark holds one of them (queue.rs:265-319, 392-401, 407-412).
EndsUnlessStuck ==
  \A t \in Task :
    t \in Stored ~> \/ t \notin Stored
                    \/ \E u \in {t} \cup Deps[t] : u \in Stored /\ (Stranded(u) \/ Leaked(u))
=============================================================================
