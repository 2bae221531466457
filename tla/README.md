# A verification project for snerd-rust

snerd-rust is a task queue embedded in a Rust process: tasks are kept in an
append-only log, a polling loop puts the due ones on priority heaps, dispatcher
loops hand them to worker tasks under a semaphore, and a sharded variant divides
the log among processes by leases. This directory holds TLA+ modules translated from
`src/`, the TLC configurations that check them, and theorems checked by TLAPS.

`PROJECT.json` lists the components, the runs, the map from definitions to source
lines, the hazards, the findings and the theorems. Paths such as `queue.rs:314` are
relative to the repository's `src/`.

## 1. Inventory

| Component | State | Operations | Interacts with |
|---|---|---|---|
| Queue engine, `queue.rs` | the sets `active_hashes`, `queued_tasks`, `executing_tasks`, `completed_tasks`; a heap, a semaphore and a dispatcher count per pool; handlers | `enqueue`, `process_due_tasks` (polled, or called by hand), `spawn_dispatcher`, `execute_task`, the sweeper of `completed_tasks`, registration of handlers | the log for every save, delete and read; the rate limiter; handlers and webhooks |
| Task records, `task.rs` | fields of a record; `updated_at` is the time of parsing | `new`, `update_retry_config`, `mark_deleted`, cron parsing, the order of the heap | the engine and the log |
| Task log, `file_store.rs` | the file, the cache of latest records, three counters, a lock, a compaction flag | `save_task`, `delete_task`, `compact_log`, `FileStore::new`; reads of the cache (`read_tasks`, `are_tasks_completed`, `detect_cycle`) | the file system; compaction runs in a task of its own |
| Rate limiter, `rate_limiter.rs` | one JSON line of windows in a locked file | `check_and_increment` | called by dispatchers |
| Shard membership, `membership.rs` | `membership.json`: a version and a claim per shard | `init`, `load`, `claim`, `renew`, `release`, `revert_claim` | other processes, through a flock and the wall clock |
| Sharding layout, `sharding.rs` | the directory: legacy, sharded or fresh; a `.lock` per shard | `resolve_layout`, migration, `try_lock_shard`, `route_shard` | membership |
| Sharded queue, `sharded_queue.rs` | the engines of the shards owned; heaps, semaphore and counts they share | `enqueue`, heartbeat, `instantiate_shard`, `reconcile_shards`, `shutdown` | all of the above |
| Dashboard, `dashboard.rs` | a ring of 500 progress events | HTTP reads | reads the log files |

What is hard, and what correctness means for each:

* **Queue engine.** Everything runs at once: callers, sweeps, up to two dispatcher
  loops per pool, workers. A sweep works on a snapshot taken before it has any lock;
  a dispatcher keeps a copy of a record over several critical sections; a worker
  records the end of a task in four places in turn. Correct means: a task is waiting
  once or executed once; permits and loops are counted exactly; nothing leaves the
  store unfinished; what has ended is not run again; a task runs after those it waits
  for; two tasks with one payload hash are not pending together; every task ends.
* **Task log.** Appends can be torn; compaction replaces the file; deletes read before
  they lock. Correct means: what was acknowledged is read back, and the store is a map.
* **Membership.** Clocks differ, calls wait for a lock with a time they read before it,
  daemons die with claims on file. Correct means: leases exclude each other.
* **Rate limiter.** A crash between truncation and write; windows are fixed; one file for
  all shards. Correct means: no call overwrites another's count, at most the limit per
  window, and so at most twice the limit in any 60 seconds.
* **Layout.** Several daemons boot at once, a log is moved and `membership.json` created in
  separate steps, beside an engine that may still write. Correct means: no record is lost,
  and a boot fails only after a death in the middle.
* **Sharded queue.** Two lock files per shard, a log that is read before it is locked,
  engines that outlive their lease, a shutdown in the middle of a heartbeat, heaps shared
  between shards. Correct means: what runs is in the map and what `enqueue` can reach is
  running, an engine knows its log, and a shard that is kept from others is served.

## 2. Modules

| Module | Models | Uses |
|---|---|---|
| `TaskLife` | abstract: what a queue promises of its tasks | |
| `Queue` | the engine of one `SnerdQueue` | |
| `QueueProperties` | its properties and fairness | `Queue`; `TaskLife`, by refinement |
| `QueueProofs` | types and mutual exclusion | `QueueProperties` |
| `QueueCountProofs` | permits and dispatcher loops are counted exactly; wakeups | `QueueProofs` |
| `QueueLifeProofs` | ends of tasks, parents, twins, attempts, hashes, marks, cycles; refinement of `TaskLife` | `QueueProofs` |
| `TaskStore` | abstract: the map the engine takes its store for | |
| `FileStore` | the log, its cache and compaction | `TaskStore`, by refinement |
| `FileStoreProofs` | the log keeps what it acknowledged and implements the map | `FileStore` |
| `RateLimiter` | windows in the shared, locked file | |
| `RateLimiterProofs` | grants are counted and bounded | `RateLimiter` |
| `Membership` | leases on shards | |
| `MembershipProofs` | exclusion of leases | `Membership` |
| `Layout` | boot: detection and adoption of a directory | |
| `ShardedQueue` | daemons: boot, heartbeat, engines, shutdown | `Membership`, `Layout` |
| `ShardedQueueProofs` | refinement of `Membership`; engines, maps and claims | `ShardedQueue` |
| `RecordProofs` | logs and records: engines know them, boots keep them | `ShardedQueueProofs` |
| `MCQueue`, `MCFileStore`, `MCRateLimiter`, `MCMembership`, `MCShardedQueue` | small instances | the above |

A definition that is a small change of the one it precedes, marked *Mutant* in a
comment, is a plausible bug: substituted for the real definition it makes TLC refute
the property it is paired with in `PROJECT.json`. Mutants take no part in a specification.

### Queue

`store` is the cache of the log as its callers see it, one record `[rc, due]` per task, and
`doubt` what writes that failed may have left in the log: the append or its sync failed
(`file_store.rs:93-100`), the cache was not touched, and the line is there or is not.
Time is abstract: a record is due or not, and `Elapse` lets it become due, so every
retry delay and every schedule is covered. The four sets, the heaps, the permits and
the counts are the fields of `SnerdQueue`.

* `ClaimHash`, `CheckCycle`, `SaveNew` are the three critical sections of `enqueue`.
* `PollRead` takes the snapshot; `PollLock`, `PollTask`, `PollUnlock` are the loop under
  the three locks; `PollDispatch` starts dispatcher loops; `PollDone` ends the sweep.
* `Acquire`, `Pop` or `PopEmpty` and `Exit`, `Grant` or `Deny`, `Unqueue` or `Move` are
  the steps of a dispatcher loop between its awaits and locks.
* `Check`, `Call`, `Return` or `Timeout`, then `Reschedule`, `Retry` or `Scan`,
  `BlockChild`, `DeadLetter`, or `Complete`, and `Delete`, `Unhash`, `Drop` are
  `execute_task`. `Leave` is the end of the spawned future, which returns the permit.
* `Linger` keeps a blocking handler that a timeout abandoned; `Evict` is the sweeper of
  `completed_tasks`; `Restart` is a crash followed by `new_with_shared_pools`.
* `Compact` is a compaction, which loads the cache from the log; it and `Restart` settle what
  is in doubt (`Reread`), and a write of the same task that succeeds does so too.

Any write may fail where `WritesFail` says so (`Write`, `Erase`); most results of `save_task`
are dropped by the code. `claimed` is history: the tasks that took their hash, as opposed to
those dropped as duplicates. The answer of the rate limiter, of a handler and of
a webhook is free. Heap order is `urgency_score` only, as in the code, and ties are free.

### TaskLife

`TaskLife` is what is left of the engine for a client: a task is new, pending, running, or
over (`ok`, `dead`, `blocked`), and its record is kept or not. It runs one attempt at a time,
from a copy that a sweep has read (`loose`), and only when each task it waits for is over or
was failed with a parent (`cut`). Two actions are as weak as the code makes them. `Start` runs
a task that is `blocked`, if a copy of it is loose: neither the tests of the sweep nor
`completed_tasks` stop it, since the tombstone of a child leaves no trace but the missing
record. `Block` reaches the children of a task that was itself blocked and runs, which may
have ended or be running themselves. What is `ok` or `dead` starts again only after a
restart that finds its record, or such a `Block`.

`ImplementsTaskLife` says that `Queue` implements it with `kept <- Stored`, `cut` the tasks
whose outcome is `blocked`, `loose` those with a copy in a snapshot, on a heap, in a hand or with a
worker that has not called the handler (`Loose`), and `life[t] <- LifeOf(t)`: running from the
call of the handler to the end of the attempt, whatever else is recorded of the task; else
its outcome, if its end is in `completed_tasks` or its record is gone; else pending while it
is stored, and new before. A task that completed and is still stored when `completed_tasks`
is lost is pending again.

### FileStore and TaskStore

`log` is the sequence of lines, `open` says that the last one has no newline. A save is
one step because `file_lock` is held throughout; `Cut` says what is on the disk when it
is cut short by a crash (`Crash`) or by an error the process survives (`Fail`):
nothing, the whole line, or a torn one out of `TornTails`. `DeleteRead` and
`DeleteWrite` are the two halves of `delete_task`. `CompactBegin`, `CompactRewrite` or
`CompactFails`, and `CompactEnd` follow the compaction flag; the rewritten records come
in any order, as the code iterates a hash map. `Crash` includes `FileStore::new`.

`TaskStore` is a map, with the set of values that failed writes may still bring about.
`ImplementsTaskStore` says that `FileStore` implements it with `db <- cache`: an
acknowledged write takes effect at once, a failed one at the next reading of the log or
never, and no compaction, delete race or restart changes anything else.

A crash means the death of the process; the file system keeps what was written. Disk
loss and the order in which a file system persists a rename are not modelled.

### Membership

`claims` and `version` are `membership.json`; every mutation is a read, a change and an
atomic rename under one flock, hence one step. `Begin` is the start of a call, with the
time it will work with: the caller's clock before it waits for that lock or, in a
heartbeat, an older reading. `Tick` advances one
daemon's clock and keeps any two within `MaxSkew`. `belief` is what a daemon was last
told about a shard; it believes in the shard until that expiry passes on its own clock.
`Crash` loses the beliefs and keeps the claims; the daemon goes on under the same id.
The calls are open: a daemon may claim, renew, release or revert any shard at any time,
which includes the order in which the heartbeat calls them.

### RateLimiter

`disk` is what can be read from the file. `Enter` is the open, the lock, the reading of
the file and of the clock, and the decision (`Decide`); `Truncate`, `Write` and `Answer`
are the rest of the call, and `Stop`, `StopShort` an error or a death at each point, the
second one where the file is empty. A file that can not be read counts as empty, also
when it is not (`draft.blank`). `grants` is the history of answers `true`; `lost` counts
the times the windows on file were lost. `Answer` takes the clock at the time of the
return, so that a grant may be later than the window it was counted in. All callers have
one clock, which does not step, and all tasks of a group pass the same limit.

### Layout

`Detect` is `detect_layout`, without the lock. `Adopt`, `MoveLog` and `CreateAdopted` are
the steps of the adoption under `.membership.lock`, with a death possible between any two
(`Reboot`); `JoinFresh` and `CreateFresh` are the other branches. Logs are counted, not
spelled out: `log[s]` is the number of records. `LegacySave` and `LegacyExit` are the
`SnerdQueue` that used the directory before and may still run: it locks `tasks.log.lock` and
not the root `.lock` that `sharding.rs:82` probes, so nothing holds the adoption back, and
`beside` remembers that its log was moved while it ran (see section 5). `Adopt` may be
refused all the same, by any program that has the root `.lock`.

### ShardedQueue

A daemon boots (`Boot`, a step of `Layout` together with `Membership!Initialize` when
`membership.json` appears). Its heartbeat is a loop over `at`: `Wake`, `Load`, then for
every claimable shard `BeginClaim`, `Claim` or `ClaimFails`, `TryLock` or `GiveBack` and
`Revert`, then `Unlock`, or `Open` and `Start` for a shard that is new; `Reconcile` ends
the round. `Open` is `FileStore::new`, which reads the log, and the drop of `.lock`;
`Start` is `SnerdQueue::new`, which locks the log or panics. An I/O error in either is
unwrapped: the heartbeat is `dead` and its engines go on. Shards are visited in the order
of the file, as in the code. An engine is reduced to the shard whose log it has locked
and the number of records it knows (`seen`); `Save` is any write of it. `Shutdown` may
come anywhere but in `Start`, where the map is locked. `End` is the drop of the last clone
of an engine whose stop flag is set; an engine that fell out of the map without that flag
never ends. `Crash` kills a daemon, its locks and engines, and starts it under its name.

`overrun` remembers that a shard was taken from a daemon whose heartbeat or engine for it
was still running. The code does not exclude that: renewals come with each round, and a
round may take longer than a lease. `NoStrayEngine`, `NoPanic`, `ReadsCurrent` and
`ClaimsServed` say that nothing but such a takeover or an I/O error leaves an engine running
outside the map, makes a heartbeat panic, an engine miss records or a kept shard go unserved.
Their exceptions are wide: any failed call of any heartbeat ends what they say, so they say
nothing of panics for an error of the files themselves, and `ClaimsServed` says
nothing from the first death on, as a daemon that is restarted within its lease finds its
claim `Renewed` and starts no engine.

## 3. Runs

Every run is exhaustive over its instance. Slots of loops and workers are symmetric, and
so are tasks and values of the log and the daemons; the liveness runs use no symmetry.

| Run | Instance | Shows |
|---|---|---|
| `queue_faults` | one limited, timed cron task that asks for an unknown pool, enqueued twice; two sweeps; two permits; failing writes that a compaction may find in the log; evictions | `QueuedExact`, `QueuedNotExecuting`, `WorkersMarked`, `OneWorkerPerTask`, `PermitsAccounted`, `DispatchersCounted` |
| `queue_tasks` | three tasks: one with two attempts, a child of it, and a webhook with its hash; one permit; a restart anywhere | `NothingLost`, `EndedStaysEnded`, `GoneStaysGone`, `ParentsEndFirst`, `NoTwins`, `HashesFreed`, `LeaksAreEnded`, `AttemptsAtMostDoubled`, `ImplementsTaskLife` |
| `queue_progress` | a parent and a child, two attempts each, one worker, with fairness | `EndsUnlessStuck`, `LostOnlyAtExit` |
| `file_store_map` | two tasks, two values, four lines, one failed write, one crash, compaction from three lines | `CacheIsOnDisk`, `CountersExact`, `ImplementsTaskStore` |
| `rate_limiter_windows` | two callers, two groups with limits one and two, windows of two ticks, four ticks, four calls, one loss | `AtMostTwicePerWindow`, `GrantsCounted` |
| `membership_leases` | two daemons, one shard, lease, margin and skew of one tick, five ticks, four mutations, one death | `BelievedIsRecorded`, `ExclusiveLease`, `VersionTells`, `NoEarlyTakeover` |
| `sharded_ownership` | two daemons, two shards, a fresh or a legacy directory, clocks that differ by one, one record, one fault | `NoStrayEngine`, `MapIsServed`, `MapIsBelieved`, `NoPanic`, `ReadsCurrent`, `ClaimsServed`, `BootsDontRace`, `NoRecordLost`, `ImplementsMembership` |

Five runs are expected to fail; each is a disagreement between the code and what the
repository says of it, quoted under `findings`:

| Run | Disagreement |
|---|---|
| `queue_leaked_mark` | `execute_task` returns at `queue.rs:410` before its drop guard exists: the id stays in `executing_tasks` and the task can not be queued until a restart |
| `queue_extra_attempt` | a snapshot older than a failed attempt brings the old copy back: more calls of the handler than `max_retries` |
| `queue_lost_wakeup` | a task pushed between the empty pop and the decrement of both loops starts no loop and is never executed |
| `queue_failed_parent` | a child failed with its parent runs from a copy that a sweep had read before: the parent is gone, which is taken for its success |
| `file_store_torn` | a record appended after a torn line is acknowledged and lost |

`queue_progress` puts the third and the first in their place: under fairness nothing
*else* keeps a task from ending. `LostOnlyAtExit` says which step loses a wakeup, and
`LeaksAreEnded` that a leaked mark is that of an ended task; both are theorems.

### Bounds, and why they are enough

* Tasks: mutual exclusion and accounting concern copies of *one* task, so one task with
  two enqueue calls and two sweeps meets every race of `queued` and `executing`;
  dependencies, hashes and competition for one permit need three. The theorems lift
  the first kind to any number.
* Dispatcher slots: the code starts at most two loops per pool; the faults run has three
  slots so that `DispatchersCounted` could fail. `MaxCalls`, `MaxCrashes`,
  `MaxRetries` (one to three) and `AttemptCap` bound counters. `AttemptCap` is above
  every limit a property compares `attempts` with.
* Log: four lines are a live record, an older one, a tombstone and one more; compaction
  is asked for from three appends (10000 in the code) and from a length above three
  (20 MB), and by the ratio of deletes, so it runs at every length. `MaxLog` stops
  writers at the bound, hence `CHECK_DEADLOCK FALSE`.
* Membership: with lease and margin of one tick, five ticks let a shard be claimed,
  lapse, be taken over and lapse again; `MaxVersion` and `MaxTime` stop the system,
  hence `CHECK_DEADLOCK FALSE`. The theorems cover any lease, margin and number of daemons.
* Rate limiter: four calls are the two grants of the larger limit in each of two adjacent
  windows; one loss starts a third. The bounds stop the system (`CHECK_DEADLOCK FALSE`).
* Sharded queue: a lease of zero ticks lapses with every difference of clocks, so that the
  shortest traces have takeovers; three versions are two claims and a takeover or a
  revert; one record, in the log of any shard, is enough to be missed or lost; one fault is
  a death or an I/O error at any point. The bounds stop the system
  (`CHECK_DEADLOCK FALSE`). Every property of this run is also a theorem, without bounds
  on daemons, shards, records, clocks or faults.

### Fairness

`Fairness` is strong for each sweep, dispatcher and worker slot, and weak for the clock
and the later steps of an `enqueue`. Tokio polls every ready task; its semaphore is
first come, first served, so a loop that waits for a permit which is free again and again
gets it: that needs strong fairness. The polling loop runs on an interval timer until
`stop_flag`, which only the sharded queue sets, and sleeps between rounds with its
locks free, so whoever waits for one of the mutexes gets it. No fairness is assumed of
clients, restarts, evictions, timeouts or registrations. Handlers are assumed to
return, with success or failure as they like; a handler that never returns holds its
worker for ever unless it has `max_execution_seconds`.

## 4. Theorems

All are for every value of the constants, under the named assumptions of the modules.

* `QueueProofs!TypeCorrect`: `Spec => []TypeOK`.
* `QueueProofs!TaskInOnePlace`: `Spec => []OnePlace`. `OnePlace` is the conjunction of
  `QueuedExact`, `QueuedNotExecuting`, `WorkersMarked` and `OneWorkerPerTask`, and is
  inductive given the types. None of the four is inductive alone: that `Move` finds no
  other worker for its task needs that a queued task is not executing, which needs that
  a worker's task is marked, and that a pop removes the last trace of a task from the
  heaps needs that `queued` is exact. The proof has one lemma per group of actions;
  `Unmoved` says that steps which move no copy keep the invariant.
* `QueueProofs!NeverTwoWorkers`, `QueuedIsExact`, `QueuedIsNotExecuting`, `EveryWorkerMarked`:
  the four, each by itself. The third makes the test at `queue.rs:379` dead code.
* `QueueCountProofs!LoopsAreCounted`, `PermitsAreAccounted`: for any finite numbers of slots,
  whatever fails. `Plus` and `Minus` say how the size of a set changes when one slot enters
  or leaves it; the second theorem rests on `OnePlace` for the pool that a worker's copy
  belongs to, and on the dispatcher's pool being that of the copy in its hands.
* `QueueCountProofs!WakeupsLostAtExit`, for finitely many slots: a sweep that pushes a task asks
  for a loop of its pool, and finds two of them or starts one (`DispatchersCounted`), and a
  pop leaves its loop there; so a heap is left without a loop only by one that signs off.
* `QueueLifeProofs!RecordsGoAtTheEnd`, assuming `MaxCalls <= 1`: a record leaves the log only
  when its task has ended. The invariant `Deleting` says that who deletes has recorded the end,
  and `Once` that a task which was never saved has no copy anywhere: enqueueing an id again
  would reset its outcome under a worker that still deletes the record of before.
* `QueueLifeProofs!ParentsEnd`, assuming in addition `ParentsFirst`: `Families` says that the
  parents of an enqueued task are stored or ended, and that those of a task that has passed
  the sweep's tests have ended. It follows a copy from the heap to the handler (`Started`).
* `QueueLifeProofs!EndedNotRunAgain`, assuming `~TTLExpires`: `Past` says that no worker
  beyond `Check` has a completed task, which is `OnePlace` at work: only the one worker of
  the task could have completed it meanwhile. After an eviction an old copy does run.
* `QueueLifeProofs!TwinsExclude`, assuming no failing writes, no evictions and `Limited = {}`:
  each pending task, and each that is still carried through the engine, holds its hash, and
  no two hold the same (`HashesActive`, `HoldersApart`). A denied copy would be saved again
  after its hash was freed, and a deletion that fails leaves the record when its hash is
  gone; both let a twin in.
* `QueueLifeProofs!AttemptsBound`, assuming all that, `MaxCalls <= 1` and one sweep: with
  a stored count `h` the handler was called at most `2h + 1` times (`Level`). A sweep's snapshot can hold one
  copy that is older than the record, by one count; while it does, nothing of the task is
  waiting or called, and once it is used up there is none until the next attempt is
  counted. Two sweeps can hold two such copies, and a retry that is not written repeats
  its attempt. The bound `2 * max_retries - 1` is reached (`queue_extra_attempt`).
* `QueueLifeProofs!LeakedHaveEnded`, assuming `~TTLExpires`: a worker lets go of its task by its
  guard, or by skipping it as completed (`BusyStep`), so only such a mark outlives its call.
* `QueueLifeProofs!GoneNotRunAgain`, assuming `~TTLExpires`, restarts and failing writes included:
  the deletion comes after `completed_tasks` (`DeletesCompleted`), so that a task which has
  ended and is in neither has no copy (`OffRecord`).
* `QueueLifeProofs!HashesGivenBack`, assuming `MaxCalls <= 1`: `Kept` names for every active hash
  a task that took it (`claimed`) and has a reason to keep it; only `Unhash` ends the last such
  reason (`KeepsStep`). A duplicate that was dropped is no such task.
* `QueueLifeProofs!LifeImplemented`, assuming `MaxCalls <= 1`, `ParentsFirst`, `~WritesFail`,
  `~TTLExpires` and `Limited = {}`, restarts included: the engine implements `TaskLife`.
  The inductive invariant `Living` collects the above and adds that a task with a copy and no
  end is stored (`OnRecord`), that what is past a sweep has parents that are over and stay so
  (`Orderly`, `OverStays`), and what a worker knows of the children it fails (`KidsKnown`).
  One lemma maps each kind of step (`CallLives` to `Start`, `SaveLives` to `Yield`, and so
  on); `StillLives` says that all others are invisible.
* `QueueLifeProofs!CycleTestExact`: a fact about `Cyclic` in any state. If the stored tasks are
  free of circles, the test refuses a task exactly when it would close one.
* `QueueLifeProofs!NeverInACircle`, assuming `ParentsFirst`: stored tasks never wait for each other
  in a circle and the test refuses nobody, although test and save are two critical
  sections. By induction on what was ever enqueued: it waits for what was enqueued before
  (`FamilyTree`). Without `ParentsFirst` two callers can store a circle.
* `FileStoreProofs!TypeCorrect`: `Spec => []TypeOK`, without assumptions.
* `FileStoreProofs!LogKeeps`, `CountersAreExact`, assuming `TornTails = {}`: a restart reads what
  was acknowledged, and the counters are those of the log. The inductive invariant `Sound`
  adds to the shape of the log that the cache is its latest lines (`CacheIsOnDisk`) and what
  a compaction and a deletion in progress may still rely on (`Tidy`, `Exact`). Appending
  a line and rewriting the log in any order are shown to keep the latest line of every
  task. With torn tails acknowledged records are lost (`file_store_torn`).
* `FileStoreProofs!StoreImplemented`, assuming in addition `~ClockSteps`: `FileStore` implements
  `TaskStore`. When the clock steps back during a compaction, an older record can win.
* `MembershipProofs!TypeCorrect`: `Spec => []TypeOK`.
* `MembershipProofs!VersionsTell`: the version a daemon was told is the one on file only
  while it owns the shard; no assumption on clocks. The inductive invariant adds that
  no remembered version is from the future.
* `MembershipProofs!BelievedRecorded`, `LeasesExclude`, `NoTakeoverIsEarly`: assuming
  `MaxSkew <= Margin`, a daemon whose lease runs on its own clock is the owner on file;
  two daemons never believe in one shard; a claim is taken only by its owner's call or
  after its expiry on the owner's clock. The invariant adds `Setting`: the clocks are
  close, a call's time is not from the future, and who gives a shard up believes no
  more. `Effect` sorts every step into one that keeps the file, gives a shard or takes
  one. `LapsedForOwner` is the arithmetic: the challenger's old time is at most its
  clock, its clock at most the owner's plus the skew, so a lease that lapsed beyond the
  margin has expired for the owner.
* `RateLimiterProofs!TypeCorrect`, `EveryGrantCounted`: the inductive invariant adds what a
  draft knows: it starts from the windows on file, or from none when it read none, and
  the lock keeps every other caller out until it is written; a grant's number is that of
  its draft, hence above those of all grants before it.
* `RateLimiterProofs!TwicePerWindow`: the arithmetic. Two windows of one epoch start at least
  `Window` apart, so the grants of any `Window` ticks fall into at most two of them, and
  into one more for each loss; they are numbered, hence at most `Limit` in each.
* `ShardedQueueProofs!TypeCorrect`, `LeasesImplemented`: every step of a daemon is a step of
  `Membership` or leaves the leases alone, so what is proved of any users of
  `membership.json` holds of the heartbeats.
* `ShardedQueueProofs!HeartbeatsExclude`, assuming `MaxSkew <= Margin`: through that refinement,
  no two heartbeats believe in one shard at once, and a shard is taken from a daemon only
  after its lease has run out on its own clock, so that an overrun is always a late renewal.
* `ShardedQueueProofs!MapServed`, `MapBelieved`: what is in the map runs and is not ending
  (`Serving`); a shard stays in the map over a round only if its claim succeeded in that
  round (`Keeping`), and a claim is believed from then on (`LockKeeping`).
* `ShardedQueueProofs!PanicsNot`: while nothing was overrun and no call failed (`Calm`), who
  runs an engine, or holds a `.lock`, is the owner on file, and whoever has a `.lock` has the
  shard in hand. Hence a claim that is granted finds no `.lock` taken, no claim is given
  back, and a shard that is new has no engine when `Start` comes.
* `ShardedQueueProofs!EnginesMapped`: a round gets to every shard that the daemon has an engine
  for and claims it (`Round`, `Rounds`); under `Calm` the claim is granted and believed, so
  the reconciliation at the end of the round keeps the engine in the map.
* `ShardedQueueProofs!ClaimedIsServed`: without deaths in addition, who owns a shard has it in
  the map or is about to start it (`Young`, `ServingClaims`); a renewal never needs to.
* `RecordProofs!EnginesKnow`: between `Open` and `Start` the log does not grow, because under
  `Calm` nobody else has an engine for it (`Knowing`).
* `RecordProofs!BootsTogether`, `RecordsKept`: only the holder of `.membership.lock` moves the
  log, and finds it where `detect_layout` saw it unless a daemon died after the move
  (`Boots`); as long as no log was moved from under a running engine, the records of a log and
  of the one that is yet to be adopted add up to what was acknowledged (`Adopted`, `Apart`).

No other theorem about `ShardedQueue` assumes anything about clocks: an overrun lease is
excluded by what happened (`overrun`), not by timing.

Every property of a passing run is a theorem, but for the one about progress. The assumptions on `Queue`'s constants
hold of the instance that checks the property. Dropped one by one, on one or two tasks, TLC
refutes the property in each case but one: `AttemptsBound` uses `MaxCalls <= 1`, and no
instance tried with two calls of `enqueue` exceeds its bound. (`WakeupsLostAtExit` and the
two theorems about counts need finite sets only to speak of their sizes.) For `HashesGivenBack`
the counterexample with two calls also needs a write that fails.
Liveness and the fairness argument stay with TLC, as TLAPS does not do `ENABLED`.

## 5. Seen while modelling, without a run of their own

* A timed-out handler keeps running (`Linger`) beside its retry: a pool can have more
  running handlers than permits; `README.md:158` says that the worker slot is freed and the
  task cancelled.
* `max_retries` counts attempts, as `queue.rs:514` says, and `README.md:144` counts retries.
* `detect_cycle` and `save_task` are two critical sections: two callers can store a cycle, if
  one enqueues a task before those that it waits for (`NeverInACircle`).
* A payload hash claimed at `queue.rs:216` is kept when the cycle test or the save
  fails, and when a child is blocked: later tasks like it are dropped until a restart.
  `HashesFreed` says that there is no fourth way.
* A stale copy of an ended task that the rate limit refuses is saved again
  (`queue.rs:364`), after its tombstone.
* The absence of a parent is taken for its success (`queue.rs:283`), not only by old copies
  (`queue_failed_parent`): a task enqueued after its parent was dead-lettered runs, and so does
  the child of a task that was blocked; `README.md:155` says that a task waits for its parents
  "to successfully complete". A restart between a dead letter and the tombstone of the
  parent runs the parent again, its children being gone.
* `README.md:149` calls the rate limit a rolling 60-second window; windows are fixed, and twice
  the limit may pass within 60 seconds (`AtMostTwicePerWindow` is tight).
* `rate_limiter.rs:23` replaces the last component of the path it is given, so the shards of
  a directory share one `rate_limits.json`; `sharded_queue.rs:182` means to partition it.
* A shard that is lost is dropped from the map (`sharded_queue.rs:231-242`, "SnerdQueue will be
  dropped, dropping its `_storage_lock`"), but the polling loop and the dispatchers hold
  clones of it and its stop flag is not set: the engine goes on and keeps the log locked.
* `sharding.rs:161` says that a `.lock` is held for the lifetime of the engine; it is dropped
  before `SnerdQueue::new` (`sharded_queue.rs:188`). So a takeover from a daemon that is alive
  is noticed only by the panic of the new owner's heartbeat (`overrun` in `NoPanic`).
* A shutdown in the middle of a heartbeat is followed by engines that nobody stops, and no
  shutdown releases a claim (`README.md:367`): the others wait for the lease to lapse.
* A daemon that is restarted under its name within the lease renews its claims and starts no
  engine (`sharded_queue.rs:148`), for as long as it goes on renewing.
* The adoption probes the `.lock` of the root directory; a `SnerdQueue` locks
  `tasks.log.lock` instead (`queue.rs:124-146`). It opens its log by name with each save, so
  one that still runs when its log is moved makes a new `tasks/tasks.log` beside the sharded
  directory, whose records no daemon will ever read. `sharding.rs:79-82` concludes from the
  probe that no legacy daemon is active, and `sharding.rs:75-76` that no data can be lost.
  `NoRecordLost` excepts this case (`beside`); without the exception TLC refutes it.
* A torn line that is not UTF-8 hides the rest of the log (`TornTails = {"stop"}`), and a
  clock that steps back during compaction lets an older record win (`ClockSteps`).

## 6. Not modelled

Cron parsing and JSON (formats); the HTTP of webhooks and of the dashboard (pure I/O: a
webhook is a call that succeeds or fails); the text of errors and progress messages;
`write_membership_atomic`, which nothing calls; `route_shard`, a hash, which is left to the
choice of the shard in `Save`. The dashboard changes no state of the queue.

Of the sharded queue, the registration of handlers, and the heaps, semaphores and counts
that the engines of one daemon share (`sharded_queue.rs:190-197`). Two copies of `Queue` over
one heap are beyond what TLC can exhaust; that a dispatcher of one shard saves and deletes
tasks of another in its own log is seen from the code alone. Deletion of `membership.json`
and clocks that step are not modelled. The engine of an unsharded directory is not started
again after it has ended, and a save of it is one step, while the code opens the log by name
and then writes: one that has the log open when it is moved still writes to the moved file.

## 7. Plan

Done: the engine, its log, the leases, the rate limiter, and the daemons that compose the
leases with the layout and with engines; the refinements of `TaskLife`, `TaskStore` and
`Membership`; all safety properties are proved. Left, in order:

1. `AttemptsBound` without its assumptions on writes and sweeps, with a bound that counts
   the failed writes and the sweeps.
2. Shared heaps: two logs under one dispatcher, with records reduced to their home.
