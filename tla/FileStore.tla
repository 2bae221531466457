----------------------------- MODULE FileStore -----------------------------
(***************************************************************************)
(* FileStore (src/file_store.rs): the append-only task log, the cache of   *)
(* the latest record of every task, and compaction.  Whoever writes holds  *)
(* file_lock from the append to the update of the cache, so a save is one  *)
(* step unless a crash or an I/O error cuts it short; delete_task reads    *)
(* the cache before it takes the lock, and compaction runs in a task of    *)
(* its own.  A record is its task and a value; None is a tombstone.        *)
(***************************************************************************)
EXTENDS Integers, Sequences, FiniteSets

CONSTANTS
  Task, Val, None,
  TornTails,     \* what a write cut short leaves: a subset of {"whole", "junk", "stop"}
  ClockSteps,    \* may the clock step back while a compaction parses the log?
  CompactAfter,  \* appends after which a save asks for compaction (10000 in the code)
  SizeLimit,     \* length of the log from which a save asks for compaction (20 MB)
  MaxLog,        \* bound: lines of the log
  MaxDeletes,    \* bound: calls of delete_task in flight for one task
  MaxFailures,   \* bound: writes that fail in a process that goes on
  MaxCrashes     \* bound: restarts

ASSUME StoreAssumption == None \notin Val /\ TornTails \subseteq {"whole", "junk", "stop"}
ASSUME ClockAssumption == ClockSteps \in BOOLEAN
ASSUME LimitAssumption == CompactAfter \in Nat /\ SizeLimit \in Nat
ASSUME BoundAssumption == {MaxLog, MaxDeletes, MaxFailures, MaxCrashes} \subseteq Nat

VARIABLES
  log,           \* the lines of the file
  open,          \* has the last line no newline yet?
  cache,         \* tasks_cache
  total, deleted, appended,     \* total_tasks, deleted_tasks, append_count
  deleting,      \* delete_task calls that found their task in the cache
  asked,         \* has a compaction been spawned that has not started?
  compactor,     \* the compaction whose flag is set: "idle", "begun" or "over"
  failures, crashes,            \* failed writes and restarts so far
  call, doubt    \* history: the last save or delete; what failed writes of a task wrote

counters == <<total, deleted, appended>>
history == <<call, doubt>>
vars == <<log, open, cache, counters, deleting, asked, compactor, failures, crashes, history>>

Data == Val \cup {None}
NoDoubt == [t \in Task |-> {}]
Line(t, v) == [kind |-> "record", id |-> t, val |-> v]
\* A torn line parses as nothing; "stop" is torn inside a character, and not UTF-8.
Torn(kind) == [kind |-> kind, id |-> None, val |-> None]

----------------------------------------------------------------------------
(* Reading the log *)

\* reader.lines().map_while(Result::ok): up to the first line that is not UTF-8.
Readable(lines) ==
  {i \in DOMAIN lines : \A j \in 1..i : lines[j].kind # "stop"}

Records(lines) == {i \in Readable(lines) : lines[i].kind = "record"}
About(lines, t) == {i \in Records(lines) : lines[i].id = t}
Live(lines) == {i \in Records(lines) : lines[i].val # None}
Dead(lines) == {i \in Records(lines) : lines[i].val = None}

\* (Mutant: a tombstone does not hide the records before it.)
LatestLive(lines, t) ==
  IF About(lines, t) \cap Live(lines) = {} THEN None
  ELSE lines[CHOOSE i \in About(lines, t) \cap Live(lines) :
               \A j \in About(lines, t) \cap Live(lines) : j <= i].val

\* The last record of a task, a tombstone or not.
Latest(lines, t) ==
  IF About(lines, t) = {} THEN None
  ELSE lines[CHOOSE i \in About(lines, t) : \A j \in About(lines, t) : j <= i].val

Replay(lines) == [t \in Task |-> Latest(lines, t)]

----------------------------------------------------------------------------
(* Writing.  writeln! writes the record and its newline in two calls.      *)

\* A record appended after an unfinished line becomes part of that line, and two
\* records on a line parse as none.
WithLine(lines, line) ==
  IF open
  THEN [lines EXCEPT ![Len(lines)] = Torn(IF @.kind = "stop" THEN "stop" ELSE "junk")]
  ELSE Append(lines, line)

\* What is on the disk after a write of the record (t, v) was cut short.
Cut(t, v) ==
  \/ UNCHANGED <<log, open>>
  \/ log' = WithLine(log, Line(t, v)) /\ open' = FALSE
  \/ \E torn \in TornTails :
       /\ log' = WithLine(log, IF torn = "whole" THEN Line(t, v) ELSE Torn(torn))
       /\ open' = TRUE

ShouldCompact ==
  \/ Len(log) > SizeLimit
  \/ total > 0 /\ 2 * deleted > total
  \/ appended >= CompactAfter

\* (Mutant: total_tasks counts the live tasks, and a tombstone ends one.)
CountLive(v) ==
  /\ appended' = appended + 1
  /\ total' = IF v = None THEN total - 1 ELSE total + 1
  /\ deleted' = IF v = None THEN deleted + 1 ELSE deleted

Count(v) ==
  /\ appended' = appended + 1
  /\ total' = IF v = None THEN total ELSE total + 1
  /\ deleted' = IF v = None THEN deleted + 1 ELSE deleted

\* save_task_inner that succeeds: log, sync, cache, counters.
Store(t, v) ==
  /\ log' = WithLine(log, Line(t, v)) /\ open' = FALSE
  /\ cache' = [cache EXCEPT ![t] = v]
  /\ Count(v)
  /\ call' = [id |-> t, val |-> v, result |-> "ok"]
  /\ doubt' = [doubt EXCEPT ![t] = {}]
  /\ UNCHANGED failures

\* (Mutant: the cache is updated before the write that fails.)
FailLate(t, v) ==
  /\ failures < MaxFailures /\ failures' = failures + 1
  /\ Cut(t, v)
  /\ cache' = [cache EXCEPT ![t] = v]
  /\ call' = [id |-> t, val |-> v, result |-> "error"]
  /\ doubt' = [doubt EXCEPT ![t] = @ \cup {v}]
  /\ UNCHANGED counters

\* The append or its sync fails: Err, and the cache is as before.
Fail(t, v) ==
  /\ failures < MaxFailures /\ failures' = failures + 1
  /\ Cut(t, v)
  /\ call' = [id |-> t, val |-> v, result |-> "error"]
  /\ doubt' = [doubt EXCEPT ![t] = @ \cup {v}]
  /\ UNCHANGED <<cache, counters>>

Save(t, v) ==
  /\ Len(log) < MaxLog
  /\ \/ Store(t, v) /\ asked' = (asked \/ ShouldCompact')
     \/ Fail(t, v) /\ UNCHANGED asked
  /\ UNCHANGED <<deleting, compactor, crashes>>

\* delete_task looks at the cache, then writes a tombstone and asks for no compaction.
DeleteRead(t) ==
  /\ cache[t] # None /\ deleting[t] < MaxDeletes
  /\ deleting' = [deleting EXCEPT ![t] = @ + 1]
  /\ UNCHANGED <<log, open, cache, counters, asked, compactor, failures, crashes, history>>

DeleteWrite(t) ==
  /\ deleting[t] > 0 /\ Len(log) < MaxLog
  /\ deleting' = [deleting EXCEPT ![t] = @ - 1]
  /\ Store(t, None) \/ Fail(t, None)
  /\ UNCHANGED <<asked, compactor, crashes>>

----------------------------------------------------------------------------
(* compact_log.  Each line is stamped with the time it is parsed, and a     *)
(* record replaces an older one only if its stamp is later.  When the clock *)
(* steps back before line `back`, no line from there on is later than one   *)
(* before it.                                                               *)

SinceTombstone(lines, t) ==
  {i \in About(lines, t) : \A j \in About(lines, t) : j >= i => lines[j].val # None}

\* The last of the early lines, or of all of them when none is early.
Kept(lines, t, back) ==
  LET all == SinceTombstone(lines, t)
      early == {i \in all : i < back}
      candidates == IF early = {} THEN all ELSE early
  IN  IF all = {} THEN None
      ELSE lines[CHOOSE i \in candidates : \A j \in candidates : j <= i].val

\* (Mutant: tombstones are counted on after a compaction.)
KeepDeleted(n) == total' = n /\ UNCHANGED deleted /\ appended' = 0
ResetCounters(n) == total' = n /\ deleted' = 0 /\ appended' = 0

\* A spawned compaction starts, or finds another one's flag set and returns.
CompactBegin ==
  /\ asked /\ asked' = FALSE
  /\ compactor' = IF compactor = "idle" THEN "begun" ELSE compactor
  /\ UNCHANGED <<log, open, cache, counters, deleting, failures, crashes, history>>

\* The kept records, in any order, go to a temporary file that replaces the log.
CompactRewrite ==
  /\ compactor = "begun" /\ compactor' = "over"
  /\ \E back \in {1} \cup IF ClockSteps THEN DOMAIN log ELSE {} :
       LET kept == {t \in Task : Kept(log, t, back) # None}
       IN  /\ \E order \in [1..Cardinality(kept) -> kept] :
                /\ \A i, j \in DOMAIN order : order[i] = order[j] => i = j
                /\ log' = [i \in DOMAIN order |-> Line(order[i], Kept(log, order[i], back))]
           /\ cache' = [t \in Task |-> Kept(log, t, back)]
           /\ ResetCounters(Cardinality(kept))
  /\ open' = FALSE /\ doubt' = NoDoubt
  /\ UNCHANGED <<deleting, asked, failures, crashes, call>>

\* An I/O error before the rename: everything is left as it was.
CompactFails ==
  /\ compactor = "begun" /\ compactor' = "over"
  /\ failures < MaxFailures /\ failures' = failures + 1
  /\ UNCHANGED <<log, open, cache, counters, deleting, asked, crashes, history>>

\* The flag is cleared after file_lock has been released.
CompactEnd ==
  /\ compactor = "over" /\ compactor' = "idle"
  /\ UNCHANGED <<log, open, cache, counters, deleting, asked, failures, crashes, history>>

----------------------------------------------------------------------------
\* The process dies, perhaps in the middle of a write, and FileStore::new reads the log.
Crash ==
  /\ crashes < MaxCrashes /\ crashes' = crashes + 1
  /\ \/ UNCHANGED <<log, open, call>>
     \/ \E t \in Task, v \in Data :
          /\ Len(log) < MaxLog
          /\ Cut(t, v)
          /\ call' = [id |-> t, val |-> v, result |-> "crash"]
  /\ cache' = Replay(log')
  /\ total' = Cardinality(Live(log')) /\ deleted' = Cardinality(Dead(log'))
  /\ appended' = total' + deleted'
  /\ deleting' = [t \in Task |-> 0] /\ asked' = FALSE /\ compactor' = "idle"
  /\ doubt' = NoDoubt /\ UNCHANGED failures

Init ==
  /\ log = <<>> /\ open = FALSE /\ cache = [t \in Task |-> None]
  /\ total = 0 /\ deleted = 0 /\ appended = 0
  /\ deleting = [t \in Task |-> 0] /\ asked = FALSE /\ compactor = "idle"
  /\ failures = 0 /\ crashes = 0
  /\ call = None /\ doubt = NoDoubt

Next ==
  \/ \E t \in Task, v \in Val : Save(t, v)
  \/ \E t \in Task : DeleteRead(t) \/ DeleteWrite(t)
  \/ CompactBegin \/ CompactRewrite \/ CompactFails \/ CompactEnd
  \/ Crash

Spec == Init /\ [][Next]_vars
----------------------------------------------------------------------------
(* Properties *)

\* The types of the variables; no counter ever goes below zero.
TypeOK ==
  /\ log \in Seq([kind : {"record", "junk", "stop"}, id : Task \cup {None}, val : Data])
  /\ open \in BOOLEAN /\ cache \in [Task -> Data]
  /\ total \in Nat /\ deleted \in Nat /\ appended \in Nat
  /\ deleting \in [Task -> Nat] /\ asked \in BOOLEAN
  /\ compactor \in {"idle", "begun", "over"}
  /\ failures \in Nat /\ crashes \in Nat /\ doubt \in [Task -> SUBSET Data]

\* What has been acknowledged is what a restart reads from the log, and the log never
\* says more than that and what failed writes left (file_store.rs:36-73, 86-131, 212-283).
CacheIsOnDisk ==
  \A t \in Task : Latest(log, t) \in {cache[t]} \cup doubt[t]

\* The counters of should_compact are those of the log, less the failed writes
\* (file_store.rs:64-70, 115-120, 192-210, 267-269).
CountersExact ==
  /\ total <= Cardinality(Live(log)) /\ deleted <= Cardinality(Dead(log))
  /\ appended <= total + deleted
  /\ failures = 0 => total + deleted = Len(log)

\* The store is the map the engine takes it for, over failed writes, deletes that race,
\* compactions and restarts (file_store.rs:86-131, 172-190, 212-283).
TS == INSTANCE TaskStore WITH db <- cache
ImplementsTaskStore == TS!Spec
=============================================================================
