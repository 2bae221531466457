------------------------------- MODULE Layout -------------------------------
(***************************************************************************)
(* resolve_layout (src/sharding.rs): what a daemon does when it boots on a *)
(* directory that is a sharded queue, the storage of one unsharded queue,  *)
(* or new.  The storage is adopted under .membership.lock: its log is      *)
(* moved into shard-0 and membership.json is created, with a crash         *)
(* possible between any two of these.  Meanwhile the SnerdQueue of that    *)
(* storage may still be running and saving: it has tasks.log.lock locked,  *)
(* which nobody else looks at, and never takes the root .lock.             *)
(***************************************************************************)
EXTENDS Integers

CONSTANTS
  Daemon,
  Shard,         \* the shards there can be
  First,         \* "shard-0"
  Requested,     \* Requested[d]: the shards that d asks for
  None,
  MaxLines       \* bound: records saved in one log

VARIABLES
  created,       \* is there a membership.json?
  total,         \* its shards
  root,          \* records in tasks/tasks.log, or None
  log,           \* log[s]: records in the log of shard s, or None
  holder,        \* who is inside with_lock_held for several steps, or None
  boot,          \* where each daemon is in resolve_layout
  legacy,        \* is the SnerdQueue on tasks/tasks.log still running?
  saved,         \* history: saved[s]: records acknowledged that belong to s
  beside         \* history: was its log moved while it was running?

layout == <<created, total, root, log, holder, boot, legacy, saved, beside>>

Goto(d, at) == boot' = [boot EXCEPT ![d] = at]

----------------------------------------------------------------------------
\* detect_layout, without the lock, and in the sharded case the load.
Detect(d) ==
  /\ boot[d] = "start"
  /\ created => holder = None
  /\ Goto(d, IF created THEN "up" ELSE IF root # None THEN "legacy" ELSE "fresh")
  /\ UNCHANGED <<created, total, root, log, holder, legacy, saved, beside>>

\* (Mutant: the layout is not detected again under the lock.)
NotAgain == FALSE
AdoptedMeanwhile == created

\* (Mutant: membership.json is created before the log is moved.)
AdoptInitFirst(d) ==
  /\ boot[d] = "legacy" /\ holder = None /\ ~created
  /\ created' = TRUE /\ total' = {First}
  /\ Goto(d, "move") /\ holder' = d
  /\ UNCHANGED <<root, log, legacy, saved, beside>>

\* The lock is taken; some other program may hold the root .lock, and the probe then refuses.
Adopt(d) ==
  /\ boot[d] = "legacy" /\ holder = None
  /\ \/ AdoptedMeanwhile /\ Goto(d, "up") /\ UNCHANGED holder
     \/ ~AdoptedMeanwhile /\ Goto(d, "refused") /\ UNCHANGED holder
     \/ ~AdoptedMeanwhile /\ Goto(d, "move") /\ holder' = d
  /\ UNCHANGED <<created, total, root, log, legacy, saved, beside>>

\* rename: what was in shard-0 is replaced; a log that is not there is an error.
MoveLog(d) ==
  /\ boot[d] = "move"
  /\ \/ /\ root # None
        /\ log' = [log EXCEPT ![First] = root] /\ root' = None
        /\ beside' = (beside \/ legacy)
        /\ Goto(d, "init") /\ UNCHANGED holder
     \/ root = None /\ Goto(d, "failed") /\ holder' = None /\ UNCHANGED <<root, log, beside>>
  /\ UNCHANGED <<created, total, legacy, saved>>

\* The root .lock has been moved too; membership.json appears, with one shard, unless it
\* is there.
CreateAdopted(d) ==
  /\ boot[d] = "init"
  /\ ~created /\ created' = TRUE /\ total' = {First}
  /\ Goto(d, "up") /\ holder' = None
  /\ UNCHANGED <<root, log, legacy, saved, beside>>

JoinFresh(d) ==
  /\ boot[d] = "fresh" /\ holder = None /\ created
  /\ Goto(d, "up")
  /\ UNCHANGED <<created, total, root, log, holder, legacy, saved, beside>>

CreateFresh(d) ==
  /\ boot[d] = "fresh" /\ holder = None /\ ~created
  /\ created' = TRUE /\ total' = Requested[d]
  /\ Goto(d, "up")
  /\ UNCHANGED <<root, log, holder, legacy, saved, beside>>

\* The process dies, in a boot or after it, and starts again.
Reboot(d) ==
  /\ Goto(d, "start")
  /\ holder' = IF holder = d THEN None ELSE holder
  /\ UNCHANGED <<created, total, root, log, legacy, saved, beside>>

----------------------------------------------------------------------------
(* The engine of before: each save opens tasks/tasks.log by its name, and  *)
(* makes it anew if it is gone.                                            *)

LegacySave ==
  /\ legacy
  /\ root' = IF root = None THEN 1 ELSE root + 1
  /\ root' <= MaxLines
  /\ saved' = [saved EXCEPT ![First] = @ + 1]
  /\ UNCHANGED <<created, total, log, holder, boot, legacy, beside>>

LegacyExit ==
  /\ legacy /\ legacy' = FALSE
  /\ UNCHANGED <<created, total, root, log, holder, boot, saved, beside>>

\* A new directory, or one with an empty log that its engine may still be using.
Init ==
  /\ beside = FALSE
  /\ created = FALSE /\ total = {} /\ log = [s \in Shard |-> None] /\ holder = None
  /\ boot = [d \in Daemon |-> "start"] /\ saved = [s \in Shard |-> 0]
  /\ root \in {None, 0}
  /\ legacy \in (IF root = None THEN {FALSE} ELSE BOOLEAN)

Resolve(d) ==
  Detect(d) \/ Adopt(d) \/ MoveLog(d) \/ CreateAdopted(d) \/ JoinFresh(d) \/ CreateFresh(d)

Next ==
  \/ \E d \in Daemon : Resolve(d) \/ Reboot(d)
  \/ LegacySave \/ LegacyExit

Spec == Init /\ [][Next]_layout
----------------------------------------------------------------------------
(* Properties *)

Lines(n) == IF n = None THEN 0 ELSE n

\* The types of the variables; only who adopts holds the lock for several steps.
TypeOK ==
  /\ created \in BOOLEAN /\ total \subseteq Shard /\ {legacy, beside} \subseteq BOOLEAN
  /\ root \in Nat \cup {None} /\ log \in [Shard -> Nat \cup {None}]
  /\ saved \in [Shard -> Nat]
  /\ boot \in [Daemon -> {"start", "legacy", "fresh", "move", "init", "up", "refused", "failed"}]
  /\ holder \in Daemon \cup {None}
  /\ \A d \in Daemon : boot[d] \in {"move", "init"} <=> holder = d

\* Unless the engine of before was running when its log was moved, no record that was
\* acknowledged is lost in the adoption, wherever a daemon dies: it is in the log of its shard
\* once a daemon is up, and in one that will be adopted until then (sharding.rs:75-76 "moved
\* atomically (rename) so no data can be lost mid-boot").
NoRecordLost == ~beside =>
  /\ \A s \in Shard : Lines(log[s]) + (IF s = First THEN Lines(root) ELSE 0) = saved[s]
  /\ (\E d \in Daemon : boot[d] = "up") => root = None
  /\ created => \A s \in Shard : saved[s] > 0 => s \in total
=============================================================================
