---------------------------- MODULE ShardedQueue ----------------------------
(***************************************************************************)
(* SnerdShardedQueue (src/sharded_queue.rs), one in each daemon: its boot  *)
(* (module Layout), its heartbeat, which claims shards (module Membership) *)
(* and starts and drops their engines, and its shutdown.  Two files lock a *)
(* shard: its .lock, which the heartbeat takes and drops again, and the    *)
(* lock file of its log, which an engine holds as long as anything of it   *)
(* runs.  An engine is what is left of one SnerdQueue: it reads the log    *)
(* once and appends to it.                                                 *)
(***************************************************************************)
EXTENDS Integers, FiniteSetsExt

CONSTANTS
  Daemon, Shard, None,
  Lease, Margin, MaxSkew, MaxTime, MaxVersion, MaxCrashes,   \* see Membership
  First, Requested, MaxLines,                                \* see Layout
  MaxFaults      \* bound: deaths of daemons and I/O errors of heartbeats, together

ASSUME ShardAssumption == Shard \subseteq Nat /\ First \in Shard
ASSUME RequestAssumption == Requested \in [Daemon -> {R \in SUBSET Shard : First \in R}]
ASSUME FaultsAssumption == MaxFaults \in Nat /\ MaxLines \in Nat
ASSUME NobodyAssumption == None \notin Nat \cup Daemon

VARIABLES
  created, claims, version, clock, call, belief, crashes,    \* see Membership
  total, root, log, holder, boot, legacy, saved, beside,     \* see Layout
  at, now, todo, owned,   \* heartbeats: where, its time, shards left, current_owned
  fresh,                  \* was the shard in hand Claimed or TakenOver, not Renewed?
  lock,                   \* lock[s]: who holds the .lock of s, or None
  mapped,                 \* mapped[d]: the keys of the map of engines
  engine,                 \* engine[d]: the shards whose log an engine of d has locked
  ending,                 \* ending[d]: those whose stop flag is set
  seen,                   \* seen[d][s]: what the engine, or its FileStore, has of the log
  stop,                   \* stop_flag of each daemon
  errors,                 \* I/O errors so far
  overrun                 \* history: has a shard been taken from a daemon that was running?

M == INSTANCE Membership
L == INSTANCE Layout

ASSUME LeaseAssumption == M!TimeAssumption /\ M!BoundAssumption /\ M!NoneAssumption

leases == <<claims, version, clock, call, belief>>
places == <<total, root, log, holder, boot, legacy, saved, beside>>
beats == <<at, now, todo, owned, fresh>>
engines == <<mapped, engine, ending, seen>>
vars == <<created, crashes, leases, places, beats, engines, lock, stop, errors, overrun>>

Goto(d, pc) == at' = [at EXCEPT ![d] = pc]

Error == errors + crashes < MaxFaults /\ errors' = errors + 1

----------------------------------------------------------------------------
(* The boot, and the engine of before. *)

\* init_unlocked, by who creates membership.json.  (Mutant: by whoever boots.)
InitAgain(d) ==
  IF boot'[d] # "up" THEN UNCHANGED <<claims, version>> ELSE claims' = M!NoClaims /\ version' = 0
InitOnce(d) ==
  IF created' = created THEN UNCHANGED <<claims, version>> ELSE M!Initialize

Boot(d) ==
  /\ L!Resolve(d)
  /\ Goto(d, IF boot'[d] = "up" THEN "sleep" ELSE "boot")
  /\ InitOnce(d)
  /\ UNCHANGED <<clock, call, belief, crashes>>
  /\ UNCHANGED <<now, todo, owned, fresh, engines, lock, stop, errors, overrun>>

Legacy ==
  /\ L!LegacySave \/ L!LegacyExit
  /\ UNCHANGED <<crashes, leases, beats, engines, lock, stop, errors, overrun>>

----------------------------------------------------------------------------
(* The heartbeat. *)

\* The shard in hand.
Hand(d) == Min(todo[d])
Done(d) == todo' = [todo EXCEPT ![d] = @ \ {Hand(d)}]

\* A round begins, unless the queue has been shut down; its time is that of all its claims.
Wake(d) ==
  /\ at[d] = "sleep"
  /\ \/ stop[d] /\ Goto(d, "off") /\ UNCHANGED now
     \/ ~stop[d] /\ Goto(d, "load") /\ now' = [now EXCEPT ![d] = clock[d]]
  /\ UNCHANGED <<created, crashes, leases, places, todo, owned, fresh, engines, lock, stop,
                 errors, overrun>>

\* claimable_shards.  (Mutant: what is one's own is left out.)
ClaimableFree(d, s) ==
  s \in total /\ (claims[s] # None => M!Lapsed(claims[s], now[d]))
Claimable(d, s) ==
  s \in total /\ (claims[s] # None => M!Owned(s, d) \/ M!Lapsed(claims[s], now[d]))

Load(d) ==
  /\ at[d] = "load"
  /\ Goto(d, "next")
  /\ \/ todo' = [todo EXCEPT ![d] = {s \in Shard : Claimable(d, s)}] /\ UNCHANGED errors
     \/ Error /\ UNCHANGED todo
  /\ UNCHANGED <<created, crashes, leases, places, now, owned, fresh, engines, lock, stop,
                 overrun>>

BeginClaim(d) ==
  /\ at[d] = "next" /\ todo[d] # {}
  /\ M!Begin(d, "claim", Hand(d), now[d])
  /\ Goto(d, "claim")
  /\ UNCHANGED <<places, now, todo, owned, fresh, engines, lock, stop, errors, overrun>>

\* Does anything of e run that has to do with s?
Running(e, s) == s \in engine[e] \/ at[e] \notin {"boot", "off", "dead"}

\* Is the shard to be started, once claimed: Claimed or TakenOver, and not Renewed.
\* (Mutants: whatever the outcome; only if Claimed.)
FreshAlways(d, s) == TRUE
FreshIfFree(d, s) == claims[s] = None
Fresh(d, s) == ~M!Owned(s, d)

Claim(d) ==
  /\ at[d] = "claim"
  /\ LET s == Hand(d)
     IN  /\ M!DoClaim(d, s)
         /\ IF M!MayClaim(d, s)
            THEN Goto(d, "lock") /\ UNCHANGED todo
            ELSE Goto(d, "next") /\ Done(d)
         /\ fresh' = [fresh EXCEPT ![d] = Fresh(d, s)]
         /\ overrun' = (overrun \/ (/\ claims[s] # None /\ claims[s].owner # d
                                    /\ M!MayClaim(d, s) /\ Running(claims[s].owner, s)))
  /\ UNCHANGED <<places, now, owned, engines, lock, stop, errors>>

ClaimFails(d) ==
  /\ at[d] = "claim"
  /\ M!Fail(d) /\ Error
  /\ Goto(d, "next") /\ Done(d)
  /\ UNCHANGED <<places, now, owned, fresh, engines, lock, stop, overrun>>

\* try_lock_shard.  A shard that was renewed needs no more than a moment of the lock.
TryLock(d) ==
  /\ at[d] = "lock" /\ lock[Hand(d)] = None
  /\ lock' = [lock EXCEPT ![Hand(d)] = d]
  /\ owned' = [owned EXCEPT ![d] = @ \cup {Hand(d)}]
  /\ Goto(d, IF fresh[d] THEN "open" ELSE "unlock")
  /\ UNCHANGED <<created, crashes, leases, places, now, todo, fresh, engines, stop, errors,
                 overrun>>

\* Somebody else has it, or the file can not be opened: the claim is given back.
GiveBack(d) ==
  /\ at[d] = "lock"
  /\ \/ lock[Hand(d)] # None /\ UNCHANGED errors
     \/ Error
  /\ M!Begin(d, "revert", Hand(d), now[d])
  /\ Goto(d, "revert")
  /\ UNCHANGED <<places, now, todo, owned, fresh, engines, lock, stop, overrun>>

Revert(d) ==
  /\ at[d] = "revert"
  /\ \/ M!DoRevert(d, Hand(d)) /\ UNCHANGED errors
     \/ M!Fail(d) /\ Error
  /\ Goto(d, "next") /\ Done(d)
  /\ UNCHANGED <<places, now, owned, fresh, engines, lock, stop, overrun>>

Unlock(d) ==
  /\ at[d] = "unlock"
  /\ lock' = [lock EXCEPT ![Hand(d)] = None]
  /\ Goto(d, "next") /\ Done(d)
  /\ UNCHANGED <<created, crashes, leases, places, now, owned, fresh, engines, stop, errors,
                 overrun>>

\* FileStore::new reads all of the log.  (Mutant: it starts empty.)
ReadNothing(s) == 0
Read(s) == L!Lines(log[s])

\* instantiate_shard, with the map locked to its end: nothing to do when there is an engine;
\* otherwise FileStore::new reads the log, and the .lock is dropped.  An error of the directory
\* or of the log is unwrapped: it ends the heartbeat, whose .lock goes with it.
Open(d) ==
  /\ at[d] = "open"
  /\ LET s == Hand(d)
     IN  /\ lock' = [lock EXCEPT ![s] = None]
         /\ \/ /\ s \in mapped[d]
               /\ Goto(d, "next") /\ Done(d) /\ UNCHANGED <<seen, errors>>
            \/ /\ s \notin mapped[d]
               /\ seen' = [seen EXCEPT ![d][s] = Read(s)]
               /\ Goto(d, "start") /\ UNCHANGED <<todo, errors>>
            \/ s \notin mapped[d] /\ Error /\ Goto(d, "dead") /\ UNCHANGED <<todo, seen>>
  /\ UNCHANGED <<created, crashes, leases, places, now, owned, fresh, mapped, engine, ending,
                 stop, overrun>>

\* The lock of the log, which is its engine's.  (Mutant: the .lock will do.)
NoShardLock(s) == lock[s] = None
NoEngine(s) == \A e \in Daemon : s \notin engine[e]

\* SnerdQueue::new, which panics beside another engine, or if the lock file of the log can not
\* be opened; the heartbeat is then over.
Start(d) ==
  /\ at[d] = "start"
  /\ LET s == Hand(d)
     IN  \/ /\ NoEngine(s)
            /\ engine' = [engine EXCEPT ![d] = @ \cup {s}]
            /\ mapped' = [mapped EXCEPT ![d] = @ \cup {s}]
            /\ Goto(d, "next") /\ Done(d) /\ UNCHANGED errors
         \/ /\ (~NoEngine(s) /\ UNCHANGED errors) \/ Error
            /\ Goto(d, "dead") /\ UNCHANGED <<engine, mapped, todo>>
  /\ UNCHANGED <<created, crashes, leases, places, now, owned, fresh, ending, seen, lock, stop,
                 overrun>>

\* (Mutants: it is over at the first shard; the map forgets nothing.)
RoundCut(d) == at[d] = "next"
RoundOver(d) == at[d] = "next" /\ todo[d] = {}
ForgetNone(d) == mapped[d]
Confirmed(d) == mapped[d] \cap owned[d]

\* reconcile_shards: the map forgets what was not claimed in this round.
Reconcile(d) ==
  /\ RoundOver(d)
  /\ mapped' = [mapped EXCEPT ![d] = Confirmed(d)]
  /\ now' = [now EXCEPT ![d] = 0] /\ owned' = [owned EXCEPT ![d] = {}]
  /\ fresh' = [fresh EXCEPT ![d] = FALSE]
  /\ Goto(d, "sleep")
  /\ UNCHANGED <<created, crashes, leases, places, todo, engine, ending, seen, lock, stop,
                 errors, overrun>>

----------------------------------------------------------------------------
(* Engines, and the end. *)

\* An engine saves, for a caller of enqueue or for itself.
Save(d, s) ==
  /\ s \in engine[d] /\ \A r \in Shard : saved[r] < MaxLines
  /\ log' = [log EXCEPT ![s] = L!Lines(@) + 1]
  /\ seen' = [seen EXCEPT ![d][s] = @ + 1]
  /\ saved' = [saved EXCEPT ![s] = @ + 1]
  /\ UNCHANGED <<created, crashes, leases, total, root, holder, boot, legacy, beside, beats,
                 mapped, engine, ending, lock, stop, errors, overrun>>

\* (Mutant: the map is left as it is.)
NotCleared(d) == mapped[d]
Cleared(d) == {}

\* shutdown: the flag and, once the map is free, those of its engines.  Between these a
\* heartbeat can only find the flag set, as it can before.
Shutdown(d) ==
  /\ boot[d] = "up" /\ ~stop[d] /\ at[d] # "start"
  /\ stop' = [stop EXCEPT ![d] = TRUE]
  /\ ending' = [ending EXCEPT ![d] = @ \cup mapped[d]]
  /\ mapped' = [mapped EXCEPT ![d] = Cleared(d)]
  /\ UNCHANGED <<created, crashes, leases, places, beats, engine, seen, lock, errors, overrun>>

\* The last clone of an engine that was told to stop is dropped.
End(d, s) ==
  /\ s \in ending[d]
  /\ engine' = [engine EXCEPT ![d] = @ \ {s}] /\ ending' = [ending EXCEPT ![d] = @ \ {s}]
  /\ seen' = [seen EXCEPT ![d][s] = 0]
  /\ UNCHANGED <<created, crashes, leases, places, beats, mapped, lock, stop, errors, overrun>>

\* The process dies and is started again under its name: the system frees its locks.
Crash(d) ==
  /\ errors + crashes < MaxFaults
  /\ M!Crash(d) /\ L!Reboot(d)
  /\ Goto(d, "boot")
  /\ now' = [now EXCEPT ![d] = 0] /\ fresh' = [fresh EXCEPT ![d] = FALSE]
  /\ todo' = [todo EXCEPT ![d] = {}] /\ owned' = [owned EXCEPT ![d] = {}]
  /\ lock' = [s \in Shard |-> IF lock[s] = d THEN None ELSE lock[s]]
  /\ mapped' = [mapped EXCEPT ![d] = {}] /\ engine' = [engine EXCEPT ![d] = {}]
  /\ ending' = [ending EXCEPT ![d] = {}] /\ stop' = [stop EXCEPT ![d] = FALSE]
  /\ seen' = [seen EXCEPT ![d] = [s \in Shard |-> 0]]
  /\ UNCHANGED <<errors, overrun>>

Tick(d) ==
  /\ M!Tick(d)
  /\ UNCHANGED <<places, beats, engines, lock, stop, errors, overrun>>

Init ==
  /\ M!Init /\ L!Init
  /\ at = [d \in Daemon |-> "boot"] /\ now = [d \in Daemon |-> 0]
  /\ todo = [d \in Daemon |-> {}] /\ owned = [d \in Daemon |-> {}]
  /\ fresh = [d \in Daemon |-> FALSE]
  /\ lock = [s \in Shard |-> None]
  /\ mapped = [d \in Daemon |-> {}] /\ engine = [d \in Daemon |-> {}]
  /\ ending = [d \in Daemon |-> {}]
  /\ seen = [d \in Daemon |-> [s \in Shard |-> 0]]
  /\ stop = [d \in Daemon |-> FALSE] /\ errors = 0 /\ overrun = FALSE

Heartbeat(d) ==
  \/ Wake(d) \/ Load(d) \/ BeginClaim(d) \/ Claim(d) \/ ClaimFails(d) \/ TryLock(d)
  \/ GiveBack(d) \/ Revert(d) \/ Unlock(d) \/ Open(d) \/ Start(d) \/ Reconcile(d)

Next ==
  \/ \E d \in Daemon :
       \/ Boot(d) \/ Heartbeat(d) \/ Shutdown(d) \/ Crash(d) \/ Tick(d)
       \/ \E s \in Shard : Save(d, s) \/ End(d, s)
  \/ Legacy

Spec == Init /\ [][Next]_vars
----------------------------------------------------------------------------
(* Properties *)

\* The types of the variables; a heartbeat begins once the daemon is up, and has a shard in
\* hand when it is at work on one.
TypeOK ==
  /\ L!TypeOK
  /\ at \in [Daemon -> {"boot", "load", "next", "claim", "lock", "revert", "unlock",
                         "open", "start", "sleep", "off", "dead"}]
  /\ now \in [Daemon -> Nat] /\ fresh \in [Daemon -> BOOLEAN]
  /\ todo \in [Daemon -> SUBSET Shard] /\ owned \in [Daemon -> SUBSET Shard]
  /\ lock \in [Shard -> Daemon \cup {None}]
  /\ mapped \in [Daemon -> SUBSET Shard] /\ engine \in [Daemon -> SUBSET Shard]
  /\ ending \in [Daemon -> SUBSET Shard] /\ seen \in [Daemon -> [Shard -> Nat]]
  /\ stop \in [Daemon -> BOOLEAN] /\ errors \in Nat /\ overrun \in BOOLEAN
  /\ \A d \in Daemon :
       /\ at[d] \in {"claim", "lock", "revert", "unlock", "open", "start"} => todo[d] # {}
       /\ at[d] \in {"boot", "load", "sleep", "off"} => todo[d] = {}
       /\ at[d] = "boot" <=> boot[d] # "up"

\* No engine goes on behind the back of the map, with its log locked and no stop flag: the
\* heartbeat claims all that it has, so that the map forgets an engine only when a shard was
\* taken from a daemon that was running, late by more than its lease, or after an I/O error
\* (sharded_queue.rs:228-242: what the map drops has a polling loop with clones of its own).
NoStrayEngine ==
  (\E d \in Daemon : engine[d] \ (mapped[d] \cup ending[d]) # {}) => overrun \/ errors > 0

\* An engine that enqueue can route a task to is running and is not about to stop, in the
\* middle of a heartbeat or of a shutdown, too (sharded_queue.rs:85-105, 244-252).
MapIsServed == \A d \in Daemon : mapped[d] \subseteq engine[d] \ ending[d]

\* Between two rounds enqueue is offered only shards whose last claim succeeded: one that
\* was lost, in whichever step of the round, is out of the map (sharded_queue.rs:228-242).
MapIsBelieved ==
  \A d \in Daemon, s \in Shard : at[d] = "sleep" /\ s \in mapped[d] => belief[d][s] # None

\* The heartbeat does not run into an engine and die in SnerdQueue::new, unless a shard was
\* taken from a daemon that was running, late by more than its lease, or any call of any
\* heartbeat on its files failed: to read or write membership.json, to open a .lock, a log or
\* its lock file (sharded_queue.rs:179-194, queue.rs:130-141).
NoPanic == (\E d \in Daemon : at[d] = "dead") => overrun \/ errors > 0

\* The log is read before its engine has it locked, and yet, with the same exceptions, an
\* engine knows all of it: nobody writes in between (sharded_queue.rs:181-196).
ReadsCurrent ==
  (\E d \in Daemon : \E s \in engine[d] : seen[d][s] # L!Lines(log[s])) => overrun \/ errors > 0

\* Between two rounds a daemon serves every shard that it keeps from the others, with the same
\* exceptions and one more: from the first death of any daemon on nothing is said, since one
\* restarted within its lease renews it and starts no engine (sharded_queue.rs:135-144).
ClaimsServed ==
  (\E d \in Daemon, s \in Shard :
     at[d] = "sleep" /\ ~stop[d] /\ belief[d][s] # None /\ s \notin mapped[d])
  => overrun \/ errors > 0 \/ crashes > 0

\* Daemons that boot at once do not fail on what another one has moved: only a daemon that
\* died in the adoption leaves a directory no other can adopt (sharding.rs:75-116).
BootsDontRace == (\E d \in Daemon : boot[d] = "failed") => crashes > 0

\* The adoption loses no record, with the same exception, the engines at work on the logs too.
NoRecordLost == L!NoRecordLost

\* The heartbeats use membership.json as module Membership says, so what is proved of any of
\* its users, one owner for a lease and no early takeover, holds of them.  (This is M!Spec; a
\* step that leaves the leases alone is tried first.)
ImplementsMembership == M!Init /\ [][UNCHANGED M!vars \/ M!Next]_M!vars
=============================================================================
