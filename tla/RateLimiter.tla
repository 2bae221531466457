---------------------------- MODULE RateLimiter ----------------------------
(***************************************************************************)
(* check_and_increment (src/rate_limiter.rs) as called by the dispatchers  *)
(* of every queue, in any process, whose task log lies beside the same     *)
(* rate_limits.json: RateLimiter::new replaces the last component of the   *)
(* path it is given, so that all shards of a sharded queue share one file. *)
(*                                                                         *)
(* A call holds the file lock from its reading of the file and the clock   *)
(* to the end; the file is emptied before it is written again.  All        *)
(* callers have the clock of one machine, which does not step.             *)
(***************************************************************************)
EXTENDS Integers, FiniteSets

CONSTANTS
  Caller,        \* dispatcher loops
  Group,         \* rate limit groups
  Limit,         \* Limit[g]: the max_per_minute of the tasks of g
  Window,        \* the 60 seconds of a window
  None,
  MaxTime,       \* bound: readings of the clock
  MaxCalls,      \* bound: calls that get the lock
  MaxLost        \* bound: crashes and errors that cost the windows

ASSUME LimitAssumption == Limit \in [Group -> Nat]
ASSUME WindowAssumption == Window \in Nat \ {0}
ASSUME BoundAssumption == MaxTime \in Nat /\ MaxCalls \in Nat /\ MaxLost \in Nat

RateWindow == [count : Nat, start : Nat]
Windows == [Group -> RateWindow \cup {None}]
\* What a call is about to write and to answer, and whether it read nothing.
Draft == [group : Group, windows : Windows, allow : BOOLEAN, blank : BOOLEAN]

ASSUME NoneAssumption == None \notin RateWindow \cup Draft

VARIABLES
  clock,
  disk,          \* the windows that can be read from the file
  pc, draft,     \* the call of each caller: where, with which draft
  calls, lost,   \* calls so far; times the windows on file were lost
  grants         \* history: each call that returned true, and when

vars == <<clock, disk, pc, draft, calls, lost, grants>>

Grant == [id : Nat, group : Group, epoch : Nat, start : Nat, n : Nat, at : Nat]

\* A file that is empty, torn or unreadable has no windows.
NoWindows == [g \in Group |-> None]

----------------------------------------------------------------------------
\* lock_exclusive.  (Mutant: nobody waits.)
LockIgnored == TRUE
LockFree == \A c \in Caller : pc[c] = "idle"

\* The window that counts now.  (Mutant: it ends one second early.)
CurrentEarly(w, now) ==
  IF w = None \/ now - w.start >= Window - 1 THEN [count |-> 0, start |-> now] ELSE w
Current(w, now) ==
  IF w = None \/ now - w.start >= Window THEN [count |-> 0, start |-> now] ELSE w

\* (Mutant: a new window is not entered into the map.)
DecideUnentered(windows, g, now, blank) ==
  LET w == Current(windows[g], now)
  IN  [group |-> g, allow |-> w.count < Limit[g], blank |-> blank, windows |-> windows]
Decide(windows, g, now, blank) ==
  LET w == Current(windows[g], now)
      allow == w.count < Limit[g]
  IN  [group |-> g, allow |-> allow, blank |-> blank,
       windows |-> [windows EXCEPT
         ![g] = IF allow THEN [count |-> w.count + 1, start |-> w.start] ELSE w]]

\* The lock is taken; the file and the clock are read.  When the read fails the call goes
\* on as if the file were empty.
Enter(c, g) ==
  /\ LockFree /\ pc[c] = "idle" /\ calls < MaxCalls
  /\ pc' = [pc EXCEPT ![c] = "truncate"]
  /\ calls' = calls + 1
  /\ \/ draft' = [draft EXCEPT ![c] = Decide(disk, g, clock, FALSE)]
     \/ lost < MaxLost /\ draft' = [draft EXCEPT ![c] = Decide(NoWindows, g, clock, TRUE)]
  /\ UNCHANGED <<clock, disk, lost, grants>>

Truncate(c) ==
  /\ pc[c] = "truncate"
  /\ disk' = NoWindows
  /\ pc' = [pc EXCEPT ![c] = "write"]
  /\ lost' = IF draft[c].blank THEN lost + 1 ELSE lost
  /\ UNCHANGED <<clock, draft, calls, grants>>

\* (Mutant: the call is not counted.)
WriteUncounted(c) ==
  /\ pc[c] = "write"
  /\ disk' = [draft[c].windows EXCEPT ![draft[c].group].count = @ - 1]
  /\ pc' = [pc EXCEPT ![c] = "unlock"]
  /\ UNCHANGED <<clock, draft, calls, lost, grants>>

Write(c) ==
  /\ pc[c] = "write"
  /\ disk' = draft[c].windows
  /\ pc' = [pc EXCEPT ![c] = "unlock"]
  /\ UNCHANGED <<clock, draft, calls, lost, grants>>

\* The call is over and the lock is free.
Leave(c) ==
  /\ pc' = [pc EXCEPT ![c] = "idle"]
  /\ draft' = [draft EXCEPT ![c] = None]
  /\ UNCHANGED <<clock, calls>>

Answer(c) ==
  /\ pc[c] = "unlock" /\ Leave(c)
  /\ LET g == draft[c].group
         w == draft[c].windows[g]
     IN  grants' = grants \cup
           {x \in {[id |-> calls, group |-> g, epoch |-> lost, start |-> w.start, n |-> w.count,
                    at |-> clock]} : draft[c].allow}
  /\ UNCHANGED <<disk, lost>>

\* An error, or the death of the process, before set_len or after the write.
Stop(c) ==
  /\ pc[c] \in {"truncate", "unlock"} /\ Leave(c)
  /\ UNCHANGED <<disk, lost, grants>>

\* The same between set_len and the end of the write.
StopShort(c) ==
  /\ pc[c] = "write" /\ Leave(c)
  /\ lost < MaxLost /\ lost' = lost + 1
  /\ UNCHANGED <<disk, grants>>

Tick ==
  /\ clock < MaxTime
  /\ clock' = clock + 1
  /\ UNCHANGED <<disk, pc, draft, calls, lost, grants>>

Init ==
  /\ clock = 0 /\ disk = NoWindows
  /\ pc = [c \in Caller |-> "idle"] /\ draft = [c \in Caller |-> None]
  /\ calls = 0 /\ lost = 0 /\ grants = {}

Next ==
  \/ \E c \in Caller :
       \/ \E g \in Group : Enter(c, g)
       \/ Truncate(c) \/ Write(c) \/ Answer(c) \/ Stop(c) \/ StopShort(c)
  \/ Tick

Spec == Init /\ [][Next]_vars
----------------------------------------------------------------------------
(* Properties *)

\* The types of the variables; who is in a call has a draft with a window for its group.
TypeOK ==
  /\ clock \in Nat /\ calls \in Nat /\ lost \in Nat
  /\ disk \in Windows
  /\ pc \in [Caller -> {"idle", "truncate", "write", "unlock"}]
  /\ draft \in [Caller -> Draft \cup {None}]
  /\ \A c \in Caller : draft[c] # None <=> pc[c] # "idle"
  /\ \A c \in Caller : draft[c] # None => draft[c].windows[draft[c].group] # None
  /\ grants \subseteq Grant

Within(g, T) == {x \in grants : x.group = g /\ T <= x.at /\ x.at < T + Window}

\* Windows are fixed, not rolling, and a lost file starts new ones: in any 60 seconds the
\* grants of at most two windows meet, and of one more for each loss
\* (rate_limiter.rs:56-69, 71-74).
AtMostTwicePerWindow ==
  \A g \in Group, T \in 0..clock : Cardinality(Within(g, T)) <= (2 + lost) * Limit[g]

\* No call overwrites another's count: the grants of one window have different numbers, up
\* to the limit, and the window on file counts them all (rate_limiter.rs:38, 66-74).
GrantsCounted ==
  /\ \A x, y \in grants :
       (x.group = y.group /\ x.epoch = y.epoch /\ x.start = y.start /\ x.n = y.n) => x = y
  /\ \A x \in grants : x.n \in 1..Limit[x.group]
  /\ \A x \in grants :
       (x.epoch = lost /\ disk[x.group] # None /\ disk[x.group].start = x.start)
         => x.n <= disk[x.group].count
=============================================================================
