----------------------------- MODULE Membership -----------------------------
(***************************************************************************)
(* MembershipStore (src/membership.rs): which daemon owns which shard.     *)
(* Every operation reads, changes and atomically replaces membership.json  *)
(* under one flock, so it is one step; but the time it works with is an    *)
(* argument, read from the caller's clock at any time before, and the      *)
(* clocks of two daemons differ.  A daemon believes it has a shard from    *)
(* the call that told it so until its lease runs out on its own clock.     *)
(***************************************************************************)
EXTENDS Integers

CONSTANTS
  Daemon,        \* owner ids
  Shard,         \* the shards of the queue
  None,
  Lease,         \* LEASE_DURATION_SECS
  Margin,        \* SNERD_CLOCK_SKEW_MARGIN
  MaxSkew,       \* how far apart the clocks of two daemons may be
  MaxTime,       \* bound: clock readings
  MaxVersion,    \* bound: mutations of membership.json
  MaxCrashes     \* bound: deaths of daemons

ASSUME TimeAssumption == Lease \in Nat /\ Margin \in Nat /\ MaxSkew \in Nat
ASSUME BoundAssumption == MaxTime \in Nat /\ MaxVersion \in Nat /\ MaxCrashes \in Nat

Claim == [owner : Daemon, expiry : Nat]
Op == {"claim", "revert", "renew", "release"}
Call == [op : Op, shard : Shard, now : Nat]
Belief == [expiry : Nat, version : Nat]    \* what the last successful call told a daemon

ASSUME NoneAssumption == None \notin Claim \cup Call \cup Belief

VARIABLES
  created,           \* is there a membership.json?
  claims, version,  \* what it says
  clock,            \* the daemons' clocks
  call,             \* the operation each daemon is in, or None
  belief,           \* what each daemon believes of each shard, or None
  crashes           \* deaths so far

file == <<created, claims, version>>
vars == <<file, clock, call, belief, crashes>>

NoClaims == [s \in Shard |-> None]
NoBelief == [s \in Shard |-> None]

----------------------------------------------------------------------------
\* (Mutant: the skew margin is forgotten.)
LapsedAtOnce(c, now) == now > c.expiry
Lapsed(c, now) == now > c.expiry + Margin

Owned(s, d) == claims[s] # None /\ claims[s].owner = d

\* init: one-shot.
Initialize ==
  /\ ~created
  /\ created' = TRUE /\ claims' = NoClaims /\ version' = 0
  /\ UNCHANGED <<clock, call, belief, crashes>>

\* A caller passes a time that it has read; a daemon that gives a shard up uses it no more.
Begin(d, op, s, now) ==
  /\ call[d] = None
  /\ now \in 0..clock[d]
  /\ call' = [call EXCEPT ![d] = [op |-> op, shard |-> s, now |-> now]]
  /\ belief' = IF op \in {"revert", "release"} THEN [belief EXCEPT ![d][s] = None] ELSE belief
  /\ UNCHANGED <<file, clock, crashes>>

\* (Mutants: a missing file is taken for an empty one; the version is left alone.)
MutateAnyway(new) == claims' = new /\ version' = version + 1 /\ UNCHANGED created
MutateQuietly(new) == created /\ claims' = new /\ UNCHANGED <<created, version>>

\* mutate: the version is bumped when the mutation succeeds, whatever it changed.
Mutate(new) == created /\ claims' = new /\ version' = version + 1 /\ UNCHANGED created

Finish(d, op, s) ==
  /\ call[d] # None /\ call[d].op = op /\ call[d].shard = s
  /\ version < MaxVersion
  /\ call' = [call EXCEPT ![d] = None]
  /\ UNCHANGED <<clock, crashes>>

\* The caller is the owner from now on, and is told so.
Grant(d, s) ==
  LET expiry == call[d].now + Lease
  IN  /\ Mutate([claims EXCEPT ![s] = [owner |-> d, expiry |-> expiry]])
      /\ belief' = [belief EXCEPT ![d][s] = [expiry |-> expiry, version |-> version']]

\* OwnedByOther, LeaseLost, NotInitialized: the file stays, and the caller has no shard.
Refuse(d, s) ==
  /\ belief' = [belief EXCEPT ![d][s] = None]
  /\ UNCHANGED file

MayClaim(d, s) ==
  created /\ (claims[s] # None => Owned(s, d) \/ Lapsed(claims[s], call[d].now))

\* Claimed, Renewed or TakenOver.
DoClaim(d, s) ==
  /\ Finish(d, "claim", s)
  /\ \/ MayClaim(d, s) /\ Grant(d, s)
     \/ ~MayClaim(d, s) /\ Refuse(d, s)

DoRenew(d, s) ==
  /\ Finish(d, "renew", s)
  /\ \/ Owned(s, d) /\ Grant(d, s)
     \/ ~Owned(s, d) /\ Refuse(d, s)

DoRelease(d, s) ==
  /\ Finish(d, "release", s)
  /\ \/ Owned(s, d) /\ Mutate([claims EXCEPT ![s] = None]) /\ UNCHANGED belief
     \/ ~Owned(s, d) /\ Refuse(d, s)

\* (Mutant: the claim is removed, whoever has it.)
RevertedAny(d, s) == [claims EXCEPT ![s] = None]
Reverted(d, s) == IF Owned(s, d) THEN [claims EXCEPT ![s] = None] ELSE claims

DoRevert(d, s) ==
  /\ Finish(d, "revert", s)
  /\ \/ Mutate(Reverted(d, s)) /\ UNCHANGED belief
     \/ ~created /\ Refuse(d, s)

\* An I/O error before the rename: nothing has changed.
Fail(d) ==
  /\ call[d] # None
  /\ call' = [call EXCEPT ![d] = None]
  /\ UNCHANGED <<file, clock, belief, crashes>>

Crash(d) ==
  /\ crashes < MaxCrashes /\ crashes' = crashes + 1
  /\ call' = [call EXCEPT ![d] = None]
  /\ belief' = [belief EXCEPT ![d] = NoBelief]
  /\ UNCHANGED <<file, clock>>

Tick(d) ==
  /\ clock[d] < MaxTime
  /\ \A e \in Daemon : clock[d] + 1 <= clock[e] + MaxSkew
  /\ clock' = [clock EXCEPT ![d] = @ + 1]
  /\ UNCHANGED <<file, call, belief, crashes>>

Init ==
  /\ created = FALSE /\ claims = NoClaims /\ version = 0
  /\ clock = [d \in Daemon |-> 0]
  /\ call = [d \in Daemon |-> None] /\ belief = [d \in Daemon |-> NoBelief]
  /\ crashes = 0

Next ==
  \/ Initialize
  \/ \E d \in Daemon, s \in Shard :
       \/ \E op \in Op, now \in 0..clock[d] : Begin(d, op, s, now)
       \/ DoClaim(d, s) \/ DoRenew(d, s) \/ DoRelease(d, s) \/ DoRevert(d, s)
  \/ \E d \in Daemon : Fail(d) \/ Crash(d) \/ Tick(d)

Spec == Init /\ [][Next]_vars
----------------------------------------------------------------------------
(* Properties *)

\* The types of the variables; without a file nothing is claimed.
TypeOK ==
  /\ created \in BOOLEAN /\ version \in Nat /\ crashes \in Nat
  /\ claims \in [Shard -> Claim \cup {None}]
  /\ clock \in [Daemon -> Nat]
  /\ call \in [Daemon -> Call \cup {None}]
  /\ belief \in [Daemon -> [Shard -> Belief \cup {None}]]
  /\ ~created => claims = NoClaims /\ version = 0

Believes(d, s) == belief[d][s] # None /\ clock[d] <= belief[d][s].expiry

\* A daemon whose lease has not run out on its own clock is the owner on file, until at
\* least that time (membership.rs:95-98, 208-255, 257-284).
BelievedIsRecorded ==
  \A d \in Daemon, s \in Shard :
    Believes(d, s) => Owned(s, d) /\ belief[d][s].expiry <= claims[s].expiry

\* Two daemons never believe in the same shard at once, provided that their clocks are
\* no further apart than the margin (membership.rs:24-25 "Cross-server clock-skew
\* tolerance before a challenger may take over").
ExclusiveLease ==
  \A d, e \in Daemon, s \in Shard : Believes(d, s) /\ Believes(e, s) => d = e

\* Who sees the version it wrote knows that it still has the shard (membership.rs:64
\* "Bumped on every successful mutation; lets owners detect takeovers").
VersionTells ==
  \A d \in Daemon, s \in Shard :
    belief[d][s] # None /\ belief[d][s].version = version => Owned(s, d)

\* A claim is taken from its owner only by the owner's own call, or once it has expired
\* on the owner's clock, even if the owner is dead (membership.rs:238-247, 257-269).
NoEarlyTakeover ==
  [][\A d \in Daemon, s \in Shard :
       Owned(s, d) /\ ~Owned(s, d)' =>
         call'[d] # call[d] \/ clock[d] > claims[s].expiry]_vars
=============================================================================
