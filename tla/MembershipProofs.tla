-------------------------- MODULE MembershipProofs --------------------------
(***************************************************************************)
(* Theorems about Membership for every value of its constants: the leases  *)
(* of a shard exclude each other when the clocks are no further apart than *)
(* the margin, however long a call waits and whoever dies.                 *)
(***************************************************************************)
EXTENDS Membership, TLAPS

USE TimeAssumption, BoundAssumption, NoneAssumption

\* The clocks are as close as Tick keeps them.
ClocksClose == \A d, e \in Daemon : clock[d] <= clock[e] + MaxSkew

\* A call works with a time of the past.
CallsLag == \A d \in Daemon : call[d] # None => call[d].now <= clock[d]

\* Who gives a shard up believes in it no more.
GivenUp ==
  \A d \in Daemon :
    call[d] # None /\ call[d].op \in {"revert", "release"} => belief[d][call[d].shard] = None

\* No belief is from the future.
BeliefsLag ==
  \A d \in Daemon, s \in Shard : belief[d][s] # None => belief[d][s].version <= version

Setting == ClocksClose /\ CallsLag /\ GivenUp

\* What a step does to the file and to the beliefs: it leaves the file and at most
\* drops beliefs, or gives a shard to its caller, or takes one from its caller.
Keeps ==
  /\ claims' = claims /\ version' = version
  /\ \A d \in Daemon, s \in Shard : belief'[d][s] \in {belief[d][s], None}

Gives(d, s) ==
  /\ MayClaim(d, s) \/ Owned(s, d)
  /\ call[d] # None
  /\ Grant(d, s) /\ UNCHANGED clock

Takes(d, s) ==
  /\ claims' \in {claims, [claims EXCEPT ![s] = None]}
  /\ claims' # claims => Owned(s, d)
  /\ version' = version + 1
  /\ belief[d][s] = None
  /\ call[d] # None /\ call'[d] = None
  /\ UNCHANGED <<belief, clock>>
----------------------------------------------------------------------------

\* No claims and no beliefs are well typed.
LEMMA NothingYet ==
  /\ NoClaims \in [Shard -> Claim \cup {None}]
  /\ NoBelief \in [Shard -> Belief \cup {None}]
  BY DEF NoClaims, NoBelief

\* The types hold initially and in every step.
LEMMA TypesInit == Init => TypeOK
  <1> SUFFICES ASSUME Init PROVE TypeOK
    OBVIOUS
  <1>1. claims \in [Shard -> Claim \cup {None}] BY NothingYet DEF Init
  <1>2. belief \in [Daemon -> [Shard -> Belief \cup {None}]] BY NothingYet DEF Init
  <1>3. call \in [Daemon -> Call \cup {None}] /\ clock \in [Daemon -> Nat] BY DEF Init
  <1>4. created \in BOOLEAN /\ version \in Nat /\ crashes \in Nat BY DEF Init
  <1>5. ~created => claims = NoClaims /\ version = 0 BY DEF Init
  <1> QED BY <1>1, <1>2, <1>3, <1>4, <1>5 DEF TypeOK

\* What a granted claim writes has its type.
LEMMA TypesGrant ==
  ASSUME TypeOK, NEW d \in Daemon, NEW s \in Shard, Grant(d, s), call[d] # None
  PROVE  /\ claims' \in [Shard -> Claim \cup {None}] /\ version' \in Nat /\ created' /\ created
         /\ belief' \in [Daemon -> [Shard -> Belief \cup {None}]]
  <1> DEFINE expiry == call[d].now + Lease
  <1>1. call[d] \in Call BY DEF TypeOK
  <1>2. expiry \in Nat BY <1>1 DEF Call
  <1>3. version' = version + 1 /\ version' \in Nat /\ created' /\ created
    BY DEF Grant, Mutate, TypeOK
  <1>4. [owner |-> d, expiry |-> expiry] \in Claim BY <1>2 DEF Claim
  <1>5. [expiry |-> expiry, version |-> version'] \in Belief BY <1>2, <1>3 DEF Belief
  <1>6. claims' \in [Shard -> Claim \cup {None}] BY <1>4 DEF Grant, Mutate, TypeOK
  <1>7. belief' = [belief EXCEPT ![d][s] = [expiry |-> expiry, version |-> version']]
    BY DEF Grant
  <1> QED BY <1>3, <1>5, <1>6, <1>7 DEF TypeOK

\* A claim that is granted is a claim.
LEMMA GrantedClaim ==
  ASSUME TypeOK, NEW d \in Daemon, call[d] # None
  PROVE  [owner |-> d, expiry |-> call[d].now + Lease] # None
  <1>1. call[d].now + Lease \in Nat BY DEF TypeOK, Call
  <1>2. [owner |-> d, expiry |-> call[d].now + Lease] \in Claim BY <1>1 DEF Claim
  <1> QED BY <1>2, NoneAssumption

\* Every step keeps the types.
LEMMA TypesStep == TypeOK /\ [Next]_vars => TypeOK'
  <1> SUFFICES ASSUME TypeOK, [Next]_vars PROVE TypeOK'
    OBVIOUS
  <1>1. CASE Initialize BY <1>1, NothingYet DEF TypeOK, Initialize
  <1>2. ASSUME NEW d \in Daemon, NEW s \in Shard, NEW op \in Op, NEW now \in 0..clock[d],
               Begin(d, op, s, now)
        PROVE  TypeOK'
    <2>1. [op |-> op, shard |-> s, now |-> now] \in Call BY DEF TypeOK, Call
    <2>2. call' \in [Daemon -> Call \cup {None}] BY <1>2, <2>1 DEF TypeOK, Begin
    <2>3. belief' \in [Daemon -> [Shard -> Belief \cup {None}]] BY <1>2 DEF TypeOK, Begin
    <2> QED BY <1>2, <2>2, <2>3 DEF TypeOK, Begin, file
  <1>3. ASSUME NEW d \in Daemon, NEW s \in Shard, DoClaim(d, s) \/ DoRenew(d, s) PROVE TypeOK'
    <2>1. call[d] # None /\ UNCHANGED <<clock, crashes>> /\ call' \in [Daemon -> Call \cup {None}]
      BY <1>3 DEF TypeOK, DoClaim, DoRenew, Finish
    <2>2. CASE Grant(d, s) BY <2>1, <2>2, TypesGrant DEF TypeOK
    <2>3. CASE Refuse(d, s) BY <2>1, <2>3 DEF TypeOK, Refuse, file
    <2> QED BY <1>3, <2>2, <2>3 DEF DoClaim, DoRenew
  <1>4. ASSUME NEW d \in Daemon, NEW s \in Shard, DoRelease(d, s) \/ DoRevert(d, s) PROVE TypeOK'
    <2>1. UNCHANGED <<clock, crashes>> /\ call' \in [Daemon -> Call \cup {None}]
      BY <1>4 DEF TypeOK, DoRelease, DoRevert, Finish
    <2>2. CASE Refuse(d, s) BY <2>1, <2>2 DEF TypeOK, Refuse, file
    <2>3. CASE Mutate([claims EXCEPT ![s] = None]) /\ UNCHANGED belief
      BY <2>1, <2>3 DEF TypeOK, Mutate
    <2>4. CASE Mutate(Reverted(d, s)) /\ UNCHANGED belief
      BY <2>1, <2>4 DEF TypeOK, Mutate, Reverted
    <2> QED BY <1>4, <2>2, <2>3, <2>4 DEF DoRelease, DoRevert
  <1>5. ASSUME NEW d \in Daemon, Fail(d) \/ Crash(d) \/ Tick(d) PROVE TypeOK'
    <2>1. UNCHANGED <<created, claims, version>> /\ crashes' \in Nat
      BY <1>5 DEF TypeOK, Fail, Crash, Tick, file
    <2>2. call' \in [Daemon -> Call \cup {None}] BY <1>5 DEF TypeOK, Fail, Crash, Tick
    <2>4. clock' \in [Daemon -> Nat] BY <1>5 DEF TypeOK, Fail, Crash, Tick
    <2>3. belief' \in [Daemon -> [Shard -> Belief \cup {None}]]
      <3>1. CASE Crash(d)
        BY <3>1, NothingYet, belief' = [belief EXCEPT ![d] = NoBelief] DEF TypeOK, Crash
      <3> QED BY <1>5, <3>1 DEF TypeOK, Fail, Tick
    <2> QED BY <2>1, <2>2, <2>3, <2>4 DEF TypeOK
  <1>6. CASE UNCHANGED vars BY <1>6 DEF TypeOK, vars, file
  <1> QED BY <1>1, <1>2, <1>3, <1>4, <1>5, <1>6 DEF Next

\* Every variable always has its type, and nothing is claimed without a file.
THEOREM TypeCorrect == Spec => []TypeOK
  BY TypesInit, TypesStep, PTL DEF Spec
----------------------------------------------------------------------------

\* Clocks stay close, calls lag behind them, and who gives a shard up believes no more.
LEMMA SettingInit == Init => Setting
  BY DEF Init, Setting, ClocksClose, CallsLag, GivenUp

\* Every step keeps the setting.
LEMMA SettingStep == TypeOK /\ Setting /\ [Next]_vars => Setting'
  <1> SUFFICES ASSUME TypeOK, Setting, [Next]_vars PROVE Setting'
    OBVIOUS
  <1>1. ASSUME NEW d \in Daemon, NEW s \in Shard, NEW op \in Op, NEW now \in 0..clock[d],
               Begin(d, op, s, now)
        PROVE  Setting'
    <2>1. UNCHANGED clock /\ \A e \in Daemon : e # d => call'[e] = call[e] /\ belief'[e] = belief[e]
      BY <1>1 DEF TypeOK, Begin
    <2>2. call'[d] = [op |-> op, shard |-> s, now |-> now] BY <1>1 DEF TypeOK, Begin
    <2>3. op \in {"revert", "release"} => belief'[d][s] = None BY <1>1 DEF TypeOK, Begin
    <2>4. ClocksClose' BY <2>1 DEF Setting, ClocksClose
    <2>5. CallsLag' BY <2>1, <2>2 DEF Setting, CallsLag, TypeOK
    <2>6. GivenUp' BY <2>1, <2>2, <2>3 DEF Setting, GivenUp
    <2> QED BY <2>4, <2>5, <2>6 DEF Setting
  <1>2. ASSUME NEW d \in Daemon, UNCHANGED clock, call' = [call EXCEPT ![d] = None],
               \A e \in Daemon : e # d => belief'[e] = belief[e]
        PROVE  Setting'
    <2>1. call'[d] = None /\ \A e \in Daemon : e # d => call'[e] = call[e] BY <1>2 DEF TypeOK
    <2> QED BY <1>2, <2>1 DEF Setting, ClocksClose, CallsLag, GivenUp
  <1>3. ASSUME NEW d \in Daemon, NEW s \in Shard,
               DoClaim(d, s) \/ DoRenew(d, s) \/ DoRelease(d, s) \/ DoRevert(d, s)
        PROVE  Setting'
    <2>1. UNCHANGED clock /\ call' = [call EXCEPT ![d] = None]
      BY <1>3 DEF DoClaim, DoRenew, DoRelease, DoRevert, Finish
    <2>2. \A e \in Daemon : e # d => belief'[e] = belief[e]
      BY <1>3 DEF TypeOK, DoClaim, DoRenew, DoRelease, DoRevert, Grant, Refuse
    <2> QED BY <2>1, <2>2, <1>2
  <1>4. ASSUME NEW d \in Daemon, Fail(d) \/ Crash(d) PROVE Setting'
    <2>1. UNCHANGED clock /\ call' = [call EXCEPT ![d] = None] BY <1>4 DEF Fail, Crash
    <2>2. \A e \in Daemon : e # d => belief'[e] = belief[e] BY <1>4 DEF TypeOK, Fail, Crash
    <2> QED BY <2>1, <2>2, <1>2
  <1>5. ASSUME NEW d \in Daemon, Tick(d) PROVE Setting'
    <2>1. UNCHANGED <<call, belief>> BY <1>5 DEF Tick
    <2>2. \A e \in Daemon : clock'[e] = IF e = d THEN clock[d] + 1 ELSE clock[e]
      BY <1>5 DEF TypeOK, Tick
    <2>3. ClocksClose' BY <1>5, <2>2 DEF TypeOK, Setting, ClocksClose, Tick
    <2>4. CallsLag'
      <3> SUFFICES ASSUME NEW e \in Daemon, call[e] # None PROVE call[e].now <= clock'[e]
        BY <2>1 DEF CallsLag
      <3>1. call[e].now \in Nat /\ clock[e] \in Nat BY DEF TypeOK, Call
      <3> QED BY <2>2, <3>1 DEF Setting, CallsLag
    <2>5. GivenUp' BY <2>1 DEF Setting, GivenUp
    <2> QED BY <2>3, <2>4, <2>5 DEF Setting
  <1>6. CASE Initialize \/ UNCHANGED vars
    BY <1>6 DEF Setting, ClocksClose, CallsLag, GivenUp, Initialize, vars
  <1> QED BY <1>1, <1>3, <1>4, <1>5, <1>6 DEF Next

\* Every step keeps the file, gives a shard or takes one.
LEMMA Effect ==
  ASSUME TypeOK, Setting, [Next]_vars
  PROVE  \/ Keeps /\ \A d \in Daemon : clock'[d] >= clock[d]
         \/ \E d \in Daemon, s \in Shard : Gives(d, s)
         \/ \E d \in Daemon, s \in Shard : Takes(d, s)
  <1> DEFINE Later == \A d \in Daemon : clock'[d] >= clock[d]
  <1>1. CASE Initialize BY <1>1 DEF TypeOK, Initialize, Keeps
  <1>2. ASSUME NEW d \in Daemon, NEW s \in Shard, NEW op \in Op, NEW now \in 0..clock[d],
               Begin(d, op, s, now)
        PROVE  Keeps /\ Later
    BY <1>2 DEF TypeOK, Begin, Keeps, file
  <1>3. ASSUME NEW d \in Daemon, NEW s \in Shard, DoClaim(d, s) \/ DoRenew(d, s)
        PROVE  Gives(d, s) \/ (Keeps /\ Later)
    <2>1. call[d] # None /\ UNCHANGED clock BY <1>3 DEF DoClaim, DoRenew, Finish
    <2>2. CASE Refuse(d, s) BY <2>1, <2>2 DEF TypeOK, Refuse, Keeps, file
    <2>3. CASE (MayClaim(d, s) \/ Owned(s, d)) /\ Grant(d, s) BY <2>1, <2>3 DEF Gives
    <2> QED BY <1>3, <2>2, <2>3 DEF DoClaim, DoRenew
  <1>4. ASSUME NEW d \in Daemon, NEW s \in Shard, DoRelease(d, s) \/ DoRevert(d, s)
        PROVE  Takes(d, s) \/ (Keeps /\ Later)
    <2>1. call[d] # None /\ call[d].op \in {"revert", "release"} /\ call[d].shard = s
          /\ call'[d] = None /\ UNCHANGED clock
      BY <1>4 DEF TypeOK, DoRelease, DoRevert, Finish
    <2>2. belief[d][s] = None BY <2>1 DEF Setting, GivenUp
    <2>3. CASE Refuse(d, s) BY <2>1, <2>3 DEF TypeOK, Refuse, Keeps, file
    <2>4. CASE Owned(s, d) /\ Mutate([claims EXCEPT ![s] = None]) /\ UNCHANGED belief
      BY <2>1, <2>2, <2>4 DEF Takes, Mutate
    <2>5. CASE Mutate(Reverted(d, s)) /\ UNCHANGED belief
      BY <2>1, <2>2, <2>5 DEF Takes, Mutate, Reverted
    <2> QED BY <1>4, <2>3, <2>4, <2>5 DEF DoRelease, DoRevert
  <1>5. ASSUME NEW d \in Daemon, Fail(d) \/ Crash(d) \/ Tick(d) PROVE Keeps /\ Later
    BY <1>5 DEF TypeOK, Fail, Crash, Tick, Keeps, file, NoBelief
  <1>6. CASE UNCHANGED vars BY <1>6 DEF TypeOK, vars, file, Keeps
  <1> QED BY <1>1, <1>2, <1>3, <1>4, <1>5, <1>6 DEF Next
----------------------------------------------------------------------------

\* A version tells its writer whether the shard is still its own.
VersionInv == BeliefsLag /\ VersionTells

\* Every step keeps the versions telling.
LEMMA VersionStep ==
  ASSUME TypeOK, Setting, VersionInv, [Next]_vars
  PROVE  VersionInv'
  <1>1. CASE Keeps
    BY <1>1 DEF TypeOK, Belief, Keeps, VersionInv, BeliefsLag, VersionTells, Owned
  <1>2. ASSUME NEW d \in Daemon, NEW s \in Shard, Gives(d, s) PROVE VersionInv'
    <2>1. version' = version + 1 /\ version' \in Nat /\ version \in Nat
      BY <1>2 DEF TypeOK, Gives, Grant, Mutate
    <2>2. belief'[d][s] # None => belief'[d][s].version = version' /\ Owned(s, d)'
      <3>1. claims'[s] = [owner |-> d, expiry |-> call[d].now + Lease]
        BY <1>2 DEF TypeOK, Gives, Grant, Mutate
      <3>2. claims'[s] # None BY <1>2, <3>1, GrantedClaim DEF Gives
      <3>3. belief'[d][s].version = version' BY <1>2 DEF TypeOK, Gives, Grant
      <3> QED BY <3>1, <3>2, <3>3 DEF Owned
    <2>3. \A e \in Daemon, r \in Shard : e # d \/ r # s => belief'[e][r] = belief[e][r]
      BY <1>2 DEF TypeOK, Gives, Grant
    <2>4. \A e \in Daemon, r \in Shard : belief[e][r] # None =>
            belief[e][r].version \in Nat /\ belief[e][r].version <= version
      BY DEF TypeOK, Belief, VersionInv, BeliefsLag
    <2> QED BY <2>1, <2>2, <2>3, <2>4 DEF VersionInv, BeliefsLag, VersionTells
  <1>3. ASSUME NEW d \in Daemon, NEW s \in Shard, Takes(d, s) PROVE VersionInv'
    <2>1. version' = version + 1 /\ version \in Nat /\ UNCHANGED belief
      BY <1>3 DEF TypeOK, Takes
    <2>2. \A e \in Daemon, r \in Shard : belief[e][r] # None =>
            belief[e][r].version \in Nat /\ belief[e][r].version <= version
      BY DEF TypeOK, Belief, VersionInv, BeliefsLag
    <2> QED BY <2>1, <2>2 DEF VersionInv, BeliefsLag, VersionTells
  <1> QED BY <1>1, <1>2, <1>3, Effect

\* However long calls wait and whatever fails: the version a daemon was told is still the
\* one on file only if the daemon is still the owner.
THEOREM VersionsTell == Spec => []VersionTells
  <1>1. Init => VersionInv
    BY DEF Init, VersionInv, BeliefsLag, VersionTells, NoBelief
  <1>2. VersionInv => VersionTells BY DEF VersionInv
  <1> QED BY <1>1, <1>2, TypesInit, TypesStep, SettingInit, SettingStep, VersionStep, PTL DEF Spec
----------------------------------------------------------------------------

\* A challenger whose call finds the lease lapsed comes after the owner's own clock has
\* passed the expiry.
LEMMA LapsedForOwner ==
  ASSUME MaxSkew <= Margin, TypeOK, Setting,
         NEW d \in Daemon, NEW e \in Daemon, NEW s \in Shard,
         call[d] # None, Owned(s, e), Lapsed(claims[s], call[d].now)
  PROVE  clock[e] > claims[s].expiry
  <1>1. call[d].now \in Nat /\ claims[s].expiry \in Nat /\ clock[d] \in Nat /\ clock[e] \in Nat
    BY DEF TypeOK, Call, Claim, Owned
  <1>2. call[d].now <= clock[d] /\ clock[d] <= clock[e] + MaxSkew
    BY DEF Setting, CallsLag, ClocksClose
  <1> QED BY <1>1, <1>2 DEF Lapsed

\* While a daemon believes in a shard, the file says that it is the owner.
LEMMA BelievedStep ==
  ASSUME MaxSkew <= Margin, TypeOK, Setting, BelievedIsRecorded, [Next]_vars
  PROVE  BelievedIsRecorded'
  <1> SUFFICES ASSUME NEW e \in Daemon, NEW r \in Shard, Believes(e, r)'
               PROVE  Owned(r, e)' /\ belief'[e][r].expiry <= claims'[r].expiry
    BY DEF BelievedIsRecorded
  <1> DEFINE Later == \A d \in Daemon : clock'[d] >= clock[d]
  <1>1. \A c \in Claim : c.expiry \in Nat BY DEF Claim
  <1>2. CASE Keeps /\ Later
    <2>1. belief'[e][r] = belief[e][r] /\ belief[e][r].expiry \in Nat
      BY <1>2 DEF TypeOK, Belief, Keeps, Believes
    <2>2. clock[e] \in Nat /\ clock[e] <= clock'[e] /\ clock'[e] \in Nat
      BY <1>2, TypesStep DEF TypeOK
    <2>3. Believes(e, r) BY <2>1, <2>2 DEF Believes
    <2> QED BY <1>2, <2>1, <2>3 DEF BelievedIsRecorded, Keeps, Owned
  <1>3. ASSUME NEW d \in Daemon, NEW s \in Shard, Gives(d, s)
        PROVE  Owned(r, e)' /\ belief'[e][r].expiry <= claims'[r].expiry
    <2>1. claims' = [claims EXCEPT ![s] = [owner |-> d, expiry |-> call[d].now + Lease]]
      BY <1>3 DEF Gives, Grant, Mutate
    <2>2. CASE e = d /\ r = s
      <3>1. belief'[e][r].expiry = call[d].now + Lease
        BY <1>3, <2>2 DEF TypeOK, Gives, Grant
      <3>2. claims'[r] = [owner |-> d, expiry |-> call[d].now + Lease] BY <2>1, <2>2 DEF TypeOK
      <3>3. claims'[r] # None BY <1>3, <3>2, GrantedClaim DEF Gives
      <3>4. call[d].now + Lease \in Nat BY <1>3 DEF TypeOK, Call, Gives
      <3> QED BY <2>2, <3>1, <3>2, <3>3, <3>4 DEF Owned
    <2>3. CASE ~(e = d /\ r = s)
      <3>1. belief'[e][r] = belief[e][r] /\ clock'[e] = clock[e]
        BY <1>3, <2>3 DEF TypeOK, Gives, Grant
      <3>2. Owned(r, e) /\ belief[e][r].expiry <= claims[r].expiry
        BY <3>1 DEF Believes, BelievedIsRecorded
      <3>3. r # s
        <4> SUFFICES ASSUME r = s, e # d PROVE FALSE BY <2>3
        <4>1. ~Owned(s, d) BY <3>2 DEF Owned
        <4>2. Lapsed(claims[s], call[d].now) BY <1>3, <3>2, <4>1 DEF Gives, MayClaim, Owned
        <4>3. clock[e] > claims[s].expiry BY <1>3, <3>2, <4>2, LapsedForOwner DEF Gives
        <4>4. belief[e][r].expiry \in Nat /\ claims[s].expiry \in Nat /\ clock[e] \in Nat
              /\ clock[e] <= belief[e][r].expiry
          BY <3>1, <3>2 DEF TypeOK, Believes, Belief, Claim, Owned
        <4> QED BY <3>2, <4>3, <4>4
      <3> QED BY <2>1, <3>1, <3>2, <3>3 DEF TypeOK, Owned
    <2> QED BY <2>2, <2>3
  <1>4. ASSUME NEW d \in Daemon, NEW s \in Shard, Takes(d, s)
        PROVE  Owned(r, e)' /\ belief'[e][r].expiry <= claims'[r].expiry
    <2>1. Believes(e, r) /\ UNCHANGED belief BY <1>4 DEF Takes, Believes
    <2>2. Owned(r, e) /\ belief[e][r].expiry <= claims[r].expiry
      BY <2>1 DEF BelievedIsRecorded
    <2>3. e = d => r # s BY <1>4, <2>1 DEF Takes, Believes
    <2>4. claims'[r] = claims[r] BY <1>4, <2>2, <2>3 DEF TypeOK, Takes, Owned
    <2> QED BY <2>1, <2>2, <2>4 DEF Owned
  <1> QED BY <1>2, <1>3, <1>4, Effect

\* If clocks are no further apart than the margin, a daemon whose lease runs is the owner
\* on file, whoever else claims, renews, releases, reverts or dies.
THEOREM BelievedRecorded ==
  ASSUME MaxSkew <= Margin
  PROVE  Spec => []BelievedIsRecorded
  <1>1. Init => BelievedIsRecorded
    BY DEF Init, BelievedIsRecorded, Believes, NoBelief
  <1> QED BY <1>1, TypesInit, TypesStep, SettingInit, SettingStep, BelievedStep, PTL DEF Spec

\* If clocks are no further apart than the margin, no two daemons believe in one shard.
THEOREM LeasesExclude ==
  ASSUME MaxSkew <= Margin
  PROVE  Spec => []ExclusiveLease
  <1>1. BelievedIsRecorded => ExclusiveLease
    BY DEF BelievedIsRecorded, ExclusiveLease, Owned
  <1> QED BY <1>1, BelievedRecorded, PTL

\* A step that takes a claim from an owner who is not the caller finds it expired.
LEMMA TakeoverStep ==
  ASSUME MaxSkew <= Margin, TypeOK, Setting, [Next]_vars,
         NEW e \in Daemon, NEW r \in Shard, Owned(r, e), ~Owned(r, e)', call'[e] = call[e]
  PROVE  clock[e] > claims[r].expiry
  <1>1. claims'[r] # claims[r] BY DEF Owned
  <1>2. ~Keeps BY <1>1 DEF Keeps
  <1>3. ASSUME NEW d \in Daemon, NEW s \in Shard, Takes(d, s) PROVE FALSE
    <2>1. r = s /\ claims' # claims BY <1>1, <1>3 DEF TypeOK, Takes
    <2>2. e = d BY <1>3, <2>1 DEF Takes, Owned
    <2> QED BY <1>3, <2>2 DEF Takes
  <1>4. ASSUME NEW d \in Daemon, NEW s \in Shard, Gives(d, s)
        PROVE  clock[e] > claims[r].expiry
    <2>1. claims' = [claims EXCEPT ![s] = [owner |-> d, expiry |-> call[d].now + Lease]]
      BY <1>4 DEF Gives, Grant, Mutate
    <2>2. r = s BY <1>1, <2>1 DEF TypeOK
    <2>3. claims'[r] = [owner |-> d, expiry |-> call[d].now + Lease] BY <2>1, <2>2 DEF TypeOK
    <2>4. claims'[r] # None BY <1>4, <2>3, GrantedClaim DEF Gives
    <2>5. e # d BY <2>3, <2>4 DEF Owned
    <2>6. Lapsed(claims[s], call[d].now)
      BY <1>4, <2>2, <2>5 DEF Gives, MayClaim, Owned
    <2> QED BY <1>4, <2>2, <2>6, LapsedForOwner DEF Gives
  <1> QED BY <1>2, <1>3, <1>4, Effect

\* If clocks are no further apart than the margin, a claim is taken from its owner, dead
\* or alive, only by the owner's own call or after it expired on the owner's clock.
THEOREM NoTakeoverIsEarly ==
  ASSUME MaxSkew <= Margin
  PROVE  Spec => NoEarlyTakeover
  <1> DEFINE Step ==
        \A d \in Daemon, s \in Shard :
          Owned(s, d) /\ ~Owned(s, d)' => call'[d] # call[d] \/ clock[d] > claims[s].expiry
  <1>1. TypeOK /\ Setting /\ [Next]_vars => Step BY TakeoverStep
  <1> QED BY <1>1, TypesInit, TypesStep, SettingInit, SettingStep, PTL DEF Spec, NoEarlyTakeover
=============================================================================
