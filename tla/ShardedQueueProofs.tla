------------------------- MODULE ShardedQueueProofs -------------------------
(***************************************************************************)
(* Theorems about ShardedQueue for every number of daemons and shards, any *)
(* clocks and leases, and any number of crashes and errors.                *)
(***************************************************************************)
EXTENDS ShardedQueue, WellFoundedInduction, TLAPS

MP == INSTANCE MembershipProofs

USE ShardAssumption, RequestAssumption, FaultsAssumption, NobodyAssumption

----------------------------------------------------------------------------
(* Types. *)

\* The least of some naturals is one of them.
LEMMA Smallest ==
  ASSUME NEW T \in SUBSET Nat, T # {}
  PROVE  Min(T) \in T
  <1> DEFINE R == OpToRel(<, Nat)
  <1>1. \A x, y \in Nat : <<x, y>> \in R <=> x < y BY DEF OpToRel
  <1>2. IsWellFoundedOn(R, Nat) BY NatLessThanWellFounded
  <1> HIDE DEF R
  <1>3. PICK s \in T : \A r \in T : ~(<<r, s>> \in R) BY <1>2, WFMin
  <1>4. \A r \in T : s \in Nat /\ r \in Nat /\ ~(r < s) BY <1>1, <1>3
  <1>5. \E x \in T : \A r \in T : x <= r BY <1>4
  <1> QED BY <1>5 DEF Min

\* A heartbeat that has shards left has one of them in hand, and keeps it while its list stays.
LEMMA InHand ==
  ASSUME TypeOK, NEW d \in Daemon, todo[d] # {}
  PROVE  Hand(d) \in todo[d] /\ Hand(d) \in Shard
  BY Smallest DEF Hand, TypeOK

\* The shard in hand depends on the list only.
LEMMA InHandStill ==
  ASSUME NEW d, todo'[d] = todo[d] PROVE Hand(d)' = Hand(d)
  BY DEF Hand

\* One step of the boot, seen from the directory.
LEMMA ResolveTypes ==
  ASSUME L!TypeOK, NEW d \in Daemon, L!Resolve(d)
  PROVE  /\ L!TypeOK' /\ boot[d] # "up"
         /\ \A e \in Daemon : e # d => boot'[e] = boot[e]
  <1>1. ASSUME L!Detect(d) PROVE L!TypeOK' BY <1>1 DEF L!TypeOK, L!Detect, L!Goto
  <1>2. ASSUME L!Adopt(d) PROVE L!TypeOK' BY <1>2 DEF L!TypeOK, L!Adopt, L!Goto
  <1>3. ASSUME L!MoveLog(d) PROVE L!TypeOK' BY <1>3 DEF L!TypeOK, L!MoveLog, L!Goto
  <1>4. ASSUME L!CreateAdopted(d) PROVE L!TypeOK'
    BY <1>4 DEF L!TypeOK, L!CreateAdopted, L!Goto
  <1>5. ASSUME L!JoinFresh(d) \/ L!CreateFresh(d) PROVE L!TypeOK'
    BY <1>5 DEF L!TypeOK, L!JoinFresh, L!CreateFresh, L!Goto
  <1>6. boot[d] # "up" /\ \A e \in Daemon : e # d => boot'[e] = boot[e]
    BY DEF L!TypeOK, L!Resolve, L!Detect, L!Adopt, L!MoveLog, L!CreateAdopted, L!JoinFresh,
           L!CreateFresh, L!Goto
  <1> QED BY <1>1, <1>2, <1>3, <1>4, <1>5, <1>6 DEF L!Resolve

\* A step that leaves the directory alone keeps its types.
LEMMA PlacesKept ==
  ASSUME L!TypeOK, UNCHANGED created, UNCHANGED places PROVE L!TypeOK'
  BY DEF L!TypeOK, places

\* The engine of before.
LEMMA LegacyTypes ==
  ASSUME L!TypeOK, Legacy PROVE L!TypeOK' /\ boot' = boot
  <1>1. CASE L!LegacyExit BY <1>1 DEF L!TypeOK, L!LegacyExit
  <1>2. CASE L!LegacySave
    <2>1. root' \in Nat
      <3>1. CASE root = None BY <1>2, <3>1 DEF L!LegacySave
      <3>2. CASE root # None BY <1>2, <3>2 DEF L!LegacySave, L!TypeOK
      <3> QED BY <3>1, <3>2
    <2>2. saved' \in [Shard -> Nat] BY <1>2 DEF L!LegacySave, L!TypeOK
    <2> QED BY <1>2, <2>1, <2>2 DEF L!LegacySave, L!TypeOK
  <1> QED BY <1>1, <1>2 DEF Legacy

\* An engine that saves.
LEMMA SaveTypes ==
  ASSUME L!TypeOK, NEW d \in Daemon, NEW s \in Shard, Save(d, s) PROVE L!TypeOK'
  <1>1. L!Lines(log[s]) \in Nat BY DEF L!TypeOK, L!Lines
  <1>2. log' \in [Shard -> Nat \cup {None}] BY <1>1 DEF L!TypeOK, Save
  <1>3. saved' \in [Shard -> Nat] BY DEF L!TypeOK, Save
  <1> QED BY <1>2, <1>3 DEF L!TypeOK, Save

\* A daemon that dies.
LEMMA CrashTypes ==
  ASSUME L!TypeOK, NEW d \in Daemon, Crash(d) PROVE L!TypeOK'
  BY DEF L!TypeOK, Crash, L!Reboot, L!Goto, M!Crash, M!file

\* The leases are those of Membership, whose theorems can be used.
LEMMA LeaseTypes == M!TypeOK <=> MP!TypeOK
  BY DEF M!TypeOK, M!Claim, M!Call, M!Belief, M!Op, M!NoClaims,
         MP!TypeOK, MP!Claim, MP!Call, MP!Belief, MP!Op, MP!NoClaims

\* A step of the leases is a step of that instance.
LEMMA LeaseSteps == [M!Next]_M!vars => [MP!Next]_MP!vars
  BY DEF M!Next, M!vars, M!file, M!Initialize, M!Begin, M!DoClaim, M!DoRenew, M!DoRelease,
         M!DoRevert, M!Fail, M!Crash, M!Tick, M!Finish, M!Grant, M!Refuse, M!Mutate, M!MayClaim,
         M!Owned, M!Lapsed, M!Reverted, M!NoClaims, M!NoBelief, M!Op,
         MP!Next, MP!vars, MP!file, MP!Initialize, MP!Begin, MP!DoClaim, MP!DoRenew, MP!DoRelease,
         MP!DoRevert, MP!Fail, MP!Crash, MP!Tick, MP!Finish, MP!Grant, MP!Refuse, MP!Mutate,
         MP!MayClaim, MP!Owned, MP!Lapsed, MP!Reverted, MP!NoClaims, MP!NoBelief, MP!Op

\* And so are the assumptions.
LEMMA LeaseAssumptions == MP!TimeAssumption /\ MP!BoundAssumption /\ MP!NoneAssumption
  BY LeaseAssumption
  DEF M!TimeAssumption, M!BoundAssumption, M!NoneAssumption, M!Claim, M!Call, M!Belief, M!Op,
      MP!TimeAssumption, MP!BoundAssumption, MP!NoneAssumption, MP!Claim, MP!Call, MP!Belief,
      MP!Op

\* A step of the leases keeps their types.
LEMMA LeaseTypesStep == M!TypeOK /\ [M!Next]_M!vars => M!TypeOK'
  <1> SUFFICES ASSUME M!TypeOK, [M!Next]_M!vars PROVE M!TypeOK' OBVIOUS
  <1>1. MP!TypeOK /\ [MP!Next]_MP!vars BY LeaseTypes, LeaseSteps
  <1>2. MP!TypeOK' BY <1>1, LeaseAssumptions, MP!TypesStep
  <1> QED BY <1>2, LeaseTypes, PTL

\* Steps of the daemons that leave the leases alone.
Aside(d) ==
  \/ Wake(d) \/ Load(d) \/ TryLock(d) \/ Unlock(d) \/ Open(d) \/ Start(d) \/ Reconcile(d)
  \/ Shutdown(d) \/ \E s \in Shard : Save(d, s) \/ End(d, s)

\* Such a step is a stutter of Membership.
LEMMA LeasesAside ==
  ASSUME NEW d \in Daemon, Aside(d) PROVE UNCHANGED M!vars
  BY DEF Aside, Wake, Load, TryLock, Unlock, Open, Start, Reconcile, Shutdown, Save, End,
         M!vars, M!file, leases

\* What happens to the leases is what Membership lets one of its users do.
LEMMA LeaseStep == TypeOK /\ [Next]_vars => [M!Next]_M!vars
  <1> SUFFICES ASSUME TypeOK, [Next]_vars PROVE [M!Next]_M!vars OBVIOUS
  <1>1. ASSUME NEW d \in Daemon, Boot(d) PROVE [M!Next]_M!vars
    <2>1. CASE created' = created
      BY <1>1, <2>1 DEF Boot, InitOnce, M!vars, M!file
    <2>2. CASE created' # created BY <1>1, <2>2 DEF Boot, InitOnce, M!Next
    <2> QED BY <2>1, <2>2
  <1>2. ASSUME Legacy PROVE UNCHANGED M!vars
    BY <1>2 DEF Legacy, L!LegacySave, L!LegacyExit, M!vars, M!file, leases
  <1>3. ASSUME NEW d \in Daemon, BeginClaim(d) \/ GiveBack(d) PROVE M!Next
    <2>1. Hand(d) \in Shard BY <1>3, InHand DEF BeginClaim, GiveBack, TypeOK
    <2>2. PICK op \in {"claim", "revert"} : M!Begin(d, op, Hand(d), now[d])
      BY <1>3 DEF BeginClaim, GiveBack
    <2>3. now[d] \in 0..clock[d] BY <2>2 DEF M!Begin
    <2>4. op \in M!Op BY DEF M!Op
    <2>5. \E o \in M!Op, n \in 0..clock[d] : M!Begin(d, o, Hand(d), n) BY <2>2, <2>3, <2>4
    <2> QED BY <2>1, <2>5 DEF M!Next
  <1>4. ASSUME NEW d \in Daemon, Claim(d) \/ Revert(d) \/ ClaimFails(d) PROVE M!Next
    <2>1. Hand(d) \in Shard BY <1>4, InHand DEF Claim, Revert, ClaimFails, TypeOK
    <2>2. M!DoClaim(d, Hand(d)) \/ M!DoRevert(d, Hand(d)) \/ M!Fail(d)
      BY <1>4 DEF Claim, Revert, ClaimFails
    <2> HIDE DEF Hand
    <2>3. CASE M!Fail(d) BY <2>3 DEF M!Next
    <2>4. CASE M!DoClaim(d, Hand(d)) \/ M!DoRevert(d, Hand(d)) BY <2>1, <2>4 DEF M!Next
    <2> QED BY <2>2, <2>3, <2>4
  <1>5. ASSUME NEW d \in Daemon, Crash(d) \/ Tick(d) PROVE M!Next
    BY <1>5 DEF Crash, Tick, M!Next
  <1>6. CASE UNCHANGED vars BY <1>6 DEF vars, leases, M!vars, M!file
  <1> QED
    BY <1>1, <1>2, <1>3, <1>4, <1>5, <1>6, LeasesAside DEF Next, Heartbeat, Aside
\* The types of this module and of the leases.
Types == TypeOK /\ M!TypeOK

\* TypeOK in three parts: the directory, where the heartbeats are, and all the rest.
Busy == {"claim", "lock", "revert", "unlock", "open", "start"}
Idle == {"boot", "load", "sleep", "off"}

Walks ==
  /\ at \in [Daemon -> Busy \cup Idle \cup {"next", "dead"}]
  /\ todo \in [Daemon -> SUBSET Shard]
  /\ \A d \in Daemon :
       /\ at[d] \in Busy => todo[d] # {}
       /\ at[d] \in Idle => todo[d] = {}
       /\ at[d] = "boot" <=> boot[d] # "up"

Ranges ==
  /\ now \in [Daemon -> Nat] /\ fresh \in [Daemon -> BOOLEAN]
  /\ owned \in [Daemon -> SUBSET Shard] /\ lock \in [Shard -> Daemon \cup {None}]
  /\ mapped \in [Daemon -> SUBSET Shard] /\ engine \in [Daemon -> SUBSET Shard]
  /\ ending \in [Daemon -> SUBSET Shard] /\ seen \in [Daemon -> [Shard -> Nat]]
  /\ stop \in [Daemon -> BOOLEAN] /\ errors \in Nat /\ overrun \in BOOLEAN

\* The three parts are TypeOK.
LEMMA TypesSplit == TypeOK <=> L!TypeOK /\ Walks /\ Ranges
  <1>1. Busy \cup Idle \cup {"next", "dead"} =
          {"boot", "load", "next", "claim", "lock", "revert", "unlock", "open", "start",
           "sleep", "off", "dead"}
    BY DEF Busy, Idle
  <1> QED BY <1>1 DEF TypeOK, Walks, Ranges, Busy, Idle

\* d goes on to pc, with T left to do.
LEMMA WalksOn ==
  ASSUME Walks, UNCHANGED boot, NEW d \in Daemon, at[d] # "boot",
         NEW pc \in Busy \cup Idle \cup {"next", "dead"}, pc # "boot", NEW T \in SUBSET Shard,
         at' = [at EXCEPT ![d] = pc], todo' = [todo EXCEPT ![d] = T],
         pc \in Busy => T # {}, pc \in Idle => T = {}
  PROVE  Walks'
  <1>1. /\ at' \in [Daemon -> Busy \cup Idle \cup {"next", "dead"}]
        /\ todo' \in [Daemon -> SUBSET Shard]
    BY DEF Walks
  <1>2. at'[d] = pc /\ todo'[d] = T BY DEF Walks
  <1>3. \A e \in Daemon : e # d => at'[e] = at[e] /\ todo'[e] = todo[e] BY DEF Walks
  <1>4. \A e \in Daemon : /\ at'[e] \in Busy => todo'[e] # {}
                          /\ at'[e] \in Idle => todo'[e] = {}
                          /\ at'[e] = "boot" <=> boot'[e] # "up"
    BY <1>2, <1>3 DEF Walks
  <1> QED BY <1>1, <1>4 DEF Walks

\* Where d goes in a step of its heartbeat, and with what left to do.
LEMMA BeatWalks ==
  ASSUME TypeOK, NEW d \in Daemon, Heartbeat(d), UNCHANGED boot PROVE Walks'
  <1>w. Walks /\ at[d] \in Busy \cup Idle \cup {"next", "dead"} BY TypesSplit DEF Walks
  <1>t. todo = [todo EXCEPT ![d] = todo[d]] /\ todo[d] \in SUBSET Shard BY <1>w DEF Walks
  <1>e. (todo[d] \ {Hand(d)}) \in SUBSET Shard BY <1>t
  <1> USE DEF Busy, Idle, Goto, Done
  <1>1. CASE Wake(d)
    <2>1. todo[d] = {} BY <1>1, <1>w DEF Wake, Walks
    <2> QED BY <1>1, <1>w, <1>t, <2>1, WalksOn DEF Wake
  <1>2. CASE Load(d)
    <2>1. at' = [at EXCEPT ![d] = "next"] /\ at[d] = "load" BY <1>2 DEF Load
    <2>2. {s \in Shard : Claimable(d, s)} \in SUBSET Shard OBVIOUS
    <2>3. PICK T \in SUBSET Shard : todo' = [todo EXCEPT ![d] = T]
      BY <1>2, <1>t, <2>2 DEF Load
    <2> QED BY <1>w, <2>1, <2>3, WalksOn
  <1>3. CASE BeginClaim(d) BY <1>3, <1>w, <1>t, WalksOn DEF BeginClaim
  <1>4. CASE Claim(d)
    <2>1. at[d] = "claim" /\ todo[d] # {} BY <1>4, <1>w DEF Claim, Walks
    <2>2. \/ at' = [at EXCEPT ![d] = "lock"] /\ UNCHANGED todo
          \/ at' = [at EXCEPT ![d] = "next"] /\ todo' = [todo EXCEPT ![d] = @ \ {Hand(d)}]
      BY <1>4 DEF Claim
    <2> QED BY <1>w, <1>t, <1>e, <2>1, <2>2, WalksOn
  <1>5. CASE ClaimFails(d) \/ Revert(d) \/ Unlock(d)
    <2>1. at' = [at EXCEPT ![d] = "next"] /\ todo' = [todo EXCEPT ![d] = @ \ {Hand(d)}]
      BY <1>5 DEF ClaimFails, Revert, Unlock
    <2>2. at[d] # "boot" BY <1>5 DEF ClaimFails, Revert, Unlock
    <2> QED BY <1>w, <1>e, <2>1, <2>2, WalksOn
  <1>6. CASE TryLock(d) \/ GiveBack(d)
    <2>1. at[d] = "lock" /\ todo[d] # {} BY <1>6, <1>w DEF TryLock, GiveBack, Walks
    <2>2. PICK pc \in {"open", "unlock", "revert"} : at' = [at EXCEPT ![d] = pc]
      BY <1>6 DEF TryLock, GiveBack
    <2>3. UNCHANGED todo BY <1>6 DEF TryLock, GiveBack
    <2> QED BY <1>w, <1>t, <2>1, <2>2, <2>3, WalksOn
  <1>7. CASE Open(d) \/ Start(d)
    <2>1. at[d] \in {"open", "start"} /\ todo[d] # {} BY <1>7, <1>w DEF Open, Start, Walks
    <2>2. \/ at' = [at EXCEPT ![d] = "start"] /\ UNCHANGED todo
          \/ at' = [at EXCEPT ![d] = "dead"] /\ UNCHANGED todo
          \/ at' = [at EXCEPT ![d] = "next"] /\ todo' = [todo EXCEPT ![d] = @ \ {Hand(d)}]
      BY <1>7 DEF Open, Start
    <2> QED BY <1>w, <1>t, <1>e, <2>1, <2>2, WalksOn
  <1>8. CASE Reconcile(d)
    BY <1>8, <1>w, <1>t, WalksOn DEF Reconcile, RoundOver
  <1> QED BY <1>1, <1>2, <1>3, <1>4, <1>5, <1>6, <1>7, <1>8 DEF Heartbeat
\* A step of the heartbeat keeps the other types.
LEMMA BeatRanges ==
  ASSUME Types, NEW d \in Daemon, Heartbeat(d) PROVE Ranges'
  <1>r. Ranges BY TypesSplit DEF Types
  <1>h. todo[d] # {} => Hand(d) \in Shard BY InHand DEF Types
  <1>t. at[d] \in Busy => todo[d] # {} BY TypesSplit DEF Types, Walks
  <1>e. Error => errors' \in Nat BY <1>r DEF Error, Ranges
  <1>c. clock[d] \in Nat BY DEF Types, M!TypeOK
  <1>1. CASE Wake(d) BY <1>1, <1>r, <1>c DEF Wake, engines, Ranges
  <1>2. CASE Load(d) \/ ClaimFails(d) \/ Revert(d)
    <2>1. errors' \in Nat
      BY <1>2, <1>r, <1>e DEF Load, ClaimFails, Revert, Ranges
    <2> QED BY <1>2, <1>r, <2>1 DEF Load, ClaimFails, Revert, engines, Ranges
  <1>3. CASE BeginClaim(d) BY <1>3, <1>r DEF BeginClaim, engines, Ranges
  <1>4. CASE Claim(d)
    <2>1. /\ fresh' = [fresh EXCEPT ![d] = Fresh(d, Hand(d))]
          /\ overrun' \in BOOLEAN
      BY <1>4, <1>r DEF Claim, Ranges
    <2>2. Fresh(d, Hand(d)) \in BOOLEAN BY DEF Fresh
    <2>3. UNCHANGED <<now, owned, engines, lock, stop, errors>> BY <1>4 DEF Claim
    <2> QED BY <1>r, <2>1, <2>2, <2>3 DEF engines, Ranges
  <1>5. CASE TryLock(d)
    <2>1. Hand(d) \in Shard BY <1>5, <1>h, <1>t DEF TryLock, Busy
    <2> QED BY <1>5, <1>r, <2>1 DEF TryLock, engines, Ranges
  <1>6. CASE GiveBack(d)
    <2>1. errors' \in Nat BY <1>6, <1>r, <1>e DEF GiveBack, Ranges
    <2> QED BY <1>6, <1>r, <2>1 DEF GiveBack, engines, Ranges
  <1>7. CASE Unlock(d) BY <1>7, <1>r DEF Unlock, engines, Ranges
  <1>8. CASE Open(d)
    <2>1. Hand(d) \in Shard BY <1>8, <1>h, <1>t DEF Open, Busy
    <2>2. Read(Hand(d)) \in Nat
      <3>1. log[Hand(d)] \in Nat \cup {None} BY <2>1 DEF Types, TypeOK, L!TypeOK
      <3> QED BY <3>1 DEF Read, L!Lines
    <2>3. seen' \in [Daemon -> [Shard -> Nat]]
      <3>1. CASE seen' = [seen EXCEPT ![d][Hand(d)] = Read(Hand(d))]
        BY <1>r, <2>1, <2>2, <3>1 DEF Ranges
      <3>2. CASE UNCHANGED seen BY <1>r, <3>2 DEF Ranges
      <3> QED BY <1>8, <3>1, <3>2 DEF Open
    <2>4. lock' \in [Shard -> Daemon \cup {None}] BY <1>8, <1>r DEF Open, Ranges
    <2>5. UNCHANGED <<now, owned, fresh, mapped, engine, ending, stop, overrun>>
      BY <1>8 DEF Open
    <2>6. errors' \in Nat BY <1>8, <1>r, <1>e DEF Open, Ranges
    <2> QED BY <1>r, <2>3, <2>4, <2>5, <2>6 DEF Ranges
  <1>9. CASE Start(d)
    <2>1. Hand(d) \in Shard BY <1>9, <1>h, <1>t DEF Start, Busy
    <2>2. \/ /\ engine' = [engine EXCEPT ![d] = @ \cup {Hand(d)}]
             /\ mapped' = [mapped EXCEPT ![d] = @ \cup {Hand(d)}]
          \/ UNCHANGED <<engine, mapped>>
      BY <1>9 DEF Start
    <2>3. UNCHANGED <<now, owned, fresh, ending, seen, lock, stop, overrun>> /\ errors' \in Nat
      BY <1>9, <1>r, <1>e DEF Start, Ranges
    <2>4. engine \in [Daemon -> SUBSET Shard] /\ mapped \in [Daemon -> SUBSET Shard]
      BY <1>r DEF Ranges
    <2>5. engine' \in [Daemon -> SUBSET Shard]
      <3>1. CASE UNCHANGED engine BY <2>4, <3>1
      <3>2. CASE engine' = [engine EXCEPT ![d] = @ \cup {Hand(d)}]
        <4>1. engine[d] \cup {Hand(d)} \in SUBSET Shard BY <2>1, <2>4
        <4> QED BY <2>4, <3>2, <4>1
      <3> QED BY <2>2, <3>1, <3>2
    <2>6. mapped' \in [Daemon -> SUBSET Shard]
      <3>1. CASE UNCHANGED mapped BY <2>4, <3>1
      <3>2. CASE mapped' = [mapped EXCEPT ![d] = @ \cup {Hand(d)}]
        <4>1. mapped[d] \cup {Hand(d)} \in SUBSET Shard BY <2>1, <2>4
        <4> QED BY <2>4, <3>2, <4>1
      <3> QED BY <2>2, <3>1, <3>2
    <2> QED BY <1>r, <2>3, <2>5, <2>6 DEF Ranges
  <1>10. CASE Reconcile(d)
    BY <1>10, <1>r DEF Reconcile, Confirmed, Ranges
  <1> QED
    BY <1>1, <1>2, <1>3, <1>4, <1>5, <1>6, <1>7, <1>8, <1>9, <1>10 DEF Heartbeat

\* A heartbeat leaves the directory, the logs and the stop flag alone.
LEMMA BeatAside ==
  ASSUME NEW d \in Daemon, Heartbeat(d) PROVE UNCHANGED <<created, places, boot, log, stop>>
  BY DEF Heartbeat, Wake, Load, BeginClaim, Claim, ClaimFails, TryLock, GiveBack, Revert,
         Unlock, Open, Start, Reconcile, M!Begin, M!DoClaim, M!DoRevert, M!Fail,
         M!Grant, M!Refuse, M!Mutate, M!file, places

\* Every step keeps the types.
LEMMA TypesStep == Types /\ [Next]_vars => Types'
  <1> SUFFICES ASSUME Types, [Next]_vars PROVE Types' OBVIOUS
  <1>0. M!TypeOK' BY LeaseStep, LeaseTypesStep DEF Types
  <1>s. L!TypeOK /\ Walks /\ Ranges BY TypesSplit DEF Types
  <1>q. ASSUME L!TypeOK', Walks', Ranges' PROVE Types'
    BY <1>0, <1>q, TypesSplit, PTL DEF Types
  <1>1. ASSUME NEW d \in Daemon, Boot(d) PROVE Types'
    <2>1. L!TypeOK' /\ boot[d] # "up" /\ \A e \in Daemon : e # d => boot'[e] = boot[e]
      BY <1>1, <1>s, ResolveTypes DEF Boot
    <2>2. at[d] = "boot" /\ todo[d] = {} BY <1>s, <2>1 DEF Walks, Busy, Idle
    <2>3. at' = [at EXCEPT ![d] = IF boot'[d] = "up" THEN "sleep" ELSE "boot"] /\ todo' = todo
      BY <1>1 DEF Boot, Goto
    <2>4. Walks' BY <1>s, <2>1, <2>2, <2>3 DEF Walks, Busy, Idle
    <2>5. Ranges' BY <1>1, <1>s DEF Boot, Ranges, engines
    <2> QED BY <1>q, <2>1, <2>4, <2>5
  <1>2. ASSUME Legacy PROVE Types'
    <2>1. L!TypeOK' /\ boot' = boot BY <1>2, <1>s, LegacyTypes
    <2>2. Walks' BY <1>2, <1>s, <2>1 DEF Legacy, Walks, beats
    <2>3. Ranges' BY <1>2, <1>s DEF Legacy, Ranges, beats, engines
    <2> QED BY <1>q, <2>1, <2>2, <2>3
  <1>3. ASSUME NEW d \in Daemon, Heartbeat(d) PROVE Types'
    <2>1. UNCHANGED <<created, places, boot>> BY <1>3, BeatAside
    <2>2. L!TypeOK' BY <1>s, <2>1, PlacesKept
    <2>3. Walks' BY <1>3, <2>1, BeatWalks DEF Types
    <2> QED BY <1>3, <1>q, <2>2, <2>3, BeatRanges
  <1>4. ASSUME NEW d \in Daemon, NEW s \in Shard, Save(d, s) PROVE Types'
    <2>1. L!TypeOK' BY <1>4, <1>s, SaveTypes
    <2>2. Walks' BY <1>4, <1>s DEF Save, Walks, beats
    <2>3. seen' \in [Daemon -> [Shard -> Nat]]
      <3>1. seen[d][s] + 1 \in Nat BY <1>s DEF Ranges
      <3> QED BY <1>4, <1>s, <3>1 DEF Save, Ranges
    <2>4. Ranges' BY <1>4, <1>s, <2>3 DEF Save, Ranges, beats
    <2> QED BY <1>q, <2>1, <2>2, <2>4
  <1>5. ASSUME NEW d \in Daemon, Shutdown(d) PROVE Types'
    <2>1. L!TypeOK' BY <1>5, <1>s, PlacesKept DEF Shutdown
    <2>2. Walks' BY <1>5, <1>s DEF Shutdown, Walks, beats, places
    <2>3. Ranges' BY <1>5, <1>s DEF Shutdown, Cleared, Ranges, beats
    <2> QED BY <1>q, <2>1, <2>2, <2>3
  <1>6. ASSUME NEW d \in Daemon, NEW s \in Shard, End(d, s) PROVE Types'
    <2>1. L!TypeOK' BY <1>6, <1>s, PlacesKept DEF End
    <2>2. Walks' BY <1>6, <1>s DEF End, Walks, beats, places
    <2>3. seen' \in [Daemon -> [Shard -> Nat]] BY <1>6, <1>s DEF End, Ranges
    <2>4. Ranges' BY <1>6, <1>s, <2>3 DEF End, Ranges, beats
    <2> QED BY <1>q, <2>1, <2>2, <2>4
  <1>7. ASSUME NEW d \in Daemon, Crash(d) PROVE Types'
    <2>1. L!TypeOK' BY <1>7, <1>s, CrashTypes
    <2>2. at' = [at EXCEPT ![d] = "boot"] /\ todo' = [todo EXCEPT ![d] = {}]
          /\ boot' = [boot EXCEPT ![d] = "start"]
      BY <1>7 DEF Crash, Goto, L!Reboot, L!Goto
    <2>3. boot \in [Daemon -> {"start", "legacy", "fresh", "move", "init", "up", "refused",
                               "failed"}]
      BY <1>s DEF L!TypeOK
    <2>4. Walks' BY <1>s, <2>2, <2>3 DEF Walks, Busy, Idle
    <2>5. lock' \in [Shard -> Daemon \cup {None}] BY <1>7, <1>s DEF Crash, Ranges
    <2>6. seen' \in [Daemon -> [Shard -> Nat]]
      <3>1. [s \in Shard |-> 0] \in [Shard -> Nat] OBVIOUS
      <3>2. seen' = [seen EXCEPT ![d] = [s \in Shard |-> 0]] BY <1>7 DEF Crash
      <3> QED BY <1>s, <3>1, <3>2 DEF Ranges
    <2>7. /\ now' = [now EXCEPT ![d] = 0] /\ fresh' = [fresh EXCEPT ![d] = FALSE]
          /\ owned' = [owned EXCEPT ![d] = {}] /\ mapped' = [mapped EXCEPT ![d] = {}]
          /\ engine' = [engine EXCEPT ![d] = {}] /\ ending' = [ending EXCEPT ![d] = {}]
          /\ stop' = [stop EXCEPT ![d] = FALSE] /\ UNCHANGED <<errors, overrun>>
      BY <1>7 DEF Crash
    <2>8. Ranges' BY <1>s, <2>5, <2>6, <2>7 DEF Ranges
    <2> QED BY <1>q, <2>1, <2>4, <2>8
  <1>8. ASSUME NEW d \in Daemon, Tick(d) PROVE Types'
    <2>1. L!TypeOK' BY <1>8, <1>s, PlacesKept DEF Tick, M!Tick, M!file
    <2>2. Walks' BY <1>8, <1>s DEF Tick, Walks, beats, places
    <2>3. Ranges' BY <1>8, <1>s DEF Tick, Ranges, beats, engines
    <2> QED BY <1>q, <2>1, <2>2, <2>3
  <1>9. ASSUME UNCHANGED vars PROVE Types'
    <2>1. L!TypeOK' BY <1>9, <1>s, PlacesKept DEF vars
    <2>2. Walks' BY <1>9, <1>s DEF vars, Walks, beats, places
    <2>3. Ranges' BY <1>9, <1>s DEF vars, Ranges, beats, engines
    <2> QED BY <1>q, <2>1, <2>2, <2>3
  <1> QED BY <1>1, <1>2, <1>3, <1>4, <1>5, <1>6, <1>7, <1>8, <1>9 DEF Next

\* Nothing is claimed, started or moved at first.
LEMMA TypesInit == Init => Types
  <1> SUFFICES ASSUME Init PROVE Types OBVIOUS
  <1>1. M!TypeOK
    <2>1. M!Init BY DEF Init
    <2>2. MP!Init
      BY <2>1 DEF M!Init, M!NoClaims, M!NoBelief, MP!Init, MP!NoClaims, MP!NoBelief
    <2> QED BY <2>2, LeaseAssumptions, LeaseTypes, MP!TypesInit
  <1>2. L!TypeOK
    <2>1. L!Init BY DEF Init
    <2>2. created \in BOOLEAN /\ total \subseteq Shard /\ {legacy, beside} \subseteq BOOLEAN
      BY <2>1 DEF L!Init
    <2>3. root \in Nat \cup {None} /\ log \in [Shard -> Nat \cup {None}] /\ saved \in [Shard -> Nat]
      BY <2>1 DEF L!Init
    <2>4. /\ boot = [d \in Daemon |-> "start"] /\ holder = None
      BY <2>1 DEF L!Init
    <2>5. \A d \in Daemon : boot[d] \in {"move", "init"} <=> holder = d BY <2>4
    <2> QED BY <2>2, <2>3, <2>4, <2>5 DEF L!TypeOK
  <1>3. Walks BY DEF Init, L!Init, Walks, Busy, Idle
  <1>4. Ranges BY DEF Init, Ranges
  <1> QED BY <1>1, <1>2, <1>3, <1>4, TypesSplit DEF Types

\* The types always hold.
LEMMA TypesAlways == Spec => []Types
  BY TypesInit, TypesStep, PTL DEF Spec

\* Every variable always has its type, and a heartbeat at work on a shard has one in hand.
THEOREM TypeCorrect == Spec => []TypeOK
  <1>1. Types => TypeOK BY DEF Types
  <1> QED BY <1>1, TypesAlways, PTL

\* The heartbeats, boots and deaths of any number of daemons use membership.json as
\* Membership says.
THEOREM LeasesImplemented == Spec => ImplementsMembership
  <1>1. Init => M!Init BY DEF Init
  <1>2. Types /\ [Next]_vars => (UNCHANGED M!vars \/ M!Next)
    BY LeaseStep DEF Types
  <1> QED BY <1>1, <1>2, TypesAlways, PTL DEF Spec, ImplementsMembership
----------------------------------------------------------------------------
(* One engine for a log, and the map. *)

\* The lock file of a log is its engine's alone.
OneEngine == \A d, e \in Daemon : d # e => engine[d] \cap engine[e] = {}

\* An engine that is ending still runs.
EndingRuns == \A d \in Daemon : ending[d] \subseteq engine[d]

Serving == OneEngine /\ MapIsServed /\ EndingRuns

\* Only these steps change which engines there are, and what the map says of them.
Serves(d) ==
  Start(d) \/ Reconcile(d) \/ Shutdown(d) \/ Crash(d) \/ \E s \in Shard : End(d, s)

\* The other steps leave them alone.
LEMMA EnginesKept ==
  ASSUME [Next]_vars, ~\E d \in Daemon : Serves(d) PROVE UNCHANGED <<mapped, engine, ending>>
  <1>1. ASSUME NEW d \in Daemon, Heartbeat(d), ~Start(d), ~Reconcile(d)
        PROVE  UNCHANGED <<mapped, engine, ending>>
    BY <1>1 DEF Heartbeat, Wake, Load, BeginClaim, Claim, ClaimFails, TryLock, GiveBack,
                Revert, Unlock, Open, engines
  <1>2. ASSUME NEW d \in Daemon, Boot(d) \/ Tick(d) PROVE UNCHANGED <<mapped, engine, ending>>
    BY <1>2 DEF Boot, Tick, engines
  <1>3. ASSUME NEW d \in Daemon, NEW s \in Shard, Save(d, s)
        PROVE  UNCHANGED <<mapped, engine, ending>>
    BY <1>3 DEF Save
  <1>4. ASSUME Legacy \/ UNCHANGED vars PROVE UNCHANGED <<mapped, engine, ending>>
    BY <1>4 DEF Legacy, vars, engines
  <1> QED BY <1>1, <1>2, <1>3, <1>4 DEF Next, Serves

\* Every step keeps one engine for a log, and the map within the engines.
LEMMA ServingStep == Types /\ Serving /\ [Next]_vars => Serving'
  <1> SUFFICES ASSUME Types, Serving, [Next]_vars PROVE Serving' OBVIOUS
  <1>r. Ranges BY TypesSplit DEF Types
  <1>1. ASSUME NEW d \in Daemon, Start(d) PROVE Serving'
    <2>1. CASE UNCHANGED <<engine, mapped>>
      BY <1>1, <2>1 DEF Start, Serving, OneEngine, MapIsServed, EndingRuns
    <2>2. CASE engine' # engine \/ mapped' # mapped
      <3>1. PICK s : /\ \A e \in Daemon : s \notin engine[e]
                     /\ engine' = [engine EXCEPT ![d] = @ \cup {s}]
                     /\ mapped' = [mapped EXCEPT ![d] = @ \cup {s}]
        BY <1>1, <2>2 DEF Start, NoEngine
      <3>2. UNCHANGED ending BY <1>1 DEF Start
      <3>3. engine'[d] = engine[d] \cup {s} /\ mapped'[d] = mapped[d] \cup {s}
        BY <1>r, <3>1 DEF Ranges
      <3>4. \A e \in Daemon : e # d => engine'[e] = engine[e] /\ mapped'[e] = mapped[e]
        BY <1>r, <3>1 DEF Ranges
      <3> QED BY <3>1, <3>2, <3>3, <3>4 DEF Serving, OneEngine, MapIsServed, EndingRuns
    <2> QED BY <2>1, <2>2
  <1>2. ASSUME NEW d \in Daemon, Reconcile(d) PROVE Serving'
    BY <1>2, <1>r DEF Reconcile, Confirmed, Ranges, Serving, OneEngine, MapIsServed, EndingRuns
  <1>3. ASSUME NEW d \in Daemon, Shutdown(d) PROVE Serving'
    BY <1>3, <1>r DEF Shutdown, Cleared, Ranges, Serving, OneEngine, MapIsServed, EndingRuns
  <1>4. ASSUME NEW d \in Daemon, NEW s \in Shard, End(d, s) PROVE Serving'
    BY <1>4, <1>r DEF End, Ranges, Serving, OneEngine, MapIsServed, EndingRuns
  <1>5. ASSUME NEW d \in Daemon, Crash(d) PROVE Serving'
    BY <1>5, <1>r DEF Crash, Ranges, Serving, OneEngine, MapIsServed, EndingRuns
  <1>6. ASSUME UNCHANGED <<mapped, engine, ending>> PROVE Serving'
    BY <1>6 DEF Serving, OneEngine, MapIsServed, EndingRuns
  <1> QED BY <1>1, <1>2, <1>3, <1>4, <1>5, <1>6, EnginesKept DEF Serves

\* It always holds.
LEMMA ServingAlways == Spec => []Serving
  <1>1. Init => Serving
    BY DEF Init, Serving, OneEngine, MapIsServed, EndingRuns
  <1> QED BY <1>1, ServingStep, TypesAlways, PTL DEF Spec

\* Every engine that enqueue can reach runs and has not been told to stop.
THEOREM MapServed == Spec => []MapIsServed
  <1>1. Serving => MapIsServed BY DEF Serving
  <1> QED BY <1>1, ServingAlways, PTL
----------------------------------------------------------------------------
(* One daemon at a time. *)

\* What a daemon has of its own.
Own(d) ==
  <<at[d], todo[d], owned[d], fresh[d], mapped[d], engine[d], ending[d], seen[d], stop[d],
    belief[d]>>

Acts(d) ==
  \/ Boot(d) \/ Heartbeat(d) \/ Shutdown(d) \/ Crash(d) \/ Tick(d)
  \/ \E s \in Shard : Save(d, s) \/ End(d, s)

\* A step is of a daemon, of the engine of before, or of nobody.
LEMMA StepActs ==
  ASSUME [Next]_vars PROVE (\E d \in Daemon : Acts(d)) \/ Legacy \/ UNCHANGED vars
  BY DEF Next, Acts

\* What a daemon does leaves what another one has of its own.
LEMMA OthersKept ==
  ASSUME Types, NEW d \in Daemon, Acts(d), NEW e \in Daemon, e # d PROVE UNCHANGED Own(e)
  <1>t. TypeOK /\ M!TypeOK BY DEF Types
  <1>1. CASE Boot(d)
    <2>1. UNCHANGED <<todo, owned, fresh, mapped, engine, ending, seen, stop, belief>>
      BY <1>1 DEF Boot, engines
    <2>2. at'[e] = at[e] BY <1>1, <1>t DEF Boot, Goto, TypeOK
    <2> QED BY <2>1, <2>2 DEF Own
  <1>2. CASE Heartbeat(d)
    <2>1. belief'[e] = belief[e]
      <3>1. \/ UNCHANGED belief
            \/ \E x : belief' = [belief EXCEPT ![d][Hand(d)] = x]
        BY <1>2 DEF Heartbeat, Wake, Load, BeginClaim, Claim, ClaimFails, TryLock, GiveBack,
                    Revert, Unlock, Open, Start, Reconcile, leases, M!Begin, M!DoClaim,
                    M!DoRevert, M!Fail, M!Grant, M!Refuse
      <3> QED BY <3>1, <1>t DEF M!TypeOK
    <2>2. at'[e] = at[e] /\ todo'[e] = todo[e]
      BY <1>2, <1>t DEF Heartbeat, Wake, Load, BeginClaim, Claim, ClaimFails, TryLock, GiveBack,
                  Revert, Unlock, Open, Start, Reconcile, Goto, Done, TypeOK
    <2>3. owned'[e] = owned[e] /\ fresh'[e] = fresh[e]
      BY <1>2, <1>t DEF Heartbeat, Wake, Load, BeginClaim, Claim, ClaimFails, TryLock, GiveBack,
                  Revert, Unlock, Open, Start, Reconcile, TypeOK
    <2>4. mapped'[e] = mapped[e] /\ engine'[e] = engine[e] /\ UNCHANGED <<ending, stop>>
      BY <1>2, <1>t DEF Heartbeat, Wake, Load, BeginClaim, Claim, ClaimFails, TryLock, GiveBack,
                  Revert, Unlock, Open, Start, Reconcile, TypeOK, engines
    <2>5. seen'[e] = seen[e]
      BY <1>2, <1>t DEF Heartbeat, Wake, Load, BeginClaim, Claim, ClaimFails, TryLock, GiveBack,
                  Revert, Unlock, Open, Start, Reconcile, TypeOK, engines
    <2> QED BY <2>1, <2>2, <2>3, <2>4, <2>5 DEF Own
  <1>3. CASE Shutdown(d)
    BY <1>3, <1>t DEF Shutdown, beats, leases, Own, TypeOK
  <1>4. CASE Crash(d)
    <2>1. belief'[e] = belief[e] BY <1>4, <1>t DEF Crash, M!Crash, M!TypeOK
    <2> QED BY <1>4, <1>t, <2>1 DEF Crash, Goto, Own, TypeOK
  <1>5. CASE Tick(d) BY <1>5 DEF Tick, M!Tick, beats, engines, Own
  <1>6. ASSUME NEW s \in Shard, Save(d, s) \/ End(d, s) PROVE UNCHANGED Own(e)
    BY <1>6, <1>t DEF Save, End, beats, leases, Own, TypeOK
  <1> QED BY <1>1, <1>2, <1>3, <1>4, <1>5, <1>6 DEF Acts

\* The engine of before touches nothing of theirs.
LEMMA LegacyAside == Legacy \/ UNCHANGED vars => \A e \in Daemon : UNCHANGED Own(e)
  BY DEF Legacy, vars, leases, beats, engines, Own
----------------------------------------------------------------------------
(* What the map says between two rounds. *)

\* The shards of a round that were granted are believed in and are done with, but for the one
\* in hand; a round begins with none, and a daemon with no map.
Keep(d) ==
  /\ at[d] = "boot" => mapped[d] = {}
  /\ at[d] \in Idle => owned[d] = {}
  /\ at[d] \in {"next", "claim", "lock", "revert"} => owned[d] \cap todo[d] = {}
  /\ at[d] \in {"unlock", "open", "start"} => owned[d] \cap todo[d] \subseteq {Hand(d)}
  /\ \A s \in owned[d] : belief[d][s] # None
  /\ at[d] = "lock" => belief[d][Hand(d)] # None
  /\ at[d] = "sleep" => \A s \in mapped[d] : belief[d][s] # None

Keeping == \A d \in Daemon : Keep(d)

\* A granted call tells its daemon something.
LEMMA GrantTells ==
  ASSUME Types, NEW d \in Daemon, NEW s \in Shard, M!Grant(d, s), call[d] # None
  PROVE  /\ belief'[d][s] # None
         /\ \A r \in Shard : r # s => belief'[d][r] = belief[d][r]
  <1>1. call[d] \in M!Call /\ version \in Nat /\ belief \in [Daemon -> [Shard -> M!Belief \cup {None}]]
    BY DEF Types, M!TypeOK
  <1>2. call[d].now + Lease \in Nat BY <1>1, LeaseAssumption DEF M!Call, M!TimeAssumption
  <1>3. version' \in Nat BY <1>1 DEF M!Grant, M!Mutate
  <1>4. [expiry |-> call[d].now + Lease, version |-> version'] \in M!Belief
    BY <1>2, <1>3 DEF M!Belief
  <1>5. [expiry |-> call[d].now + Lease, version |-> version'] # None
    BY <1>4, LeaseAssumption DEF M!NoneAssumption
  <1>6. belief' = [belief EXCEPT ![d][s] = [expiry |-> call[d].now + Lease, version |-> version']]
    BY DEF M!Grant
  <1> QED BY <1>1, <1>5, <1>6

\* Who acts keeps to Keep.
LEMMA KeepStep ==
  ASSUME Types, NEW d \in Daemon, Keep(d), Acts(d) PROVE Keep(d)'
  <1>t. TypeOK /\ M!TypeOK /\ Walks /\ Ranges BY TypesSplit DEF Types
  <1>h. todo[d] # {} => Hand(d) \in todo[d] /\ Hand(d) \in Shard BY <1>t, InHand
  <1>b. belief \in [Daemon -> [Shard -> M!Belief \cup {None}]] BY <1>t DEF M!TypeOK
  <1>s. UNCHANGED todo => Hand(d)' = Hand(d) BY InHandStill
  <1> USE DEF Keep, Idle, Goto, Done
  <1>1. CASE Boot(d)
    <2>1. boot[d] # "up" BY <1>1, <1>t, ResolveTypes DEF Boot, TypeOK
    <2>2. at[d] = "boot" BY <1>t, <2>1 DEF Walks
    <2>3. at'[d] \in {"boot", "sleep"} BY <1>1, <1>t DEF Boot, TypeOK
    <2>4. UNCHANGED <<todo, owned, mapped, belief>> BY <1>1 DEF Boot, engines
    <2> QED BY <2>2, <2>3, <2>4
  <1>2. CASE Wake(d) BY <1>2, <1>t DEF Wake, leases, engines, TypeOK
  <1>3. CASE Load(d)
    <2>1. at'[d] = "next" /\ at[d] = "load" BY <1>3, <1>t DEF Load, TypeOK
    <2>2. UNCHANGED <<owned, belief>> BY <1>3 DEF Load, leases
    <2> QED BY <2>1, <2>2
  <1>4. CASE BeginClaim(d)
    <2>1. at'[d] = "claim" /\ at[d] = "next" BY <1>4, <1>t DEF BeginClaim, TypeOK
    <2>2. UNCHANGED <<owned, todo, belief>> BY <1>4 DEF BeginClaim, M!Begin
    <2> QED BY <2>1, <2>2
  <1>5. CASE Claim(d)
    <2>1. at[d] = "claim" /\ todo[d] # {} BY <1>5, <1>t DEF Claim, Walks, Busy
    <2>2. M!DoClaim(d, Hand(d)) /\ call[d] # None BY <1>5 DEF Claim, M!DoClaim, M!Finish
    <2>3. UNCHANGED owned BY <1>5 DEF Claim
    <2>4. Hand(d) \notin owned[d] BY <1>h, <2>1
    <2>5. owned[d] \subseteq Shard BY <1>t DEF Ranges
    <2>6. CASE M!MayClaim(d, Hand(d))
      <3>1. at'[d] = "lock" /\ UNCHANGED todo BY <1>5, <1>t, <2>6 DEF Claim, TypeOK
      <3>2. M!Grant(d, Hand(d)) BY <2>2, <2>6 DEF M!DoClaim
      <3>3. /\ belief'[d][Hand(d)] # None
            /\ \A r \in Shard : r # Hand(d) => belief'[d][r] = belief[d][r]
        BY <1>h, <2>1, <2>2, <3>2, GrantTells
      <3> QED BY <1>s, <2>1, <2>3, <2>4, <2>5, <3>1, <3>3
    <2>7. CASE ~M!MayClaim(d, Hand(d))
      <3>1. at'[d] = "next" /\ todo'[d] = todo[d] \ {Hand(d)} BY <1>5, <1>t, <2>7 DEF Claim, TypeOK
      <3>2. M!Refuse(d, Hand(d)) BY <2>2, <2>7 DEF M!DoClaim
      <3>3. \A r \in Shard : r # Hand(d) => belief'[d][r] = belief[d][r]
        BY <1>b, <3>2 DEF M!Refuse
      <3> QED BY <2>1, <2>3, <2>4, <2>5, <3>1, <3>3
    <2> QED BY <2>6, <2>7
  <1>6. CASE ClaimFails(d)
    <2>1. at[d] = "claim" /\ at'[d] = "next" /\ todo'[d] = todo[d] \ {Hand(d)}
      BY <1>6, <1>t DEF ClaimFails, TypeOK
    <2>2. UNCHANGED <<owned, belief>> BY <1>6 DEF ClaimFails, M!Fail
    <2> QED BY <2>1, <2>2
  <1>7. CASE TryLock(d)
    <2>1. at[d] = "lock" /\ at'[d] \in {"open", "unlock"} /\ owned'[d] = owned[d] \cup {Hand(d)}
      BY <1>7, <1>t DEF TryLock, TypeOK
    <2>2. UNCHANGED <<todo, belief>> BY <1>7 DEF TryLock, leases
    <2> QED BY <1>s, <2>1, <2>2
  <1>8. CASE GiveBack(d)
    <2>1. at[d] = "lock" /\ at'[d] = "revert" /\ todo[d] # {}
      BY <1>8, <1>t DEF GiveBack, TypeOK
    <2>2. UNCHANGED <<todo, owned>> BY <1>8 DEF GiveBack
    <2>3. \A r \in Shard : r # Hand(d) => belief'[d][r] = belief[d][r]
      BY <1>8, <1>b DEF GiveBack, M!Begin
    <2>4. Hand(d) \notin owned[d] /\ owned[d] \subseteq Shard BY <1>h, <1>t, <2>1 DEF Ranges
    <2> QED BY <2>1, <2>2, <2>3, <2>4
  <1>9. CASE Revert(d)
    <2>1. at[d] = "revert" /\ at'[d] = "next" /\ todo[d] # {} /\ todo'[d] = todo[d] \ {Hand(d)}
      BY <1>9, <1>t DEF Revert, TypeOK
    <2>2. UNCHANGED owned BY <1>9 DEF Revert
    <2>3. \A r \in Shard : r # Hand(d) => belief'[d][r] = belief[d][r]
      BY <1>9, <1>b DEF Revert, M!DoRevert, M!Fail, M!Refuse
    <2>4. Hand(d) \notin owned[d] /\ owned[d] \subseteq Shard BY <1>h, <1>t, <2>1 DEF Ranges
    <2> QED BY <2>1, <2>2, <2>3, <2>4
  <1>10. CASE Unlock(d)
    <2>1. at[d] = "unlock" /\ at'[d] = "next" /\ todo'[d] = todo[d] \ {Hand(d)}
      BY <1>10, <1>t DEF Unlock, TypeOK
    <2>2. UNCHANGED <<owned, belief>> BY <1>10 DEF Unlock, leases
    <2> QED BY <2>1, <2>2
  <1>11. CASE Open(d) \/ Start(d)
    <2>1. at[d] \in {"open", "start"} BY <1>11 DEF Open, Start
    <2>2. \/ at'[d] = "next" /\ todo'[d] = todo[d] \ {Hand(d)}
          \/ at'[d] = "start" /\ UNCHANGED todo
          \/ at'[d] = "dead"
      BY <1>11, <1>t DEF Open, Start, TypeOK
    <2>3. UNCHANGED <<owned, belief>> BY <1>11 DEF Open, Start, leases
    <2> QED BY <1>s, <2>1, <2>2, <2>3
  <1>12. CASE Reconcile(d)
    <2>1. at'[d] = "sleep" /\ owned'[d] = {} /\ mapped'[d] = mapped[d] \cap owned[d]
      BY <1>12, <1>t DEF Reconcile, Confirmed, TypeOK
    <2>2. UNCHANGED belief BY <1>12 DEF Reconcile, leases
    <2> QED BY <2>1, <2>2
  <1>13. CASE Shutdown(d)
    <2>1. mapped'[d] = {} BY <1>13, <1>t DEF Shutdown, Cleared, TypeOK
    <2>2. UNCHANGED <<at, todo, owned, belief>> BY <1>13 DEF Shutdown, beats, leases
    <2> QED BY <1>s, <2>1, <2>2
  <1>14. CASE Crash(d)
    BY <1>14, <1>t DEF Crash, TypeOK
  <1>15. CASE Tick(d) \/ \E s \in Shard : Save(d, s) \/ End(d, s)
    <2>1. UNCHANGED <<at, todo, owned, mapped, belief>>
      BY <1>15 DEF Tick, M!Tick, Save, End, beats, leases, engines
    <2> QED BY <1>s, <2>1
  <1> QED
    BY <1>1, <1>2, <1>3, <1>4, <1>5, <1>6, <1>7, <1>8, <1>9, <1>10, <1>11, <1>12, <1>13, <1>14,
       <1>15 DEF Acts, Heartbeat

\* Who does not act keeps to Keep.
LEMMA KeepOther == ASSUME NEW d, Keep(d), UNCHANGED Own(d) PROVE Keep(d)'
  <1>1. UNCHANGED <<at[d], todo[d], owned[d], mapped[d], belief[d]>> BY DEF Own
  <1>2. Hand(d)' = Hand(d) BY <1>1 DEF Hand
  <1> QED BY <1>1, <1>2 DEF Keep

\* Every step keeps Keeping.
LEMMA KeepingStep == Types /\ Keeping /\ [Next]_vars => Keeping'
  <1> SUFFICES ASSUME Types, Keeping, [Next]_vars, NEW e \in Daemon PROVE Keep(e)'
    BY DEF Keeping
  <1>1. Keep(e) BY DEF Keeping
  <1>2. ASSUME NEW d \in Daemon, Acts(d) PROVE Keep(e)'
    <2>1. CASE d = e BY <1>1, <1>2, <2>1, KeepStep
    <2>2. CASE d # e BY <1>1, <1>2, <2>2, OthersKept, KeepOther
    <2> QED BY <2>1, <2>2
  <1> QED BY <1>1, <1>2, StepActs, LegacyAside, KeepOther

\* Keeping always holds.
LEMMA KeepingAlways == Spec => []Keeping
  <1>1. Init => Keeping
    <2> SUFFICES ASSUME Init PROVE Keeping OBVIOUS
    <2> QED BY DEF Init, Keeping, Keep
  <1> QED BY <1>1, KeepingStep, TypesAlways, PTL DEF Spec

\* Between two rounds the map holds only shards whose last claim was granted.
THEOREM MapBelieved == Spec => []MapIsBelieved
  <1>1. Types /\ Keeping => MapIsBelieved
    <2> SUFFICES ASSUME Types, Keeping, NEW d \in Daemon, NEW s \in Shard, at[d] = "sleep",
                        s \in mapped[d]
                 PROVE  belief[d][s] # None
      BY DEF MapIsBelieved
    <2> QED BY DEF Keeping, Keep
  <1> QED BY <1>1, KeepingAlways, TypesAlways, PTL
----------------------------------------------------------------------------
(* The .lock of a shard. *)

\* Whoever has the .lock of a shard has the shard in hand; only a fresh shard is opened; a
\* daemon that boots has no engine.
LockKeep(d) ==
  /\ \A s \in Shard : lock[s] = d => at[d] \in {"unlock", "open"} /\ s = Hand(d)
  /\ at[d] \in {"open", "start"} => fresh[d]
  /\ at[d] = "boot" => engine[d] = {}

LockKeeping == \A d \in Daemon : LockKeep(d)

\* Who acts keeps to LockKeep.
LEMMA LockKeepStep ==
  ASSUME Types, NEW d \in Daemon, LockKeep(d), Acts(d) PROVE LockKeep(d)'
  <1>t. TypeOK /\ Walks /\ Ranges BY TypesSplit DEF Types
  <1>h. todo[d] # {} => Hand(d) \in todo[d] /\ Hand(d) \in Shard BY <1>t, InHand
  <1>s. UNCHANGED todo => Hand(d)' = Hand(d) BY InHandStill
  <1>n. d # None BY NobodyAssumption
  <1> USE DEF LockKeep, Goto
  <1>1. CASE Boot(d)
    <2>1. boot[d] # "up" BY <1>1, <1>t, ResolveTypes DEF Boot, TypeOK
    <2>2. at[d] = "boot" BY <1>t, <2>1 DEF Walks
    <2>3. at'[d] \in {"boot", "sleep"} BY <1>1, <1>t DEF Boot, TypeOK
    <2>4. UNCHANGED <<engine, lock>> BY <1>1 DEF Boot, engines
    <2> QED BY <2>2, <2>3, <2>4
  <1>2. CASE Wake(d) \/ Load(d) \/ BeginClaim(d) \/ Claim(d) \/ ClaimFails(d) \/ GiveBack(d)
             \/ Revert(d) \/ Reconcile(d)
    <2>1. at[d] \notin {"unlock", "open"} /\ at'[d] \notin {"boot", "open", "start"}
      BY <1>2, <1>t DEF Wake, Load, BeginClaim, Claim, ClaimFails, GiveBack, Revert, Reconcile,
                       RoundOver, TypeOK
    <2>2. UNCHANGED lock
      BY <1>2 DEF Wake, Load, BeginClaim, Claim, ClaimFails, GiveBack, Revert, Reconcile
    <2> QED BY <2>1, <2>2
  <1>3. CASE TryLock(d)
    <2>1. at[d] = "lock" /\ at'[d] \in {"open", "unlock"} /\ (at'[d] = "open" => fresh[d])
      BY <1>3, <1>t DEF TryLock, TypeOK
    <2>2. \A s \in Shard : s # Hand(d) => lock'[s] = lock[s] BY <1>3, <1>t DEF TryLock, TypeOK
    <2>3. UNCHANGED <<todo, fresh>> BY <1>3 DEF TryLock
    <2> QED BY <1>s, <2>1, <2>2, <2>3
  <1>4. CASE Unlock(d) \/ Open(d)
    <2>1. at[d] \in {"unlock", "open"} /\ at'[d] \in {"next", "start", "dead"}
          /\ (at'[d] = "start" => at[d] = "open")
      BY <1>4, <1>t DEF Unlock, Open, TypeOK
    <2>2. lock' = [lock EXCEPT ![Hand(d)] = None] /\ UNCHANGED fresh BY <1>4 DEF Unlock, Open
    <2>3. \A s \in Shard : lock'[s] # d BY <1>t, <1>n, <2>2 DEF TypeOK
    <2> QED BY <2>1, <2>2, <2>3
  <1>5. CASE Start(d)
    <2>1. at[d] = "start" /\ at'[d] \in {"next", "dead"} BY <1>5, <1>t DEF Start, TypeOK
    <2>2. UNCHANGED lock BY <1>5 DEF Start
    <2> QED BY <2>1, <2>2
  <1>6. CASE Shutdown(d) \/ Tick(d) \/ \E s \in Shard : Save(d, s)
    <2>1. UNCHANGED <<at, todo, fresh, engine, lock>>
      BY <1>6 DEF Shutdown, Tick, Save, beats, engines
    <2> QED BY <1>s, <2>1
  <1>7. ASSUME NEW r \in Shard, End(d, r) PROVE LockKeep(d)'
    <2>1. UNCHANGED <<at, todo, fresh, lock>> /\ engine'[d] \subseteq engine[d]
      BY <1>7, <1>t DEF End, beats, TypeOK
    <2> QED BY <1>s, <2>1
  <1>8. CASE Crash(d)
    <2>1. at'[d] = "boot" /\ engine'[d] = {} BY <1>8, <1>t DEF Crash, TypeOK
    <2>2. \A s \in Shard : lock'[s] # d BY <1>8, <1>n DEF Crash
    <2> QED BY <2>1, <2>2
  <1> QED BY <1>1, <1>2, <1>3, <1>4, <1>5, <1>6, <1>7, <1>8 DEF Acts, Heartbeat

\* A daemon takes locks for itself only.
LEMMA LockOther ==
  ASSUME Types, NEW d \in Daemon, Acts(d), NEW e \in Daemon, e # d, NEW s \in Shard, lock'[s] = e
  PROVE  lock[s] = e
  <1>t. lock \in [Shard -> Daemon \cup {None}] BY DEF Types, TypeOK
  <1>n. e # None BY NobodyAssumption
  <1>1. CASE Heartbeat(d)
    <2>1. \/ UNCHANGED lock
          \/ lock' = [lock EXCEPT ![Hand(d)] = d]
          \/ lock' = [lock EXCEPT ![Hand(d)] = None]
      BY <1>1 DEF Heartbeat, Wake, Load, BeginClaim, Claim, ClaimFails, TryLock, GiveBack, Revert,
                  Unlock, Open, Start, Reconcile
    <2> QED BY <1>t, <1>n, <2>1
  <1>2. CASE Crash(d) BY <1>2, <1>n DEF Crash
  <1>3. CASE Boot(d) \/ Shutdown(d) \/ Tick(d) BY <1>3 DEF Boot, Shutdown, Tick
  <1>4. ASSUME NEW r \in Shard, Save(d, r) \/ End(d, r) PROVE lock' = lock
    BY <1>4 DEF Save, End
  <1> QED BY <1>1, <1>2, <1>3, <1>4 DEF Acts

\* Every step keeps LockKeeping.
LEMMA LockKeepingStep == Types /\ LockKeeping /\ [Next]_vars => LockKeeping'
  <1> SUFFICES ASSUME Types, LockKeeping, [Next]_vars, NEW e \in Daemon PROVE LockKeep(e)'
    BY DEF LockKeeping
  <1>1. LockKeep(e) BY DEF LockKeeping
  <1>2. ASSUME UNCHANGED Own(e), \A s \in Shard : lock'[s] = e => lock[s] = e PROVE LockKeep(e)'
    <2>1. UNCHANGED <<at[e], todo[e], fresh[e], engine[e]>> BY <1>2 DEF Own
    <2>2. Hand(e)' = Hand(e) BY <2>1, InHandStill
    <2> QED BY <1>1, <1>2, <2>1, <2>2 DEF LockKeep
  <1>3. ASSUME NEW d \in Daemon, Acts(d) PROVE LockKeep(e)'
    <2>1. CASE d = e BY <1>1, <1>3, <2>1, LockKeepStep
    <2>2. CASE d # e BY <1>2, <1>3, <2>2, OthersKept, LockOther
    <2> QED BY <2>1, <2>2
  <1>4. ASSUME Legacy \/ UNCHANGED vars PROVE LockKeep(e)'
    <2>1. UNCHANGED lock BY <1>4 DEF Legacy, vars
    <2> QED BY <1>2, <1>4, <2>1, LegacyAside
  <1> QED BY <1>3, <1>4, StepActs

\* LockKeeping always holds.
LEMMA LockKeepingAlways == Spec => []LockKeeping
  <1>1. Init => LockKeeping
    BY NobodyAssumption DEF Init, LockKeeping, LockKeep
  <1> QED BY <1>1, LockKeepingStep, TypesAlways, PTL DEF Spec
----------------------------------------------------------------------------
(* The heartbeat does not die. *)

\* No shard was taken from a daemon that was running, and no call has failed.
Calm == ~overrun /\ errors = 0

\* Calm does not come back.
LEMMA CalmBefore == Types /\ [Next]_vars /\ Calm' => Calm
  <1> SUFFICES ASSUME Types, [Next]_vars, Calm' PROVE Calm OBVIOUS
  <1>t. errors \in Nat /\ overrun \in BOOLEAN BY DEF Types, TypeOK
  <1>e. Error => errors' # 0 BY <1>t DEF Error
  <1>1. ASSUME NEW d \in Daemon, Heartbeat(d) PROVE Calm
    <2>1. UNCHANGED errors
      BY <1>1, <1>e DEF Calm, Heartbeat, Wake, Load, BeginClaim, Claim, ClaimFails, TryLock,
                        GiveBack, Revert, Unlock, Open, Start, Reconcile
    <2>2. overrun => overrun'
      BY <1>1 DEF Heartbeat, Wake, Load, BeginClaim, Claim, ClaimFails, TryLock, GiveBack, Revert,
                  Unlock, Open, Start, Reconcile
    <2> QED BY <2>1, <2>2 DEF Calm
  <1>2. ASSUME NEW d \in Daemon, Acts(d), ~Heartbeat(d) PROVE Calm
    BY <1>2 DEF Calm, Acts, Boot, Shutdown, Crash, Tick, Save, End
  <1>3. ASSUME Legacy \/ UNCHANGED vars PROVE Calm BY <1>3 DEF Calm, Legacy, vars
  <1> QED BY <1>1, <1>2, <1>3, StepActs

\* As long as it is calm: nobody gives a claim back or is dead; a daemon owns the shard in hand
\* once it has claimed it, and those it has an engine for; a fresh shard has no engine.
Hold(d) ==
  /\ at[d] \notin {"revert", "dead"}
  /\ at[d] \in {"lock", "unlock", "open", "start"} => M!Owned(Hand(d), d)
  /\ \A s \in engine[d] : M!Owned(s, d)
  /\ at[d] \in {"lock", "open", "start"} /\ fresh[d] => NoEngine(Hand(d))

Holding == Calm => \A d \in Daemon : Hold(d)

\* A claim names its owner.
LEMMA GrantOwns ==
  ASSUME Types, NEW d \in Daemon, NEW s \in Shard, M!Grant(d, s), call[d] # None
  PROVE  /\ M!Owned(s, d)'
         /\ \A r \in Shard : r # s => claims'[r] = claims[r]
  <1>1. call[d] \in M!Call /\ claims \in [Shard -> M!Claim \cup {None}]
    BY DEF Types, M!TypeOK
  <1> DEFINE c == [owner |-> d, expiry |-> call[d].now + Lease]
  <1>2. c \in M!Claim BY <1>1, LeaseAssumption DEF M!Call, M!TimeAssumption, M!Claim
  <1>3. c # None BY <1>2, LeaseAssumption DEF M!NoneAssumption
  <1>4. c.owner = d OBVIOUS
  <1>5. claims' = [claims EXCEPT ![s] = c] BY DEF M!Grant, M!Mutate
  <1> HIDE DEF c
  <1>6. claims'[s] = c /\ \A r \in Shard : r # s => claims'[r] = claims[r] BY <1>1, <1>5
  <1> QED BY <1>3, <1>4, <1>6 DEF M!Owned

\* While it is calm a claim stays with an owner that is running.
LEMMA OwnersKept ==
  ASSUME Types, Holding, Calm, [Next]_vars, Calm', NEW s \in Shard, NEW e \in Daemon,
         M!Owned(s, e), Running(e, s)
  PROVE  M!Owned(s, e)'
  <1>1. ASSUME claims' = claims PROVE M!Owned(s, e)' BY <1>1 DEF M!Owned
  <1>2. ASSUME NEW d \in Daemon, Boot(d) PROVE M!Owned(s, e)'
    <2>1. CASE created' = created BY <1>1, <1>2, <2>1 DEF Boot, InitOnce
    <2>2. CASE created' # created
      <3>1. ~created BY <1>2, <2>2 DEF Boot, InitOnce, M!Initialize
      <3>2. claims[s] = None BY <3>1 DEF Types, M!TypeOK, M!NoClaims
      <3> QED BY <3>2 DEF M!Owned
    <2> QED BY <2>1, <2>2
  <1>3. ASSUME NEW d \in Daemon, Claim(d) PROVE M!Owned(s, e)'
    <2>1. at[d] = "claim" /\ M!DoClaim(d, Hand(d)) BY <1>3 DEF Claim
    <2>2. Hand(d) \in Shard BY <2>1, InHand DEF Types, TypeOK
    <2>3. PICK x \in Shard : x = Hand(d) BY <2>2
    <2>4. call[d] # None BY <2>1 DEF M!DoClaim, M!Finish
    <2>5. CASE M!Refuse(d, x) BY <1>1, <2>5 DEF M!Refuse, M!file
    <2>6. CASE M!Grant(d, x) /\ M!MayClaim(d, x)
      <3>1. M!Owned(x, d)' /\ \A r \in Shard : r # x => claims'[r] = claims[r]
        BY <2>4, <2>6, GrantOwns
      <3>2. CASE s # x BY <3>1, <3>2 DEF M!Owned
      <3>3. CASE s = x
        <4>1. claims[x] # None /\ claims[x].owner = e BY <3>3 DEF M!Owned
        <4>2. e = d
          BY <1>3, <2>3, <2>6, <3>3, <4>1 DEF Claim, Calm
        <4> QED BY <3>1, <3>3, <4>2
      <3> QED BY <3>2, <3>3
    <2> QED BY <2>1, <2>3, <2>5, <2>6 DEF M!DoClaim
  <1>4. ASSUME NEW d \in Daemon, Heartbeat(d), ~Claim(d) PROVE claims' = claims
    <2>1. ~Revert(d) BY DEF Holding, Hold, Revert
    <2> QED BY <1>4, <2>1 DEF Heartbeat, Wake, Load, BeginClaim, ClaimFails, TryLock, GiveBack,
                  Unlock, Open, Start, Reconcile, leases, M!Begin, M!Fail, M!file
  <1>5. ASSUME NEW d \in Daemon, Shutdown(d) \/ Crash(d) \/ Tick(d) PROVE claims' = claims
    BY <1>5 DEF Shutdown, Crash, Tick, M!Crash, M!Tick, M!file, leases
  <1>6. ASSUME NEW d \in Daemon, NEW r \in Shard, Save(d, r) \/ End(d, r) PROVE claims' = claims
    BY <1>6 DEF Save, End, leases
  <1>7. ASSUME Legacy \/ UNCHANGED vars PROVE claims' = claims
    BY <1>7 DEF Legacy, vars, leases
  <1> QED BY <1>1, <1>2, <1>3, <1>4, <1>5, <1>6, <1>7, StepActs DEF Acts
\* Only the start of an engine adds one, and only for the shard in hand.
LEMMA EnginesGrow ==
  ASSUME Types, NEW d \in Daemon, Acts(d), NEW f \in Daemon, NEW s \in engine'[f], s \notin engine[f]
  PROVE  f = d /\ Start(d) /\ s = Hand(d) /\ NoEngine(s)
  <1>t. engine \in [Daemon -> SUBSET Shard] BY DEF Types, TypeOK
  <1>1. ASSUME UNCHANGED engine PROVE FALSE BY <1>1
  <1>2. CASE Heartbeat(d) /\ ~Start(d)
    <2>1. UNCHANGED engine
      BY <1>2 DEF Heartbeat, Wake, Load, BeginClaim, Claim, ClaimFails, TryLock, GiveBack,
                Revert, Unlock, Open, Reconcile, engines
    <2> QED BY <1>1, <2>1
  <1>3. CASE Start(d)
    <2>1. engine' = [engine EXCEPT ![d] = @ \cup {Hand(d)}] /\ NoEngine(Hand(d))
      BY <1>1, <1>3 DEF Start
    <2> QED BY <1>t, <1>3, <2>1
  <1>4. CASE Boot(d) \/ Shutdown(d) \/ Tick(d)
    <2>1. UNCHANGED engine BY <1>4 DEF Boot, Shutdown, Tick, engines
    <2> QED BY <1>1, <2>1
  <1>5. ASSUME NEW r \in Shard, Save(d, r) PROVE FALSE
    <2>1. UNCHANGED engine BY <1>5 DEF Save
    <2> QED BY <1>1, <2>1
  <1>6. ASSUME NEW r \in Shard, End(d, r) PROVE FALSE
    <2>1. engine' = [engine EXCEPT ![d] = @ \ {r}] BY <1>6 DEF End
    <2> QED BY <1>t, <2>1
  <1>7. CASE Crash(d)
    <2>1. engine' = [engine EXCEPT ![d] = {}] BY <1>7 DEF Crash
    <2> QED BY <1>t, <2>1
  <1> QED BY <1>2, <1>3, <1>4, <1>5, <1>6, <1>7 DEF Acts

\* A shard has one owner.
LEMMA OneOwner ==
  ASSUME NEW s, NEW d, NEW e, M!Owned(s, d), M!Owned(s, e) PROVE d = e
  BY DEF M!Owned

\* Who acts keeps to Hold.
LEMMA HoldStep ==
  ASSUME Types, LockKeeping, Holding, Calm, [Next]_vars, Calm', NEW d \in Daemon, Acts(d)
  PROVE  Hold(d)'
  <1>t. TypeOK /\ Walks /\ Ranges BY TypesSplit DEF Types
  <1>h. todo[d] # {} => Hand(d) \in todo[d] /\ Hand(d) \in Shard BY <1>t, InHand
  <1>s. UNCHANGED todo => Hand(d)' = Hand(d) BY InHandStill
  <1>H. Hold(d) BY DEF Holding
  <1>x. ~Error BY <1>t DEF Error, Calm, TypeOK
  <1>e. \A s \in engine[d] : M!Owned(s, d)'
    <2>1. ASSUME NEW s \in engine[d] PROVE M!Owned(s, d)'
      <3>1. s \in Shard /\ M!Owned(s, d) /\ Running(d, s) BY <1>t, <1>H DEF Ranges, Hold, Running
      <3> QED BY <3>1, OwnersKept
    <2> QED BY <2>1
  <1>g. ~Start(d) => \A s \in engine'[d] : M!Owned(s, d)'
    BY <1>e, EnginesGrow
  <1>o. ASSUME at[d] \in {"lock", "unlock", "open", "start"}, NEW x \in Shard, x = Hand(d)
        PROVE  M!Owned(x, d)'
    <2>1. M!Owned(x, d) /\ Running(d, x) BY <1>o, <1>H DEF Hold, Running
    <2> QED BY <2>1, OwnersKept
  <1>q. ASSUME at'[d] \notin {"lock", "unlock", "open", "start", "revert", "dead"}, ~Start(d)
        PROVE  Hold(d)'
    BY <1>g, <1>q DEF Hold
  <1>1. CASE \/ Boot(d) \/ Wake(d) \/ Load(d) \/ BeginClaim(d) \/ ClaimFails(d) \/ Revert(d)
             \/ Unlock(d) \/ Reconcile(d) \/ Crash(d)
    <2>1. at'[d] \in {"boot", "sleep", "off", "load", "next", "claim"}
      BY <1>1, <1>t DEF Boot, Wake, Load, BeginClaim, ClaimFails, Revert, Unlock, Reconcile,
                       Crash, Goto, TypeOK
    <2>2. ~Start(d)
      <3>1. CASE Boot(d)
        <4>1. boot[d] # "up" BY <3>1, <1>t, ResolveTypes DEF Boot, TypeOK
        <4>2. at[d] = "boot" BY <1>t, <4>1 DEF Walks
        <4> QED BY <4>2 DEF Start
      <3>2. CASE Crash(d)
        <4>1. crashes' = crashes + 1 /\ crashes \in Nat
          BY <3>2 DEF Crash, M!Crash, Types, M!TypeOK
        <4> QED BY <4>1 DEF Start
      <3> QED BY <1>1, <3>1, <3>2 DEF Wake, Load, BeginClaim, ClaimFails, Revert, Unlock,
                                    Reconcile, RoundOver, Start
    <2> QED BY <1>q, <2>1, <2>2
  <1>2. CASE Claim(d)
    <2>1. at[d] = "claim" /\ todo[d] # {} /\ M!DoClaim(d, Hand(d)) /\ ~Start(d)
      BY <1>2, <1>t DEF Claim, Walks, Busy, Start
    <2>2. CASE ~M!MayClaim(d, Hand(d))
      <3>1. at'[d] = "next" BY <1>2, <1>t, <2>2 DEF Claim, Goto, TypeOK
      <3> QED BY <1>q, <2>1, <3>1
    <2>3. CASE M!MayClaim(d, Hand(d))
      <3>1. at'[d] = "lock" /\ UNCHANGED <<todo, engine>>
        BY <1>2, <1>t, <2>3 DEF Claim, Goto, TypeOK, engines
      <3>2. PICK x \in Shard : x = Hand(d) BY <1>h, <2>1
      <3>3. Hand(d)' = x BY <1>s, <3>1, <3>2
      <3>4. M!Grant(d, x) /\ call[d] # None
        BY <2>1, <2>3, <3>2 DEF M!DoClaim, M!Finish
      <3>5. M!Owned(x, d)' BY <3>4, GrantOwns
      <3>6. fresh'[d] => NoEngine(x)
        <4>1. fresh'[d] = Fresh(d, x) BY <1>2, <1>t, <3>2 DEF Claim, TypeOK
        <4>2. ASSUME ~M!Owned(x, d), NEW f \in Daemon, x \in engine[f] PROVE FALSE
          <5>1. M!Owned(x, f) BY <4>2 DEF Holding, Hold
          <5>2. claims[x] # None /\ claims[x].owner = f BY <5>1 DEF M!Owned
          <5>3. f # d BY <4>2, <5>1
          <5>4. Running(f, x) BY <4>2 DEF Running
          <5>5. overrun' BY <1>2, <2>3, <3>2, <5>2, <5>3, <5>4 DEF Claim
          <5> QED BY <5>5 DEF Calm
        <4> QED BY <4>1, <4>2 DEF Fresh, NoEngine
      <3>7. NoEngine(x) => NoEngine(x)' BY <3>1 DEF NoEngine
      <3>8. M!Owned(Hand(d), d)'
        <4>1. claims'[x] # None /\ claims'[x].owner = d BY <3>5 DEF M!Owned
        <4> QED BY <3>3, <4>1 DEF M!Owned
      <3>9. fresh'[d] => NoEngine(Hand(d))'
        <4>1. fresh'[d] => \A f \in Daemon : x \notin engine'[f] BY <3>6, <3>7 DEF NoEngine
        <4> QED BY <3>3, <4>1 DEF NoEngine
      <3> QED BY <1>g, <2>1, <3>1, <3>8, <3>9 DEF Hold
    <2> QED BY <2>2, <2>3
  <1>k. ASSUME at[d] \in {"lock", "unlock", "open", "start"}, UNCHANGED todo, NEW x \in Shard,
               x = Hand(d)
        PROVE  /\ M!Owned(Hand(d), d)'
               /\ NoEngine(x) /\ ~Start(d) => NoEngine(Hand(d))'
    <2>1. Hand(d)' = x BY <1>s, <1>k
    <2>2. claims'[x] # None /\ claims'[x].owner = d BY <1>o, <1>k DEF M!Owned
    <2>3. NoEngine(x) /\ ~Start(d) => \A f \in Daemon : x \notin engine'[f]
      BY EnginesGrow DEF NoEngine
    <2> QED BY <2>1, <2>2, <2>3 DEF M!Owned, NoEngine
  <1>3. CASE TryLock(d)
    <2>1. /\ at[d] = "lock" /\ at'[d] \in {"open", "unlock"} /\ todo[d] # {} /\ ~Start(d)
          /\ (at'[d] = "open" => fresh[d]) /\ UNCHANGED <<todo, fresh>>
      BY <1>3, <1>t DEF TryLock, Goto, Start, TypeOK
    <2>2. PICK x \in Shard : x = Hand(d) BY <1>h, <2>1
    <2>3. at'[d] = "open" => NoEngine(x) BY <1>H, <2>1, <2>2 DEF Hold
    <2> QED BY <1>g, <1>k, <2>1, <2>2, <2>3 DEF Hold
  <1>4. CASE GiveBack(d)
    <2>1. at[d] = "lock" /\ lock[Hand(d)] # None /\ Hand(d) \in Shard
      BY <1>4, <1>h, <1>t, <1>x DEF GiveBack, TypeOK
    <2>2. PICK f \in Daemon : lock[Hand(d)] = f BY <1>t, <2>1 DEF TypeOK
    <2>3. at[f] \in {"unlock", "open"} /\ Hand(d) = Hand(f)
      BY <2>1, <2>2 DEF LockKeeping, LockKeep
    <2>4. M!Owned(Hand(d), f) BY <2>3 DEF Holding, Hold
    <2>5. M!Owned(Hand(d), d) BY <1>H, <2>1 DEF Hold
    <2> QED BY <2>1, <2>3, <2>4, <2>5, OneOwner
  <1>5. CASE Open(d)
    <2>1. at[d] = "open" /\ ~Start(d) /\ at'[d] \in {"next", "start"}
      BY <1>5, <1>t, <1>x DEF Open, Goto, Start, TypeOK
    <2>2. CASE at'[d] = "next" BY <1>q, <2>1, <2>2
    <2>3. CASE at'[d] = "start"
      <3>1. UNCHANGED todo /\ todo[d] # {} /\ fresh[d]
        BY <1>5, <1>t, <2>1, <2>3 DEF Open, Goto, TypeOK, LockKeeping, LockKeep
      <3>2. PICK x \in Shard : x = Hand(d) BY <1>h, <3>1
      <3>3. NoEngine(x) BY <1>H, <2>1, <3>1, <3>2 DEF Hold
      <3> QED BY <1>g, <1>k, <2>1, <2>3, <3>1, <3>2, <3>3 DEF Hold
    <2> QED BY <2>1, <2>2, <2>3
  <1>6. CASE Start(d)
    <2>1. at[d] = "start" /\ todo[d] # {} /\ fresh[d]
      BY <1>6, <1>t DEF Start, Walks, Busy, LockKeeping, LockKeep
    <2>2. PICK x \in Shard : x = Hand(d) BY <1>h, <2>1
    <2>3. NoEngine(x) BY <1>H, <2>1, <2>2 DEF Hold
    <2>4. engine' = [engine EXCEPT ![d] = @ \cup {x}] /\ at'[d] = "next"
      BY <1>6, <1>t, <1>x, <2>2, <2>3 DEF Start, Goto, TypeOK
    <2>5. engine'[d] = engine[d] \cup {x} BY <1>t, <2>4 DEF TypeOK
    <2>6. M!Owned(x, d)' BY <1>o, <2>1, <2>2
    <2>7. \A s \in engine'[d] : M!Owned(s, d)' BY <1>e, <2>5, <2>6
    <2> QED BY <2>4, <2>7 DEF Hold
  <1>7. CASE Shutdown(d) \/ Tick(d) \/ \E s \in Shard : Save(d, s) \/ End(d, s)
    <2>1. UNCHANGED <<at, todo, fresh>>
      BY <1>7 DEF Shutdown, Tick, Save, End, beats
    <2>2. at[d] \in {"lock", "unlock", "open", "start"} => todo[d] # {} BY <1>t DEF Walks, Busy
    <2>3. ~Start(d)
      <3>1. at[d] = "start" => Hand(d) \in todo[d] BY <1>h, <2>2
      <3>2. Start(d) => at' # at \/ todo' # todo
        BY <1>t DEF Start, Goto, TypeOK
      <3> QED BY <2>1, <3>2
    <2>4. CASE at[d] \notin {"lock", "unlock", "open", "start"}
      BY <1>q, <1>H, <2>1, <2>3, <2>4 DEF Hold
    <2>5. CASE at[d] \in {"lock", "unlock", "open", "start"}
      <3>1. PICK x \in Shard : x = Hand(d) BY <1>h, <2>2, <2>5
      <3>2. at[d] \in {"lock", "open", "start"} /\ fresh[d] => NoEngine(x)
        BY <1>H, <3>1 DEF Hold
      <3> QED BY <1>g, <1>H, <1>k, <2>1, <2>3, <2>5, <3>1, <3>2 DEF Hold
    <2> QED BY <2>4, <2>5
  <1> QED BY <1>1, <1>2, <1>3, <1>4, <1>5, <1>6, <1>7 DEF Acts, Heartbeat

\* And so do the others.
LEMMA HoldOther ==
  ASSUME Types, Holding, Calm, [Next]_vars, Calm', NEW e \in Daemon, UNCHANGED Own(e),
         \A f \in Daemon : \A s \in engine'[f] \ engine[f] :
           f # e /\ s = Hand(f) /\ at[f] = "start"
  PROVE  Hold(e)'
  <1>t. TypeOK /\ Walks BY TypesSplit DEF Types
  <1>H. Hold(e) BY DEF Holding
  <1>u. UNCHANGED <<at[e], todo[e], fresh[e], engine[e]>> BY DEF Own
  <1>s. Hand(e)' = Hand(e) BY <1>u, InHandStill
  <1>1. \A s \in engine'[e] : M!Owned(s, e)'
    <2>1. ASSUME NEW s \in engine[e] PROVE M!Owned(s, e)'
      <3>1. s \in Shard /\ M!Owned(s, e) /\ Running(e, s) BY <1>t, <1>H DEF TypeOK, Hold, Running
      <3> QED BY <3>1, OwnersKept
    <2> QED BY <1>u, <2>1
  <1>2. CASE at[e] \notin {"lock", "unlock", "open", "start"}
    BY <1>H, <1>u, <1>1, <1>2 DEF Hold
  <1>3. CASE at[e] \in {"lock", "unlock", "open", "start"}
    <2>1. todo[e] # {} BY <1>t, <1>3 DEF Walks, Busy
    <2>2. PICK x \in Shard : x = Hand(e) BY <1>t, <2>1, InHand
    <2>3. M!Owned(x, e) /\ Running(e, x) BY <1>H, <1>3, <2>2 DEF Hold, Running
    <2>4. M!Owned(x, e)' BY <2>3, OwnersKept
    <2>5. M!Owned(Hand(e), e)'
      <3>1. claims'[x] # None /\ claims'[x].owner = e BY <2>4 DEF M!Owned
      <3> QED BY <1>s, <2>2, <3>1 DEF M!Owned
    <2>6. ASSUME NoEngine(x) PROVE NoEngine(Hand(e))'
      <3>1. ASSUME NEW f \in Daemon, x \in engine'[f] PROVE FALSE
        <4>1. f # e /\ x = Hand(f) /\ at[f] = "start" BY <2>6, <3>1 DEF NoEngine
        <4>2. M!Owned(x, f) BY <4>1 DEF Holding, Hold
        <4> QED BY <2>3, <4>1, <4>2, OneOwner
      <3> QED BY <1>s, <2>2, <3>1 DEF NoEngine
    <2>7. at[e] \in {"lock", "open", "start"} /\ fresh[e] => NoEngine(x) BY <1>H, <2>2 DEF Hold
    <2> QED BY <1>H, <1>u, <1>1, <2>5, <2>6, <2>7 DEF Hold
  <1> QED BY <1>2, <1>3

\* Every step keeps Holding.
LEMMA HoldingStep == Types /\ LockKeeping /\ Holding /\ [Next]_vars => Holding'
  <1> SUFFICES ASSUME Types, LockKeeping, Holding, [Next]_vars, Calm', NEW e \in Daemon
               PROVE  Hold(e)'
    BY DEF Holding
  <1>c. Calm BY CalmBefore
  <1>1. ASSUME NEW d \in Daemon, Acts(d) PROVE Hold(e)'
    <2>1. CASE d = e BY <1>1, <1>c, <2>1, HoldStep
    <2>2. CASE d # e
      <3>1. UNCHANGED Own(e) BY <1>1, <2>2, OthersKept
      <3>2. \A f \in Daemon : \A s \in engine'[f] \ engine[f] :
              f # e /\ s = Hand(f) /\ at[f] = "start"
        BY <1>1, <2>2, EnginesGrow DEF Start
      <3> QED BY <1>c, <3>1, <3>2, HoldOther
    <2> QED BY <2>1, <2>2
  <1>2. ASSUME Legacy \/ UNCHANGED vars PROVE Hold(e)'
    <2>1. UNCHANGED Own(e) BY <1>2, LegacyAside
    <2>2. UNCHANGED engine BY <1>2 DEF Legacy, vars, engines
    <2> QED BY <1>c, <2>1, <2>2, HoldOther
  <1> QED BY <1>1, <1>2, StepActs

\* Holding always holds.
LEMMA HoldingAlways == Spec => []Holding
  <1>1. Init => Holding BY DEF Init, Holding, Hold
  <1> QED BY <1>1, HoldingStep, LockKeepingAlways, TypesAlways, PTL DEF Spec

\* No heartbeat finds another engine on a log, and dies of it, unless a shard was taken from a
\* daemon that was running or a call failed.
THEOREM PanicsNot == Spec => []NoPanic
  <1>1. Types /\ Holding => NoPanic
    <2> SUFFICES ASSUME Types, Holding, NEW d \in Daemon, at[d] = "dead"
                 PROVE  overrun \/ errors > 0
      BY DEF NoPanic
    <2>1. ~Calm BY DEF Holding, Hold
    <2>2. errors \in Nat BY DEF Types, TypeOK
    <2> QED BY <2>1, <2>2 DEF Calm
  <1> QED BY <1>1, HoldingAlways, TypesAlways, PTL
----------------------------------------------------------------------------
(* The shards of the queue. *)

\* membership.json is not there until an adoption ends, and is there once a daemon is up; a
\* heartbeat is concerned with shards of the queue only.
Placed ==
  \A d \in Daemon :
    /\ boot[d] \in {"move", "init"} => ~created
    /\ boot[d] = "up" => created
    /\ todo[d] \cup engine[d] \subseteq total

\* One step of the boot: who adopts is alone, and the shards are decided once.
LEMMA ResolvePlaces ==
  ASSUME L!TypeOK, NEW d \in Daemon, L!Resolve(d),
         \A e \in Daemon : boot[e] \in {"move", "init"} => ~created,
         \A e \in Daemon : boot[e] = "up" => created
  PROVE  /\ \A e \in Daemon : boot'[e] \in {"move", "init"} => ~created'
         /\ \A e \in Daemon : boot'[e] = "up" => created'
         /\ total' # total => ~created
         /\ created => created'
  <1>t. boot \in [Daemon -> {"start", "legacy", "fresh", "move", "init", "up", "refused", "failed"}]
    BY DEF L!TypeOK
  <1>h. /\ holder \in Daemon \cup {None}
        /\ \A e \in Daemon : boot[e] \in {"move", "init"} <=> holder = e
    BY DEF L!TypeOK
  <1>1. CASE L!Detect(d) BY <1>1, <1>t DEF L!Detect, L!Goto
  <1>2. CASE L!Adopt(d) BY <1>2, <1>t DEF L!Adopt, L!Goto, L!AdoptedMeanwhile
  <1>3. CASE L!MoveLog(d) BY <1>3, <1>t DEF L!MoveLog, L!Goto
  <1>4. CASE L!CreateAdopted(d) BY <1>4, <1>t, <1>h DEF L!CreateAdopted, L!Goto
  <1>5. CASE L!JoinFresh(d) BY <1>5, <1>t DEF L!JoinFresh, L!Goto
  <1>6. CASE L!CreateFresh(d)
    BY <1>6, <1>t, <1>h, NobodyAssumption DEF L!CreateFresh, L!Goto
  <1> QED BY <1>1, <1>2, <1>3, <1>4, <1>5, <1>6 DEF L!Resolve

\* Every step keeps Placed.
LEMMA PlacedStep == Types /\ LockKeeping /\ Placed /\ [Next]_vars => Placed'
  <1> SUFFICES ASSUME Types, LockKeeping, Placed, [Next]_vars PROVE Placed' OBVIOUS
  <1>t. L!TypeOK /\ Walks /\ Ranges BY TypesSplit DEF Types
  <1>h. \A d \in Daemon : todo[d] # {} => Hand(d) \in todo[d]
    BY InHand DEF Types
  <1>1. ASSUME NEW d \in Daemon, Boot(d) PROVE Placed'
    <2>1. L!Resolve(d) /\ UNCHANGED <<todo, engine>> BY <1>1 DEF Boot, engines
    <2>2. /\ \A e \in Daemon : boot'[e] \in {"move", "init"} => ~created'
          /\ \A e \in Daemon : boot'[e] = "up" => created'
          /\ total' # total => ~created
      BY <1>t, <2>1, ResolvePlaces DEF Placed
    <2>3. ASSUME total' # total, NEW e \in Daemon PROVE todo[e] = {} /\ engine[e] = {}
      <3>1. boot[e] # "up" BY <2>2, <2>3 DEF Placed
      <3>2. at[e] = "boot" BY <1>t, <3>1 DEF Walks
      <3> QED BY <1>t, <3>2 DEF Walks, Idle, LockKeeping, LockKeep
    <2> QED BY <2>1, <2>2, <2>3 DEF Placed
  <1>2. ASSUME UNCHANGED <<created, total, boot, todo, engine>> PROVE Placed'
    BY <1>2 DEF Placed
  <1>3. ASSUME NEW d \in Daemon, Heartbeat(d) PROVE Placed'
    <2>1. UNCHANGED <<created, boot, total>> BY <1>3, BeatAside DEF places
    <2>2. \A e \in Daemon : e # d => todo'[e] = todo[e] /\ engine'[e] = engine[e]
      BY <1>3, OthersKept DEF Acts, Own
    <2>3. engine'[d] \subseteq total
      BY <1>3, <1>t, <1>h, EnginesGrow DEF Acts, Start, Placed, Walks, Busy
    <2>4. todo'[d] \subseteq total
      <3>1. CASE Load(d)
        <4>1. todo'[d] \in {todo[d], {s \in Shard : Claimable(d, s)}}
          BY <1>t, <3>1 DEF Load, Walks
        <4> QED BY <4>1 DEF Claimable, Placed
      <3>2. CASE ~Load(d)
        <4>1. UNCHANGED todo \/ todo' = [todo EXCEPT ![d] = @ \ {Hand(d)}]
          BY <1>3, <3>2 DEF Heartbeat, Wake, BeginClaim, Claim, ClaimFails, TryLock, GiveBack,
                            Revert, Unlock, Open, Start, Reconcile, Done
        <4> QED BY <1>t, <4>1 DEF Walks, Placed
      <3> QED BY <3>1, <3>2
    <2> QED BY <2>1, <2>2, <2>3, <2>4 DEF Placed
  <1>4. ASSUME NEW d \in Daemon, Shutdown(d) \/ Tick(d) \/ \E s \in Shard : Save(d, s) PROVE Placed'
    BY <1>2, <1>4 DEF Shutdown, Tick, M!Tick, M!file, Save, places, beats, engines
  <1>5. ASSUME NEW d \in Daemon, NEW s \in Shard, End(d, s) PROVE Placed'
    <2>1. UNCHANGED <<created, total, boot, todo>> BY <1>5 DEF End, places, beats
    <2>2. \A e \in Daemon : engine'[e] \subseteq engine[e] BY <1>5, <1>t DEF End, Ranges
    <2> QED BY <2>1, <2>2 DEF Placed
  <1>6. ASSUME NEW d \in Daemon, Crash(d) PROVE Placed'
    <2>1. UNCHANGED <<created, total>> /\ boot' = [boot EXCEPT ![d] = "start"]
      BY <1>6 DEF Crash, L!Reboot, L!Goto
    <2>2. \A e \in Daemon : engine'[e] \subseteq engine[e] /\ todo'[e] \subseteq todo[e]
      BY <1>6, <1>t DEF Crash, Ranges, Walks
    <2> QED BY <1>t, <2>1, <2>2 DEF Placed, L!TypeOK
  <1>7. ASSUME Legacy \/ UNCHANGED vars PROVE Placed'
    BY <1>2, <1>7 DEF Legacy, L!LegacySave, L!LegacyExit, vars, places, beats, engines
  <1> QED BY <1>1, <1>3, <1>4, <1>5, <1>6, <1>7 DEF Next

\* Placed always holds.
LEMMA PlacedAlways == Spec => []Placed
  <1>1. Init => Placed BY DEF Init, L!Init, Placed
  <1> QED BY <1>1, PlacedStep, LockKeepingAlways, TypesAlways, PTL DEF Spec

----------------------------------------------------------------------------
(* No engine is left behind. *)

\* As long as it is calm: every engine is in the map, or has been told to stop; at work on a
\* round, the heartbeat has claimed the shards of the map or has still to claim them.
Round(d) ==
  /\ engine[d] \subseteq mapped[d] \cup ending[d]
  /\ at[d] \in {"unlock", "open", "start"} => Hand(d) \in owned[d]
  /\ at[d] \in Busy \cup {"next"} => mapped[d] \subseteq owned[d] \cup todo[d]

Rounds == Calm => \A d \in Daemon : Round(d)

\* Who acts keeps to Round.
LEMMA RoundStep ==
  ASSUME Types, LockKeeping, Serving, Placed, Holding, Calm, [Next]_vars, Calm',
         NEW d \in Daemon, Acts(d), Round(d)
  PROVE  Round(d)'
  <1>t. TypeOK /\ M!TypeOK /\ Walks /\ Ranges BY TypesSplit DEF Types
  <1>h. todo[d] # {} => Hand(d) \in todo[d] /\ Hand(d) \in Shard BY <1>t, InHand
  <1>s. UNCHANGED todo => Hand(d)' = Hand(d) BY InHandStill
  <1>H. Hold(d) BY DEF Holding
  <1>x. ~Error BY <1>t DEF Error, Calm, TypeOK
  <1>m. \A s \in mapped[d] : s \in Shard /\ M!Owned(s, d) /\ s \in total /\ created
    <2>1. ASSUME NEW s \in mapped[d]
          PROVE  s \in Shard /\ M!Owned(s, d) /\ s \in total /\ created
      <3>1. s \in engine[d] /\ s \in Shard BY <1>t DEF Serving, MapIsServed, Ranges
      <3>2. M!Owned(s, d) /\ s \in total BY <1>H, <3>1 DEF Hold, Placed
      <3>3. created BY <1>t, <3>1, <3>2 DEF M!Owned, M!TypeOK, M!NoClaims
      <3> QED BY <3>1, <3>2, <3>3
    <2> QED BY <2>1
  <1>1. CASE Boot(d) \/ Wake(d)
    <2>1. at'[d] \in {"boot", "sleep", "off", "load"}
      BY <1>1, <1>t DEF Boot, Wake, Goto, TypeOK
    <2>2. UNCHANGED <<mapped, engine, ending>> BY <1>1 DEF Boot, Wake, engines
    <2> QED BY <2>1, <2>2 DEF Round, Busy
  <1>2. CASE Load(d)
    <2>1. at'[d] = "next" /\ UNCHANGED <<mapped, engine, ending>>
      BY <1>2, <1>t DEF Load, Goto, TypeOK, engines
    <2>2. todo'[d] = {s \in Shard : Claimable(d, s)} BY <1>2, <1>t, <1>x DEF Load, TypeOK
    <2>3. mapped[d] \subseteq todo'[d] BY <1>m, <2>2 DEF Claimable
    <2> QED BY <2>1, <2>3 DEF Round
  <1>3. CASE BeginClaim(d)
    <2>1. at[d] = "next" /\ at'[d] = "claim" BY <1>3, <1>t DEF BeginClaim, Goto, TypeOK
    <2>2. UNCHANGED <<todo, owned, mapped, engine, ending>> BY <1>3 DEF BeginClaim, engines
    <2> QED BY <2>1, <2>2 DEF Round, Busy
  <1>4. CASE Claim(d)
    <2>1. at[d] = "claim" /\ todo[d] # {} BY <1>4, <1>t DEF Claim, Walks, Busy
    <2>2. UNCHANGED <<owned, mapped, engine, ending>> BY <1>4 DEF Claim, engines
    <2>3. PICK x \in Shard : x = Hand(d) BY <1>h, <2>1
    <2>4. CASE M!MayClaim(d, x)
      <3>1. at'[d] = "lock" /\ UNCHANGED todo
        BY <1>4, <1>t, <2>3, <2>4 DEF Claim, Goto, TypeOK
      <3> QED BY <2>1, <2>2, <3>1 DEF Round, Busy
    <2>5. CASE ~M!MayClaim(d, x)
      <3>1. at'[d] = "next" /\ todo'[d] = todo[d] \ {x}
        BY <1>4, <1>t, <2>3, <2>5 DEF Claim, Goto, Done, TypeOK
      <3>2. x \notin mapped[d]
        <4>1. x \in mapped[d] => M!Owned(x, d) /\ created BY <1>m
        <4> QED BY <2>5, <4>1 DEF M!MayClaim
      <3> QED BY <2>1, <2>2, <3>1, <3>2 DEF Round, Busy
    <2> QED BY <2>4, <2>5
  <1>5. CASE ClaimFails(d) \/ Revert(d) \/ GiveBack(d)
    <2>1. ~ClaimFails(d) BY <1>x DEF ClaimFails
    <2>2. ~Revert(d) BY <1>H DEF Revert, Hold
    <2>3. GiveBack(d) BY <1>5, <2>1, <2>2
    <2>4. at'[d] = "revert" BY <1>t, <2>3 DEF GiveBack, Goto, TypeOK
    <2> QED BY <2>4, HoldStep DEF Hold
  <1>6. CASE TryLock(d)
    <2>1. at[d] = "lock" /\ owned'[d] = owned[d] \cup {Hand(d)} BY <1>6, <1>t DEF TryLock, TypeOK
    <2>2. UNCHANGED <<mapped, engine, ending, todo>> BY <1>6 DEF TryLock, engines
    <2>3. Hand(d)' = Hand(d) BY <1>s, <2>2
    <2> QED BY <2>1, <2>2, <2>3 DEF Round, Busy
  <1>7. CASE Unlock(d) \/ Open(d)
    <2>1. at[d] \in {"unlock", "open"} /\ UNCHANGED <<owned, mapped, engine, ending>>
      BY <1>7 DEF Unlock, Open, engines
    <2>2. Hand(d) \in owned[d] /\ mapped[d] \subseteq owned[d] \cup todo[d]
      BY <2>1 DEF Round, Busy
    <2>3. \/ at'[d] = "next" /\ todo'[d] = todo[d] \ {Hand(d)}
          \/ at'[d] = "start" /\ UNCHANGED todo
      BY <1>7, <1>t, <1>x DEF Unlock, Open, Goto, Done, TypeOK
    <2> QED BY <1>s, <2>1, <2>2, <2>3 DEF Round
  <1>8. CASE Start(d)
    <2>1. at[d] = "start" /\ UNCHANGED <<owned, ending>> BY <1>8 DEF Start
    <2>2. at'[d] # "dead" BY HoldStep DEF Hold
    <2>3. /\ at'[d] = "next" /\ todo'[d] = todo[d] \ {Hand(d)}
          /\ mapped'[d] = mapped[d] \cup {Hand(d)} /\ engine'[d] = engine[d] \cup {Hand(d)}
      BY <1>8, <1>t, <2>2 DEF Start, Goto, Done, TypeOK
    <2> QED BY <2>1, <2>3 DEF Round, Busy
  <1>9. CASE Reconcile(d)
    <2>1. at[d] = "next" /\ todo[d] = {} /\ at'[d] = "sleep" /\ mapped'[d] = mapped[d] \cap owned[d]
      BY <1>9, <1>t DEF Reconcile, RoundOver, Confirmed, Goto, TypeOK
    <2>2. UNCHANGED <<engine, ending>> BY <1>9 DEF Reconcile
    <2> QED BY <2>1, <2>2 DEF Round, Busy
  <1>10. CASE Shutdown(d)
    <2>1. mapped'[d] = {} /\ ending'[d] = ending[d] \cup mapped[d]
      BY <1>10, <1>t DEF Shutdown, Cleared, TypeOK
    <2>2. UNCHANGED <<at, todo, owned, engine>> BY <1>10 DEF Shutdown, beats
    <2> QED BY <1>s, <2>1, <2>2 DEF Round
  <1>11. CASE Crash(d)
    <2>1. at'[d] = "boot" /\ engine'[d] = {} BY <1>11, <1>t DEF Crash, Goto, TypeOK
    <2> QED BY <2>1 DEF Round, Busy
  <1>12. ASSUME NEW s \in Shard, End(d, s) PROVE Round(d)'
    <2>1. engine'[d] = engine[d] \ {s} /\ ending'[d] = ending[d] \ {s} BY <1>12, <1>t DEF End, TypeOK
    <2>2. UNCHANGED <<at, todo, owned, mapped>> BY <1>12 DEF End, beats
    <2> QED BY <1>s, <2>1, <2>2 DEF Round
  <1>13. CASE Tick(d) \/ \E s \in Shard : Save(d, s)
    <2>1. UNCHANGED <<at, todo, owned, mapped, engine, ending>>
      BY <1>13 DEF Tick, Save, beats, engines
    <2> QED BY <1>s, <2>1 DEF Round
  <1> QED
    BY <1>1, <1>2, <1>3, <1>4, <1>5, <1>6, <1>7, <1>8, <1>9, <1>10, <1>11, <1>12, <1>13
    DEF Acts, Heartbeat

\* Every step keeps Rounds.
LEMMA RoundsStep ==
  Types /\ LockKeeping /\ Serving /\ Placed /\ Holding /\ Rounds /\ [Next]_vars => Rounds'
  <1> SUFFICES ASSUME Types, LockKeeping, Serving, Placed, Holding, Rounds, [Next]_vars, Calm',
                      NEW e \in Daemon
               PROVE  Round(e)'
    BY DEF Rounds
  <1>c. Calm /\ Round(e) BY CalmBefore DEF Rounds
  <1>1. ASSUME UNCHANGED Own(e) PROVE Round(e)'
    <2>1. UNCHANGED <<at[e], todo[e], owned[e], mapped[e], engine[e], ending[e]>> BY <1>1 DEF Own
    <2>2. Hand(e)' = Hand(e) BY <2>1, InHandStill
    <2> QED BY <1>c, <2>1, <2>2 DEF Round
  <1>2. ASSUME NEW d \in Daemon, Acts(d) PROVE Round(e)'
    <2>1. CASE d = e BY <1>2, <1>c, <2>1, RoundStep
    <2>2. CASE d # e BY <1>1, <1>2, <2>2, OthersKept
    <2> QED BY <2>1, <2>2
  <1> QED BY <1>1, <1>2, StepActs, LegacyAside

\* Rounds always holds.
LEMMA RoundsAlways == Spec => []Rounds
  <1>1. Init => Rounds BY DEF Init, Rounds, Round, Busy
  <1> QED
    BY <1>1, RoundsStep, ServingAlways, PlacedAlways, HoldingAlways, LockKeepingAlways,
       TypesAlways, PTL DEF Spec

\* Every engine is in the map of its daemon or has been told to stop, unless a shard was taken
\* from a daemon that was running or a call failed.
THEOREM EnginesMapped == Spec => []NoStrayEngine
  <1>1. Types /\ Rounds => NoStrayEngine
    <2> SUFFICES ASSUME Types, Rounds, NEW d \in Daemon,
                        ~(engine[d] \subseteq mapped[d] \cup ending[d])
                 PROVE  overrun \/ errors > 0
      BY DEF NoStrayEngine
    <2>1. ~Calm BY DEF Rounds, Round
    <2>2. errors \in Nat BY DEF Types, TypeOK
    <2> QED BY <2>1, <2>2 DEF Calm
  <1> QED BY <1>1, RoundsAlways, TypesAlways, PTL
----------------------------------------------------------------------------
(* What is claimed is served. *)

Young == Calm /\ crashes = 0

\* As long as it is calm, and nobody has died, a daemon that was not told to stop has the shards
\* it owns in its map, or is about to; and it owns what it believes it has.
Serve(d) ==
  /\ at[d] # "off"
  /\ \A s \in Shard : M!Owned(s, d) =>
       \/ s \in mapped[d]
       \/ at[d] \in {"lock", "open", "start"} /\ fresh[d] /\ s = Hand(d)
  /\ \A s \in Shard : belief[d][s] # None => at[d] # "boot" /\ M!Owned(s, d)

ServingClaims == Young => \A d \in Daemon : ~stop[d] => Serve(d)

\* Nor do the days before the first death.
LEMMA YoungBefore == Types /\ [Next]_vars /\ Young' => Young /\ \A d \in Daemon : ~Crash(d)
  <1> SUFFICES ASSUME Types, [Next]_vars, Young' PROVE Young /\ \A d \in Daemon : ~Crash(d)
    OBVIOUS
  <1>1. crashes \in Nat BY DEF Types, M!TypeOK
  <1>2. Calm BY CalmBefore DEF Young
  <1>3. ASSUME NEW d \in Daemon, Crash(d) PROVE FALSE
    BY <1>1, <1>3 DEF Crash, M!Crash, Young
  <1>4. [M!Next]_M!vars BY LeaseStep DEF Types
  <1>5. crashes' = crashes \/ crashes' = crashes + 1
    BY <1>4 DEF M!Next, M!vars, M!file, M!Initialize, M!Begin, M!DoClaim, M!DoRenew, M!DoRelease,
                M!DoRevert, M!Fail, M!Crash, M!Tick, M!Finish
  <1> QED BY <1>1, <1>2, <1>3, <1>5 DEF Young

\* Who owns a shard, and did not before, has just claimed it.
LEMMA OwnersGrow ==
  ASSUME Types, NEW d \in Daemon, Acts(d), NEW s \in Shard, NEW e \in Daemon,
         M!Owned(s, e)', ~M!Owned(s, e)
  PROVE  d = e /\ s = Hand(d) /\ Claim(d) /\ M!MayClaim(d, s)
  <1>t. claims \in [Shard -> M!Claim \cup {None}] BY DEF Types, M!TypeOK
  <1>1. claims'[s] # None /\ claims'[s] # claims[s] BY DEF M!Owned
  <1>2. CASE Boot(d)
    <2>1. claims' = [r \in Shard |-> None]
      BY <1>1, <1>2 DEF Boot, InitOnce, M!Initialize, M!NoClaims
    <2> QED BY <1>1, <2>1
  <1>3. CASE Claim(d)
    <2>1. at[d] = "claim" /\ M!DoClaim(d, Hand(d)) BY <1>3 DEF Claim
    <2>2. Hand(d) \in Shard BY <2>1, InHand DEF Types, TypeOK
    <2>3. M!Grant(d, Hand(d)) /\ M!MayClaim(d, Hand(d))
      BY <1>1, <2>1 DEF M!DoClaim, M!Refuse, M!file
    <2>4. claims' = [claims EXCEPT ![Hand(d)] = [owner |-> d, expiry |-> call[d].now + Lease]]
      BY <2>3 DEF M!Grant, M!Mutate
    <2>5. s = Hand(d) BY <1>t, <1>1, <2>4
    <2>6. claims'[s].owner = d BY <1>t, <2>4, <2>5
    <2> QED BY <1>3, <2>3, <2>5, <2>6 DEF M!Owned
  <1>4. CASE Revert(d)
    <2>1. claims' = claims \/ claims' = [claims EXCEPT ![Hand(d)] = None]
      BY <1>4 DEF Revert, M!DoRevert, M!Fail, M!Refuse, M!Mutate, M!Reverted, M!file
    <2> QED BY <1>t, <1>1, <2>1
  <1>5. CASE Heartbeat(d) /\ ~Claim(d) /\ ~Revert(d)
    <2>1. UNCHANGED claims
      BY <1>5 DEF Heartbeat, Wake, Load, BeginClaim, ClaimFails, TryLock, GiveBack, Unlock, Open,
                  Start, Reconcile, leases, M!Begin, M!Fail, M!file
    <2> QED BY <1>1, <2>1
  <1>6. CASE Shutdown(d) \/ Crash(d) \/ Tick(d) \/ \E r \in Shard : Save(d, r) \/ End(d, r)
    <2>1. UNCHANGED claims
      BY <1>6 DEF Shutdown, Crash, Tick, Save, End, M!Crash, M!Tick, M!file, leases
    <2> QED BY <1>1, <2>1
  <1> QED BY <1>2, <1>3, <1>4, <1>5, <1>6 DEF Acts

\* The others keep to Serve.
LEMMA ServeOther ==
  ASSUME Types, Holding, Calm, [Next]_vars, Calm', NEW e \in Daemon, UNCHANGED Own(e), Serve(e),
         \A s \in Shard : M!Owned(s, e)' => M!Owned(s, e)
  PROVE  Serve(e)'
  <1>u. UNCHANGED <<at[e], todo[e], owned[e], fresh[e], mapped[e], belief[e]>> BY DEF Own
  <1>s. Hand(e)' = Hand(e) BY <1>u, InHandStill
  <1>1. ASSUME NEW s \in Shard, belief[e][s] # None PROVE M!Owned(s, e)'
    <2>1. M!Owned(s, e) /\ Running(e, s)
      BY <1>1 DEF Serve, Running, Holding, Hold
    <2> QED BY <2>1, OwnersKept
  <1> QED BY <1>u, <1>s, <1>1 DEF Serve

\* Who acts keeps to Serve.
LEMMA ServeStep ==
  ASSUME Types, LockKeeping, Holding, Calm, [Next]_vars, Calm', NEW d \in Daemon, Acts(d),
         ~Crash(d), ~stop'[d], ~stop[d], Round(d), Serve(d)
  PROVE  Serve(d)'
  <1>t. TypeOK /\ M!TypeOK /\ Walks /\ Ranges BY TypesSplit DEF Types
  <1>h. todo[d] # {} => Hand(d) \in todo[d] /\ Hand(d) \in Shard BY <1>t, InHand
  <1>s. UNCHANGED todo => Hand(d)' = Hand(d) BY InHandStill
  <1>H. Hold(d) BY DEF Holding
  <1>x. ~Error BY <1>t DEF Error, Calm, TypeOK
  <1>b. \A s \in Shard : belief[d][s] # None /\ at[d] # "dead" => M!Owned(s, d)'
    <2>1. ASSUME NEW s \in Shard, belief[d][s] # None, at[d] # "dead" PROVE M!Owned(s, d)'
      <3>1. M!Owned(s, d) /\ Running(d, s) BY <2>1 DEF Serve, Running
      <3> QED BY <3>1, OwnersKept
    <2> QED BY <2>1
  <1>d. at[d] # "dead" BY <1>H DEF Hold
  <1>q. ASSUME ~Claim(d),
               \A s \in Shard : belief'[d][s] # None => belief[d][s] # None /\ at'[d] # "boot"
        PROVE  /\ \A s \in Shard : M!Owned(s, d)' => M!Owned(s, d)
               /\ \A s \in Shard : belief'[d][s] # None => at'[d] # "boot" /\ M!Owned(s, d)'
    BY <1>b, <1>d, <1>q, OwnersGrow
  <1>1. CASE Boot(d)
    <2>1. boot[d] # "up" BY <1>1, <1>t, ResolveTypes DEF Boot, TypeOK
    <2>2. at[d] = "boot" BY <1>t, <2>1 DEF Walks
    <2>3. at'[d] \in {"boot", "sleep"} BY <1>1, <1>t DEF Boot, Goto, TypeOK
    <2>4. UNCHANGED <<todo, mapped, belief>> BY <1>1 DEF Boot, engines
    <2>5. \A s \in Shard : belief[d][s] = None BY <2>2 DEF Serve
    <2>6. ~Claim(d) BY <2>2 DEF Claim
    <2>7. \A s \in Shard : M!Owned(s, d)' => M!Owned(s, d) BY <2>6, OwnersGrow
    <2>8. \A s \in Shard : M!Owned(s, d) => s \in mapped[d] BY <2>2 DEF Serve
    <2> QED BY <2>3, <2>4, <2>5, <2>7, <2>8 DEF Serve
  <1>2. CASE Wake(d)
    <2>1. at[d] = "sleep" /\ at'[d] = "load" /\ ~Claim(d)
      BY <1>2, <1>t DEF Wake, Goto, Claim, TypeOK
    <2>2. UNCHANGED <<mapped, belief>> BY <1>2 DEF Wake, leases, engines
    <2> QED BY <1>q, <2>1, <2>2 DEF Serve
  <1>3. CASE Load(d)
    <2>1. at[d] = "load" /\ at'[d] = "next" /\ ~Claim(d)
      BY <1>3, <1>t DEF Load, Goto, Claim, TypeOK
    <2>2. UNCHANGED <<mapped, belief>> BY <1>3 DEF Load, leases, engines
    <2> QED BY <1>q, <2>1, <2>2 DEF Serve
  <1>4. CASE BeginClaim(d)
    <2>1. at[d] = "next" /\ at'[d] = "claim" /\ ~Claim(d)
      BY <1>4, <1>t DEF BeginClaim, Goto, Claim, TypeOK
    <2>2. UNCHANGED <<mapped, owned, todo, belief>> BY <1>4 DEF BeginClaim, M!Begin, engines
    <2> QED BY <1>q, <2>1, <2>2 DEF Serve
  <1>5. CASE Claim(d)
    <2>1. at[d] = "claim" /\ todo[d] # {} /\ M!DoClaim(d, Hand(d)) /\ UNCHANGED mapped
      BY <1>5, <1>t DEF Claim, Walks, Busy, engines
    <2>2. PICK x \in Shard : x = Hand(d) BY <1>h, <2>1
    <2>3. \A s \in Shard : M!Owned(s, d) => s \in mapped[d] BY <2>1 DEF Serve
    <2>5. CASE ~M!MayClaim(d, x)
      <3>1. at'[d] = "next" /\ todo'[d] = todo[d] \ {x}
        BY <1>5, <1>t, <2>2, <2>5 DEF Claim, Goto, Done, TypeOK
      <3>2. M!Refuse(d, x) BY <2>1, <2>2, <2>5 DEF M!DoClaim
      <3>3. belief'[d] = [belief[d] EXCEPT ![x] = None] BY <1>t, <3>2 DEF M!Refuse, M!TypeOK
      <3>4. belief[d] \in [Shard -> M!Belief \cup {None}] BY <1>t DEF M!TypeOK
      <3>5. \A s \in Shard : belief'[d][s] # None => belief[d][s] # None BY <3>3, <3>4
      <3>6. \A s \in Shard : belief'[d][s] # None => M!Owned(s, d)' BY <1>b, <1>d, <3>5
      <3>7. \A s \in Shard : M!Owned(s, d)' => M!Owned(s, d)
        <4>1. UNCHANGED claims BY <3>2 DEF M!Refuse, M!file
        <4> QED BY <4>1 DEF M!Owned
      <3> QED BY <2>1, <2>3, <3>1, <3>6, <3>7 DEF Serve
    <2>6. CASE M!MayClaim(d, x)
      <3>1. at'[d] = "lock" /\ UNCHANGED todo
        BY <1>5, <1>t, <2>2, <2>6 DEF Claim, Goto, TypeOK
      <3>2. Hand(d)' = x BY <1>s, <2>2, <3>1
      <3>3. M!Grant(d, x) /\ call[d] # None
        BY <2>1, <2>2, <2>6 DEF M!DoClaim, M!Finish
      <3>4. M!Owned(x, d)' BY <3>3, GrantOwns
      <3>5. \A s \in Shard : s # x => belief'[d][s] = belief[d][s]
        BY <3>3, GrantTells
      <3>6. \A s \in Shard : belief'[d][s] # None => M!Owned(s, d)'
        BY <1>b, <1>d, <3>4, <3>5
      <3>7. fresh'[d] = ~M!Owned(x, d) BY <1>5, <1>t, <2>2 DEF Claim, Fresh, TypeOK
      <3>8. \A s \in Shard : M!Owned(s, d)' => s \in mapped[d] \/ (fresh'[d] /\ s = x)
        <4>1. \A s \in Shard : M!Owned(s, d)' /\ ~M!Owned(s, d) => s = x
          BY <2>2, OwnersGrow
        <4> QED BY <2>3, <3>7, <4>1
      <3> QED BY <2>1, <3>1, <3>2, <3>6, <3>8 DEF Serve
    <2> QED BY <2>5, <2>6
  <1>6. CASE ClaimFails(d) \/ Revert(d) \/ GiveBack(d)
    <2>1. ~ClaimFails(d) BY <1>x DEF ClaimFails
    <2>2. ~Revert(d) BY <1>H DEF Revert, Hold
    <2>3. GiveBack(d) BY <1>6, <2>1, <2>2
    <2>4. at'[d] = "revert" BY <1>t, <2>3 DEF GiveBack, Goto, TypeOK
    <2> QED BY <2>4, HoldStep DEF Hold
  <1>7. CASE TryLock(d)
    <2>1. /\ at[d] = "lock" /\ at'[d] = (IF fresh[d] THEN "open" ELSE "unlock") /\ ~Claim(d)
          /\ owned'[d] = owned[d] \cup {Hand(d)}
      BY <1>7, <1>t DEF TryLock, Goto, Claim, TypeOK
    <2>2. UNCHANGED <<mapped, todo, fresh, belief>> BY <1>7 DEF TryLock, leases, engines
    <2>3. Hand(d)' = Hand(d) BY <1>s, <2>2
    <2> QED BY <1>q, <2>1, <2>2, <2>3 DEF Serve
  <1>8. CASE Unlock(d)
    <2>1. at[d] = "unlock" /\ at'[d] = "next" /\ ~Claim(d) /\ todo'[d] = todo[d] \ {Hand(d)}
      BY <1>8, <1>t DEF Unlock, Goto, Done, Claim, TypeOK
    <2>2. UNCHANGED <<mapped, owned, belief>> BY <1>8 DEF Unlock, leases, engines
    <2> QED BY <1>q, <2>1, <2>2 DEF Serve
  <1>9. CASE Open(d)
    <2>1. at[d] = "open" /\ ~Claim(d) /\ UNCHANGED <<mapped, owned, fresh, belief>>
      BY <1>9 DEF Open, Claim, leases
    <2>2. CASE Hand(d) \in mapped[d]
      <3>1. at'[d] = "next" /\ todo'[d] = todo[d] \ {Hand(d)}
        BY <1>9, <1>t, <2>2 DEF Open, Goto, Done, TypeOK
      <3> QED BY <1>q, <2>1, <2>2, <3>1 DEF Serve
    <2>3. CASE Hand(d) \notin mapped[d]
      <3>1. at'[d] = "start" /\ UNCHANGED todo BY <1>9, <1>t, <1>x, <2>3 DEF Open, Goto, TypeOK
      <3> QED BY <1>s, <1>q, <2>1, <3>1 DEF Serve
    <2> QED BY <2>2, <2>3
  <1>10. CASE Start(d)
    <2>1. at[d] = "start" /\ ~Claim(d) /\ UNCHANGED <<owned, belief>> BY <1>10 DEF Start, Claim, leases
    <2>2. at'[d] # "dead" BY HoldStep DEF Hold
    <2>3. /\ at'[d] = "next" /\ todo'[d] = todo[d] \ {Hand(d)}
          /\ mapped'[d] = mapped[d] \cup {Hand(d)}
      BY <1>10, <1>t, <2>2 DEF Start, Goto, Done, TypeOK
    <2> QED BY <1>q, <2>1, <2>3 DEF Serve
  <1>11. CASE Reconcile(d)
    <2>1. /\ at[d] = "next" /\ todo[d] = {} /\ ~Claim(d) /\ at'[d] = "sleep"
          /\ mapped'[d] = mapped[d] \cap owned[d]
      BY <1>11, <1>t DEF Reconcile, RoundOver, Confirmed, Goto, Claim, TypeOK
    <2>2. UNCHANGED belief BY <1>11 DEF Reconcile, leases
    <2>3. mapped'[d] = mapped[d] BY <2>1 DEF Round, Busy
    <2> QED BY <1>q, <2>1, <2>2, <2>3 DEF Serve
  <1>12. CASE Shutdown(d)
    <2>1. stop'[d] BY <1>12, <1>t DEF Shutdown, TypeOK
    <2> QED BY <2>1
  <1>13. CASE Tick(d) \/ \E s \in Shard : Save(d, s) \/ End(d, s)
    <2>1. UNCHANGED <<at, todo, owned, fresh, mapped, belief, claims>>
      BY <1>13 DEF Tick, M!Tick, M!file, Save, End, beats, leases, engines
    <2>2. Hand(d)' = Hand(d) BY <1>s, <2>1
    <2> QED BY <2>1, <2>2 DEF Serve, M!Owned
  <1> QED
    BY <1>1, <1>2, <1>3, <1>4, <1>5, <1>6, <1>7, <1>8, <1>9, <1>10, <1>11, <1>12, <1>13
    DEF Acts, Heartbeat

\* Every step keeps ServingClaims.
LEMMA ServingClaimsStep ==
  Types /\ LockKeeping /\ Holding /\ Rounds /\ ServingClaims /\ [Next]_vars => ServingClaims'
  <1> SUFFICES ASSUME Types, LockKeeping, Holding, Rounds, ServingClaims, [Next]_vars, Young',
                      NEW e \in Daemon, ~stop'[e]
               PROVE  Serve(e)'
    BY DEF ServingClaims
  <1>y. Young /\ \A d \in Daemon : ~Crash(d) BY YoungBefore
  <1>c. Calm /\ Calm' BY <1>y DEF Young
  <1>t. stop \in [Daemon -> BOOLEAN] BY DEF Types, TypeOK
  <1>1. ASSUME NEW d \in Daemon, Acts(d) PROVE Serve(e)'
    <2>1. CASE d # e
      <3>1. UNCHANGED Own(e) BY <1>1, <2>1, OthersKept
      <3>2. Serve(e) BY <1>y, <3>1 DEF Own, ServingClaims
      <3>3. \A s \in Shard : M!Owned(s, e)' => M!Owned(s, e) BY <1>1, <2>1, OwnersGrow
      <3> QED BY <1>c, <3>1, <3>2, <3>3, ServeOther
    <2>2. CASE d = e
      <3>1. ~stop[e]
        <4>1. UNCHANGED stop \/ Shutdown(e)
          BY <1>1, <1>y, <2>2, BeatAside DEF Acts, Boot, Tick, Save, End
        <4>2. ~Shutdown(e) BY <1>t DEF Shutdown
        <4> QED BY <4>1, <4>2
      <3>2. Serve(e) /\ Round(e) BY <1>y, <1>c, <3>1 DEF ServingClaims, Rounds
      <3> QED BY <1>1, <1>y, <1>c, <2>2, <3>1, <3>2, ServeStep
    <2> QED BY <2>1, <2>2
  <1>2. ASSUME Legacy \/ UNCHANGED vars PROVE Serve(e)'
    <2>1. UNCHANGED Own(e) /\ UNCHANGED claims BY <1>2, LegacyAside DEF Legacy, vars, leases
    <2>2. Serve(e) BY <1>y, <2>1 DEF Own, ServingClaims
    <2> QED BY <1>c, <2>1, <2>2, ServeOther DEF M!Owned
  <1> QED BY <1>1, <1>2, StepActs

\* ServingClaims always holds.
LEMMA ServingClaimsAlways == Spec => []ServingClaims
  <1>1. Init => ServingClaims
    BY DEF Init, M!Init, M!NoClaims, M!NoBelief, M!Owned, ServingClaims, Serve
  <1> QED
    BY <1>1, ServingClaimsStep, RoundsAlways, HoldingAlways, LockKeepingAlways, TypesAlways, PTL
       DEF Spec

\* Between two rounds a daemon serves what it keeps from the others, unless a shard was taken
\* from a daemon that was running, a call failed or a daemon died.
THEOREM ClaimedIsServed == Spec => []ClaimsServed
  <1>1. Types /\ ServingClaims => ClaimsServed
    <2> SUFFICES ASSUME Types, ServingClaims, NEW d \in Daemon, NEW s \in Shard, at[d] = "sleep",
                        ~stop[d], belief[d][s] # None, s \notin mapped[d]
                 PROVE  overrun \/ errors > 0 \/ crashes > 0
      BY DEF ClaimsServed
    <2>1. ~Young BY DEF ServingClaims, Serve
    <2>2. errors \in Nat /\ crashes \in Nat BY DEF Types, TypeOK, M!TypeOK
    <2> QED BY <2>1, <2>2 DEF Calm, Young
  <1> QED BY <1>1, ServingClaimsAlways, TypesAlways, PTL

\* If the clocks of the daemons are no further apart than the margin, then no two of them believe
\* in one shard at once, and a shard is taken from a daemon only when it has let its lease run
\* out on its own clock: whatever the heartbeats, boots and deaths do, overruns included
\* (sharded_queue.rs:122-242, membership.rs:208-255).
THEOREM HeartbeatsExclude ==
  ASSUME MaxSkew <= Margin
  PROVE  Spec => []M!ExclusiveLease /\ M!NoEarlyTakeover
  <1>1. Spec => M!Init /\ [][M!Next]_M!vars BY LeasesImplemented, PTL DEF ImplementsMembership
  <1>2. M!Init <=> MP!Init
    BY DEF M!Init, MP!Init, M!NoClaims, MP!NoClaims, M!NoBelief, MP!NoBelief
  <1>3. Spec => MP!Spec BY <1>1, <1>2, LeaseSteps, PTL DEF MP!Spec
  <1>4. MP!Spec => []MP!ExclusiveLease BY LeaseAssumptions, MP!LeasesExclude
  <1>5. MP!Spec => MP!NoEarlyTakeover BY LeaseAssumptions, MP!NoTakeoverIsEarly
  <1>6. MP!ExclusiveLease <=> M!ExclusiveLease
    BY DEF MP!ExclusiveLease, M!ExclusiveLease, MP!Believes, M!Believes
  <1> DEFINE Taken == \A d \in Daemon, s \in Shard :
                        M!Owned(s, d) /\ ~M!Owned(s, d)' =>
                          call'[d] # call[d] \/ clock[d] > claims[s].expiry
             TakenP == \A d \in Daemon, s \in Shard :
                         MP!Owned(s, d) /\ ~MP!Owned(s, d)' =>
                           call'[d] # call[d] \/ clock[d] > claims[s].expiry
  <1>7. [TakenP]_MP!vars => [Taken]_M!vars BY DEF M!vars, MP!vars, M!file, MP!file, M!Owned, MP!Owned
  <1> QED BY <1>3, <1>4, <1>5, <1>6, <1>7, PTL DEF M!NoEarlyTakeover, MP!NoEarlyTakeover
=============================================================================
