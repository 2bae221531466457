---------------------------- MODULE RecordProofs ----------------------------
(***************************************************************************)
(* Theorems about the records of a ShardedQueue: what an engine knows of   *)
(* its log, and what becomes of records in the adoption of a queue that    *)
(* was not sharded.                                                        *)
(***************************************************************************)
EXTENDS ShardedQueueProofs

USE ShardAssumption, RequestAssumption, FaultsAssumption, NobodyAssumption

----------------------------------------------------------------------------
(* What an engine knows. *)

\* As long as it is calm an engine knows its log, and what FileStore::new has just read is the
\* log until the engine starts.
Know(d) ==
  /\ \A s \in engine[d] : seen[d][s] = L!Lines(log[s])
  /\ at[d] = "start" => seen[d][Hand(d)] = L!Lines(log[Hand(d)])

Knowing == Calm => \A d \in Daemon : Know(d)

\* A log is moved only before there are engines.
LEMMA LogsStay ==
  ASSUME Types, LockKeeping, Placed, NEW d \in Daemon, Boot(d), NEW e \in Daemon, at[e] # "boot"
  PROVE  UNCHANGED log
  <1>1. boot[e] = "up" BY TypesSplit DEF Types, Walks
  <1>2. boot[d] # "move" BY <1>1 DEF Placed
  <1> QED
    BY <1>2 DEF Boot, L!Resolve, L!Detect, L!Adopt, L!MoveLog, L!CreateAdopted, L!JoinFresh,
                L!CreateFresh

\* A fresh shard that is about to start has no engine.
LEMMA StartIsFree ==
  ASSUME LockKeeping, Holding, Calm, NEW e \in Daemon, at[e] = "start", NEW d \in Daemon
  PROVE  Hand(e) \notin engine[d]
  BY DEF LockKeeping, LockKeep, Holding, Hold, NoEngine

\* A daemon whose engines and logs are left alone knows what it knew.
LEMMA KnowKept ==
  ASSUME NEW e \in Daemon, Know(e), UNCHANGED <<at[e], todo[e], engine[e], seen[e], log>>
  PROVE  Know(e)'
  <1>1. Hand(e)' = Hand(e) BY InHandStill
  <1> QED BY <1>1 DEF Know

\* Every step keeps what the engines know.
LEMMA KnowingStep ==
  Types /\ LockKeeping /\ Serving /\ Placed /\ Holding /\ Knowing /\ [Next]_vars => Knowing'
  <1> SUFFICES ASSUME Types, LockKeeping, Serving, Placed, Holding, Knowing, [Next]_vars, Calm',
                      NEW e \in Daemon
               PROVE  Know(e)'
    BY DEF Knowing
  <1>c. Calm BY CalmBefore
  <1>k. Know(e) BY <1>c DEF Knowing
  <1>t. TypeOK /\ Walks /\ Ranges BY TypesSplit DEF Types
  <1>l. log \in [Shard -> Nat \cup {None}] BY <1>t DEF TypeOK, L!TypeOK
  <1>1. ASSUME NEW d \in Daemon, Boot(d) PROVE Know(e)'
    <2>1. UNCHANGED <<todo, engine, seen>> BY <1>1 DEF Boot, engines
    <2>2. CASE d # e
      <3>1. at'[e] = at[e] BY <1>1, <1>t, <2>2 DEF Boot, Goto, TypeOK
      <3>2. CASE at[e] = "boot" BY <2>1, <3>1, <3>2 DEF Know, LockKeeping, LockKeep
      <3>3. CASE at[e] # "boot" BY <1>1, <1>k, <2>1, <3>1, <3>3, LogsStay, KnowKept
      <3> QED BY <3>2, <3>3
    <2>3. CASE d = e
      <3>1. boot[d] # "up" BY <1>1, <1>t, ResolveTypes DEF Boot, TypeOK
      <3>2. at[e] = "boot" BY <1>t, <2>3, <3>1 DEF Walks
      <3>3. at'[e] # "start" BY <1>1, <1>t, <2>3 DEF Boot, Goto, TypeOK
      <3> QED BY <2>1, <3>2, <3>3 DEF Know, LockKeeping, LockKeep
    <2> QED BY <2>2, <2>3
  <1>2. ASSUME NEW d \in Daemon, Acts(d), ~Boot(d), d # e, UNCHANGED log PROVE Know(e)'
    BY <1>2, <1>k, OthersKept, KnowKept DEF Own
  <1>3. ASSUME Heartbeat(e) PROVE Know(e)'
    <2>1. UNCHANGED log BY <1>3, BeatAside
    <2>2. CASE Open(e)
      <3>1. at[e] = "open" /\ todo[e] # {} /\ UNCHANGED engine
        BY <1>t, <2>2 DEF Open, Walks, Busy
      <3>2. PICK x \in Shard : x = Hand(e) BY <1>t, <3>1, InHand
      <3>3. CASE at'[e] = "start"
        <4>1. UNCHANGED todo /\ seen' = [seen EXCEPT ![e][x] = L!Lines(log[x])]
          BY <1>t, <2>2, <3>2, <3>3 DEF Open, Goto, Read, TypeOK
        <4>2. Hand(e)' = x BY <3>2, <4>1, InHandStill
        <4>3. /\ seen'[e][x] = L!Lines(log[x])
              /\ \A s \in Shard : s # x => seen'[e][s] = seen[e][s]
          BY <1>t, <4>1 DEF Ranges
        <4>4. engine[e] \subseteq Shard BY <1>t DEF Ranges
        <4> QED BY <1>k, <2>1, <3>1, <4>2, <4>3, <4>4 DEF Know
      <3>4. CASE at'[e] # "start"
        <4>1. UNCHANGED seen BY <1>t, <2>2, <3>4 DEF Open, Goto, TypeOK
        <4> QED BY <1>k, <2>1, <3>1, <3>4, <4>1 DEF Know
      <3> QED BY <3>3, <3>4
    <2>3. CASE Start(e)
      <3>1. at[e] = "start" /\ UNCHANGED seen /\ at'[e] # "start"
        BY <1>t, <2>3 DEF Start, Goto, TypeOK
      <3>2. engine'[e] \subseteq engine[e] \cup {Hand(e)} BY <1>t, <2>3 DEF Start, Ranges
      <3> QED BY <1>k, <2>1, <3>1, <3>2 DEF Know
    <2>4. CASE ~Open(e) /\ ~Start(e)
      <3>1. UNCHANGED <<engine, seen>> /\ at'[e] # "start"
        BY <1>3, <1>t, <2>4 DEF Heartbeat, Wake, Load, BeginClaim, Claim, ClaimFails, TryLock,
                  GiveBack, Revert, Unlock, Reconcile, Goto, engines, TypeOK
      <3> QED BY <1>k, <2>1, <3>1 DEF Know
    <2> QED BY <2>2, <2>3, <2>4
  <1>4. ASSUME NEW d \in Daemon, NEW s \in Shard, Save(d, s) PROVE Know(e)'
    <2>1. s \in engine[d] /\ UNCHANGED <<at, todo, engine>> BY <1>4 DEF Save, beats
    <2>2. /\ log'[s] = L!Lines(log[s]) + 1
          /\ \A r \in Shard : r # s => log'[r] = log[r]
      BY <1>4, <1>l DEF Save
    <2>3. L!Lines(log[s]) \in Nat BY <1>l DEF L!Lines
    <2>4. L!Lines(log'[s]) = L!Lines(log[s]) + 1
      <3>1. log'[s] # None BY <2>2, <2>3
      <3> QED BY <2>2, <3>1 DEF L!Lines
    <2>5. \A f \in Daemon, r \in Shard :
            seen'[f][r] = IF f = d /\ r = s THEN seen[f][r] + 1 ELSE seen[f][r]
      BY <1>4, <1>t DEF Save, Ranges
    <2>6. s \in engine[e] => e = d BY <2>1 DEF Serving, OneEngine
    <2>7. ASSUME NEW r \in Shard, seen[e][r] = L!Lines(log[r]), r = s => e = d
          PROVE  seen'[e][r] = L!Lines(log'[r])
      BY <2>2, <2>4, <2>5, <2>7
    <2>8. \A r \in engine[e] : seen'[e][r] = L!Lines(log'[r])
      BY <1>k, <1>t, <2>6, <2>7 DEF Know, Ranges
    <2>9. CASE at[e] # "start" BY <2>1, <2>8, <2>9 DEF Know
    <2>10. CASE at[e] = "start"
      <3>1. PICK x \in Shard : x = Hand(e) BY <1>t, <2>10, InHand DEF Walks, Busy
      <3>2. x # s BY <1>c, <2>1, <2>10, <3>1, StartIsFree
      <3>3. seen'[e][x] = L!Lines(log'[x]) BY <1>k, <2>7, <2>10, <3>1, <3>2 DEF Know
      <3>4. Hand(e)' = x BY <2>1, <3>1, InHandStill
      <3> QED BY <2>1, <2>8, <3>3, <3>4 DEF Know
    <2> QED BY <2>9, <2>10
  <1>5. ASSUME NEW s \in Shard, End(e, s) PROVE Know(e)'
    <2>1. s \in engine[e] /\ UNCHANGED <<at, todo, log>>
      BY <1>5 DEF End, beats, places, Serving, EndingRuns
    <2>2. engine'[e] = engine[e] \ {s} /\ \A r \in Shard : r # s => seen'[e][r] = seen[e][r]
      BY <1>5, <1>t DEF End, Ranges
    <2>3. at[e] = "start" => Hand(e) # s /\ Hand(e) \in Shard
      BY <1>c, <1>t, <2>1, StartIsFree, InHand DEF Walks, Busy
    <2>4. Hand(e)' = Hand(e) BY <2>1, InHandStill
    <2>5. engine[e] \subseteq Shard BY <1>t DEF Ranges
    <2> QED BY <1>k, <2>1, <2>2, <2>3, <2>4, <2>5 DEF Know
  <1>6. ASSUME Crash(e) PROVE Know(e)'
    <2>1. engine'[e] = {} /\ at'[e] = "boot" BY <1>6, <1>t DEF Crash, Goto, TypeOK
    <2> QED BY <2>1 DEF Know
  <1>7. ASSUME Shutdown(e) \/ Tick(e) \/ Legacy \/ UNCHANGED vars PROVE Know(e)'
    BY <1>7, <1>k, KnowKept DEF Shutdown, Tick, Legacy, vars, beats, engines, places,
       L!LegacySave, L!LegacyExit
  <1>8. ASSUME NEW d \in Daemon, NEW s \in Shard, Heartbeat(d) \/ Shutdown(d) \/ Crash(d)
                 \/ Tick(d) \/ End(d, s)
        PROVE  UNCHANGED log
    BY <1>8, BeatAside DEF Shutdown, Crash, L!Reboot, Tick, End, places
  <1>9. ASSUME NEW d \in Daemon, Acts(d), ~Boot(d), ~\E s \in Shard : Save(d, s) PROVE Know(e)'
    <2>1. UNCHANGED log BY <1>8, <1>9 DEF Acts
    <2>2. CASE d # e BY <1>2, <1>9, <2>1, <2>2
    <2>3. CASE d = e BY <1>3, <1>5, <1>6, <1>7, <1>9, <2>3 DEF Acts
    <2> QED BY <2>2, <2>3
  <1> QED BY <1>1, <1>4, <1>7, <1>9, StepActs

\* An engine knows all of its log, unless a shard was taken from a daemon that was running or a
\* call failed.
THEOREM EnginesKnow == Spec => []ReadsCurrent
  <1>1. Init => Knowing BY DEF Init, Knowing, Know
  <1>2. Types /\ Knowing => ReadsCurrent
    <2> SUFFICES ASSUME Types, Knowing, NEW d \in Daemon, NEW s \in engine[d],
                        seen[d][s] # L!Lines(log[s])
                 PROVE  overrun \/ errors > 0
      BY DEF ReadsCurrent
    <2>1. ~Calm BY DEF Knowing, Know
    <2>2. errors \in Nat BY DEF Types, TypeOK
    <2> QED BY <2>1, <2>2 DEF Calm
  <1> QED
    BY <1>1, <1>2, KnowingStep, HoldingAlways, ServingAlways, PlacedAlways, LockKeepingAlways,
       TypesAlways, PTL DEF Spec
----------------------------------------------------------------------------
(* Boots beside each other. *)

\* As long as nobody has died: no boot has failed; who moves the log finds it; who has seen one
\* to adopt finds it, or a daemon that has moved it, or the queue.
Boots ==
  crashes = 0 =>
    /\ \A d \in Daemon : boot[d] # "failed"
    /\ \A d \in Daemon : boot[d] = "move" => root # None
    /\ \A d \in Daemon : boot[d] = "legacy" /\ root = None =>
         created \/ \E e \in Daemon : boot[e] = "init"

\* Every step keeps the boots from failing.
LEMMA BootsStep == Types /\ Placed /\ Boots /\ [Next]_vars => Boots'
  <1> SUFFICES ASSUME Types, Placed, Boots, [Next]_vars, crashes' = 0 PROVE Boots'
    BY DEF Boots
  <1>t. L!TypeOK /\ crashes \in Nat BY DEF Types, TypeOK, M!TypeOK
  <1>b. boot \in [Daemon -> {"start", "legacy", "fresh", "move", "init", "up", "refused", "failed"}]
    BY <1>t DEF L!TypeOK
  <1>h. /\ holder \in Daemon \cup {None}
        /\ \A e \in Daemon : boot[e] \in {"move", "init"} <=> holder = e
    BY <1>t DEF L!TypeOK
  <1>c. crashes = 0 /\ \A d \in Daemon : ~Crash(d)
    <2>1. ASSUME NEW d \in Daemon, Crash(d) PROVE FALSE BY <1>t, <2>1 DEF Crash, M!Crash
    <2>2. [M!Next]_M!vars BY LeaseStep DEF Types
    <2>3. crashes' = crashes \/ crashes' = crashes + 1
      BY <2>2 DEF M!Next, M!vars, M!file, M!Initialize, M!Begin, M!DoClaim, M!DoRenew,
                  M!DoRelease, M!DoRevert, M!Fail, M!Crash, M!Tick, M!Finish
    <2> QED BY <1>t, <2>1, <2>3
  <1>i. /\ \A d \in Daemon : boot[d] # "failed"
        /\ \A d \in Daemon : boot[d] = "move" => root # None
        /\ \A d \in Daemon : boot[d] = "legacy" /\ root = None =>
             created \/ \E e \in Daemon : boot[e] = "init"
    BY <1>c DEF Boots
  <1>u. ASSUME UNCHANGED <<created, root, boot>> PROVE Boots' BY <1>i, <1>u DEF Boots
  <1>1. ASSUME NEW d \in Daemon, Boot(d) PROVE Boots'
    <2>0. L!Resolve(d) BY <1>1 DEF Boot
    <2>1. CASE L!Detect(d)
      BY <1>i, <1>b, <2>1 DEF L!Detect, L!Goto, Boots
    <2>2. CASE L!Adopt(d)
      <3>1. boot[d] = "legacy" /\ holder = None /\ UNCHANGED <<created, root>>
        BY <2>2 DEF L!Adopt
      <3>2. \A e \in Daemon : boot[e] # "init" BY <1>h, <3>1, NobodyAssumption
      <3>3. root = None => created BY <1>i, <3>1, <3>2
      <3>4. PICK pc \in {"up", "refused", "move"} :
              boot' = [boot EXCEPT ![d] = pc] /\ (pc = "move" => ~created)
        BY <2>2 DEF L!Adopt, L!Goto, L!AdoptedMeanwhile
      <3> QED BY <1>i, <1>b, <3>1, <3>2, <3>3, <3>4 DEF Boots
    <2>3. CASE L!MoveLog(d)
      <3>1. boot[d] = "move" /\ root # None BY <1>i, <2>3 DEF L!MoveLog
      <3>2. boot' = [boot EXCEPT ![d] = "init"] BY <2>3, <3>1 DEF L!MoveLog, L!Goto
      <3>3. \A e \in Daemon : e # d => boot[e] # "move" BY <1>h, <3>1
      <3> QED BY <1>i, <1>b, <3>1, <3>2, <3>3 DEF Boots
    <2>4. CASE L!CreateAdopted(d) \/ L!CreateFresh(d) \/ L!JoinFresh(d)
      <3>1. created' /\ UNCHANGED root /\ boot' = [boot EXCEPT ![d] = "up"]
        BY <2>4 DEF L!CreateAdopted, L!CreateFresh, L!JoinFresh, L!Goto
      <3> QED BY <1>i, <1>b, <3>1 DEF Boots
    <2> QED BY <2>0, <2>1, <2>2, <2>3, <2>4 DEF L!Resolve
  <1>2. ASSUME Legacy PROVE Boots'
    <2>1. CASE L!LegacyExit BY <1>u, <2>1 DEF L!LegacyExit
    <2>2. CASE L!LegacySave
      <3>1. UNCHANGED <<created, boot>> BY <2>2 DEF L!LegacySave
      <3>2. root' # None
        <4>1. root' \in Nat BY <1>t, <2>2 DEF L!LegacySave, L!TypeOK
        <4> QED BY <4>1
      <3> QED BY <1>i, <3>1, <3>2 DEF Boots
    <2> QED BY <1>2, <2>1, <2>2 DEF Legacy
  <1>3. ASSUME NEW d \in Daemon, NEW s \in Shard,
               Heartbeat(d) \/ Shutdown(d) \/ Tick(d) \/ Save(d, s) \/ End(d, s)
        PROVE  UNCHANGED <<created, root, boot>>
    BY <1>3, BeatAside DEF Shutdown, Tick, M!Tick, M!file, Save, End, places
  <1>4. ASSUME NEW d \in Daemon, Acts(d), ~Boot(d) PROVE Boots'
    BY <1>c, <1>u, <1>3, <1>4, ShardAssumption DEF Acts
  <1>5. ASSUME UNCHANGED vars PROVE Boots' BY <1>u, <1>5 DEF vars, places
  <1> QED BY <1>1, <1>2, <1>4, <1>5, StepActs

\* A boot fails only where a daemon has died in an adoption.
THEOREM BootsTogether == Spec => []BootsDontRace
  <1>1. Init => Boots BY DEF Init, L!Init, Boots
  <1>2. Types /\ Boots => BootsDontRace
    BY DEF Types, M!TypeOK, Boots, BootsDontRace
  <1> QED BY <1>1, <1>2, BootsStep, PlacedAlways, TypesAlways, PTL DEF Spec
----------------------------------------------------------------------------
(* The adoption of a queue that was not sharded. *)

\* As long as no log was moved from under its engine: while that engine runs its log is there;
\* once a log is moved or membership.json is there, nothing is left to move; until then the
\* logs of the shards are empty; every record saved is in the log it is looked for in.
Adopted ==
  /\ legacy => root # None /\ ~created
  /\ \A d \in Daemon : boot[d] \in {"fresh", "init"} => root = None
  /\ created => root = None /\ First \in total
  /\ created => \A s \in Shard : saved[s] > 0 => s \in total
  /\ ~created => \A s \in Shard : s # First => saved[s] = 0
  /\ root # None => log[First] = None
  /\ \A s \in Shard : L!Lines(log[s]) + (IF s = First THEN L!Lines(root) ELSE 0) = saved[s]

Apart == ~beside => Adopted

\* The records of a log that may not be there.
LEMMA LinesOf ==
  /\ \A n \in Nat : L!Lines(n) = n
  /\ \A n \in Nat \cup {None} : L!Lines(n) \in Nat
  /\ L!Lines(None) = 0
  BY NobodyAssumption DEF L!Lines

\* One step of the boot.
LEMMA AdoptedBoot ==
  ASSUME Types, Placed, Adopted, NEW d \in Daemon, L!Resolve(d), ~beside' PROVE Adopted'
  <1>t. L!TypeOK BY DEF Types, TypeOK
  <1>b. boot \in [Daemon -> {"start", "legacy", "fresh", "move", "init", "up", "refused", "failed"}]
    BY <1>t DEF L!TypeOK
  <1>h. /\ holder \in Daemon \cup {None}
        /\ \A e \in Daemon : boot[e] \in {"move", "init"} <=> holder = e
    BY <1>t DEF L!TypeOK
  <1>v. /\ root \in Nat \cup {None} /\ log \in [Shard -> Nat \cup {None}] /\ saved \in [Shard -> Nat]
        /\ created \in BOOLEAN
    BY <1>t DEF L!TypeOK
  <1>1. CASE L!Detect(d)
    <2>1. UNCHANGED <<created, total, root, log, legacy, saved>> BY <1>1 DEF L!Detect
    <2>2. PICK pc \in {"up", "legacy", "fresh"} :
            boot' = [boot EXCEPT ![d] = pc] /\ (pc = "fresh" => root = None)
      BY <1>1 DEF L!Detect, L!Goto
    <2> QED BY <1>b, <2>1, <2>2 DEF Adopted
  <1>2. CASE L!Adopt(d)
    <2>1. UNCHANGED <<created, total, root, log, legacy, saved>> BY <1>2 DEF L!Adopt
    <2>2. PICK pc \in {"up", "refused", "move"} : boot' = [boot EXCEPT ![d] = pc]
      BY <1>2 DEF L!Adopt, L!Goto
    <2> QED BY <1>b, <2>1, <2>2 DEF Adopted
  <1>3. CASE L!MoveLog(d)
    <2>1. boot[d] = "move" /\ ~created BY <1>3 DEF L!MoveLog, Placed
    <2>2. UNCHANGED <<created, total, legacy, saved>> BY <1>3 DEF L!MoveLog
    <2>3. CASE root = None
      <3>1. UNCHANGED <<root, log>> /\ boot' = [boot EXCEPT ![d] = "failed"]
        BY <1>3, <2>3 DEF L!MoveLog, L!Goto
      <3> QED BY <1>b, <2>1, <2>2, <3>1 DEF Adopted
    <2>4. CASE root # None
      <3>1. /\ log' = [log EXCEPT ![First] = root] /\ root' = None
            /\ boot' = [boot EXCEPT ![d] = "init"]
        BY <1>3, <2>4 DEF L!MoveLog, L!Goto
      <3>2. log'[First] = root /\ \A s \in Shard : s # First => log'[s] = log[s]
        BY <1>v, <3>1, ShardAssumption
      <3>3. L!Lines(log[First]) = 0 BY <2>4, LinesOf DEF Adopted
      <3>4. L!Lines(root) \in Nat /\ L!Lines(root') = 0 BY <1>v, <3>1, LinesOf
      <3>5. L!Lines(log'[First]) + L!Lines(root') = saved[First]
        <4>1. L!Lines(log[First]) + L!Lines(root) = saved[First] BY ShardAssumption DEF Adopted
        <4>2. L!Lines(root) = saved[First] BY <3>3, <3>4, <4>1
        <4>3. L!Lines(log'[First]) = L!Lines(root) BY <3>2
        <4> QED BY <3>4, <4>2, <4>3
      <3>6. \A s \in Shard : s # First => L!Lines(log'[s]) + 0 = saved[s]
        BY <3>2 DEF Adopted
      <3>7. \A s \in Shard :
              L!Lines(log'[s]) + (IF s = First THEN L!Lines(root') ELSE 0) = saved[s]
        BY <3>5, <3>6
      <3>8. \A e \in Daemon : boot'[e] \in {"fresh", "init"} => root' = None BY <3>1
      <3>9. ~legacy BY <1>3, <2>4 DEF L!MoveLog
      <3> QED BY <2>1, <2>2, <3>1, <3>7, <3>8, <3>9 DEF Adopted
    <2> QED BY <2>3, <2>4
  <1>4. CASE L!CreateAdopted(d)
    <2>1. /\ boot[d] = "init" /\ ~created /\ created' /\ total' = {First}
          /\ boot' = [boot EXCEPT ![d] = "up"] /\ UNCHANGED <<root, log, legacy, saved>>
      BY <1>4 DEF L!CreateAdopted, L!Goto
    <2>2. root = None /\ ~legacy BY <2>1 DEF Adopted
    <2>3. \A s \in Shard : saved[s] > 0 => s \in total' BY <1>v, <2>1 DEF Adopted
    <2> QED BY <1>b, <2>1, <2>2, <2>3 DEF Adopted
  <1>5. CASE L!JoinFresh(d)
    <2>1. UNCHANGED <<created, total, root, log, legacy, saved>>
          /\ boot' = [boot EXCEPT ![d] = "up"]
      BY <1>5 DEF L!JoinFresh, L!Goto
    <2> QED BY <1>b, <2>1 DEF Adopted
  <1>6. CASE L!CreateFresh(d)
    <2>1. /\ boot[d] = "fresh" /\ ~created /\ created' /\ total' = Requested[d]
          /\ boot' = [boot EXCEPT ![d] = "up"] /\ UNCHANGED <<root, log, legacy, saved>>
      BY <1>6 DEF L!CreateFresh, L!Goto
    <2>2. root = None /\ ~legacy BY <2>1 DEF Adopted
    <2>3. First \in total' BY <2>1, RequestAssumption
    <2>4. \A s \in Shard : saved[s] > 0 => s \in total' BY <1>v, <2>1, <2>3 DEF Adopted
    <2> QED BY <1>b, <2>1, <2>2, <2>3, <2>4 DEF Adopted
  <1> QED BY <1>1, <1>2, <1>3, <1>4, <1>5, <1>6 DEF L!Resolve

\* The engine of before saves or ends.
LEMMA AdoptedLegacy == ASSUME Types, Adopted, Legacy PROVE Adopted'
  <1>v. root \in Nat \cup {None} /\ log \in [Shard -> Nat \cup {None}] /\ saved \in [Shard -> Nat]
    BY DEF Types, TypeOK, L!TypeOK
  <1>1. CASE L!LegacyExit BY <1>1 DEF L!LegacyExit, Adopted
  <1>2. CASE L!LegacySave
    <2>1. root # None /\ ~created BY <1>2 DEF L!LegacySave, Adopted
    <2>2. /\ root' = root + 1 /\ saved' = [saved EXCEPT ![First] = @ + 1]
          /\ UNCHANGED <<created, total, log, boot, legacy>>
      BY <1>2, <2>1 DEF L!LegacySave
    <2>3. root \in Nat /\ root' \in Nat /\ root' # None BY <1>v, <2>1, <2>2, NobodyAssumption
    <2>4. L!Lines(root) = root /\ L!Lines(root') = root + 1 BY <2>2, <2>3, LinesOf
    <2>5. /\ saved'[First] = saved[First] + 1
          /\ \A s \in Shard : s # First => saved'[s] = saved[s]
      BY <1>v, <2>2, ShardAssumption
    <2>6. L!Lines(log[First]) + L!Lines(root') = saved'[First]
      <3>1. L!Lines(log[First]) + L!Lines(root) = saved[First] BY ShardAssumption DEF Adopted
      <3>2. L!Lines(log[First]) \in Nat BY <1>v, LinesOf, ShardAssumption
      <3>3. saved[First] \in Nat BY <1>v, ShardAssumption
      <3> QED BY <2>3, <2>4, <2>5, <3>1, <3>2, <3>3
    <2>7. \A s \in Shard :
            L!Lines(log[s]) + (IF s = First THEN L!Lines(root') ELSE 0) = saved'[s]
      BY <2>5, <2>6 DEF Adopted
    <2>8. legacy BY <1>2 DEF L!LegacySave
    <2>9. \A s \in Shard : s # First => saved'[s] = 0 BY <2>1, <2>5 DEF Adopted
    <2>10. log[First] = None /\ \A d \in Daemon : boot[d] \notin {"fresh", "init"}
      BY <2>1 DEF Adopted
    <2> QED BY <2>1, <2>2, <2>3, <2>7, <2>8, <2>9, <2>10 DEF Adopted
  <1> QED BY <1>1, <1>2 DEF Legacy

\* An engine saves.
LEMMA AdoptedSave ==
  ASSUME Types, LockKeeping, Placed, Adopted, NEW d \in Daemon, NEW s \in Shard, Save(d, s)
  PROVE  Adopted'
  <1>v. root \in Nat \cup {None} /\ log \in [Shard -> Nat \cup {None}] /\ saved \in [Shard -> Nat]
    BY DEF Types, TypeOK, L!TypeOK
  <1>1. s \in engine[d] BY DEF Save
  <1>2. at[d] # "boot" BY <1>1 DEF LockKeeping, LockKeep
  <1>3. boot[d] = "up" BY <1>2, TypesSplit DEF Types, Walks
  <1>4. created /\ s \in total BY <1>1, <1>3 DEF Placed
  <1>5. root = None BY <1>4 DEF Adopted
  <1>6. UNCHANGED <<created, total, root, boot, legacy>> BY DEF Save
  <1>7. /\ log'[s] = L!Lines(log[s]) + 1 /\ saved'[s] = saved[s] + 1
        /\ \A r \in Shard : r # s => log'[r] = log[r] /\ saved'[r] = saved[r]
    BY <1>v DEF Save
  <1>8. L!Lines(log[s]) \in Nat /\ L!Lines(log'[s]) = L!Lines(log[s]) + 1
    <2>1. L!Lines(log[s]) \in Nat BY <1>v, LinesOf
    <2>2. L!Lines(log[s]) + 1 \in Nat BY <2>1
    <2> QED BY <1>7, <2>1, <2>2, LinesOf
  <1>9. L!Lines(root) = 0 BY <1>5, LinesOf
  <1>10. L!Lines(log'[s]) + (IF s = First THEN L!Lines(root) ELSE 0) = saved'[s]
    <2>1. L!Lines(log[s]) + (IF s = First THEN L!Lines(root) ELSE 0) = saved[s] BY DEF Adopted
    <2>2. saved[s] \in Nat BY <1>v
    <2> QED BY <1>7, <1>8, <1>9, <2>1, <2>2
  <1>11. \A r \in Shard :
           L!Lines(log'[r]) + (IF r = First THEN L!Lines(root) ELSE 0) = saved'[r]
    BY <1>7, <1>10 DEF Adopted
  <1>12. \A r \in Shard : saved'[r] > 0 => r \in total BY <1>4, <1>7 DEF Adopted
  <1> QED BY <1>4, <1>5, <1>6, <1>11, <1>12 DEF Adopted

\* Every step keeps the adoption as it is described.
LEMMA AdoptedStep ==
  Types /\ LockKeeping /\ Placed /\ Apart /\ [Next]_vars => Apart'
  <1> SUFFICES ASSUME Types, LockKeeping, Placed, Apart, [Next]_vars, ~beside' PROVE Adopted'
    BY DEF Apart
  <1>0. ~beside
    <2>1. UNCHANGED beside \/ beside' = (beside \/ legacy)
      <3>1. ASSUME NEW d \in Daemon, Boot(d)
            PROVE  UNCHANGED beside \/ beside' = (beside \/ legacy)
        BY <3>1 DEF Boot, L!Resolve, L!Detect, L!Adopt, L!MoveLog, L!CreateAdopted, L!JoinFresh,
                    L!CreateFresh
      <3>2. ASSUME NEW d \in Daemon, Acts(d), ~Boot(d) PROVE UNCHANGED beside
        BY <3>2, BeatAside DEF Acts, Save, Crash, L!Reboot, Shutdown, Tick, End, places
      <3>3. ASSUME Legacy PROVE UNCHANGED beside
        BY <3>3 DEF Legacy, L!LegacySave, L!LegacyExit
      <3> QED BY <3>1, <3>2, <3>3, StepActs DEF vars, places
    <2> QED BY <2>1
  <1>a. Adopted BY <1>0 DEF Apart
  <1>1. ASSUME NEW d \in Daemon, Boot(d) PROVE Adopted' BY <1>1, <1>a, AdoptedBoot DEF Boot
  <1>2. ASSUME UNCHANGED places, UNCHANGED created PROVE Adopted'
    BY <1>2, <1>a DEF Adopted, places
  <1>3. ASSUME NEW d \in Daemon, NEW s \in Shard,
               Heartbeat(d) \/ Shutdown(d) \/ Tick(d) \/ End(d, s)
        PROVE  UNCHANGED places /\ UNCHANGED created
    BY <1>3, BeatAside DEF Shutdown, Tick, M!Tick, M!file, End
  <1>4. ASSUME NEW d \in Daemon, Crash(d) PROVE Adopted'
    <2>1. UNCHANGED <<created, total, root, log, legacy, saved>>
          /\ boot' = [boot EXCEPT ![d] = "start"]
      BY <1>4 DEF Crash, L!Reboot, L!Goto
    <2>2. \A e \in Daemon : boot'[e] \in {boot[e], "start"}
      BY <2>1 DEF Types, TypeOK, L!TypeOK
    <2> QED BY <2>1, <2>2, <1>a DEF Adopted
  <1>5. ASSUME NEW d \in Daemon, Acts(d) PROVE Adopted'
    BY <1>1, <1>2, <1>3, <1>4, <1>5, <1>a, AdoptedSave, ShardAssumption DEF Acts
  <1>6. ASSUME UNCHANGED vars PROVE Adopted' BY <1>2, <1>6 DEF vars
  <1> QED BY <1>5, <1>6, <1>a, StepActs, AdoptedLegacy

\* Unless the engine of before is running when its log is moved, the adoption loses no record,
\* wherever daemons die and however many of them boot at once.
THEOREM RecordsKept == Spec => []NoRecordLost
  <1>1. Init => Apart
    <2> SUFFICES ASSUME L!Init PROVE Adopted BY DEF Init, Apart
    <2>1. ~created /\ boot = [d \in Daemon |-> "start"] BY DEF L!Init
    <2>2. legacy => root # None BY DEF L!Init
    <2>3. log = [s \in Shard |-> None] /\ saved = [s \in Shard |-> 0] /\ root \in {None, 0}
      BY DEF L!Init
    <2>4. L!Lines(root) = 0 /\ L!Lines(None) = 0 BY <2>3, LinesOf
    <2>5. \A s \in Shard :
            L!Lines(log[s]) + (IF s = First THEN L!Lines(root) ELSE 0) = saved[s]
      BY <2>3, <2>4
    <2> QED BY <2>1, <2>2, <2>3, <2>5, ShardAssumption DEF Adopted
  <1>2. Types /\ Placed /\ Apart => NoRecordLost
    BY DEF Placed, Apart, Adopted, NoRecordLost, L!NoRecordLost
  <1> QED
    BY <1>1, <1>2, AdoptedStep, PlacedAlways, LockKeepingAlways, TypesAlways, PTL DEF Spec
=============================================================================
