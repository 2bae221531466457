-------------------------- MODULE FileStoreProofs --------------------------
(***************************************************************************)
(* Theorems about the task log, for any tasks, values, limits and bounds.  *)
(* That the log keeps what it acknowledged is proved for writes that land  *)
(* whole or not at all (TornTails = {}) and, where compaction matters, for *)
(* a clock that does not step back: the run file_store_torn shows what a   *)
(* torn line does.                                                         *)
(***************************************************************************)
EXTENDS FileStore, FiniteSetTheorems, SequenceTheorems, TLAPS

USE StoreAssumption, ClockAssumption, LimitAssumption, BoundAssumption

AnyLine == [kind : {"record", "junk", "stop"}, id : Task \cup {None}, val : Data]

\* A finite set of numbers that is not empty has a last one.
LEMMA LastExists ==
  ASSUME NEW S \in SUBSET Int, IsFiniteSet(S), S # {}
  PROVE  \E i \in S : \A j \in S : j <= i
  <1> DEFINE From(i) == {j \in S : i <= j}
             Tails == {From(i) : i \in S}
  <1>1. Tails \subseteq FiniteSubsetsOf(S)
    <2>1. \A i \in S : From(i) \in SUBSET S OBVIOUS
    <2>2. \A i \in S : IsFiniteSet(From(i)) BY <2>1, FS_Subset
    <2> QED BY <2>1, <2>2 DEF FiniteSubsetsOf
  <1>2. Tails # {}
    <2>1. PICK s \in S : TRUE OBVIOUS
    <2>2. From(s) \in Tails BY <2>1
    <2> QED BY <2>2
  <1>3. IsWellFoundedOn(StrictSubsetOrdering(S), FiniteSubsetsOf(S))
    BY FS_StrictSubsetOrderingWellFounded
  <1> HIDE DEF Tails
  <1>4. PICK X \in Tails : \A Y \in Tails : ~ (<<Y, X>> \in StrictSubsetOrdering(S))
    BY <1>1, <1>2, <1>3, WFMin
  <1>5. PICK i \in S : X = From(i) BY <1>4 DEF Tails
  <1>6. ASSUME NEW j \in S, i < j PROVE FALSE
    <2>1. From(j) \in Tails BY DEF Tails
    <2>2. From(j) \subseteq X
      <3>1. \A k \in From(j) : k \in S /\ k \in Int /\ j <= k OBVIOUS
      <3>2. i \in Int /\ j \in Int OBVIOUS
      <3>3. \A k \in From(j) : i <= k BY <3>1, <3>2, <1>6
      <3> QED BY <1>5, <3>1, <3>3
    <2>3. i \in X /\ i \notin From(j) BY <1>5, <1>6
    <2>4. From(j) \in SUBSET S /\ X \in SUBSET S BY <1>5
    <2>5. <<From(j), X>> \in StrictSubsetOrdering(S)
      BY <2>2, <2>3, <2>4 DEF StrictSubsetOrdering
    <2> QED BY <1>4, <2>1, <2>5
  <1> QED BY <1>6

----------------------------------------------------------------------------
(* Reading a log of any lines. *)

\* The sets of lines are finite sets of numbers, those of the log.
LEMMA LinesFinite ==
  ASSUME NEW lines \in Seq(AnyLine), NEW t
  PROVE  /\ DOMAIN lines = 1..Len(lines) /\ Len(lines) \in Nat /\ DOMAIN lines \subseteq Int
         /\ IsFiniteSet(DOMAIN lines)
         /\ About(lines, t) \subseteq DOMAIN lines /\ IsFiniteSet(About(lines, t))
         /\ Live(lines) \subseteq DOMAIN lines /\ IsFiniteSet(Live(lines))
         /\ Dead(lines) \subseteq DOMAIN lines /\ IsFiniteSet(Dead(lines))
  <1>1. DOMAIN lines = 1..Len(lines) /\ Len(lines) \in Nat BY LenProperties
  <1>2. IsFiniteSet(DOMAIN lines) BY <1>1, FS_Interval
  <1>3. Records(lines) \subseteq DOMAIN lines BY DEF Records, Readable
  <1>4. /\ About(lines, t) \subseteq DOMAIN lines
        /\ Live(lines) \subseteq DOMAIN lines
        /\ Dead(lines) \subseteq DOMAIN lines
    BY <1>3 DEF About, Live, Dead
  <1>5. IsFiniteSet(About(lines, t)) BY <1>2, <1>4, FS_Subset
  <1>6. IsFiniteSet(Live(lines)) BY <1>2, <1>4, FS_Subset
  <1>7. IsFiniteSet(Dead(lines)) BY <1>2, <1>4, FS_Subset
  <1> QED BY <1>1, <1>2, <1>4, <1>5, <1>6, <1>7

\* A set of lines that is not empty has a last one, and CHOOSE finds it.
LEMMA LastChosen ==
  ASSUME NEW lines \in Seq(AnyLine), NEW S \in SUBSET DOMAIN lines, S # {}
  PROVE  LET i == CHOOSE k \in S : \A j \in S : j <= k
         IN  i \in S /\ i \in 1..Len(lines) /\ (\A j \in S : j <= i) /\ lines[i] \in AnyLine
  <1> DEFINE i == CHOOSE k \in S : \A j \in S : j <= k
  <1>1. DOMAIN lines = 1..Len(lines) /\ DOMAIN lines \subseteq Int /\ IsFiniteSet(DOMAIN lines)
    BY LinesFinite
  <1>2. IsFiniteSet(S) BY <1>1, FS_Subset
  <1>3. \E k \in S : \A j \in S : j <= k BY <1>1, <1>2, LastExists
  <1>4. i \in S /\ (\A j \in S : j <= i) BY <1>3
  <1> HIDE DEF i
  <1>5. i \in 1..Len(lines) BY <1>1, <1>4
  <1>6. lines[i] \in AnyLine BY <1>5, ElementOfSeq
  <1> QED BY <1>4, <1>5, <1>6 DEF i

\* The latest value of a task is a value or None.
LEMMA LatestType ==
  ASSUME NEW lines \in Seq(AnyLine), NEW t
  PROVE  Latest(lines, t) \in Data
  <1>1. About(lines, t) \subseteq DOMAIN lines BY LinesFinite
  <1>2. CASE About(lines, t) = {} BY <1>2 DEF Latest, Data
  <1>3. CASE About(lines, t) # {}
    <2> DEFINE i == CHOOSE k \in About(lines, t) : \A j \in About(lines, t) : j <= k
    <2>1. lines[i] \in AnyLine BY <1>1, <1>3, LastChosen
    <2>2. Latest(lines, t) = lines[i].val BY <1>3 DEF Latest
    <2> HIDE DEF i
    <2> QED BY <2>1, <2>2 DEF AnyLine
  <1> QED BY <1>2, <1>3

\* Compaction keeps a value of a record of the task, or nothing.
LEMMA KeptType ==
  ASSUME NEW lines \in Seq(AnyLine), NEW t, NEW back
  PROVE  /\ Kept(lines, t, back) \in Data
         /\ Kept(lines, t, back) # None => About(lines, t) # {}
  <1> DEFINE all == SinceTombstone(lines, t)
             early == {k \in all : k < back}
             candidates == IF early = {} THEN all ELSE early
             i == CHOOSE k \in candidates : \A j \in candidates : j <= k
  <1>1. About(lines, t) \subseteq DOMAIN lines BY LinesFinite
  <1>2. all \subseteq About(lines, t) BY DEF SinceTombstone
  <1>3. candidates \subseteq all /\ (all # {} => candidates # {}) OBVIOUS
  <1>4. Kept(lines, t, back) = IF all = {} THEN None ELSE lines[i].val BY DEF Kept
  <1>5. CASE all = {} BY <1>4, <1>5 DEF Data
  <1>6. CASE all # {}
    <2>1. candidates \in SUBSET DOMAIN lines /\ candidates # {} BY <1>1, <1>2, <1>3, <1>6
    <2> HIDE DEF candidates
    <2>2. lines[i] \in AnyLine BY <2>1, LastChosen
    <2> HIDE DEF i
    <2>3. lines[i].val \in Data BY <2>2 DEF AnyLine
    <2> QED BY <1>2, <1>4, <1>6, <2>3
  <1> QED BY <1>5, <1>6

\* Only finitely many tasks have lines to keep.
LEMMA KeptFinite ==
  ASSUME NEW lines \in Seq(AnyLine), NEW back
  PROVE  IsFiniteSet({t \in Task : Kept(lines, t, back) # None})
  <1> DEFINE ids == {lines[i].id : i \in DOMAIN lines}
             f == [i \in DOMAIN lines |-> lines[i].id]
             kept == {t \in Task : Kept(lines, t, back) # None}
  <1>1. IsFiniteSet(DOMAIN lines) BY LinesFinite
  <1>2. f \in Surjection(DOMAIN lines, ids) BY DEF Surjection
  <1>3. IsFiniteSet(ids) BY <1>1, <1>2, FS_Surjection
  <1>4. ASSUME NEW t \in kept PROVE t \in ids
    <2>1. About(lines, t) # {} BY <1>4, KeptType
    <2>2. About(lines, t) \subseteq DOMAIN lines BY LinesFinite
    <2>3. PICK i \in About(lines, t) : TRUE BY <2>1
    <2>4. lines[i].id = t BY <2>3 DEF About
    <2> QED BY <2>2, <2>3, <2>4
  <1>5. kept \subseteq ids BY <1>4
  <1> QED BY <1>3, <1>5, FS_Subset

----------------------------------------------------------------------------
(* Types. *)

\* A line that is unfinished is there.
Shape == TypeOK /\ (open => Len(log) > 0)

\* The lines that are written are lines.
LEMMA LineTypes ==
  /\ \A t \in Task, v \in Data : Line(t, v) \in AnyLine
  /\ \A kind \in {"junk", "stop"} : Torn(kind) \in AnyLine
  BY DEF Line, Torn, AnyLine, Data

\* A record written to a log gives a log that is not empty, also after an unfinished line.
LEMMA WithLineType ==
  ASSUME Shape, NEW line \in AnyLine
  PROVE  WithLine(log, line) \in Seq(AnyLine) /\ Len(WithLine(log, line)) > 0
  <1>1. log \in Seq(AnyLine) /\ Len(log) \in Nat BY LenProperties DEF Shape, TypeOK, AnyLine
  <1>2. CASE open
    <2>1. Len(log) \in 1..Len(log) BY <1>1, <1>2 DEF Shape
    <2> DEFINE torn == Torn(IF log[Len(log)].kind = "stop" THEN "stop" ELSE "junk")
    <2>2. torn \in AnyLine BY LineTypes
    <2>3. WithLine(log, line) = [log EXCEPT ![Len(log)] = torn] BY <1>2 DEF WithLine
    <2> HIDE DEF torn
    <2>4. /\ [log EXCEPT ![Len(log)] = torn] \in Seq(AnyLine)
          /\ Len([log EXCEPT ![Len(log)] = torn]) = Len(log)
      BY <1>1, <2>1, <2>2, ExceptSeq
    <2> QED BY <2>1, <2>3, <2>4, <1>1
  <1>3. CASE ~open
    <2>1. WithLine(log, line) = Append(log, line) BY <1>3 DEF WithLine
    <2>2. Append(log, line) \in Seq(AnyLine) /\ Len(Append(log, line)) = Len(log) + 1
      BY <1>1, AppendProperties
    <2> QED BY <2>1, <2>2, <1>1
  <1> QED BY <1>2, <1>3

\* A write cut short leaves a log.
LEMMA CutType ==
  ASSUME Shape, NEW t \in Task, NEW v \in Data, Cut(t, v)
  PROVE  log' \in Seq(AnyLine) /\ open' \in BOOLEAN /\ (open' => Len(log') > 0)
  <1>1. CASE UNCHANGED <<log, open>> BY <1>1 DEF Shape, TypeOK, AnyLine
  <1>2. CASE log' = WithLine(log, Line(t, v)) /\ open' = FALSE
    BY <1>2, LineTypes, WithLineType
  <1>3. ASSUME NEW torn \in TornTails,
               log' = WithLine(log, IF torn = "whole" THEN Line(t, v) ELSE Torn(torn)),
               open' = TRUE
        PROVE  log' \in Seq(AnyLine) /\ open' \in BOOLEAN /\ (open' => Len(log') > 0)
    <2> DEFINE line == IF torn = "whole" THEN Line(t, v) ELSE Torn(torn)
    <2>1. torn = "whole" \/ torn \in {"junk", "stop"} BY DEF StoreAssumption
    <2>2. line \in AnyLine BY <2>1, LineTypes
    <2> HIDE DEF line
    <2>3. log' = WithLine(log, line) BY <1>3 DEF line
    <2> QED BY <1>3, <2>2, <2>3, WithLineType
  <1> QED BY <1>1, <1>2, <1>3 DEF Cut

\* A write that succeeds keeps the types.
LEMMA StoreType ==
  ASSUME Shape, NEW t \in Task, NEW v \in Data, Store(t, v)
  PROVE  /\ log' \in Seq(AnyLine) /\ open' \in BOOLEAN /\ (open' => Len(log') > 0)
         /\ cache' \in [Task -> Data]
         /\ total' \in Nat /\ deleted' \in Nat /\ appended' \in Nat
         /\ failures' \in Nat /\ doubt' \in [Task -> SUBSET Data]
  <1>1. log' \in Seq(AnyLine) /\ open' = FALSE BY LineTypes, WithLineType DEF Store
  <1>2. cache' \in [Task -> Data] BY DEF Store, Shape, TypeOK
  <1>3. total' \in Nat /\ deleted' \in Nat /\ appended' \in Nat
    BY DEF Store, Count, Shape, TypeOK
  <1>4. failures' \in Nat /\ doubt' \in [Task -> SUBSET Data] BY DEF Store, Shape, TypeOK
  <1> QED BY <1>1, <1>2, <1>3, <1>4

\* A write that fails keeps the types.
LEMMA FailType ==
  ASSUME Shape, NEW t \in Task, NEW v \in Data, Fail(t, v)
  PROVE  /\ log' \in Seq(AnyLine) /\ open' \in BOOLEAN /\ (open' => Len(log') > 0)
         /\ cache' \in [Task -> Data]
         /\ total' \in Nat /\ deleted' \in Nat /\ appended' \in Nat
         /\ failures' \in Nat /\ doubt' \in [Task -> SUBSET Data]
  <1>1. log' \in Seq(AnyLine) /\ open' \in BOOLEAN /\ (open' => Len(log') > 0)
    BY CutType DEF Fail
  <1>2. UNCHANGED <<cache, total, deleted, appended>> BY DEF Fail, counters
  <1>3. failures' \in Nat /\ doubt' \in [Task -> SUBSET Data] BY DEF Fail, Shape, TypeOK
  <1> QED BY <1>1, <1>2, <1>3 DEF Shape, TypeOK

\* The log that a compaction writes.
Rewritten(order, back) == [i \in DOMAIN order |-> Line(order[i], Kept(log, order[i], back))]

\* It is a log with a line for each kept task.
LEMMA RewrittenType ==
  ASSUME Shape, NEW back, NEW n \in Nat, NEW order \in [1..n -> Task]
  PROVE  Rewritten(order, back) \in Seq(AnyLine) /\ Len(Rewritten(order, back)) = n
  <1> DEFINE new == Rewritten(order, back)
  <1>1. log \in Seq(AnyLine) BY DEF Shape, TypeOK, AnyLine
  <1>2. \A i \in 1..n : Line(order[i], Kept(log, order[i], back)) \in AnyLine
    BY <1>1, KeptType, LineTypes
  <1>3. new = [i \in 1..n |-> Line(order[i], Kept(log, order[i], back))] BY DEF Rewritten
  <1>4. new \in [1..n -> AnyLine] BY <1>2, <1>3
  <1> HIDE DEF new
  <1>5. new \in Seq(AnyLine) BY <1>4
  <1>6. DOMAIN new = 1..Len(new) /\ Len(new) \in Nat BY <1>5, LenProperties
  <1>7. DOMAIN new = 1..n BY <1>4
  <1>8. Len(new) = n
    <2> DEFINE m == Len(new)
    <2>1. 1..m = 1..n /\ m \in Nat BY <1>6, <1>7
    <2> HIDE DEF m
    <2>2. n > 0 => n \in 1..m BY <2>1
    <2>3. m > 0 => m \in 1..n BY <2>1
    <2>4. m = n BY <2>1, <2>2, <2>3
    <2> QED BY <2>4 DEF m
  <1> QED BY <1>5, <1>8 DEF new

\* A compaction in which the clock steps back before line `back`, and n tasks are kept.
KeptTasks(back) == {t \in Task : Kept(log, t, back) # None}
Compacted(back, n) ==
  /\ IsFiniteSet(KeptTasks(back)) /\ n = Cardinality(KeptTasks(back)) /\ n \in Nat
  /\ \E order \in [1..n -> KeptTasks(back)] :
       /\ \A i, j \in 1..n : order[i] = order[j] => i = j
       /\ log' = Rewritten(order, back)
  /\ cache' = [t \in Task |-> Kept(log, t, back)]
  /\ total' = n /\ deleted' = 0 /\ appended' = 0

\* The step of compact_log is one of those; back is 1 if no clock steps back.
LEMMA Rewriting ==
  ASSUME Shape, CompactRewrite
  PROVE  \E back, n : Compacted(back, n) /\ (~ClockSteps => back = 1)
  <1>1. PICK back \in {1} \cup IF ClockSteps THEN DOMAIN log ELSE {} :
          /\ \E order \in [1..Cardinality(KeptTasks(back)) -> KeptTasks(back)] :
               /\ \A i, j \in DOMAIN order : order[i] = order[j] => i = j
               /\ log' = Rewritten(order, back)
          /\ cache' = [t \in Task |-> Kept(log, t, back)]
          /\ total' = Cardinality(KeptTasks(back)) /\ deleted' = 0 /\ appended' = 0
    BY DEF CompactRewrite, Rewritten, ResetCounters, KeptTasks
  <1> DEFINE n == Cardinality(KeptTasks(back))
  <1>2. log \in Seq(AnyLine) BY DEF Shape, TypeOK, AnyLine
  <1>3. IsFiniteSet(KeptTasks(back)) BY <1>2, KeptFinite DEF KeptTasks
  <1>4. n \in Nat BY <1>3, FS_CardinalityType
  <1>5. \E order \in [1..n -> KeptTasks(back)] :
          /\ \A i, j \in 1..n : order[i] = order[j] => i = j
          /\ log' = Rewritten(order, back)
    BY <1>1
  <1>6. /\ cache' = [t \in Task |-> Kept(log, t, back)]
        /\ total' = n /\ deleted' = 0 /\ appended' = 0
    BY <1>1
  <1>7. ~ClockSteps => back = 1 BY <1>1
  <1> HIDE DEF n
  <1>8. Compacted(back, n) BY <1>3, <1>4, <1>5, <1>6 DEF Compacted, n
  <1> QED BY <1>7, <1>8

\* The types hold of an empty log.
LEMMA ShapeInit == Init => Shape
  <1> SUFFICES ASSUME Init PROVE Shape OBVIOUS
  <1>1. log \in Seq(AnyLine) BY EmptySeq DEF Init
  <1>2. ~open BY DEF Init
  <1> QED BY <1>1, <1>2 DEF Init, Shape, TypeOK, AnyLine, Data, NoDoubt

\* A save keeps the types.
LEMMA ShapeSave ==
  ASSUME Shape, NEW t \in Task, NEW v \in Val, Save(t, v)
  PROVE  Shape'
  <1>1. v \in Data BY DEF Data
  <1>2. UNCHANGED <<deleting, compactor, crashes>> BY DEF Save
  <1>3. asked' \in BOOLEAN
    <2>1. ShouldCompact' \in BOOLEAN BY DEF ShouldCompact
    <2> QED BY <2>1 DEF Save, Shape, TypeOK
  <1>4. CASE Store(t, v)
    BY <1>1, <1>2, <1>3, <1>4, StoreType DEF Shape, TypeOK, AnyLine
  <1>5. CASE Fail(t, v)
    BY <1>1, <1>2, <1>3, <1>5, FailType DEF Shape, TypeOK, AnyLine
  <1> QED BY <1>4, <1>5 DEF Save

\* Both halves of a delete keep the types.
LEMMA ShapeDelete ==
  ASSUME Shape, NEW t \in Task, DeleteRead(t) \/ DeleteWrite(t)
  PROVE  Shape'
  <1>1. None \in Data BY DEF Data
  <1>2. CASE DeleteRead(t)
    <2>1. deleting' \in [Task -> Nat] BY <1>2 DEF DeleteRead, Shape, TypeOK
    <2> QED BY <1>2, <2>1 DEF DeleteRead, Shape, TypeOK, counters, history
  <1>3. CASE DeleteWrite(t)
    <2>1. deleting' \in [Task -> Nat] BY <1>3 DEF DeleteWrite, Shape, TypeOK
    <2>2. UNCHANGED <<asked, compactor, crashes>> BY <1>3 DEF DeleteWrite
    <2>3. CASE Store(t, None)
      BY <1>1, <2>1, <2>2, <2>3, StoreType DEF Shape, TypeOK, AnyLine
    <2>4. CASE Fail(t, None)
      BY <1>1, <2>1, <2>2, <2>4, FailType DEF Shape, TypeOK, AnyLine
    <2> QED BY <1>3, <2>3, <2>4 DEF DeleteWrite
  <1> QED BY <1>2, <1>3

\* The steps of a compaction keep the types.
LEMMA ShapeCompact ==
  ASSUME Shape, CompactBegin \/ CompactRewrite \/ CompactFails \/ CompactEnd
  PROVE  Shape'
  <1>1. CASE CompactBegin BY <1>1 DEF CompactBegin, Shape, TypeOK, counters, history
  <1>2. CASE CompactFails BY <1>2 DEF CompactFails, Shape, TypeOK, counters, history
  <1>3. CASE CompactEnd BY <1>3 DEF CompactEnd, Shape, TypeOK, counters, history
  <1>4. CASE CompactRewrite
    <2>1. PICK back, n : Compacted(back, n) BY <1>4, Rewriting
    <2>2. log \in Seq(AnyLine) BY DEF Shape, TypeOK, AnyLine
    <2>3. cache' \in [Task -> Data] BY <2>1, <2>2, KeptType DEF Compacted
    <2>4. log' \in Seq(AnyLine)
      <3>1. PICK order \in [1..n -> KeptTasks(back)] : log' = Rewritten(order, back)
        BY <2>1 DEF Compacted
      <3>2. order \in [1..n -> Task] BY <3>1 DEF KeptTasks
      <3>3. n \in Nat BY <2>1 DEF Compacted
      <3> QED BY <3>1, <3>2, <3>3, RewrittenType
    <2>5. total' \in Nat /\ deleted' \in Nat /\ appended' \in Nat BY <2>1 DEF Compacted
    <2>6. compactor' \in {"idle", "begun", "over"} /\ open' = FALSE
      BY <1>4 DEF CompactRewrite
    <2>7. doubt' \in [Task -> SUBSET Data] BY <1>4 DEF CompactRewrite, NoDoubt
    <2>8. UNCHANGED <<deleting, asked, failures, crashes>> BY <1>4 DEF CompactRewrite
    <2> QED BY <2>3, <2>4, <2>5, <2>6, <2>7, <2>8 DEF Shape, TypeOK, AnyLine
  <1> QED BY <1>1, <1>2, <1>3, <1>4

\* A restart keeps the types.
LEMMA ShapeCrash ==
  ASSUME Shape, Crash
  PROVE  Shape'
  <1>1. log' \in Seq(AnyLine) /\ open' \in BOOLEAN /\ (open' => Len(log') > 0)
    <2>1. CASE UNCHANGED <<log, open>> BY <2>1 DEF Shape, TypeOK, AnyLine
    <2>2. CASE \E t \in Task, v \in Data : Cut(t, v) BY <2>2, CutType
    <2> QED BY <2>1, <2>2 DEF Crash
  <1>2. cache' \in [Task -> Data] BY <1>1, LatestType DEF Crash, Replay
  <1>3. total' \in Nat /\ deleted' \in Nat
    <2>1. IsFiniteSet(Live(log')) /\ IsFiniteSet(Dead(log')) BY <1>1, LinesFinite
    <2>2. Cardinality(Live(log')) \in Nat BY <2>1, FS_CardinalityType
    <2>3. Cardinality(Dead(log')) \in Nat BY <2>1, FS_CardinalityType
    <2> QED BY <2>2, <2>3 DEF Crash
  <1>4. appended' \in Nat BY <1>3 DEF Crash
  <1>5. deleting' \in [Task -> Nat] /\ asked' \in BOOLEAN /\ compactor' = "idle"
    BY DEF Crash
  <1>6. crashes' \in Nat /\ failures' \in Nat /\ doubt' \in [Task -> SUBSET Data]
    BY DEF Crash, NoDoubt, Shape, TypeOK
  <1> QED BY <1>1, <1>2, <1>3, <1>4, <1>5, <1>6 DEF Shape, TypeOK, AnyLine

\* Every step keeps the types.
LEMMA ShapeNext == Shape /\ [Next]_vars => Shape'
  <1> SUFFICES ASSUME Shape, [Next]_vars PROVE Shape' OBVIOUS
  <1>1. CASE UNCHANGED vars BY <1>1 DEF vars, counters, history, Shape, TypeOK
  <1>2. ASSUME NEW t \in Task, NEW v \in Val, Save(t, v) PROVE Shape' BY <1>2, ShapeSave
  <1>3. ASSUME NEW t \in Task, DeleteRead(t) \/ DeleteWrite(t) PROVE Shape'
    BY <1>3, ShapeDelete
  <1>4. CASE CompactBegin \/ CompactRewrite \/ CompactFails \/ CompactEnd
    BY <1>4, ShapeCompact
  <1>5. CASE Crash BY <1>5, ShapeCrash
  <1> QED BY <1>1, <1>2, <1>3, <1>4, <1>5 DEF Next

\* Every variable has its type, whatever is torn, fails or is restarted; no counter of
\* should_compact goes below zero (file_store.rs:115-120, 192-210, 267-269).
THEOREM TypeCorrect == Spec => []TypeOK
  <1>1. Shape => TypeOK BY DEF Shape
  <1> QED BY <1>1, ShapeInit, ShapeNext, PTL DEF Spec

----------------------------------------------------------------------------
(* Logs of whole lines. *)

WholeLine == [kind : {"record"}, id : Task, val : Data]
Tidy == ~open /\ log \in Seq(WholeLine)

\* In such a log every line is read.
LEMMA WholeLines ==
  ASSUME NEW lines \in Seq(WholeLine)
  PROVE  /\ lines \in Seq(AnyLine)
         /\ DOMAIN lines = 1..Len(lines) /\ Len(lines) \in Nat
         /\ Live(lines) = {i \in 1..Len(lines) : lines[i].val # None}
         /\ Dead(lines) = {i \in 1..Len(lines) : lines[i].val = None}
         /\ \A t : About(lines, t) = {i \in 1..Len(lines) : lines[i].id = t}
  <1>1. WholeLine \subseteq AnyLine BY DEF WholeLine, AnyLine
  <1>2. lines \in Seq(AnyLine) BY <1>1, SeqMonotonic
  <1>3. DOMAIN lines = 1..Len(lines) /\ Len(lines) \in Nat BY LenProperties
  <1>4. \A i \in 1..Len(lines) : lines[i].kind = "record"
    <2>1. \A i \in 1..Len(lines) : lines[i] \in WholeLine BY ElementOfSeq
    <2> QED BY <2>1 DEF WholeLine
  <1>5. Readable(lines) = 1..Len(lines)
    <2>1. ASSUME NEW i \in 1..Len(lines), NEW j \in 1..i PROVE lines[j].kind # "stop"
      <3>1. j \in 1..Len(lines) BY <1>3
      <3> QED BY <1>4, <3>1
    <2> QED BY <1>3, <2>1 DEF Readable
  <1>6. Records(lines) = 1..Len(lines) BY <1>4, <1>5 DEF Records
  <1> QED BY <1>2, <1>3, <1>6 DEF Live, Dead, About

\* Every line is a record of a task or a tombstone.
LEMMA LiveAndDead ==
  ASSUME NEW lines \in Seq(WholeLine)
  PROVE  /\ IsFiniteSet(Live(lines)) /\ Cardinality(Live(lines)) \in Nat
         /\ IsFiniteSet(Dead(lines)) /\ Cardinality(Dead(lines)) \in Nat
         /\ Cardinality(Live(lines)) + Cardinality(Dead(lines)) = Len(lines)
  <1>1. /\ Live(lines) = {i \in 1..Len(lines) : lines[i].val # None}
        /\ Dead(lines) = {i \in 1..Len(lines) : lines[i].val = None}
        /\ lines \in Seq(AnyLine) /\ Len(lines) \in Nat
    BY WholeLines
  <1>2. IsFiniteSet(Live(lines)) /\ IsFiniteSet(Dead(lines)) BY <1>1, LinesFinite
  <1>3. Cardinality(Live(lines)) \in Nat /\ Cardinality(Dead(lines)) \in Nat
    BY <1>2, FS_CardinalityType
  <1>4. Live(lines) \cap Dead(lines) = {} BY <1>1
  <1>5. Live(lines) \cup Dead(lines) = 1..Len(lines) BY <1>1
  <1>6. Cardinality(1..Len(lines)) = Len(lines)
    <2>1. 1 \in Int /\ Len(lines) \in Int BY <1>1
    <2>2. Cardinality(1..Len(lines)) = IF 1 > Len(lines) THEN 0 ELSE Len(lines) - 1 + 1
      BY <2>1, FS_Interval
    <2> QED BY <1>1, <2>2
  <1>7. Cardinality(Live(lines) \cup Dead(lines)) =
          Cardinality(Live(lines)) + Cardinality(Dead(lines)) - Cardinality(Live(lines) \cap Dead(lines))
    BY <1>2, FS_Union
  <1>8. Cardinality(Live(lines) \cap Dead(lines)) = 0 BY <1>4, FS_EmptySet
  <1>9. Cardinality(Live(lines) \cup Dead(lines)) = Len(lines) BY <1>5, <1>6
  <1>10. Cardinality(Live(lines)) + Cardinality(Dead(lines)) = Len(lines)
    BY <1>3, <1>7, <1>8, <1>9
  <1> QED BY <1>2, <1>3, <1>10

\* The last of the records of a task is its latest.
LEMMA LatestIs ==
  ASSUME NEW lines \in Seq(AnyLine), NEW t, NEW i \in About(lines, t),
         \A j \in About(lines, t) : j <= i
  PROVE  Latest(lines, t) = lines[i].val
  <1> DEFINE k == CHOOSE x \in About(lines, t) : \A j \in About(lines, t) : j <= x
  <1>1. About(lines, t) \subseteq DOMAIN lines /\ DOMAIN lines \subseteq Int BY LinesFinite
  <1>2. k \in About(lines, t) /\ \A j \in About(lines, t) : j <= k OBVIOUS
  <1>3. Latest(lines, t) = lines[k].val BY DEF Latest
  <1> HIDE DEF k
  <1>4. i \in Int /\ k \in Int /\ i <= k /\ k <= i BY <1>1, <1>2
  <1>5. i = k BY <1>4
  <1> QED BY <1>3, <1>5

\* A record appended is the latest of its task and changes no other task.
LEMMA AppendWhole ==
  ASSUME NEW lines \in Seq(WholeLine), NEW t \in Task, NEW v \in Data
  PROVE  LET new == Append(lines, Line(t, v))
             n == Len(lines) + 1
         IN  /\ new \in Seq(WholeLine) /\ Len(new) = n
             /\ Latest(new, t) = v
             /\ \A u \in Task : u # t => Latest(new, u) = Latest(lines, u)
             /\ Live(new) = Live(lines) \cup IF v = None THEN {} ELSE {n}
             /\ Dead(new) = Dead(lines) \cup IF v = None THEN {n} ELSE {}
             /\ n \notin Live(lines) /\ n \notin Dead(lines)
  <1> DEFINE new == Append(lines, Line(t, v))
             n == Len(lines) + 1
  <1>1. Line(t, v) \in WholeLine BY DEF Line, WholeLine
  <1>2. /\ new \in Seq(WholeLine) /\ Len(new) = n
        /\ \A i \in 1..Len(lines) : new[i] = lines[i]
        /\ new[n] = Line(t, v)
    BY <1>1, AppendProperties
  <1> HIDE DEF new
  <1>3. Len(lines) \in Nat /\ n \in Nat /\ n \notin 1..Len(lines) /\ 1..n = 1..Len(lines) \cup {n}
    <2>1. Len(lines) \in Nat BY LenProperties
    <2> QED BY <2>1
  <1> HIDE DEF n
  <1>4. new[n].id = t /\ new[n].val = v BY <1>2 DEF Line
  <1>5. \A u : About(new, u) = About(lines, u) \cup IF u = t THEN {n} ELSE {}
    <2>1. \A u : About(new, u) = {i \in 1..n : new[i].id = u} BY <1>2, WholeLines
    <2>2. \A u : About(lines, u) = {i \in 1..Len(lines) : lines[i].id = u} BY WholeLines
    <2> QED BY <1>2, <1>3, <1>4, <2>1, <2>2
  <1>6. \A u : About(lines, u) \subseteq 1..Len(lines) BY WholeLines
  <1>7. lines \in Seq(AnyLine) /\ new \in Seq(AnyLine) BY <1>2, WholeLines
  <1>8. Latest(new, t) = v
    <2>1. n \in About(new, t) BY <1>5
    <2>2. \A j \in 1..Len(lines) : j <= n BY <1>3
    <2>3. \A j \in About(new, t) : j <= n BY <1>3, <1>5, <1>6, <2>2
    <2> QED BY <1>4, <1>7, <2>1, <2>3, LatestIs
  <1>9. ASSUME NEW u \in Task, u # t PROVE Latest(new, u) = Latest(lines, u)
    <2>1. About(new, u) = About(lines, u) BY <1>5, <1>9
    <2>2. CASE About(lines, u) = {} BY <2>1, <2>2 DEF Latest
    <2>3. CASE About(lines, u) # {}
      <3>1. DOMAIN lines = 1..Len(lines) BY WholeLines
      <3>2. PICK i \in About(lines, u) : \A j \in About(lines, u) : j <= i
        BY <1>6, <1>7, <2>3, <3>1, LastChosen
      <3>3. Latest(lines, u) = lines[i].val BY <1>7, <3>2, LatestIs
      <3>4. Latest(new, u) = new[i].val BY <1>7, <2>1, <3>2, LatestIs
      <3>5. new[i] = lines[i] BY <1>2, <1>6, <3>2
      <3> QED BY <3>3, <3>4, <3>5
    <2> QED BY <2>2, <2>3
  <1>10. /\ Live(new) = {i \in 1..n : new[i].val # None}
         /\ Dead(new) = {i \in 1..n : new[i].val = None}
    BY <1>2, WholeLines
  <1>11. /\ Live(lines) = {i \in 1..Len(lines) : lines[i].val # None}
         /\ Dead(lines) = {i \in 1..Len(lines) : lines[i].val = None}
    BY WholeLines
  <1>12. Live(new) = Live(lines) \cup IF v = None THEN {} ELSE {n}
    BY <1>2, <1>3, <1>4, <1>10, <1>11
  <1>13. Dead(new) = Dead(lines) \cup IF v = None THEN {n} ELSE {}
    BY <1>2, <1>3, <1>4, <1>10, <1>11
  <1>14. n \notin Live(lines) /\ n \notin Dead(lines) BY <1>3, <1>11
  <1> QED BY <1>2, <1>8, <1>9, <1>12, <1>13, <1>14 DEF new, n

\* After a compaction every kept task has one line, its latest, and no tombstone is left.
LEMMA RewrittenIs ==
  ASSUME Shape, NEW back, NEW n, Compacted(back, n)
  PROVE  /\ n \in Nat /\ log' \in Seq(WholeLine) /\ Len(log') = n
         /\ \A t \in Task : Latest(log', t) = cache'[t]
         /\ Cardinality(Live(log')) = n /\ Cardinality(Dead(log')) = 0
  <1>1. PICK order \in [1..n -> KeptTasks(back)] :
          /\ \A i, j \in 1..n : order[i] = order[j] => i = j
          /\ log' = Rewritten(order, back)
    BY DEF Compacted
  <1>2. n \in Nat /\ IsFiniteSet(KeptTasks(back)) /\ Cardinality(KeptTasks(back)) = n
    BY DEF Compacted
  <1>3. /\ \A t \in Task : cache'[t] = Kept(log, t, back)
        /\ KeptTasks(back) \subseteq Task
        /\ \A t \in Task : Kept(log, t, back) \in Data
    <2>1. log \in Seq(AnyLine) BY DEF Shape, TypeOK, AnyLine
    <2> QED BY <2>1, KeptType DEF Compacted, KeptTasks
  <1>4. order \in [1..n -> Task] BY <1>3
  <1>5. log' \in Seq(AnyLine) /\ Len(log') = n BY <1>1, <1>2, <1>4, RewrittenType
  <1>6. \A i \in 1..n : log'[i] = Line(order[i], Kept(log, order[i], back))
    BY <1>1 DEF Rewritten
  <1>7. log' \in Seq(WholeLine)
    <2>1. ASSUME NEW i \in 1..n PROVE log'[i] \in WholeLine
      <3>1. order[i] \in Task BY <1>4
      <3>2. Kept(log, order[i], back) \in Data BY <1>3, <3>1
      <3> DEFINE v == Kept(log, order[i], back)
      <3>3. log'[i] = Line(order[i], v) BY <1>6
      <3> HIDE DEF v
      <3>4. Line(order[i], v) \in WholeLine BY <3>1, <3>2 DEF Line, WholeLine, v
      <3> QED BY <3>3, <3>4
    <2>2. log' = [i \in 1..n |-> log'[i]] BY <1>1 DEF Rewritten
    <2>3. log' \in [1..n -> WholeLine] BY <2>1, <2>2
    <2> QED BY <1>2, <2>3
  <1>8. \A i \in 1..n : /\ log'[i].id = order[i]
                        /\ log'[i].val = Kept(log, order[i], back) /\ log'[i].val # None
    <2>1. ASSUME NEW i \in 1..n PROVE Kept(log, order[i], back) # None
      <3>1. order[i] \in KeptTasks(back) OBVIOUS
      <3> QED BY <3>1 DEF KeptTasks
    <2>2. \A i \in 1..n : /\ log'[i].id = order[i]
                          /\ log'[i].val = Kept(log, order[i], back)
      <3>1. ASSUME NEW i \in 1..n
            PROVE  log'[i].id = order[i] /\ log'[i].val = Kept(log, order[i], back)
        <4> DEFINE v == Kept(log, order[i], back)
        <4>1. log'[i] = Line(order[i], v) BY <1>6
        <4> HIDE DEF v
        <4>2. log'[i].id = order[i] /\ log'[i].val = v BY <4>1 DEF Line
        <4> QED BY <4>2 DEF v
      <3> QED BY <3>1
    <2> QED BY <2>1, <2>2
  <1>9. \A t : About(log', t) = {i \in 1..n : order[i] = t}
    <2>1. \A t : About(log', t) = {i \in 1..n : log'[i].id = t} BY <1>5, <1>7, WholeLines
    <2> QED BY <1>8, <2>1
  <1>10. \A t \in KeptTasks(back) : \E i \in 1..n : order[i] = t
    <2>1. order \in Injection(1..n, KeptTasks(back)) BY <1>1 DEF Injection, IsInjective
    <2>2. 1 \in Int /\ n \in Int BY <1>2
    <2>3. Cardinality(1..n) = IF 1 > n THEN 0 ELSE n - 1 + 1 BY <2>2, FS_Interval
    <2>4. Cardinality(1..n) = n BY <1>2, <2>3
    <2>5. order \in Surjection(1..n, KeptTasks(back)) BY <1>2, <2>1, <2>4, FS_Injection
    <2> QED BY <2>5 DEF Surjection
  <1>11. ASSUME NEW t \in Task PROVE Latest(log', t) = cache'[t]
    <2>1. CASE t \in KeptTasks(back)
      <3>1. PICK i \in 1..n : order[i] = t BY <1>10, <2>1
      <3>2. About(log', t) = {i} BY <1>1, <1>9, <3>1
      <3>3. i <= i BY <1>2
      <3>4. Latest(log', t) = log'[i].val BY <1>5, <3>2, <3>3, LatestIs
      <3> QED BY <1>3, <1>8, <3>1, <3>4
    <2>2. CASE t \notin KeptTasks(back)
      <3>1. About(log', t) = {} BY <1>9, <2>2
      <3>2. Latest(log', t) = None BY <3>1 DEF Latest
      <3>3. cache'[t] = None BY <1>3, <2>2 DEF KeptTasks
      <3> QED BY <3>2, <3>3
    <2> QED BY <2>1, <2>2
  <1>12. Dead(log') = {} BY <1>5, <1>7, <1>8, WholeLines
  <1>13. Cardinality(Dead(log')) = 0 BY <1>12, FS_EmptySet
  <1>14. Cardinality(Live(log')) = n
    <2>1. /\ Cardinality(Live(log')) \in Nat
          /\ Cardinality(Live(log')) + Cardinality(Dead(log')) = Len(log')
      BY <1>7, LiveAndDead
    <2> QED BY <1>5, <1>13, <2>1
  <1> QED BY <1>2, <1>5, <1>7, <1>11, <1>13, <1>14

\* The counters are those of the log, less the failed writes.
Exact ==
  /\ total <= Cardinality(Live(log)) /\ deleted <= Cardinality(Dead(log))
  /\ appended <= total + deleted
  /\ failures = 0 => total = Cardinality(Live(log)) /\ deleted = Cardinality(Dead(log))

Sound == Shape /\ Tidy /\ CacheIsOnDisk /\ Exact

\* What a write does to the log when nothing is torn.
LEMMA CutWhole ==
  ASSUME TornTails = {}, Tidy, NEW t \in Task, NEW v \in Data, Cut(t, v)
  PROVE  ~open' /\ (log' = log \/ log' = Append(log, Line(t, v)))
  BY DEF Cut, Tidy, WithLine

\* One record more in the log.
LEMMA AppendCounts ==
  ASSUME Sound, NEW t \in Task, NEW v \in Data, log' = Append(log, Line(t, v))
  PROVE  /\ Cardinality(Live(log')) = Cardinality(Live(log)) + (IF v = None THEN 0 ELSE 1)
         /\ Cardinality(Dead(log')) = Cardinality(Dead(log)) + (IF v = None THEN 1 ELSE 0)
         /\ Cardinality(Live(log)) \in Nat /\ Cardinality(Dead(log)) \in Nat
  <1> DEFINE n == Len(log) + 1
  <1>1. /\ Live(log') = Live(log) \cup IF v = None THEN {} ELSE {n}
        /\ Dead(log') = Dead(log) \cup IF v = None THEN {n} ELSE {}
        /\ n \notin Live(log) /\ n \notin Dead(log)
    BY AppendWhole DEF Sound, Tidy
  <1> HIDE DEF n
  <1>2. /\ IsFiniteSet(Live(log)) /\ Cardinality(Live(log)) \in Nat
        /\ IsFiniteSet(Dead(log)) /\ Cardinality(Dead(log)) \in Nat
    BY LiveAndDead DEF Sound, Tidy
  <1>3. CASE v = None
    <2>1. Live(log') = Live(log) /\ Dead(log') = Dead(log) \cup {n} BY <1>1, <1>3
    <2>2. Cardinality(Dead(log')) = Cardinality(Dead(log)) + 1
      BY <1>1, <1>2, <2>1, FS_AddElement
    <2>3. Cardinality(Live(log')) = Cardinality(Live(log)) + 0 BY <1>2, <2>1
    <2> QED BY <1>2, <1>3, <2>2, <2>3
  <1>4. CASE v # None
    <2>1. Live(log') = Live(log) \cup {n} /\ Dead(log') = Dead(log) BY <1>1, <1>4
    <2>2. Cardinality(Live(log')) = Cardinality(Live(log)) + 1
      BY <1>1, <1>2, <2>1, FS_AddElement
    <2>3. Cardinality(Dead(log')) = Cardinality(Dead(log)) + 0 BY <1>2, <2>1
    <2> QED BY <1>2, <1>4, <2>2, <2>3
  <1> QED BY <1>3, <1>4

\* A write that succeeds is what a restart reads, and is counted.
LEMMA SoundStore ==
  ASSUME TornTails = {}, Sound, NEW t \in Task, NEW v \in Data, Store(t, v)
  PROVE  Tidy' /\ CacheIsOnDisk' /\ Exact'
  <1>1. log' = Append(log, Line(t, v)) /\ ~open' BY DEF Store, Sound, Tidy, WithLine
  <1>2. /\ log' \in Seq(WholeLine) /\ Latest(log', t) = v
        /\ \A u \in Task : u # t => Latest(log', u) = Latest(log, u)
    BY <1>1, AppendWhole DEF Sound, Tidy
  <1>3. CacheIsOnDisk'
    <2>1. ASSUME NEW u \in Task PROVE Latest(log', u) \in {cache'[u]} \cup doubt'[u]
      <3>1. Latest(log, u) \in {cache[u]} \cup doubt[u] BY DEF Sound, CacheIsOnDisk
      <3>2. CASE u = t BY <1>2, <3>2 DEF Store, Sound, Shape, TypeOK
      <3>3. CASE u # t
        <4>1. cache'[u] = cache[u] /\ doubt'[u] = doubt[u]
          BY <3>3 DEF Store, Sound, Shape, TypeOK
        <4> QED BY <1>2, <3>1, <3>3, <4>1
      <3> QED BY <3>2, <3>3
    <2> QED BY <2>1 DEF CacheIsOnDisk
  <1>4. Exact'
    <2>1. /\ Cardinality(Live(log')) = Cardinality(Live(log)) + (IF v = None THEN 0 ELSE 1)
          /\ Cardinality(Dead(log')) = Cardinality(Dead(log)) + (IF v = None THEN 1 ELSE 0)
          /\ Cardinality(Live(log)) \in Nat /\ Cardinality(Dead(log)) \in Nat
      BY <1>1, AppendCounts
    <2>2. total \in Nat /\ deleted \in Nat /\ appended \in Nat BY DEF Sound, Shape, TypeOK
    <2>3. /\ total' = total + (IF v = None THEN 0 ELSE 1)
          /\ deleted' = deleted + (IF v = None THEN 1 ELSE 0)
          /\ appended' = appended + 1 /\ failures' = failures
      BY <2>2 DEF Store, Count
    <2> QED BY <2>1, <2>2, <2>3 DEF Sound, Exact
  <1> QED BY <1>1, <1>2, <1>3, <1>4 DEF Tidy

\* A write that fails is in doubt, and not counted.
LEMMA SoundFail ==
  ASSUME TornTails = {}, Sound, NEW t \in Task, NEW v \in Data, Fail(t, v)
  PROVE  Tidy' /\ CacheIsOnDisk' /\ Exact'
  <1>1. ~open' /\ (log' = log \/ log' = Append(log, Line(t, v)))
    BY CutWhole DEF Fail, Sound
  <1>2. /\ log' \in Seq(WholeLine)
        /\ \A u \in Task : Latest(log', u) = Latest(log, u) \/ (u = t /\ Latest(log', u) = v)
    <2>1. CASE log' = log BY <2>1 DEF Sound, Tidy
    <2>2. CASE log' = Append(log, Line(t, v)) BY <2>2, AppendWhole DEF Sound, Tidy
    <2> QED BY <1>1, <2>1, <2>2
  <1>3. CacheIsOnDisk'
    <2>1. ASSUME NEW u \in Task PROVE Latest(log', u) \in {cache'[u]} \cup doubt'[u]
      <3>1. Latest(log, u) \in {cache[u]} \cup doubt[u] BY DEF Sound, CacheIsOnDisk
      <3>2. cache' = cache /\ doubt'[u] = doubt[u] \cup IF u = t THEN {v} ELSE {}
        BY DEF Fail, Sound, Shape, TypeOK
      <3> QED BY <1>2, <3>1, <3>2
    <2> QED BY <2>1 DEF CacheIsOnDisk
  <1>4. Exact'
    <2>1. /\ Cardinality(Live(log)) \in Nat /\ Cardinality(Dead(log)) \in Nat
          /\ Cardinality(Live(log')) \in Nat /\ Cardinality(Dead(log')) \in Nat
      BY <1>2, LiveAndDead DEF Sound, Tidy
    <2>2. /\ Cardinality(Live(log')) >= Cardinality(Live(log))
          /\ Cardinality(Dead(log')) >= Cardinality(Dead(log))
      <3>1. CASE log' = log BY <2>1, <3>1
      <3>2. CASE log' = Append(log, Line(t, v)) BY <2>1, <3>2, AppendCounts
      <3> QED BY <1>1, <3>1, <3>2
    <2>3. total \in Nat /\ deleted \in Nat /\ appended \in Nat /\ failures \in Nat
      BY DEF Sound, Shape, TypeOK
    <2>4. failures' = failures + 1 /\ UNCHANGED <<total, deleted, appended>>
      BY DEF Fail, counters
    <2> QED BY <2>1, <2>2, <2>3, <2>4 DEF Sound, Exact
  <1> QED BY <1>1, <1>2, <1>3, <1>4 DEF Tidy

\* An empty log is sound.
LEMMA SoundInit == Init => Sound
  <1> SUFFICES ASSUME Init PROVE Sound OBVIOUS
  <1>1. log \in Seq(WholeLine) /\ Len(log) = 0 /\ ~open BY EmptySeq DEF Init
  <1> DEFINE n == Len(log)
  <1>0. 1..n = {}
    <2>1. n = 0 BY <1>1
    <2> HIDE DEF n
    <2> QED BY <2>1
  <1>2. \A t : About(log, t) = {}
    <2>1. \A t : About(log, t) = {i \in 1..n : log[i].id = t} BY <1>1, WholeLines
    <2> QED BY <1>0, <2>1
  <1>3. Live(log) = {} /\ Dead(log) = {}
    <2>1. /\ Live(log) = {i \in 1..n : log[i].val # None}
          /\ Dead(log) = {i \in 1..n : log[i].val = None}
      BY <1>1, WholeLines
    <2> QED BY <1>0, <2>1
  <1>4. Cardinality(Live(log)) = 0 BY <1>3, FS_EmptySet
  <1>5. Cardinality(Dead(log)) = 0 BY <1>3, FS_EmptySet
  <1>6. Exact BY <1>4, <1>5 DEF Init, Exact
  <1>7. CacheIsOnDisk BY <1>2 DEF Latest, CacheIsOnDisk, Init
  <1> QED BY <1>1, <1>6, <1>7, ShapeInit DEF Sound, Tidy

\* A restart reads the log and counts its lines.
LEMMA SoundCrash ==
  ASSUME TornTails = {}, Sound, Crash
  PROVE  Tidy' /\ CacheIsOnDisk' /\ Exact'
  <1>1. ~open' /\ log' \in Seq(WholeLine)
    <2>1. CASE UNCHANGED <<log, open>> BY <2>1 DEF Sound, Tidy
    <2>2. ASSUME NEW t \in Task, NEW v \in Data, Cut(t, v)
          PROVE  ~open' /\ log' \in Seq(WholeLine)
      <3>1. ~open' /\ (log' = log \/ log' = Append(log, Line(t, v)))
        BY <2>2, CutWhole DEF Sound
      <3>2. CASE log' = log BY <3>1, <3>2 DEF Sound, Tidy
      <3>3. CASE log' = Append(log, Line(t, v)) BY <3>1, <3>3, AppendWhole DEF Sound, Tidy
      <3> QED BY <3>1, <3>2, <3>3
    <2> QED BY <2>1, <2>2 DEF Crash
  <1>2. CacheIsOnDisk' BY DEF Crash, Replay, CacheIsOnDisk
  <1>3. Cardinality(Live(log')) \in Nat /\ Cardinality(Dead(log')) \in Nat
    BY <1>1, LiveAndDead
  <1>4. /\ total' = Cardinality(Live(log')) /\ deleted' = Cardinality(Dead(log'))
        /\ appended' = total' + deleted'
    BY DEF Crash
  <1>5. Exact' BY <1>3, <1>4 DEF Exact
  <1> QED BY <1>1, <1>2, <1>5 DEF Tidy

\* A compaction leaves the log and the cache it made of it in agreement.
LEMMA SoundRewrite ==
  ASSUME Sound, CompactRewrite
  PROVE  Tidy' /\ CacheIsOnDisk' /\ Exact'
  <1>1. PICK back, n : Compacted(back, n) BY Rewriting DEF Sound
  <1>2. /\ n \in Nat /\ log' \in Seq(WholeLine)
        /\ \A t \in Task : Latest(log', t) = cache'[t]
        /\ Cardinality(Live(log')) = n /\ Cardinality(Dead(log')) = 0
    BY <1>1, RewrittenIs DEF Sound
  <1>3. total' = n /\ deleted' = 0 /\ appended' = 0 BY <1>1 DEF Compacted
  <1>4. ~open' BY DEF CompactRewrite
  <1>5. CacheIsOnDisk' BY <1>2 DEF CacheIsOnDisk
  <1>6. Exact' BY <1>2, <1>3 DEF Exact
  <1> QED BY <1>2, <1>4, <1>5, <1>6 DEF Tidy

\* Steps that leave the log and its cache alone; a failure may only be added.
LEMMA SoundSame ==
  ASSUME Sound, UNCHANGED <<log, open, cache, total, deleted, appended, doubt>>,
         failures' = failures \/ failures' = failures + 1
  PROVE  Tidy' /\ CacheIsOnDisk' /\ Exact'
  <1>1. Tidy' BY DEF Sound, Tidy
  <1>2. CacheIsOnDisk' BY DEF Sound, CacheIsOnDisk
  <1>3. failures \in Nat BY DEF Sound, Shape, TypeOK
  <1>4. failures' = 0 => failures = 0 BY <1>3
  <1>5. Live(log') = Live(log) /\ Dead(log') = Dead(log) OBVIOUS
  <1>6. Exact' BY <1>4, <1>5 DEF Sound, Exact
  <1> QED BY <1>1, <1>2, <1>6

\* Every step keeps the log sound.
LEMMA SoundNext == TornTails = {} /\ Sound /\ [Next]_vars => Sound'
  <1> SUFFICES ASSUME TornTails = {}, Sound, [Next]_vars
               PROVE  Sound'
    OBVIOUS
  <1>0. Shape' BY ShapeNext DEF Sound
  <1> SUFFICES Tidy' /\ CacheIsOnDisk' /\ Exact' BY <1>0 DEF Sound
  <1>1. CASE UNCHANGED vars BY <1>1, SoundSame DEF vars, counters, history
  <1>2. ASSUME NEW t \in Task, NEW v \in Val, Save(t, v)
        PROVE  Tidy' /\ CacheIsOnDisk' /\ Exact'
    <2>1. v \in Data BY DEF Data
    <2>2. Store(t, v) \/ Fail(t, v) BY <1>2 DEF Save
    <2> QED BY <2>1, <2>2, SoundStore, SoundFail
  <1>3. ASSUME NEW t \in Task, DeleteRead(t)
        PROVE  Tidy' /\ CacheIsOnDisk' /\ Exact'
    BY <1>3, SoundSame DEF DeleteRead, counters, history
  <1>4. ASSUME NEW t \in Task, DeleteWrite(t)
        PROVE  Tidy' /\ CacheIsOnDisk' /\ Exact'
    <2>1. None \in Data BY DEF Data
    <2>2. Store(t, None) \/ Fail(t, None) BY <1>4 DEF DeleteWrite
    <2> QED BY <2>1, <2>2, SoundStore, SoundFail
  <1>5. CASE CompactBegin BY <1>5, SoundSame DEF CompactBegin, counters, history
  <1>6. CASE CompactRewrite BY <1>6, SoundRewrite
  <1>7. CASE CompactFails BY <1>7, SoundSame DEF CompactFails, counters, history
  <1>8. CASE CompactEnd BY <1>8, SoundSame DEF CompactEnd, counters, history
  <1>9. CASE Crash BY <1>9, SoundCrash
  <1> QED BY <1>1, <1>2, <1>3, <1>4, <1>5, <1>6, <1>7, <1>8, <1>9 DEF Next

\* If a write lands whole or not at all, a restart reads from the log what was acknowledged,
\* or what failed writes of the same task left, wherever saves, deletes, compactions and
\* deaths meet, and also when the clock steps back (file_store.rs:36-73, 86-131, 212-283).
THEOREM LogKeeps ==
  ASSUME TornTails = {}
  PROVE  Spec => []CacheIsOnDisk
  <1>1. Sound => CacheIsOnDisk BY DEF Sound
  <1>2. Sound /\ [Next]_vars => Sound' BY SoundNext
  <1> QED BY <1>1, <1>2, SoundInit, PTL DEF Spec

\* Under the same assumption the counters of should_compact are those of the log, less the
\* failed writes, so that its ratio of deletes is a ratio (file_store.rs:64-70, 192-210).
THEOREM CountersAreExact ==
  ASSUME TornTails = {}
  PROVE  Spec => []CountersExact
  <1>1. Sound => CountersExact
    <2> SUFFICES ASSUME Sound PROVE CountersExact OBVIOUS
    <2>1. Cardinality(Live(log)) + Cardinality(Dead(log)) = Len(log)
      BY LiveAndDead DEF Sound, Tidy
    <2>2. failures = 0 => total + deleted = Len(log) BY <2>1 DEF Sound, Exact
    <2> QED BY <2>2 DEF Sound, Exact, CountersExact
  <1>2. Sound /\ [Next]_vars => Sound' BY SoundNext
  <1> QED BY <1>1, <1>2, SoundInit, PTL DEF Spec

----------------------------------------------------------------------------
(* The log implements the map. *)

\* When the clock does not step back, compaction keeps the latest record of every task.
LEMMA KeptIsLatest ==
  ASSUME NEW lines \in Seq(WholeLine), NEW t
  PROVE  Kept(lines, t, 1) = Latest(lines, t)
  <1> DEFINE all == SinceTombstone(lines, t)
             early == {i \in all : i < 1}
  <1>1. /\ lines \in Seq(AnyLine) /\ Len(lines) \in Nat /\ DOMAIN lines = 1..Len(lines)
        /\ About(lines, t) \subseteq 1..Len(lines)
    BY WholeLines
  <1>2. all \subseteq About(lines, t) BY DEF SinceTombstone
  <1>3. early = {} BY <1>1, <1>2
  <1>4. Kept(lines, t, 1) = IF all = {} THEN None
                            ELSE lines[CHOOSE i \in all : \A j \in all : j <= i].val
    BY <1>3 DEF Kept
  <1>5. CASE About(lines, t) = {}
    <2>1. all = {} BY <1>2, <1>5
    <2> QED BY <1>4, <1>5, <2>1 DEF Latest
  <1>6. CASE About(lines, t) # {}
    <2>1. PICK m \in About(lines, t) : \A j \in About(lines, t) : j <= m
      BY <1>1, <1>6, LastChosen
    <2>2. Latest(lines, t) = lines[m].val BY <1>1, <2>1, LatestIs
    <2>3. CASE lines[m].val = None
      <3>1. all = {} BY <2>1, <2>3 DEF SinceTombstone
      <3> QED BY <1>4, <2>2, <2>3, <3>1
    <2>4. CASE lines[m].val # None
      <3>1. m \in all
        <4>1. \A j \in About(lines, t) : j >= m => j = m BY <1>1, <2>1
        <4> QED BY <2>1, <2>4, <4>1 DEF SinceTombstone
      <3> DEFINE k == CHOOSE i \in all : \A j \in all : j <= i
      <3>2. \A j \in all : j <= m BY <1>2, <2>1
      <3>3. k \in all /\ \A j \in all : j <= k BY <3>1, <3>2
      <3>4. Kept(lines, t, 1) = lines[k].val BY <1>4, <3>1
      <3> HIDE DEF k
      <3>5. m \in Int /\ k \in Int /\ m <= k /\ k <= m BY <1>1, <1>2, <3>1, <3>2, <3>3
      <3>6. m = k BY <3>5
      <3> QED BY <2>2, <3>4, <3>6
    <2> QED BY <2>3, <2>4
  <1> QED BY <1>5, <1>6

\* An empty log is an empty map.
LEMMA MapInit == Init => TS!Init
  BY DEF Init, TS!Init, NoDoubt, TS!NoDoubt

\* A save or a delete is acknowledged, or it is refused.
LEMMA MapWrite ==
  ASSUME Sound, NEW t \in Task, NEW v \in Data, Store(t, v) \/ Fail(t, v)
  PROVE  TS!Next
  <1>1. CASE Store(t, v)
    <2>1. TS!Acknowledged(t, v) BY <1>1 DEF Store, TS!Acknowledged
    <2> QED BY <2>1 DEF TS!Next, Data
  <1>2. CASE Fail(t, v)
    <2>1. TS!Refused(t, v) BY <1>2 DEF Fail, TS!Refused
    <2> QED BY <2>1 DEF TS!Next, Data
  <1> QED BY <1>1, <1>2

\* A compaction settles what failed writes left in doubt, as a restart does.
LEMMA MapRewrite ==
  ASSUME ~ClockSteps, Sound, Sound', CompactRewrite
  PROVE  TS!Next
  <1>1. PICK back, n : Compacted(back, n) /\ (~ClockSteps => back = 1)
    BY Rewriting DEF Sound
  <1>2. \A t \in Task : cache'[t] = Latest(log, t)
    <2>1. \A t \in Task : cache'[t] = Kept(log, t, 1) BY <1>1 DEF Compacted
    <2>2. \A t \in Task : Kept(log, t, 1) = Latest(log, t)
      BY KeptIsLatest DEF Sound, Tidy
    <2> QED BY <2>1, <2>2
  <1>3. \A t \in Task : cache'[t] \in {cache[t]} \cup doubt[t]
    BY <1>2 DEF Sound, CacheIsOnDisk
  <1>4. cache' \in [Task -> Val \cup {None}] BY DEF Sound, Shape, TypeOK, Data
  <1>5. doubt' = TS!NoDoubt /\ UNCHANGED call BY DEF CompactRewrite, NoDoubt, TS!NoDoubt
  <1>6. TS!Settle(doubt) BY <1>3, <1>4, <1>5 DEF TS!Settle
  <1> QED BY <1>5, <1>6 DEF TS!Next

\* A restart settles what is in doubt, the write it cut off included.
LEMMA MapCrash ==
  ASSUME TornTails = {}, Sound, Sound', Crash
  PROVE  TS!Next
  <1>1. cache' \in [Task -> Val \cup {None}] BY DEF Sound, Shape, TypeOK, Data
  <1>2. \A t \in Task : cache'[t] = Latest(log', t) BY DEF Crash, Replay
  <1>3. doubt' = TS!NoDoubt BY DEF Crash, NoDoubt, TS!NoDoubt
  <1>4. \A t \in Task : Latest(log, t) \in {cache[t]} \cup doubt[t]
    BY DEF Sound, CacheIsOnDisk
  <1>5. CASE UNCHANGED <<log, open, call>>
    <2>1. log' = log BY <1>5
    <2>2. \A t \in Task : cache'[t] \in {cache[t]} \cup doubt[t] BY <1>2, <1>4, <2>1
    <2>3. TS!Settle(doubt) BY <1>1, <1>3, <2>2 DEF TS!Settle
    <2> QED BY <1>5, <2>3 DEF TS!Next
  <1>6. ASSUME NEW t \in Task, NEW v \in Data, Cut(t, v),
               call' = [id |-> t, val |-> v, result |-> "crash"]
        PROVE  TS!Next
    <2>1. log' = log \/ log' = Append(log, Line(t, v)) BY <1>6, CutWhole DEF Sound
    <2>2. \A u \in Task : Latest(log', u) = Latest(log, u) \/ (u = t /\ Latest(log', u) = v)
      <3>1. CASE log' = log BY <3>1
      <3>2. CASE log' = Append(log, Line(t, v)) BY <3>2, AppendWhole DEF Sound, Tidy
      <3> QED BY <2>1, <3>1, <3>2
    <2> DEFINE doubts == [doubt EXCEPT ![t] = @ \cup {v}]
    <2>3. \A u \in Task : doubts[u] = doubt[u] \cup IF u = t THEN {v} ELSE {}
      BY DEF Sound, Shape, TypeOK
    <2> HIDE DEF doubts
    <2>4. \A u \in Task : cache'[u] \in {cache[u]} \cup doubts[u]
      BY <1>2, <1>4, <2>2, <2>3
    <2>5. TS!Settle(doubts) BY <1>1, <1>3, <2>4 DEF TS!Settle
    <2>6. TS!CutOff(t, v) BY <1>6, <2>5 DEF TS!CutOff, doubts
    <2> QED BY <2>6 DEF TS!Next, Data
  <1> QED BY <1>5, <1>6 DEF Crash

\* Every step of the log is one of the map or leaves it alone.
LEMMA MapNext ==
  TornTails = {} /\ ~ClockSteps /\ Sound /\ Sound' /\ [Next]_vars
    => [TS!Next]_<<cache, doubt, call>>
  <1> SUFFICES ASSUME TornTails = {}, ~ClockSteps, Sound, Sound', [Next]_vars
               PROVE  TS!Next \/ UNCHANGED <<cache, doubt, call>>
    OBVIOUS
  <1>1. CASE UNCHANGED vars BY <1>1 DEF vars, history
  <1>2. ASSUME NEW t \in Task, NEW v \in Val, Save(t, v) PROVE TS!Next
    <2>1. v \in Data BY DEF Data
    <2>2. Store(t, v) \/ Fail(t, v) BY <1>2 DEF Save
    <2> QED BY <2>1, <2>2, MapWrite
  <1>3. ASSUME NEW t \in Task, DeleteRead(t) PROVE UNCHANGED <<cache, doubt, call>>
    BY <1>3 DEF DeleteRead, history
  <1>4. ASSUME NEW t \in Task, DeleteWrite(t) PROVE TS!Next
    <2>1. None \in Data BY DEF Data
    <2>2. Store(t, None) \/ Fail(t, None) BY <1>4 DEF DeleteWrite
    <2> QED BY <2>1, <2>2, MapWrite
  <1>5. CASE CompactBegin BY <1>5 DEF CompactBegin, history
  <1>6. CASE CompactRewrite BY <1>6, MapRewrite
  <1>7. CASE CompactFails BY <1>7 DEF CompactFails, history
  <1>8. CASE CompactEnd BY <1>8 DEF CompactEnd, history
  <1>9. CASE Crash BY <1>9, MapCrash
  <1> QED BY <1>1, <1>2, <1>3, <1>4, <1>5, <1>6, <1>7, <1>8, <1>9 DEF Next

\* If writes land whole or not at all and the clock does not step back during a compaction,
\* the log, its cache and its compactions are the map that the engine takes them for, over
\* failed writes, deletes that race and restarts (file_store.rs:86-131, 172-190, 212-283).
THEOREM StoreImplemented ==
  ASSUME TornTails = {}, ~ClockSteps
  PROVE  Spec => ImplementsTaskStore
  <1>1. Sound /\ [Next]_vars => Sound' BY SoundNext
  <1>2. Sound /\ Sound' /\ [Next]_vars => [TS!Next]_<<cache, doubt, call>> BY MapNext
  <1> QED BY <1>1, <1>2, SoundInit, MapInit, PTL DEF Spec, ImplementsTaskStore, TS!Spec
=============================================================================
