------------------------- MODULE RateLimiterProofs -------------------------
(***************************************************************************)
(* Theorems about RateLimiter for every number of callers and groups, any  *)
(* limits, and any length of the window.                                   *)
(***************************************************************************)
EXTENDS RateLimiter, Functions, FiniteSetTheorems, TLAPS

USE LimitAssumption, WindowAssumption, BoundAssumption, NoneAssumption

----------------------------------------------------------------------------
(* The inductive invariant. *)

\* The file lock.
Alone == \A c, e \in Caller : pc[c] # "idle" /\ pc[e] # "idle" => c = e

\* A grant was given after its window had begun, in an epoch that has begun.
GrantSound(x) ==
  x.start <= x.at /\ x.at <= clock /\ x.epoch <= lost /\ x.n \in 1..Limit[x.group]

\* x and y are of different windows, and that of x was over when that of y began.
Earlier(x, y) ==
  \/ x.epoch < y.epoch /\ x.at <= y.start
  \/ x.epoch = y.epoch /\ x.at <= y.start /\ x.start + Window <= y.start

SameWindow(x, y) == x.epoch = y.epoch /\ x.start = y.start

\* The grants of one group are in sequence.
Sequence ==
  /\ \A x \in grants : GrantSound(x)
  /\ \A x, y \in grants : x.group = y.group =>
       Earlier(x, y) \/ Earlier(y, x) \/ (SameWindow(x, y) /\ (x.n = y.n => x = y))

\* The windows w, in use since the epoch e began, come after all the grants.
Tells(w, e) ==
  \A g \in Group :
    /\ w[g] # None => w[g].start <= clock
    /\ \A x \in grants : x.group = g =>
         IF w[g] = None THEN x.epoch < e
         ELSE \/ x.epoch < e /\ x.at <= w[g].start
              \/ x.epoch = e /\ x.at <= w[g].start /\ x.start + Window <= w[g].start
              \/ x.epoch = e /\ x.start = w[g].start /\ x.n <= w[g].count

\* The count an answer will use is new, and within the limit.
CountNew(f, e) ==
  f.allow =>
    /\ f.windows[f.group] # None
    /\ f.windows[f.group].count \in 1..Limit[f.group]
    /\ \A x \in grants :
         (x.group = f.group /\ x.epoch = e /\ x.start = f.windows[f.group].start)
           => x.n < f.windows[f.group].count

EpochOf(c) == IF pc[c] = "truncate" /\ draft[c].blank THEN lost + 1 ELSE lost

CallSound(c) ==
  /\ pc[c] # "idle" => Tells(draft[c].windows, EpochOf(c)) /\ CountNew(draft[c], EpochOf(c))
  /\ pc[c] = "write" => disk = NoWindows
  /\ pc[c] = "unlock" => disk = draft[c].windows

Inv ==
  /\ Alone /\ Sequence
  /\ (\A c \in Caller : pc[c] # "write") => Tells(disk, lost)
  /\ \A c \in Caller : CallSound(c)

----------------------------------------------------------------------------
(* Types. *)

\* The drafts of calls for group g.
DraftsOf(g, blank) ==
  {f \in Draft : f.group = g /\ f.blank = blank /\ f.windows[g] \in RateWindow}

\* What a call decides on can be written, and has a window for its group.
LEMMA DecideTypes ==
  ASSUME NEW windows \in Windows, NEW g \in Group, NEW now \in Nat, NEW blank \in BOOLEAN
  PROVE  Decide(windows, g, now, blank) \in DraftsOf(g, blank)
  <1> DEFINE f == Decide(windows, g, now, blank)
             w == Current(windows[g], now)
             u == IF f.allow THEN [count |-> w.count + 1, start |-> w.start] ELSE w
  <1>1. w \in RateWindow BY DEF Current, Windows, RateWindow
  <1>2. u \in RateWindow BY <1>1 DEF RateWindow
  <1> HIDE DEF w
  <1>3. f = [group |-> g, allow |-> w.count < Limit[g], blank |-> blank,
             windows |-> [windows EXCEPT ![g] = u]]
    BY DEF Decide, w
  <1> HIDE DEF f
  <1>4. (w.count < Limit[g]) \in BOOLEAN OBVIOUS
  <1> HIDE DEF u
  <1>5. [windows EXCEPT ![g] = u] \in Windows /\ [windows EXCEPT ![g] = u][g] = u
    BY <1>2 DEF Windows
  <1>6. f \in Draft BY <1>3, <1>4, <1>5 DEF Draft
  <1>7. f.group = g /\ f.blank = blank /\ f.windows[g] = u BY <1>3, <1>5
  <1> QED BY <1>2, <1>6, <1>7 DEF f, DraftsOf

\* TypeOK is inductive.
LEMMA StepTypes == TypeOK /\ [Next]_vars => TypeOK'
  <1> SUFFICES ASSUME TypeOK, [Next]_vars PROVE TypeOK' OBVIOUS
  <1>1. ASSUME NEW c \in Caller, NEW g \in Group, Enter(c, g) PROVE TypeOK'
    <2> DEFINE read == Decide(disk, g, clock, FALSE)
               none == Decide(NoWindows, g, clock, TRUE)
    <2>1. disk \in Windows /\ NoWindows \in Windows /\ clock \in Nat
      BY DEF TypeOK, NoWindows, Windows
    <2>2. read \in DraftsOf(g, FALSE)
      BY <2>1, DecideTypes
    <2>3. none \in DraftsOf(g, TRUE)
      BY <2>1, DecideTypes
    <2>4. \/ draft' = [draft EXCEPT ![c] = read]
          \/ draft' = [draft EXCEPT ![c] = none]
      BY <1>1 DEF Enter
    <2> HIDE DEF read, none
    <2>5. PICK f \in Draft : /\ draft' = [draft EXCEPT ![c] = f]
                             /\ f.windows[f.group] # None
      BY <2>2, <2>3, <2>4 DEF DraftsOf
    <2> QED BY <1>1, <2>5 DEF TypeOK, Enter
  <1>2. ASSUME NEW c \in Caller, Truncate(c) PROVE TypeOK'
    BY <1>2 DEF TypeOK, Truncate, NoWindows, Windows
  <1>3. ASSUME NEW c \in Caller, Write(c) PROVE TypeOK'
    <2>1. draft[c].windows \in Windows BY <1>3 DEF TypeOK, Write, Draft
    <2> QED BY <1>3, <2>1 DEF TypeOK, Write
  <1>4. ASSUME NEW c \in Caller, Answer(c) PROVE TypeOK'
    <2> DEFINE g == draft[c].group
               w == draft[c].windows[g]
               x == [id |-> calls, group |-> g, epoch |-> lost, start |-> w.start,
                     n |-> w.count, at |-> clock]
    <2>1. draft[c] \in Draft /\ w # None BY <1>4 DEF TypeOK, Answer
    <2>2. g \in Group /\ w \in RateWindow BY <2>1 DEF Draft, Windows
    <2>3. x \in Grant BY <2>2 DEF TypeOK, Grant, RateWindow
    <2>4. grants' \subseteq grants \cup {x} BY <1>4 DEF Answer
    <2> HIDE DEF x
    <2> QED BY <1>4, <2>3, <2>4 DEF TypeOK, Answer, Leave
  <1>5. ASSUME NEW c \in Caller, Stop(c) \/ StopShort(c) PROVE TypeOK'
    BY <1>5 DEF TypeOK, Stop, StopShort, Leave
  <1>6. CASE Tick BY <1>6 DEF TypeOK, Tick
  <1>7. CASE UNCHANGED vars BY <1>7 DEF TypeOK, vars
  <1> QED BY <1>1, <1>2, <1>3, <1>4, <1>5, <1>6, <1>7 DEF Next

\* Every variable always has its type, whatever calls fail or die.
THEOREM TypeCorrect == Spec => []TypeOK
  <1>1. Init => TypeOK BY DEF Init, TypeOK, NoWindows, Windows
  <1> QED BY <1>1, StepTypes, PTL DEF Spec

----------------------------------------------------------------------------
(* The invariant. *)

\* What a call decides on comes after all the grants, and its count is new.
LEMMA DecideSound ==
  ASSUME TypeOK, \A x \in grants : GrantSound(x),
         NEW windows \in Windows, NEW g \in Group, NEW blank \in BOOLEAN,
         NEW e \in Nat, Tells(windows, e),
         NEW f, f = Decide(windows, g, clock, blank)
  PROVE  Tells(f.windows, e) /\ CountNew(f, e)
  <1> DEFINE v == windows[g]
             w == Current(v, clock)
             u == f.windows[g]
  <1>0. Decide(windows, g, clock, blank) \in DraftsOf(g, blank)
    BY DecideTypes DEF TypeOK
  <1>1. /\ f \in Draft /\ f.group = g /\ u \in RateWindow /\ v \in RateWindow \cup {None}
        /\ w \in RateWindow
    BY <1>0 DEF DraftsOf, TypeOK, Windows, Current, RateWindow
  <1>2. /\ f.allow <=> w.count < Limit[g]
        /\ f.windows = [windows EXCEPT
             ![g] = IF f.allow THEN [count |-> w.count + 1, start |-> w.start] ELSE w]
    BY DEF Decide
  <1>3. /\ u = IF f.allow THEN [count |-> w.count + 1, start |-> w.start] ELSE w
        /\ \A h \in Group \ {g} : f.windows[h] = windows[h]
    BY <1>2 DEF Windows
  <1>4. u.start = w.start /\ u.count = IF f.allow THEN w.count + 1 ELSE w.count
    BY <1>1, <1>3 DEF RateWindow
  <1>5. w.start <= clock /\ w.count \in Nat /\ w.start \in Nat
    BY <1>1 DEF Tells, Current, TypeOK, RateWindow
  <1>6. ASSUME NEW x \in grants, x.group = g
        PROVE  \/ x.epoch < e /\ x.at <= w.start
               \/ x.epoch = e /\ x.at <= w.start /\ x.start + Window <= w.start
               \/ x.epoch = e /\ x.start = w.start /\ x.n <= w.count
    <2>1. x \in Grant /\ x.at <= clock BY DEF TypeOK, GrantSound
    <2>2. CASE v = None
      BY <1>6, <2>1, <2>2 DEF Tells, Current, Grant, TypeOK
    <2>3. CASE v # None /\ clock - v.start >= Window
      <3>1. w.start = clock BY <2>3 DEF Current
      <3>2. v.start \in Nat /\ v.start + Window <= clock
        BY <1>1, <2>3 DEF RateWindow, TypeOK
      <3> QED BY <1>6, <2>1, <2>3, <3>1, <3>2 DEF Tells, Grant, TypeOK
    <2>4. CASE v # None /\ ~(clock - v.start >= Window)
      BY <1>6, <2>4 DEF Tells, Current
    <2> QED BY <2>2, <2>3, <2>4
  <1> HIDE DEF w
  <1>7. ASSUME NEW h \in Group
        PROVE  /\ f.windows[h] # None => f.windows[h].start <= clock
               /\ \A x \in grants : x.group = h =>
                    IF f.windows[h] = None THEN x.epoch < e
                    ELSE \/ x.epoch < e /\ x.at <= f.windows[h].start
                         \/ /\ x.epoch = e /\ x.at <= f.windows[h].start
                            /\ x.start + Window <= f.windows[h].start
                         \/ /\ x.epoch = e /\ x.start = f.windows[h].start
                            /\ x.n <= f.windows[h].count
    <2>1. CASE h # g BY <1>3, <2>1 DEF Tells
    <2>2. CASE h = g
      <3>1. \A x \in grants : x.n \in Int BY DEF TypeOK, Grant
      <3> QED BY <1>1, <1>4, <1>5, <1>6, <2>2, <3>1
    <2> QED BY <2>1, <2>2
  <1>8. CountNew(f, e)
    <2>1. Limit[g] \in Nat /\ \A x \in grants : x.n \in Nat /\ x.start \in Nat /\ x.at \in Nat
      BY DEF TypeOK, Grant
    <2>2. ASSUME f.allow PROVE w.count + 1 \in 1..Limit[g]
      BY <1>2, <1>5, <2>1, <2>2
    <2> QED BY <1>1, <1>4, <1>5, <1>6, <2>1, <2>2 DEF CountNew
  <1> QED BY <1>7, <1>8 DEF Tells
----------------------------------------------------------------------------
\* The windows of an empty file, from the next epoch on.
LEMMA BlankTells ==
  ASSUME TypeOK, Sequence PROVE Tells(NoWindows, lost + 1)
  BY DEF TypeOK, Sequence, GrantSound, Tells, NoWindows, Grant

\* A call that is not over is alone, and waits for nothing.
LEMMA OthersIdle ==
  ASSUME Alone, NEW c \in Caller, pc[c] # "idle"
  PROVE  \A d \in Caller \ {c} : pc[d] = "idle"
  BY DEF Alone

\* A call that takes the lock and decides keeps the invariant.
LEMMA EnterInv ==
  ASSUME TypeOK, Inv, NEW c \in Caller, NEW g \in Group, Enter(c, g)
  PROVE  Inv'
  <1> DEFINE read == Decide(disk, g, clock, FALSE)
             none == Decide(NoWindows, g, clock, TRUE)
  <1>1. /\ \A d \in Caller : pc[d] = "idle"
        /\ pc' = [pc EXCEPT ![c] = "truncate"]
        /\ draft' = [draft EXCEPT ![c] = read] \/ draft' = [draft EXCEPT ![c] = none]
        /\ UNCHANGED <<clock, disk, lost, grants>>
    BY DEF Enter, LockFree
  <1>2. /\ pc'[c] = "truncate" /\ \A d \in Caller \ {c} : pc'[d] = "idle"
        /\ draft'[c] = read \/ draft'[c] = none
    BY <1>1 DEF TypeOK
  <1>3. Tells(disk, lost) BY <1>1 DEF Inv
  <1>4. /\ disk \in Windows /\ NoWindows \in Windows
        /\ clock \in Nat /\ lost \in Nat /\ lost + 1 \in Nat
    BY DEF TypeOK, Windows, NoWindows
  <1>5. /\ read \in DraftsOf(g, FALSE) /\ none \in DraftsOf(g, TRUE)
    BY <1>4, DecideTypes
  <1>6. \A x \in grants : GrantSound(x) BY DEF Inv, Sequence
  <1>7. Tells(read.windows, lost) /\ CountNew(read, lost)
    BY <1>3, <1>4, <1>6, DecideSound
  <1>8. Tells(none.windows, lost + 1) /\ CountNew(none, lost + 1)
    <2>1. Tells(NoWindows, lost + 1) BY BlankTells DEF Inv
    <2> QED BY <2>1, <1>4, <1>6, DecideSound
  <1>9. read.blank = FALSE /\ none.blank = TRUE BY <1>5 DEF DraftsOf
  <1> HIDE DEF read, none
  <1>10. /\ Tells(draft'[c].windows, EpochOf(c)') /\ CountNew(draft'[c], EpochOf(c)')
    BY <1>2, <1>7, <1>8, <1>9, <1>1 DEF EpochOf
  <1>11. (Tells(draft[c].windows, EpochOf(c)) /\ CountNew(draft[c], EpochOf(c)))'
    BY <1>1, <1>10 DEF Tells, CountNew
  <1>12. \A d \in Caller : CallSound(d)' BY <1>2, <1>11 DEF CallSound
  <1>13. Alone' BY <1>2 DEF Alone
  <1>14. Sequence' BY <1>1 DEF Inv, Sequence, GrantSound, Earlier, SameWindow
  <1>15. Tells(disk, lost)' BY <1>1, <1>3 DEF Tells
  <1> QED BY <1>12, <1>13, <1>14, <1>15 DEF Inv

\* So does the truncation of the file,
LEMMA TruncateInv ==
  ASSUME TypeOK, Inv, NEW c \in Caller, Truncate(c)
  PROVE  Inv'
  <1>1. /\ pc[c] = "truncate" /\ pc' = [pc EXCEPT ![c] = "write"]
        /\ disk' = NoWindows /\ lost' = EpochOf(c)
        /\ UNCHANGED <<clock, draft, grants>>
    BY DEF Truncate, EpochOf
  <1>2. \A d \in Caller \ {c} : pc[d] = "idle" BY <1>1, OthersIdle DEF Inv
  <1>3. pc'[c] = "write" /\ \A d \in Caller \ {c} : pc'[d] = "idle"
    BY <1>1, <1>2 DEF TypeOK
  <1>4. Tells(draft[c].windows, EpochOf(c)) /\ CountNew(draft[c], EpochOf(c))
    BY <1>1 DEF Inv, CallSound
  <1>5. EpochOf(c)' = EpochOf(c) BY <1>1, <1>3 DEF EpochOf
  <1>6. (Tells(draft[c].windows, EpochOf(c)) /\ CountNew(draft[c], EpochOf(c)))'
    BY <1>1, <1>4, <1>5 DEF Tells, CountNew
  <1>7. (NoWindows)' = NoWindows BY DEF NoWindows
  <1>8. \A d \in Caller : CallSound(d)' BY <1>1, <1>3, <1>6, <1>7 DEF CallSound
  <1>9. Alone' BY <1>3 DEF Alone
  <1>10. lost \in Nat /\ (lost' = lost \/ lost' = lost + 1)
    BY <1>1 DEF TypeOK, EpochOf
  <1>11. Sequence'
    <2>1. \A x \in grants : GrantSound(x)'
      BY <1>1, <1>10 DEF Inv, Sequence, GrantSound, TypeOK, Grant
    <2> QED BY <1>1, <2>1 DEF Inv, Sequence, Earlier, SameWindow
  <1> QED BY <1>3, <1>8, <1>9, <1>11 DEF Inv

\* the writing of the window,
LEMMA WriteInv ==
  ASSUME TypeOK, Inv, NEW c \in Caller, Write(c)
  PROVE  Inv'
  <1>1. /\ pc[c] = "write" /\ pc' = [pc EXCEPT ![c] = "unlock"]
        /\ disk' = draft[c].windows
        /\ UNCHANGED <<clock, draft, lost, grants>>
    BY DEF Write
  <1>2. \A d \in Caller \ {c} : pc[d] = "idle" BY <1>1, OthersIdle DEF Inv
  <1>3. pc'[c] = "unlock" /\ \A d \in Caller \ {c} : pc'[d] = "idle"
    BY <1>1, <1>2 DEF TypeOK
  <1>4. EpochOf(c) = lost /\ EpochOf(c)' = lost BY <1>1, <1>3 DEF EpochOf
  <1>5. Tells(draft[c].windows, lost) /\ CountNew(draft[c], lost)
    BY <1>1, <1>4 DEF Inv, CallSound
  <1>6. (Tells(draft[c].windows, lost) /\ CountNew(draft[c], lost))'
    BY <1>1, <1>5 DEF Tells, CountNew
  <1>7. \A d \in Caller : CallSound(d)'
    BY <1>1, <1>3, <1>4, <1>6 DEF CallSound
  <1>8. Alone' BY <1>3 DEF Alone
  <1>9. Sequence' BY <1>1 DEF Inv, Sequence, GrantSound, Earlier, SameWindow
  <1>10. Tells(disk, lost)' BY <1>1, <1>5 DEF Tells
  <1> QED BY <1>7, <1>8, <1>9, <1>10 DEF Inv
----------------------------------------------------------------------------
\* A call that ends without an answer leaves nobody in a call.
LEMMA LeaveInv ==
  ASSUME TypeOK, Inv, NEW c \in Caller, pc[c] # "idle", pc' = [pc EXCEPT ![c] = "idle"],
         UNCHANGED <<clock, disk, grants>>, lost' \in Nat, lost <= lost', Tells(disk, lost')
  PROVE  Inv'
  <1>1. \A d \in Caller \ {c} : pc[d] = "idle" BY OthersIdle DEF Inv
  <1>2. \A d \in Caller : pc'[d] = "idle" BY <1>1 DEF TypeOK
  <1>3. \A x \in grants : GrantSound(x)'
    BY DEF Inv, Sequence, GrantSound, TypeOK, Grant
  <1>4. Sequence' BY <1>3 DEF Inv, Sequence, Earlier, SameWindow
  <1>5. Tells(disk, lost)' BY DEF Tells
  <1> QED BY <1>2, <1>4, <1>5 DEF Inv, Alone, CallSound

\* the end of a call, by an error or a death as well,
LEMMA StopInv ==
  ASSUME TypeOK, Inv, NEW c \in Caller, Stop(c) \/ StopShort(c)
  PROVE  Inv'
  <1>1. /\ pc[c] # "idle" /\ pc' = [pc EXCEPT ![c] = "idle"]
        /\ UNCHANGED <<clock, disk, grants>>
    BY DEF Stop, StopShort, Leave
  <1>2. \A d \in Caller \ {c} : pc[d] = "idle" BY <1>1, OthersIdle DEF Inv
  <1>3. CASE Stop(c)
    <2>1. Tells(disk, lost) BY <1>2, <1>3 DEF Inv, Stop
    <2>2. lost' = lost /\ lost \in Nat BY <1>3 DEF Stop, TypeOK
    <2>3. lost' \in Nat /\ lost <= lost' /\ Tells(disk, lost') BY <2>1, <2>2
    <2> QED BY <1>1, <2>3, LeaveInv
  <1>4. CASE StopShort(c)
    <2>1. disk = NoWindows /\ lost' = lost + 1 BY <1>4 DEF Inv, CallSound, StopShort
    <2>2. Tells(NoWindows, lost + 1) BY BlankTells DEF Inv
    <2>3. lost \in Nat BY DEF TypeOK
    <2>4. lost' \in Nat /\ lost <= lost' /\ Tells(disk, lost') BY <2>1, <2>2, <2>3
    <2> QED BY <1>1, <2>4, LeaveInv
  <1> QED BY <1>3, <1>4

\* A new grant comes after all the others.
LEMMA AnswerInv ==
  ASSUME TypeOK, Inv, NEW c \in Caller, Answer(c)
  PROVE  Inv'
  <1> DEFINE f == draft[c]
             g == f.group
             w == f.windows[g]
             last == [id |-> calls, group |-> g, epoch |-> lost, start |-> w.start,
                      n |-> w.count, at |-> clock]
  <1>1. /\ pc[c] = "unlock" /\ pc' = [pc EXCEPT ![c] = "idle"]
        /\ grants' = grants \cup {y \in {last} : f.allow}
        /\ UNCHANGED <<clock, disk, lost>>
    BY DEF Answer, Leave
  <1>2. EpochOf(c) = lost BY <1>1 DEF EpochOf
  <1>3. /\ Tells(f.windows, lost) /\ CountNew(f, lost) /\ disk = f.windows
    BY <1>1, <1>2 DEF Inv, CallSound
  <1>4. CASE grants' = grants
    <2>1. lost' = lost /\ lost \in Nat BY <1>1 DEF TypeOK
    <2>2. lost' \in Nat /\ lost <= lost' /\ Tells(disk, lost') BY <1>3, <2>1
    <2>3. pc[c] # "idle" /\ UNCHANGED <<clock, disk, grants>> BY <1>1, <1>4
    <2> QED BY <1>1, <2>2, <2>3, LeaveInv
  <1>5. CASE f.allow /\ grants' = grants \cup {last}
    <2>1. f \in Draft /\ g \in Group /\ w \in RateWindow
      <3>1. f \in Draft /\ w # None BY <1>1 DEF TypeOK
      <3> QED BY <3>1 DEF Draft, Windows
    <2>2. PICK x : /\ x.group = g /\ x.epoch = lost /\ x.start = w.start
                   /\ x.n = w.count /\ x.at = clock
                   /\ grants' = grants \cup {x}
      BY <1>5
    <2> HIDE DEF last
    <2>3. w.count \in Nat /\ w.start \in Nat /\ lost \in Nat /\ clock \in Nat
      BY <2>1 DEF RateWindow, TypeOK
    <2>4. w.start <= clock /\ w # None BY <1>3, <2>1 DEF Tells
    <2>5. w.count \in 1..Limit[g] BY <1>3, <1>5 DEF CountNew
    <2>6. GrantSound(x)' BY <1>1, <2>1, <2>2, <2>3, <2>4, <2>5 DEF GrantSound
    <2>7. \A y \in grants : GrantSound(y)' BY <1>1 DEF Inv, Sequence, GrantSound
    <2>8. ASSUME NEW y \in grants, y.group = g
          PROVE  \/ Earlier(y, x)
                 \/ SameWindow(y, x) /\ y.n < x.n
      <3>1. /\ y.epoch \in Nat /\ y.start \in Nat /\ y.at \in Nat /\ y.n \in Nat
            /\ y.start <= y.at
        BY DEF TypeOK, Grant, Inv, Sequence, GrantSound
      <3>2. \/ y.epoch < lost /\ y.at <= w.start
            \/ y.epoch = lost /\ y.at <= w.start /\ y.start + Window <= w.start
            \/ y.epoch = lost /\ y.start = w.start
        BY <1>3, <2>1, <2>4, <2>8 DEF Tells
      <3>3. (y.epoch = lost /\ y.start = w.start) => y.n < w.count
        BY <1>3, <1>5, <2>8 DEF CountNew
      <3> QED BY <2>2, <2>3, <3>1, <3>2, <3>3 DEF Earlier, SameWindow
    <2>9. Sequence'
      <3>1. \A y \in grants : y.n \in Nat BY DEF TypeOK, Grant
      <3>2. ASSUME NEW y \in grants, NEW z \in grants, y.group = z.group
            PROVE  \/ Earlier(y, z) \/ Earlier(z, y)
                   \/ SameWindow(y, z) /\ (y.n = z.n => y = z)
        BY <3>2 DEF Inv, Sequence
      <3>3. ASSUME NEW y \in grants, y.group = g
            PROVE  /\ Earlier(y, x) \/ (SameWindow(y, x) /\ y.n # x.n)
                   /\ SameWindow(y, x) <=> SameWindow(x, y)
        BY <2>2, <2>3, <2>8, <3>1, <3>3 DEF SameWindow
      <3>4. SameWindow(x, x) BY DEF SameWindow
      <3>5. ASSUME NEW y \in grants', NEW z \in grants', y.group = z.group
            PROVE  \/ Earlier(y, z) \/ Earlier(z, y)
                   \/ SameWindow(y, z) /\ (y.n = z.n => y = z)
        BY <2>2, <3>2, <3>3, <3>4, <3>5
      <3>6. \A y \in grants' : GrantSound(y)' BY <2>2, <2>6, <2>7
      <3> QED BY <3>5, <3>6 DEF Sequence, Earlier, SameWindow
    <2>10. Tells(disk, lost)'
      <3>1. \A h \in Group : f.windows[h] # None => f.windows[h].start <= clock
        BY <1>3 DEF Tells
      <3>2. ASSUME NEW h \in Group, NEW y \in grants', y.group = h
            PROVE  IF f.windows[h] = None THEN y.epoch < lost
                   ELSE \/ y.epoch < lost /\ y.at <= f.windows[h].start
                        \/ /\ y.epoch = lost /\ y.at <= f.windows[h].start
                           /\ y.start + Window <= f.windows[h].start
                        \/ /\ y.epoch = lost /\ y.start = f.windows[h].start
                           /\ y.n <= f.windows[h].count
        <4>1. CASE y \in grants BY <1>3, <3>2, <4>1 DEF Tells
        <4>2. CASE y = x BY <2>1, <2>2, <2>3, <2>4, <3>2, <4>2
        <4> QED BY <2>2, <4>1, <4>2
      <3> QED BY <1>1, <1>3, <3>1, <3>2 DEF Tells
    <2>11. \A d \in Caller : pc'[d] = "idle"
      <3>1. \A d \in Caller \ {c} : pc[d] = "idle" BY <1>1, OthersIdle DEF Inv
      <3> QED BY <1>1, <3>1 DEF TypeOK
    <2> QED BY <2>9, <2>10, <2>11 DEF Inv, Alone, CallSound
  <1>6. f.allow \in BOOLEAN
    <2>1. f \in Draft BY <1>1 DEF TypeOK
    <2> QED BY <2>1 DEF Draft
  <1> HIDE DEF last
  <1> QED BY <1>1, <1>4, <1>5, <1>6

\* and the clock.
LEMMA TickInv == ASSUME TypeOK, Inv, Tick PROVE Inv'
  <1>1. /\ clock' = clock + 1 /\ clock \in Nat
        /\ UNCHANGED <<disk, pc, draft, lost, grants>>
    BY DEF Tick, TypeOK
  <1>2. \A x \in grants : GrantSound(x)'
    BY <1>1 DEF Inv, Sequence, GrantSound, TypeOK, Grant
  <1>3. Sequence' BY <1>1, <1>2 DEF Inv, Sequence, Earlier, SameWindow
  <1>4. ASSUME NEW w, NEW e, Tells(w, e), w \in Windows PROVE Tells(w, e)'
    BY <1>1, <1>4 DEF Tells, Windows, RateWindow
  <1>5. ASSUME NEW c \in Caller PROVE CallSound(c)'
    <2>1. pc[c] # "idle" => draft[c].windows \in Windows BY DEF TypeOK, Draft
    <2>2. EpochOf(c)' = EpochOf(c) BY <1>1 DEF EpochOf
    <2>3. ASSUME pc[c] # "idle"
          PROVE  Tells(draft[c].windows, EpochOf(c))' /\ CountNew(draft[c], EpochOf(c))'
      <3>1. Tells(draft[c].windows, EpochOf(c)) /\ CountNew(draft[c], EpochOf(c))
        BY <2>3 DEF Inv, CallSound
      <3>2. \A g \in Group : draft[c].windows[g] # None => draft[c].windows[g].start \in Nat
        BY <2>1, <2>3 DEF Windows, RateWindow
      <3>3. CountNew(draft[c], EpochOf(c))' BY <1>1, <2>2, <3>1 DEF CountNew
      <3>4. Tells(draft[c].windows, EpochOf(c))' BY <1>1, <2>2, <3>1, <3>2 DEF Tells
      <3> QED BY <3>3, <3>4
    <2> QED BY <1>1, <2>3 DEF Inv, CallSound, NoWindows
  <1>6. (\A c \in Caller : pc[c] # "write")' => Tells(disk, lost)'
    <2>1. disk \in Windows BY DEF TypeOK
    <2> QED BY <1>1, <1>4, <2>1 DEF Inv, Tells
  <1>7. Alone' BY <1>1 DEF Inv, Alone
  <1> QED BY <1>3, <1>5, <1>6, <1>7 DEF Inv
----------------------------------------------------------------------------
\* The invariant holds before the first call.
LEMMA InitInv == Init => Inv
  BY DEF Init, Inv, Alone, Sequence, Tells, CallSound, NoWindows

\* Every step keeps the invariant.
LEMMA StepInv == TypeOK /\ Inv /\ [Next]_vars => Inv'
  <1> SUFFICES ASSUME TypeOK, Inv, [Next]_vars PROVE Inv' OBVIOUS
  <1>1. ASSUME NEW c \in Caller, NEW g \in Group, Enter(c, g) PROVE Inv'
    BY <1>1, EnterInv
  <1>2. ASSUME NEW c \in Caller, Truncate(c) PROVE Inv' BY <1>2, TruncateInv
  <1>3. ASSUME NEW c \in Caller, Write(c) PROVE Inv' BY <1>3, WriteInv
  <1>4. ASSUME NEW c \in Caller, Answer(c) PROVE Inv' BY <1>4, AnswerInv
  <1>5. ASSUME NEW c \in Caller, Stop(c) \/ StopShort(c) PROVE Inv' BY <1>5, StopInv
  <1>6. CASE Tick BY <1>6, TickInv
  <1>7. CASE UNCHANGED vars
    BY <1>7 DEF vars, Inv, Alone, Sequence, GrantSound, Earlier, SameWindow, Tells,
                CallSound, CountNew, EpochOf, NoWindows
  <1> QED BY <1>1, <1>2, <1>3, <1>4, <1>5, <1>6, <1>7 DEF Next

\* The invariant always holds.
LEMMA Invariant == Spec => [](TypeOK /\ Inv)
  <1>1. Init => TypeOK BY DEF Init, TypeOK, NoWindows, Windows
  <1> QED BY <1>1, InitInv, StepTypes, StepInv, PTL DEF Spec

----------------------------------------------------------------------------
(* The safety properties. *)

\* The invariant says that the grants are counted.
LEMMA InvCounted == TypeOK /\ Inv => GrantsCounted
  <1> SUFFICES ASSUME TypeOK, Inv PROVE GrantsCounted OBVIOUS
  <1>1. ASSUME NEW x \in grants
        PROVE  /\ x \in Grant /\ x.start \in Nat /\ x.epoch \in Nat /\ x.at \in Nat
               /\ x.group \in Group /\ x.n \in 1..Limit[x.group]
    BY DEF TypeOK, Grant, Inv, Sequence, GrantSound
  <1>2. ASSUME NEW x \in grants, NEW y \in grants, x.group = y.group, SameWindow(x, y),
               x.n = y.n
        PROVE  x = y
    <2>1. ~Earlier(x, y) /\ ~Earlier(y, x) BY <1>1, <1>2 DEF Earlier, SameWindow
    <2> QED BY <1>2, <2>1 DEF Inv, Sequence
  <1>3. ASSUME NEW x \in grants, x.epoch = lost, disk[x.group] # None,
               disk[x.group].start = x.start
        PROVE  x.n <= disk[x.group].count
    <2>1. \A c \in Caller : pc[c] # "write"
      BY <1>1, <1>3 DEF Inv, CallSound, NoWindows
    <2>2. Tells(disk, lost) BY <2>1 DEF Inv
    <2> QED BY <1>1, <1>3, <2>2 DEF Tells
  <1> QED BY <1>1, <1>2, <1>3 DEF GrantsCounted, SameWindow

\* No call overwrites what another has counted, and no window grants more than its limit,
\* whatever calls fail or die (rate_limiter.rs:38, 66-74).
THEOREM EveryGrantCounted == Spec => []GrantsCounted
  BY Invariant, InvCounted, PTL

\* The grants of an interval of Window ticks are told apart by whether their window began
\* before it, else by their epoch, and by their number.
LEMMA InvTwice == TypeOK /\ Inv => AtMostTwicePerWindow
  <1> SUFFICES ASSUME TypeOK, Inv, NEW g \in Group, NEW T \in 0..clock
               PROVE  Cardinality(Within(g, T)) <= (2 + lost) * Limit[g]
    BY DEF AtMostTwicePerWindow
  <1> DEFINE W == Within(g, T)
             A == 0..(lost + 1)
             B == 1..Limit[g]
             key(x) == IF x.start < T THEN 0 ELSE x.epoch + 1
             f == [x \in W |-> <<key(x), x.n>>]
  <1>1. lost \in Nat /\ Limit[g] \in Nat /\ T \in Nat BY DEF TypeOK
  <1>2. ASSUME NEW x \in W
        PROVE  /\ x \in grants /\ x.group = g /\ T <= x.at /\ x.at < T + Window
               /\ x.start \in Nat /\ x.at \in Nat /\ x.epoch \in Nat
               /\ x.start <= x.at /\ x.epoch <= lost /\ x.n \in B
    BY DEF Within, TypeOK, Grant, Inv, Sequence, GrantSound
  <1>3. ASSUME NEW x \in W PROVE key(x) \in A BY <1>1, <1>2
  <1>4. f \in [W -> A \X B] BY <1>2, <1>3
  <1>5. ASSUME NEW x \in W, NEW y \in W, f[x] = f[y] PROVE x = y
    <2>1. key(x) = key(y) /\ x.n = y.n BY <1>5
    <2>2. ASSUME NEW u \in W, NEW v \in W, key(u) = key(v) PROVE ~Earlier(u, v)
      BY <1>1, <1>2, <2>2 DEF Earlier
    <2>3. ~Earlier(x, y) /\ ~Earlier(y, x) BY <2>1, <2>2
    <2> QED BY <1>2, <2>1, <2>3 DEF Inv, Sequence
  <1>6. f \in Injection(W, A \X B) BY <1>4, <1>5 DEF Injection, IsInjective
  <1> HIDE DEF W, f
  <1>7. IsFiniteSet(A) /\ Cardinality(A) = lost + 2
    <2>1. 0 \in Int /\ lost + 1 \in Int /\ ~(0 > lost + 1) BY <1>1
    <2>2. IsFiniteSet(A) /\ Cardinality(A) = (lost + 1) - 0 + 1 BY <2>1, FS_Interval
    <2> QED BY <1>1, <2>2
  <1>8. IsFiniteSet(B) /\ Cardinality(B) = Limit[g]
    <2>1. 1 \in Int /\ Limit[g] \in Int BY <1>1
    <2> QED BY <1>1, <2>1, FS_Interval
  <1> HIDE DEF A, B
  <1>9. IsFiniteSet(A \X B) /\ Cardinality(A \X B) = (lost + 2) * Limit[g]
    BY <1>7, <1>8, FS_Product
  <1>10. Cardinality(W) <= (lost + 2) * Limit[g] BY <1>6, <1>9, FS_Injection
  <1> QED BY <1>1, <1>10 DEF W

\* In no 60 seconds do the calls of a group get more than twice their limit, and once more
\* for each time the file was lost (rate_limiter.rs:56-74).
THEOREM TwicePerWindow == Spec => []AtMostTwicePerWindow
  BY Invariant, InvTwice, PTL
=============================================================================
