------------------------------ MODULE MCQueue ------------------------------
(***************************************************************************)
(* Small instances of Queue for TLC: one to three tasks, a pool of one     *)
(* or two permits, two or three dispatcher slots (the code starts at most  *)
(* two loops) and as many worker slots as permits or more.                  *)
(***************************************************************************)
EXTENDS QueueProperties, TLC

CONSTANTS a, b, c, dflt, bulk, d1, d2, d3, w1, w2, w3, s1, s2, h

NoDeps == [t \in Task |-> {}]
BAfterA == [t \in Task |-> IF t = b THEN {a} ELSE {}]

NoHash == [t \in Task |-> {}]
HashOnAC == [t \in Task |-> IF t \in {a, c} THEN {h} ELSE {}]

AllDefault == [t \in Task |-> Default]
UnknownPool == [t \in Task |-> bulk]
Level == [t \in Task |-> 0]
Once == [t \in Task |-> 1]
Twice == [t \in Task |-> 2]
ThreeTimes == [t \in Task |-> 3]
TwiceForA == [t \in Task |-> IF t = a THEN 2 ELSE 1]
OnePermit == [p \in Pool |-> 1]
TwoPermits == [p \in Pool |-> 2]

Slots == Permutations(Dispatcher) \cup Permutations(Worker) \cup Permutations(Sweep)
=============================================================================
