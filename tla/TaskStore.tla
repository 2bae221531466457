----------------------------- MODULE TaskStore -----------------------------
(***************************************************************************)
(* What the engine expects of its task store (README.md:398-402): a map    *)
(* from task ids to their latest state.  A save or a delete that returns   *)
(* Ok has taken effect.  One that returns Err has not, but may still do so *)
(* when the log is read again, unless the task is written first; one that  *)
(* is cut off by a crash has, or has not.  Nothing else, no compaction and *)
(* no restart, changes the map.                                            *)
(***************************************************************************)
CONSTANTS Task, Val, None

VARIABLES db,      \* the latest state of each task, None when it has none
          doubt,   \* what failed writes may yet make of it
          call     \* the last call of save or delete: its task, its value, its result

NoDoubt == [t \in Task |-> {}]

Init == db = [t \in Task |-> None] /\ doubt = NoDoubt /\ call = None

Acknowledged(t, v) ==
  /\ db' = [db EXCEPT ![t] = v]
  /\ doubt' = [doubt EXCEPT ![t] = {}]
  /\ call' = [id |-> t, val |-> v, result |-> "ok"]

Refused(t, v) ==
  /\ doubt' = [doubt EXCEPT ![t] = @ \cup {v}]
  /\ call' = [id |-> t, val |-> v, result |-> "error"]
  /\ UNCHANGED db

\* The log is read again: every doubt is settled, one way or the other.
Settle(doubts) ==
  /\ db' \in [Task -> Val \cup {None}]
  /\ \A t \in Task : db'[t] \in {db[t]} \cup doubts[t]
  /\ doubt' = NoDoubt

CutOff(t, v) ==
  /\ Settle([doubt EXCEPT ![t] = @ \cup {v}])
  /\ call' = [id |-> t, val |-> v, result |-> "crash"]

Next ==
  \/ Settle(doubt) /\ UNCHANGED call
  \/ \E t \in Task, v \in Val \cup {None} :
       Acknowledged(t, v) \/ Refused(t, v) \/ CutOff(t, v)

Spec == Init /\ [][Next]_<<db, doubt, call>>
=============================================================================
