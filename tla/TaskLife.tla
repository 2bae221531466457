------------------------------ MODULE TaskLife ------------------------------
(***************************************************************************)
(* What is left of one SnerdQueue for a client (README.md:26-38, 142-155): *)
(* each task goes from submitted to ended, runs one attempt at a time, and *)
(* only when the tasks it waits for have ended or been failed.  Sweeps     *)
(* read copies of the records; a task runs only from such a copy, and the  *)
(* copy of a task that was failed with its parent runs it all the same.    *)
(* A restart drops the copies and takes back what the log does not know:   *)
(* an attempt that was running, and an end whose record had not been       *)
(* deleted.  What has succeeded or been given up, and is gone from the     *)
(* log, does not run again, unless a parent that runs late fails it.       *)
(***************************************************************************)
CONSTANTS Task, Deps   \* Deps[t]: the tasks that t waits for

VARIABLES life,    \* how far each task has come
          kept,    \* the tasks with a record in the log
          cut,     \* the tasks last failed with a parent, and not ended by themselves since
          loose    \* the tasks of which a sweep has read a copy that may still be used

vars == <<life, kept, cut, loose>>

Stage == {"new", "pending", "running", "ok", "dead", "blocked"}
Done == {"ok", "dead"}                  \* it succeeded, or was given up
Over == Done \cup {"blocked"}           \* or a task that it waits for was

TypeOK ==
  /\ life \in [Task -> Stage]
  /\ kept \subseteq Task /\ cut \subseteq Task /\ loose \subseteq Task

Init == life = [t \in Task |-> "new"] /\ kept = {} /\ cut = {} /\ loose = {}

Enter(t, stage) == life' = [life EXCEPT ![t] = stage]

Submit(t) ==
  /\ life[t] = "new"
  /\ Enter(t, "pending") /\ kept' = kept \cup {t} /\ UNCHANGED <<cut, loose>>

Read(S) ==
  /\ S \subseteq kept
  /\ loose' = loose \cup S /\ UNCHANGED <<life, kept, cut>>

Drop(t) == loose' = loose \ {t} /\ UNCHANGED <<life, kept, cut>>

\* The copy used may have been the last one.
Start(t) ==
  /\ t \in loose /\ life[t] \in {"pending", "blocked"}
  /\ \A p \in Deps[t] : life[p] \in Over \/ p \in cut
  /\ Enter(t, "running")
  /\ loose' \in {loose, loose \ {t}} /\ UNCHANGED <<kept, cut>>

\* To be tried again, or to run again by its schedule: the record is written.
Yield(t) ==
  /\ life[t] = "running"
  /\ Enter(t, "pending") /\ kept' = kept \cup {t} /\ UNCHANGED <<cut, loose>>

End(t) ==
  /\ life[t] = "running"
  /\ \E how \in Done : Enter(t, how)
  /\ cut' = cut \ {t} /\ UNCHANGED <<kept, loose>>

Forget(t) ==
  /\ life[t] \in Over
  /\ kept' = kept \ {t} /\ UNCHANGED <<life, cut, loose>>

\* A parent is being given up: the record of its child goes.  The children of one that was
\* itself failed with a parent may be anywhere; the one that runs goes on.
Block(t) ==
  /\ \E p \in Deps[t] : /\ life[p] = "running"
                        /\ life[t] \in {"pending", "blocked"} \/ (p \in cut /\ life[t] # "new")
  /\ Enter(t, IF life[t] = "running" THEN "running" ELSE "blocked")
  /\ kept' = kept \ {t} /\ cut' = cut \cup {t} /\ UNCHANGED loose

\* What runs without a record had been failed with a parent.
Restart ==
  /\ life' = [t \in Task |-> IF t \in kept THEN "pending"
                             ELSE IF life[t] = "running" THEN "blocked" ELSE life[t]]
  /\ loose' = {} /\ UNCHANGED <<kept, cut>>

Next ==
  \/ \E t \in Task : \/ Submit(t) \/ Start(t) \/ Yield(t) \/ End(t) \/ Forget(t)
                     \/ Block(t) \/ Drop(t)
  \/ \E S \in SUBSET kept : Read(S)
  \/ Restart

Spec == Init /\ [][Next]_vars
=============================================================================
