---------------------------- MODULE MCFileStore ----------------------------
(***************************************************************************)
(* Small instances of FileStore for TLC: two tasks, two values, a log of   *)
(* a few lines.                                                             *)
(***************************************************************************)
EXTENDS FileStore, TLC

CONSTANTS a, b, x, y

Names == Permutations(Task) \cup Permutations(Val)
=============================================================================
