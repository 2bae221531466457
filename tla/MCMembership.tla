---------------------------- MODULE MCMembership ----------------------------
(***************************************************************************)
(* A small instance of Membership for TLC: two daemons, one shard.         *)
(***************************************************************************)
EXTENDS Membership, TLC

CONSTANTS d1, d2, s1

Daemons == Permutations(Daemon)
=============================================================================
