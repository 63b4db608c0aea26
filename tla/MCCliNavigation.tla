-------------------------- MODULE MCCliNavigation --------------------------
(* Small instances of CliNavigation. *)
EXTENDS CliNavigation, TLC

AnyOrder == Permutations(Procs) \cup Permutations(Users)
=============================================================================
