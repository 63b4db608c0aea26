--------------------------- MODULE MCPreKeySetup ---------------------------
(* Small instances of PreKeySetup: one or two processes of one device and   *)
(* two local keys.                                                          *)
EXTENDS PreKeySetup, TLC

CONSTANTS p1, p2, k1, k2

AnyOrder == Permutations(Procs) \cup Permutations(LocalKeys)
=============================================================================
