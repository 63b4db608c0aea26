---------------------------- MODULE MCSocketHub ----------------------------
(* Small instances of SocketHub.  Sockets, rooms and listeners are          *)
(* interchangeable.                                                         *)
EXTENDS SocketHub, TLC

CONSTANTS s1, s2, s3, r1, r2, l1

Interchangeable == Permutations(Sockets) \cup Permutations(Rooms)
=============================================================================
