---------------------------- MODULE MCAuthTokens ----------------------------
(* Small instances of AuthTokens. *)
EXTENDS AuthTokens, TLC

AnyOrder == Permutations(Requests)
=============================================================================
