---------------------------- MODULE MCConfigCache ----------------------------
(* Requests that ask for a keyword are alike.  No liveness is checked.      *)
EXTENDS ConfigCache, TLC

RequestsAlike == Permutations(Request)
=============================================================================
