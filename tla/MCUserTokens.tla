----------------------------- MODULE MCUserTokens -----------------------------
(* Small instances of UserTokens for TLC.                                  *)
EXTENDS UserTokens, TLC

\* Requests, and users, are interchangeable.
ProcSymmetry == Permutations(Procs) \cup Permutations(Users)
=============================================================================
