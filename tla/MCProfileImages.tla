---------------------------- MODULE MCProfileImages ----------------------------
(* Small instances of ProfileImages for TLC.                               *)
EXTENDS ProfileImages, TLC

\* Requests, users and extensions are interchangeable.
ImagesSymmetry == Permutations(Procs) \cup Permutations(Users) \cup Permutations(Exts)
=============================================================================
