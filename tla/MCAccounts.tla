------------------------------ MODULE MCAccounts ------------------------------
(* Small instances of Accounts for TLC.                                    *)
EXTENDS Accounts, TLC

\* Requests, addresses, tenants and the first users are interchangeable.
AccountsSymmetry == 
    Permutations(Procs) \cup Permutations(Emails) \cup Permutations(Tenants) \cup Permutations(Roots)
=============================================================================
