-------------------------- MODULE SubscriptionLedger --------------------------
(***************************************************************************)
(* What billing promises: a tenant has at most one contract.  A trial is   *)
(* given when the contract is opened, and its last day is fixed then; only *)
(* the seed, for its own tenant, sets a contract up anew.  A contract ends *)
(* or becomes a paying one any number of times and is never forgotten.     *)
(***************************************************************************)
CONSTANTS Tenants, SeedTenant, Dates, None

VARIABLE contract      \* the contracts: partial function on Tenants

Status == {"TRIAL", "ACTIVE", "CANCELED"}

Contract == [status : Status, until : Dates \cup {None}]

Init == contract = [t \in {} |-> None]

\* The contract of t becomes c, and no other changes.
SetContract(t, c) ==
    contract' = [u \in DOMAIN contract \cup {t} |-> IF u = t THEN c ELSE contract[u]]

OpenContract(t, d) ==
    /\ t \notin DOMAIN contract
    /\ SetContract(t, [status |-> IF d = None THEN "ACTIVE" ELSE "TRIAL", until |-> d])

\* A new plan makes the contract a paying one, whatever it was.
Activate(t) ==
    /\ t \in DOMAIN contract
    /\ SetContract(t, [status |-> "ACTIVE", until |-> contract[t].until])

CancelContract(t) ==
    /\ t \in DOMAIN contract
    /\ SetContract(t, [status |-> "CANCELED", until |-> contract[t].until])

SetUp == SetContract(SeedTenant, [status |-> "ACTIVE", until |-> None])

Next ==
    \/ \E t \in Tenants : \/ \E d \in Dates \cup {None} : OpenContract(t, d)
                          \/ Activate(t)
                          \/ CancelContract(t)
    \/ SetUp

Spec == Init /\ [][Next]_contract
=============================================================================
