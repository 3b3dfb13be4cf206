--------------------------- MODULE AccountDirectory ---------------------------
(***************************************************************************)
(* What the users feature promises about e-mail addresses: each active     *)
(* account has one, no two have the same, only an account's own change     *)
(* moves it, and an account that left never comes back.                    *)
(***************************************************************************)
CONSTANTS Users, Emails

VARIABLES
    address,   \* partial function: the e-mail of each active account
    gone       \* the accounts that left

vars == <<address, gone>>

Accounts == DOMAIN address

Taken(e) == \E u \in Accounts : address[u] = e

Init ==
    /\ gone = {}
    /\ \E A \in SUBSET Users : address \in [A -> Emails]
    /\ \A u, v \in Accounts : address[u] = address[v] => u = v

Register(u, e) ==
    /\ u \notin Accounts \cup gone
    /\ ~Taken(e)
    /\ address' = [v \in Accounts \cup {u} |-> IF v = u THEN e ELSE address[v]]
    /\ UNCHANGED gone

Move(u, e) ==
    /\ u \in Accounts
    /\ ~Taken(e)
    /\ address' = [address EXCEPT ![u] = e]
    /\ UNCHANGED gone

Leave(u) ==
    /\ u \in Accounts
    /\ address' = [v \in Accounts \ {u} |-> address[v]]
    /\ gone' = gone \cup {u}

Next ==
    \E u \in Users :
        \/ \E e \in Emails : Register(u, e) \/ Move(u, e)
        \/ Leave(u)

Spec == Init /\ [][Next]_vars
=============================================================================
