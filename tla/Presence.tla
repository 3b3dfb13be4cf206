------------------------------- MODULE Presence -------------------------------
(***************************************************************************)
(* What the notifications gateway promises: every user has a set of        *)
(* listeners, the sockets a notification reaches.  A socket listens for    *)
(* one user at most, enters once, and never comes back once it has left.   *)
(***************************************************************************)
CONSTANTS Users, Sockets

VARIABLES
    listeners,   \* user -> sockets
    left         \* the sockets that are gone

vars == <<listeners, left>>

Init ==
    /\ listeners = [u \in Users |-> {}]
    /\ left = {}

Enter(c, u) ==
    /\ c \notin left
    /\ \A v \in Users : c \notin listeners[v]
    /\ listeners' = [listeners EXCEPT ![u] = @ \cup {c}]
    /\ UNCHANGED left

\* Sockets close, several at once when the process is restarted.
Leave(closed) ==
    /\ left' = left \cup closed
    /\ listeners' = [u \in Users |-> listeners[u] \ closed]

Next ==
    \/ \E c \in Sockets, u \in Users : Enter(c, u)
    \/ \E closed \in SUBSET Sockets : Leave(closed)

Spec == Init /\ [][Next]_vars
=============================================================================
