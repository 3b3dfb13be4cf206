-------------------------- MODULE NotificationsGateway --------------------------
(***************************************************************************)
(* NotificationsGateway: which sockets a user has (the map userSockets),   *)
(* and the rooms notifications are sent to.  A notification changes no     *)
(* state: Reached says who gets one.                                       *)
(***************************************************************************)
EXTENDS SocketServer

VARIABLES
    user,          \* client.user of each socket, or None
    userSockets    \* user -> sockets; a user may have no entry

registry == <<user, userSockets>>

UserRooms(u) == {<<"user", u>>} \cup ({"tenant"} \X ({TenantOf[u]} \ {None}))

Init ==
    /\ user = [c \in Sockets |-> None]
    /\ userSockets = [u \in {} |-> {}]

Entry(u) == IF u \in DOMAIN userSockets THEN userSockets[u] ELSE {}

Registered(u, c) ==
    [v \in DOMAIN userSockets \cup {u} |-> IF v = u THEN Entry(u) \cup {c} ELSE Entry(v)]

\* MUTANTS of Unregistered: an entry goes with the first of its sockets; only the
\* entries of one socket are looked at.
UnregisteredUser(c) ==
    [v \in {w \in DOMAIN userSockets : c \notin userSockets[w]} |-> userSockets[v]]

UnregisteredLast(c) ==
    [v \in {w \in DOMAIN userSockets : userSockets[w] # {c}} |-> userSockets[v]]

\* handleDisconnect: the socket leaves every entry, and empty entries go.
Unregistered(c) ==
    [v \in {w \in DOMAIN userSockets : userSockets[w] # {c}} |-> userSockets[v] \ {c}]

-----------------------------------------------------------------------------
\* handleConnection, up to the check of the token; without a token it ends there.
HandleConnection(c, u) ==
    /\ Accept(c, [ns |-> "notifications", token |-> u, session |-> None],
              IF u = None THEN "closed" ELSE "open")
    /\ checking' = IF u = None THEN checking ELSE checking \cup {c}
    /\ UNCHANGED <<rooms, registry>>

\* The rest of handleConnection, whether or not the socket is still open.
CheckPasses(c) ==
    LET u == auth[c].token IN
    /\ Answered(c, "notifications")
    /\ user' = [user EXCEPT ![c] = u]
    /\ userSockets' = Registered(u, c)
    /\ Join(c, UserRooms(u))
    /\ UNCHANGED <<link, auth, raced>>

CheckFails(c) ==
    /\ Answered(c, "notifications")
    /\ Close(c)
    /\ userSockets' = Unregistered(c)
    /\ UNCHANGED <<auth, raced, user>>

HandleDisconnect(c) ==
    /\ ClosedByClient(c, "notifications")
    /\ userSockets' = Unregistered(c)
    /\ UNCHANGED user

\* A message of a socket whose user is known.
From(c) == IsOpen(c) /\ user[c] # None

\* The user the message names is not looked at.
HandleRegister(c, named) ==
    /\ From(c)
    /\ userSockets' = Registered(user[c], c)
    /\ Join(c, {<<"user", user[c]>>})
    /\ UNCHANGED <<link, auth, checking, raced, user>>

HandleJoinTeam(c, team) ==
    /\ From(c)
    /\ Join(c, {<<"team", team>>})
    /\ UNCHANGED <<link, auth, checking, raced, registry>>

HandleLeaveTeam(c, team) ==
    /\ From(c)
    /\ rooms' = rooms \ {<<<<"team", team>>, c>>}
    /\ UNCHANGED <<link, auth, checking, raced, registry>>

HandleJoinTenant(c, tenant) ==
    /\ From(c)
    /\ Join(c, {<<"tenant", tenant>>})
    /\ UNCHANGED <<link, auth, checking, raced, registry>>

Check(c) == CheckPasses(c) \/ CheckFails(c)

Next ==
    \E c \in Sockets :
        \/ \E u \in Users \cup {None} : HandleConnection(c, u)
        \/ Check(c)
        \/ HandleDisconnect(c)
        \/ \E u \in Users : HandleRegister(c, u)
        \/ \E team \in Teams : HandleJoinTeam(c, team) \/ HandleLeaveTeam(c, team)
        \/ \E tenant \in Tenants : HandleJoinTenant(c, tenant)

\* The maps of the process are new.
Restart ==
    /\ user' = [c \in Sockets |-> None]
    /\ userSockets' = [u \in {} |-> {}]

-----------------------------------------------------------------------------
(* Notifications.                                                          *)

IsUserConnected(u) == Entry(u) # {}

\* sendToUser
Reached(u) == IF IsUserConnected(u) THEN Members(<<"user", u>>) ELSE {}

GatewayTypeOK ==
    /\ user \in [Sockets -> Users \cup {None}]
    /\ DOMAIN userSockets \subseteq Users
    /\ \A u \in DOMAIN userSockets : userSockets[u] \subseteq Sockets
=============================================================================
