------------------------------- MODULE Gateways -------------------------------
(***************************************************************************)
(* The two gateways of one process: they share the socket server, and a    *)
(* restart empties the maps of both.                                       *)
(***************************************************************************)
EXTENDS SocketServer

CONSTANTS Codes, Ttl, MaxNow

ASSUME ScanAssumption == Ttl \in Nat /\ MaxNow \in Nat

VARIABLES user, userSockets, now, sessions, stored, meta, joining, got

N == INSTANCE NotificationsGateway
S == INSTANCE ScanGateway

notifications == <<user, userSockets>>
scan          == <<now, sessions, stored, meta, joining, got>>

vars == <<server, notifications, scan>>

Init == InitServer /\ N!Init /\ S!Init

Restart ==
    /\ \E c \in Sockets : IsOpen(c)
    /\ RestartServer
    /\ N!Restart
    /\ S!Restart

Next ==
    \/ N!Next /\ UNCHANGED scan
    \/ S!Next /\ UNCHANGED notifications
    \/ Restart

Spec == Init /\ [][Next]_vars

\* checkToken answers, and awaited calls are resumed.
FairSpec ==
    /\ Spec
    /\ \A c \in Sockets :
           /\ WF_vars(N!Check(c) /\ UNCHANGED scan)
           /\ WF_vars(S!Resume(c) /\ UNCHANGED notifications)

-----------------------------------------------------------------------------
(* Properties.                                                             *)

\* The type invariant.
TypeOK ==
    /\ ServerTypeOK
    /\ N!GatewayTypeOK
    /\ S!GatewayTypeOK

\* A notification to a user reaches the open sockets of that user whose token has
\* been checked, all of them and no other, although it asks the registry first and
\* the registry is kept by connections, registrations and disconnections of several
\* sockets (notifications.gateway.ts:235): no live socket is ever forgotten.
ReachedExactly ==
    \A u \in Users : N!Reached(u) = {c \in Sockets : IsOpen(c) /\ user[c] = u}

\* The registry, and the map of the scan gateway, hold a closed socket only if it was
\* closed while its token was being checked (notifications.gateway.ts:61,
\* scan.gateway.ts:88): the entry made afterwards stays.
LeftoversAreRaces ==
    /\ \A u \in DOMAIN userSockets : \A c \in userSockets[u] : IsOpen(c) \/ c \in raced
    /\ \A c \in Sockets : meta[c] # None => IsOpen(c) \/ c \in raced

\* Whoever hears a scan session is its mobile or a desktop of its owner
\* (scan.gateway.ts:126), whatever joins, expires or is cleaned up in between.
RoomsAreAuthorised ==
    \A s \in Sessions : \A c \in Members(<<"scan", s>>) :
        \/ auth[c].session = s
        \/ auth[c].token # None /\ s \in DOMAIN sessions /\ auth[c].token = sessions[s].user

\* "Send any codes already scanned (mobile was faster than desktop join)": once its
\* join is through, a desktop has every code of the session, those read before,
\* during and after the join (scan.gateway.ts:139-145).
NoCodeLost ==
    \A s \in DOMAIN sessions : \A c \in Members(<<"scan", s>>) :
        meta[c].role = "desktop" /\ <<c, s>> \notin joining =>
            {s} \X sessions[s].codes \subseteq got[c]

\* A join is always finished: a code of the session gets to the desktop that joins,
\* unless its socket is closed.
JoinedGetsCodes ==
    \A c \in Sockets, s \in Sessions, k \in Codes :
        /\ <<c, s>> \in joining
        /\ s \in DOMAIN sessions /\ k \in sessions[s].codes
        ~> <<s, k>> \in got[c] \/ link[c] = "closed"

-----------------------------------------------------------------------------
(* What a comment of the source says, and an interleaving does not keep.   *)

\* "check if user is connected": a user with an entry has an open socket.
ConnectedIsOpen ==
    \A u \in Users : N!IsUserConnected(u) => \E c \in Sockets : IsOpen(c) /\ user[c] = u
=============================================================================
