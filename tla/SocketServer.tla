----------------------------- MODULE SocketServer -----------------------------
(***************************************************************************)
(* What the two gateways share: the sockets of the socket.io server, the   *)
(* rooms they are in, and IoGuard.checkToken, which answers later.  The    *)
(* server calls a gateway's message handlers from the moment a socket      *)
(* connects, and drops a closed socket from its rooms; a closed socket     *)
(* joins none.                                                             *)
(***************************************************************************)
EXTENDS Naturals, FiniteSets

CONSTANTS
    Sockets,    \* BOUND: connections that can be made; an id is used once
    Users,
    TenantOf,   \* user -> tenant or None
    Tenants,
    Teams,
    Sessions,   \* BOUND: ids that scan sessions can get
    None

ASSUME SocketAssumption ==
    /\ TenantOf \in [Users -> Tenants \cup {None}]
    /\ None \notin Users \cup Tenants \cup Sessions

VARIABLES
    link,       \* of each socket
    auth,       \* what its handshake holds
    checking,   \* the sockets whose token is being checked
    rooms,      \* pairs of a room and a socket
    raced       \* HISTORY: the sockets closed while their token was being checked

server == <<link, auth, checking, rooms, raced>>

Rooms == ({"user"} \X Users) \cup ({"tenant"} \X Tenants) \cup ({"team"} \X Teams)
            \cup ({"scan"} \X Sessions)

Auth == [ns : {"notifications", "scan"}, token : Users \cup {None}, session : Sessions \cup {None}]

InitServer ==
    /\ link = [c \in Sockets |-> "new"]
    /\ auth = [c \in Sockets |-> None]
    /\ checking = {}
    /\ rooms = {}
    /\ raced = {}

ServerTypeOK ==
    /\ link \in [Sockets -> {"new", "open", "closed"}]
    /\ auth \in [Sockets -> Auth \cup {None}]
    /\ checking \subseteq Sockets
    /\ rooms \subseteq Rooms \X Sockets
    /\ raced \subseteq Sockets

IsOpen(c) == link[c] = "open"

Members(room) == {c \in Sockets : <<room, c>> \in rooms}

\* A connection with the handshake h: it stays open or is refused at once.
Accept(c, h, to) ==
    /\ link[c] = "new"
    /\ link' = [link EXCEPT ![c] = to]
    /\ auth' = [auth EXCEPT ![c] = h]
    /\ UNCHANGED raced

\* The answer of checkToken, for a socket of the namespace ns.
Answered(c, ns) ==
    /\ c \in checking
    /\ auth[c].ns = ns
    /\ checking' = checking \ {c}

Join(c, names) == rooms' = rooms \cup {<<n, c>> : n \in IF IsOpen(c) THEN names ELSE {}}

\* The socket is closed, by either side; the gateway's handleDisconnect follows at once.
Close(c) ==
    /\ link' = [link EXCEPT ![c] = "closed"]
    /\ rooms' = {m \in rooms : m[2] # c}

\* A client or the network closes a socket.
ClosedByClient(c, ns) ==
    /\ IsOpen(c)
    /\ auth[c].ns = ns
    /\ Close(c)
    /\ raced' = IF c \in checking THEN raced \cup {c} ELSE raced
    /\ UNCHANGED <<auth, checking>>

\* The process is restarted: no socket survives, and no check is answered.
RestartServer ==
    /\ link' = [c \in Sockets |-> IF IsOpen(c) THEN "closed" ELSE link[c]]
    /\ checking' = {}
    /\ rooms' = {}
    /\ raced' = {}
    /\ UNCHANGED auth
=============================================================================
