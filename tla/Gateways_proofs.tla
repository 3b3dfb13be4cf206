---------------------------- MODULE Gateways_proofs ----------------------------
(***************************************************************************)
(* Theorems about Gateways, for any number of sockets, users, tenants,     *)
(* teams, scan sessions and codes.                                         *)
(***************************************************************************)
EXTENDS Gateways, TLAPS

-----------------------------------------------------------------------------
(* The inductive invariant.                                                *)

\* Nobody has spoken for the socket yet.
Fresh(c) == link[c] = "new" \/ c \in checking

ServerInv ==
    /\ ServerTypeOK
    /\ \A c \in Sockets : link[c] # "new" => auth[c] \in Auth
    /\ \A c \in checking : /\ link[c] # "new" /\ auth[c].token \in Users
                           /\ IsOpen(c) \/ c \in raced
    /\ \A m \in rooms : IsOpen(m[2]) /\ m[2] \notin checking

\* The socket has a place in the maps of the gateway of ns.
Placed(c, ns) == auth[c].ns = ns /\ (IsOpen(c) \/ c \in raced)

\* The rooms of users, and the registry, hold the open sockets of known users.
NoticeInv ==
    /\ N!GatewayTypeOK
    /\ \A c \in Sockets : Fresh(c) =>
           /\ user[c] = None
           /\ \A u \in DOMAIN userSockets : c \notin userSockets[u]
    /\ \A c \in Sockets : user[c] # None => auth[c].ns = "notifications"
    /\ \A u \in DOMAIN userSockets : \A c \in userSockets[u] : Placed(c, "notifications")
    /\ \A u \in Users, c \in Sockets : IsOpen(c) /\ user[c] = u =>
           u \in DOMAIN userSockets /\ c \in userSockets[u]
    /\ \A u \in Users, c \in Sockets :
           <<<<"user", u>>, c>> \in rooms <=> IsOpen(c) /\ user[c] = u

\* What the scan gateway knows of a socket is what its handshake holds.
MetaOK(c) ==
    /\ Placed(c, "scan")
    /\ meta[c].role = "desktop" => auth[c].token # None /\ meta[c].user = auth[c].token
    /\ meta[c].role = "mobile" => auth[c].session = meta[c].session

ScanInv ==
    /\ S!GatewayTypeOK
    /\ \A c \in Sockets : Fresh(c) => meta[c] = None
    /\ \A c \in Sockets : meta[c] # None => MetaOK(c)
    /\ RoomsAreAuthorised
    /\ NoCodeLost

Inv == ServerInv /\ NoticeInv /\ ScanInv

LEMMA InitInv == Init => Inv
<1> SUFFICES ASSUME Init PROVE Inv
  OBVIOUS
<1>1. ServerInv
  BY DEF Init, InitServer, ServerInv, ServerTypeOK
<1>2. NoticeInv
  BY SocketAssumption DEF Init, InitServer, N!Init, NoticeInv, N!GatewayTypeOK, IsOpen
<1>3. ScanInv
  BY ScanAssumption DEF Init, InitServer, S!Init, ScanInv, S!GatewayTypeOK, S!Times, S!Known,
     RoomsAreAuthorised, NoCodeLost, Members
<1> QED BY <1>1, <1>2, <1>3 DEF Inv

-----------------------------------------------------------------------------
(* What the steps of one gateway mean to the other.                        *)

\* No socket becomes fresh, or open, or another's.
ServerStep ==
    /\ \A c \in Sockets : Fresh(c)' => Fresh(c)
    /\ \A c \in Sockets : link[c] # "new" => auth'[c] = auth[c] /\ link'[c] # "new"
    /\ \A c \in Sockets : IsOpen(c)' => IsOpen(c) \/ link[c] = "new"

\* The sockets of ns keep their places.
PlacesKept(ns) ==
    \A c \in Sockets : link[c] # "new" /\ Placed(c, ns) => IsOpen(c)' \/ c \in raced'

\* The rooms of users lose closed sockets only; those of scan sessions get nobody.
UserRoomsKept ==
    \A u \in Users, c \in Sockets :
        <<<<"user", u>>, c>> \in rooms' <=> <<<<"user", u>>, c>> \in rooms /\ IsOpen(c)'

ScanRoomsKept ==
    \A s \in Sessions, c \in Sockets :
        <<<<"scan", s>>, c>> \in rooms' => <<<<"scan", s>>, c>> \in rooms

LEMMA NoticeQuiet ==
    ASSUME ServerInv, NoticeInv, ServerStep, PlacesKept("notifications"), UserRoomsKept,
           UNCHANGED notifications
    PROVE  NoticeInv'
<1>1. N!GatewayTypeOK'
  BY DEF NoticeInv, N!GatewayTypeOK, notifications
<1>2. \A c \in Sockets : user[c] # None => link[c] # "new"
  BY DEF NoticeInv, Fresh
<1>3. \A u \in DOMAIN userSockets : \A c \in userSockets[u] : c \in Sockets /\ link[c] # "new"
  BY DEF NoticeInv, N!GatewayTypeOK, Fresh
<1>4. \A u \in DOMAIN userSockets' : \A c \in userSockets'[u] : Placed(c, "notifications")'
  BY <1>3 DEF NoticeInv, ServerStep, PlacesKept, Placed, notifications
<1>5. \A c \in Sockets : user'[c] # None => auth'[c].ns = "notifications"
  BY <1>2 DEF NoticeInv, ServerStep, notifications
<1>6. \A c \in Sockets : Fresh(c)' =>
          user'[c] = None /\ \A u \in DOMAIN userSockets' : c \notin userSockets'[u]
  BY DEF NoticeInv, ServerStep, notifications
<1>7. \A u \in Users, c \in Sockets : IsOpen(c)' /\ user[c] = u => IsOpen(c)
  BY <1>2, SocketAssumption DEF ServerStep
<1>8. \A u \in Users, c \in Sockets : IsOpen(c)' /\ user'[c] = u =>
          u \in DOMAIN userSockets' /\ c \in userSockets'[u]
  BY <1>7 DEF NoticeInv, notifications
<1>9. \A u \in Users, c \in Sockets :
          <<<<"user", u>>, c>> \in rooms' <=> IsOpen(c)' /\ user'[c] = u
  BY <1>7 DEF NoticeInv, UserRoomsKept, notifications
<1> QED BY <1>1, <1>4, <1>5, <1>6, <1>8, <1>9 DEF NoticeInv

LEMMA MetaKept ==
    ASSUME ServerInv, ScanInv, ServerStep, PlacesKept("scan"), NEW c \in Sockets,
           meta[c] # None, meta'[c] = meta[c]
    PROVE  MetaOK(c)'
<1>1. link[c] # "new" /\ MetaOK(c)
  BY DEF ScanInv, Fresh
<1> QED BY <1>1 DEF ServerStep, PlacesKept, MetaOK, Placed

\* Members of the rooms of scan sessions have spoken.
LEMMA MembersSpoke ==
    ASSUME ServerInv, NEW s \in Sessions, NEW c, <<<<"scan", s>>, c>> \in rooms
    PROVE  c \in Sockets /\ IsOpen(c) /\ link[c] # "new" /\ c \notin checking /\ auth[c] \in Auth
<1>1. /\ <<<<"scan", s>>, c>>[2] = c
      /\ c \in Sockets
  BY DEF ServerInv, ServerTypeOK
<1> QED BY <1>1 DEF ServerInv, IsOpen

LEMMA ScanQuiet ==
    ASSUME ServerInv, ScanInv, ServerStep, PlacesKept("scan"), ScanRoomsKept, UNCHANGED scan
    PROVE  ScanInv'
<1>1. S!GatewayTypeOK'
  BY DEF ScanInv, S!GatewayTypeOK, S!Known, S!Times, S!Meta, scan
<1>2. \A c \in Sockets : Fresh(c)' => meta'[c] = None
  BY DEF ScanInv, ServerStep, scan
<1>3. \A c \in Sockets : meta'[c] # None => MetaOK(c)'
  BY MetaKept DEF scan
<1>4. \A s \in Sessions, c \in Sockets : c \in Members(<<"scan", s>>)' =>
          c \in Members(<<"scan", s>>) /\ auth'[c] = auth[c]
  BY MembersSpoke DEF ScanRoomsKept, Members, ServerStep
<1>5. RoomsAreAuthorised'
  <2> SUFFICES ASSUME NEW s \in Sessions, NEW c \in Members(<<"scan", s>>)'
               PROVE  \/ auth'[c].session = s
                      \/ auth'[c].token # None /\ s \in DOMAIN sessions'
                         /\ auth'[c].token = sessions'[s].user
    BY DEF RoomsAreAuthorised
  <2>1. c \in Sockets
    BY DEF Members
  <2>2. c \in Members(<<"scan", s>>) /\ auth'[c] = auth[c]
    BY <1>4, <2>1
  <2> QED BY <2>2 DEF ScanInv, RoomsAreAuthorised, scan
<1>6. NoCodeLost'
  <2>1. \A s \in DOMAIN sessions : s \in Sessions
    BY DEF ScanInv, S!GatewayTypeOK, S!Known
  <2>2. \A s \in DOMAIN sessions : Members(<<"scan", s>>)' \subseteq Members(<<"scan", s>>)
    BY <1>4, <2>1 DEF Members
  <2> QED BY <2>2 DEF ScanInv, NoCodeLost, scan
<1> QED BY <1>1, <1>2, <1>3, <1>5, <1>6 DEF ScanInv

-----------------------------------------------------------------------------
(* The socket server.                                                      *)

\* A new socket.
LEMMA AcceptMoves ==
    ASSUME ServerInv, NEW c \in Sockets, NEW h \in Auth, NEW to \in {"open", "closed"},
           Accept(c, h, to), to = "closed" => UNCHANGED <<checking, rooms>>,
           checking' = checking
              \/ (checking' = checking \cup {c} /\ h.token \in Users),
           rooms' = rooms
              \/ \E s \in Sessions : rooms' = rooms \cup {<<<<"scan", s>>, c>>} /\ c \notin checking'
    PROVE  /\ ServerInv' /\ ServerStep /\ UserRoomsKept
           /\ \A ns : PlacesKept(ns)
           /\ link[c] = "new" /\ auth'[c] = h /\ link'[c] = to
           /\ \A d \in Sockets \ {c} : link'[d] = link[d] /\ auth'[d] = auth[d]
           /\ c \notin checking
           /\ \A r \in Rooms : <<r, c>> \notin rooms
<1>1. /\ link[c] = "new" /\ link'[c] = to /\ auth'[c] = h
      /\ link' \in [Sockets -> {"new", "open", "closed"}]
      /\ auth' \in [Sockets -> Auth \cup {None}]
      /\ raced' = raced
      /\ \A d \in Sockets \ {c} : link'[d] = link[d] /\ auth'[d] = auth[d]
  BY DEF Accept, ServerInv, ServerTypeOK
<1>2. c \notin checking
  BY <1>1 DEF ServerInv
<1>3. \A m \in rooms : m \in Rooms \X Sockets /\ m[2] # c
  BY <1>1 DEF ServerInv, ServerTypeOK, IsOpen
<1>4. \A r \in Rooms : <<r, c>> \notin rooms
  BY <1>3
<1>5. ServerStep
  BY <1>1 DEF ServerStep, Fresh, IsOpen
<1>6. \A ns : PlacesKept(ns)
  BY <1>1 DEF PlacesKept, Placed, IsOpen
<1>7. \A s \in Sessions : <<"scan", s>> \in Rooms
  BY DEF Rooms
<1>8. rooms' \subseteq Rooms \X Sockets
  BY <1>7 DEF ServerInv, ServerTypeOK
<1>9. \A m \in rooms' : IsOpen(m[2])' /\ m[2] \notin checking'
  <2> SUFFICES ASSUME NEW m \in rooms' PROVE IsOpen(m[2])' /\ m[2] \notin checking'
    OBVIOUS
  <2>1. CASE m \in rooms
    BY <1>1, <1>3, <2>1 DEF ServerInv, IsOpen
  <2>2. CASE m \notin rooms
    <3>1. to = "open" /\ c \notin checking' /\ \E s \in Sessions : m = <<<<"scan", s>>, c>>
      BY <2>2
    <3>2. m[2] = c
      BY <3>1
    <3> QED BY <1>1, <3>1, <3>2 DEF IsOpen
  <2> QED BY <2>1, <2>2
<1>10. UserRoomsKept
  <2> SUFFICES ASSUME NEW u \in Users, NEW d \in Sockets
               PROVE  <<<<"user", u>>, d>> \in rooms' <=> <<<<"user", u>>, d>> \in rooms /\ IsOpen(d)'
    BY DEF UserRoomsKept
  <2>1. \A s \in Sessions : <<<<"user", u>>, d>> # <<<<"scan", s>>, c>>
    OBVIOUS
  <2>2. <<<<"user", u>>, d>> \in rooms' <=> <<<<"user", u>>, d>> \in rooms
    BY <2>1
  <2>3. <<<<"user", u>>, d>>[2] = d
    OBVIOUS
  <2> QED BY <1>9, <2>2, <2>3
<1>11. \A d \in checking' : /\ link'[d] # "new" /\ auth'[d].token \in Users
                            /\ IsOpen(d)' \/ d \in raced'
  BY <1>1, <1>2 DEF ServerInv, ServerTypeOK, IsOpen
<1>12. ServerInv'
  BY <1>1, <1>8, <1>9, <1>11 DEF ServerInv, ServerTypeOK
<1> QED BY <1>1, <1>2, <1>4, <1>5, <1>6, <1>10, <1>12

\* A socket joins rooms that it may join; the check of its token may end.
LEMMA JoinMoves ==
    ASSUME ServerInv, NEW c \in Sockets, NEW names \in SUBSET Rooms, Join(c, names),
           checking' = checking \/ checking' = checking \ {c},
           names = {} \/ c \notin checking', link[c] # "new",
           UNCHANGED <<link, auth, raced>>
    PROVE  ServerInv' /\ ServerStep /\ \A ns : PlacesKept(ns)
<1>1. ServerStep /\ \A ns : PlacesKept(ns)
  BY DEF ServerStep, PlacesKept, Placed, Fresh, IsOpen
<1>2. \A m \in rooms' : IsOpen(m[2])' /\ m[2] \notin checking' /\ m \in Rooms \X Sockets
  <2> SUFFICES ASSUME NEW m \in rooms'
               PROVE  IsOpen(m[2]) /\ m[2] \notin checking' /\ m \in Rooms \X Sockets
    BY DEF IsOpen
  <2>1. CASE m \in rooms
    BY <2>1 DEF ServerInv, ServerTypeOK
  <2>2. CASE m \notin rooms
    <3>1. IsOpen(c) /\ \E n \in names : m = <<n, c>>
      BY <2>2 DEF Join
    <3> QED BY <3>1
  <2> QED BY <2>1, <2>2
<1>3. ServerInv'
  BY <1>2 DEF ServerInv, ServerTypeOK, IsOpen
<1> QED BY <1>1, <1>3

\* A socket is closed, while its token is checked or afterwards.
LEMMA CloseMoves ==
    ASSUME ServerInv, NEW c \in Sockets, link[c] # "new", Close(c), UNCHANGED auth,
           \/ checking' = checking \ {c} /\ raced' = raced
           \/ checking' = checking /\ raced' = IF c \in checking THEN raced \cup {c} ELSE raced
    PROVE  /\ ServerInv' /\ ServerStep /\ UserRoomsKept /\ ScanRoomsKept
           /\ \A ns : auth[c].ns # ns => PlacesKept(ns)
           /\ \A d \in Sockets \ {c} : link'[d] = link[d]
           /\ link'[c] = "closed" /\ raced \subseteq raced'
           /\ \A m \in rooms' : m \in rooms /\ m[2] # c
<1>1. /\ link'[c] = "closed"
      /\ link' \in [Sockets -> {"new", "open", "closed"}]
      /\ \A d \in Sockets \ {c} : link'[d] = link[d]
      /\ rooms' = {m \in rooms : m[2] # c} /\ raced \subseteq raced'
  BY DEF Close, ServerInv, ServerTypeOK
<1>2. ServerStep
  BY <1>1 DEF ServerStep, Fresh, IsOpen
<1>3. \A ns : auth[c].ns # ns => PlacesKept(ns)
  BY <1>1 DEF PlacesKept, Placed, IsOpen
<1>4. \A m \in rooms' : m \in rooms /\ m[2] # c
  BY <1>1
<1>5. UserRoomsKept
  <2> SUFFICES ASSUME NEW u \in Users, NEW d \in Sockets
               PROVE  <<<<"user", u>>, d>> \in rooms' <=> <<<<"user", u>>, d>> \in rooms /\ IsOpen(d)'
    BY DEF UserRoomsKept
  <2>1. <<<<"user", u>>, d>>[2] = d
    OBVIOUS
  <2>2. <<<<"user", u>>, d>> \in rooms => IsOpen(d)
    BY <2>1 DEF ServerInv
  <2> QED BY <1>1, <2>1, <2>2 DEF IsOpen
<1>6. ScanRoomsKept
  BY <1>4 DEF ScanRoomsKept
<1>7. \A d \in checking' : /\ link'[d] # "new" /\ auth'[d].token \in Users
                           /\ IsOpen(d)' \/ d \in raced'
  BY <1>1 DEF ServerInv, ServerTypeOK, IsOpen
<1>8. \A m \in rooms' : IsOpen(m[2])' /\ m[2] \notin checking'
  <2> SUFFICES ASSUME NEW m \in rooms' PROVE IsOpen(m[2])' /\ m[2] \notin checking'
    OBVIOUS
  <2>1. m[2] \in Sockets /\ m[2] # c /\ IsOpen(m[2]) /\ m[2] \notin checking
    BY <1>4 DEF ServerInv, ServerTypeOK
  <2> QED BY <1>1, <2>1 DEF IsOpen
<1>9. ServerTypeOK'
  BY <1>1 DEF ServerInv, ServerTypeOK
<1>10. \A d \in Sockets : link'[d] # "new" => auth'[d] \in Auth
  BY <1>1 DEF ServerInv
<1> QED BY <1>1, <1>2, <1>3, <1>4, <1>5, <1>6, <1>7, <1>8, <1>9, <1>10 DEF ServerInv

-----------------------------------------------------------------------------
(* The notifications gateway.                                              *)

\* The entry of u gains c, and no entry is lost.
LEMMA RegisterMoves ==
    ASSUME NoticeInv, NEW u \in Users, NEW c \in Sockets, userSockets' = N!Registered(u, c)
    PROVE  /\ DOMAIN userSockets' = DOMAIN userSockets \cup {u}
           /\ \A v \in DOMAIN userSockets' : \A d :
                  d \in userSockets'[v] <=>
                      (v \in DOMAIN userSockets /\ d \in userSockets[v]) \/ (v = u /\ d = c)
BY DEF N!Registered, N!Entry

\* c leaves every entry, and nobody else does.
LEMMA UnregisterMoves ==
    ASSUME NoticeInv, NEW c \in Sockets, userSockets' = N!Unregistered(c)
    PROVE  /\ DOMAIN userSockets' \subseteq DOMAIN userSockets
           /\ \A v \in DOMAIN userSockets' : userSockets'[v] = userSockets[v] \ {c}
           /\ \A v \in DOMAIN userSockets : \A d \in userSockets[v] :
                  d # c => v \in DOMAIN userSockets'
BY DEF N!Unregistered

\* Rooms that are no rooms of users or of scan sessions change nothing for either.
LEMMA OtherRooms ==
    ASSUME ServerInv, NEW c \in Sockets,
           NEW names \in SUBSET Rooms, Join(c, names), UNCHANGED link
    PROVE  /\ (\A s \in Sessions : <<"scan", s>> \notin names) => ScanRoomsKept
           /\ (\A u \in Users : <<"user", u>> \notin names) => UserRoomsKept
<1>1. \A r, d : <<r, d>> \in rooms' <=> <<r, d>> \in rooms \/ (d = c /\ IsOpen(c) /\ r \in names)
  BY DEF Join
<1>2. \A r, d : <<r, d>> \in rooms => IsOpen(d)'
  <2> SUFFICES ASSUME NEW r, NEW d, <<r, d>> \in rooms PROVE IsOpen(d)'
    OBVIOUS
  <2>1. <<r, d>>[2] = d
    OBVIOUS
  <2> QED BY <2>1 DEF ServerInv, IsOpen
<1> QED BY <1>1, <1>2 DEF ScanRoomsKept, UserRoomsKept

LEMMA NoticeConnection ==
    ASSUME Inv, NEW c \in Sockets, NEW u \in Users \cup {None}, N!HandleConnection(c, u),
           UNCHANGED scan
    PROVE  Inv'
<1> DEFINE h  == [ns |-> "notifications", token |-> u, session |-> None]
           to == IF u = None THEN "closed" ELSE "open"
<1>1. h \in Auth /\ h.token = u /\ to \in {"open", "closed"}
  BY DEF Auth
<1>2. Accept(c, h, to) /\ UNCHANGED <<rooms, notifications>>
      /\ checking' = IF u = None THEN checking ELSE checking \cup {c}
  BY DEF N!HandleConnection, N!Accept, Accept, N!registry, notifications
<1>3. u # None => u \in Users
  OBVIOUS
<1> HIDE DEF h, to
<1>4. to = "closed" => UNCHANGED <<checking, rooms>>
  BY <1>2 DEF to
<1>5. checking' = checking \/ (checking' = checking \cup {c} /\ h.token \in Users)
  BY <1>1, <1>2, <1>3
<1>6. ServerInv' /\ ServerStep /\ UserRoomsKept /\ \A ns : PlacesKept(ns)
  BY <1>1, <1>2, <1>4, <1>5, AcceptMoves DEF Inv
<1>7. ScanRoomsKept
  BY <1>2 DEF ScanRoomsKept
<1> QED BY <1>2, <1>6, <1>7, NoticeQuiet, ScanQuiet DEF Inv

\* A socket is registered for its user and joins that user's room, among others.
LEMMA NoticeEnters ==
    ASSUME Inv, NEW c \in Sockets, NEW u \in Users, UNCHANGED <<link, auth, raced, scan>>,
           link[c] # "new", auth[c].ns = "notifications", IsOpen(c) \/ c \in raced,
           user[c] \in {None, u},
           user' = [user EXCEPT ![c] = u], userSockets' = N!Registered(u, c),
           checking' = checking \/ checking' = checking \ {c}, c \notin checking',
           NEW names \in SUBSET Rooms, Join(c, names), <<"user", u>> \in names,
           \A v \in Users : <<"user", v>> \in names => v = u,
           \A s \in Sessions : <<"scan", s>> \notin names
    PROVE  Inv'
<1>1. ServerInv' /\ ServerStep /\ \A ns : PlacesKept(ns)
  BY JoinMoves DEF Inv
<1>2. ScanInv'
  BY <1>1, OtherRooms, ScanQuiet DEF Inv
<1>3. /\ user'[c] = u /\ user' \in [Sockets -> Users \cup {None}]
      /\ \A d \in Sockets \ {c} : user'[d] = user[d]
  BY DEF Inv, NoticeInv, N!GatewayTypeOK
<1>4. /\ DOMAIN userSockets' = DOMAIN userSockets \cup {u}
      /\ \A v \in DOMAIN userSockets' : \A d :
             d \in userSockets'[v] <=>
                 (v \in DOMAIN userSockets /\ d \in userSockets[v]) \/ (v = u /\ d = c)
  BY RegisterMoves DEF Inv
<1>5. N!GatewayTypeOK'
  BY <1>3, <1>4 DEF Inv, NoticeInv, N!GatewayTypeOK
<1>6. \A d \in Sockets : Fresh(d)' => Fresh(d) /\ d # c
  BY DEF Fresh
<1>7. \A d \in Sockets : Fresh(d)' =>
          user'[d] = None /\ \A v \in DOMAIN userSockets' : d \notin userSockets'[v]
  BY <1>3, <1>4, <1>6 DEF Inv, NoticeInv
<1>8. \A d \in Sockets : user'[d] # None => auth'[d].ns = "notifications"
  BY <1>3 DEF Inv, NoticeInv
<1>9. \A v \in DOMAIN userSockets' : \A d \in userSockets'[v] : Placed(d, "notifications")'
  BY <1>4 DEF Inv, NoticeInv, Placed, IsOpen
<1>10. \A v \in Users, d \in Sockets : IsOpen(d)' /\ user'[d] = v =>
           v \in DOMAIN userSockets' /\ d \in userSockets'[v]
  BY <1>3, <1>4 DEF Inv, NoticeInv, IsOpen
<1>11. \A v \in Users, d \in Sockets :
           <<<<"user", v>>, d>> \in rooms' <=> IsOpen(d)' /\ user'[d] = v
  <2> SUFFICES ASSUME NEW v \in Users, NEW d \in Sockets
               PROVE  <<<<"user", v>>, d>> \in rooms' <=> IsOpen(d) /\ user'[d] = v
    BY DEF IsOpen
  <2>1. <<<<"user", v>>, d>> \in rooms' <=>
            \/ <<<<"user", v>>, d>> \in rooms
            \/ d = c /\ IsOpen(c) /\ <<"user", v>> \in names
    BY DEF Join
  <2>2. <<<<"user", v>>, d>> \in rooms <=> IsOpen(d) /\ user[d] = v
    BY DEF Inv, NoticeInv
  <2>3. v # None
    BY SocketAssumption
  <2>4. CASE d = c
    BY <1>3, <2>1, <2>2, <2>3, <2>4
  <2>5. CASE d # c
    BY <1>3, <2>1, <2>2, <2>5
  <2> QED BY <2>4, <2>5
<1>12. NoticeInv'
  BY <1>5, <1>7, <1>8, <1>9, <1>10, <1>11 DEF NoticeInv
<1> QED BY <1>1, <1>2, <1>12 DEF Inv

LEMMA NoticeCheckPasses ==
    ASSUME Inv, NEW c \in Sockets, N!CheckPasses(c), UNCHANGED scan
    PROVE  Inv'
<1> DEFINE u     == auth[c].token
           names == N!UserRooms(u)
<1>1. /\ c \in checking /\ auth[c].ns = "notifications" /\ checking' = checking \ {c}
      /\ user' = [user EXCEPT ![c] = u] /\ userSockets' = N!Registered(u, c)
      /\ Join(c, names) /\ UNCHANGED <<link, auth, raced>>
  BY DEF N!CheckPasses, N!Answered, N!Join, Join, N!IsOpen, IsOpen
<1>2. u \in Users /\ link[c] # "new" /\ (IsOpen(c) \/ c \in raced)
  BY <1>1 DEF Inv, ServerInv
<1>3. user[c] = None
  BY <1>1 DEF Inv, NoticeInv, Fresh
<1>4. /\ names \subseteq Rooms /\ <<"user", u>> \in names
      /\ \A n \in names : n = <<"user", u>> \/ n \in {"tenant"} \X Tenants
  BY <1>2, SocketAssumption DEF N!UserRooms, Rooms
<1> HIDE DEF names, u
<1>5. \A v \in Users : <<"user", v>> \in names => v = u
  BY <1>4
<1>6. \A s \in Sessions : <<"scan", s>> \notin names
  BY <1>4
<1> QED BY <1>1, <1>2, <1>3, <1>4, <1>5, <1>6, NoticeEnters

LEMMA NoticeRegister ==
    ASSUME Inv, NEW c \in Sockets, NEW named, N!HandleRegister(c, named), UNCHANGED scan
    PROVE  Inv'
<1> DEFINE u == user[c]
<1>1. /\ IsOpen(c) /\ u # None
      /\ userSockets' = N!Registered(u, c)
      /\ Join(c, {<<"user", u>>}) /\ UNCHANGED <<link, auth, checking, raced, user>>
  BY DEF N!HandleRegister, N!From, N!IsOpen, N!Join, Join, IsOpen
<1>2. u \in Users /\ user' = [user EXCEPT ![c] = u]
  BY <1>1 DEF Inv, NoticeInv, N!GatewayTypeOK
<1>3. link[c] # "new" /\ c \notin checking' /\ auth[c].ns = "notifications"
  BY <1>1 DEF Inv, NoticeInv, Fresh
<1>4. {<<"user", u>>} \subseteq Rooms
  BY <1>2 DEF Rooms
<1>5. /\ \A v \in Users : <<"user", v>> \in {<<"user", u>>} => v = u
      /\ \A s \in Sessions : <<"scan", s>> \notin {<<"user", u>>}
  OBVIOUS
<1> DEFINE names == {<<"user", u>>}
<1>6. /\ names \in SUBSET Rooms /\ <<"user", u>> \in names /\ Join(c, names)
      /\ \A v \in Users : <<"user", v>> \in names => v = u
      /\ \A s \in Sessions : <<"scan", s>> \notin names
      /\ user[c] \in {None, u} /\ checking' = checking /\ UNCHANGED <<link, auth, raced, scan>>
  BY <1>1, <1>4, <1>5
<1> HIDE DEF names, u
<1> QED BY <1>1, <1>2, <1>3, <1>6, NoticeEnters

\* The end of a connection, refused or closed.
LEMMA NoticeCloses ==
    ASSUME Inv, NEW c \in Sockets, N!CheckFails(c) \/ N!HandleDisconnect(c), UNCHANGED scan
    PROVE  Inv'
<1>1. /\ auth[c].ns = "notifications" /\ Close(c) /\ UNCHANGED <<auth, user>>
      /\ userSockets' = N!Unregistered(c)
      /\ \/ checking' = checking \ {c} /\ raced' = raced
         \/ checking' = checking /\ raced' = IF c \in checking THEN raced \cup {c} ELSE raced
      /\ c \in checking \/ IsOpen(c)
  BY DEF N!CheckFails, N!HandleDisconnect, N!ClosedByClient, N!Answered, N!Close, Close,
         N!IsOpen, IsOpen
<1>2. link[c] # "new"
  BY <1>1 DEF Inv, ServerInv, IsOpen
<1>3. /\ ServerInv' /\ ServerStep /\ UserRoomsKept /\ ScanRoomsKept
      /\ PlacesKept("scan")
      /\ \A d \in Sockets \ {c} : link'[d] = link[d]
      /\ link'[c] = "closed" /\ raced \subseteq raced'
  BY <1>1, <1>2, CloseMoves DEF Inv
<1>4. ScanInv'
  BY <1>3, ScanQuiet DEF Inv
<1>5. /\ DOMAIN userSockets' \subseteq DOMAIN userSockets
      /\ \A v \in DOMAIN userSockets' : userSockets'[v] = userSockets[v] \ {c}
      /\ \A v \in DOMAIN userSockets : \A d \in userSockets[v] :
             d # c => v \in DOMAIN userSockets'
  BY <1>1, UnregisterMoves DEF Inv
<1>6. N!GatewayTypeOK'
  BY <1>1, <1>5 DEF Inv, NoticeInv, N!GatewayTypeOK
<1>7. \A d \in Sockets : Fresh(d)' =>
          user'[d] = None /\ \A v \in DOMAIN userSockets' : d \notin userSockets'[v]
  BY <1>1, <1>3, <1>5 DEF Inv, NoticeInv, ServerStep
<1>8. \A d \in Sockets : user'[d] # None => auth'[d].ns = "notifications"
  BY <1>1 DEF Inv, NoticeInv
<1>9. \A v \in DOMAIN userSockets' : \A d \in userSockets'[v] : Placed(d, "notifications")'
  BY <1>1, <1>3, <1>5 DEF Inv, NoticeInv, N!GatewayTypeOK, Placed, IsOpen
<1>10. \A v \in Users, d \in Sockets : IsOpen(d)' => IsOpen(d) /\ d # c
  BY <1>3 DEF IsOpen
<1>11. \A v \in Users, d \in Sockets : IsOpen(d)' /\ user'[d] = v =>
           v \in DOMAIN userSockets' /\ d \in userSockets'[v]
  BY <1>1, <1>5, <1>10 DEF Inv, NoticeInv
<1>12. \A v \in Users, d \in Sockets :
           <<<<"user", v>>, d>> \in rooms' <=> IsOpen(d)' /\ user'[d] = v
  BY <1>1, <1>3, <1>10 DEF Inv, NoticeInv, UserRoomsKept
<1>13. NoticeInv'
  BY <1>6, <1>7, <1>8, <1>9, <1>11, <1>12 DEF NoticeInv
<1> QED BY <1>3, <1>4, <1>13 DEF Inv

\* The rooms of teams and tenants.
LEMMA NoticeRooms ==
    ASSUME Inv, NEW c \in Sockets, UNCHANGED scan,
           \/ \E team \in Teams : N!HandleJoinTeam(c, team) \/ N!HandleLeaveTeam(c, team)
           \/ \E tenant \in Tenants : N!HandleJoinTenant(c, tenant)
    PROVE  Inv'
<1>1. link[c] # "new" /\ c \notin checking /\ UNCHANGED <<link, auth, checking, raced, notifications>>
  BY DEF N!HandleJoinTeam, N!HandleLeaveTeam, N!HandleJoinTenant, N!From, N!IsOpen,
         N!registry, notifications, Inv, NoticeInv, Fresh
<1>2. CASE \E n \in ({"team"} \X Teams) \cup ({"tenant"} \X Tenants) : Join(c, {n})
  <2>1. PICK n \in ({"team"} \X Teams) \cup ({"tenant"} \X Tenants) : Join(c, {n})
    BY <1>2
  <2>2. {n} \subseteq Rooms
    BY DEF Rooms
  <2>3. ServerInv' /\ ServerStep /\ \A ns : PlacesKept(ns)
    BY <1>1, <2>1, <2>2, JoinMoves DEF Inv
  <2>4. (\A s \in Sessions : <<"scan", s>> # n) /\ (\A u \in Users : <<"user", u>> # n)
    OBVIOUS
  <2>5. ScanRoomsKept /\ UserRoomsKept
    BY <1>1, <2>1, <2>2, <2>4, OtherRooms DEF Inv
  <2> QED BY <1>1, <2>3, <2>5, NoticeQuiet, ScanQuiet DEF Inv
<1>3. CASE \E team \in Teams : N!HandleLeaveTeam(c, team)
  <2>1. PICK team \in Teams : rooms' = rooms \ {<<<<"team", team>>, c>>}
    BY <1>3 DEF N!HandleLeaveTeam
  <2>2. ServerInv'
    BY <1>1, <2>1 DEF Inv, ServerInv, ServerTypeOK, IsOpen
  <2>3. ServerStep /\ \A ns : PlacesKept(ns)
    BY <1>1 DEF ServerStep, PlacesKept, Placed, Fresh, IsOpen
  <2>4. ScanRoomsKept
    BY <2>1 DEF ScanRoomsKept
  <2>5. UserRoomsKept
    <3>1. \A u \in Users, d \in Sockets : <<<<"user", u>>, d>> \in rooms =>
              <<<<"user", u>>, d>> \in rooms' /\ IsOpen(d)'
      BY <1>1, <2>1 DEF Inv, NoticeInv, IsOpen
    <3> QED BY <2>1, <3>1 DEF UserRoomsKept
  <2> QED BY <1>1, <2>2, <2>3, <2>4, <2>5, NoticeQuiet, ScanQuiet DEF Inv
<1>4. \/ \E team \in Teams : N!HandleLeaveTeam(c, team)
      \/ \E n \in ({"team"} \X Teams) \cup ({"tenant"} \X Tenants) : Join(c, {n})
  <2>1. ASSUME NEW team \in Teams, N!HandleJoinTeam(c, team)
        PROVE  Join(c, {<<"team", team>>}) /\ <<"team", team>> \in {"team"} \X Teams
    BY <2>1 DEF N!HandleJoinTeam, N!Join, Join, N!IsOpen, IsOpen
  <2>2. ASSUME NEW tenant \in Tenants, N!HandleJoinTenant(c, tenant)
        PROVE  Join(c, {<<"tenant", tenant>>}) /\ <<"tenant", tenant>> \in {"tenant"} \X Tenants
    BY <2>2 DEF N!HandleJoinTenant, N!Join, Join, N!IsOpen, IsOpen
  <2> QED BY <2>1, <2>2
<1> QED BY <1>2, <1>3, <1>4

LEMMA NoticeNext == Inv /\ N!Next /\ UNCHANGED scan => Inv'
<1> SUFFICES ASSUME Inv, UNCHANGED scan, NEW c \in Sockets,
                    \/ \E u \in Users \cup {None} : N!HandleConnection(c, u)
                    \/ N!Check(c)
                    \/ N!HandleDisconnect(c)
                    \/ \E u \in Users : N!HandleRegister(c, u)
                    \/ \E team \in Teams : N!HandleJoinTeam(c, team) \/ N!HandleLeaveTeam(c, team)
                    \/ \E tenant \in Tenants : N!HandleJoinTenant(c, tenant)
             PROVE  Inv'
  BY DEF N!Next
<1> QED BY NoticeConnection, NoticeCheckPasses, NoticeRegister, NoticeCloses, NoticeRooms
        DEF N!Check

-----------------------------------------------------------------------------
(* The scan gateway.                                                       *)

\* A step of the scan gateway moves the server in a way the other does not notice.
LEMMA ScanStep ==
    ASSUME Inv, ServerInv', ServerStep, PlacesKept("notifications"), UserRoomsKept,
           UNCHANGED notifications, ScanInv'
    PROVE  Inv'
BY NoticeQuiet DEF Inv

LEMMA ServerSame ==
    ASSUME Inv, UNCHANGED server
    PROVE  ServerInv' /\ ServerStep /\ UserRoomsKept /\ ScanRoomsKept /\ \A ns : PlacesKept(ns)
<1>1. UNCHANGED <<link, auth, checking, rooms, raced>>
  BY DEF server
<1>2. ServerInv'
  BY <1>1 DEF Inv, ServerInv, ServerTypeOK, IsOpen
<1>3. ServerStep /\ ScanRoomsKept /\ \A ns : PlacesKept(ns)
  BY <1>1 DEF ServerStep, ScanRoomsKept, PlacesKept, Placed, Fresh, IsOpen
<1>4. UserRoomsKept
  BY <1>1 DEF Inv, NoticeInv, UserRoomsKept, IsOpen
<1> QED BY <1>2, <1>3, <1>4

\* The parts of NoCodeLost and RoomsAreAuthorised that speak of one member of a room.
Authorised(s, c) ==
    \/ auth[c].session = s
    \/ auth[c].token # None /\ s \in DOMAIN sessions /\ auth[c].token = sessions[s].user

HasCodes(s, c) ==
    meta[c].role = "desktop" /\ <<c, s>> \notin joining => {s} \X sessions[s].codes \subseteq got[c]

LEMMA RoomsByMember ==
    /\ RoomsAreAuthorised <=>
           \A s \in Sessions, c \in Sockets : <<<<"scan", s>>, c>> \in rooms => Authorised(s, c)
    /\ NoCodeLost <=>
           \A s \in DOMAIN sessions, c \in Sockets : <<<<"scan", s>>, c>> \in rooms => HasCodes(s, c)
BY DEF RoomsAreAuthorised, NoCodeLost, Members, Authorised, HasCodes

\* A step that leaves the server alone.
LEMMA ScanQuietServer ==
    ASSUME Inv, UNCHANGED <<server, notifications, meta>>, S!GatewayTypeOK',
           \A s \in DOMAIN sessions : s \in DOMAIN sessions' /\ sessions'[s].user = sessions[s].user,
           \A s \in DOMAIN sessions', c \in Sockets :
               <<<<"scan", s>>, c>> \in rooms => HasCodes(s, c)'
    PROVE  Inv'
<1>1. ServerInv' /\ ServerStep /\ UserRoomsKept /\ \A ns : PlacesKept(ns)
  BY ServerSame
<1>2. UNCHANGED <<link, auth, checking, rooms, raced>>
  BY DEF server
<1>3. RoomsAreAuthorised'
  BY <1>2, RoomsByMember DEF Inv, ScanInv, RoomsAreAuthorised, Members
<1>4. NoCodeLost'
  BY <1>2 DEF NoCodeLost, HasCodes, Members
<1>5. \A c \in Sockets : meta'[c] # None => MetaOK(c)'
  BY <1>1, MetaKept DEF Inv
<1>6. \A c \in Sockets : Fresh(c)' => meta'[c] = None
  BY <1>2 DEF Inv, ScanInv, Fresh
<1>7. ScanInv'
  BY <1>3, <1>4, <1>5, <1>6 DEF ScanInv
<1> QED BY <1>1, <1>7, ScanStep

LEMMA ScanClock ==
    ASSUME Inv, S!Tick \/ S!CleanExpired, UNCHANGED notifications
    PROVE  Inv'
<1>1. UNCHANGED <<server, sessions, meta, joining, got>>
  BY DEF S!Tick, S!CleanExpired, S!server, server
<1>2. now' \in 0..MaxNow
  BY ScanAssumption DEF S!Tick, S!CleanExpired, Inv, ScanInv, S!GatewayTypeOK, S!Times
<1>3. stored' \subseteq stored
  BY DEF S!Tick, S!CleanExpired
<1>4. S!GatewayTypeOK'
  BY <1>1, <1>2, <1>3 DEF Inv, ScanInv, S!GatewayTypeOK, S!Known, S!Times, S!Meta
<1>5. \A s \in DOMAIN sessions', c \in Sockets :
          <<<<"scan", s>>, c>> \in rooms => HasCodes(s, c)'
  BY <1>1, RoomsByMember DEF Inv, ScanInv, HasCodes
<1> QED BY <1>1, <1>4, <1>5, ScanQuietServer

LEMMA ScanCreate ==
    ASSUME Inv, NEW s \in Sessions, NEW u \in Users, S!Create(s, u), UNCHANGED notifications
    PROVE  Inv'
<1> DEFINE row == [user |-> u, codes |-> {}, expiresAt |-> now + Ttl]
<1>1. /\ s \notin DOMAIN sessions /\ DOMAIN sessions' = DOMAIN sessions \cup {s}
      /\ sessions'[s] = row
      /\ \A q \in DOMAIN sessions : sessions'[q] = sessions[q]
      /\ stored' = stored \cup {s}
      /\ UNCHANGED <<server, now, meta, joining, got>>
  BY DEF S!Create, S!Known, S!server, server
<1>2. now + Ttl \in 0..(MaxNow + Ttl)
  BY ScanAssumption DEF Inv, ScanInv, S!GatewayTypeOK, S!Times
<1>3. row \in [user : Users, codes : SUBSET Codes, expiresAt : 0..(MaxNow + Ttl)] /\ row.codes = {}
  BY <1>2
<1> HIDE DEF row
<1>4. S!GatewayTypeOK'
  BY <1>1, <1>3 DEF Inv, ScanInv, S!GatewayTypeOK, S!Known, S!Times, S!Meta
<1>5. ASSUME NEW q \in DOMAIN sessions', NEW c \in Sockets, <<<<"scan", q>>, c>> \in rooms
      PROVE  HasCodes(q, c)'
  <2>1. CASE q = s
    BY <1>1, <1>3, <2>1 DEF HasCodes
  <2>2. CASE q # s
    BY <1>1, <1>5, <2>2, RoomsByMember DEF Inv, ScanInv, HasCodes
  <2> QED BY <2>1, <2>2
<1> QED BY <1>1, <1>4, <1>5, ScanQuietServer

\* Codes are emitted to open sockets of C.
LEMMA EmitMoves ==
    ASSUME Inv, NEW C, NEW s \in Sessions, NEW codes \in SUBSET Codes, S!Emit(C, s, codes)
    PROVE  /\ got' \in [Sockets -> SUBSET (Sessions \X Codes)]
           /\ \A c \in Sockets : got[c] \subseteq got'[c]
           /\ \A c \in Sockets : c \in C => {s} \X codes \subseteq got'[c]
<1>1. {s} \X codes \subseteq Sessions \X Codes
  OBVIOUS
<1>2. got \in [Sockets -> SUBSET (Sessions \X Codes)]
  BY DEF Inv, ScanInv, S!GatewayTypeOK
<1> DEFINE all == {s} \X codes
<1>3. got' = [c \in Sockets |-> IF c \in C THEN got[c] \cup all ELSE got[c]]
  BY DEF S!Emit
<1> HIDE DEF all
<1>4. all \subseteq Sessions \X Codes
  BY <1>1 DEF all
<1>5. /\ got' \in [Sockets -> SUBSET (Sessions \X Codes)]
      /\ \A c \in Sockets : got[c] \subseteq got'[c]
      /\ \A c \in Sockets : c \in C => all \subseteq got'[c]
  BY <1>2, <1>3, <1>4
<1> QED BY <1>5 DEF all

\* The rest of a join: the desktop has the codes when the room has it.
LEMMA ScanReplay ==
    ASSUME Inv, NEW c \in Sockets, NEW s \in Sessions, S!Replay(c, s), UNCHANGED notifications
    PROVE  Inv'
<1> DEFINE C == {c} \cap {d \in Sockets : IsOpen(d)}
<1>1. /\ <<c, s>> \in joining /\ joining' = joining \ {<<c, s>>}
      /\ S!Emit(C, s, sessions[s].codes)
      /\ UNCHANGED <<server, now, sessions, stored, meta>>
  BY DEF S!Replay, S!server, server, S!IsOpen, IsOpen
<1>2. s \in DOMAIN sessions /\ sessions[s].codes \in SUBSET Codes
  BY <1>1 DEF Inv, ScanInv, S!GatewayTypeOK, S!Known
<1> HIDE DEF C
<1>3. /\ got' \in [Sockets -> SUBSET (Sessions \X Codes)]
      /\ \A d \in Sockets : got[d] \subseteq got'[d]
      /\ \A d \in Sockets : d \in C => {s} \X sessions[s].codes \subseteq got'[d]
  <2> DEFINE codes == sessions[s].codes
  <2>1. codes \in SUBSET Codes /\ S!Emit(C, s, codes)
    BY <1>1, <1>2
  <2> HIDE DEF codes
  <2>2. /\ got' \in [Sockets -> SUBSET (Sessions \X Codes)]
        /\ \A d \in Sockets : got[d] \subseteq got'[d]
        /\ \A d \in Sockets : d \in C => {s} \X codes \subseteq got'[d]
    BY <2>1, EmitMoves
  <2> QED BY <2>2 DEF codes
<1>4. S!GatewayTypeOK'
  BY <1>1, <1>3 DEF Inv, ScanInv, S!GatewayTypeOK, S!Known, S!Times, S!Meta
<1>5. ASSUME NEW q \in DOMAIN sessions', NEW d \in Sockets, <<<<"scan", q>>, d>> \in rooms
      PROVE  HasCodes(q, d)'
  <2>1. q \in Sessions /\ q \in DOMAIN sessions
    BY <1>1, <1>5 DEF Inv, ScanInv, S!GatewayTypeOK, S!Known
  <2>2. CASE d = c /\ q = s
    <3>1. c \in C
      BY <1>5, <2>1, <2>2, MembersSpoke DEF Inv, C
    <3> QED BY <1>1, <1>3, <2>2, <3>1 DEF HasCodes
  <2>3. CASE ~(d = c /\ q = s)
    <3>1. HasCodes(q, d)
      BY <1>5, <2>1, RoomsByMember DEF Inv, ScanInv
    <3>2. <<d, q>> \in joining' <=> <<d, q>> \in joining
      BY <1>1, <2>3
    <3> QED BY <1>1, <1>3, <3>1, <3>2 DEF HasCodes
  <2> QED BY <2>2, <2>3
<1> QED BY <1>1, <1>4, <1>5, ScanQuietServer

\* The codes of a session grow by what its room is sent.
LEMMA ScanCodes ==
    ASSUME Inv, NEW c \in Sockets, (\E code \in Codes : S!HandleCode(c, code)) \/ S!HandleSubmit(c),
           UNCHANGED notifications
    PROVE  Inv'
<1> DEFINE s == meta[c].session
<1>0. /\ IsOpen(c) /\ meta[c] # None /\ meta[c].role = "mobile" /\ s \in stored
      /\ UNCHANGED <<server, now, stored, meta, joining>>
  BY DEF S!HandleCode, S!HandleSubmit, S!From, S!IsOpen, IsOpen, S!Valid, S!server, server
<1>1. s \in Sessions /\ s \in DOMAIN sessions
      /\ sessions[s] \in [user : Users, codes : SUBSET Codes, expiresAt : 0..(MaxNow + Ttl)]
  BY <1>0 DEF Inv, ScanInv, S!GatewayTypeOK, S!Known
<1> HIDE DEF s
<1>2. \E codes \in SUBSET Codes :
          /\ DOMAIN sessions' = DOMAIN sessions
          /\ \A q \in DOMAIN sessions : q # s => sessions'[q] = sessions[q]
          /\ sessions'[s] \in [user : Users, codes : SUBSET Codes, expiresAt : 0..(MaxNow + Ttl)]
          /\ sessions'[s].user = sessions[s].user
          /\ sessions'[s].codes \subseteq sessions[s].codes \cup codes
          /\ S!Emit(Members(<<"scan", s>>), s, codes)
  <2>1. ASSUME NEW code \in Codes, S!HandleCode(c, code)
        PROVE  /\ {code} \in SUBSET Codes
               /\ DOMAIN sessions' = DOMAIN sessions
               /\ \A q \in DOMAIN sessions : q # s => sessions'[q] = sessions[q]
               /\ sessions'[s] = [sessions[s] EXCEPT !.codes = sessions[s].codes \cup {code}]
               /\ S!Emit(Members(<<"scan", s>>), s, {code})
    BY <1>1, <2>1 DEF S!HandleCode, S!Members, Members, s
  <2>2. ASSUME NEW code \in Codes
        PROVE  LET row == [sessions[s] EXCEPT !.codes = sessions[s].codes \cup {code}]
               IN  /\ row \in [user : Users, codes : SUBSET Codes, expiresAt : 0..(MaxNow + Ttl)]
                   /\ row.user = sessions[s].user /\ row.codes = sessions[s].codes \cup {code}
    BY <1>1
  <2>3. CASE \E code \in Codes : S!HandleCode(c, code)
    <3>1. PICK code \in Codes : S!HandleCode(c, code)
      BY <2>3
    <3> WITNESS {code} \in SUBSET Codes
    <3> QED BY <2>1, <2>2, <3>1
  <2>4. CASE S!HandleSubmit(c)
    <3>1. sessions[s].codes \in SUBSET Codes
      BY <1>1
    <3>2. sessions' = sessions /\ S!Emit(Members(<<"scan", s>>), s, sessions[s].codes)
      BY <2>4 DEF S!HandleSubmit, S!Members, Members, s
    <3> WITNESS sessions[s].codes \in SUBSET Codes
    <3> QED BY <1>1, <3>2
  <2> QED BY <2>3, <2>4
<1>3. PICK codes \in SUBSET Codes :
          /\ DOMAIN sessions' = DOMAIN sessions
          /\ \A q \in DOMAIN sessions : q # s => sessions'[q] = sessions[q]
          /\ sessions'[s] \in [user : Users, codes : SUBSET Codes, expiresAt : 0..(MaxNow + Ttl)]
          /\ sessions'[s].user = sessions[s].user
          /\ sessions'[s].codes \subseteq sessions[s].codes \cup codes
          /\ S!Emit(Members(<<"scan", s>>), s, codes)
  BY <1>2
<1>4. /\ got' \in [Sockets -> SUBSET (Sessions \X Codes)]
      /\ \A d \in Sockets : got[d] \subseteq got'[d]
      /\ \A d \in Sockets : d \in Members(<<"scan", s>>) => {s} \X codes \subseteq got'[d]
  <2> DEFINE C == Members(<<"scan", s>>)
  <2>1. S!Emit(C, s, codes)
    BY <1>3
  <2> HIDE DEF C
  <2>2. /\ got' \in [Sockets -> SUBSET (Sessions \X Codes)]
        /\ \A d \in Sockets : got[d] \subseteq got'[d]
        /\ \A d \in Sockets : d \in C => {s} \X codes \subseteq got'[d]
    BY <1>1, <2>1, EmitMoves
  <2> QED BY <2>2 DEF C
<1>5. S!GatewayTypeOK'
  <2>1. \A q \in DOMAIN sessions' :
            sessions'[q] \in [user : Users, codes : SUBSET Codes, expiresAt : 0..(MaxNow + Ttl)]
    BY <1>3 DEF Inv, ScanInv, S!GatewayTypeOK, S!Known
  <2> QED BY <1>0, <1>3, <1>4, <2>1 DEF Inv, ScanInv, S!GatewayTypeOK, S!Known, S!Times, S!Meta
<1>6. \A q \in DOMAIN sessions : q \in DOMAIN sessions' /\ sessions'[q].user = sessions[q].user
  BY <1>3
<1>7. ASSUME NEW q \in DOMAIN sessions', NEW d \in Sockets, <<<<"scan", q>>, d>> \in rooms
      PROVE  HasCodes(q, d)'
  <2>1. HasCodes(q, d)
    BY <1>3, <1>7, RoomsByMember DEF Inv, ScanInv
  <2>2. CASE q = s
    <3>1. {s} \X codes \subseteq got'[d]
      BY <1>4, <1>7, <2>2 DEF Members
    <3>2. got[d] \subseteq got'[d]
      BY <1>4
    <3> QED BY <1>0, <1>3, <2>1, <2>2, <3>1, <3>2 DEF HasCodes
  <2>3. CASE q # s
    BY <1>0, <1>3, <1>4, <1>7, <2>1, <2>3 DEF HasCodes
  <2> QED BY <2>2, <2>3
<1> QED BY <1>0, <1>5, <1>6, <1>7, ScanQuietServer

LEMMA ScanConnectMobile ==
    ASSUME Inv, NEW c \in Sockets, NEW s \in Sessions, S!ConnectMobile(c, s),
           UNCHANGED notifications
    PROVE  Inv'
<1> DEFINE h  == [ns |-> "scan", token |-> None, session |-> s]
           to == IF S!Valid(s) THEN "open" ELSE "closed"
           m  == [role |-> "mobile", session |-> s]
<1>1. /\ h \in Auth /\ h.ns = "scan" /\ h.token = None /\ h.session = s
      /\ to \in {"open", "closed"}
  BY DEF Auth
<1>2. m \in S!Meta /\ m.role = "mobile" /\ m.session = s
  BY DEF S!Meta
<1>3. /\ Accept(c, h, to) /\ UNCHANGED <<checking, now, sessions, stored, joining, got>>
      /\ \/ /\ to = "open" /\ meta' = [meta EXCEPT ![c] = m]
            /\ rooms' = rooms \cup {<<<<"scan", s>>, c>>}
         \/ to = "closed" /\ UNCHANGED <<meta, rooms>>
  BY DEF S!ConnectMobile, S!Accept, Accept
<1> HIDE DEF h, to, m
<1>4. c \notin checking'
  BY <1>3 DEF Inv, ServerInv, Accept
<1>4a. rooms' = rooms
          \/ \E q \in Sessions : rooms' = rooms \cup {<<<<"scan", q>>, c>>} /\ c \notin checking'
  BY <1>3, <1>4
<1>5. /\ ServerInv' /\ ServerStep /\ UserRoomsKept
      /\ \A ns : PlacesKept(ns)
      /\ link[c] = "new" /\ auth'[c] = h /\ link'[c] = to
      /\ \A d \in Sockets \ {c} : link'[d] = link[d] /\ auth'[d] = auth[d]
      /\ c \notin checking
      /\ \A r \in Rooms : <<r, c>> \notin rooms
  BY <1>1, <1>3, <1>4a, AcceptMoves DEF Inv
<1>6. /\ \A d \in Sockets \ {c} : meta'[d] = meta[d]
      /\ meta'[c] # None => meta'[c] = m /\ to = "open"
      /\ meta' \in [Sockets -> S!Meta \cup {None}]
      /\ to = "closed" => meta'[c] = None
  <2>1. meta[c] = None
    BY <1>5 DEF Inv, ScanInv, Fresh
  <2> QED BY <1>2, <1>3, <2>1 DEF Inv, ScanInv, S!GatewayTypeOK
<1>7. S!GatewayTypeOK'
  BY <1>3, <1>6 DEF Inv, ScanInv, S!GatewayTypeOK, S!Known, S!Times, S!Meta
<1>8. \A d \in Sockets : Fresh(d)' => meta'[d] = None
  BY <1>4, <1>5, <1>6, <1>1 DEF Inv, ScanInv, ServerStep, Fresh
<1>9. \A d \in Sockets : meta'[d] # None => MetaOK(d)'
  <2>1. ASSUME NEW d \in Sockets \ {c}, meta'[d] # None PROVE MetaOK(d)'
    BY <1>5, <1>6, <2>1, MetaKept DEF Inv
  <2>2. ASSUME meta'[c] # None PROVE MetaOK(c)'
    <3>1. meta'[c] = m /\ link'[c] = "open"
      BY <1>5, <1>6, <2>2
    <3> QED BY <1>1, <1>2, <1>5, <3>1 DEF MetaOK, Placed, IsOpen
  <2> QED BY <2>1, <2>2
<1>10. \A q \in Sessions, d \in Sockets : <<<<"scan", q>>, d>> \in rooms' =>
           \/ d = c /\ q = s
           \/ d # c /\ <<<<"scan", q>>, d>> \in rooms
  <2>1. \A q \in Sessions : <<<<"scan", q>>, c>> \notin rooms
    BY <1>5 DEF Rooms
  <2> QED BY <1>3, <2>1
<1>11. RoomsAreAuthorised'
  <2> SUFFICES ASSUME NEW q \in Sessions, NEW d \in Members(<<"scan", q>>)' PROVE Authorised(q, d)'
    BY DEF RoomsAreAuthorised, Authorised
  <2>1. d \in Sockets /\ <<<<"scan", q>>, d>> \in rooms'
    BY DEF Members
  <2>2. CASE d = c /\ q = s
    BY <1>1, <1>5, <2>2 DEF Authorised
  <2>3. CASE d # c /\ <<<<"scan", q>>, d>> \in rooms
    BY <1>3, <1>5, <2>1, <2>3, RoomsByMember DEF Inv, ScanInv, Authorised
  <2> QED BY <1>10, <2>1, <2>2, <2>3
<1>12. NoCodeLost'
  <2> SUFFICES ASSUME NEW q \in DOMAIN sessions', NEW d \in Members(<<"scan", q>>)',
                      meta'[d].role = "desktop", <<d, q>> \notin joining'
               PROVE  {q} \X sessions'[q].codes \subseteq got'[d]
    BY DEF NoCodeLost
  <2>1. d \in Sockets /\ <<<<"scan", q>>, d>> \in rooms' /\ q \in DOMAIN sessions /\ q \in Sessions
    BY <1>3 DEF Members, Inv, ScanInv, S!GatewayTypeOK, S!Known
  <2>2. CASE d = c /\ q = s
    <3>1. meta'[c] = m
      <4>1. to = "open"
        BY <1>3, <1>5, <2>1, <2>2 DEF Rooms
      <4>2. meta' = [meta EXCEPT ![c] = m]
        BY <1>3, <4>1
      <4> QED BY <4>2 DEF Inv, ScanInv, S!GatewayTypeOK
    <3> QED BY <1>2, <2>2, <3>1
  <2>3. CASE d # c /\ <<<<"scan", q>>, d>> \in rooms
    BY <1>3, <1>6, <2>1, <2>3, RoomsByMember DEF Inv, ScanInv, HasCodes
  <2> QED BY <1>10, <2>1, <2>2, <2>3
<1>13. ScanInv'
  BY <1>7, <1>8, <1>9, <1>11, <1>12 DEF ScanInv
<1> QED BY <1>5, <1>13, ScanStep

LEMMA ScanConnectDesktop ==
    ASSUME Inv, NEW c \in Sockets, NEW u \in Users \cup {None}, S!ConnectDesktop(c, u),
           UNCHANGED notifications
    PROVE  Inv'
<1> DEFINE h  == [ns |-> "scan", token |-> u, session |-> None]
           to == IF u = None THEN "closed" ELSE "open"
<1>1. h \in Auth /\ h.token = u /\ to \in {"open", "closed"}
  BY DEF Auth
<1>2. Accept(c, h, to) /\ UNCHANGED <<rooms, scan>>
      /\ checking' = IF u = None THEN checking ELSE checking \cup {c}
  BY DEF S!ConnectDesktop, S!Accept, Accept, S!scan, scan
<1>3. u # None => u \in Users
  OBVIOUS
<1> HIDE DEF h, to
<1>4. to = "closed" => UNCHANGED <<checking, rooms>>
  BY <1>2 DEF to
<1>5. checking' = checking \/ (checking' = checking \cup {c} /\ h.token \in Users)
  BY <1>1, <1>2, <1>3
<1>6. ServerInv' /\ ServerStep /\ UserRoomsKept /\ \A ns : PlacesKept(ns)
  BY <1>1, <1>2, <1>4, <1>5, AcceptMoves DEF Inv
<1>7. ScanRoomsKept
  BY <1>2 DEF ScanRoomsKept
<1>8. ScanInv'
  BY <1>2, <1>6, <1>7, ScanQuiet DEF Inv
<1> QED BY <1>6, <1>8, ScanStep

\* A desktop is known when its token has been checked; it is in no room yet.
LEMMA ScanCheckPasses ==
    ASSUME Inv, NEW c \in Sockets, S!CheckPasses(c), UNCHANGED notifications
    PROVE  Inv'
<1> DEFINE m == [role |-> "desktop", user |-> auth[c].token]
<1>1. /\ c \in checking /\ auth[c].ns = "scan" /\ checking' = checking \ {c}
      /\ meta' = [meta EXCEPT ![c] = m]
      /\ UNCHANGED <<link, auth, rooms, raced, now, sessions, stored, joining, got>>
  BY DEF S!CheckPasses, S!Answered
<1>2. auth[c].token \in Users /\ link[c] # "new" /\ (IsOpen(c) \/ c \in raced)
  BY <1>1 DEF Inv, ServerInv
<1>3. m \in S!Meta /\ m.role = "desktop" /\ m.user = auth[c].token
  BY <1>2 DEF S!Meta
<1> HIDE DEF m
<1>4. Join(c, {}) /\ {} \in SUBSET Rooms
  BY <1>1 DEF Join
<1>5. ServerInv' /\ ServerStep /\ \A ns : PlacesKept(ns)
  BY <1>1, <1>2, <1>4, JoinMoves DEF Inv
<1>6. UserRoomsKept
  BY <1>1 DEF Inv, NoticeInv, UserRoomsKept, IsOpen
<1>7. /\ meta' \in [Sockets -> S!Meta \cup {None}] /\ meta'[c] = m
      /\ \A d \in Sockets \ {c} : meta'[d] = meta[d]
  BY <1>1, <1>3 DEF Inv, ScanInv, S!GatewayTypeOK
<1>8. S!GatewayTypeOK'
  BY <1>1, <1>7 DEF Inv, ScanInv, S!GatewayTypeOK, S!Known, S!Times, S!Meta
<1>9. \A d \in Sockets : Fresh(d)' => d # c /\ Fresh(d)
  BY <1>1, <1>2 DEF Fresh
<1>10. \A d \in Sockets : Fresh(d)' => meta'[d] = None
  BY <1>7, <1>9 DEF Inv, ScanInv
<1>11. \A d \in Sockets : meta'[d] # None => MetaOK(d)'
  <2>1. ASSUME NEW d \in Sockets \ {c}, meta'[d] # None PROVE MetaOK(d)'
    BY <1>5, <1>7, <2>1, MetaKept DEF Inv
  <2>2. MetaOK(c)'
    BY <1>1, <1>2, <1>3, <1>7, SocketAssumption DEF MetaOK, Placed, IsOpen
  <2> QED BY <2>1, <2>2
<1>12. RoomsAreAuthorised'
  BY <1>1 DEF Inv, ScanInv, RoomsAreAuthorised, Members
<1>13. NoCodeLost'
  <2> SUFFICES ASSUME NEW q \in DOMAIN sessions', NEW d \in Members(<<"scan", q>>)',
                      meta'[d].role = "desktop", <<d, q>> \notin joining'
               PROVE  {q} \X sessions'[q].codes \subseteq got'[d]
    BY DEF NoCodeLost
  <2>1. d \in Sockets /\ <<<<"scan", q>>, d>> \in rooms /\ q \in DOMAIN sessions /\ q \in Sessions
    BY <1>1 DEF Members, Inv, ScanInv, S!GatewayTypeOK, S!Known
  <2>2. d # c
    BY <1>1, <2>1, MembersSpoke DEF Inv
  <2> QED BY <1>1, <1>7, <2>1, <2>2, RoomsByMember DEF Inv, ScanInv, HasCodes
<1>14. ScanInv'
  BY <1>8, <1>10, <1>11, <1>12, <1>13 DEF ScanInv
<1> QED BY <1>1, <1>5, <1>6, <1>14, ScanStep

\* The end of a connection: what is kept of a closed socket is in no room.
LEMMA ScanCloses ==
    ASSUME Inv, NEW c \in Sockets, S!CheckFails(c) \/ S!HandleDisconnect(c),
           UNCHANGED notifications
    PROVE  Inv'
<1>1. /\ auth[c].ns = "scan" /\ Close(c) /\ UNCHANGED <<auth, now, sessions, stored, joining>>
      /\ \/ c \in checking /\ checking' = checking \ {c} /\ raced' = raced
            /\ UNCHANGED <<meta, got>>
         \/ /\ checking' = checking /\ raced' = IF c \in checking THEN raced \cup {c} ELSE raced
            /\ IsOpen(c)
            /\ meta' = [meta EXCEPT ![c] = None] /\ got' = [got EXCEPT ![c] = {}]
  BY DEF S!CheckFails, S!HandleDisconnect, S!ClosedByClient, S!Answered, S!Close, Close,
         S!IsOpen, IsOpen, S!scan
<1>2. link[c] # "new"
  BY <1>1 DEF Inv, ServerInv, IsOpen
<1>3. /\ ServerInv' /\ ServerStep /\ UserRoomsKept /\ ScanRoomsKept
      /\ PlacesKept("notifications")
      /\ \A d \in Sockets \ {c} : link'[d] = link[d]
      /\ link'[c] = "closed" /\ raced \subseteq raced'
      /\ \A m \in rooms' : m \in rooms /\ m[2] # c
  BY <1>1, <1>2, CloseMoves DEF Inv
<1>4. /\ meta' \in [Sockets -> S!Meta \cup {None}] /\ meta'[c] = None
      /\ got' \in [Sockets -> SUBSET (Sessions \X Codes)]
      /\ \A d \in Sockets \ {c} : meta'[d] = meta[d] /\ got'[d] = got[d]
  <2>1. c \in checking => meta[c] = None
    BY DEF Inv, ScanInv, Fresh
  <2> QED BY <1>1, <2>1 DEF Inv, ScanInv, S!GatewayTypeOK
<1>5. S!GatewayTypeOK'
  BY <1>1, <1>4 DEF Inv, ScanInv, S!GatewayTypeOK, S!Known, S!Times, S!Meta
<1>6. \A d \in Sockets : Fresh(d)' => meta'[d] = None
  BY <1>3, <1>4 DEF Inv, ScanInv, ServerStep
<1>7. ASSUME NEW d \in Sockets, meta'[d] # None PROVE MetaOK(d)'
  <2>1. d # c /\ meta[d] # None /\ meta'[d] = meta[d]
    BY <1>4, <1>7
  <2>2. MetaOK(d)
    BY <2>1 DEF Inv, ScanInv
  <2> QED BY <1>1, <1>3, <2>1, <2>2 DEF MetaOK, Placed, IsOpen
<1>8. \A q \in Sessions, d \in Sockets : <<<<"scan", q>>, d>> \in rooms' =>
          <<<<"scan", q>>, d>> \in rooms /\ d # c
  <2> SUFFICES ASSUME NEW q \in Sessions, NEW d \in Sockets, <<<<"scan", q>>, d>> \in rooms'
               PROVE  <<<<"scan", q>>, d>> \in rooms /\ d # c
    OBVIOUS
  <2>1. <<<<"scan", q>>, d>>[2] = d
    OBVIOUS
  <2> QED BY <1>3, <2>1
<1>9. RoomsAreAuthorised'
  <2> SUFFICES ASSUME NEW q \in Sessions, NEW d \in Members(<<"scan", q>>)' PROVE Authorised(q, d)'
    BY DEF RoomsAreAuthorised, Authorised
  <2>1. d \in Sockets /\ <<<<"scan", q>>, d>> \in rooms'
    BY DEF Members
  <2> QED BY <1>1, <1>8, <2>1, RoomsByMember DEF Inv, ScanInv, Authorised
<1>10. NoCodeLost'
  <2> SUFFICES ASSUME NEW q \in DOMAIN sessions', NEW d \in Members(<<"scan", q>>)',
                      meta'[d].role = "desktop", <<d, q>> \notin joining'
               PROVE  {q} \X sessions'[q].codes \subseteq got'[d]
    BY DEF NoCodeLost
  <2>1. d \in Sockets /\ <<<<"scan", q>>, d>> \in rooms' /\ q \in DOMAIN sessions /\ q \in Sessions
    BY <1>1 DEF Members, Inv, ScanInv, S!GatewayTypeOK, S!Known
  <2>2. <<<<"scan", q>>, d>> \in rooms /\ d # c
    BY <1>8, <2>1
  <2> QED BY <1>1, <1>4, <2>1, <2>2, RoomsByMember DEF Inv, ScanInv, HasCodes
<1>11. ScanInv'
  BY <1>5, <1>6, <1>7, <1>9, <1>10 DEF ScanInv
<1> QED BY <1>3, <1>11, ScanStep

\* A desktop joins the room of a session of its user; its codes are still to come.
LEMMA ScanJoin ==
    ASSUME Inv, NEW c \in Sockets, NEW s \in Sessions, S!HandleJoin(c, s),
           UNCHANGED notifications
    PROVE  Inv'
<1>1. /\ IsOpen(c) /\ meta[c] # None /\ meta[c].role = "desktop"
      /\ s \in stored /\ sessions[s].user = meta[c].user
      /\ Join(c, {<<"scan", s>>}) /\ joining' = joining \cup {<<c, s>>}
      /\ UNCHANGED <<link, auth, checking, raced, now, sessions, stored, meta, got>>
  BY DEF S!HandleJoin, S!From, S!MayJoin, S!IsOpen, IsOpen, S!Join, Join
<1>2. link[c] # "new" /\ c \notin checking /\ s \in DOMAIN sessions
  BY <1>1 DEF Inv, ScanInv, Fresh, S!GatewayTypeOK, S!Known
<1> DEFINE names == {<<"scan", s>>}
<1>3. names \in SUBSET Rooms /\ \A u \in Users : <<"user", u>> \notin names
  BY DEF Rooms
<1>4. Join(c, names)
  BY <1>1
<1>5. \A q \in Sessions, d \in Sockets : <<<<"scan", q>>, d>> \in rooms' =>
          <<<<"scan", q>>, d>> \in rooms \/ (q = s /\ d = c)
  BY <1>4 DEF Join
<1> HIDE DEF names
<1>6. ServerInv' /\ ServerStep /\ \A ns : PlacesKept(ns)
  BY <1>1, <1>2, <1>3, <1>4, JoinMoves DEF Inv
<1>7. UserRoomsKept
  BY <1>1, <1>3, <1>4, OtherRooms DEF Inv
<1>8. S!GatewayTypeOK'
  BY <1>1, <1>2 DEF Inv, ScanInv, S!GatewayTypeOK, S!Known, S!Times, S!Meta
<1>9. \A d \in Sockets : meta'[d] # None => MetaOK(d)'
  BY <1>1, <1>6, MetaKept DEF Inv
<1>10. \A d \in Sockets : Fresh(d)' => meta'[d] = None
  BY <1>1, <1>6 DEF Inv, ScanInv, ServerStep
<1>11. RoomsAreAuthorised'
  <2> SUFFICES ASSUME NEW q \in Sessions, NEW d \in Members(<<"scan", q>>)' PROVE Authorised(q, d)'
    BY DEF RoomsAreAuthorised, Authorised
  <2>1. d \in Sockets /\ <<<<"scan", q>>, d>> \in rooms'
    BY DEF Members
  <2>2. CASE q = s /\ d = c
    BY <1>1, <1>2, <2>2 DEF Inv, ScanInv, MetaOK, Authorised
  <2>3. CASE <<<<"scan", q>>, d>> \in rooms
    BY <1>1, <2>1, <2>3, RoomsByMember DEF Inv, ScanInv, Authorised
  <2> QED BY <1>5, <2>1, <2>2, <2>3
<1>12. NoCodeLost'
  <2> SUFFICES ASSUME NEW q \in DOMAIN sessions', NEW d \in Members(<<"scan", q>>)',
                      meta'[d].role = "desktop", <<d, q>> \notin joining'
               PROVE  {q} \X sessions'[q].codes \subseteq got'[d]
    BY DEF NoCodeLost
  <2>1. d \in Sockets /\ <<<<"scan", q>>, d>> \in rooms' /\ q \in DOMAIN sessions /\ q \in Sessions
    BY <1>1 DEF Members, Inv, ScanInv, S!GatewayTypeOK, S!Known
  <2>2. <<<<"scan", q>>, d>> \in rooms /\ <<d, q>> \notin joining
    BY <1>1, <1>5, <2>1
  <2> QED BY <1>1, <2>1, <2>2, RoomsByMember DEF Inv, ScanInv, HasCodes
<1>13. ScanInv'
  BY <1>8, <1>9, <1>10, <1>11, <1>12 DEF ScanInv
<1> QED BY <1>6, <1>7, <1>13, ScanStep

LEMMA ScanNext == Inv /\ S!Next /\ UNCHANGED notifications => Inv'
<1> SUFFICES ASSUME Inv, S!Next, UNCHANGED notifications PROVE Inv'
  OBVIOUS
<1>1. ASSUME NEW c \in Sockets, S!Resume(c) PROVE Inv'
  BY <1>1, ScanCheckPasses, ScanCloses, ScanReplay DEF S!Resume
<1> QED BY <1>1, ScanConnectMobile, ScanJoin, ScanConnectDesktop, ScanCloses, ScanCodes,
          ScanCreate, ScanClock DEF S!Next

-----------------------------------------------------------------------------
(* The composition.                                                        *)

\* A restart leaves nothing but the handshakes of the past.
LEMMA RestartKeeps ==
    ASSUME Inv, Restart
    PROVE  Inv'
<1>1. /\ link' = [c \in Sockets |-> IF IsOpen(c) THEN "closed" ELSE link[c]]
      /\ checking' = {} /\ rooms' = {} /\ raced' = {} /\ auth' = auth
      /\ user' = [c \in Sockets |-> None] /\ userSockets' = [u \in {} |-> {}]
  BY DEF Restart, RestartServer, N!Restart
<1>2. \A c \in Sockets : ~IsOpen(c)' /\ (link'[c] # "new" => link[c] # "new")
  BY <1>1 DEF IsOpen
<1>3. ServerInv'
  <2>1. ServerTypeOK'
    BY <1>1 DEF Inv, ServerInv, ServerTypeOK
  <2> QED BY <1>1, <1>2, <2>1 DEF Inv, ServerInv
<1>4. NoticeInv'
  BY <1>1, <1>2, SocketAssumption DEF NoticeInv, N!GatewayTypeOK
<1>5. /\ sessions' = [s \in {} |-> None] /\ stored' = {} /\ joining' = {} /\ now' = now
      /\ meta' = [c \in Sockets |-> None] /\ got' = [c \in Sockets |-> {}]
  BY DEF Restart, S!Restart
<1>6. S!GatewayTypeOK'
  BY <1>5 DEF Inv, ScanInv, S!GatewayTypeOK, S!Known, S!Times
<1>7. RoomsAreAuthorised' /\ NoCodeLost'
  BY <1>1, <1>5 DEF RoomsAreAuthorised, NoCodeLost, Members
<1>8. ScanInv'
  BY <1>5, <1>6, <1>7 DEF ScanInv
<1> QED BY <1>3, <1>4, <1>8 DEF Inv

LEMMA NextInv == Inv /\ [Next]_vars => Inv'
<1> SUFFICES ASSUME Inv, [Next]_vars PROVE Inv'
  OBVIOUS
<1>1. CASE UNCHANGED vars
  <2>1. UNCHANGED <<server, notifications, scan>>
    BY <1>1 DEF vars
  <2>2. ServerInv' /\ ServerStep /\ UserRoomsKept /\ ScanRoomsKept /\ \A ns : PlacesKept(ns)
    BY <2>1, ServerSame
  <2> QED BY <2>1, <2>2, NoticeQuiet, ScanQuiet DEF Inv
<1> QED BY <1>1, NoticeNext, ScanNext, RestartKeeps DEF Next

LEMMA Invariance == Spec => []Inv
BY InitInv, NextInv, PTL DEF Spec

\* Every reachable state is well typed.
THEOREM TypeCorrect == Spec => []TypeOK
<1>1. Inv => TypeOK
  BY DEF Inv, ServerInv, NoticeInv, ScanInv, TypeOK
<1> QED BY <1>1, Invariance, PTL

\* A notification to a user reaches the user's open, checked sockets, all and only.
THEOREM ReachedTheorem == Spec => []ReachedExactly
<1>1. Inv => ReachedExactly
  <2> SUFFICES ASSUME Inv, NEW u \in Users
               PROVE  N!Reached(u) = {c \in Sockets : IsOpen(c) /\ user[c] = u}
    BY DEF ReachedExactly
  <2>1. N!Members(<<"user", u>>) = {c \in Sockets : IsOpen(c) /\ user[c] = u}
    BY DEF Inv, NoticeInv, N!Members
  <2>2. ASSUME NEW c \in Sockets, IsOpen(c), user[c] = u PROVE N!Entry(u) # {}
    BY <2>2 DEF Inv, NoticeInv, N!Entry
  <2> QED BY <2>1, <2>2 DEF N!Reached, N!IsUserConnected
<1> QED BY <1>1, Invariance, PTL

\* The maps hold a closed socket only if it was closed while its token was checked.
THEOREM LeftoversTheorem == Spec => []LeftoversAreRaces
<1>1. Inv => LeftoversAreRaces
  BY DEF Inv, NoticeInv, ScanInv, MetaOK, Placed, LeftoversAreRaces
<1> QED BY <1>1, Invariance, PTL

\* Whoever hears a scan session is its mobile or a desktop of its owner.
THEOREM RoomsTheorem == Spec => []RoomsAreAuthorised
<1>1. Inv => RoomsAreAuthorised
  BY DEF Inv, ScanInv
<1> QED BY <1>1, Invariance, PTL

\* A desktop whose join is through has every code of the session.
THEOREM CodesTheorem == Spec => []NoCodeLost
<1>1. Inv => NoCodeLost
  BY DEF Inv, ScanInv
<1> QED BY <1>1, Invariance, PTL
-----------------------------------------------------------------------------
(* The registry names the user of each of its sockets, so that only a      *)
(* socket closed during its check makes a user look connected.             *)

Owned == \A u \in DOMAIN userSockets : \A c \in userSockets[u] : user[c] = u

LEMMA EntersOwned ==
    ASSUME Inv, Owned, NEW u \in Users, NEW c \in Sockets, userSockets' = N!Registered(u, c),
           user' = [user EXCEPT ![c] = u],
           user[c] = u \/ \A v \in DOMAIN userSockets : c \notin userSockets[v]
    PROVE  Owned'
<1>1. /\ user'[c] = u
      /\ \A d \in Sockets \ {c} : user'[d] = user[d]
  BY DEF Inv, NoticeInv, N!GatewayTypeOK
<1>2. \A v \in DOMAIN userSockets' : \A d \in userSockets'[v] :
          (v \in DOMAIN userSockets /\ d \in userSockets[v]) \/ (v = u /\ d = c)
  BY RegisterMoves DEF Inv
<1>3. \A v \in DOMAIN userSockets : userSockets[v] \subseteq Sockets
  BY DEF Inv, NoticeInv, N!GatewayTypeOK
<1> QED BY <1>1, <1>2, <1>3 DEF Owned

LEMMA NoticeOwned ==
    ASSUME Inv, Owned, N!Next PROVE Owned'
<1>1. ASSUME NEW c \in Sockets, N!CheckPasses(c) PROVE Owned'
  <2> DEFINE u == auth[c].token
  <2>1. c \in checking /\ user' = [user EXCEPT ![c] = u] /\ userSockets' = N!Registered(u, c)
    BY <1>1 DEF N!CheckPasses, N!Answered
  <2>2. u \in Users /\ \A v \in DOMAIN userSockets : c \notin userSockets[v]
    BY <2>1 DEF Inv, ServerInv, NoticeInv, Fresh
  <2> HIDE DEF u
  <2> QED BY <2>1, <2>2, EntersOwned
<1>2. ASSUME NEW c \in Sockets, NEW named, N!HandleRegister(c, named) PROVE Owned'
  <2> DEFINE u == user[c]
  <2>1. u # None /\ userSockets' = N!Registered(u, c) /\ user' = user
    BY <1>2 DEF N!HandleRegister, N!From
  <2>2. u \in Users /\ user' = [user EXCEPT ![c] = u] /\ user[c] = u
    BY <2>1 DEF Inv, NoticeInv, N!GatewayTypeOK
  <2> HIDE DEF u
  <2> QED BY <2>1, <2>2, EntersOwned
<1>3. ASSUME NEW c \in Sockets, N!CheckFails(c) \/ N!HandleDisconnect(c) PROVE Owned'
  <2>1. user' = user /\ userSockets' = N!Unregistered(c)
    BY <1>3 DEF N!CheckFails, N!HandleDisconnect
  <2> QED BY <2>1, UnregisterMoves DEF Inv, Owned
<1>4. CASE UNCHANGED <<user, userSockets>>
  BY <1>4 DEF Owned
<1>5. \/ UNCHANGED <<user, userSockets>>
      \/ \E c \in Sockets :
            \/ N!CheckPasses(c) \/ N!CheckFails(c) \/ N!HandleDisconnect(c)
            \/ \E named \in Users : N!HandleRegister(c, named)
  BY DEF N!Next, N!Check, N!HandleConnection, N!HandleJoinTeam, N!HandleLeaveTeam,
         N!HandleJoinTenant, N!registry
<1> QED BY <1>1, <1>2, <1>3, <1>4, <1>5

LEMMA NextOwned == Inv /\ Owned /\ [Next]_vars => Owned'
<1> SUFFICES ASSUME Inv, Owned, [Next]_vars PROVE Owned'
  OBVIOUS
<1>1. CASE UNCHANGED notifications
  BY <1>1 DEF notifications, Owned
<1>2. CASE Restart
  BY <1>2 DEF Restart, N!Restart, Owned
<1>3. CASE UNCHANGED vars
  BY <1>1, <1>3 DEF vars
<1> QED BY <1>1, <1>2, <1>3, NoticeOwned DEF Next

\* "check if user is connected" (notifications.gateway.ts:235) is right while no
\* socket was closed during the check of its token: the race is the only way to a
\* user that looks connected and has no open socket.
RacesExplain == raced = {} => ConnectedIsOpen

\* Whatever connects, registers and closes, only a race makes a user look connected.
THEOREM ConnectedTheorem == Spec => []RacesExplain
<1>1. Init => Owned
  BY DEF Init, N!Init, Owned
<1>2. ASSUME Inv, Owned, raced = {}, NEW u \in Users, N!IsUserConnected(u)
      PROVE  \E c \in Sockets : IsOpen(c) /\ user[c] = u
  <2>1. PICK c : u \in DOMAIN userSockets /\ c \in userSockets[u]
    BY <1>2 DEF N!IsUserConnected, N!Entry
  <2>2. c \in Sockets /\ user[c] = u
    BY <1>2, <2>1 DEF Owned, Inv, NoticeInv, N!GatewayTypeOK
  <2>3. Placed(c, "notifications")
    BY <1>2, <2>1 DEF Inv, NoticeInv
  <2> QED BY <1>2, <2>2, <2>3 DEF Placed
<1>3. Inv /\ Owned => RacesExplain
  BY <1>2 DEF RacesExplain, ConnectedIsOpen
<1> QED BY <1>1, <1>3, NextOwned, Invariance, PTL DEF Spec

-----------------------------------------------------------------------------
(* What a step does to a join that waits, and to the codes that were sent: *)
(* the safety half of JoinedGetsCodes.                                     *)

\* A socket that waits to join, or was sent a code, was connected.
Joiners ==
    /\ \A c \in Sockets, s \in Sessions : <<c, s>> \in joining => link[c] # "new"
    /\ \A c \in Sockets : got[c] # {} => link[c] # "new"

\* A code is due to a socket that waits to join its session.
Due(c, s, k) == <<c, s>> \in joining /\ s \in DOMAIN sessions /\ k \in sessions[s].codes

\* What a step of the scan gateway keeps of the session objects, and of the joins
\* that wait: one is taken out when its codes are sent.
SessionsKept ==
    /\ \A s \in DOMAIN sessions :
           s \in DOMAIN sessions' /\ sessions[s].codes \subseteq sessions'[s].codes
    /\ \A c \in Sockets, s \in DOMAIN sessions :
           <<c, s>> \in joining /\ <<c, s>> \notin joining' /\ IsOpen(c) =>
               {s} \X sessions[s].codes \subseteq got'[c]
    /\ \A c \in Sockets, s \in Sessions :
           <<c, s>> \in joining' => <<c, s>> \in joining \/ IsOpen(c)
    /\ \A c \in Sockets : got[c] \subseteq got'[c] \/ link'[c] = "closed"
    /\ \A c \in Sockets : link[c] = "new" => got'[c] = got[c]

\* How the links of sockets move.
LEMMA LinkMoves ==
    ASSUME Inv, N!Next \/ S!Next
    PROVE  \/ link' = link
           \/ \E d \in Sockets : link' = [link EXCEPT ![d] = "closed"]
           \/ \E d \in Sockets, to \in {"open", "closed"} :
                 link[d] = "new" /\ link' = [link EXCEPT ![d] = to]
<1>1. CASE N!Next
  BY <1>1 DEF N!Next, N!Check, N!HandleConnection, N!CheckPasses, N!CheckFails,
     N!HandleDisconnect, N!HandleRegister, N!HandleJoinTeam, N!HandleLeaveTeam,
     N!HandleJoinTenant, N!Accept, N!Close, N!ClosedByClient
<1>2. CASE S!Next
  BY <1>2 DEF S!Next, S!Resume, S!ConnectMobile, S!HandleJoin, S!ConnectDesktop,
     S!CheckPasses, S!CheckFails, S!Replay, S!HandleDisconnect, S!HandleCode, S!HandleSubmit,
     S!Create, S!CleanExpired, S!Tick, S!Accept, S!Close, S!ClosedByClient, S!server
<1> QED BY <1>1, <1>2

LEMMA LinksClose ==
    ASSUME Inv, [Next]_vars, NEW c \in Sockets
    PROVE  /\ link[c] = "closed" => link'[c] = "closed"
           /\ link'[c] = "new" => link[c] = "new"
<1>1. link \in [Sockets -> {"new", "open", "closed"}]
  BY DEF Inv, ServerInv, ServerTypeOK
<1>2. CASE Restart
  BY <1>2 DEF Restart, RestartServer, IsOpen
<1>3. CASE N!Next \/ S!Next
  BY <1>1, <1>3, LinkMoves
<1> QED BY <1>2, <1>3 DEF Next, vars, server

LEMMA EmitKeeps ==
    ASSUME Inv, NEW C, NEW s, NEW codes, S!Emit(C, s, codes)
    PROVE  /\ \A c \in Sockets : got[c] \subseteq got'[c]
           /\ \A c \in Sockets \cap C : {s} \X codes \subseteq got'[c]
           /\ \A c \in Sockets \ C : got'[c] = got[c]
BY DEF S!Emit, Inv, ScanInv, S!GatewayTypeOK

\* The sockets that hear a scan session were connected.
LEMMA MembersConnected ==
    ASSUME Inv, NEW s \in Sessions, NEW c \in S!Members(<<"scan", s>>)
    PROVE  link[c] # "new"
BY MembersSpoke DEF S!Members, Inv

LEMMA ScanKeeps ==
    ASSUME Inv, S!Next PROVE SessionsKept
<1>1. ASSUME NEW c \in Sockets, NEW s \in Sessions, S!Replay(c, s) PROVE SessionsKept
  <2>1. /\ joining' = joining \ {<<c, s>>} /\ UNCHANGED sessions
        /\ S!Emit({c} \cap {d \in Sockets : IsOpen(d)}, s, sessions[s].codes)
    BY <1>1 DEF S!Replay, S!IsOpen, IsOpen
  <2>2. /\ \A d \in Sockets : got[d] \subseteq got'[d]
        /\ \A d \in Sockets \cap ({c} \cap {e \in Sockets : IsOpen(e)}) :
              {s} \X sessions[s].codes \subseteq got'[d]
        /\ \A d \in Sockets \ ({c} \cap {e \in Sockets : IsOpen(e)}) : got'[d] = got[d]
    BY <2>1, EmitKeeps
  <2> QED BY <2>1, <2>2 DEF SessionsKept, IsOpen
<1>2. ASSUME NEW c \in Sockets, NEW code \in Codes, S!HandleCode(c, code) PROVE SessionsKept
  <2> DEFINE s == meta[c].session
  <2>1. /\ sessions' = [sessions EXCEPT ![s].codes = @ \cup {code}]
        /\ S!Emit(S!Members(<<"scan", s>>), s, {code}) /\ joining' = joining
        /\ s \in DOMAIN sessions
    BY <1>2 DEF S!HandleCode, S!Valid, Inv, ScanInv, S!GatewayTypeOK, S!Known
  <2>2. /\ \A d \in Sockets : got[d] \subseteq got'[d]
        /\ \A d \in Sockets : link[d] = "new" => got'[d] = got[d]
    BY <2>1, EmitKeeps, MembersConnected DEF Inv, ScanInv, S!GatewayTypeOK, S!Known
  <2>3. sessions' = [sessions EXCEPT ![s] = [sessions[s] EXCEPT !.codes = @ \cup {code}]]
    BY <2>1
  <2>4. sessions[s] \in [user : Users, codes : SUBSET Codes, expiresAt : 0..(MaxNow + Ttl)]
    BY <2>1 DEF Inv, ScanInv, S!GatewayTypeOK, S!Known
  <2>5. sessions'[s].codes = sessions[s].codes \cup {code}
    BY <2>1, <2>3, <2>4
  <2>6. \A q \in DOMAIN sessions : q \in DOMAIN sessions' /\ (q # s => sessions'[q] = sessions[q])
    BY <2>3
  <2> HIDE DEF s
  <2>7. \A q \in DOMAIN sessions : sessions[q].codes \subseteq sessions'[q].codes
    BY <2>5, <2>6
  <2> QED BY <2>1, <2>2, <2>6, <2>7 DEF SessionsKept
<1>3. ASSUME NEW c \in Sockets, S!HandleSubmit(c) PROVE SessionsKept
  <2> DEFINE s == meta[c].session
  <2>1. /\ S!Emit(S!Members(<<"scan", s>>), s, sessions[s].codes)
        /\ UNCHANGED <<sessions, joining>>
        /\ s \in Sessions
    BY <1>3 DEF S!HandleSubmit, Inv, ScanInv, S!GatewayTypeOK, S!Known
  <2> HIDE DEF s
  <2>2. /\ \A d \in Sockets : got[d] \subseteq got'[d]
        /\ \A d \in Sockets : link[d] = "new" => got'[d] = got[d]
    BY <2>1, EmitKeeps, MembersConnected
  <2> QED BY <2>1, <2>2 DEF SessionsKept
<1>4. ASSUME NEW c \in Sockets, S!HandleDisconnect(c) PROVE SessionsKept
  <2>1. link'[c] = "closed"
    BY <1>4 DEF S!HandleDisconnect, S!ClosedByClient, S!Close, Inv, ServerInv, ServerTypeOK
  <2>2. got' = [got EXCEPT ![c] = {}] /\ UNCHANGED <<sessions, joining>> /\ link[c] # "new"
    BY <1>4 DEF S!HandleDisconnect, S!ClosedByClient, S!IsOpen
  <2>3. \A d \in Sockets \ {c} : got'[d] = got[d]
    BY <2>2 DEF Inv, ScanInv, S!GatewayTypeOK
  <2> QED BY <2>1, <2>2, <2>3 DEF SessionsKept
<1>5. ASSUME NEW s \in Sessions, NEW u \in Users, S!Create(s, u) PROVE SessionsKept
  BY <1>5 DEF S!Create, S!Known, SessionsKept
<1>6. ASSUME NEW c \in Sockets, NEW s \in Sessions, S!HandleJoin(c, s) PROVE SessionsKept
  <2>1. IsOpen(c) /\ joining' = joining \cup {<<c, s>>} /\ UNCHANGED <<sessions, got>>
    BY <1>6 DEF S!HandleJoin, S!From, S!IsOpen, IsOpen
  <2> QED BY <2>1 DEF SessionsKept
<1>7. CASE UNCHANGED <<sessions, joining, got>>
  BY <1>7 DEF SessionsKept
<1>8. \/ UNCHANGED <<sessions, joining, got>>
      \/ \E c \in Sockets, s \in Sessions : S!Replay(c, s) \/ S!HandleJoin(c, s)
      \/ \E c \in Sockets, code \in Codes : S!HandleCode(c, code)
      \/ \E c \in Sockets : S!HandleSubmit(c) \/ S!HandleDisconnect(c)
      \/ \E s \in Sessions, u \in Users : S!Create(s, u)
  BY DEF S!Next, S!Resume, S!ConnectMobile, S!ConnectDesktop, S!CheckPasses, S!CheckFails,
         S!CleanExpired, S!Tick, S!scan
<1> QED BY <1>1, <1>2, <1>3, <1>4, <1>5, <1>6, <1>7, <1>8

LEMMA NextKeeps ==
    ASSUME Inv, [Next]_vars
    PROVE  \/ Restart
           \/ SessionsKept
<1>1. CASE S!Next
  BY <1>1, ScanKeeps
<1>2. CASE UNCHANGED scan
  BY <1>2 DEF scan, SessionsKept
<1> QED BY <1>1, <1>2 DEF Next, vars

LEMMA NextJoiners == Inv /\ Joiners /\ [Next]_vars => Joiners'
<1> SUFFICES ASSUME Inv, Joiners, [Next]_vars PROVE Joiners'
  OBVIOUS
<1>1. CASE Restart
  BY <1>1 DEF Restart, S!Restart, Joiners
<1>2. CASE SessionsKept
  BY <1>2, LinksClose DEF SessionsKept, Joiners, IsOpen
<1> QED BY <1>1, <1>2, NextKeeps

LEMMA JoinersInvariance == Spec => []Joiners
<1>1. Init => Joiners
  BY DEF Init, S!Init, Joiners
<1> QED BY <1>1, NextJoiners, Invariance, PTL DEF Spec

\* A join that waits keeps waiting for each of its codes until the code is sent or the
\* socket is closed, whatever is cleaned up, scanned or closed (scan.gateway.ts:139).
JoinBarrier ==
    [][\A c \in Sockets, s \in Sessions, k \in Codes :
          Due(c, s, k) => Due(c, s, k)' \/ <<s, k>> \in got'[c] \/ link'[c] = "closed"]_vars

LEMMA NextJoin ==
    ASSUME Inv, Joiners, [Next]_vars, NEW c \in Sockets, NEW s \in Sessions, NEW k \in Codes,
           Due(c, s, k)
    PROVE  Due(c, s, k)' \/ <<s, k>> \in got'[c] \/ link'[c] = "closed"
<1>1. link[c] \in {"open", "closed"}
  BY DEF Due, Joiners, Inv, ServerInv, ServerTypeOK
<1>2. CASE link[c] = "closed"
  BY <1>2, LinksClose
<1>3. CASE Restart /\ IsOpen(c)
  BY <1>3 DEF Restart, RestartServer
<1>4. CASE SessionsKept /\ IsOpen(c)
  BY <1>4 DEF SessionsKept, Due
<1> QED BY <1>1, <1>2, <1>3, <1>4, NextKeeps DEF IsOpen

\* No step takes a code from a join that waits but the one that sends it, or the end
\* of the socket.
THEOREM JoinBarrierTheorem == Spec => JoinBarrier
<1>1. Inv /\ Joiners /\ [Next]_vars =>
        [\A c \in Sockets, s \in Sessions, k \in Codes :
            Due(c, s, k) => Due(c, s, k)' \/ <<s, k>> \in got'[c] \/ link'[c] = "closed"]_vars
  BY NextJoin
<1> QED BY <1>1, Invariance, JoinersInvariance, PTL DEF Spec, JoinBarrier

\* What a socket was sent stays sent as long as it is open.
CodesKept == [][\A c \in Sockets : got[c] \subseteq got'[c] \/ link'[c] = "closed"]_vars

LEMMA NextCodesKept ==
    ASSUME Inv, Joiners, [Next]_vars, NEW c \in Sockets
    PROVE  got[c] \subseteq got'[c] \/ link'[c] = "closed"
<1>1. CASE Restart
  <2>1. link'[c] = IF IsOpen(c) THEN "closed" ELSE link[c]
    BY <1>1 DEF Restart, RestartServer
  <2>2. link[c] \in {"new", "open", "closed"}
    BY DEF Inv, ServerInv, ServerTypeOK
  <2> QED BY <2>1, <2>2 DEF Joiners, IsOpen
<1>2. CASE SessionsKept
  BY <1>2 DEF SessionsKept
<1> QED BY <1>1, <1>2, NextKeeps

\* No step of either gateway forgets a code an open socket was sent.
THEOREM CodesKeptTheorem == Spec => CodesKept
<1>1. Inv /\ Joiners /\ [Next]_vars =>
        [\A c \in Sockets : got[c] \subseteq got'[c] \/ link'[c] = "closed"]_vars
  BY NextCodesKept
<1> QED BY <1>1, Invariance, JoinersInvariance, PTL DEF Spec, CodesKept
-----------------------------------------------------------------------------
(* The refinement of Presence.                                             *)

Listeners == [u \in Users |-> N!Reached(u)]
Left      == {c \in Sockets : link[c] = "closed"}

Audience == INSTANCE Presence WITH listeners <- Listeners, left <- Left

AudienceSpec == Audience!Spec

\* Who listens, by the links of the sockets and their users.
Listening(l, w) == [u \in Users |-> {c \in Sockets : l[c] = "open" /\ w[c] = u}]

LEMMA ListenersAre ==
    ASSUME ReachedExactly PROVE Listeners = Listening(link, user)
BY DEF Listeners, Listening, ReachedExactly, IsOpen

\* A socket closes: it leaves.
LEMMA ClosedLeaves ==
    ASSUME NEW d \in Sockets, link \in [Sockets -> {"new", "open", "closed"}],
           link' = [link EXCEPT ![d] = "closed"], user' = user,
           Listeners = Listening(link, user), Listeners' = Listening(link', user')
    PROVE  Audience!Next
<1>1. link'[d] = "closed" /\ \A c \in Sockets \ {d} : link'[c] = link[c]
  OBVIOUS
<1>2. Left' = Left \cup {d}
  BY <1>1 DEF Left
<1>3. \A u \in Users : Listeners'[u] = Listeners[u] \ {d}
  BY <1>1 DEF Listening
<1>4. Listeners' = [u \in Users |-> Listeners[u] \ {d}]
  BY <1>3 DEF Listening
<1>5. Audience!Leave({d})
  BY <1>2, <1>4 DEF Audience!Leave
<1> QED BY <1>5 DEF Audience!Next

\* A socket opens: nobody listens yet.
LEMMA OpenedQuiet ==
    ASSUME NEW d \in Sockets, link \in [Sockets -> {"new", "open", "closed"}],
           link[d] = "new", link' = [link EXCEPT ![d] = "open"], user' = user, user[d] = None,
           Listeners = Listening(link, user), Listeners' = Listening(link', user')
    PROVE  UNCHANGED Audience!vars
<1>1. link'[d] = "open" /\ \A c \in Sockets \ {d} : link'[c] = link[c]
  OBVIOUS
<1>2. Left' = Left
  BY <1>1 DEF Left
<1>3. \A u \in Users, c \in Sockets : link'[c] = "open" /\ user[c] = u <=> link[c] = "open" /\ user[c] = u
  BY <1>1, SocketAssumption
<1>4. Listeners' = Listeners
  BY <1>3 DEF Listening
<1> QED BY <1>2, <1>4 DEF Audience!vars

\* The token of an open socket has been checked: it enters.
LEMMA CheckedEnters ==
    ASSUME Inv, NEW d \in Sockets, N!CheckPasses(d),
           Listeners = Listening(link, user), Listeners' = Listening(link', user')
    PROVE  UNCHANGED Audience!vars \/ Audience!Next
<1> DEFINE w == auth[d].token
<1>1. d \in checking /\ user' = [user EXCEPT ![d] = w] /\ link' = link
  BY DEF N!CheckPasses, N!Answered
<1>2. w \in Users /\ user[d] = None /\ user \in [Sockets -> Users \cup {None}]
  BY <1>1 DEF Inv, ServerInv, NoticeInv, Fresh, N!GatewayTypeOK
<1> HIDE DEF w
<1>3. Left' = Left
  BY <1>1 DEF Left
<1>4. user'[d] = w /\ \A c \in Sockets \ {d} : user'[c] = user[c]
  BY <1>1, <1>2
<1>5. CASE link[d] # "open"
  <2>1. \A u \in Users : Listening(link', user')[u] = Listening(link, user)[u]
    BY <1>1, <1>4, <1>5 DEF Listening
  <2>2. Listeners' = Listeners
    BY <2>1 DEF Listening
  <2> QED BY <1>3, <2>2 DEF Audience!vars
<1>6. CASE link[d] = "open"
  <2>1. d \notin Left
    BY <1>6 DEF Left
  <2>2. \A u \in Users : d \notin Listeners[u]
    BY <1>2, SocketAssumption DEF Listening
  <2>3. \A u \in Users : Listeners'[u] = IF u = w THEN Listeners[u] \cup {d} ELSE Listeners[u]
    BY <1>1, <1>2, <1>4, <1>6, SocketAssumption DEF Listening
  <2>4. Listeners' = [Listeners EXCEPT ![w] = Listeners[w] \cup {d}]
    BY <1>2, <2>3 DEF Listening
  <2>5. Audience!Enter(d, w)
    BY <1>3, <2>1, <2>2, <2>4 DEF Audience!Enter
  <2> QED BY <1>2, <2>5 DEF Audience!Next
<1> QED BY <1>5, <1>6

\* A restart: everybody leaves.
LEMMA RestartLeaves ==
    ASSUME Inv, Restart,
           Listeners = Listening(link, user), Listeners' = Listening(link', user')
    PROVE  Audience!Next
<1> DEFINE closed == {c \in Sockets : IsOpen(c)}
<1>1. /\ link' = [c \in Sockets |-> IF IsOpen(c) THEN "closed" ELSE link[c]]
      /\ user' = [c \in Sockets |-> None]
  BY DEF Restart, RestartServer, N!Restart
<1>2. Left' = Left \cup closed
  BY <1>1 DEF Left
<1>3. \A u \in Users : Listeners'[u] = {} /\ Listeners[u] \subseteq closed
  BY <1>1, SocketAssumption DEF Listening, IsOpen
<1>4. Listeners' = [u \in Users |-> Listeners[u] \ closed]
  BY <1>3 DEF Listening
<1>5. Audience!Leave(closed)
  BY <1>2, <1>4 DEF Audience!Leave
<1> QED BY <1>5 DEF Audience!Next

\* Only the check of a token, or a restart, changes whose a socket is.
LEMMA UserMoves ==
    ASSUME [Next]_vars
    PROVE  Restart \/ user' = user \/ \E d \in Sockets : N!CheckPasses(d)
BY DEF Next, N!Next, N!Check, N!HandleConnection, N!CheckFails, N!HandleDisconnect,
       N!HandleRegister, N!HandleJoinTeam, N!HandleLeaveTeam, N!HandleJoinTenant, N!registry,
       notifications, vars

LEMMA NextRefines ==
    ASSUME Inv, [Next]_vars, ReachedExactly, ReachedExactly'
    PROVE  [Audience!Next]_(Audience!vars)
<1>1. Listeners = Listening(link, user)
  BY ListenersAre
<1>2. Listeners' = Listening(link', user')
  BY DEF Listeners, Listening, ReachedExactly, IsOpen
<1>3. link \in [Sockets -> {"new", "open", "closed"}]
  BY DEF Inv, ServerInv, ServerTypeOK
<1>4. CASE Restart
  BY <1>1, <1>2, <1>4, RestartLeaves
<1>5. ASSUME NEW d \in Sockets, N!CheckPasses(d) PROVE UNCHANGED Audience!vars \/ Audience!Next
  BY <1>1, <1>2, <1>5, CheckedEnters
<1>6. CASE user' = user /\ link' = link
  <2>1. Listeners' = Listeners /\ Left' = Left
    BY <1>1, <1>2, <1>6 DEF Left
  <2> QED BY <2>1 DEF Audience!vars
<1>7. ASSUME user' = user, NEW d \in Sockets, link' = [link EXCEPT ![d] = "closed"]
      PROVE  Audience!Next
  BY <1>1, <1>2, <1>3, <1>7, ClosedLeaves
<1>8. ASSUME user' = user, NEW d \in Sockets, link[d] = "new", link' = [link EXCEPT ![d] = "open"]
      PROVE  UNCHANGED Audience!vars
  <2>1. user[d] = None
    BY <1>8 DEF Inv, NoticeInv, Fresh
  <2> QED BY <1>1, <1>2, <1>3, <1>8, <2>1, OpenedQuiet
<1>9. CASE user' = user /\ ~Restart
  <2>1. link' = link \/ N!Next \/ S!Next
    BY <1>9 DEF Next, vars, server
  <2> QED BY <1>6, <1>7, <1>8, <1>9, <2>1, LinkMoves
<1> QED BY <1>4, <1>5, <1>9, UserMoves

\* The notifications gateway implements Presence: a socket enters the listeners of
\* one user, once, and never comes back, however late its check answers and whatever
\* the scan gateway and restarts do to the server they share.
THEOREM AudienceTheorem == Spec => AudienceSpec
<1>1. Init => Audience!Init
  <2> SUFFICES ASSUME Init PROVE Audience!Init
    OBVIOUS
  <2>1. link = [c \in Sockets |-> "new"] /\ userSockets = [u \in {} |-> {}]
    BY DEF Init, InitServer, N!Init
  <2>2. Left = {}
    BY <2>1 DEF Left
  <2>3. \A u \in Users : N!Reached(u) = {}
    BY <2>1 DEF N!Reached, N!IsUserConnected, N!Entry
  <2> QED BY <2>2, <2>3 DEF Audience!Init, Listeners
<1>2. Inv /\ ReachedExactly /\ ReachedExactly' /\ [Next]_vars => [Audience!Next]_(Audience!vars)
  BY NextRefines
<1> QED BY <1>1, <1>2, Invariance, ReachedTheorem, PTL DEF Spec, AudienceSpec, Audience!Spec
=============================================================================
