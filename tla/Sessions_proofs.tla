---------------------------- MODULE Sessions_proofs ----------------------------
(***************************************************************************)
(* Theorems about Sessions, for any number of users, requests, devices and *)
(* payloads, any lifetimes and any bound on the clock and the faults.      *)
(***************************************************************************)
EXTENDS Sessions, FiniteSetTheorems, TLAPS

-----------------------------------------------------------------------------
(* Type correctness.  TypeOK is not inductive: what a request stores is     *)
(* well typed because of what its locals are at each of its awaits.         *)

Issuing == {"signing", "storing", "responding"}

\* The user a request at `at` acts for, the claims it signs, the token it has
\* signed and the session it consumes, when S is the set of stored tokens.
LocalsOK(at, r, S) ==
    /\ at \notin {"idle", "failed"} => r.user \in Users
    /\ at \in {"checking", "revoking"} \cup Issuing => r.payload \in Payloads
    /\ at \in {"storing", "responding"} => r.token \in Token /\ r.token.user = r.user
    /\ at \in {"loading", "revoking"} => r.consumed \in S /\ r.consumed \in Token

TypeInv == TypeOK /\ \A p \in Procs : LocalsOK(pc[p], req[p], Stored)

\* TypeOK without the requests.
DataOK ==
    /\ now \in 0..MaxNow
    /\ deleted \subseteq Users
    /\ profile \in [Users -> Payloads]
    /\ Stored \subseteq Token
    /\ \A t \in Stored : rows[t] \in Row
    /\ held \subseteq [token : Token, device : Device]
    /\ announced \subseteq Users \X Devices
    /\ faults \in 0..MaxFaults
    /\ lostAlerts \subseteq Users \X Devices
    /\ ended \subseteq Token

\* Goto moves one request and leaves the others where they are.
LEMMA GotoMoves ==
    ASSUME TypeOK, NEW p \in Procs, NEW from, NEW to \in PC, NEW r \in Request,
           Goto(p, from, to, r)
    PROVE  /\ pc' \in [Procs -> PC]
           /\ req' \in [Procs -> Request]
           /\ pc[p] = from /\ pc'[p] = to /\ req'[p] = r
           /\ \A q \in Procs \ {p} : pc'[q] = pc[q] /\ req'[q] = req[q]
BY DEF TypeOK, Goto

LEMMA NoRequestOK ==
    /\ NoRequest \in Request
    /\ \A at \in {"idle", "failed"} : LocalsOK(at, NoRequest, Stored)
BY DEF NoRequest, Request, Device, Check, LocalsOK, Issuing

\* updateMany keeps the table's type and its domain.
LEMMA RevokeAllType ==
    ASSUME NEW u, TypeOK
    PROVE  /\ DOMAIN RevokeAllOf(u) = Stored
           /\ \A t \in Stored :
                /\ RevokeAllOf(u)[t] \in Row
                /\ RevokeAllOf(u)[t].device = rows[t].device
                /\ RevokeAllOf(u)[t].parent = rows[t].parent
                /\ rows[t].revoked \/ t.user = u <=> RevokeAllOf(u)[t].revoked
BY DEF RevokeAllOf, TypeOK, Row, Stored

\* A step of one request keeps the invariant when the data it writes are well
\* typed, the table loses no row, and its own locals are right.
LEMMA TableStep ==
    ASSUME TypeInv, NEW p \in Procs, NEW from, NEW to \in PC, NEW r \in Request,
           Goto(p, from, to, r), DataOK', Stored \subseteq Stored',
           LocalsOK(to, r, Stored')
    PROVE  TypeInv'
<1>1. TypeOK'
  BY GotoMoves DEF TypeInv, TypeOK, DataOK, Stored
<1>2. ASSUME NEW q \in Procs PROVE LocalsOK(pc[q], req[q], Stored)'
  <2>1. CASE q = p
    BY <2>1, GotoMoves DEF TypeInv, LocalsOK
  <2>2. CASE q # p
    BY <2>2, GotoMoves DEF TypeInv, LocalsOK
  <2> QED BY <2>1, <2>2
<1> QED BY <1>1, <1>2 DEF TypeInv

LEMMA LocalStep ==
    ASSUME TypeInv, NEW p \in Procs, NEW from, NEW to \in PC, NEW r \in Request,
           Goto(p, from, to, r), LocalsOK(to, r, Stored),
           UNCHANGED <<now, tables, clients, faults, history>>
    PROVE  TypeInv'
<1>1. DataOK' /\ Stored \subseteq Stored'
  BY DEF TypeInv, TypeOK, DataOK, Stored, tables, clients, history
<1>2. LocalsOK(to, r, Stored')
  BY DEF LocalsOK, Stored, tables
<1> QED BY <1>1, <1>2, TableStep

LEMMA RejectStep ==
    ASSUME TypeInv, NEW p \in Procs, NEW from,
           Reject(p, from) \/ Done(p, from),
           UNCHANGED <<now, tables, clients, faults, history>>
    PROVE  TypeInv'
BY LocalStep, NoRequestOK DEF Reject, Done, PC

LEMMA InitTypeInv == Init => TypeInv
<1> SUFFICES ASSUME Init PROVE TypeInv
  OBVIOUS
<1>1. TypeOK
  BY NoRequestOK, BoundAssumption DEF Init, TypeOK, PC, Stored
<1>2. \A p \in Procs : LocalsOK(pc[p], req[p], Stored)
  BY NoRequestOK DEF Init
<1> QED BY <1>1, <1>2 DEF TypeInv

LEMMA ArriveTypeInv ==
    ASSUME TypeInv, NEW p \in Procs, Arrive(p) PROVE TypeInv'
<1>1. ASSUME NEW u \in Users, NEW d \in Device, SignIn(p, u, d) PROVE TypeInv'
  <2> DEFINE to == IF d = None THEN "signing" ELSE "checking"
             r  == [NoRequest EXCEPT !.user = u, !.payload = profile[u], !.device = d,
                                     !.checks = IF d = None THEN {} ELSE Check]
  <2>1. CASE Reject(p, "idle")
    BY <1>1, <2>1, RejectStep DEF SignIn
  <2>2. CASE Goto(p, "idle", to, r)
    <3>1. r \in Request /\ to \in PC
      BY DEF NoRequest, Request, TypeInv, TypeOK, Check, PC, Device
    <3>2. LocalsOK(to, r, Stored)
      BY DEF NoRequest, LocalsOK, TypeInv, TypeOK
    <3> HIDE DEF r, to
    <3> QED BY <1>1, <2>2, <3>1, <3>2, LocalStep DEF SignIn
  <2> QED BY <1>1, <2>1, <2>2 DEF SignIn
<1>2. ASSUME NEW t \in Token, ValidateRefresh(p, t) PROVE TypeInv'
  <2> DEFINE r1 == [NoRequest EXCEPT !.user = t.user]
             r2 == [NoRequest EXCEPT !.user = t.user, !.consumed = t]
  <2>1. r1 \in Request /\ r2 \in Request
    BY DEF NoRequest, Request, Token, Check, Device
  <2>2. LocalsOK("wiping", r1, Stored) /\ (t \in Stored => LocalsOK("loading", r2, Stored))
    BY DEF NoRequest, LocalsOK, Token, Issuing
  <2>3. CASE Reject(p, "idle")
    BY <1>2, <2>3, RejectStep DEF ValidateRefresh
  <2>4. CASE Goto(p, "idle", "wiping", r1)
    BY <1>2, <2>1, <2>2, <2>4, LocalStep DEF ValidateRefresh, PC
  <2>5. CASE t \in Stored /\ Goto(p, "idle", "loading", r2)
    BY <1>2, <2>1, <2>2, <2>5, LocalStep DEF ValidateRefresh, PC
  <2> QED BY <1>2, <2>3, <2>4, <2>5 DEF ValidateRefresh
<1>3. ASSUME NEW u \in Users, AuthenticateLogout(p, u) \/ FindUserToDelete(p, u)
      PROVE  TypeInv'
  <2> DEFINE r == [NoRequest EXCEPT !.user = u]
  <2>1. r \in Request
    BY DEF NoRequest, Request, Check, Device
  <2>2. LocalsOK("loggingOut", r, Stored) /\ LocalsOK("deleting", r, Stored)
    BY DEF NoRequest, LocalsOK, Issuing
  <2> HIDE DEF r
  <2>3. CASE Reject(p, "idle")
    BY <1>3, <2>3, RejectStep DEF AuthenticateLogout, FindUserToDelete
  <2>4. CASE Goto(p, "idle", "loggingOut", r) \/ Goto(p, "idle", "deleting", r)
    BY <1>3, <2>1, <2>2, <2>4, LocalStep DEF AuthenticateLogout, FindUserToDelete, PC
  <2> QED BY <1>3, <2>3, <2>4 DEF AuthenticateLogout, FindUserToDelete, r
<1> QED BY <1>1, <1>2, <1>3 DEF Arrive

\* The steps of an accepted request, but for those that end sessions.
LEMMA IssueTypeInv ==
    ASSUME TypeInv, NEW p \in Procs,
           \/ \E c \in Check : CheckDevice(p, c)
           \/ Sign(p) \/ Store(p) \/ Respond(p)
    PROVE  TypeInv'
<1> DEFINE r == req[p]
<1>0. r \in Request /\ LocalsOK(pc[p], r, Stored)
  BY DEF TypeInv, TypeOK
<1>1. ASSUME NEW c \in Check, CheckDevice(p, c) PROVE TypeInv'
  <2> DEFINE to == IF r.checks = {c} THEN "signing" ELSE "checking"
             s  == [r EXCEPT !.checks = @ \ {c},
                             !.trusted = @ \/ Finds(c, r.user, r.device)]
  <2>1. s \in Request /\ to \in PC
    <3>1. (r.trusted \/ Finds(c, r.user, r.device)) \in BOOLEAN
      BY <1>0 DEF Request
    <3> QED BY <1>0, <3>1 DEF Request, PC
  <2>2. pc[p] = "checking" /\ Goto(p, "checking", to, s)
    BY <1>1 DEF CheckDevice, Goto
  <2>3. s.user = r.user /\ s.payload = r.payload
    BY <1>0 DEF Request
  <2>4. LocalsOK(to, s, Stored)
    <3> HIDE DEF s
    <3> QED BY <1>0, <2>2, <2>3 DEF LocalsOK, Issuing
  <2> HIDE DEF s, to
  <2> QED BY <1>1, <2>1, <2>2, <2>4, LocalStep DEF CheckDevice
<1>2. CASE Sign(p)
  <2> DEFINE s == [r EXCEPT !.token = [user |-> r.user, payload |-> r.payload, iat |-> now],
                            !.expires = now + RefreshTtl]
  <2>1. pc[p] = "signing" /\ Goto(p, "signing", "storing", s)
    BY <1>2 DEF Sign, Goto
  <2>2. s \in Request /\ LocalsOK("storing", s, Stored)
    <3>1. r.user \in Users /\ r.payload \in Payloads
      BY <1>0, <2>1 DEF LocalsOK, Issuing
    <3>2. now \in 0..MaxNow /\ now + RefreshTtl \in Nat
      BY BoundAssumption DEF TypeInv, TypeOK
    <3>3. [user |-> r.user, payload |-> r.payload, iat |-> now] \in Token
      BY <3>1, <3>2 DEF Token
    <3>4. s \in Request
      BY <1>0, <3>2, <3>3 DEF Request
    <3>5. /\ s.user = r.user /\ s.payload = r.payload
          /\ s.token = [user |-> r.user, payload |-> r.payload, iat |-> now]
      BY <1>0 DEF Request
    <3> HIDE DEF s
    <3> QED BY <3>1, <3>3, <3>4, <3>5 DEF LocalsOK, Issuing
  <2> HIDE DEF s
  <2> QED BY <1>2, <2>1, <2>2, LocalStep DEF Sign, PC
<1>3. CASE Store(p)
  <2>1. pc[p] = "storing"
    BY <1>3 DEF Store, Goto
  <2>2. r.token \in Token /\ LocalsOK("failed", r, Stored)
    BY <1>0, <2>1 DEF LocalsOK, Issuing
  <2>3. CASE r.token \in Stored
    <3> QED BY <1>0, <1>3, <2>2, <2>3, LocalStep DEF Store, PC, tables
  <2>4. CASE r.token \notin Stored
    <3>1. NewRow(r) \in Row
      BY <1>0, BoundAssumption DEF NewRow, Row, Request, TypeInv, TypeOK
    <3>2. rows' = [t \in Stored \cup {r.token} |->
                     IF t = r.token THEN NewRow(r) ELSE rows[t]]
      BY <1>3, <2>4 DEF Store
    <3>3. Stored' = Stored \cup {r.token}
      BY <3>2 DEF Stored
    <3>4. DataOK'
      BY <1>3, <2>2, <3>1, <3>2, <3>3 DEF Store, TypeInv, TypeOK, DataOK, clients, history
    <3>5. LocalsOK("responding", r, Stored')
      BY <1>0, <1>3, <2>1, <2>4 DEF LocalsOK, Issuing, Store, Goto
    <3> QED BY <1>0, <1>3, <2>4, <3>3, <3>4, <3>5, TableStep DEF Store, PC
  <2> QED BY <2>3, <2>4
<1>4. CASE Respond(p)
  <2>1. pc[p] = "responding"
    BY <1>4 DEF Respond, Done, Goto
  <2>2. r.token \in Token /\ r.user \in Users /\ r.device \in Device
    BY <1>0, <2>1 DEF LocalsOK, Issuing, Request
  <2>3. DataOK' /\ Stored \subseteq Stored'
    BY <1>4, <2>2 DEF Respond, MustAnnounce, TypeInv, TypeOK, DataOK, Stored, tables,
                      history, Device
  <2>4. LocalsOK("idle", NoRequest, Stored')
    BY NoRequestOK DEF LocalsOK, Issuing
  <2> QED BY <1>4, <2>3, <2>4, NoRequestOK, TableStep DEF Respond, Done, PC
<1> QED BY <1>1, <1>2, <1>3, <1>4

\* Revoking every session of a user, and the one a refresh consumes.
LEMMA RevokeTypeInv ==
    ASSUME TypeInv, NEW p \in Procs,
           WipeSessions(p) \/ Logout(p) \/ DeleteUser(p) \/ RevokeConsumed(p)
    PROVE  TypeInv'
<1>1. CASE WipeSessions(p) \/ Logout(p) \/ DeleteUser(p)
  <2> DEFINE u == req[p].user
  <2>1. u \in Users
    BY <1>1 DEF WipeSessions, Logout, DeleteUser, Reject, Done, Goto, TypeInv, LocalsOK
  <2>2. rows' = RevokeAllOf(u)
    BY <1>1 DEF WipeSessions, Logout, DeleteUser
  <2>3. Stored' = Stored /\ \A t \in Stored' : rows'[t] \in Row
    BY <2>2, RevokeAllType DEF TypeInv, Stored
  <2>4. DataOK'
    BY <1>1, <2>1, <2>3 DEF WipeSessions, Logout, DeleteUser, RowsOf, TypeInv, TypeOK,
                            DataOK, clients
  <2>5. LocalsOK("idle", NoRequest, Stored') /\ LocalsOK("failed", NoRequest, Stored')
    BY NoRequestOK DEF LocalsOK, Issuing
  <2> QED BY <1>1, <2>3, <2>4, <2>5, NoRequestOK, TableStep
          DEF WipeSessions, Logout, DeleteUser, Reject, Done, PC
<1>2. CASE RevokeConsumed(p)
  <2> DEFINE r == req[p]
  <2>1. r \in Request /\ LocalsOK("revoking", r, Stored)
    BY <1>2 DEF RevokeConsumed, Goto, TypeInv, TypeOK
  <2>2. Stored' = Stored /\ \A t \in Stored' : rows'[t] \in Row
    BY <1>2, <2>1 DEF RevokeConsumed, LocalsOK, Stored, TypeInv, TypeOK, Row
  <2>3. DataOK'
    BY <1>2, <2>2 DEF RevokeConsumed, TypeInv, TypeOK, DataOK, clients, history
  <2>4. LocalsOK("signing", r, Stored')
    BY <1>2, <2>1 DEF RevokeConsumed, LocalsOK, Issuing, Goto
  <2> QED BY <1>2, <2>1, <2>2, <2>3, <2>4, TableStep DEF RevokeConsumed, PC
<1> QED BY <1>1, <1>2

\* A refresh reads its session again.
LEMMA LoadTypeInv ==
    ASSUME TypeInv, NEW p \in Procs, LoadSession(p) PROVE TypeInv'
<1> DEFINE r == req[p]
           s == [r EXCEPT !.payload = profile[r.user], !.device = rows[r.consumed].device]
<1>1. pc[p] = "loading"
  BY DEF LoadSession, Goto, Reject
<1>2. r \in Request /\ r.user \in Users /\ r.consumed \in Stored
  BY <1>1 DEF TypeInv, TypeOK, LocalsOK
<1>3. CASE Reject(p, "loading")
  BY <1>3, RejectStep DEF LoadSession
<1>4. CASE Goto(p, "loading", "revoking", s)
  <2>1. profile[r.user] \in Payloads /\ rows[r.consumed].device \in Device
    BY <1>2 DEF TypeInv, TypeOK, Row
  <2>2. s \in Request
    BY <1>2, <2>1 DEF Request
  <2>3. LocalsOK("revoking", s, Stored)
    BY <1>2, <2>1 DEF LocalsOK, Issuing, Request, TypeInv, TypeOK
  <2> HIDE DEF s
  <2> QED BY <1>4, <2>2, <2>3, LocalStep DEF LoadSession, PC
<1> QED BY <1>3, <1>4 DEF LoadSession

LEMMA FaultTypeInv ==
    ASSUME TypeInv, NEW p \in Procs, Fault(p) PROVE TypeInv'
<1> DEFINE r == req[p]
<1>1. r \in Request /\ LocalsOK(pc[p], r, Stored) /\ pc[p] # "idle" /\ pc[p] # "failed"
  BY DEF TypeInv, TypeOK, Fault
<1>2. r.user \in Users /\ (MustAnnounce(r) => r.device \in Devices)
  BY <1>1 DEF LocalsOK, MustAnnounce, Request, Device
<1>3. DataOK' /\ Stored \subseteq Stored'
  BY <1>2, BoundAssumption DEF Fault, TypeInv, TypeOK, DataOK, Stored, tables, clients
<1>4. LocalsOK("failed", r, Stored')
  BY DEF LocalsOK, Issuing
<1> QED BY <1>1, <1>3, <1>4, TableStep DEF Fault, PC

LEMMA NextTypeInv == TypeInv /\ [Next]_vars => TypeInv'
<1> SUFFICES ASSUME TypeInv, [Next]_vars PROVE TypeInv'
  OBVIOUS
<1>1. ASSUME NEW p \in Procs, Arrive(p) PROVE TypeInv'
  BY <1>1, ArriveTypeInv
<1>2. ASSUME NEW p \in Procs, Proceed(p) PROVE TypeInv'
  <2>1. CASE SendError(p)
    BY <2>1, RejectStep DEF SendError
  <2> QED BY <1>2, <2>1, IssueTypeInv, RevokeTypeInv, LoadTypeInv DEF Proceed
<1>3. ASSUME NEW p \in Procs, Fault(p) PROVE TypeInv'
  BY <1>3, FaultTypeInv
<1>4. ASSUME NEW u \in Users, NEW x \in Payloads, ChangeProfile(u, x) PROVE TypeInv'
  <2>1. TypeOK'
    BY <1>4 DEF ChangeProfile, TypeInv, TypeOK, Stored, clients, history
  <2>2. \A p \in Procs : LocalsOK(pc[p], req[p], Stored)'
    BY <1>4 DEF ChangeProfile, TypeInv, LocalsOK, Stored
  <2> QED BY <2>1, <2>2 DEF TypeInv
<1>5. CASE Tick
  <2>1. TypeOK'
    BY <1>5, BoundAssumption DEF Tick, TypeInv, TypeOK, Stored, tables, clients, history
  <2>2. \A p \in Procs : LocalsOK(pc[p], req[p], Stored)'
    BY <1>5 DEF Tick, TypeInv, LocalsOK, Stored, tables
  <2> QED BY <2>1, <2>2 DEF TypeInv
<1>6. CASE UNCHANGED vars
  <2>1. TypeOK'
    BY <1>6 DEF TypeInv, TypeOK, Stored, vars, tables, clients, history
  <2>2. \A p \in Procs : LocalsOK(pc[p], req[p], Stored)'
    BY <1>6 DEF TypeInv, LocalsOK, Stored, vars, tables
  <2> QED BY <2>1, <2>2 DEF TypeInv
<1> QED BY <1>1, <1>2, <1>3, <1>4, <1>5, <1>6 DEF Next

\* Type correctness, for every instance: whatever requests do, the tables, the
\* clients' tokens and the locals of requests keep their types.
THEOREM TypeCorrect == Spec => []TypeOK
<1>1. TypeInv => TypeOK
  BY DEF TypeInv
<1> QED BY <1>1, InitTypeInv, NextTypeInv, PTL DEF Spec

-----------------------------------------------------------------------------
(* Rotation.  What a request knows of the session it consumes stays true     *)
(* because rows are never deleted, never change device, and never live again. *)

\* The table only grows, and a row only ever changes by being revoked.
RowsPersist ==
    /\ Stored \subseteq Stored'
    /\ \A t \in Stored :
         /\ rows'[t].device = rows[t].device
         /\ rows'[t].parent = rows[t].parent
         /\ rows[t].revoked => rows'[t].revoked

LEMMA NextRowsPersist == TypeInv /\ [Next]_vars => RowsPersist
<1> SUFFICES ASSUME TypeInv, [Next]_vars PROVE RowsPersist
  OBVIOUS
<1>1. CASE UNCHANGED rows
  BY <1>1 DEF RowsPersist, Stored
<1>2. ASSUME NEW p \in Procs, Store(p), req[p].token \notin Stored PROVE RowsPersist
  <2>1. rows' = [t \in Stored \cup {req[p].token} |->
                   IF t = req[p].token THEN NewRow(req[p]) ELSE rows[t]]
    BY <1>2 DEF Store
  <2> QED BY <1>2, <2>1 DEF RowsPersist, Stored
<1>3. ASSUME NEW p \in Procs, WipeSessions(p) \/ Logout(p) \/ DeleteUser(p)
      PROVE  RowsPersist
  <2>1. rows' = RevokeAllOf(req[p].user)
    BY <1>3 DEF WipeSessions, Logout, DeleteUser
  <2> QED BY <2>1, RevokeAllType DEF RowsPersist, Stored, TypeInv
<1>4. ASSUME NEW p \in Procs, RevokeConsumed(p) PROVE RowsPersist
  BY <1>4 DEF RevokeConsumed, RowsPersist, Stored, TypeInv, TypeOK, Row
<1>5. ASSUME NEW p \in Procs, Arrive(p) PROVE UNCHANGED rows
  BY <1>5 DEF Arrive, SignIn, ValidateRefresh, AuthenticateLogout, FindUserToDelete, tables
<1>6. ASSUME NEW p \in Procs, Fault(p) PROVE UNCHANGED rows
  BY <1>6 DEF Fault, tables
<1>7. ASSUME NEW p \in Procs, Proceed(p), ~UNCHANGED rows
      PROVE  \/ Store(p) /\ req[p].token \notin Stored
             \/ WipeSessions(p) \/ Logout(p) \/ DeleteUser(p) \/ RevokeConsumed(p)
  BY <1>7 DEF Proceed, CheckDevice, Sign, Store, Respond, LoadSession, SendError, tables
<1>8. Tick \/ (\E u \in Users, x \in Payloads : ChangeProfile(u, x)) \/ UNCHANGED vars
        => UNCHANGED rows
  BY DEF Tick, ChangeProfile, vars, tables
<1> QED BY <1>1, <1>2, <1>3, <1>4, <1>5, <1>6, <1>7, <1>8 DEF Next

\* The session a refresh consumes, between the look-up and the answer.
ConsumedOK(at, r) ==
    LET s == r.consumed IN
    /\ at = "checking" => s = None
    /\ at \in {"loading", "revoking"} => s # None
    /\ at \in {"loading", "revoking"} \cup Issuing /\ s # None
         => s \in Stored /\ s.user = r.user
    /\ at \in {"revoking"} \cup Issuing /\ s # None => rows[s].device = r.device
    /\ at \in Issuing /\ s # None => rows[s].revoked

\* The row of the token a request is about to deliver.
DeliveryOK(at, r) ==
    at = "responding" => r.token \in Stored /\ rows[r.token].device = r.device

RotationInv ==
    /\ TypeInv
    /\ RotationConsumes
    /\ DeliveredToItsDevice
    /\ \A p \in Procs : ConsumedOK(pc[p], req[p]) /\ DeliveryOK(pc[p], req[p])

\* What a request that does not move knows is still so.
LEMMA KnowledgeKept ==
    ASSUME RowsPersist, NEW p \in Procs, pc'[p] = pc[p], req'[p] = req[p],
           ConsumedOK(pc[p], req[p]), DeliveryOK(pc[p], req[p])
    PROVE  ConsumedOK(pc[p], req[p])' /\ DeliveryOK(pc[p], req[p])'
BY DEF RowsPersist, ConsumedOK, DeliveryOK, Issuing

\* A request with nothing in its locals knows nothing that could be false.
LEMMA NothingKnown ==
    ASSUME NEW p \in Procs, pc'[p] \in {"idle", "failed", "wiping", "loggingOut", "deleting"}
    PROVE  ConsumedOK(pc[p], req[p])' /\ DeliveryOK(pc[p], req[p])'
BY DEF ConsumedOK, DeliveryOK, Issuing

\* A step that adds no row keeps what holds of the rows there are.
LEMMA RowsKeepRotation ==
    ASSUME RotationInv, RowsPersist, Stored' = Stored PROVE RotationConsumes'
BY DEF RotationInv, RowsPersist, RotationConsumes

\* Store alone adds a row, and Respond alone delivers a token.
LEMMA OnlyStoreAdds ==
    ASSUME TypeInv, [Next]_vars, Stored' # Stored
    PROVE  \E p \in Procs : Store(p) /\ req[p].token \notin Stored
<1>1. \A p \in Procs : WipeSessions(p) \/ Logout(p) \/ DeleteUser(p)
        => Stored' = Stored
  BY RevokeAllType DEF WipeSessions, Logout, DeleteUser, TypeInv, Stored
<1>2. \A p \in Procs : RevokeConsumed(p) => Stored' = Stored
  BY DEF RevokeConsumed, Stored
<1>3. ASSUME UNCHANGED rows PROVE Stored' = Stored
  BY <1>3 DEF Stored
<1> QED BY <1>1, <1>2, <1>3
        DEF Next, Arrive, Proceed, SignIn, ValidateRefresh, AuthenticateLogout,
            FindUserToDelete, Fault, ChangeProfile, Tick, CheckDevice, Sign, Store,
            Respond, LoadSession, SendError, vars, tables

LEMMA OnlyRespondDelivers ==
    ASSUME [Next]_vars, held' # held PROVE \E p \in Procs : Respond(p)
BY DEF Next, Arrive, Proceed, SignIn, ValidateRefresh, AuthenticateLogout,
       FindUserToDelete, Fault, ChangeProfile, Tick, CheckDevice, Sign, Store,
       WipeSessions, Logout, DeleteUser, RevokeConsumed, LoadSession, SendError,
       vars, tables, clients

\* The row Store adds, with all it says.
LEMMA StoredRow ==
    ASSUME TypeInv, NEW p \in Procs, Store(p), req[p].token \notin Stored
    PROVE  /\ pc[p] = "storing" /\ pc'[p] = "responding" /\ req'[p] = req[p]
           /\ req[p] \in Request /\ req[p].token \in Token /\ req[p].token.user = req[p].user
           /\ Stored' = Stored \cup {req[p].token}
           /\ \A t \in Stored : rows'[t] = rows[t]
           /\ rows'[req[p].token].parent = req[p].consumed
           /\ rows'[req[p].token].device = req[p].device
<1> DEFINE r == req[p]
<1>1. pc[p] = "storing" /\ pc'[p] = "responding" /\ req'[p] = r
  BY DEF Store, Goto, TypeInv, TypeOK
<1>2. r \in Request /\ r.token \in Token /\ r.token.user = r.user
  BY <1>1 DEF TypeInv, TypeOK, LocalsOK, Issuing
<1>3. rows' = [t \in Stored \cup {r.token} |-> IF t = r.token THEN NewRow(r) ELSE rows[t]]
  BY DEF Store
<1>4. NewRow(r).parent = r.consumed /\ NewRow(r).device = r.device
  BY DEF NewRow
<1> QED BY <1>1, <1>2, <1>3, <1>4 DEF Stored

LEMMA NextRotationConsumes ==
    ASSUME RotationInv, [Next]_vars PROVE RotationConsumes'
<1>0. RowsPersist
  BY NextRowsPersist DEF RotationInv
<1>1. CASE Stored' = Stored
  BY <1>0, <1>1, RowsKeepRotation
<1>2. ASSUME NEW p \in Procs, Store(p), req[p].token \notin Stored
      PROVE  RotationConsumes'
  <2> DEFINE r == req[p]
  <2>1. /\ pc[p] = "storing" /\ r.token.user = r.user
        /\ Stored' = Stored \cup {r.token}
        /\ \A t \in Stored : rows'[t] = rows[t]
        /\ rows'[r.token].parent = r.consumed /\ rows'[r.token].device = r.device
    BY <1>2, StoredRow DEF RotationInv
  <2>2. r.consumed # None =>
          /\ r.consumed \in Stored /\ r.consumed.user = r.user
          /\ rows[r.consumed].device = r.device /\ rows[r.consumed].revoked
    BY <2>1 DEF RotationInv, ConsumedOK, Issuing
  <2>3. ASSUME NEW t \in Stored', rows'[t].parent # None
        PROVE  /\ rows'[t].parent \in Stored'
               /\ rows'[rows'[t].parent].revoked
               /\ rows'[t].parent.user = t.user
               /\ rows'[rows'[t].parent].device = rows'[t].device
    <3>1. CASE t = r.token
      BY <1>2, <2>1, <2>2, <2>3, <3>1
    <3>2. CASE t \in Stored
      <4>1. rows[t].parent # None
        BY <2>1, <2>3, <3>2
      <4>2. /\ rows[t].parent \in Stored /\ rows[rows[t].parent].revoked
            /\ rows[t].parent.user = t.user
            /\ rows[rows[t].parent].device = rows[t].device
        BY <3>2, <4>1 DEF RotationInv, RotationConsumes
      <4> QED BY <2>1, <3>2, <4>2
    <3> QED BY <2>1, <2>3, <3>1, <3>2
  <2> QED BY <2>3 DEF RotationConsumes
<1> QED BY <1>1, <1>2, OnlyStoreAdds DEF RotationInv

LEMMA NextDelivered ==
    ASSUME RotationInv, [Next]_vars PROVE DeliveredToItsDevice'
<1>0. RowsPersist
  BY NextRowsPersist DEF RotationInv
<1>1. CASE held' = held
  <2> SUFFICES ASSUME NEW h \in held
               PROVE  h.token \in Stored' /\ rows'[h.token].device = h.device
    BY <1>1 DEF DeliveredToItsDevice
  <2>1. h.token \in Stored /\ rows[h.token].device = h.device
    BY DEF RotationInv, DeliveredToItsDevice
  <2> QED BY <1>0, <2>1 DEF RowsPersist
<1>2. ASSUME NEW p \in Procs, Respond(p) PROVE DeliveredToItsDevice'
  <2>1. /\ req[p].token \in Stored
        /\ rows[req[p].token].device = req[p].device
    BY <1>2 DEF RotationInv, DeliveryOK, Respond, Done, Goto
  <2>2. held' = held \cup {[token |-> req[p].token, device |-> req[p].device]}
    BY <1>2 DEF Respond
  <2> QED BY <1>0, <2>1, <2>2 DEF RotationInv, RowsPersist, DeliveredToItsDevice
<1> QED BY <1>1, <1>2, OnlyRespondDelivers

\* Each step leaves the request that takes it knowing what its next await needs.
LEMMA NextKnowledge ==
    ASSUME RotationInv, [Next]_vars, NEW q \in Procs
    PROVE  ConsumedOK(pc[q], req[q])' /\ DeliveryOK(pc[q], req[q])'
<1> DEFINE Known == ConsumedOK(pc[q], req[q])' /\ DeliveryOK(pc[q], req[q])'
<1>0. /\ RowsPersist /\ ConsumedOK(pc[q], req[q]) /\ DeliveryOK(pc[q], req[q])
      /\ TypeInv /\ pc[q] \in PC /\ req[q] \in Request
  BY NextRowsPersist DEF RotationInv, TypeInv, TypeOK
<1>1. CASE pc'[q] = pc[q] /\ req'[q] = req[q]
  BY <1>0, <1>1, KnowledgeKept
<1>2. CASE pc'[q] \in {"idle", "failed", "wiping", "loggingOut", "deleting"}
  BY <1>2, NothingKnown
<1>3. ASSUME NEW u \in Users, NEW d \in Device, SignIn(q, u, d) PROVE Known
  <2>1. \/ pc'[q] = "failed"
        \/ req'[q].consumed = None /\ pc'[q] \in {"signing", "checking"}
    <3> DEFINE s == [NoRequest EXCEPT !.user = u, !.payload = profile[u], !.device = d,
                                      !.checks = IF d = None THEN {} ELSE Check]
    <3>1. s.consumed = None
      BY DEF NoRequest
    <3>2. \/ Reject(q, "idle")
          \/ Goto(q, "idle", IF d = None THEN "signing" ELSE "checking", s)
      BY <1>3 DEF SignIn
    <3> HIDE DEF s
    <3> QED BY <1>0, <3>1, <3>2 DEF Reject, Goto, TypeInv, TypeOK
  <2> QED BY <1>2, <2>1 DEF ConsumedOK, DeliveryOK
<1>4. ASSUME NEW t \in Token, ValidateRefresh(q, t), pc'[q] = "loading" PROVE Known
  <2>1. t \in Stored /\ req'[q] = [NoRequest EXCEPT !.user = t.user, !.consumed = t]
    BY <1>0, <1>4 DEF ValidateRefresh, Reject, Goto, TypeInv, TypeOK
  <2>2. req'[q].user = t.user /\ req'[q].consumed = t
    BY <2>1 DEF NoRequest
  <2> QED BY <1>0, <1>4, <2>1, <2>2, NoneAssumption
          DEF ConsumedOK, DeliveryOK, RowsPersist, Issuing
<1>5. ASSUME NEW c \in Check, CheckDevice(q, c) PROVE Known
  <2>1. pc[q] = "checking" /\ req'[q].consumed = req[q].consumed
        /\ pc'[q] \in {"checking", "signing"}
    BY <1>0, <1>5 DEF CheckDevice, Goto, TypeInv, TypeOK, Request
  <2> QED BY <1>0, <2>1 DEF ConsumedOK, DeliveryOK, Issuing
<1>6. CASE Sign(q)
  <2>1. /\ pc[q] = "signing" /\ pc'[q] = "storing" /\ req'[q].user = req[q].user
        /\ req'[q].consumed = req[q].consumed /\ req'[q].device = req[q].device
    BY <1>0, <1>6 DEF Sign, Goto, TypeInv, TypeOK, Request
  <2> QED BY <1>0, <2>1 DEF ConsumedOK, DeliveryOK, Issuing, RowsPersist
<1>7. CASE Store(q) /\ req[q].token \notin Stored
  BY <1>0, <1>7, StoredRow DEF ConsumedOK, DeliveryOK, Issuing, RowsPersist
<1>8. CASE LoadSession(q) /\ pc'[q] = "revoking"
  <2>1. /\ pc[q] = "loading" /\ req'[q].user = req[q].user
        /\ req'[q].consumed = req[q].consumed
        /\ req'[q].device = rows[req[q].consumed].device
    BY <1>0, <1>8 DEF LoadSession, Reject, Goto, TypeInv, TypeOK, Request
  <2> QED BY <1>0, <1>8, <2>1 DEF ConsumedOK, DeliveryOK, Issuing, RowsPersist
<1>9. CASE RevokeConsumed(q)
  <2>1. pc[q] = "revoking" /\ pc'[q] = "signing" /\ req'[q] = req[q]
    BY <1>0, <1>9 DEF RevokeConsumed, Goto, TypeInv, TypeOK
  <2>2. req[q].consumed \in Stored /\ rows'[req[q].consumed].revoked
    BY <1>0, <1>9, <2>1 DEF RevokeConsumed, ConsumedOK, TypeInv, TypeOK, Row, Stored
  <2> QED BY <1>0, <2>1, <2>2 DEF ConsumedOK, DeliveryOK, Issuing, RowsPersist
<1>10. ASSUME NEW p \in Procs, p # q, Arrive(p) \/ Proceed(p) \/ Fault(p)
       PROVE  pc'[q] = pc[q] /\ req'[q] = req[q]
  BY <1>0, <1>10 DEF Arrive, Proceed, SignIn, ValidateRefresh, AuthenticateLogout,
       FindUserToDelete, Fault, CheckDevice, Sign, Store, Respond, WipeSessions, Logout,
       DeleteUser, RevokeConsumed, LoadSession, SendError, Reject, Done, Goto, TypeInv, TypeOK
<1>11. ASSUME Tick \/ (\E u \in Users, x \in Payloads : ChangeProfile(u, x)) \/ UNCHANGED vars
       PROVE  pc'[q] = pc[q] /\ req'[q] = req[q]
  BY <1>11 DEF Tick, ChangeProfile, vars
<1>12. ASSUME \/ \E u \in Users : AuthenticateLogout(q, u) \/ FindUserToDelete(q, u)
              \/ Fault(q) \/ Respond(q) \/ WipeSessions(q) \/ Logout(q) \/ DeleteUser(q)
              \/ SendError(q)
       PROVE  pc'[q] \in {"idle", "failed", "wiping", "loggingOut", "deleting"}
  BY <1>0, <1>12 DEF AuthenticateLogout, FindUserToDelete, Fault, Respond, WipeSessions,
       Logout, DeleteUser, SendError, Reject, Done, Goto, TypeInv, TypeOK
<1>13. ASSUME NEW t \in Token, ValidateRefresh(q, t), pc'[q] # "loading"
       PROVE  pc'[q] \in {"failed", "wiping"}
  BY <1>0, <1>13 DEF ValidateRefresh, Reject, Goto, TypeInv, TypeOK
<1>14. ASSUME \/ Store(q) /\ req[q].token \in Stored
              \/ LoadSession(q) /\ pc'[q] # "revoking"
       PROVE  pc'[q] = "failed"
  BY <1>0, <1>14 DEF Store, LoadSession, Reject, Goto, TypeInv, TypeOK
<1>15. CASE Arrive(q)
  BY <1>2, <1>3, <1>4, <1>12, <1>13, <1>15 DEF Arrive
<1>16. CASE Proceed(q)
  BY <1>2, <1>5, <1>6, <1>7, <1>8, <1>9, <1>12, <1>14, <1>16 DEF Proceed
<1>17. CASE Fault(q)
  BY <1>2, <1>12, <1>17
<1> QED BY <1>1, <1>10, <1>11, <1>15, <1>16, <1>17 DEF Next

LEMMA InitRotationInv == Init => RotationInv
BY InitTypeInv DEF Init, RotationInv, RotationConsumes, DeliveredToItsDevice, ConsumedOK,
   DeliveryOK, Issuing, Stored

LEMMA RotationInvariant == Spec => []RotationInv
<1>1. RotationInv /\ [Next]_vars => RotationInv'
  BY NextTypeInv, NextRotationConsumes, NextDelivered, NextKnowledge DEF RotationInv
<1> QED BY <1>1, InitRotationInv, PTL DEF Spec

\* A session created by rotation coexists only with its parent revoked, of the
\* same user and device, whatever the number of concurrent requests and faults.
THEOREM RotationTheorem == Spec => []RotationConsumes
BY RotationInvariant, PTL DEF RotationInv

\* No token string is ever delivered to a device other than its row's, although
\* the strings requests sign can be equal.
THEOREM DeliveryTheorem == Spec => []DeliveredToItsDevice
BY RotationInvariant, PTL DEF RotationInv

-----------------------------------------------------------------------------
(* New devices.  A sign-in keeps silent about a device because a row has it;  *)
(* that row's own request announced it, will, or was cut short.              *)

\* A device was judged trusted because some session of the user has it.
TrustOK(at, r) ==
    /\ at \in {"checking"} \cup Issuing /\ r.trusted
         => \E t \in Stored : t.user = r.user /\ rows[t].device = r.device
    /\ at \in {"loading", "revoking"} => ~r.trusted

DeviceInv ==
    /\ RotationInv
    /\ DevicesAnnounced
    /\ \A p \in Procs : TrustOK(pc[p], req[p])

Announced == announced \cup lostAlerts

\* Some request is about to announce d, when requests are at `at` with locals r.
Pending(d, at, r) ==
    \E p \in Procs : /\ at[p] = "responding"
                     /\ MustAnnounce(r[p])
                     /\ d = <<r[p].user, r[p].device>>

LEMMA AnnouncedPersists == TypeInv /\ [Next]_vars => Announced \subseteq Announced'
<1> SUFFICES ASSUME TypeInv, [Next]_vars PROVE Announced \subseteq Announced'
  OBVIOUS
<1>1. ASSUME NEW p \in Procs, Arrive(p) PROVE UNCHANGED <<announced, lostAlerts>>
  BY <1>1 DEF Arrive, SignIn, ValidateRefresh, AuthenticateLogout, FindUserToDelete,
              clients, history
<1>2. ASSUME NEW p \in Procs, Proceed(p)
      PROVE  announced \subseteq announced' /\ UNCHANGED lostAlerts
  BY <1>2 DEF Proceed, CheckDevice, Sign, Store, Respond, WipeSessions, Logout, DeleteUser,
              RevokeConsumed, LoadSession, SendError, clients, history
<1>3. ASSUME NEW p \in Procs, Fault(p)
      PROVE  lostAlerts \subseteq lostAlerts' /\ UNCHANGED announced
  BY <1>3 DEF Fault, clients
<1>4. Tick \/ (\E u \in Users, x \in Payloads : ChangeProfile(u, x)) \/ UNCHANGED vars
        => UNCHANGED <<announced, lostAlerts>>
  BY DEF Tick, ChangeProfile, vars, clients, history
<1> QED BY <1>1, <1>2, <1>3, <1>4 DEF Next, Announced

\* A pending announcement stays pending until it is made or lost.
LEMMA PendingPersists ==
    ASSUME TypeInv, [Next]_vars, NEW d, Pending(d, pc, req)
    PROVE  Pending(d, pc', req') \/ d \in Announced'
<1> PICK q \in Procs : /\ pc[q] = "responding" /\ MustAnnounce(req[q])
                       /\ d = <<req[q].user, req[q].device>>
  BY DEF Pending
<1>0. pc \in [Procs -> PC] /\ req \in [Procs -> Request]
  BY DEF TypeInv, TypeOK
<1>1. CASE pc'[q] = pc[q] /\ req'[q] = req[q]
  <2>1. MustAnnounce(req'[q])
    BY <1>1
  <2> QED BY <1>1, <2>1 DEF Pending
<1>2. CASE Respond(q) \/ Fault(q)
  BY <1>2 DEF Respond, Fault, Announced
<1>3. ASSUME NEW p \in Procs, p # q, Arrive(p) \/ Proceed(p) \/ Fault(p)
      PROVE  pc'[q] = pc[q] /\ req'[q] = req[q]
  BY <1>0, <1>3 DEF Arrive, Proceed, SignIn, ValidateRefresh, AuthenticateLogout,
       FindUserToDelete, Fault, CheckDevice, Sign, Store, Respond, WipeSessions, Logout,
       DeleteUser, RevokeConsumed, LoadSession, SendError, Reject, Done, Goto
<1>4. ASSUME Tick \/ (\E u \in Users, x \in Payloads : ChangeProfile(u, x)) \/ UNCHANGED vars
      PROVE  pc'[q] = pc[q] /\ req'[q] = req[q]
  BY <1>4 DEF Tick, ChangeProfile, vars
<1>5. ~Arrive(q) /\ (Proceed(q) => Respond(q))
  BY DEF Arrive, Proceed, SignIn, ValidateRefresh, AuthenticateLogout, FindUserToDelete,
       CheckDevice, Sign, Store, WipeSessions, Logout, DeleteUser, RevokeConsumed,
       LoadSession, SendError, Reject, Done, Goto
<1> QED BY <1>1, <1>2, <1>3, <1>4, <1>5 DEF Next

LEMMA NextTrust ==
    ASSUME DeviceInv, [Next]_vars, NEW q \in Procs PROVE TrustOK(pc[q], req[q])'
<1> DEFINE Known == TrustOK(pc[q], req[q])'
<1>0. /\ RowsPersist /\ TrustOK(pc[q], req[q])
      /\ pc \in [Procs -> PC] /\ req \in [Procs -> Request]
  BY NextRowsPersist DEF DeviceInv, RotationInv, TypeInv, TypeOK
<1>1. CASE pc'[q] = pc[q] /\ req'[q] = req[q]
  BY <1>0, <1>1 DEF TrustOK, RowsPersist, Issuing
<1>2. CASE pc'[q] \in {"idle", "failed", "wiping", "loggingOut", "deleting"}
  BY <1>2 DEF TrustOK, Issuing
<1>3. CASE Arrive(q)
  <2>1. ASSUME NEW u \in Users, NEW d \in Device, SignIn(q, u, d) PROVE ~req'[q].trusted
    <3> DEFINE s == [NoRequest EXCEPT !.user = u, !.payload = profile[u], !.device = d,
                                      !.checks = IF d = None THEN {} ELSE Check]
    <3>1. ~s.trusted /\ ~NoRequest.trusted
      BY DEF NoRequest
    <3>2. \/ Reject(q, "idle")
          \/ Goto(q, "idle", IF d = None THEN "signing" ELSE "checking", s)
      BY <2>1 DEF SignIn
    <3> HIDE DEF s
    <3> QED BY <1>0, <3>1, <3>2 DEF Reject, Goto
  <2>2. ASSUME NEW t \in Token, ValidateRefresh(q, t) PROVE ~req'[q].trusted
    <3> DEFINE r1 == [NoRequest EXCEPT !.user = t.user]
               r2 == [NoRequest EXCEPT !.user = t.user, !.consumed = t]
    <3>1. ~r1.trusted /\ ~r2.trusted /\ ~NoRequest.trusted
      BY DEF NoRequest
    <3>2. Reject(q, "idle") \/ Goto(q, "idle", "wiping", r1) \/ Goto(q, "idle", "loading", r2)
      BY <2>2 DEF ValidateRefresh
    <3> HIDE DEF r1, r2
    <3> QED BY <1>0, <3>1, <3>2 DEF Reject, Goto
  <2>3. ASSUME NEW u \in Users, AuthenticateLogout(q, u) \/ FindUserToDelete(q, u)
        PROVE  ~req'[q].trusted
    BY <1>0, <2>3 DEF AuthenticateLogout, FindUserToDelete, Reject, Goto, NoRequest
  <2> QED BY <1>3, <2>1, <2>2, <2>3 DEF Arrive, TrustOK
<1>4. ASSUME NEW c \in Check, CheckDevice(q, c) PROVE Known
  <2>1. /\ pc[q] = "checking"
        /\ req'[q].user = req[q].user /\ req'[q].device = req[q].device
        /\ req'[q].trusted <=> req[q].trusted \/ Finds(c, req[q].user, req[q].device)
        /\ pc'[q] \in {"checking", "signing"} /\ UNCHANGED rows
    BY <1>0, <1>4 DEF CheckDevice, Goto, Request, tables
  <2>2. Finds(c, req[q].user, req[q].device) =>
          \E t \in Stored : t.user = req[q].user /\ rows[t].device = req[q].device
    BY DEF Finds, RowsOf
  <2> QED BY <1>0, <2>1, <2>2 DEF TrustOK, Stored, Issuing
<1>5. CASE Sign(q)
  <2>1. /\ pc[q] = "signing" /\ pc'[q] = "storing" /\ req'[q].user = req[q].user
        /\ req'[q].trusted = req[q].trusted /\ req'[q].device = req[q].device
    BY <1>0, <1>5 DEF Sign, Goto, Request
  <2> QED BY <1>0, <2>1 DEF TrustOK, Issuing, RowsPersist
<1>6. CASE Store(q)
  <2>1. pc[q] = "storing" /\ req'[q] = req[q]
    BY <1>0, <1>6 DEF Store, Goto
  <2>2. ASSUME req[q].trusted
        PROVE  \E t \in Stored' : t.user = req[q].user /\ rows'[t].device = req[q].device
    <3>1. PICK t \in Stored : t.user = req[q].user /\ rows[t].device = req[q].device
      BY <1>0, <2>1, <2>2 DEF TrustOK, Issuing
    <3> QED BY <1>0, <3>1 DEF RowsPersist
  <2>3. pc'[q] \in {"failed", "responding"}
    BY <1>0, <1>6 DEF Store, Goto
  <2> QED BY <2>1, <2>2, <2>3 DEF TrustOK
<1>7. CASE LoadSession(q) \/ RevokeConsumed(q)
  <2>1. pc[q] \in {"loading", "revoking"}
    BY <1>7 DEF LoadSession, RevokeConsumed, Reject, Goto
  <2>2. ~req[q].trusted
    BY <1>0, <2>1 DEF TrustOK
  <2>3. ASSUME RevokeConsumed(q) PROVE ~req'[q].trusted
    BY <1>0, <2>2, <2>3 DEF RevokeConsumed, Goto
  <2>4. ASSUME LoadSession(q) PROVE ~req'[q].trusted
    <3> DEFINE s == [req[q] EXCEPT !.payload = profile[req[q].user],
                                   !.device = rows[req[q].consumed].device]
    <3>1. ~s.trusted /\ ~NoRequest.trusted
      BY <1>0, <2>2 DEF NoRequest, Request
    <3>2. Reject(q, "loading") \/ Goto(q, "loading", "revoking", s)
      BY <2>4 DEF LoadSession
    <3> HIDE DEF s
    <3> QED BY <1>0, <3>1, <3>2 DEF Reject, Goto
  <2>5. ~req'[q].trusted
    BY <1>7, <2>3, <2>4
  <2> QED BY <2>5 DEF TrustOK
<1>8. ASSUME NEW p \in Procs, p # q, Arrive(p) \/ Proceed(p) \/ Fault(p)
      PROVE  pc'[q] = pc[q] /\ req'[q] = req[q]
  BY <1>0, <1>8 DEF Arrive, Proceed, SignIn, ValidateRefresh, AuthenticateLogout,
       FindUserToDelete, Fault, CheckDevice, Sign, Store, Respond, WipeSessions, Logout,
       DeleteUser, RevokeConsumed, LoadSession, SendError, Reject, Done, Goto
<1>9. ASSUME Tick \/ (\E u \in Users, x \in Payloads : ChangeProfile(u, x)) \/ UNCHANGED vars
      PROVE  pc'[q] = pc[q] /\ req'[q] = req[q]
  BY <1>9 DEF Tick, ChangeProfile, vars
<1>10. CASE Respond(q) \/ Fault(q) \/ WipeSessions(q) \/ Logout(q) \/ DeleteUser(q) \/ SendError(q)
  <2>1. pc'[q] \in {"idle", "failed"}
    BY <1>0, <1>10 DEF Fault, Respond, WipeSessions, Logout, DeleteUser, SendError, Reject,
         Done, Goto
  <2> QED BY <1>2, <2>1
<1> QED BY <1>1, <1>3, <1>4, <1>5, <1>6, <1>7, <1>8, <1>9, <1>10 DEF Next, Proceed

LEMMA NextAnnounced ==
    ASSUME DeviceInv, [Next]_vars PROVE DevicesAnnounced'
<1>0. /\ RowsPersist /\ TypeInv /\ Announced \subseteq Announced'
  BY NextRowsPersist, AnnouncedPersists DEF DeviceInv, RotationInv
<1>1. ASSUME NEW t \in Stored, rows[t].device # None
      PROVE  \/ <<t.user, rows[t].device>> \in Announced'
             \/ Pending(<<t.user, rows[t].device>>, pc', req')
  <2> DEFINE d == <<t.user, rows[t].device>>
  <2>1. d \in Announced \/ Pending(d, pc, req)
    BY <1>1 DEF DeviceInv, DevicesAnnounced, Announced, Pending
  <2> QED BY <1>0, <2>1, PendingPersists
<1>2. ASSUME NEW t \in Stored', rows'[t].device # None
      PROVE  \/ <<t.user, rows'[t].device>> \in Announced'
               \/ Pending(<<t.user, rows'[t].device>>, pc', req')
  <2>1. CASE t \in Stored
    BY <1>0, <1>1, <1>2, <2>1 DEF RowsPersist
  <2>2. ASSUME t \notin Stored, NEW p \in Procs, Store(p), req[p].token \notin Stored
        PROVE  \/ <<t.user, rows'[t].device>> \in Announced'
               \/ Pending(<<t.user, rows'[t].device>>, pc', req')
    <3>1. /\ pc[p] = "storing" /\ pc'[p] = "responding" /\ req'[p] = req[p]
          /\ req[p] \in Request /\ req[p].token.user = req[p].user
          /\ Stored' = Stored \cup {req[p].token}
          /\ rows'[req[p].token].device = req[p].device
      BY <1>0, <2>2, StoredRow
    <3>2. t = req[p].token
      BY <2>2, <3>1
    <3>3. CASE MustAnnounce(req[p])
      <4>1. MustAnnounce(req'[p])
        BY <3>1, <3>3
      <4> QED BY <3>1, <3>2, <4>1 DEF Pending
    <3>4. CASE ~MustAnnounce(req[p])
      <4>1. \E s \in Stored : s.user = req[p].user /\ rows[s].device = req[p].device
        BY <1>2, <3>1, <3>2, <3>4 DEF MustAnnounce, DeviceInv, RotationInv, ConsumedOK, TrustOK, Issuing
      <4> QED BY <1>1, <1>2, <3>1, <3>2, <4>1
    <3> QED BY <3>3, <3>4
  <2> QED BY <1>0, <1>2, <2>1, <2>2, OnlyStoreAdds
<1> QED BY <1>2 DEF DevicesAnnounced, Announced, Pending

\* No device opens a session unannounced, for any number of concurrent sign-ins,
\* unless the announcing request is cut short between its row and its event.
THEOREM DevicesTheorem == Spec => []DevicesAnnounced
<1>1. Init => DeviceInv
  BY InitRotationInv DEF Init, DeviceInv, DevicesAnnounced, TrustOK, Issuing, Stored
<1>2. DeviceInv /\ [Next]_vars => DeviceInv'
  <2>1. RotationInv /\ [Next]_vars => RotationInv'
    BY NextTypeInv, NextRotationConsumes, NextDelivered, NextKnowledge DEF RotationInv
  <2> QED BY <2>1, NextTrust, NextAnnounced DEF DeviceInv
<1>3. DeviceInv => DevicesAnnounced
  BY DEF DeviceInv
<1> QED BY <1>1, <1>2, <1>3, PTL DEF Spec

-----------------------------------------------------------------------------
(* The refinement of SessionLineage.                                         *)

\* When no row is added and every row keeps its parent, the lineage stays, and
\* revoking the rows of a set ends their sessions.
LEMMA RevokingEnds ==
    ASSUME TypeInv, Stored' = Stored, RowsPersist PROVE Lineage!Next \/ UNCHANGED Lineage!vars
<1> DEFINE S == Live \ Live'
<1>1. \A t \in Stored : rows[t].revoked \in BOOLEAN
  BY DEF TypeInv, TypeOK, Row
<1>2. Live' = Live \ S /\ S \in SUBSET Live
  BY <1>1 DEF Live, RowsPersist
<1>3. Dead' = Dead \cup S
  BY <1>1 DEF Live, Dead, RowsPersist
<1>4. Heir' = Heir
  BY DEF Heir, RowsPersist
<1> HIDE DEF S
<1>5. Lineage!End(S)
  BY <1>2, <1>3, <1>4 DEF Lineage!End
<1> QED BY <1>2, <1>5 DEF Lineage!Next

\* Storing a row opens a session, the successor of a dead one if it was rotated.
LEMMA StoringOpens ==
    ASSUME RotationInv, RowsPersist,
           NEW p \in Procs, Store(p), req[p].token \notin Stored
    PROVE  Lineage!Next
<1> DEFINE r == req[p]
<1>1. /\ pc[p] = "storing" /\ r.token \in Token /\ r.token.user = r.user
      /\ Stored' = Stored \cup {r.token}
      /\ \A t \in Stored : rows'[t] = rows[t]
      /\ rows'[r.token].parent = r.consumed
      /\ ~rows'[r.token].revoked
  <2>1. ~NewRow(r).revoked
    BY DEF NewRow
  <2>2. rows' = [t \in Stored \cup {r.token} |-> IF t = r.token THEN NewRow(r) ELSE rows[t]]
    BY DEF Store
  <2>3. rows'[r.token] = NewRow(r)
    BY <2>2
  <2> QED BY StoredRow, <2>1, <2>3 DEF RotationInv
<1>2. Live' = Live \cup {r.token} /\ Dead' = Dead /\ r.token \notin Live \cup Dead
  BY <1>1 DEF Live, Dead
<1>3. CASE r.consumed = None
  <2>1. \A t \in Stored' : t # None
    BY <1>1, NoneAssumption DEF RotationInv, TypeInv, TypeOK
  <2>2. \A t \in Stored : rows[t].parent # r.token
    BY <1>1, NoneAssumption DEF RotationInv, RotationConsumes
  <2>3. Heir' = Heir
    BY <1>1, <1>3, <2>1, <2>2 DEF Heir
  <2> QED BY <1>1, <1>2, <2>3 DEF Lineage!Open, Lineage!Next
<1>4. CASE r.consumed # None
  <2>1. r.consumed \in Dead
    BY <1>1, <1>4 DEF RotationInv, ConsumedOK, Issuing, Dead
  <2>2. \A t \in Stored : rows[t].parent # r.token
    BY <1>1, NoneAssumption DEF RotationInv, RotationConsumes
  <2>3. Heir' = Heir \cup {<<r.consumed, r.token>>}
    BY <1>1, <2>1, <2>2 DEF Heir, Dead
  <2>4. r.consumed \in Token
    BY <2>1 DEF Dead, RotationInv, TypeInv, TypeOK
  <2> QED BY <1>1, <1>2, <2>1, <2>3, <2>4 DEF Lineage!Succeed, Lineage!Next
<1> QED BY <1>3, <1>4

\* Sessions implement their lifecycle: opened once, succeeded only when dead, and
\* never alive again, under every interleaving of requests, faults and deletions.
THEOREM LineageTheorem == Spec => LineageSpec
<1>1. Init => Lineage!Init
  BY DEF Init, Lineage!Init, Live, Dead, Heir, Stored
<1>2. RotationInv /\ [Next]_vars => [Lineage!Next]_(Lineage!vars)
  <2> SUFFICES ASSUME RotationInv, [Next]_vars PROVE [Lineage!Next]_(Lineage!vars)
    OBVIOUS
  <2>1. RowsPersist
    BY NextRowsPersist DEF RotationInv
  <2>2. CASE Stored' = Stored
    BY <2>1, <2>2, RevokingEnds DEF RotationInv
  <2>3. CASE Stored' # Stored
    BY <2>1, <2>3, OnlyStoreAdds, StoringOpens DEF RotationInv
  <2> QED BY <2>2, <2>3
<1> QED BY <1>1, <1>2, RotationInvariant, PTL DEF Spec, LineageSpec, Lineage!Spec

-----------------------------------------------------------------------------
(* Deletion.                                                                 *)

LEMMA NextBarrier ==
    ASSUME TypeInv, [Next]_vars, NEW u \in deleted, NEW q \in Issuers(u)'
    PROVE  q \in Issuers(u)
<1>0. /\ pc \in [Procs -> PC] /\ req \in [Procs -> Request] /\ q \in Procs
      /\ pc'[q] \in {"checking", "signing", "storing", "revoking"} /\ req'[q].user = u
      /\ u \in Users
  BY DEF TypeInv, TypeOK, Issuers
<1>1. CASE pc'[q] = pc[q] /\ req'[q] = req[q]
  BY <1>0, <1>1 DEF Issuers
<1>2. ASSUME NEW v \in Users, NEW d \in Device, SignIn(q, v, d) PROVE FALSE
  <2> DEFINE s == [NoRequest EXCEPT !.user = v, !.payload = profile[v], !.device = d,
                                    !.checks = IF d = None THEN {} ELSE Check]
  <2>1. s.user = v
    BY DEF NoRequest
  <2>2. \/ Reject(q, "idle")
        \/ v \notin deleted /\ Goto(q, "idle", IF d = None THEN "signing" ELSE "checking", s)
    BY <1>2 DEF SignIn
  <2> HIDE DEF s
  <2> QED BY <1>0, <2>1, <2>2 DEF Reject, Goto
<1>3. ASSUME NEW c \in Check, CheckDevice(q, c) PROVE q \in Issuers(u)
  BY <1>0, <1>3 DEF CheckDevice, Goto, Request, Issuers
<1>4. CASE Sign(q) \/ Store(q) \/ RevokeConsumed(q)
  <2>1. pc[q] \in {"signing", "storing", "revoking"}
    BY <1>4 DEF Sign, Store, RevokeConsumed, Goto
  <2>2. req'[q].user = req[q].user
    BY <1>0, <1>4 DEF Sign, Store, RevokeConsumed, Goto, Request
  <2> QED BY <1>0, <2>1, <2>2 DEF Issuers
<1>5. CASE LoadSession(q)
  <2> DEFINE s == [req[q] EXCEPT !.payload = profile[req[q].user],
                                 !.device = rows[req[q].consumed].device]
  <2>1. s.user = req[q].user
    BY <1>0 DEF Request
  <2>2. \/ Reject(q, "loading")
        \/ req[q].user \notin deleted /\ Goto(q, "loading", "revoking", s)
    BY <1>5 DEF LoadSession
  <2> HIDE DEF s
  <2> QED BY <1>0, <2>1, <2>2 DEF Reject, Goto
<1>6. ASSUME \/ \E t \in Token : ValidateRefresh(q, t)
             \/ \E v \in Users : AuthenticateLogout(q, v) \/ FindUserToDelete(q, v)
             \/ Respond(q) \/ WipeSessions(q) \/ Logout(q) \/ DeleteUser(q)
             \/ SendError(q) \/ Fault(q)
      PROVE  FALSE
  BY <1>0, <1>6 DEF ValidateRefresh, AuthenticateLogout, FindUserToDelete, Respond,
       WipeSessions, Logout, DeleteUser, SendError, Fault, Reject, Done, Goto
<1>7. ASSUME NEW p \in Procs, p # q, Arrive(p) \/ Proceed(p) \/ Fault(p)
      PROVE  pc'[q] = pc[q] /\ req'[q] = req[q]
  BY <1>0, <1>7 DEF Arrive, Proceed, SignIn, ValidateRefresh, AuthenticateLogout,
       FindUserToDelete, Fault, CheckDevice, Sign, Store, Respond, WipeSessions, Logout,
       DeleteUser, RevokeConsumed, LoadSession, SendError, Reject, Done, Goto
<1>8. ASSUME Tick \/ (\E v \in Users, x \in Payloads : ChangeProfile(v, x)) \/ UNCHANGED vars
      PROVE  pc'[q] = pc[q] /\ req'[q] = req[q]
  BY <1>8 DEF Tick, ChangeProfile, vars
<1>9. CASE Arrive(q)
  BY <1>2, <1>6, <1>9 DEF Arrive
<1>10. CASE Proceed(q)
  BY <1>3, <1>4, <1>5, <1>6, <1>10 DEF Proceed
<1> QED BY <1>0, <1>1, <1>6, <1>7, <1>8, <1>9, <1>10 DEF Next

\* Deleting a user is a barrier for issuing its sessions, for any number of
\* requests in flight.
THEOREM BarrierTheorem == Spec => DeletionBarrier
<1>1. TypeInv /\ [Next]_vars
        => [\A u \in deleted : Issuers(u)' \subseteq Issuers(u)]_vars
  BY NextBarrier
<1> QED BY <1>1, InitTypeInv, NextTypeInv, PTL DEF Spec, DeletionBarrier
-----------------------------------------------------------------------------
(* What rotation still promises when requests race.  EndedForGood fails: the *)
(* look-up, the revocation and the creation of a successor are three          *)
(* statements.  What a revocation does stop, how many successors a session    *)
(* can get, and that a lone request has no such race, hold in general.        *)

\* The successors of session s, and the requests that may still give it one.
Heirs(s) == {t \in Stored : rows[t].parent = s}

Rotators(s) ==
    {p \in Procs : /\ pc[p] \in {"loading", "revoking", "signing", "storing"}
                   /\ req[p].consumed = s}

\* Every edge of a request's life, with what it does to the session it consumes
\* and to the device checks it still waits for.
Moves(q) ==
    \/ pc'[q] = pc[q] /\ req'[q] = req[q]
    \/ pc[q] = "idle" /\ pc'[q] = "loading" /\ req'[q].consumed \in Live
    \/ pc[q] = "idle" /\ pc'[q] \in {"checking", "signing"} /\ req'[q].consumed = None
    \/ pc[q] = "idle" /\ pc'[q] \in {"failed", "wiping", "loggingOut", "deleting"}
    \/ /\ pc[q] = "checking"
       /\ req'[q].consumed = req[q].consumed
       /\ \E c \in req[q].checks :
            /\ req'[q].checks = req[q].checks \ {c}
            /\ pc'[q] = IF req[q].checks = {c} THEN "signing" ELSE "checking"
    \/ /\ <<pc[q], pc'[q]>> \in {<<"loading", "revoking">>, <<"revoking", "signing">>,
                                 <<"signing", "storing">>, <<"storing", "responding">>}
       /\ req'[q].consumed = req[q].consumed
    \/ pc[q] \notin {"idle", "failed"} /\ pc'[q] = "failed"
    \/ pc[q] \in {"responding", "loggingOut", "deleting", "failed"} /\ pc'[q] = "idle"

LEMMA NextMoves == ASSUME TypeInv, [Next]_vars, NEW q \in Procs PROVE Moves(q)
<1>0. pc \in [Procs -> PC] /\ req \in [Procs -> Request]
  BY DEF TypeInv, TypeOK
<1>1. ASSUME NEW u \in Users, NEW d \in Device, SignIn(q, u, d) PROVE Moves(q)
  <2> DEFINE s == [NoRequest EXCEPT !.user = u, !.payload = profile[u], !.device = d,
                                    !.checks = IF d = None THEN {} ELSE Check]
  <2>1. s.consumed = None
    BY DEF NoRequest
  <2>2. \/ Reject(q, "idle")
        \/ Goto(q, "idle", IF d = None THEN "signing" ELSE "checking", s)
    BY <1>1 DEF SignIn
  <2> HIDE DEF s
  <2> QED BY <1>0, <2>1, <2>2 DEF Reject, Goto, Moves
<1>2. ASSUME NEW t \in Token, ValidateRefresh(q, t) PROVE Moves(q)
  <2> DEFINE r2 == [NoRequest EXCEPT !.user = t.user, !.consumed = t]
  <2>1. r2.consumed = t
    BY DEF NoRequest
  <2>2. \/ Reject(q, "idle")
        \/ Goto(q, "idle", "wiping", [NoRequest EXCEPT !.user = t.user])
        \/ t \in Live /\ Goto(q, "idle", "loading", r2)
    BY <1>2 DEF ValidateRefresh, Live
  <2> HIDE DEF r2
  <2> QED BY <1>0, <2>1, <2>2 DEF Reject, Goto, Moves
<1>3. ASSUME NEW u \in Users, AuthenticateLogout(q, u) \/ FindUserToDelete(q, u)
      PROVE  Moves(q)
  BY <1>0, <1>3 DEF AuthenticateLogout, FindUserToDelete, Reject, Goto, Moves
<1>4. ASSUME NEW c \in Check, CheckDevice(q, c) PROVE Moves(q)
  BY <1>0, <1>4 DEF CheckDevice, Goto, Request, Moves
<1>5. ASSUME Sign(q) \/ Store(q) \/ RevokeConsumed(q) PROVE Moves(q)
  BY <1>0, <1>5 DEF Sign, Store, RevokeConsumed, Goto, Request, Moves
<1>6. CASE LoadSession(q)
  <2> DEFINE s == [req[q] EXCEPT !.payload = profile[req[q].user],
                                 !.device = rows[req[q].consumed].device]
  <2>1. s.consumed = req[q].consumed
    BY <1>0 DEF Request
  <2>2. Reject(q, "loading") \/ Goto(q, "loading", "revoking", s)
    BY <1>6 DEF LoadSession
  <2> HIDE DEF s
  <2> QED BY <1>0, <2>1, <2>2 DEF Reject, Goto, Moves
<1>7. ASSUME Respond(q) \/ WipeSessions(q) \/ Logout(q) \/ DeleteUser(q) \/ SendError(q) \/ Fault(q)
      PROVE  Moves(q)
  BY <1>0, <1>7 DEF Respond, WipeSessions, Logout, DeleteUser, SendError, Fault, Reject,
       Done, Goto, Moves
<1>8. ASSUME NEW p \in Procs, p # q, Arrive(p) \/ Proceed(p) \/ Fault(p)
      PROVE  pc'[q] = pc[q] /\ req'[q] = req[q]
  BY <1>0, <1>8 DEF Arrive, Proceed, SignIn, ValidateRefresh, AuthenticateLogout,
       FindUserToDelete, Fault, CheckDevice, Sign, Store, Respond, WipeSessions, Logout,
       DeleteUser, RevokeConsumed, LoadSession, SendError, Reject, Done, Goto
<1>9. ASSUME Tick \/ (\E u \in Users, x \in Payloads : ChangeProfile(u, x)) \/ UNCHANGED vars
      PROVE  pc'[q] = pc[q] /\ req'[q] = req[q]
  BY <1>9 DEF Tick, ChangeProfile, vars
<1>10. Arrive(q) => Moves(q)
  BY <1>1, <1>2, <1>3 DEF Arrive
<1>11. Proceed(q) => Moves(q)
  BY <1>4, <1>5, <1>6, <1>7 DEF Proceed
<1>12. pc'[q] = pc[q] /\ req'[q] = req[q] => Moves(q)
  BY DEF Moves
<1> QED BY <1>7, <1>8, <1>9, <1>10, <1>11, <1>12 DEF Next

\* Revocation is a barrier (auth-refresh.service.ts:18): a session once revoked,
\* by rotation, logout, reuse detection or deletion, is picked up by no further
\* refresh; those that looked it up before are all that can still rotate it.
RevocationBarrier ==
    [][\A s \in Dead : Rotators(s)' \subseteq Rotators(s)]_vars

LEMMA NextRotators ==
    ASSUME RotationInv, [Next]_vars, NEW s \in Dead
    PROVE  Rotators(s)' \subseteq Rotators(s)
<1> SUFFICES ASSUME NEW q \in Procs, q \in Rotators(s)' PROVE q \in Rotators(s)
  BY DEF Rotators
<1>1. Moves(q)
  BY NextMoves DEF RotationInv
<1>2. s # None /\ s \notin Live
  BY NoneAssumption DEF Dead, Live, RotationInv, TypeInv, TypeOK
<1>3. /\ pc'[q] \in {"loading", "revoking", "signing", "storing"}
      /\ req'[q].consumed = s
  BY DEF Rotators
<1>4. pc[q] = "checking" => req[q].consumed = None
  BY DEF RotationInv, ConsumedOK
<1> QED BY <1>1, <1>2, <1>3, <1>4 DEF Moves, Rotators

\* A revoked session gets no new refresh, for any number of concurrent requests.
THEOREM RevocationBarrierTheorem == Spec => RevocationBarrier
<1>1. RotationInv /\ [Next]_vars
        => [\A s \in Dead : Rotators(s)' \subseteq Rotators(s)]_vars
  BY NextRotators
<1> QED BY <1>1, RotationInvariant, PTL DEF Spec, RevocationBarrier

\* A session is succeeded at most once per request slot: the successors it has
\* and the refreshes that may still give it one are together no more than the
\* requests that can be in flight, because no refresh starts once it is revoked.
HeirsBounded ==
    \A s \in Token : /\ IsFiniteSet(Heirs(s))
                     /\ Cardinality(Heirs(s)) + Cardinality(Rotators(s)) <= Cardinality(Procs)

\* Only a revoked session has successors.
LEMMA HeirsOfDead ==
    ASSUME RotationInv, NEW s \in Token, s \notin Dead PROVE Heirs(s) = {}
BY NoneAssumption DEF RotationInv, RotationConsumes, Heirs, Dead

LEMMA RotatorsFinite ==
    ASSUME IsFiniteSet(Procs), NEW S, S \subseteq Procs
    PROVE  /\ IsFiniteSet(S) /\ Cardinality(S) \in Nat /\ Cardinality(Procs) \in Nat
           /\ Cardinality(S) <= Cardinality(Procs)
BY FS_Subset, FS_CardinalityType

LEMMA NextHeirsBounded ==
    ASSUME IsFiniteSet(Procs), RotationInv, HeirsBounded, [Next]_vars PROVE HeirsBounded'
<1> SUFFICES ASSUME NEW s \in Token
             PROVE  /\ IsFiniteSet(Heirs(s)')
                    /\ Cardinality(Heirs(s)') + Cardinality(Rotators(s)') <= Cardinality(Procs)
  BY DEF HeirsBounded
<1>0. RowsPersist /\ Rotators(s) \subseteq Procs /\ Rotators(s)' \subseteq Procs
  BY NextRowsPersist DEF RotationInv, Rotators
<1>1. /\ IsFiniteSet(Heirs(s)) /\ Cardinality(Heirs(s)) \in Nat
      /\ Cardinality(Heirs(s)) + Cardinality(Rotators(s)) <= Cardinality(Procs)
  BY FS_CardinalityType DEF HeirsBounded
<1>2. CASE Heirs(s)' = Heirs(s)
  <2>1. CASE s \in Dead
    <3>1. Rotators(s)' \subseteq Rotators(s)
      BY <2>1, NextRotators
    <3>2. /\ IsFiniteSet(Rotators(s)) /\ Cardinality(Rotators(s)) \in Nat
          /\ Cardinality(Rotators(s)') \in Nat /\ Cardinality(Procs) \in Nat
      BY <1>0, RotatorsFinite
    <3>3. Cardinality(Rotators(s)') <= Cardinality(Rotators(s))
      BY <3>1, <3>2, FS_Subset
    <3> QED BY <1>1, <1>2, <3>2, <3>3
  <2>2. CASE s \notin Dead
    <3>1. Cardinality(Heirs(s)') = 0
      BY <1>2, <2>2, HeirsOfDead, FS_EmptySet
    <3>2. /\ Cardinality(Rotators(s)') \in Nat /\ Cardinality(Procs) \in Nat
          /\ Cardinality(Rotators(s)') <= Cardinality(Procs)
      BY <1>0, RotatorsFinite
    <3> QED BY <1>1, <1>2, <3>1, <3>2
  <2> QED BY <2>1, <2>2
<1>3. CASE Stored' = Stored
  <2>1. Heirs(s)' = Heirs(s)
    BY <1>0, <1>3 DEF Heirs, RowsPersist
  <2> QED BY <1>2, <2>1
<1>4. ASSUME NEW p \in Procs, Store(p), req[p].token \notin Stored
      PROVE  /\ IsFiniteSet(Heirs(s)')
             /\ Cardinality(Heirs(s)') + Cardinality(Rotators(s)') <= Cardinality(Procs)
  <2> DEFINE r == req[p]
  <2>1. /\ pc[p] = "storing" /\ pc'[p] = "responding"
        /\ Stored' = Stored \cup {r.token}
        /\ \A t \in Stored : rows'[t] = rows[t]
        /\ rows'[r.token].parent = r.consumed
    BY <1>4, StoredRow DEF RotationInv
  <2>2. CASE r.consumed # s
    <3>1. Heirs(s)' = Heirs(s)
      BY <1>4, <2>1, <2>2 DEF Heirs
    <3> QED BY <1>2, <3>1
  <2>3. CASE r.consumed = s
    <3>1. s \in Dead
      BY <2>1, <2>3, NoneAssumption DEF RotationInv, ConsumedOK, Issuing, Dead
    <3>2. Heirs(s)' = Heirs(s) \cup {r.token} /\ r.token \notin Heirs(s)
      BY <1>4, <2>1, <2>3 DEF Heirs
    <3>3. IsFiniteSet(Heirs(s)') /\ Cardinality(Heirs(s)') = Cardinality(Heirs(s)) + 1
      <4>1. /\ IsFiniteSet(Heirs(s) \cup {r.token})
            /\ Cardinality(Heirs(s) \cup {r.token}) = Cardinality(Heirs(s)) + 1
        BY <1>1, <3>2, FS_AddElement, Zenon
      <4> QED BY <3>2, <4>1
    <3>4. p \in Rotators(s) /\ p \notin Rotators(s)'
      BY <2>1, <2>3 DEF Rotators
    <3>5. Rotators(s)' \subseteq Rotators(s) \ {p}
      BY <3>1, <3>4, NextRotators
    <3>6. /\ IsFiniteSet(Rotators(s)) /\ Cardinality(Rotators(s)) \in Nat
          /\ Cardinality(Rotators(s)') \in Nat /\ Cardinality(Procs) \in Nat
      BY <1>0, RotatorsFinite
    <3>7. /\ IsFiniteSet(Rotators(s) \ {p})
          /\ Cardinality(Rotators(s) \ {p}) = Cardinality(Rotators(s)) - 1
      BY <3>4, <3>6, FS_RemoveElement
    <3>8. Cardinality(Rotators(s)') <= Cardinality(Rotators(s)) - 1
      BY <3>5, <3>7, FS_Subset
    <3> QED BY <1>1, <3>3, <3>6, <3>8
  <2> QED BY <2>2, <2>3
<1> QED BY <1>3, <1>4, OnlyStoreAdds DEF RotationInv

\* No session has more successors than requests can be in flight at once, however
\* often its token is presented; with one request at a time it has at most one.
THEOREM HeirsTheorem == ASSUME IsFiniteSet(Procs) PROVE Spec => []HeirsBounded
<1>1. Init => HeirsBounded
  <2> SUFFICES ASSUME Init, NEW s \in Token
               PROVE  /\ IsFiniteSet(Heirs(s))
                      /\ Cardinality(Heirs(s)) + Cardinality(Rotators(s)) <= Cardinality(Procs)
    BY DEF HeirsBounded
  <2>1. Heirs(s) = {} /\ Rotators(s) = {}
    BY DEF Init, Heirs, Rotators, Stored
  <2> QED BY <2>1, FS_EmptySet, FS_CardinalityType
<1>2. RotationInv /\ HeirsBounded /\ [Next]_vars => HeirsBounded'
  BY NextHeirsBounded
<1> QED BY <1>1, <1>2, RotationInvariant, PTL DEF Spec

\* A lone request has no race: OneAtATime is a server that answers a request
\* before it takes the next.
OneAtATime == \A p, q \in Procs : p = q

\* The sessions that were ended are revoked, no refresh is rotating one of them,
\* and EndedForGood.
SerialInv ==
    /\ RotationInv
    /\ ended \subseteq Dead
    /\ \A s \in ended : Rotators(s) = {}
    /\ EndedForGood

\* Sessions are ended by a request that is in none of the rotation's awaits, and
\* all of its user's sessions are revoked by the statement that ends them.
LEMMA EndingRevokes ==
    ASSUME TypeInv, [Next]_vars, ended' # ended
    PROVE  \E p \in Procs :
             /\ pc'[p] \in {"idle", "failed"}
             /\ ended' = ended \cup RowsOf(req[p].user)
             /\ Stored' = Stored
             /\ \A t \in RowsOf(req[p].user) : rows'[t].revoked
<1>1. PICK p \in Procs : WipeSessions(p) \/ Logout(p) \/ DeleteUser(p)
  BY DEF Next, Arrive, Proceed, SignIn, ValidateRefresh, AuthenticateLogout,
         FindUserToDelete, Fault, ChangeProfile, Tick, CheckDevice, Sign, Store,
         Respond, RevokeConsumed, LoadSession, SendError, vars, history
<1>2. pc'[p] \in {"idle", "failed"}
  BY <1>1 DEF WipeSessions, Logout, DeleteUser, Reject, Done, Goto, TypeInv, TypeOK
<1>3. ended' = ended \cup RowsOf(req[p].user) /\ rows' = RevokeAllOf(req[p].user)
  BY <1>1 DEF WipeSessions, Logout, DeleteUser
<1> QED BY <1>2, <1>3, RevokeAllType DEF TypeInv, Stored, RowsOf

LEMMA NextSerial ==
    ASSUME OneAtATime, SerialInv, [Next]_vars PROVE SerialInv'
<1>0. RowsPersist /\ RotationInv'
  <2>1. RotationInv'
    BY NextTypeInv, NextRotationConsumes, NextDelivered, NextKnowledge
       DEF SerialInv, RotationInv
  <2> QED BY <2>1, NextRowsPersist DEF SerialInv, RotationInv
<1>1. \A s \in Dead : s \in Dead' /\ Rotators(s)' \subseteq Rotators(s)
  BY <1>0, NextRotators DEF SerialInv, Dead, RowsPersist
<1>2. CASE ended' = ended
  <2>1. ended' \subseteq Dead' /\ \A s \in ended' : Rotators(s)' = {}
    BY <1>1, <1>2 DEF SerialInv
  <2>2. ASSUME NEW t \in Stored', ~rows'[t].revoked, rows'[t].parent \in ended
        PROVE  FALSE
    <3>1. t \notin Stored
      BY <1>0, <2>2 DEF SerialInv, EndedForGood, RowsPersist, TypeInv, TypeOK, RotationInv, Row
    <3>2. PICK p \in Procs : Store(p) /\ req[p].token \notin Stored
      BY <2>2, <3>1, OnlyStoreAdds DEF SerialInv, RotationInv
    <3>3. pc[p] = "storing" /\ req[p].consumed \in ended
      BY <2>2, <3>1, <3>2, StoredRow DEF SerialInv, RotationInv
    <3> QED BY <3>3 DEF SerialInv, Rotators
  <2> QED BY <1>0, <1>2, <2>1, <2>2 DEF SerialInv, EndedForGood
<1>3. CASE ended' # ended
  <2>1. PICK p \in Procs :
             /\ pc'[p] \in {"idle", "failed"}
             /\ ended' = ended \cup RowsOf(req[p].user)
             /\ Stored' = Stored
             /\ \A t \in RowsOf(req[p].user) : rows'[t].revoked
    BY <1>3, EndingRevokes DEF SerialInv, RotationInv
  <2>2. ended' \subseteq Dead'
    BY <1>1, <2>1 DEF SerialInv, Dead, RowsOf
  <2>3. \A s \in ended' : Rotators(s)' = {}
    BY <2>1 DEF Rotators, OneAtATime
  <2>4. ASSUME NEW t \in Stored', ~rows'[t].revoked, rows'[t].parent \in ended'
        PROVE  FALSE
    <3>1. t \in Stored /\ rows[t].parent = rows'[t].parent /\ rows'[t].parent # None
      BY <1>0, <2>1, <2>4, NoneAssumption DEF RowsPersist, RotationInv, TypeInv, TypeOK
    <3>2. rows'[t].parent.user = t.user /\ rows[t].parent \notin ended
      BY <1>0, <2>4, <3>1 DEF SerialInv, EndedForGood, RowsPersist, RotationInv, RotationConsumes
    <3> QED BY <2>1, <2>4, <3>1, <3>2 DEF RowsOf
  <2> QED BY <1>0, <2>2, <2>3, <2>4 DEF SerialInv, EndedForGood
<1> QED BY <1>2, <1>3

\* One request at a time, the sessions a logout, a reuse wipe or a deletion ended
\* have no live successor (auth-refresh.service.ts:53): what run
\* Sessions_ended_for_good finds takes two requests in flight.
THEOREM SerialEndedForGood == ASSUME OneAtATime PROVE Spec => []EndedForGood
<1>1. Init => SerialInv
  BY InitRotationInv DEF Init, SerialInv, EndedForGood, Stored
<1>2. SerialInv /\ [Next]_vars => SerialInv'
  BY NextSerial
<1>3. SerialInv => EndedForGood
  BY DEF SerialInv
<1> QED BY <1>1, <1>2, <1>3, PTL DEF Spec

-----------------------------------------------------------------------------
(* Why requests end.  DeletionSettles needs fairness, which stays with TLC;   *)
(* that no request can go round in circles does not.                         *)

\* The steps a request at `at` with locals r has still to take, at most.
Left(at, r) ==
    CASE at = "loading" -> 6
      [] at = "revoking" -> 5
      [] at = "checking" -> 4 + Cardinality(r.checks)
      [] at = "signing" -> 4
      [] at = "storing" -> 3
      [] at \in {"responding", "wiping", "loggingOut", "deleting"} -> 2
      [] at = "failed" -> 1
      [] at = "idle" -> 0

\* Whatever moves a request that is under way, its own steps or its failure,
\* leaves it fewer steps to take; nothing another request does adds to them.
RequestsEnd ==
    [][\A p \in Procs :
         pc[p] # "idle" /\ (pc'[p] # pc[p] \/ req'[p] # req[p])
           => /\ Left(pc'[p], req'[p]) \in Nat
              /\ Left(pc'[p], req'[p]) < Left(pc[p], req[p])]_vars

\* A request waits for the two device queries at most.
LEMMA ChecksLeft ==
    ASSUME NEW r \in Request
    PROVE  /\ IsFiniteSet(r.checks) /\ Cardinality(r.checks) \in Nat
           /\ \A c \in r.checks : Cardinality(r.checks \ {c}) = Cardinality(r.checks) - 1
           /\ \A c \in r.checks : Cardinality(r.checks) > 0
<1>1. IsFiniteSet(Check)
  <2>1. IsFiniteSet({"active"})
    BY FS_Singleton
  <2>2. IsFiniteSet({"active"} \cup {"recent"})
    BY <2>1, FS_AddElement, Zenon
  <2>3. {"active"} \cup {"recent"} = Check
    BY DEF Check
  <2> QED BY <2>2, <2>3
<1>2. r.checks \in SUBSET Check
  BY DEF Request
<1>3. IsFiniteSet(r.checks) /\ Cardinality(r.checks) \in Nat
  BY <1>1, <1>2, FS_Subset, FS_CardinalityType
<1>4. \A c \in r.checks : Cardinality(r.checks \ {c}) = Cardinality(r.checks) - 1
  BY <1>3, FS_RemoveElement
<1>5. ASSUME NEW c \in r.checks PROVE Cardinality(r.checks) > 0
  <2>1. Cardinality(r.checks) # 0
    BY <1>3, FS_EmptySet
  <2> QED BY <1>3, <2>1
<1> QED BY <1>3, <1>4, <1>5, Zenon

LEMMA NextLeft ==
    ASSUME TypeInv, [Next]_vars, NEW q \in Procs, pc[q] # "idle",
           pc'[q] # pc[q] \/ req'[q] # req[q]
    PROVE  Left(pc'[q], req'[q]) \in Nat /\ Left(pc'[q], req'[q]) < Left(pc[q], req[q])
<1>0. Moves(q) /\ pc[q] \in PC /\ req[q] \in Request
  BY NextMoves DEF TypeInv, TypeOK
<1>1. Cardinality(req[q].checks) \in Nat
  BY <1>0, ChecksLeft
<1>2. CASE pc[q] = "checking" /\ pc'[q] \in {"checking", "signing"}
  <2>1. PICK c \in req[q].checks :
             /\ req'[q].checks = req[q].checks \ {c}
             /\ pc'[q] \in {"checking", "signing"}
    BY <1>0, <1>2 DEF Moves
  <2>2. Cardinality(req'[q].checks) = Cardinality(req[q].checks) - 1 /\ Cardinality(req[q].checks) > 0
    BY <1>0, <2>1, ChecksLeft
  <2> QED BY <1>1, <1>2, <2>2 DEF Left
<1>3. CASE ~(pc[q] = "checking" /\ pc'[q] \in {"checking", "signing"})
  <2>1. \/ <<pc[q], pc'[q]>> \in {<<"loading", "revoking">>, <<"revoking", "signing">>,
                                  <<"signing", "storing">>, <<"storing", "responding">>}
        \/ pc[q] \notin {"idle", "failed"} /\ pc'[q] = "failed"
        \/ pc[q] \in {"responding", "loggingOut", "deleting", "failed"} /\ pc'[q] = "idle"
    BY <1>0, <1>3 DEF Moves
  <2> QED BY <1>0, <1>1, <2>1 DEF Left, PC
<1> QED BY <1>2, <1>3

\* Every request ends after finitely many of its own steps, however they
\* interleave: the measure its continuations decrease is a natural number.
THEOREM RequestsEndTheorem == Spec => RequestsEnd
<1>1. TypeInv /\ [Next]_vars
        => [\A p \in Procs :
              pc[p] # "idle" /\ (pc'[p] # pc[p] \/ req'[p] # req[p])
                => /\ Left(pc'[p], req'[p]) \in Nat
                   /\ Left(pc'[p], req'[p]) < Left(pc[p], req[p])]_vars
  BY NextLeft
<1> QED BY <1>1, InitTypeInv, NextTypeInv, PTL DEF Spec, RequestsEnd
=============================================================================
