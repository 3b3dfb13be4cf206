------------------------------- MODULE Sessions -------------------------------
(***************************************************************************)
(* The refresh-token sessions of the authentication feature.               *)
(*                                                                         *)
(* Every HTTP request is a process that runs one handler.  A handler is    *)
(* cut at its awaits: one action per statement it sends to the database    *)
(* (together with the code up to the next statement), because any other    *)
(* request may run between two of them.  The handlers are                  *)
(*   sign-in     AuthService.signIn                                        *)
(*   refresh     JwtRefreshStrategy -> AuthService.validateRefreshToken    *)
(*               -> AuthRefreshService.refresh                             *)
(*   logout      JwtStrategy -> AuthService.validateUser                   *)
(*               -> AuthRefreshService.logout                              *)
(*   delete      UserDeleteService.delete (its effect on sessions)         *)
(* sign-in and refresh share AuthService.generateAuthResponse.             *)
(*                                                                         *)
(* Data abstraction.  A refresh token is a JWT with no unique id in it:    *)
(* two tokens signed for the same user, with the same payload, in the same *)
(* second are the same string, so a token IS that triple.  A device is its *)
(* fingerprint, a function of the stored user agent; None is a request     *)
(* with no user agent.  The clock counts ticks; one tick is the second of  *)
(* the JWT's iat claim.                                                    *)
(***************************************************************************)
EXTENDS Integers, FiniteSets

CONSTANTS
    Users,         \* ids of the rows of table users
    Procs,         \* requests that can be in flight at once
    Devices,       \* device fingerprints
    Payloads,      \* values of the JWT claims other than sub and iat
    None,          \* "undefined": no device, no user, no token
    InitPayload,   \* the claims of every user before any profile change
    JwtTtl,        \* lifetime of the JWT (JWT_REFRESH_EXPIRES_IN)
    RefreshTtl,    \* lifetime of the row (7 days)
    RecentWindow,  \* window of the new-device check (24 hours)
    MaxNow,        \* BOUND: the clock stops here
    MaxFaults      \* BOUND: requests cut short by a crash or a database error

Token == [user : Users, payload : Payloads, iat : 0..MaxNow]

ASSUME NoneAssumption ==
    /\ None \notin Users
    /\ None \notin Devices
    /\ None \notin Payloads
    /\ None \notin Token

ASSUME BoundAssumption ==
    /\ InitPayload \in Payloads
    /\ JwtTtl \in Nat
    /\ RefreshTtl \in Nat
    /\ RecentWindow \in Nat
    /\ MaxNow \in Nat
    /\ MaxFaults \in Nat

VARIABLES
    now,         \* the clock
    deleted,     \* users with deletedAt set
    profile,     \* the claims each user's token would carry now
    rows,        \* table refresh_tokens: partial function, unique by token
    held,        \* the tokens clients have received, with the device that did
    announced,   \* <<user, device>> of the NEW_DEVICE_ACCESS events dispatched
    pc,          \* where each request is
    req,         \* what each request has read so far
    faults,      \* requests cut short so far
    lostAlerts,  \* HISTORY: announcements that died with their request
    ended        \* HISTORY: rows that existed when their user's sessions were ended

tables  == <<deleted, profile, rows>>
clients == <<held, announced>>
history == <<lostAlerts, ended>>
vars    == <<now, tables, clients, pc, req, faults, history>>

-----------------------------------------------------------------------------
(* Types.                                                                  *)

Device == Devices \cup {None}

Check == {"active", "recent"}   \* the two queries of hasRecentOrTrustedDevice

PC == {"idle", "checking", "signing", "storing", "responding", "failed",
       "wiping", "loading", "revoking", "loggingOut", "deleting"}

\* parent, the token whose rotation created the row, is no column: it is the
\* lineage the properties speak of.
Row == [revoked : BOOLEAN, device : Device, created : Nat, expires : Nat,
        parent : Token \cup {None}]

Request == [user     : Users \cup {None},
            payload  : Payloads \cup {None},
            device   : Device,
            consumed : Token \cup {None},
            checks   : SUBSET Check,
            trusted  : BOOLEAN,
            token    : Token \cup {None},
            expires  : Nat]

NoRequest == [user |-> None, payload |-> None, device |-> None,
              consumed |-> None, checks |-> {}, trusted |-> FALSE,
              token |-> None, expires |-> 0]

Init ==
    /\ now = 0
    /\ deleted = {}
    /\ profile = [u \in Users |-> InitPayload]
    /\ rows = [t \in {} |-> None]
    /\ held = {}
    /\ announced = {}
    /\ pc = [p \in Procs |-> "idle"]
    /\ req = [p \in Procs |-> NoRequest]
    /\ faults = 0
    /\ lostAlerts = {}
    /\ ended = {}

-----------------------------------------------------------------------------
(* Helpers.                                                                *)

Stored == DOMAIN rows

RowsOf(u) == {t \in Stored : t.user = u}

\* updateMany where userId = u and revoked = false: every row of u ends revoked.
RevokeAllOf(u) ==
    [t \in Stored |-> IF t.user = u THEN [rows[t] EXCEPT !.revoked = TRUE]
                                    ELSE rows[t]]

\* A request goes on: from `from` to `to`, with new locals.
Goto(p, from, to, r) ==
    /\ pc[p] = from
    /\ pc' = [pc EXCEPT ![p] = to]
    /\ req' = [req EXCEPT ![p] = r]

\* An early return with an error: nothing of the request is left.
Reject(p, from) == Goto(p, from, "failed", NoRequest)

\* The answer is sent.
Done(p, from) == Goto(p, from, "idle", NoRequest)

\* MUTANT of MustAnnounce: an unknown device is announced too.
AnnounceUnknown(r) == r.consumed = None /\ ~r.trusted

MustAnnounce(r) == r.consumed = None /\ r.device # None /\ ~r.trusted

-----------------------------------------------------------------------------
(* Sign-in.                                                                *)

\* user.findFirst with deletedAt = null, then the password comparison.  The
\* locals hold the user as it was read here.
SignIn(p, u, d) ==
    /\ IF u \in deleted
         THEN Reject(p, "idle")
         ELSE \/ Reject(p, "idle")              \* wrong password
              \/ Goto(p, "idle", IF d = None THEN "signing" ELSE "checking",
                      [NoRequest EXCEPT !.user = u, !.payload = profile[u],
                                        !.device = d,
                                        !.checks = IF d = None THEN {} ELSE Check])
    /\ UNCHANGED <<now, tables, clients, faults, history>>

\* MUTANT of Finds: any session of the user makes the device trusted.
FindsAnyDevice(check, u, d) ==
    \E t \in RowsOf(u) :
        \/ check = "active" /\ ~rows[t].revoked
        \/ check = "recent" /\ rows[t].created >= now - RecentWindow

\* What each query of hasRecentOrTrustedDevice finds: a row that is not revoked
\* (its expiry is not looked at), a row created in the window.
Finds(check, u, d) ==
    \E t \in RowsOf(u) :
        /\ rows[t].device = d
        /\ \/ check = "active" /\ ~rows[t].revoked
           \/ check = "recent" /\ rows[t].created >= now - RecentWindow

\* Promise.all sends both queries; they run in either order.
CheckDevice(p, c) ==
    LET r == req[p] IN
    /\ c \in r.checks
    /\ Goto(p, "checking", IF r.checks = {c} THEN "signing" ELSE "checking",
            [r EXCEPT !.checks = @ \ {c},
                      !.trusted = @ \/ Finds(c, r.user, r.device)])
    /\ UNCHANGED <<now, tables, clients, faults, history>>

-----------------------------------------------------------------------------
(* generateAuthResponse, shared by sign-in and refresh.                    *)

\* signAsync stamps iat; expiresAt is computed as soon as it resolves.
Sign(p) ==
    LET r == req[p] IN
    /\ Goto(p, "signing", "storing",
            [r EXCEPT !.token = [user |-> r.user, payload |-> r.payload, iat |-> now],
                      !.expires = now + RefreshTtl])
    /\ UNCHANGED <<now, tables, clients, faults, history>>

NewRow(r) == [revoked |-> FALSE, device |-> r.device, created |-> now,
              expires |-> r.expires, parent |-> r.consumed]

\* MUTANTS of Store: the conflict is swallowed; the row is upserted; the request
\* signs again and retries.
StoreSwallowing(p) ==
    LET r == req[p] IN
    /\ Goto(p, "storing", "responding", r)
    /\ rows' = [t \in Stored \cup {r.token} |->
                  IF t = r.token /\ t \notin Stored THEN NewRow(r) ELSE rows[t]]
    /\ UNCHANGED <<now, deleted, profile, clients, faults, history>>

StoreUpserting(p) ==
    LET r == req[p] IN
    /\ Goto(p, "storing", "responding", r)
    /\ rows' = [t \in Stored \cup {r.token} |-> IF t = r.token THEN NewRow(r) ELSE rows[t]]
    /\ UNCHANGED <<now, deleted, profile, clients, faults, history>>

StoreRetrying(p) ==
    LET r == req[p] IN
    /\ IF r.token \in Stored
         THEN Goto(p, "storing", "signing", r) /\ UNCHANGED rows
         ELSE /\ Goto(p, "storing", "responding", r)
              /\ rows' = [t \in Stored \cup {r.token} |->
                            IF t = r.token THEN NewRow(r) ELSE rows[t]]
    /\ UNCHANGED <<now, deleted, profile, clients, faults, history>>

\* refreshToken.create: the token column is unique, so storing a string that is
\* already there fails, and the request with it.
Store(p) ==
    LET r == req[p] IN
    /\ IF r.token \in Stored
         THEN /\ Goto(p, "storing", "failed", r)
              /\ UNCHANGED rows
         ELSE /\ Goto(p, "storing", "responding", r)
              /\ rows' = [t \in Stored \cup {r.token} |->
                            IF t = r.token THEN NewRow(r) ELSE rows[t]]
    /\ UNCHANGED <<now, deleted, profile, clients, faults, history>>

\* signIn dispatches the new-device event, then the token pair is sent.
Respond(p) ==
    LET r == req[p] IN
    /\ Done(p, "responding")
    /\ held' = held \cup {[token |-> r.token, device |-> r.device]}
    /\ announced' = IF MustAnnounce(r) THEN announced \cup {<<r.user, r.device>>}
                                       ELSE announced
    /\ UNCHANGED <<now, tables, faults, history>>

-----------------------------------------------------------------------------
(* Refresh.                                                                *)

\* The JWT is verified, then the row is looked up with its user.
ValidateRefresh(p, t) ==
    LET start == [NoRequest EXCEPT !.user = t.user, !.consumed = t] IN
    /\ \E h \in held : h.token = t
    /\ now < t.iat + JwtTtl
    /\ \/ /\ \/ t \notin Stored
             \/ t.user \in deleted
             \/ ~rows[t].revoked /\ rows[t].expires < now
          /\ Reject(p, "idle")
       \/ /\ t \in Stored /\ t.user \notin deleted /\ rows[t].revoked
          /\ Goto(p, "idle", "wiping", [NoRequest EXCEPT !.user = t.user])
       \/ /\ t \in Stored /\ t.user \notin deleted /\ ~rows[t].revoked
          /\ rows[t].expires >= now
          /\ Goto(p, "idle", "loading", start)
    /\ UNCHANGED <<now, tables, clients, faults, history>>

\* Reuse detection: a revoked token was presented, all sessions are revoked.
WipeSessions(p) ==
    LET u == req[p].user IN
    /\ Reject(p, "wiping")
    /\ rows' = RevokeAllOf(u)
    /\ ended' = ended \cup RowsOf(u)
    /\ UNCHANGED <<now, deleted, profile, clients, faults, lostAlerts>>

\* MUTANT of LoadSession: the second look-up does not check the user again.
LoadUnchecked(p) ==
    LET r == req[p] IN
    /\ Goto(p, "loading", "revoking",
            [r EXCEPT !.payload = profile[r.user], !.device = rows[r.consumed].device])
    /\ UNCHANGED <<now, tables, clients, faults, history>>

\* refresh reads the row again, by id and with its user: the user's deletion is
\* looked at again, the row's revoked flag is not.
LoadSession(p) ==
    LET r == req[p] IN
    /\ IF r.user \in deleted
         THEN Reject(p, "loading")
         ELSE Goto(p, "loading", "revoking",
                   [r EXCEPT !.payload = profile[r.user],
                             !.device = rows[r.consumed].device])
    /\ UNCHANGED <<now, tables, clients, faults, history>>

\* MUTANT of RevokeConsumed: the consumed session is left as it is.
KeepConsumed(p) ==
    /\ Goto(p, "revoking", "signing", req[p])
    /\ UNCHANGED <<now, tables, clients, faults, history>>

RevokeConsumed(p) ==
    /\ Goto(p, "revoking", "signing", req[p])
    /\ rows' = [rows EXCEPT ![req[p].consumed].revoked = TRUE]
    /\ UNCHANGED <<now, deleted, profile, clients, faults, history>>

-----------------------------------------------------------------------------
(* Logout and user deletion.                                               *)

\* The access token's user is read; whoever holds a token pair can ask.
AuthenticateLogout(p, u) ==
    /\ \E h \in held : h.token.user = u
    /\ IF u \in deleted
         THEN Reject(p, "idle")
         ELSE Goto(p, "idle", "loggingOut", [NoRequest EXCEPT !.user = u])
    /\ UNCHANGED <<now, tables, clients, faults, history>>

Logout(p) ==
    LET u == req[p].user IN
    /\ Done(p, "loggingOut")
    /\ rows' = RevokeAllOf(u)
    /\ ended' = ended \cup RowsOf(u)
    /\ UNCHANGED <<now, deleted, profile, clients, faults, lostAlerts>>

FindUserToDelete(p, u) ==
    /\ IF u \in deleted
         THEN Reject(p, "idle")
         ELSE Goto(p, "idle", "deleting", [NoRequest EXCEPT !.user = u])
    /\ UNCHANGED <<now, tables, clients, faults, history>>

\* One transaction: deletedAt and the revocation of every session.
DeleteUser(p) ==
    LET u == req[p].user IN
    /\ Done(p, "deleting")
    /\ deleted' = deleted \cup {u}
    /\ rows' = RevokeAllOf(u)
    /\ ended' = ended \cup RowsOf(u)
    /\ UNCHANGED <<now, profile, clients, faults, lostAlerts>>

-----------------------------------------------------------------------------
(* The rest of the world.                                                  *)

\* A user update commits and changes what the user's next token carries.  It
\* writes by id, also to a user that was deleted after it was read.
ChangeProfile(u, x) ==
    /\ x # profile[u]
    /\ profile' = [profile EXCEPT ![u] = x]
    /\ UNCHANGED <<now, deleted, rows, clients, pc, req, faults, history>>

\* The error answer is sent.
SendError(p) ==
    /\ Done(p, "failed")
    /\ UNCHANGED <<now, tables, clients, faults, history>>

\* The process dies, or the next statement throws, between two steps.
Fault(p) ==
    LET r == req[p] IN
    /\ faults < MaxFaults
    /\ pc[p] \notin {"idle", "failed"}
    /\ Goto(p, pc[p], "failed", r)
    /\ faults' = faults + 1
    /\ lostAlerts' = IF pc[p] = "responding" /\ MustAnnounce(r)
                       THEN lostAlerts \cup {<<r.user, r.device>>} ELSE lostAlerts
    /\ UNCHANGED <<now, tables, clients, ended>>

Tick ==
    /\ now < MaxNow
    /\ now' = now + 1
    /\ UNCHANGED <<tables, clients, pc, req, faults, history>>

\* The steps a request takes once it has been accepted.
Proceed(p) ==
    \/ \E c \in Check : CheckDevice(p, c)
    \/ Sign(p)
    \/ Store(p)
    \/ Respond(p)
    \/ WipeSessions(p)
    \/ LoadSession(p)
    \/ RevokeConsumed(p)
    \/ Logout(p)
    \/ DeleteUser(p)
    \/ SendError(p)

\* A request arrives.
Arrive(p) ==
    \/ \E u \in Users, d \in Device : SignIn(p, u, d)
    \/ \E t \in Token : ValidateRefresh(p, t)
    \/ \E u \in Users : AuthenticateLogout(p, u)
    \/ \E u \in Users : FindUserToDelete(p, u)

Next ==
    \/ \E p \in Procs : Arrive(p) \/ Proceed(p) \/ Fault(p)
    \/ \E u \in Users, x \in Payloads : ChangeProfile(u, x)
    \/ Tick

Spec == Init /\ [][Next]_vars

\* The event loop runs every continuation whose await has resolved.
FairSpec == Spec /\ \A p \in Procs : WF_vars(Proceed(p))

-----------------------------------------------------------------------------
(* Properties.                                                             *)

\* The type invariant.
TypeOK ==
    /\ now \in 0..MaxNow
    /\ deleted \subseteq Users
    /\ profile \in [Users -> Payloads]
    /\ Stored \subseteq Token
    /\ \A t \in Stored : rows[t] \in Row
    /\ held \subseteq [token : Token, device : Device]
    /\ announced \subseteq Users \X Devices
    /\ pc \in [Procs -> PC]
    /\ req \in [Procs -> Request]
    /\ faults \in 0..MaxFaults
    /\ lostAlerts \subseteq Users \X Devices
    /\ ended \subseteq Token

\* Rotation consumes (auth-refresh.service.ts:16): whatever else runs, a session
\* created by refreshing a token coexists only with that token revoked, for the
\* same user, and on the device the consumed session was opened on.
RotationConsumes ==
    \A t \in Stored : rows[t].parent # None =>
        LET s == rows[t].parent IN
        /\ s \in Stored
        /\ rows[s].revoked
        /\ s.user = t.user
        /\ rows[s].device = rows[t].device

\* The tokens clients hold are never shared: a token string, although two
\* requests can sign the same one, is delivered to the device of its row only
\* (the unique column is what makes this so, auth.service.ts:390).
DeliveredToItsDevice ==
    \A h \in held : h.token \in Stored /\ rows[h.token].device = h.device

\* No device opens a session unannounced (auth.service.ts:236-260): every device
\* that has a row was announced, or the request that stored its first row is
\* about to announce it, or that request was cut short just before.
DevicesAnnounced ==
    \A t \in Stored :
        LET d == <<t.user, rows[t].device>> IN
        rows[t].device # None =>
            \/ d \in announced \cup lostAlerts
            \/ \E p \in Procs : /\ pc[p] = "responding"
                                /\ MustAnnounce(req[p])
                                /\ d = <<req[p].user, req[p].device>>

\* The requests that can still store a session for u.
Issuers(u) ==
    {p \in Procs : /\ pc[p] \in {"checking", "signing", "storing", "revoking"}
                   /\ req[p].user = u}

\* Deletion is a barrier (user-delete.service.ts:47): once u is deleted no request
\* becomes an issuer of sessions for u; only those that read u before go on.
DeletionBarrier ==
    [][\A u \in deleted : Issuers(u)' \subseteq Issuers(u)]_vars

\* Deletion settles: from some point on a deleted user gets no new session.
DeletionSettles ==
    \A u \in Users : (u \in deleted) ~> [](Issuers(u) = {})

-----------------------------------------------------------------------------
(* The lifecycle of sessions, as their clients see it.                     *)

Live == {t \in Stored : ~rows[t].revoked}
Dead == {t \in Stored : rows[t].revoked}
Heir == {h \in Stored \X Stored : rows[h[2]].parent = h[1]}

Lineage == INSTANCE SessionLineage WITH live <- Live, dead <- Dead, heir <- Heir

\* The implementation refines SessionLineage: a session is opened once, a new one
\* succeeds only a dead one, and a dead session never comes back.
LineageSpec == Lineage!Spec

-----------------------------------------------------------------------------
(* What a comment of the source says, and the interleavings do not keep.    *)

\* "Revoke all active sessions for this user": no session that was being rotated
\* when they were ended lives on in its successor.
EndedForGood ==
    \A t \in Stored : ~rows[t].revoked => rows[t].parent \notin ended
=============================================================================
