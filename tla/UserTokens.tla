------------------------------ MODULE UserTokens ------------------------------
(***************************************************************************)
(* The one-time tokens of table user_tokens and the passwords they change. *)
(*                                                                         *)
(*   forgot      ForgotPasswordService.forgotPassword                      *)
(*   verify      AuthVerifyCodeService.verifyCode                          *)
(*   reset       ForgotPasswordService.resetPassword                       *)
(*   request     AuthFirstAccessService.request, and                       *)
(*               UserResendFirstAccessLinkService.resend, its twin         *)
(*   complete    AuthFirstAccessService.complete                           *)
(*   create      UserCreateService.create and AdminUsersCreateService.create, *)
(*               from the insertion of the user on                         *)
(*   change      AuthChangePasswordService.changePassword                  *)
(*               (and UserUpdateService.update, when given a password: it  *)
(*               reads an active user, compares, and writes by id)         *)
(*   delete      UserDeleteService.delete (its effect on user_tokens)      *)
(*                                                                         *)
(* As in Sessions a request is a process and a step ends at a statement    *)
(* sent to the database.  Data abstraction: a token string and a temporary *)
(* password are random, so both are the number of the request that draws   *)
(* them; the 4-digit code travels with its token's e-mail, so knowing it   *)
(* is having that e-mail.  One tick is five minutes.                       *)
(***************************************************************************)
EXTENDS Integers, FiniteSets

CONSTANTS
    Users,
    Procs,        \* requests that can be in flight at once
    Chosen,       \* passwords people choose
    None,         \* "undefined"
    Ttl,          \* lifetime of a token (5 minutes)
    AdminTtl,     \* lifetime of the token of an administrator's account (24 hours)
    MaxIds,       \* BOUND: requests that draw a random token
    MaxNow,       \* BOUND: the clock stops here
    MaxFaults     \* BOUND: requests cut short by a crash or a database error

Ids == 1..MaxIds
Password == Chosen \cup Ids

ASSUME ConstantAssumption ==
    /\ Chosen \cap Ids = {}
    /\ None \notin Users \cup Password
    /\ {Ttl, AdminTtl, MaxIds, MaxNow, MaxFaults} \subseteq Nat

VARIABLES
    now,
    status,    \* table users: not yet a row, a row, a row with deletedAt
    password,  \* table users
    tokens,    \* table user_tokens: partial function on Ids
    mailed,    \* ids whose e-mail event was dispatched
    next,      \* the next random value
    pc,
    req,
    faults,
    cutShort,  \* HISTORY: ids whose request did not reach its e-mail
    uses       \* HISTORY: how often each token changed a password

data    == <<status, password, tokens>>
history == <<cutShort, uses>>
vars    == <<now, data, mailed, next, pc, req, faults, history>>

Type == {"FORGOT_PASSWORD", "FIRST_ACCESS"}

PC == {"idle", "overwriting", "discarding", "creating", "mailing", "verifying",
       "resetting", "completing", "changing", "deleting", "failed"}

Row == [user : Users, type : Type, used : BOOLEAN, codeVerified : BOOLEAN,
        expires : Nat]

Request == [user : Users \cup {None}, type : Type \cup {None}, id : Ids \cup {None},
            ttl : Nat, new : Chosen \cup {None}]

NoRequest == [user |-> None, type |-> None, id |-> None, ttl |-> 0, new |-> None]

Init ==
    /\ now = 0
    /\ status \in [Users -> {"absent", "active"}]
    /\ password \in [Users -> Chosen]
    /\ tokens = [i \in {} |-> None]
    /\ mailed = {}
    /\ next = 1
    /\ pc = [p \in Procs |-> "idle"]
    /\ req = [p \in Procs |-> NoRequest]
    /\ faults = 0
    /\ cutShort = {}
    /\ uses = [i \in Ids |-> 0]

-----------------------------------------------------------------------------
(* Helpers.                                                                *)

Stored == DOMAIN tokens

Unused(i) == i \in Stored /\ ~tokens[i].used

Expired(i) == tokens[i].expires < now

Goto(p, from, to, r) ==
    /\ pc[p] = from
    /\ pc' = [pc EXCEPT ![p] = to]
    /\ req' = [req EXCEPT ![p] = r]

\* An error is answered, or the handler is done: nothing of the request is left.
End(p, from) == Goto(p, from, "idle", NoRequest)

\* The request draws its random token, and its temporary password if it has one.
Draw == next \in Ids /\ next' = next + 1

-----------------------------------------------------------------------------
(* Requests that issue a token.                                            *)

\* forgotPassword: an unknown or deleted user ends silently.
Forgot(p, u) ==
    /\ status[u] = "active"
    /\ Draw
    /\ Goto(p, "idle", "discarding",
            [NoRequest EXCEPT !.user = u, !.type = "FORGOT_PASSWORD", !.id = next,
                              !.ttl = Ttl])
    /\ UNCHANGED <<now, data, mailed, faults, history>>

\* request and resend: a new temporary password is drawn as well.
RequestFirstAccess(p, u) ==
    /\ status[u] = "active"
    /\ Draw
    /\ Goto(p, "idle", "overwriting",
            [NoRequest EXCEPT !.user = u, !.type = "FIRST_ACCESS", !.id = next, !.ttl = Ttl])
    /\ UNCHANGED <<now, data, mailed, faults, history>>

OverwritePassword(p) ==
    LET r == req[p] IN
    /\ Goto(p, "overwriting", "discarding", r)
    /\ password' = [password EXCEPT ![r.user] = r.id]
    /\ UNCHANGED <<now, status, tokens, mailed, next, faults, history>>

\* The row of a new user is inserted with a temporary password.  An administrator's
\* account skips deleteMany and gets a longer-lived token.
CreateUser(p, u, admin) ==
    /\ status[u] = "absent"
    /\ Draw
    /\ status' = [status EXCEPT ![u] = "active"]
    /\ password' = [password EXCEPT ![u] = next]
    /\ Goto(p, "idle", IF admin THEN "creating" ELSE "discarding",
            [NoRequest EXCEPT !.user = u, !.type = "FIRST_ACCESS", !.id = next,
                              !.ttl = IF admin THEN AdminTtl ELSE Ttl])
    /\ UNCHANGED <<now, tokens, mailed, faults, history>>

\* MUTANTS of DiscardUnused: spent tokens are deleted too; a user with nothing to
\* discard is taken for one who never asked, and the request ends.
DiscardAll(p) ==
    LET r == req[p]
        gone == {i \in Stored : tokens[i].user = r.user /\ tokens[i].type = r.type}
    IN  /\ Goto(p, "discarding", "creating", r)
        /\ tokens' = [i \in Stored \ gone |-> tokens[i]]
        /\ UNCHANGED <<now, status, password, mailed, next, faults, history>>

DiscardOrEnd(p) ==
    LET r == req[p]
        gone == {i \in Stored : /\ tokens[i].user = r.user
                                /\ tokens[i].type = r.type
                                /\ ~tokens[i].used}
    IN  /\ IF gone = {} THEN End(p, "discarding") ELSE Goto(p, "discarding", "creating", r)
        /\ tokens' = [i \in Stored \ gone |-> tokens[i]]
        /\ UNCHANGED <<now, status, password, mailed, next, faults, history>>

\* deleteMany: the user's unused tokens of the type.
DiscardUnused(p) ==
    LET r == req[p]
        gone == {i \in Stored : /\ tokens[i].user = r.user
                                /\ tokens[i].type = r.type
                                /\ ~tokens[i].used}
    IN  /\ Goto(p, "discarding", "creating", r)
        /\ tokens' = [i \in Stored \ gone |-> tokens[i]]
        /\ UNCHANGED <<now, status, password, mailed, next, faults, history>>

\* MUTANT of NewRow: the lifetime is subtracted.
NewRowExpired(r) ==
    [user |-> r.user, type |-> r.type, used |-> FALSE, codeVerified |-> FALSE,
     expires |-> now - r.ttl]

NewRow(r) == [user |-> r.user, type |-> r.type, used |-> FALSE, codeVerified |-> FALSE,
              expires |-> now + r.ttl]

CreateToken(p) ==
    LET r == req[p] IN
    /\ Goto(p, "creating", "mailing", r)
    /\ tokens' = [i \in Stored \cup {r.id} |-> IF i = r.id THEN NewRow(r) ELSE tokens[i]]
    /\ UNCHANGED <<now, status, password, mailed, next, faults, history>>

\* The event is dispatched and the request answered, in one synchronous step.
DispatchMail(p) ==
    /\ End(p, "mailing")
    /\ mailed' = mailed \cup {req[p].id}
    /\ UNCHANGED <<now, data, next, faults, history>>

-----------------------------------------------------------------------------
(* Requests that present a token.  Only mailed tokens can be presented; a    *)
(* request that fails a check ends without any effect and is left out.       *)

VerifyCode(p, i) ==
    /\ i \in mailed
    /\ Unused(i) /\ tokens[i].type = "FORGOT_PASSWORD" /\ ~Expired(i)
    /\ Goto(p, "idle", "verifying", [NoRequest EXCEPT !.id = i])
    /\ UNCHANGED <<now, data, mailed, next, faults, history>>

\* update by id: a row deleted since the look-up makes it fail.
MarkVerified(p) ==
    LET i == req[p].id IN
    /\ End(p, "verifying")
    /\ tokens' = IF i \in Stored THEN [tokens EXCEPT ![i].codeVerified = TRUE] ELSE tokens
    /\ UNCHANGED <<now, status, password, mailed, next, faults, history>>

\* The new password is compared with the one read here.
ResetPassword(p, i, w) ==
    /\ i \in mailed
    /\ Unused(i) /\ tokens[i].type = "FORGOT_PASSWORD"
    /\ status[tokens[i].user] = "active"
    /\ ~Expired(i)
    /\ tokens[i].codeVerified
    /\ w # password[tokens[i].user]
    /\ Goto(p, "idle", "resetting",
            [NoRequest EXCEPT !.user = tokens[i].user, !.id = i, !.new = w])
    /\ UNCHANGED <<now, data, mailed, next, faults, history>>

\* MUTANTS of ValidFirstAccess: the type is not checked; the user is not checked.
ValidAnyType(i) ==
    /\ Unused(i)
    /\ status[tokens[i].user] = "active"
    /\ ~Expired(i)

ValidAnyUser(i) ==
    /\ Unused(i) /\ tokens[i].type = "FIRST_ACCESS"
    /\ ~Expired(i)

\* findValidToken of the first-access flow.
ValidFirstAccess(i) ==
    /\ Unused(i) /\ tokens[i].type = "FIRST_ACCESS"
    /\ status[tokens[i].user] = "active"
    /\ ~Expired(i)

CompleteFirstAccess(p, i, w) ==
    /\ i \in mailed
    /\ ValidFirstAccess(i)
    /\ Goto(p, "idle", "completing",
            [NoRequest EXCEPT !.user = tokens[i].user, !.id = i, !.new = w])
    /\ UNCHANGED <<now, data, mailed, next, faults, history>>

\* One transaction: the password and the token's used flag.  When the token is
\* gone its update fails and the password is rolled back with it.
Consume(p, from) ==
    LET r == req[p] IN
    /\ End(p, from)
    /\ IF r.id \in Stored
         THEN /\ password' = [password EXCEPT ![r.user] = r.new]
              /\ tokens' = [tokens EXCEPT ![r.id].used = TRUE]
              /\ uses' = [uses EXCEPT ![r.id] = @ + 1]
         ELSE UNCHANGED <<password, tokens, uses>>
    /\ UNCHANGED <<now, status, mailed, next, faults, cutShort>>

ConsumeReset(p) == Consume(p, "resetting")
ConsumeFirstAccess(p) == Consume(p, "completing")

-----------------------------------------------------------------------------
(* Password change by its owner, deletion by an administrator.             *)

\* The current password is given and was compared; the new one differs from it.
ChangePassword(p, u, w) ==
    /\ status[u] = "active"
    /\ w # password[u]
    /\ Goto(p, "idle", "changing", [NoRequest EXCEPT !.user = u, !.new = w])
    /\ UNCHANGED <<now, data, mailed, next, faults, history>>

StorePassword(p) ==
    /\ End(p, "changing")
    /\ password' = [password EXCEPT ![req[p].user] = req[p].new]
    /\ UNCHANGED <<now, status, tokens, mailed, next, faults, history>>

FindUserToDelete(p, u) ==
    /\ status[u] = "active"
    /\ Goto(p, "idle", "deleting", [NoRequest EXCEPT !.user = u])
    /\ UNCHANGED <<now, data, mailed, next, faults, history>>

\* One transaction: deletedAt and every unused token of the user marked used.
DeleteUser(p) ==
    LET u == req[p].user IN
    /\ End(p, "deleting")
    /\ status' = [status EXCEPT ![u] = "deleted"]
    /\ tokens' = [i \in Stored |-> IF tokens[i].user = u
                                     THEN [tokens[i] EXCEPT !.used = TRUE] ELSE tokens[i]]
    /\ UNCHANGED <<now, password, mailed, next, faults, history>>

-----------------------------------------------------------------------------
\* The process dies, or the next statement throws, between two steps.  Ids of
\* requests that were to be mailed are remembered.
Fault(p) ==
    /\ faults < MaxFaults
    /\ pc[p] \notin {"idle", "failed"}
    /\ Goto(p, pc[p], "failed", req[p])
    /\ faults' = faults + 1
    /\ cutShort' = IF pc[p] \in {"overwriting", "discarding", "creating", "mailing"}
                     THEN cutShort \cup {req[p].id} ELSE cutShort
    /\ UNCHANGED <<now, data, mailed, next, uses>>

SendError(p) ==
    /\ End(p, "failed")
    /\ UNCHANGED <<now, data, mailed, next, faults, history>>

Tick ==
    /\ now < MaxNow
    /\ now' = now + 1
    /\ UNCHANGED <<data, mailed, next, pc, req, faults, history>>

Arrive(p) ==
    \/ \E u \in Users : Forgot(p, u)
    \/ \E u \in Users : RequestFirstAccess(p, u)
    \/ \E u \in Users, admin \in BOOLEAN : CreateUser(p, u, admin)
    \/ \E i \in Ids : VerifyCode(p, i)
    \/ \E i \in Ids, w \in Chosen : ResetPassword(p, i, w)
    \/ \E i \in Ids, w \in Chosen : CompleteFirstAccess(p, i, w)
    \/ \E u \in Users, w \in Chosen : ChangePassword(p, u, w)
    \/ \E u \in Users : FindUserToDelete(p, u)

Proceed(p) ==
    \/ OverwritePassword(p)
    \/ DiscardUnused(p)
    \/ CreateToken(p)
    \/ DispatchMail(p)
    \/ MarkVerified(p)
    \/ ConsumeReset(p)
    \/ ConsumeFirstAccess(p)
    \/ StorePassword(p)
    \/ DeleteUser(p)
    \/ SendError(p)

Next ==
    \/ \E p \in Procs : Arrive(p) \/ Proceed(p) \/ Fault(p)
    \/ Tick

Spec == Init /\ [][Next]_vars

\* The event loop runs every continuation whose await has resolved.
FairSpec == Spec /\ \A p \in Procs : WF_vars(Proceed(p))

-----------------------------------------------------------------------------
(* Properties.                                                             *)

\* The type invariant.
TypeOK ==
    /\ now \in 0..MaxNow
    /\ status \in [Users -> {"absent", "active", "deleted"}]
    /\ password \in [Users -> Password]
    /\ Stored \subseteq Ids
    /\ \A i \in Stored : tokens[i] \in Row
    /\ mailed \subseteq Ids
    /\ next \in 1..MaxIds + 1
    /\ pc \in [Procs -> PC]
    /\ req \in [Procs -> Request]
    /\ faults \in 0..MaxFaults
    /\ cutShort \subseteq Ids
    /\ uses \in [Ids -> Nat]

\* A token that changed a password (forgot-password.service.ts:123,
\* auth-first-access.service.ts:109) was mailed, is spent, and is of the flow that
\* used it: a reset token had its code verified.  No interleaving of deleteMany,
\* verifyCode, reset and completion leaves a change whose token is not spent.
ChangesAreEarned ==
    \A i \in Ids : uses[i] > 0 =>
        /\ i \in mailed
        /\ i \in Stored /\ tokens[i].used
        /\ tokens[i].type = "FORGOT_PASSWORD" => tokens[i].codeVerified

\* Spent tokens are kept and stay spent, whatever deleteMany or verifyCode run
\* beside their use.
SpentIsFinal ==
    [][\A i \in Stored : tokens[i].used =>
            i \in Stored' /\ tokens'[i].used /\ tokens'[i].user = tokens[i].user]_vars

\* The requests that can still write a password of u or store a token for u.
Writers(u) ==
    {p \in Procs : /\ pc[p] \in {"overwriting", "discarding", "creating", "resetting",
                                 "completing", "changing"}
                   /\ req[p].user = u}

\* Deletion freezes the account (user-delete.service.ts:47): once u is deleted no
\* request becomes a writer of u's password and tokens.
DeletionFreezes ==
    [][\A u \in Users : status[u] = "deleted" => Writers(u)' \subseteq Writers(u)]_vars

\* The owner of an account whose password was replaced by a temporary one is
\* eventually told, unless the request was cut short.
TemporaryIsMailed ==
    \A i \in Ids : (\E u \in Users : password[u] = i) ~> (i \in mailed \cup cutShort)

-----------------------------------------------------------------------------
(* What the documentation says, and an interleaving does not keep.           *)

\* "Short-lived one-time token": a token changes a password once.
OneTime == \A i \in Ids : uses[i] <= 1
=============================================================================
