-------------------------------- MODULE Access --------------------------------
(***************************************************************************)
(* Who is let in: the guards every request passes (JwtAuthGuard,           *)
(* PermissionsGuard and SubscriptionGuard, then SuperAdminGuard on the     *)
(* admin routes), together with the requests that change what the guards   *)
(* read: users are deleted, permissions given and taken, contracts opened, *)
(* paid for and canceled.                                                  *)
(*                                                                         *)
(* A request is a process; a guard waits for the database twice, and what  *)
(* it read may have changed when it decides.  The statements of the        *)
(* handlers are in Accounts and Billing: here a handler takes one step,    *)
(* for contracts a step of SubscriptionLedger, which Billing implements.   *)
(* Public routes pass no guard and are not requests here.                  *)
(***************************************************************************)
EXTENDS Integers

CONSTANTS
    Users,
    TenantOf,   \* user -> tenant, or None for a super administrator
    ProfileOf,  \* user -> role profile
    Profiles,
    SeedProfile,
    Tenants,
    SeedTenant,
    Procs,      \* requests that can be in flight at once
    None,
    MaxNow      \* BOUND: the clock stops here

Times == 0..MaxNow

\* A permission is named for the route that asks for it; the admin routes ask for none.
Permissions == {"users", "profiles"}

Routes == Permissions \cup {"admin"}

ASSUME AccessAssumption ==
    /\ TenantOf \in [Users -> Tenants \cup {None}]
    /\ ProfileOf \in [Users -> Profiles]
    /\ SeedProfile \in Profiles /\ SeedTenant \in Tenants
    /\ MaxNow \in Nat
    /\ None \notin Users \cup Tenants \cup Int \cup Routes

VARIABLES
    now,
    contract,   \* table subscriptions, as SubscriptionLedger has it
    gone,       \* the users whose deletedAt is set
    granted,    \* table role_profiles: profile -> permissions
    pc,
    req,
    seen        \* HISTORY: what was true at some moment of a request's checks

state == <<now, contract, gone, granted>>
vars  == <<state, pc, req, seen>>

Ledger == INSTANCE SubscriptionLedger WITH Dates <- Times

PC == {"idle", "arrived", "reading", "deciding", "handling", "refused"}

Refusals == {"user", "permission", "subscription", "admin"}

Request == [user    : Users \cup {None},
            route   : Routes \cup {None},
            read    : Ledger!Contract \cup {None},  \* what SubscriptionGuard read
            cause   : Refusals \cup {None},
            changed : BOOLEAN]                      \* HISTORY: not what it decides on any more

NoRequest == [user |-> None, route |-> None, read |-> None, cause |-> None, changed |-> FALSE]

Facts == {"active", "deleted", "permitted", "barred", "open", "closed"}

-----------------------------------------------------------------------------
(* What the guards ask.                                                    *)

SuperAdmin(u) == TenantOf[u] = None

\* MUTANT of Known: deleted users are found as well.
KnownOrDeleted(u) == TRUE

\* validateUser: where deletedAt is null.
Known(u) == u \notin gone

\* PermissionsGuard: any of the permissions of the route, from the user's profile.
Permitted(u, route) == route \in Permissions => route \in granted[ProfileOf[u]]

\* subscription.findUnique of a tenant.
ContractOf(t) == IF t \in DOMAIN contract THEN contract[t] ELSE None

\* MUTANTS of Lets: a trial ends a tick early; it never ends.
LetsBefore(c) ==
    /\ c # None
    /\ \/ c.status = "ACTIVE"
       \/ c.status = "TRIAL" /\ (c.until = None \/ now < c.until)

LetsAnyTrial(c) == c # None /\ c.status \in {"ACTIVE", "TRIAL"}

\* SubscriptionGuard on the contract c, by the clock of the decision.  No contract is
\* ever PAST_DUE.
Lets(c) ==
    /\ c # None
    /\ \/ c.status = "ACTIVE"
       \/ c.status = "TRIAL" /\ (c.until = None \/ now <= c.until)

-----------------------------------------------------------------------------
(* History.                                                                *)

Checking == {"arrived", "reading", "deciding"}

\* A contract that is in force, whatever a guard makes of it.
InForce(u) ==
    \/ SuperAdmin(u)
    \/ LET c == ContractOf(TenantOf[u]) IN
         /\ c # None
         /\ c.status # "CANCELED"
         /\ c.status = "TRIAL" => c.until = None \/ c.until >= now

FactsOf(r) ==
    {IF r.user \in gone THEN "deleted" ELSE "active",
     IF r.route \in Permissions \ granted[ProfileOf[r.user]] THEN "barred" ELSE "permitted",
     IF InForce(r.user) THEN "open" ELSE "closed"}

\* A conjunct of every step, after its action.
Observe ==
    seen' = [p \in Procs |->
               CASE pc'[p] \in Checking -> seen[p] \cup FactsOf(req[p])'
                 [] pc'[p] = "idle"     -> {}
                 [] OTHER               -> seen[p]]

-----------------------------------------------------------------------------
(* The guards.                                                             *)

Init ==
    /\ now = 0
    /\ Ledger!Init
    /\ gone = {}
    /\ granted \in [Profiles -> {{}, Permissions}]
    /\ pc = [p \in Procs |-> "idle"]
    /\ req = [p \in Procs |-> NoRequest]
    /\ seen = [p \in Procs |-> {}]

Goto(p, from, to, r) ==
    /\ pc[p] = from
    /\ pc' = [pc EXCEPT ![p] = to]
    /\ req' = [req EXCEPT ![p] = r]

End(p, from) == Goto(p, from, "idle", NoRequest)

Refuse(p, from, cause) == Goto(p, from, "refused", [req[p] EXCEPT !.cause = cause])

\* A request with a token that is not expired: its user was active once.
Arrive(p, u, route) ==
    /\ Goto(p, "idle", "arrived", [NoRequest EXCEPT !.user = u, !.route = route])
    /\ UNCHANGED state

\* MUTANT of Authenticate: super administrators have no exemption.
AuthenticateAlike(p) ==
    LET r == req[p] IN
    /\ pc[p] = "arrived"
    /\ \/ ~Known(r.user) /\ Refuse(p, "arrived", "user")
       \/ Known(r.user) /\ ~Permitted(r.user, r.route) /\ Refuse(p, "arrived", "permission")
       \/ Known(r.user) /\ Permitted(r.user, r.route) /\ Goto(p, "arrived", "reading", r)
    /\ UNCHANGED state

\* The strategy reads the user with its profile; PermissionsGuard goes by that, and
\* SubscriptionGuard lets a super administrator through without another look-up.
Authenticate(p) ==
    LET r == req[p] IN
    /\ pc[p] = "arrived"
    /\ \/ ~Known(r.user) /\ Refuse(p, "arrived", "user")
       \/ Known(r.user) /\ ~Permitted(r.user, r.route) /\ Refuse(p, "arrived", "permission")
       \/ /\ Known(r.user) /\ Permitted(r.user, r.route)
          /\ Goto(p, "arrived", IF SuperAdmin(r.user) THEN "handling" ELSE "reading", r)
    /\ UNCHANGED state

\* SubscriptionGuard looks the contract of the user's tenant up.
ReadSubscription(p) ==
    LET r == req[p] IN
    /\ pc[p] = "reading"
    /\ Goto(p, "reading", "deciding", [r EXCEPT !.read = ContractOf(TenantOf[r.user])])
    /\ UNCHANGED state

\* The answer is compared with the clock; SuperAdminGuard follows on the admin routes.
Decide(p) ==
    LET r == [req[p] EXCEPT !.read = None]
        c == req[p].read
    IN
    /\ pc[p] = "deciding"
    /\ \/ /\ ~Lets(c)
          /\ Goto(p, "deciding", "refused",
                  [r EXCEPT !.cause = "subscription",
                            !.changed = c # ContractOf(TenantOf[r.user])])
       \/ /\ Lets(c) /\ r.route = "admin"
          /\ Goto(p, "deciding", "refused", [r EXCEPT !.cause = "admin"])
       \/ /\ Lets(c) /\ r.route # "admin"
          /\ Goto(p, "deciding", "handling", r)
    /\ UNCHANGED state

-----------------------------------------------------------------------------
(* The handlers.                                                           *)

\* UserDeleteService: the transaction, on a target that is not the caller.
DeleteUser(p, target) ==
    /\ req[p].route = "users"
    /\ target # req[p].user
    /\ gone' = gone \cup {target}
    /\ End(p, "handling")
    /\ UNCHANGED <<now, contract, granted>>

\* RoleProfileUpdateService: the permissions of a profile are replaced.
UpdateProfile(p, profile, permissions) ==
    /\ req[p].route = "profiles"
    /\ granted' = [granted EXCEPT ![profile] = permissions]
    /\ End(p, "handling")
    /\ UNCHANGED <<now, contract, gone>>

\* SubscriptionsService.assign, changePlan and cancel.
OpenContract(p, t, d) ==
    /\ req[p].route = "admin"
    /\ Ledger!OpenContract(t, d)
    /\ End(p, "handling")
    /\ UNCHANGED <<now, gone, granted>>

ActivateContract(p, t) ==
    /\ req[p].route = "admin"
    /\ Ledger!Activate(t)
    /\ End(p, "handling")
    /\ UNCHANGED <<now, gone, granted>>

CancelContract(p, t) ==
    /\ req[p].route = "admin"
    /\ Ledger!CancelContract(t)
    /\ End(p, "handling")
    /\ UNCHANGED <<now, gone, granted>>

\* The handler throws, or changes nothing that the guards read.
GiveUp(p) ==
    /\ End(p, "handling")
    /\ UNCHANGED state

\* The answer to a refused request.
Answer(p) ==
    /\ End(p, "refused")
    /\ UNCHANGED state

-----------------------------------------------------------------------------
(* The seed, whose route is public, and the clock.                         *)

SeedProfiles ==
    /\ granted' = [granted EXCEPT ![SeedProfile] = Permissions]
    /\ UNCHANGED <<now, contract, gone, pc, req>>

SeedContract ==
    /\ Ledger!SetUp
    /\ UNCHANGED <<now, gone, granted, pc, req>>

Tick ==
    /\ now < MaxNow
    /\ now' = now + 1
    /\ UNCHANGED <<contract, gone, granted, pc, req>>

-----------------------------------------------------------------------------
Check(p) ==
    /\ Authenticate(p) \/ ReadSubscription(p) \/ Decide(p)
    /\ Observe

Handle(p) ==
    /\ \/ \E u \in Users : DeleteUser(p, u)
       \/ \E r \in Profiles, s \in SUBSET Permissions : UpdateProfile(p, r, s)
       \/ \E t \in Tenants : \/ \E d \in Times \cup {None} : OpenContract(p, t, d)
                             \/ ActivateContract(p, t)
                             \/ CancelContract(p, t)
       \/ GiveUp(p)
       \/ Answer(p)
    /\ Observe

Environment ==
    /\ \/ \E p \in Procs, u \in Users, route \in Routes : Arrive(p, u, route)
       \/ SeedProfiles
       \/ SeedContract
       \/ Tick
    /\ Observe

Next == Environment \/ \E p \in Procs : Check(p) \/ Handle(p)

Spec == Init /\ [][Next]_vars

\* Node resumes every request whose answer came; clients come or do not.
FairSpec == Spec /\ \A p \in Procs : WF_vars(Check(p) \/ Handle(p))

-----------------------------------------------------------------------------
(* Properties.                                                             *)

\* The type invariant.  Only a user of a tenant has a contract looked up.
TypeOK ==
    /\ now \in Times
    /\ DOMAIN contract \subseteq Tenants
    /\ \A t \in DOMAIN contract : contract[t] \in Ledger!Contract
    /\ gone \subseteq Users
    /\ granted \in [Profiles -> SUBSET Permissions]
    /\ pc \in [Procs -> PC]
    /\ req \in [Procs -> Request]
    /\ seen \in [Procs -> SUBSET Facts]
    /\ \A p \in Procs : pc[p] \in {"reading", "deciding"} => ~SuperAdmin(req[p].user)

\* Whoever is served was an active user, had the permission and, outside the super
\* administrators, a contract in force, each at some moment since the request came:
\* a deletion, a withdrawn permission, a cancellation or the end of a trial keeps
\* out every request that comes after it (jwt.strategy.ts:21, permissions.guard.ts:33,
\* subscription.guard.ts:35 read the database anew), but not the ones in flight.
ServedWithCause ==
    \A p \in Procs : pc[p] = "handling" =>
        /\ {"active", "permitted", "open"} \subseteq seen[p]
        /\ req[p].route = "admin" => SuperAdmin(req[p].user)

\* Whoever is refused lacked at some moment what the refusal names, with one
\* exception: SubscriptionGuard compares a trial it read earlier with a clock it
\* reads later, so that a contract paid for in between can be refused as an expired
\* trial, without a moment when it was not in force (subscription.guard.ts:47).
RefusedWithCause ==
    \A p \in Procs : pc[p] = "refused" =>
        CASE req[p].cause = "user"         -> "deleted" \in seen[p]
          [] req[p].cause = "permission"   -> "barred" \in seen[p]
          [] req[p].cause = "subscription" -> "closed" \in seen[p] \/ req[p].changed
          [] req[p].cause = "admin"        -> ~SuperAdmin(req[p].user)

\* A deleted user, whose access token goes on being valid, is shut out for good as
\* soon as the requests in flight are through (auth.service.ts:265).
DeletionShutsOut ==
    \A u \in Users :
        <>[](u \in gone => \A p \in Procs : pc[p] = "handling" => req[p].user # u)
=============================================================================
