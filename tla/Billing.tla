-------------------------------- MODULE Billing --------------------------------
(***************************************************************************)
(* The plans, subscriptions and invoices that super administrators manage. *)
(*                                                                         *)
(*   create, update, deactivate   PlansService                             *)
(*   assign, change, cancel       SubscriptionsService                     *)
(*   invoice                      InvoicesService.updateStatus             *)
(*   seed                         SeedService.run (its plan and its        *)
(*                                subscription)                            *)
(*                                                                         *)
(* A request is a process and a step ends at a statement sent to the       *)
(* database.  Plans, subscriptions and tenants are never removed, so that  *)
(* the look-ups which only ask whether a given one exists are not steps.   *)
(* Prices, limits, features and notes are left out, and of canceledAt and  *)
(* paidAt only whether they have a date; nothing listens to the events of  *)
(* these services.  The period is left out.                                *)
(***************************************************************************)
EXTENDS Integers

CONSTANTS
    Plans,      \* BOUND: ids that plans can get
    FirstPlans, \* the plans the database holds at the start
    Names,      \* names of plans
    Subs,       \* BOUND: ids that subscriptions can get
    Tenants,
    Invoices,
    Procs,      \* requests that can be in flight at once
    SeedName,   \* "Infinity Seed Plan"
    SeedTenant, \* "seed-tenant-default"
    None,       \* null, or a field the body does not have
    Trials,     \* lengths of a trial that the body of a request can have, in ticks
    MaxNow      \* BOUND: the clock stops here

Times == 0..MaxNow
Deadlines == 0..(2 * MaxNow)

ASSUME BillingAssumption ==
    /\ FirstPlans \subseteq Plans
    /\ SeedName \in Names /\ SeedTenant \in Tenants
    /\ MaxNow \in Nat
    /\ Trials \subseteq Times
    /\ None \notin Plans \cup Names \cup Subs \cup Tenants \cup Invoices \cup Int

VARIABLES
    now,
    plans,      \* table plans: partial function on Plans
    subs,       \* table subscriptions: partial function on Subs
    invoices,   \* table invoices; nothing in the source creates one
    pc,
    req,
    overtaken   \* HISTORY: requests whose invoice was written since they read it

tables == <<plans, subs, invoices>>
vars   == <<now, tables, pc, req, overtaken>>

Plan == [name : Names, trial : Trials \cup {0}, active : BOOLEAN]

Sub == [tenant : Tenants, plan : Plans, status : {"TRIAL", "ACTIVE", "CANCELED"},
        until : Deadlines \cup {None}, canceled : BOOLEAN]

\* PENDING, FAILED and REFUNDED are written alike.
InvoiceStatus == {"PAID", "UNPAID"}

Invoice == [status : InvoiceStatus, paid : BOOLEAN]

PC == {"idle", "naming", "inserting", "storing", "checking", "subscribing", "changing",
       "canceling", "marking", "seedingPlan", "seedingSub"}

Request == [plan   : Plans \cup {None},
            name   : Names \cup {None},
            trial  : Trials \cup {0, None},
            active : BOOLEAN,                       \* FALSE: isActive is to be cleared
            tenant : Tenants \cup {None},
            sub    : Subs \cup {None},
            until  : Deadlines \cup {None},
            inv    : Invoices \cup {None},
            status : InvoiceStatus \cup {None},
            paid   : BOOLEAN]

NoRequest == [plan |-> None, name |-> None, trial |-> None, active |-> TRUE,
              tenant |-> None, sub |-> None, until |-> None, inv |-> None,
              status |-> None, paid |-> FALSE]

Init ==
    /\ now = 0
    /\ plans \in [FirstPlans -> [name : Names, trial : Trials, active : {TRUE}]]
    /\ \A i, j \in FirstPlans : plans[i].name = plans[j].name => i = j
    /\ subs = [s \in {} |-> None]
    /\ invoices = [v \in Invoices |-> [status |-> "UNPAID", paid |-> FALSE]]
    /\ pc = [p \in Procs |-> "idle"]
    /\ req = [p \in Procs |-> NoRequest]
    /\ overtaken = {}

-----------------------------------------------------------------------------
(* Helpers.                                                                *)

KnownPlans == DOMAIN plans

KnownSubs == DOMAIN subs

Named(n) == {i \in KnownPlans : plans[i].name = n}

SubsOf(t) == {s \in KnownSubs : subs[s].tenant = t}

Goto(p, from, to, r) ==
    /\ pc[p] = from
    /\ pc' = [pc EXCEPT ![p] = to]
    /\ req' = [req EXCEPT ![p] = r]

End(p, from) == Goto(p, from, "idle", NoRequest)

\* The value of a field of the body, or what the row has.
Given(value, old) == IF value = None THEN old ELSE value

-----------------------------------------------------------------------------
(* Requests arrive.                                                        *)

CreatePlan(p, n, d) ==
    /\ Goto(p, "idle", "naming", [NoRequest EXCEPT !.name = n, !.trial = d])
    /\ UNCHANGED <<now, tables, overtaken>>

\* The name is looked up only when the body has one.
UpdatePlan(p, i, n, d) ==
    /\ Goto(p, "idle", IF n = None THEN "storing" ELSE "naming",
            [NoRequest EXCEPT !.plan = i, !.name = n, !.trial = d])
    /\ UNCHANGED <<now, tables, overtaken>>

DeactivatePlan(p, i) ==
    /\ Goto(p, "idle", "storing", [NoRequest EXCEPT !.plan = i, !.active = FALSE])
    /\ UNCHANGED <<now, tables, overtaken>>

\* assign reads the plan, active or not; d is the end of the trial in the body,
\* BOUND: the last tick or none.
Assign(p, t, i, d) ==
    /\ Goto(p, "idle", "checking",
            [NoRequest EXCEPT !.tenant = t, !.plan = i, !.trial = plans[i].trial, !.until = d])
    /\ UNCHANGED <<now, tables, overtaken>>

ChangePlan(p, s, i) ==
    /\ Goto(p, "idle", "changing", [NoRequest EXCEPT !.sub = s, !.plan = i])
    /\ UNCHANGED <<now, tables, overtaken>>

Cancel(p, s) ==
    /\ Goto(p, "idle", "canceling", [NoRequest EXCEPT !.sub = s])
    /\ UNCHANGED <<now, tables, overtaken>>

\* MUTANT of PaymentDate: only a payment has a date.
PaymentDateOfPaid(v, status) == status = "PAID"

\* A payment is dated when the invoice is read; any other status takes over the
\* date that was read.
PaymentDate(v, status) == status = "PAID" \/ invoices[v].paid

ReadInvoice(p, v, status) ==
    /\ Goto(p, "idle", "marking",
            [NoRequest EXCEPT !.inv = v, !.status = status, !.paid = PaymentDate(v, status)])
    /\ UNCHANGED <<now, tables, overtaken>>

Seed(p) ==
    /\ Goto(p, "idle", "seedingPlan", NoRequest)
    /\ UNCHANGED <<now, tables, overtaken>>

-----------------------------------------------------------------------------
(* Plans.                                                                  *)

\* plan.findUnique by name: a plan other than the one to update is a conflict.
CheckName(p) ==
    LET r == req[p] IN
    /\ IF Named(r.name) \subseteq {r.plan}
         THEN Goto(p, "naming", IF r.plan = None THEN "inserting" ELSE "storing", r)
         ELSE End(p, "naming")
    /\ UNCHANGED <<now, tables, overtaken>>

InsertPlan(p, i) ==
    LET r == req[p] IN
    /\ End(p, "inserting")
    /\ i \notin KnownPlans
    /\ Named(r.name) = {}
    /\ plans' = [j \in KnownPlans \cup {i} |->
                   IF j = i THEN [name |-> r.name, trial |-> r.trial, active |-> TRUE]
                            ELSE plans[j]]
    /\ UNCHANGED <<now, subs, invoices, overtaken>>

\* MUTANT of StorePlan: the column is not unique.
StoreAnyPlan(p) ==
    LET r == req[p] IN
    /\ End(p, "storing")
    /\ plans' = [plans EXCEPT ![r.plan] =
                   [name   |-> Given(r.name, @.name),
                    trial  |-> Given(r.trial, @.trial),
                    active |-> @.active /\ r.active]]
    /\ UNCHANGED <<now, subs, invoices, overtaken>>

\* update and deactivate write by id; the unique column admits the name.
StorePlan(p) ==
    LET r == req[p] IN
    /\ End(p, "storing")
    /\ Named(r.name) \subseteq {r.plan}
    /\ plans' = [plans EXCEPT ![r.plan] =
                   [name   |-> Given(r.name, @.name),
                    trial  |-> Given(r.trial, @.trial),
                    active |-> @.active /\ r.active]]
    /\ UNCHANGED <<now, subs, invoices, overtaken>>

-----------------------------------------------------------------------------
(* Subscriptions.                                                          *)

\* The end of the trial: the body's, or the plan's trial from now on.
TrialEnd(r) ==
    IF r.until # None THEN r.until ELSE IF r.trial > 0 THEN now + r.trial ELSE None

\* The tenant's subscription is looked up; the dates are computed from here.
CheckSubscription(p) ==
    LET r == req[p] IN
    /\ IF SubsOf(r.tenant) = {}
         THEN Goto(p, "checking", "subscribing", [r EXCEPT !.until = TrialEnd(r)])
         ELSE End(p, "checking")
    /\ UNCHANGED <<now, tables, overtaken>>

NewSub(r) ==
    [tenant |-> r.tenant, plan |-> r.plan, until |-> r.until, canceled |-> FALSE,
     status |-> IF r.until = None THEN "ACTIVE" ELSE "TRIAL"]

\* MUTANTS of InsertSub: the tenant's row is replaced; the column is not unique.
InsertOrReplaceSub(p, s) ==
    LET r == req[p] IN
    /\ End(p, "subscribing")
    /\ SubsOf(r.tenant) = (IF s \in KnownSubs THEN {s} ELSE {})
    /\ subs' = [q \in KnownSubs \cup {s} |-> IF q = s THEN NewSub(r) ELSE subs[q]]
    /\ UNCHANGED <<now, plans, invoices, overtaken>>

InsertAnySub(p, s) ==
    LET r == req[p] IN
    /\ End(p, "subscribing")
    /\ s \notin KnownSubs
    /\ subs' = [q \in KnownSubs \cup {s} |-> IF q = s THEN NewSub(r) ELSE subs[q]]
    /\ UNCHANGED <<now, plans, invoices, overtaken>>

\* subscription.create: the tenant column is unique.
InsertSub(p, s) ==
    LET r == req[p] IN
    /\ End(p, "subscribing")
    /\ s \notin KnownSubs
    /\ SubsOf(r.tenant) = {}
    /\ subs' = [q \in KnownSubs \cup {s} |-> IF q = s THEN NewSub(r) ELSE subs[q]]
    /\ UNCHANGED <<now, plans, invoices, overtaken>>

\* MUTANT of StoreChange: the date of the cancellation stays.
StoreChangeOnly(p) ==
    LET r == req[p] IN
    /\ End(p, "changing")
    /\ subs' = [subs EXCEPT ![r.sub].plan = r.plan, ![r.sub].status = "ACTIVE"]
    /\ UNCHANGED <<now, plans, invoices, overtaken>>

StoreChange(p) ==
    LET r == req[p] IN
    /\ End(p, "changing")
    /\ subs' = [subs EXCEPT ![r.sub].plan = r.plan, ![r.sub].status = "ACTIVE",
                            ![r.sub].canceled = FALSE]
    /\ UNCHANGED <<now, plans, invoices, overtaken>>

StoreCancel(p) ==
    LET s == req[p].sub IN
    /\ End(p, "canceling")
    /\ subs' = [subs EXCEPT ![s].status = "CANCELED", ![s].canceled = TRUE]
    /\ UNCHANGED <<now, plans, invoices, overtaken>>

-----------------------------------------------------------------------------
(* Invoices and the seed.                                                  *)

Readers(v) == {q \in Procs : pc[q] = "marking" /\ req[q].inv = v}

StoreInvoice(p) ==
    LET r == req[p] IN
    /\ End(p, "marking")
    /\ invoices' = [invoices EXCEPT ![r.inv] = [status |-> r.status, paid |-> r.paid]]
    /\ overtaken' = (overtaken \cup Readers(r.inv)) \ {p}
    /\ UNCHANGED <<now, plans, subs>>

\* MUTANT of SeedPlan: the upsert clears the trial.
SeedPlanNoTrial(p, i) ==
    /\ Goto(p, "seedingPlan", "seedingSub", [NoRequest EXCEPT !.plan = i])
    /\ Named(SeedName) = (IF i \in KnownPlans THEN {i} ELSE {})
    /\ plans' = [j \in KnownPlans \cup {i} |->
                   IF j = i THEN [name |-> SeedName, trial |-> None, active |-> TRUE]
                            ELSE plans[j]]
    /\ UNCHANGED <<now, subs, invoices, overtaken>>

\* plan.upsert by name: an existing plan is put back in force, without a trial.
SeedPlan(p, i) ==
    /\ Goto(p, "seedingPlan", "seedingSub", [NoRequest EXCEPT !.plan = i])
    /\ Named(SeedName) = (IF i \in KnownPlans THEN {i} ELSE {})
    /\ plans' = [j \in KnownPlans \cup {i} |->
                   IF j = i THEN [name |-> SeedName, trial |-> 0, active |-> TRUE]
                            ELSE plans[j]]
    /\ UNCHANGED <<now, subs, invoices, overtaken>>

\* subscription.upsert by tenant.
SeedSub(p, s) ==
    /\ End(p, "seedingSub")
    /\ SubsOf(SeedTenant) = (IF s \in KnownSubs THEN {s} ELSE {})
    /\ subs' = [q \in KnownSubs \cup {s} |->
                  IF q = s THEN NewSub([req[p] EXCEPT !.tenant = SeedTenant])
                           ELSE subs[q]]
    /\ UNCHANGED <<now, plans, invoices, overtaken>>

-----------------------------------------------------------------------------
\* The request ends where it is: a unique value taken meanwhile, or a crash.
Fail(p) ==
    /\ pc[p] # "idle"
    /\ End(p, pc[p])
    /\ overtaken' = overtaken \ {p}
    /\ UNCHANGED <<now, tables>>

Tick ==
    /\ now < MaxNow
    /\ now' = now + 1
    /\ UNCHANGED <<tables, pc, req, overtaken>>

Arrive(p) ==
    \/ \E n \in Names, d \in Trials : CreatePlan(p, n, d)
    \/ \E i \in KnownPlans, n \in Names \cup {None}, d \in Trials \cup {None} :
           UpdatePlan(p, i, n, d)
    \/ \E i \in KnownPlans : DeactivatePlan(p, i)
    \/ \E t \in Tenants, i \in KnownPlans, d \in {MaxNow, None} : Assign(p, t, i, d)
    \/ \E s \in KnownSubs, i \in KnownPlans : ChangePlan(p, s, i)
    \/ \E s \in KnownSubs : Cancel(p, s)
    \/ \E v \in Invoices, status \in InvoiceStatus : ReadInvoice(p, v, status)
    \/ Seed(p)

Proceed(p) ==
    \/ CheckName(p)
    \/ \E i \in Plans : InsertPlan(p, i)
    \/ StorePlan(p)
    \/ CheckSubscription(p)
    \/ \E s \in Subs : InsertSub(p, s)
    \/ StoreChange(p)
    \/ StoreCancel(p)
    \/ StoreInvoice(p)
    \/ \E i \in Plans : SeedPlan(p, i)
    \/ \E s \in Subs : SeedSub(p, s)

Next ==
    \/ \E p \in Procs : Arrive(p) \/ Proceed(p) \/ Fail(p)
    \/ Tick

Spec == Init /\ [][Next]_vars

-----------------------------------------------------------------------------
(* Properties.                                                             *)

\* The type invariant.
TypeOK ==
    /\ now \in Times
    /\ KnownPlans \subseteq Plans /\ \A i \in KnownPlans : plans[i] \in Plan
    /\ KnownSubs \subseteq Subs /\ \A s \in KnownSubs : subs[s] \in Sub
    /\ invoices \in [Invoices -> Invoice]
    /\ pc \in [Procs -> PC]
    /\ req \in [Procs -> Request]
    /\ overtaken \subseteq Procs

\* "Each tenant can have only one active subscription", and a plan is known by its
\* name: assign and the plan requests look first and write later, and the seed
\* upserts, whatever runs in between (subscriptions.service.ts:29, plans.service.ts:14).
KeysUnique ==
    /\ \A s, q \in KnownSubs : subs[s].tenant = subs[q].tenant => s = q
    /\ \A i, j \in KnownPlans : plans[i].name = plans[j].name => i = j

\* A subscription is canceled exactly when it has the date it was canceled on,
\* in any order of cancellations, plan changes and seeds of one subscription
\* (subscriptions.service.ts:100, 122); a trial has its end.
StatusExplained ==
    \A s \in KnownSubs :
        /\ subs[s].status = "CANCELED" <=> subs[s].canceled
        /\ subs[s].status = "TRIAL" => subs[s].until # None

\* An update that no other update of the invoice overtook keeps the date of an
\* earlier payment (invoices.service.ts:43); one that was overtaken may write back
\* the date it read before.
PaymentDateKept ==
    [][\A p \in Procs : pc[p] = "marking" /\ pc'[p] # pc[p] /\ p \notin overtaken =>
          \A v \in Invoices : invoices[v].paid => invoices'[v].paid]_vars

\* What a tenant's subscription comes to, for the ledger.
Terms(row) == [status |-> row.status, until |-> row.until]

\* The contracts of the tenants that have one in table T of subscriptions.
ContractsOf(T) ==
    [t \in {T[s].tenant : s \in DOMAIN T} |->
       Terms(T[CHOOSE s \in {q \in DOMAIN T : T[q].tenant = t} : TRUE])]

Contracts == ContractsOf(subs)

\* Subscriptions refine the ledger: one contract a tenant, a trial once and fixed.
Ledger == INSTANCE SubscriptionLedger WITH Dates <- Deadlines, contract <- Contracts

LedgerSpec == Ledger!Spec
=============================================================================
