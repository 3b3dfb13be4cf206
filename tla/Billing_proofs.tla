---------------------------- MODULE Billing_proofs ----------------------------
(***************************************************************************)
(* Theorems about Billing, for any number of plans, subscriptions,         *)
(* tenants, invoices, requests and ticks.                                  *)
(***************************************************************************)
EXTENDS Billing, TLAPS

-----------------------------------------------------------------------------
(* The inductive invariant.                                                *)

\* A row of table subscriptions whose dates explain its status.
SubOK(row) ==
    /\ row \in Sub
    /\ row.status = "CANCELED" <=> row.canceled
    /\ row.status = "TRIAL" => row.until # None

\* A table of subscriptions, unique by tenant.
SubsOK(T) ==
    /\ DOMAIN T \subseteq Subs
    /\ \A s \in DOMAIN T : SubOK(T[s])
    /\ \A s, q \in DOMAIN T : T[s].tenant = T[q].tenant => s = q

\* A table of plans, unique by name.
PlansOK(T) ==
    /\ DOMAIN T \subseteq Plans
    /\ \A i \in DOMAIN T : T[i] \in Plan
    /\ \A i, j \in DOMAIN T : T[i].name = T[j].name => i = j

\* Whoever read an invoice that was not written since has its payment date.
Fresh == \A p \in Procs : pc[p] = "marking" /\ p \notin overtaken =>
            (invoices[req[p].inv].paid => req[p].paid)

\* What a request at `at` knows, when the tables of plans and subscriptions are P and S.
LocalsOK(at, r, P, S) ==
    /\ at \in {"naming", "inserting"} => r.name \in Names
    /\ at = "naming" => IF r.plan = None THEN r.trial \in Trials \cup {0}
                                         ELSE r.plan \in DOMAIN P
    /\ at = "inserting" => r.trial \in Trials \cup {0}
    /\ at = "storing" => r.plan \in DOMAIN P
    /\ at = "checking" => r.trial \in Trials \cup {0}
    /\ at \in {"checking", "subscribing"} => r.tenant \in Tenants
    /\ at \in {"checking", "subscribing", "changing", "seedingSub"} => r.plan \in Plans
    /\ at \in {"changing", "canceling"} => r.sub \in DOMAIN S
    /\ at = "seedingSub" => r.until = None
    /\ at = "marking" => r.inv \in Invoices /\ r.status \in InvoiceStatus

Inv ==
    /\ now \in Times
    /\ PlansOK(plans)
    /\ SubsOK(subs)
    /\ invoices \in [Invoices -> Invoice]
    /\ pc \in [Procs -> PC]
    /\ req \in [Procs -> Request]
    /\ overtaken \subseteq Procs
    /\ \A p \in Procs : LocalsOK(pc[p], req[p], plans, subs)

\* Plans and subscriptions are never removed.
RowsPersist == KnownPlans \subseteq KnownPlans' /\ KnownSubs \subseteq KnownSubs'

-----------------------------------------------------------------------------
(* A step of one request.                                                  *)

LEMMA GotoMoves ==
    ASSUME Inv, NEW p \in Procs, NEW from, NEW to \in PC, NEW r \in Request,
           Goto(p, from, to, r)
    PROVE  /\ pc' \in [Procs -> PC]
           /\ req' \in [Procs -> Request]
           /\ pc[p] = from /\ pc'[p] = to /\ req'[p] = r
           /\ \A q \in Procs \ {p} : pc'[q] = pc[q] /\ req'[q] = req[q]
BY DEF Inv, Goto

LEMMA NoRequestOK ==
    /\ NoRequest \in Request
    /\ \A P, S : LocalsOK("idle", NoRequest, P, S)
<1>1. NoRequest \in Request
  BY DEF NoRequest, Request
<1>2. \A P, S : LocalsOK("idle", NoRequest, P, S)
  BY DEF LocalsOK
<1> QED BY <1>1, <1>2

\* What a request knows stays true while others write.
LEMMA LocalsKept ==
    ASSUME RowsPersist, NEW at, NEW r, LocalsOK(at, r, plans, subs)
    PROVE  LocalsOK(at, r, plans', subs')
BY DEF LocalsOK, RowsPersist, KnownPlans, KnownSubs

\* A step keeps the invariant when it keeps the tables in order and its own request's
\* locals are right.
LEMMA RequestStep ==
    ASSUME Inv, NEW p \in Procs, NEW from, NEW to \in PC, NEW r \in Request,
           Goto(p, from, to, r), now' = now, RowsPersist, PlansOK(plans'), SubsOK(subs'),
           invoices' \in [Invoices -> Invoice], overtaken' \subseteq Procs, LocalsOK(to, r, plans', subs')
    PROVE  Inv'
<1>1. ASSUME NEW q \in Procs PROVE LocalsOK(pc'[q], req'[q], plans', subs')
  <2>1. CASE q = p
    <3>1. pc'[q] = to /\ req'[q] = r
      BY <2>1, GotoMoves
    <3> QED BY <3>1
  <2>2. CASE q # p
    <3>1. LocalsOK(pc[q], req[q], plans', subs')
      BY LocalsKept DEF Inv
    <3>2. pc'[q] = pc[q] /\ req'[q] = req[q]
      BY <2>2, GotoMoves
    <3> QED BY <3>1, <3>2
  <2> QED BY <2>1, <2>2
<1>2. pc' \in [Procs -> PC] /\ req' \in [Procs -> Request]
  BY GotoMoves
<1>3. now' \in Times
  BY DEF Inv
<1> QED BY <1>1, <1>2, <1>3 DEF Inv

\* A step that leaves the tables alone.
LEMMA ReadStep ==
    ASSUME Inv, NEW p \in Procs, NEW from, NEW to \in PC, NEW r \in Request,
           Goto(p, from, to, r), now' = now, UNCHANGED tables, overtaken' \subseteq Procs,
           LocalsOK(to, r, plans, subs)
    PROVE  Inv'
<1>1. plans' = plans /\ subs' = subs /\ invoices' = invoices
  BY DEF tables
<1>2. RowsPersist
  BY <1>1 DEF RowsPersist, KnownPlans, KnownSubs
<1>3. PlansOK(plans') /\ SubsOK(subs') /\ LocalsOK(to, r, plans', subs')
  BY <1>1 DEF Inv
<1>4. invoices' \in [Invoices -> Invoice]
  BY <1>1 DEF Inv
<1> QED BY <1>2, <1>3, <1>4, RequestStep

\* A request that ends without a write.
LEMMA EndStep ==
    ASSUME Inv, NEW p \in Procs, NEW from, End(p, from), now' = now, UNCHANGED tables,
           overtaken' \subseteq Procs
    PROVE  Inv'
BY NoRequestOK, ReadStep DEF End, PC

\* A request that ends with a write.
LEMMA WriteStep ==
    ASSUME Inv, NEW p \in Procs, NEW from, End(p, from), now' = now, RowsPersist,
           PlansOK(plans'), SubsOK(subs'), invoices' \in [Invoices -> Invoice], overtaken' \subseteq Procs
    PROVE  Inv'
BY NoRequestOK, RequestStep DEF End, PC

LEMMA InitInv == Init => Inv
<1> SUFFICES ASSUME Init PROVE Inv
  OBVIOUS
<1>1. PlansOK(plans)
  <2>1. DOMAIN plans = FirstPlans /\ \A i \in FirstPlans : plans[i] \in Plan
    BY DEF Init, Plan
  <2> QED BY <2>1, BillingAssumption DEF Init, PlansOK
<1>2. SubsOK(subs)
  BY DEF Init, SubsOK
<1>3. invoices \in [Invoices -> Invoice]
  BY DEF Init, Invoice, InvoiceStatus
<1>4. \A p \in Procs : LocalsOK(pc[p], req[p], plans, subs)
  BY NoRequestOK DEF Init
<1>5. /\ pc \in [Procs -> PC] /\ req \in [Procs -> Request]
      /\ now \in Times /\ overtaken \subseteq Procs
  BY NoRequestOK, BillingAssumption DEF Init, PC, Times
<1> QED BY <1>1, <1>2, <1>3, <1>4, <1>5 DEF Inv

-----------------------------------------------------------------------------
(* Requests arrive.                                                        *)

LEMMA PlanRequests ==
    ASSUME Inv, NEW p \in Procs,
           \/ \E n \in Names, d \in Trials : CreatePlan(p, n, d)
           \/ \E i \in KnownPlans, n \in Names \cup {None}, d \in Trials \cup {None} :
                  UpdatePlan(p, i, n, d)
           \/ \E i \in KnownPlans : DeactivatePlan(p, i)
    PROVE  Inv'
<1>1. ASSUME NEW n \in Names, NEW d \in Trials, CreatePlan(p, n, d) PROVE Inv'
  <2> DEFINE r == [NoRequest EXCEPT !.name = n, !.trial = d]
  <2>1. r \in Request /\ r.name = n /\ r.trial = d /\ r.plan = None
    BY DEF NoRequest, Request
  <2>2. /\ Goto(p, "idle", "naming", r)
        /\ now' = now /\ UNCHANGED tables /\ overtaken' \subseteq Procs
    BY <1>1 DEF CreatePlan, Inv
  <2> HIDE DEF r
  <2>3. LocalsOK("naming", r, plans, subs)
    BY <2>1 DEF LocalsOK
  <2> QED BY <2>1, <2>2, <2>3, ReadStep DEF PC
<1>2. ASSUME NEW i \in KnownPlans, NEW n \in Names \cup {None}, NEW d \in Trials \cup {None},
             UpdatePlan(p, i, n, d)
      PROVE  Inv'
  <2> DEFINE r == [NoRequest EXCEPT !.plan = i, !.name = n, !.trial = d]
             to == IF n = None THEN "storing" ELSE "naming"
  <2>0. i \in Plans /\ i # None
    BY BillingAssumption DEF Inv, PlansOK, KnownPlans
  <2>1. r \in Request /\ r.plan = i /\ r.name = n
    BY <2>0 DEF NoRequest, Request
  <2>2. /\ Goto(p, "idle", to, r)
        /\ now' = now /\ UNCHANGED tables /\ overtaken' \subseteq Procs
    BY <1>2 DEF UpdatePlan, Inv
  <2> HIDE DEF r
  <2>3. LocalsOK(to, r, plans, subs)
    BY <2>0, <2>1 DEF LocalsOK, KnownPlans
  <2> QED BY <2>1, <2>2, <2>3, ReadStep DEF PC
<1>3. ASSUME NEW i \in KnownPlans, DeactivatePlan(p, i) PROVE Inv'
  <2> DEFINE r == [NoRequest EXCEPT !.plan = i, !.active = FALSE]
  <2>1. r \in Request /\ r.plan = i
    BY DEF NoRequest, Request, Inv, PlansOK, KnownPlans
  <2>2. /\ Goto(p, "idle", "storing", r)
        /\ now' = now /\ UNCHANGED tables /\ overtaken' \subseteq Procs
    BY <1>3 DEF DeactivatePlan, Inv
  <2> HIDE DEF r
  <2>3. LocalsOK("storing", r, plans, subs)
    BY <2>1 DEF LocalsOK, KnownPlans
  <2> QED BY <2>1, <2>2, <2>3, ReadStep DEF PC
<1> QED BY <1>1, <1>2, <1>3

LEMMA SubRequests ==
    ASSUME Inv, NEW p \in Procs,
           \/ \E t \in Tenants, i \in KnownPlans, d \in {MaxNow, None} : Assign(p, t, i, d)
           \/ \E s \in KnownSubs, i \in KnownPlans : ChangePlan(p, s, i)
           \/ \E s \in KnownSubs : Cancel(p, s)
    PROVE  Inv'
<1>1. ASSUME NEW t \in Tenants, NEW i \in KnownPlans, NEW d \in {MaxNow, None}, Assign(p, t, i, d)
      PROVE  Inv'
  <2> DEFINE r == [NoRequest EXCEPT !.tenant = t, !.plan = i, !.trial = plans[i].trial,
                                    !.until = d]
  <2>0. i \in Plans /\ plans[i].trial \in Trials \cup {0} /\ d \in Deadlines \cup {None}
    BY BillingAssumption DEF Inv, PlansOK, KnownPlans, Plan, Deadlines
  <2>1. r \in Request /\ r.tenant = t /\ r.plan = i /\ r.trial = plans[i].trial
    BY <2>0 DEF NoRequest, Request
  <2>2. /\ Goto(p, "idle", "checking", r)
        /\ now' = now /\ UNCHANGED tables /\ overtaken' \subseteq Procs
    BY <1>1 DEF Assign, Inv
  <2> HIDE DEF r
  <2>3. LocalsOK("checking", r, plans, subs)
    BY <2>0, <2>1 DEF LocalsOK
  <2> QED BY <2>1, <2>2, <2>3, ReadStep DEF PC
<1>2. ASSUME NEW s \in KnownSubs, NEW i \in KnownPlans, ChangePlan(p, s, i) PROVE Inv'
  <2> DEFINE r == [NoRequest EXCEPT !.sub = s, !.plan = i]
  <2>0. i \in Plans /\ s \in Subs
    BY DEF Inv, PlansOK, SubsOK, KnownPlans, KnownSubs
  <2>1. r \in Request /\ r.sub = s /\ r.plan = i
    BY <2>0 DEF NoRequest, Request
  <2>2. /\ Goto(p, "idle", "changing", r)
        /\ now' = now /\ UNCHANGED tables /\ overtaken' \subseteq Procs
    BY <1>2 DEF ChangePlan, Inv
  <2> HIDE DEF r
  <2>3. LocalsOK("changing", r, plans, subs)
    BY <2>0, <2>1 DEF LocalsOK, KnownSubs
  <2> QED BY <2>1, <2>2, <2>3, ReadStep DEF PC
<1>3. ASSUME NEW s \in KnownSubs, Cancel(p, s) PROVE Inv'
  <2> DEFINE r == [NoRequest EXCEPT !.sub = s]
  <2>1. r \in Request /\ r.sub = s
    BY DEF NoRequest, Request, Inv, SubsOK, KnownSubs
  <2>2. /\ Goto(p, "idle", "canceling", r)
        /\ now' = now /\ UNCHANGED tables /\ overtaken' \subseteq Procs
    BY <1>3 DEF Cancel, Inv
  <2> HIDE DEF r
  <2>3. LocalsOK("canceling", r, plans, subs)
    BY <2>1 DEF LocalsOK, KnownSubs
  <2> QED BY <2>1, <2>2, <2>3, ReadStep DEF PC
<1> QED BY <1>1, <1>2, <1>3

LEMMA OtherRequests ==
    ASSUME Inv, NEW p \in Procs,
           \/ \E v \in Invoices, status \in InvoiceStatus : ReadInvoice(p, v, status)
           \/ Seed(p)
    PROVE  Inv'
<1>1. ASSUME NEW v \in Invoices, NEW status \in InvoiceStatus, ReadInvoice(p, v, status)
      PROVE  Inv'
  <2> DEFINE r == [NoRequest EXCEPT !.inv = v, !.status = status, !.paid = PaymentDate(v, status)]
  <2>0. PaymentDate(v, status) \in BOOLEAN
    BY DEF PaymentDate, Inv, Invoice
  <2>1. r \in Request /\ r.inv = v /\ r.status = status
    BY <2>0 DEF NoRequest, Request
  <2>2. /\ Goto(p, "idle", "marking", r)
        /\ now' = now /\ UNCHANGED tables /\ overtaken' \subseteq Procs
    BY <1>1 DEF ReadInvoice, Inv
  <2> HIDE DEF r
  <2>3. LocalsOK("marking", r, plans, subs)
    BY <2>1 DEF LocalsOK
  <2> QED BY <2>1, <2>2, <2>3, ReadStep DEF PC
<1>2. CASE Seed(p)
  <2>1. LocalsOK("seedingPlan", NoRequest, plans, subs)
    BY DEF LocalsOK
  <2>2. /\ Goto(p, "idle", "seedingPlan", NoRequest)
        /\ now' = now /\ UNCHANGED tables /\ overtaken' \subseteq Procs
    BY <1>2 DEF Seed, Inv
  <2> QED BY <2>1, <2>2, NoRequestOK, ReadStep DEF PC
<1> QED BY <1>1, <1>2

-----------------------------------------------------------------------------
(* The look-ups.                                                           *)

\* What a request knows at the step it takes.
LEMMA Knows ==
    ASSUME Inv, NEW p \in Procs
    PROVE  LocalsOK(pc[p], req[p], plans, subs) /\ req[p] \in Request
BY DEF Inv

LEMMA CheckNameKeeps ==
    ASSUME Inv, NEW p \in Procs, CheckName(p) PROVE Inv'
<1> DEFINE r == req[p]
<1>1. now' = now /\ UNCHANGED tables /\ overtaken' \subseteq Procs
  BY DEF CheckName, Inv
<1>2. pc[p] = "naming"
  BY DEF CheckName, Goto, End
<1>3. LocalsOK("naming", r, plans, subs) /\ r \in Request
  BY <1>2, Knows
<1>4. CASE End(p, "naming")
  BY <1>1, <1>4, EndStep
<1>5. CASE Goto(p, "naming", IF r.plan = None THEN "inserting" ELSE "storing", r)
  <2>1. LocalsOK(IF r.plan = None THEN "inserting" ELSE "storing", r, plans, subs)
    BY <1>3 DEF LocalsOK
  <2> QED BY <1>1, <1>3, <1>5, <2>1, ReadStep DEF PC
<1> QED BY <1>4, <1>5 DEF CheckName

LEMMA TrialEndType ==
    ASSUME NEW r \in Request, r.trial \in Trials \cup {0}, now \in Times
    PROVE  TrialEnd(r) \in Deadlines \cup {None}
<1>1. r.trial \in 0..MaxNow /\ MaxNow \in Nat /\ now \in 0..MaxNow
  <2>1. MaxNow \in Nat /\ Trials \subseteq 0..MaxNow /\ now \in 0..MaxNow
    BY BillingAssumption DEF Times
  <2>2. 0 \in 0..MaxNow
    BY <2>1
  <2> QED BY <2>1, <2>2
<1>2. now + r.trial \in 0..(2 * MaxNow)
  BY <1>1
<1>3. r.until \in Deadlines \cup {None}
  BY DEF Request
<1> QED BY <1>2, <1>3 DEF TrialEnd, Deadlines

LEMMA CheckSubscriptionKeeps ==
    ASSUME Inv, NEW p \in Procs, CheckSubscription(p) PROVE Inv'
<1> DEFINE r == req[p]
<1>1. now' = now /\ UNCHANGED tables /\ overtaken' \subseteq Procs
  BY DEF CheckSubscription, Inv
<1>2. pc[p] = "checking"
  BY DEF CheckSubscription, Goto, End
<1>3. LocalsOK("checking", r, plans, subs) /\ r \in Request
  BY <1>2, Knows
<1>4. CASE End(p, "checking")
  BY <1>1, <1>4, EndStep
<1>5. CASE Goto(p, "checking", "subscribing", [r EXCEPT !.until = TrialEnd(r)])
  <2> DEFINE s == [r EXCEPT !.until = TrialEnd(r)]
  <2>1. TrialEnd(r) \in Deadlines \cup {None}
    BY <1>3, TrialEndType DEF LocalsOK, Inv
  <2>2. s \in Request /\ s.tenant = r.tenant /\ s.plan = r.plan
    BY <1>3, <2>1 DEF Request
  <2> HIDE DEF s
  <2>3. LocalsOK("subscribing", s, plans, subs)
    BY <1>3, <2>2 DEF LocalsOK
  <2> QED BY <1>1, <1>5, <2>2, <2>3, ReadStep DEF PC, s
<1> QED BY <1>4, <1>5 DEF CheckSubscription

-----------------------------------------------------------------------------
(* The writes.                                                             *)

\* A table of plans in which one row was added or replaced under its unique name.
LEMMA PlanWritten ==
    ASSUME NEW T, PlansOK(T), NEW U, NEW i \in Plans, NEW row \in Plan,
           DOMAIN U = DOMAIN T \cup {i}, U[i] = row,
           \A j \in DOMAIN T \ {i} : U[j] = T[j] /\ T[j].name # row.name
    PROVE  PlansOK(U)
BY DEF PlansOK

\* Likewise for subscriptions and their tenants.
LEMMA SubWritten ==
    ASSUME NEW T, SubsOK(T), NEW U, NEW s \in Subs, NEW row, SubOK(row),
           DOMAIN U = DOMAIN T \cup {s}, U[s] = row,
           \A q \in DOMAIN T \ {s} : U[q] = T[q] /\ T[q].tenant # row.tenant
    PROVE  SubsOK(U)
BY DEF SubsOK

LEMMA NewSubOK ==
    ASSUME NEW r, r.tenant \in Tenants, r.plan \in Plans, r.until \in Deadlines \cup {None}
    PROVE  /\ SubOK(NewSub(r)) /\ NewSub(r).tenant = r.tenant
           /\ NewSub(r).until = r.until
           /\ NewSub(r).status = IF r.until = None THEN "ACTIVE" ELSE "TRIAL"
BY DEF SubOK, NewSub, Sub

\* The row that StorePlan leaves.
LEMMA StoredRow ==
    ASSUME NEW r \in Request, NEW old \in Plan
    PROVE  LET row == [name   |-> Given(r.name, old.name),
                       trial  |-> Given(r.trial, old.trial),
                       active |-> old.active /\ r.active]
           IN  row \in Plan /\ (r.name # None => row.name = r.name)
                            /\ (r.name = None => row.name = old.name)
<1> DEFINE n == Given(r.name, old.name)
           d == Given(r.trial, old.trial)
           a == old.active /\ r.active
<1>1. n \in Names /\ d \in Trials \cup {0}
  BY DEF Given, Request, Plan
<1>2. a \in BOOLEAN
  OBVIOUS
<1>3. (r.name # None => n = r.name) /\ (r.name = None => n = old.name)
  BY DEF Given
<1> HIDE DEF n, d, a
<1>4. [name |-> n, trial |-> d, active |-> a] \in Plan
  BY <1>1, <1>2 DEF Plan
<1> QED BY <1>3, <1>4 DEF n, d, a

LEMMA InsertPlanKeeps ==
    ASSUME Inv, NEW p \in Procs, NEW i \in Plans, InsertPlan(p, i) PROVE Inv' /\ subs' = subs
<1> DEFINE r == req[p]
           row == [name |-> r.name, trial |-> r.trial, active |-> TRUE]
<1>1. pc[p] = "inserting" /\ End(p, "inserting")
  BY DEF InsertPlan, End, Goto
<1>2. LocalsOK("inserting", r, plans, subs)
  BY <1>1, Knows
<1>3. row \in Plan /\ row.name = r.name
  BY <1>2 DEF LocalsOK, Plan
<1>4. /\ DOMAIN plans' = DOMAIN plans \cup {i} /\ plans'[i] = row
      /\ \A j \in DOMAIN plans \ {i} : plans'[j] = plans[j] /\ plans[j].name # r.name
  BY DEF InsertPlan, KnownPlans, Named
<1>5. PlansOK(plans')
  <2> HIDE DEF row
  <2> QED BY <1>3, <1>4, PlanWritten DEF Inv
<1>6. /\ now' = now /\ RowsPersist /\ SubsOK(subs') /\ subs' = subs
      /\ invoices' \in [Invoices -> Invoice] /\ overtaken' \subseteq Procs
  BY <1>4 DEF InsertPlan, Inv, RowsPersist, KnownPlans, KnownSubs
<1> QED BY <1>1, <1>5, <1>6, WriteStep

LEMMA StorePlanKeeps ==
    ASSUME Inv, NEW p \in Procs, StorePlan(p) PROVE Inv' /\ subs' = subs
<1> DEFINE r == req[p]
           i == r.plan
           row == [name   |-> Given(r.name, plans[i].name),
                   trial  |-> Given(r.trial, plans[i].trial),
                   active |-> plans[i].active /\ r.active]
<1>1. pc[p] = "storing" /\ End(p, "storing")
  BY DEF StorePlan, End, Goto
<1>2. LocalsOK("storing", r, plans, subs) /\ r \in Request
  BY <1>1, Knows
<1>3. i \in DOMAIN plans /\ i \in Plans /\ plans[i] \in Plan
  BY <1>2 DEF LocalsOK, Inv, PlansOK
<1>4. /\ row \in Plan
      /\ (r.name # None => row.name = r.name)
      /\ (r.name = None => row.name = plans[i].name)
  BY <1>2, <1>3, StoredRow
<1>5. plans' = [plans EXCEPT ![i] = row]
  BY DEF StorePlan
<1> HIDE DEF row
<1>6. /\ DOMAIN plans' = DOMAIN plans \cup {i} /\ plans'[i] = row
      /\ \A j \in DOMAIN plans \ {i} : plans'[j] = plans[j]
  BY <1>3, <1>5
<1>7. \A j \in DOMAIN plans \ {i} : plans[j].name # row.name
  <2>1. CASE r.name = None
    BY <1>3, <1>4, <2>1 DEF Inv, PlansOK
  <2>2. CASE r.name # None
    <3>1. \A j \in DOMAIN plans \ {i} : plans[j].name # r.name
      BY DEF StorePlan, Named, KnownPlans
    <3> QED BY <1>4, <2>2, <3>1
  <2> QED BY <2>1, <2>2
<1>8. PlansOK(plans')
  BY <1>3, <1>4, <1>6, <1>7, PlanWritten DEF Inv
<1>9. /\ now' = now /\ RowsPersist /\ SubsOK(subs') /\ subs' = subs
      /\ invoices' \in [Invoices -> Invoice] /\ overtaken' \subseteq Procs
  BY <1>6 DEF StorePlan, Inv, RowsPersist, KnownPlans, KnownSubs
<1> QED BY <1>1, <1>8, <1>9, WriteStep

LEMMA SeedPlanKeeps ==
    ASSUME Inv, NEW p \in Procs, NEW i \in Plans, SeedPlan(p, i) PROVE Inv' /\ subs' = subs
<1> DEFINE r == [NoRequest EXCEPT !.plan = i]
           row == [name |-> SeedName, trial |-> 0, active |-> TRUE]
<1>1. Goto(p, "seedingPlan", "seedingSub", r)
  BY DEF SeedPlan
<1>2. r \in Request /\ r.plan = i /\ r.until = None
  BY DEF NoRequest, Request
<1>3. row \in Plan /\ row.name = SeedName
  BY BillingAssumption DEF Plan
<1>4. /\ DOMAIN plans' = DOMAIN plans \cup {i} /\ plans'[i] = row
      /\ \A j \in DOMAIN plans \ {i} : plans'[j] = plans[j] /\ plans[j].name # SeedName
  BY DEF SeedPlan, KnownPlans, Named
<1>5. PlansOK(plans')
  <2> HIDE DEF row
  <2> QED BY <1>3, <1>4, PlanWritten DEF Inv
<1>6. /\ now' = now /\ RowsPersist /\ SubsOK(subs') /\ subs' = subs
      /\ invoices' \in [Invoices -> Invoice] /\ overtaken' \subseteq Procs
  BY <1>4 DEF SeedPlan, Inv, RowsPersist, KnownPlans, KnownSubs
<1> HIDE DEF r
<1>7. LocalsOK("seedingSub", r, plans', subs')
  BY <1>2 DEF LocalsOK
<1> QED BY <1>1, <1>2, <1>5, <1>6, <1>7, RequestStep DEF PC

\* What the four writes of subscriptions do to the table.
Writes(s, row) ==
    /\ s \in Subs /\ SubOK(row)
    /\ KnownSubs' = KnownSubs \cup {s} /\ subs'[s] = row
    /\ \A q \in KnownSubs \ {s} : subs'[q] = subs[q] /\ subs[q].tenant # row.tenant

LEMMA WritesKeeps ==
    ASSUME Inv, NEW p \in Procs, NEW from, End(p, from), NEW s, NEW row, Writes(s, row),
           UNCHANGED <<now, plans, invoices>>, overtaken' \subseteq Procs
    PROVE  Inv'
<1>1. SubsOK(subs')
  <2>1. /\ s \in Subs /\ SubOK(row)
        /\ DOMAIN subs' = DOMAIN subs \cup {s} /\ subs'[s] = row
        /\ \A q \in DOMAIN subs \ {s} : subs'[q] = subs[q] /\ subs[q].tenant # row.tenant
    BY DEF Writes, KnownSubs
  <2> QED BY <2>1, SubWritten DEF Inv
<1>2. /\ now' = now /\ RowsPersist /\ PlansOK(plans')
      /\ invoices' \in [Invoices -> Invoice]
  BY DEF Writes, Inv, RowsPersist, KnownPlans, KnownSubs
<1> QED BY <1>1, <1>2, WriteStep

LEMMA InsertSubWrites ==
    ASSUME Inv, NEW p \in Procs, NEW s \in Subs, InsertSub(p, s)
    PROVE  /\ Writes(s, NewSub(req[p])) /\ s \notin KnownSubs
           /\ req[p].tenant \in Tenants /\ req[p].until \in Deadlines \cup {None}
           /\ SubsOf(req[p].tenant) = {}
<1>1. pc[p] = "subscribing"
  BY DEF InsertSub, End, Goto
<1>2. LocalsOK("subscribing", req[p], plans, subs) /\ req[p].until \in Deadlines \cup {None}
  BY <1>1, Knows DEF Request
<1>3. SubOK(NewSub(req[p])) /\ NewSub(req[p]).tenant = req[p].tenant
  BY <1>2, NewSubOK DEF LocalsOK
<1>4. /\ KnownSubs' = KnownSubs \cup {s} /\ s \notin KnownSubs
      /\ subs'[s] = NewSub(req[p])
      /\ \A q \in KnownSubs \ {s} : subs'[q] = subs[q] /\ subs[q].tenant # req[p].tenant
  BY DEF InsertSub, KnownSubs, SubsOf
<1> QED BY <1>2, <1>3, <1>4 DEF Writes, InsertSub, LocalsOK

LEMMA SeedSubWrites ==
    ASSUME Inv, NEW p \in Procs, NEW s \in Subs, SeedSub(p, s)
    PROVE  \E row : /\ Writes(s, row) /\ row.tenant = SeedTenant
                    /\ row.status = "ACTIVE" /\ row.until = None
<1> DEFINE r == [req[p] EXCEPT !.tenant = SeedTenant]
<1>1. pc[p] = "seedingSub"
  BY DEF SeedSub, End, Goto
<1>2. LocalsOK("seedingSub", req[p], plans, subs) /\ req[p] \in Request
  BY <1>1, Knows
<1>3. r.tenant = SeedTenant /\ r.plan \in Plans /\ r.until = None
  BY <1>2 DEF LocalsOK, Request
<1>4. /\ KnownSubs' = KnownSubs \cup {s}
      /\ subs'[s] = NewSub(r)
      /\ \A q \in KnownSubs \ {s} : subs'[q] = subs[q] /\ subs[q].tenant # SeedTenant
  BY DEF SeedSub, KnownSubs, SubsOf
<1> HIDE DEF r
<1>5. /\ SubOK(NewSub(r)) /\ NewSub(r).tenant = SeedTenant
      /\ NewSub(r).status = "ACTIVE" /\ NewSub(r).until = None
  BY <1>3, NewSubOK, BillingAssumption
<1> QED BY <1>4, <1>5 DEF Writes

\* changePlan and cancel leave the tenant and the end of the trial as they were.
LEMMA StoreChangeWrites ==
    ASSUME Inv, NEW p \in Procs, StoreChange(p)
    PROVE  LET s == req[p].sub IN
           \E row : /\ Writes(s, row) /\ s \in KnownSubs
                    /\ row.tenant = subs[s].tenant /\ row.until = subs[s].until
                    /\ row.status = "ACTIVE"
<1> DEFINE s == req[p].sub
           row == [subs[s] EXCEPT !.plan = req[p].plan, !.status = "ACTIVE", !.canceled = FALSE]
<1>1. pc[p] = "changing"
  BY DEF StoreChange, End, Goto
<1>2. LocalsOK("changing", req[p], plans, subs)
  BY <1>1, Knows
<1>3. s \in KnownSubs /\ s \in Subs /\ subs[s] \in Sub /\ req[p].plan \in Plans
  BY <1>2 DEF LocalsOK, Inv, SubsOK, SubOK, KnownSubs
<1>4. row.canceled = FALSE
  BY <1>3 DEF Sub
<1>5. /\ row \in Sub /\ row.tenant = subs[s].tenant /\ row.until = subs[s].until
      /\ row.status = "ACTIVE"
  BY <1>3 DEF Sub
<1>6. subs' = [subs EXCEPT ![s] = row]
  BY DEF StoreChange
<1> HIDE DEF row
<1>7. KnownSubs' = KnownSubs \cup {s} /\ subs'[s] = row /\ \A q \in KnownSubs \ {s} : subs'[q] = subs[q]
  BY <1>3, <1>6 DEF KnownSubs
<1>8. \A q \in KnownSubs \ {s} : subs[q].tenant # row.tenant
  BY <1>3, <1>5 DEF Inv, SubsOK, KnownSubs
<1>9. SubOK(row)
  BY <1>4, <1>5 DEF SubOK
<1> QED BY <1>3, <1>5, <1>7, <1>8, <1>9 DEF Writes

LEMMA StoreCancelWrites ==
    ASSUME Inv, NEW p \in Procs, StoreCancel(p)
    PROVE  LET s == req[p].sub IN
           \E row : /\ Writes(s, row) /\ s \in KnownSubs
                    /\ row.tenant = subs[s].tenant /\ row.until = subs[s].until
                    /\ row.status = "CANCELED"
<1> DEFINE s == req[p].sub
           row == [subs[s] EXCEPT !.status = "CANCELED", !.canceled = TRUE]
<1>1. pc[p] = "canceling"
  BY DEF StoreCancel, End, Goto
<1>2. LocalsOK("canceling", req[p], plans, subs)
  BY <1>1, Knows
<1>3. s \in KnownSubs /\ s \in Subs /\ subs[s] \in Sub
  BY <1>2 DEF LocalsOK, Inv, SubsOK, SubOK, KnownSubs
<1>4. row.canceled = TRUE
  BY <1>3 DEF Sub
<1>5. /\ row \in Sub /\ row.tenant = subs[s].tenant /\ row.until = subs[s].until
      /\ row.status = "CANCELED"
  BY <1>3 DEF Sub
<1>6. subs' = [subs EXCEPT ![s] = row]
  BY DEF StoreCancel
<1> HIDE DEF row
<1>7. KnownSubs' = KnownSubs \cup {s} /\ subs'[s] = row /\ \A q \in KnownSubs \ {s} : subs'[q] = subs[q]
  BY <1>3, <1>6 DEF KnownSubs
<1>8. \A q \in KnownSubs \ {s} : subs[q].tenant # row.tenant
  BY <1>3, <1>5 DEF Inv, SubsOK, KnownSubs
<1>9. SubOK(row)
  BY <1>4, <1>5 DEF SubOK
<1> QED BY <1>3, <1>5, <1>7, <1>8, <1>9 DEF Writes

LEMMA SubWritesKeep ==
    ASSUME Inv, NEW p \in Procs,
           \/ \E s \in Subs : InsertSub(p, s) \/ SeedSub(p, s)
           \/ StoreChange(p) \/ StoreCancel(p)
    PROVE  Inv'
<1>1. UNCHANGED <<now, plans, invoices>> /\ overtaken' \subseteq Procs
  BY DEF InsertSub, SeedSub, StoreChange, StoreCancel, Inv
<1>2. \E from : End(p, from)
  BY DEF InsertSub, SeedSub, StoreChange, StoreCancel
<1>3. \E s, row : Writes(s, row)
  BY InsertSubWrites, SeedSubWrites, StoreChangeWrites, StoreCancelWrites
<1> QED BY <1>1, <1>2, <1>3, WritesKeeps

LEMMA StoreInvoiceKeeps ==
    ASSUME Inv, NEW p \in Procs, StoreInvoice(p) PROVE Inv' /\ subs' = subs
<1> DEFINE r == req[p]
           row == [status |-> r.status, paid |-> r.paid]
<1>1. pc[p] = "marking" /\ End(p, "marking")
  BY DEF StoreInvoice, End, Goto
<1>2. LocalsOK("marking", r, plans, subs) /\ r \in Request
  BY <1>1, Knows
<1>3. row \in Invoice
  <2>1. r.status \in InvoiceStatus
    BY <1>2 DEF LocalsOK
  <2>2. r.paid \in BOOLEAN
    BY <1>2 DEF Request
  <2> QED BY <2>1, <2>2 DEF Invoice
<1>4. invoices' = [invoices EXCEPT ![r.inv] = row]
  BY DEF StoreInvoice
<1> HIDE DEF row
<1>5. invoices' \in [Invoices -> Invoice]
  BY <1>3, <1>4 DEF Inv
<1>6. /\ now' = now /\ plans' = plans /\ subs' = subs /\ overtaken' \subseteq Procs
      /\ RowsPersist /\ PlansOK(plans') /\ SubsOK(subs')
  BY DEF StoreInvoice, Readers, Inv, RowsPersist, KnownPlans, KnownSubs
<1> QED BY <1>1, <1>5, <1>6, WriteStep

LEMMA NextInv == Inv /\ [Next]_vars => Inv'
<1> SUFFICES ASSUME Inv, [Next]_vars PROVE Inv'
  OBVIOUS
<1>1. CASE UNCHANGED <<tables, pc, req>> /\ now' \in Times /\ overtaken' = overtaken
  BY <1>1 DEF tables, Inv
<1>2. CASE UNCHANGED vars
  BY <1>1, <1>2 DEF vars, Inv
<1>3. CASE Tick
  BY <1>1, <1>3, BillingAssumption DEF Tick, Inv, Times
<1>4. ASSUME NEW p \in Procs, Fail(p) PROVE Inv'
  <2>1. End(p, pc[p]) /\ now' = now /\ UNCHANGED tables /\ overtaken' \subseteq Procs
    BY <1>4 DEF Fail, Inv
  <2> QED BY <2>1, EndStep
<1>5. ASSUME NEW p \in Procs, Proceed(p) PROVE Inv'
  BY <1>5, CheckNameKeeps, InsertPlanKeeps, StorePlanKeeps, CheckSubscriptionKeeps,
     SubWritesKeep, StoreInvoiceKeeps, SeedPlanKeeps DEF Proceed
<1>6. ASSUME NEW p \in Procs, Arrive(p) PROVE Inv'
  BY <1>6, PlanRequests, SubRequests, OtherRequests DEF Arrive
<1> QED BY <1>2, <1>3, <1>4, <1>5, <1>6 DEF Next

LEMMA Invariance == Spec => []Inv
BY InitInv, NextInv, PTL DEF Spec

\* Type correctness, whatever requests, seeds and failures interleave.
THEOREM TypeCorrect == Spec => []TypeOK
<1>1. Inv => TypeOK
  BY DEF Inv, TypeOK, PlansOK, SubsOK, SubOK, KnownPlans, KnownSubs
<1> QED BY <1>1, Invariance, PTL

\* One subscription a tenant and one plan a name, although both are looked up first
\* and written later.
THEOREM KeysTheorem == Spec => []KeysUnique
<1>1. Inv => KeysUnique
  BY DEF Inv, KeysUnique, PlansOK, SubsOK, KnownPlans, KnownSubs
<1> QED BY <1>1, Invariance, PTL

\* The date of a cancellation and the status always agree.
THEOREM StatusTheorem == Spec => []StatusExplained
<1>1. Inv => StatusExplained
  BY DEF Inv, StatusExplained, SubsOK, SubOK, KnownSubs
<1> QED BY <1>1, Invariance, PTL

-----------------------------------------------------------------------------
(* The date of a payment.                                                  *)

\* A step that leaves the invoices alone and forgets no overtaken request but its own.
LEMMA QuietStep ==
    ASSUME Inv, Fresh, NEW p \in Procs, NEW from, NEW to, NEW r, Goto(p, from, to, r),
           invoices' = invoices, overtaken \ {p} \subseteq overtaken',
           pc'[p] = "marking" => (invoices[r.inv].paid => r.paid)
    PROVE  Fresh'
<1>1. /\ pc'[p] = to /\ req'[p] = r
      /\ \A q \in Procs \ {p} : pc'[q] = pc[q] /\ req'[q] = req[q]
  BY DEF Inv, Goto
<1>2. ASSUME NEW q \in Procs, pc'[q] = "marking", q \notin overtaken', invoices'[req'[q].inv].paid
      PROVE  req'[q].paid
  BY <1>1, <1>2 DEF Fresh
<1> QED BY <1>2 DEF Fresh

LEMMA StoreInvoiceFresh ==
    ASSUME Inv, Fresh, NEW p \in Procs, StoreInvoice(p)
    PROVE  /\ Fresh'
           /\ p \notin overtaken => \A v \in Invoices : invoices[v].paid => invoices'[v].paid
<1> DEFINE r == req[p]
           row == [status |-> r.status, paid |-> r.paid]
<1>1. /\ pc[p] = "marking" /\ pc'[p] = "idle"
      /\ \A q \in Procs \ {p} : pc'[q] = pc[q] /\ req'[q] = req[q]
  BY DEF StoreInvoice, End, Goto, Inv
<1>2. row.paid = r.paid
  OBVIOUS
<1>3. invoices' = [invoices EXCEPT ![r.inv] = row]
  BY DEF StoreInvoice
<1> HIDE DEF row
<1>4. \A v \in Invoices : invoices'[v] = IF v = r.inv THEN row ELSE invoices[v]
  BY <1>3 DEF Inv
<1>5. ASSUME NEW q \in Procs \ {p}, pc[q] = "marking", q \notin overtaken'
      PROVE  q \notin overtaken /\ req[q].inv \in Invoices /\ req[q].inv # r.inv
  BY <1>5 DEF StoreInvoice, Readers, Inv, LocalsOK
<1>6. Fresh'
  BY <1>1, <1>4, <1>5 DEF Fresh
<1>7. ASSUME p \notin overtaken, NEW v \in Invoices, invoices[v].paid
      PROVE  invoices'[v].paid
  <2>1. v = r.inv => r.paid
    BY <1>1, <1>7 DEF Fresh
  <2> QED BY <1>2, <1>4, <1>7, <2>1
<1> QED BY <1>6, <1>7

\* Every step of a request but the write of an invoice, which it starts by reading.
LEMMA QuietSteps ==
    ASSUME Inv, Fresh, NEW p \in Procs, Arrive(p) \/ Proceed(p) \/ Fail(p), ~StoreInvoice(p)
    PROVE  Fresh' /\ invoices' = invoices
<1>1. CASE Arrive(p) /\ ~\E v \in Invoices, status \in InvoiceStatus : ReadInvoice(p, v, status)
  <2>1. invoices' = invoices /\ overtaken' = overtaken
    BY <1>1 DEF Arrive, CreatePlan, UpdatePlan, DeactivatePlan, Assign, ChangePlan, Cancel, Seed,
       tables
  <2>2. (\E from, to, r : Goto(p, from, to, r)) /\ pc'[p] # "marking"
    <3>1. \E from, to, r : Goto(p, from, to, r)
      BY <1>1 DEF Arrive, CreatePlan, UpdatePlan, DeactivatePlan, Assign, ChangePlan, Cancel, Seed
    <3>2. pc'[p] # "marking"
      BY <1>1 DEF Arrive, CreatePlan, UpdatePlan, DeactivatePlan, Assign, ChangePlan, Cancel, Seed,
         Goto, Inv
    <3> QED BY <3>1, <3>2
  <2> QED BY <2>1, <2>2, QuietStep
<1>2. ASSUME NEW v \in Invoices, NEW status \in InvoiceStatus, ReadInvoice(p, v, status)
      PROVE  Fresh' /\ invoices' = invoices
  <2> DEFINE r == [NoRequest EXCEPT !.inv = v, !.status = status, !.paid = PaymentDate(v, status)]
  <2>1. r.inv = v
    BY DEF NoRequest
  <2>2. invoices[v].paid => r.paid
    BY DEF NoRequest, PaymentDate
  <2>3. Goto(p, "idle", "marking", r) /\ invoices' = invoices /\ overtaken' = overtaken
    BY <1>2 DEF ReadInvoice, tables
  <2> HIDE DEF r
  <2> QED BY <2>1, <2>2, <2>3, QuietStep
<1>3. CASE Proceed(p)
  <2>1. invoices' = invoices /\ overtaken' = overtaken
    BY <1>3 DEF Proceed, CheckName, InsertPlan, StorePlan, CheckSubscription, InsertSub,
       StoreChange, StoreCancel, SeedPlan, SeedSub, tables
  <2>2. (\E from, to, r : Goto(p, from, to, r)) /\ pc'[p] # "marking"
    <3>1. \E from, to, r : Goto(p, from, to, r)
      BY <1>3 DEF Proceed, CheckName, InsertPlan, StorePlan, CheckSubscription, InsertSub,
         StoreChange, StoreCancel, SeedPlan, SeedSub, End
    <3>2. pc'[p] # "marking"
      BY <1>3 DEF Proceed, CheckName, InsertPlan, StorePlan, CheckSubscription, InsertSub,
         StoreChange, StoreCancel, SeedPlan, SeedSub, End, Goto, Inv
    <3> QED BY <3>1, <3>2
  <2> QED BY <2>1, <2>2, QuietStep
<1>4. CASE Fail(p)
  <2>1. Goto(p, pc[p], "idle", NoRequest) /\ invoices' = invoices
        /\ overtaken \ {p} \subseteq overtaken'
    BY <1>4 DEF Fail, End, tables
  <2>2. pc'[p] # "marking"
    BY <2>1 DEF Goto, Inv
  <2> QED BY <2>1, <2>2, QuietStep
<1> QED BY <1>1, <1>2, <1>3, <1>4

\* Only the request that takes a step moves.
LEMMA OneMoves ==
    ASSUME Inv, NEW p \in Procs, Arrive(p) \/ Proceed(p) \/ Fail(p)
    PROVE  \A q \in Procs \ {p} : pc'[q] = pc[q]
<1>1. \E from, to, r : Goto(p, from, to, r)
  BY DEF Arrive, CreatePlan, UpdatePlan, DeactivatePlan, Assign, ChangePlan, Cancel, Seed,
     ReadInvoice, Proceed, CheckName, InsertPlan, StorePlan, CheckSubscription, InsertSub,
     StoreChange, StoreCancel, StoreInvoice, SeedPlan, SeedSub, Fail, End
<1> QED BY <1>1 DEF Goto, Inv

LEMMA NextFresh ==
    ASSUME Inv, Fresh, [Next]_vars
    PROVE  /\ Fresh'
           /\ \A p \in Procs : pc[p] = "marking" /\ pc'[p] # pc[p] /\ p \notin overtaken =>
                 \A v \in Invoices : invoices[v].paid => invoices'[v].paid
<1>1. CASE UNCHANGED <<invoices, pc, req, overtaken>>
  BY <1>1 DEF Fresh
<1>2. CASE Tick \/ UNCHANGED vars
  BY <1>1, <1>2 DEF Tick, vars, tables
<1>3. ASSUME NEW p \in Procs, Arrive(p) \/ Proceed(p) \/ Fail(p), ~StoreInvoice(p)
      PROVE  Fresh' /\ invoices' = invoices
  BY <1>3, QuietSteps
<1>4. ASSUME NEW p \in Procs, StoreInvoice(p)
      PROVE  /\ Fresh'
             /\ \A q \in Procs : pc[q] = "marking" /\ pc'[q] # pc[q] /\ q \notin overtaken =>
                   \A v \in Invoices : invoices[v].paid => invoices'[v].paid
  BY <1>4, OneMoves, StoreInvoiceFresh DEF Proceed
<1> QED BY <1>2, <1>3, <1>4 DEF Next

\* However updates of an invoice interleave, the ones that nobody overtook keep the
\* date of a payment.
THEOREM PaymentTheorem == Spec => PaymentDateKept
<1>1. Init => Fresh
  BY DEF Init, Fresh
<1>2. Inv /\ Fresh /\ [Next]_vars => Fresh'
  BY NextFresh
<1>3. Inv /\ Fresh /\ [Next]_vars =>
         [\A p \in Procs : pc[p] = "marking" /\ pc'[p] # pc[p] /\ p \notin overtaken =>
             \A v \in Invoices : invoices[v].paid => invoices'[v].paid]_vars
  BY NextFresh
<1> QED BY <1>1, <1>2, <1>3, Invariance, PTL DEF Spec, PaymentDateKept

OneAtATime == \A p, q \in Procs : p = q

\* The date of a payment is never lost.
NeverLost == [][\A v \in Invoices : invoices[v].paid => invoices'[v].paid]_vars

\* Nobody is overtaken who is alone.
LEMMA NextNotOvertaken ==
    ASSUME Inv, OneAtATime, overtaken = {}, [Next]_vars
    PROVE  overtaken' = {}
<1>1. ASSUME NEW p \in Procs, StoreInvoice(p) PROVE overtaken' = {}
  <2>1. \A q \in Procs : q = p
    BY DEF OneAtATime
  <2> QED BY <1>1, <2>1 DEF StoreInvoice, Readers
<1>2. ASSUME NEW p \in Procs, Arrive(p) PROVE overtaken' = {}
  BY <1>2 DEF Arrive, CreatePlan, UpdatePlan, DeactivatePlan, Assign, ChangePlan, Cancel, Seed,
     ReadInvoice
<1>3. ASSUME NEW p \in Procs, Proceed(p), ~StoreInvoice(p) PROVE overtaken' = {}
  BY <1>3 DEF Proceed, CheckName, InsertPlan, StorePlan, CheckSubscription, InsertSub,
     StoreChange, StoreCancel, SeedPlan, SeedSub
<1>4. ASSUME NEW p \in Procs, Fail(p) PROVE overtaken' = {}
  BY <1>4 DEF Fail
<1> QED BY <1>1, <1>2, <1>3, <1>4 DEF Next, Tick, vars

LEMMA NextNeverLost ==
    ASSUME Inv, Fresh, overtaken = {}, [Next]_vars, NEW v \in Invoices, invoices[v].paid
    PROVE  invoices'[v].paid
<1>1. ASSUME NEW p \in Procs, StoreInvoice(p) PROVE invoices'[v].paid
  BY <1>1, StoreInvoiceFresh
<1>2. ASSUME NEW p \in Procs, Arrive(p) \/ Proceed(p) \/ Fail(p), ~StoreInvoice(p)
      PROVE  invoices'[v].paid
  BY <1>2, QuietSteps
<1>3. CASE Tick \/ UNCHANGED vars
  BY <1>3 DEF Tick, vars, tables
<1> QED BY <1>1, <1>2, <1>3 DEF Next

\* Updates that do not overlap keep the date of a payment (invoices.service.ts:43): it
\* is the overlap alone that can lose it.
THEOREM SerialPayments == ASSUME OneAtATime PROVE Spec => NeverLost
<1>1. Init => Fresh /\ overtaken = {}
  BY DEF Init, Fresh
<1>2. Inv /\ Fresh /\ overtaken = {} /\ [Next]_vars => Fresh' /\ (overtaken = {})'
  BY NextFresh, NextNotOvertaken
<1>3. Inv /\ Fresh /\ overtaken = {} /\ [Next]_vars =>
         [\A v \in Invoices : invoices[v].paid => invoices'[v].paid]_vars
  BY NextNeverLost
<1> QED BY <1>1, <1>2, <1>3, Invariance, PTL DEF Spec, NeverLost

-----------------------------------------------------------------------------
(* The ledger.                                                             *)

\* The tenants of a table of subscriptions, and their contracts.
Holders(T) == {T[s].tenant : s \in DOMAIN T}

LEMMA ContractIs ==
    ASSUME NEW T, SubsOK(T), NEW s \in DOMAIN T
    PROVE  ContractsOf(T)[T[s].tenant] = Terms(T[s])
<1> DEFINE t == T[s].tenant
           S == {q \in DOMAIN T : T[q].tenant = t}
<1>1. S = {s}
  BY DEF SubsOK
<1>2. (CHOOSE q \in S : TRUE) = s
  BY <1>1
<1>3. t \in {T[q].tenant : q \in DOMAIN T}
  OBVIOUS
<1> QED BY <1>2, <1>3 DEF ContractsOf

\* A write of one subscription changes its tenant's contract and no other.
LEMMA WriteContract ==
    ASSUME SubsOK(subs), NEW s, NEW row, Writes(s, row), SubsOK(subs'),
           s \in KnownSubs => row.tenant = subs[s].tenant
    PROVE  LET t == row.tenant IN
           /\ t \in Tenants
           /\ s \in KnownSubs <=> t \in DOMAIN Contracts
           /\ Ledger!SetContract(t, Terms(row))
<1> DEFINE t == row.tenant
<1>1. /\ DOMAIN subs' = DOMAIN subs \cup {s} /\ subs'[s] = row
      /\ \A q \in DOMAIN subs \ {s} : subs'[q] = subs[q] /\ subs[q].tenant # t
      /\ s \in DOMAIN subs => t = subs[s].tenant
  BY DEF Writes, KnownSubs
<1>2. t \in Tenants
  BY DEF Writes, SubOK, Sub
<1>3. ContractsOf(subs')[t] = Terms(row)
  BY <1>1, ContractIs
<1>4. /\ DOMAIN ContractsOf(subs) = Holders(subs)
      /\ DOMAIN ContractsOf(subs') = Holders(subs')
  BY DEF ContractsOf, Holders
<1>5. s \in DOMAIN subs <=> t \in Holders(subs)
  BY <1>1 DEF Holders
<1>6. Holders(subs') = Holders(subs) \cup {t}
  <2>1. \A q \in DOMAIN subs : subs'[q].tenant = subs[q].tenant
    BY <1>1
  <2> QED BY <1>1, <2>1 DEF Holders
<1>7. ASSUME NEW u \in Holders(subs), u # t PROVE ContractsOf(subs')[u] = ContractsOf(subs)[u]
  <2>1. PICK q \in DOMAIN subs : subs[q].tenant = u
    BY DEF Holders
  <2>2. q \in DOMAIN subs' /\ subs'[q] = subs[q]
    BY <1>1, <1>7, <2>1
  <2>3. ContractsOf(subs)[u] = Terms(subs[q])
    BY <2>1, ContractIs
  <2>4. ContractsOf(subs')[u] = Terms(subs'[q])
    BY <2>1, <2>2, ContractIs
  <2> QED BY <2>2, <2>3, <2>4
<1>8. ContractsOf(subs') = [u \in Holders(subs) \cup {t} |->
                              IF u = t THEN Terms(row) ELSE ContractsOf(subs)[u]]
  <2>1. ContractsOf(subs') = [u \in Holders(subs') |-> ContractsOf(subs')[u]]
    BY DEF ContractsOf, Holders
  <2> QED BY <1>3, <1>6, <1>7, <2>1
<1> HIDE DEF t
<1>9. Ledger!SetContract(t, Terms(row))
  BY <1>4, <1>8 DEF Ledger!SetContract, Contracts
<1> QED BY <1>2, <1>4, <1>5, <1>9 DEF Contracts, KnownSubs, t

\* The write of each service is the ledger's action.
LEMMA InsertSubOpens ==
    ASSUME Inv, SubsOK(subs'), NEW p \in Procs, NEW s \in Subs, InsertSub(p, s)
    PROVE  Ledger!Next
<1> DEFINE t == req[p].tenant
           d == req[p].until
           row == NewSub(req[p])
           c == [status |-> IF d = None THEN "ACTIVE" ELSE "TRIAL", until |-> d]
<1>1. Writes(s, row) /\ s \notin KnownSubs /\ t \in Tenants /\ d \in Deadlines \cup {None}
  BY InsertSubWrites
<1>2. row.tenant = t /\ Terms(row) = c
  BY DEF NewSub, Terms
<1> HIDE DEF row, c
<1>3. t \notin DOMAIN Contracts /\ Ledger!SetContract(t, c)
  BY <1>1, <1>2, WriteContract DEF Inv
<1>4. Ledger!OpenContract(t, d)
  BY <1>3 DEF Ledger!OpenContract, c
<1> QED BY <1>1, <1>4 DEF Ledger!Next

LEMMA SeedSubSetsUp ==
    ASSUME Inv, SubsOK(subs'), NEW p \in Procs, NEW s \in Subs, SeedSub(p, s)
    PROVE  Ledger!Next
<1>1. PICK row : Writes(s, row) /\ row.tenant = SeedTenant /\ row.status = "ACTIVE" /\ row.until = None
  BY SeedSubWrites
<1>2. s \in KnownSubs => subs[s].tenant = SeedTenant
  BY DEF SeedSub, SubsOf
<1>3. Ledger!SetContract(SeedTenant, Terms(row))
  BY <1>1, <1>2, WriteContract DEF Inv
<1>4. Terms(row) = [status |-> "ACTIVE", until |-> None]
  BY <1>1 DEF Terms
<1>5. Ledger!SetUp
  BY <1>3, <1>4 DEF Ledger!SetUp
<1> QED BY <1>5 DEF Ledger!Next

\* A write that keeps the tenant and the end of the trial of a subscription.
LEMMA StatusSet ==
    ASSUME Inv, SubsOK(subs'), NEW s \in KnownSubs, NEW row, Writes(s, row),
           row.tenant = subs[s].tenant, row.until = subs[s].until
    PROVE  LET t == row.tenant
               c == [status |-> row.status, until |-> Contracts[t].until]
           IN  t \in Tenants /\ t \in DOMAIN Contracts /\ Ledger!SetContract(t, c)
<1> DEFINE t == row.tenant
<1>1. t \in Tenants /\ t \in DOMAIN Contracts /\ Ledger!SetContract(t, Terms(row))
  BY WriteContract DEF Inv
<1>2. Contracts[t] = Terms(subs[s])
  BY ContractIs DEF Contracts, Inv, KnownSubs
<1>3. Contracts[t].until = row.until
  BY <1>2 DEF Terms
<1>4. Terms(row) = [status |-> row.status, until |-> Contracts[t].until]
  BY <1>3 DEF Terms
<1> QED BY <1>1, <1>4

LEMMA StatusWritesRefine ==
    ASSUME Inv, SubsOK(subs'), NEW p \in Procs, StoreChange(p) \/ StoreCancel(p)
    PROVE  Ledger!Next
<1> DEFINE s == req[p].sub
<1>1. CASE StoreChange(p)
  <2>1. PICK row : /\ Writes(s, row) /\ s \in KnownSubs
                   /\ row.tenant = subs[s].tenant /\ row.until = subs[s].until
                   /\ row.status = "ACTIVE"
    BY <1>1, StoreChangeWrites
  <2>2. Ledger!Activate(row.tenant) /\ row.tenant \in Tenants
    BY <2>1, StatusSet DEF Ledger!Activate
  <2> QED BY <2>2 DEF Ledger!Next
<1>2. CASE StoreCancel(p)
  <2>1. PICK row : /\ Writes(s, row) /\ s \in KnownSubs
                   /\ row.tenant = subs[s].tenant /\ row.until = subs[s].until
                   /\ row.status = "CANCELED"
    BY <1>2, StoreCancelWrites
  <2>2. Ledger!CancelContract(row.tenant) /\ row.tenant \in Tenants
    BY <2>1, StatusSet DEF Ledger!CancelContract
  <2> QED BY <2>2 DEF Ledger!Next
<1> QED BY <1>1, <1>2

LEMMA NextRefines ==
    ASSUME Inv, Inv', [Next]_vars
    PROVE  [Ledger!Next]_Contracts
<1>0. SubsOK(subs')
  BY DEF Inv
<1>1. CASE subs' = subs
  BY <1>1 DEF Contracts
<1>2. ASSUME NEW p \in Procs, Proceed(p) PROVE Ledger!Next \/ subs' = subs
  BY <1>0, <1>2, InsertSubOpens, SeedSubSetsUp, StatusWritesRefine
     DEF Proceed, CheckName, InsertPlan, StorePlan, CheckSubscription, StoreInvoice, SeedPlan, tables
<1>3. ASSUME NEW p \in Procs, Arrive(p) \/ Fail(p) PROVE subs' = subs
  BY <1>3 DEF Arrive, CreatePlan, UpdatePlan, DeactivatePlan, Assign, ChangePlan, Cancel, Seed,
     ReadInvoice, Fail, tables
<1>4. CASE Tick \/ UNCHANGED vars
  BY <1>1, <1>4 DEF Tick, vars, tables
<1> QED BY <1>1, <1>2, <1>3, <1>4 DEF Next

\* The subscriptions implement the ledger: one contract a tenant, a trial given once
\* and its end fixed, whatever assignments, changes, cancellations and seeds interleave.
THEOREM LedgerTheorem == Spec => LedgerSpec
<1>1. Init => Ledger!Init
  BY DEF Init, Ledger!Init, Contracts, ContractsOf
<1>2. Inv /\ Inv' /\ [Next]_vars => [Ledger!Next]_Contracts
  BY NextRefines
<1> QED BY <1>1, <1>2, Invariance, PTL DEF Spec, LedgerSpec, Ledger!Spec
=============================================================================
