----------------------------- MODULE Access_proofs -----------------------------
(***************************************************************************)
(* Theorems about Access, for any number of users, profiles, tenants,      *)
(* requests and ticks.                                                     *)
(***************************************************************************)
EXTENDS Access, TLAPS

-----------------------------------------------------------------------------
(* The inductive invariant.                                                *)

\* The cause of a refusal was seen, or the contract decided on had changed.
Caused(r, facts) ==
    /\ r.cause = "user" => "deleted" \in facts
    /\ r.cause = "permission" => "barred" \in facts
    /\ r.cause = "subscription" => "closed" \in facts \/ r.changed
    /\ r.cause = "admin" => ~SuperAdmin(r.user)

\* What holds of a request at `at` whose checks saw the facts.
RequestOK(at, r, facts) ==
    /\ at # "idle" => r.user \in Users /\ r.route \in Routes
    /\ at \in {"reading", "deciding"} => ~SuperAdmin(r.user)
    /\ at \in {"reading", "deciding", "handling"} => {"active", "permitted"} \subseteq facts
    /\ at = "handling" => "open" \in facts /\ (r.route = "admin" => SuperAdmin(r.user))
    /\ at = "refused" => r.cause \in Refusals /\ Caused(r, facts)

\* What is true now was seen by whoever is being checked.
Current(p) == pc[p] \in Checking => FactsOf(req[p]) \subseteq seen[p]

\* A contract that a guard still lets pass was in force when it was read.
ReadInForce(p) == pc[p] = "deciding" /\ Lets(req[p].read) => "open" \in seen[p]

Types ==
    /\ now \in Times
    /\ DOMAIN contract \subseteq Tenants
    /\ \A t \in DOMAIN contract : contract[t] \in Ledger!Contract
    /\ gone \subseteq Users
    /\ granted \in [Profiles -> SUBSET Permissions]
    /\ pc \in [Procs -> PC]
    /\ req \in [Procs -> Request]
    /\ seen \in [Procs -> SUBSET Facts]

Inv ==
    /\ Types
    /\ \A p \in Procs : /\ RequestOK(pc[p], req[p], seen[p])
                        /\ Current(p)
                        /\ ReadInForce(p)

-----------------------------------------------------------------------------
(* Facts.                                                                  *)

LEMMA FactsType == \A r : FactsOf(r) \subseteq Facts
BY DEF FactsOf, Facts

LEMMA ContractType ==
    ASSUME Types, NEW t PROVE ContractOf(t) \in Ledger!Contract \cup {None}
BY DEF Types, ContractOf

\* SubscriptionGuard and the promise agree on a contract read and decided on at once.
LEMMA LetsIsInForce ==
    ASSUME Types, NEW u \in Users, ~SuperAdmin(u)
    PROVE  Lets(ContractOf(TenantOf[u])) <=> InForce(u)
<1> DEFINE c == ContractOf(TenantOf[u])
<1>1. c \in Ledger!Contract \cup {None} /\ now \in Int
  BY ContractType, AccessAssumption DEF Types, Times
<1> HIDE DEF c
<1>2. CASE c = None
  <2>1. ~Lets(c)
    BY <1>2 DEF Lets
  <2>2. ~InForce(u)
    BY <1>2 DEF InForce, c
  <2> QED BY <2>1, <2>2 DEF c
<1>3. CASE c # None
  <2>1. /\ c.status \in {"TRIAL", "ACTIVE", "CANCELED"}
        /\ c.until \in Times \cup {None}
    BY <1>1, <1>3 DEF Ledger!Contract, Ledger!Status
  <2>2. c.until # None => c.until \in Int
    BY <2>1, AccessAssumption DEF Times
  <2>3. Lets(c) <=> c.status # "CANCELED" /\ (c.status = "TRIAL" => c.until = None \/ c.until >= now)
    BY <1>1, <1>3, <2>1, <2>2 DEF Lets
  <2>4. InForce(u) <=> c.status # "CANCELED" /\ (c.status = "TRIAL" => c.until = None \/ c.until >= now)
    BY <1>3 DEF InForce, c
  <2> QED BY <2>3, <2>4 DEF c
<1> QED BY <1>2, <1>3

\* A contract that a guard lets pass later, it would have let pass before.
LEMMA LetsEarlier ==
    ASSUME now \in Times, now' \in Times, now <= now', NEW c \in Ledger!Contract \cup {None},
           Lets(c)'
    PROVE  Lets(c)
<1>1. c # None /\ c \in Ledger!Contract
  BY DEF Lets
<1>2. c.until \in Times \cup {None}
  BY <1>1 DEF Ledger!Contract
<1>3. c.until # None => c.until \in Int
  BY <1>2, AccessAssumption DEF Times
<1>4. now \in Int /\ now' \in Int
  BY AccessAssumption DEF Times
<1> QED BY <1>1, <1>3, <1>4 DEF Lets

\* What a step of one request makes the others see.
LEMMA Observed ==
    ASSUME pc' \in [Procs -> PC], seen \in [Procs -> SUBSET Facts], Observe
    PROVE  /\ seen' \in [Procs -> SUBSET Facts]
           /\ \A p \in Procs : /\ pc'[p] \in Checking => seen'[p] = seen[p] \cup FactsOf(req[p])'
                               /\ pc'[p] \in {"handling", "refused"} => seen'[p] = seen[p]
<1>1. \A p \in Procs : FactsOf(req[p])' \subseteq Facts
  BY DEF FactsOf, Facts
<1>2. \A p \in Procs : /\ pc'[p] \in Checking => seen'[p] = seen[p] \cup FactsOf(req[p])'
                       /\ pc'[p] = "idle" => seen'[p] = {}
                       /\ pc'[p] \in {"handling", "refused"} => seen'[p] = seen[p]
  BY DEF Observe, Checking
<1>3. \A p \in Procs : seen'[p] \in SUBSET Facts
  <2> TAKE p \in Procs
  <2>1. pc'[p] \in Checking \cup {"idle", "handling", "refused"}
    BY DEF PC, Checking
  <2> QED BY <1>1, <1>2, <2>1
<1> QED BY <1>2, <1>3 DEF Observe

LEMMA RequestGrows ==
    ASSUME NEW at, NEW r, NEW facts, NEW more, RequestOK(at, r, facts), facts \subseteq more
    PROVE  RequestOK(at, r, more)
BY DEF RequestOK, Caused

-----------------------------------------------------------------------------
(* A step.                                                                 *)

\* What the state's own types are after a step, the history aside.
StateTypes ==
    /\ now \in Times
    /\ DOMAIN contract \subseteq Tenants
    /\ \A t \in DOMAIN contract : contract[t] \in Ledger!Contract
    /\ gone \subseteq Users
    /\ granted \in [Profiles -> SUBSET Permissions]

\* Whoever does not move keeps what holds of it.
LEMMA StaysOK ==
    ASSUME Inv, StateTypes', now <= now', pc' \in [Procs -> PC], req' \in [Procs -> Request],
           Observe, NEW q \in Procs, pc'[q] = pc[q], req'[q] = req[q]
    PROVE  RequestOK(pc'[q], req'[q], seen'[q]) /\ Current(q)' /\ ReadInForce(q)'
<1>1. /\ pc'[q] \in Checking => seen'[q] = seen[q] \cup FactsOf(req[q])'
      /\ pc'[q] \in {"handling", "refused"} => seen'[q] = seen[q]
  BY Observed DEF Inv, Types
<1>2. pc'[q] # "idle" => seen[q] \subseteq seen'[q]
  BY <1>1 DEF Checking, PC
<1>3. RequestOK(pc'[q], req'[q], seen'[q])
  <2>1. CASE pc[q] = "idle"
    BY <2>1 DEF RequestOK
  <2>2. CASE pc[q] # "idle"
    BY <1>2, <2>2, RequestGrows DEF Inv
  <2> QED BY <2>1, <2>2
<1>4. Current(q)'
  BY <1>1 DEF Current
<1>5. ReadInForce(q)'
  <2> SUFFICES ASSUME pc'[q] = "deciding", Lets(req[q].read)' PROVE "open" \in seen'[q]
    BY DEF ReadInForce
  <2>1. req'[q].read \in Ledger!Contract \cup {None} /\ req'[q].read = req[q].read
    BY DEF Request
  <2>2. Lets(req[q].read)
    BY <2>1, LetsEarlier DEF Inv, Types, StateTypes
  <2> QED BY <1>2, <2>2 DEF Inv, ReadInForce
<1> QED BY <1>3, <1>4, <1>5

\* A step keeps the invariant when it keeps it for the one request that moves.
LEMMA OneMoves ==
    ASSUME Inv, StateTypes', now <= now', Observe, NEW p \in Procs, NEW from, NEW to \in PC,
           NEW r \in Request, Goto(p, from, to, r),
           RequestOK(to, r, seen'[p]), ReadInForce(p)'
    PROVE  Inv'
<1>1. pc' \in [Procs -> PC] /\ req' \in [Procs -> Request]
  BY DEF Goto, Inv, Types
<1>2. pc'[p] = to /\ req'[p] = r /\ \A q \in Procs \ {p} : pc'[q] = pc[q] /\ req'[q] = req[q]
  BY DEF Goto, Inv, Types
<1>3. seen' \in [Procs -> SUBSET Facts] /\ Current(p)'
  BY <1>1, Observed DEF Inv, Types, Current
<1>4. \A q \in Procs : RequestOK(pc'[q], req'[q], seen'[q]) /\ Current(q)' /\ ReadInForce(q)'
  BY <1>1, <1>2, <1>3, StaysOK
<1>5. Types'
  BY <1>1, <1>3 DEF StateTypes, Types
<1> QED BY <1>4, <1>5 DEF Inv

LEMMA NoneMoves ==
    ASSUME Inv, StateTypes', now <= now', Observe, UNCHANGED <<pc, req>>
    PROVE  Inv'
<1>1. pc' \in [Procs -> PC] /\ req' \in [Procs -> Request]
  BY DEF Inv, Types
<1>2. seen' \in [Procs -> SUBSET Facts]
  BY <1>1, Observed DEF Inv, Types
<1>3. \A q \in Procs : RequestOK(pc'[q], req'[q], seen'[q]) /\ Current(q)' /\ ReadInForce(q)'
  BY <1>1, StaysOK
<1>4. Types'
  BY <1>1, <1>2 DEF StateTypes, Types
<1> QED BY <1>3, <1>4 DEF Inv

\* A request that ends, whatever it did to the tables.
LEMMA Ends ==
    ASSUME Inv, StateTypes', now' = now, Observe, NEW p \in Procs, NEW from, End(p, from)
    PROVE  Inv'
<1>1. NoRequest \in Request
  BY DEF NoRequest, Request
<1>2. pc'[p] = "idle" /\ "idle" \in PC
  BY DEF End, Goto, Inv, Types, PC
<1>3. RequestOK("idle", NoRequest, seen'[p]) /\ ReadInForce(p)'
  BY <1>2 DEF RequestOK, ReadInForce
<1>4. now <= now'
  BY AccessAssumption DEF Inv, Types, Times
<1> QED BY <1>1, <1>2, <1>3, <1>4, OneMoves DEF End

LEMMA StateKept ==
    ASSUME Inv, UNCHANGED state PROVE StateTypes' /\ now <= now' /\ Types
BY AccessAssumption DEF state, StateTypes, Inv, Types, Times

-----------------------------------------------------------------------------
(* The guards.                                                             *)

LEMMA ArriveKeeps ==
    ASSUME Inv, NEW p \in Procs, NEW u \in Users, NEW route \in Routes, Arrive(p, u, route), Observe
    PROVE  Inv'
<1> DEFINE r == [NoRequest EXCEPT !.user = u, !.route = route]
<1>1. r \in Request /\ r.user = u /\ r.route = route
  BY DEF NoRequest, Request
<1>2. Goto(p, "idle", "arrived", r) /\ UNCHANGED state
  BY DEF Arrive
<1> HIDE DEF r
<1>3. pc'[p] = "arrived" /\ "arrived" \in PC
  BY <1>2 DEF Goto, Inv, Types, PC
<1>4. RequestOK("arrived", r, seen'[p]) /\ ReadInForce(p)'
  BY <1>1, <1>3 DEF RequestOK, ReadInForce
<1> QED BY <1>1, <1>2, <1>3, <1>4, StateKept, OneMoves

\* What a request being checked has seen includes what is so now.
LEMMA Seen ==
    ASSUME Inv, NEW p \in Procs, pc[p] \in Checking
    PROVE  LET r == req[p] IN
           /\ r \in Request /\ r.user \in Users /\ r.route \in Routes
           /\ IF r.user \in gone THEN "deleted" \in seen[p] ELSE "active" \in seen[p]
           /\ Permitted(r.user, r.route) => "permitted" \in seen[p]
           /\ ~Permitted(r.user, r.route) => "barred" \in seen[p]
           /\ IF InForce(r.user) THEN "open" \in seen[p] ELSE "closed" \in seen[p]
<1>1. req[p] \in Request /\ req[p].user \in Users /\ req[p].route \in Routes
  BY DEF Inv, Types, RequestOK, Checking
<1>2. FactsOf(req[p]) \subseteq seen[p]
  BY DEF Inv, Current
<1> QED BY <1>1, <1>2 DEF FactsOf, Permitted

LEMMA RefuseKeeps ==
    ASSUME Inv, UNCHANGED state, Observe, NEW p \in Procs, NEW from, NEW r \in Request,
           Goto(p, from, "refused", r), r.user \in Users, r.route \in Routes,
           r.cause \in Refusals, Caused(r, seen[p])
    PROVE  Inv'
<1>1. pc' \in [Procs -> PC] /\ pc'[p] = "refused" /\ "refused" \in PC
  BY DEF Goto, Inv, Types, PC
<1>2. seen'[p] = seen[p]
  BY <1>1, Observed DEF Inv, Types
<1>3. RequestOK("refused", r, seen'[p]) /\ ReadInForce(p)'
  BY <1>1, <1>2 DEF RequestOK, ReadInForce
<1> QED BY <1>1, <1>3, StateKept, OneMoves

LEMMA ServeKeeps ==
    ASSUME Inv, UNCHANGED state, Observe, NEW p \in Procs, NEW from, NEW r \in Request,
           Goto(p, from, "handling", r), r.user \in Users, r.route \in Routes,
           r.route = "admin" => SuperAdmin(r.user), {"active", "permitted", "open"} \subseteq seen[p]
    PROVE  Inv'
<1>1. pc' \in [Procs -> PC] /\ pc'[p] = "handling" /\ "handling" \in PC
  BY DEF Goto, Inv, Types, PC
<1>2. seen'[p] = seen[p]
  BY <1>1, Observed DEF Inv, Types
<1>3. RequestOK("handling", r, seen'[p]) /\ ReadInForce(p)'
  BY <1>1, <1>2 DEF RequestOK, ReadInForce
<1> QED BY <1>1, <1>3, StateKept, OneMoves

LEMMA AuthenticateKeeps ==
    ASSUME Inv, NEW p \in Procs, Authenticate(p), Observe PROVE Inv'
<1> DEFINE r == req[p]
<1>1. pc[p] = "arrived" /\ UNCHANGED state
  BY DEF Authenticate
<1>2. /\ r \in Request /\ r.user \in Users /\ r.route \in Routes
      /\ IF Known(r.user) THEN "active" \in seen[p] ELSE "deleted" \in seen[p]
      /\ IF Permitted(r.user, r.route) THEN "permitted" \in seen[p] ELSE "barred" \in seen[p]
      /\ InForce(r.user) => "open" \in seen[p]
  BY <1>1, Seen DEF Checking, Known
<1>3. ASSUME NEW cause \in {"user", "permission"}, Refuse(p, "arrived", cause),
             cause = "user" => ~Known(r.user),
             cause = "permission" => ~Permitted(r.user, r.route)
      PROVE  Inv'
  <2> DEFINE s == [r EXCEPT !.cause = cause]
  <2>1. /\ s \in Request /\ s.cause = cause /\ s.user = r.user /\ s.route = r.route
        /\ cause \in Refusals
    BY <1>2 DEF Request, Refusals
  <2>2. Goto(p, "arrived", "refused", s)
    BY <1>3 DEF Refuse
  <2> HIDE DEF s
  <2>3. Caused(s, seen[p])
    BY <1>2, <1>3, <2>1 DEF Caused
  <2> QED BY <1>1, <1>2, <2>1, <2>2, <2>3, RefuseKeeps
<1>4. CASE Known(r.user) /\ Permitted(r.user, r.route) /\ Goto(p, "arrived", "handling", r)
           /\ SuperAdmin(r.user)
  <2>1. {"active", "permitted", "open"} \subseteq seen[p]
    BY <1>2, <1>4 DEF InForce
  <2> QED BY <1>1, <1>2, <1>4, <2>1, ServeKeeps
<1>5. CASE Known(r.user) /\ Permitted(r.user, r.route) /\ Goto(p, "arrived", "reading", r)
           /\ ~SuperAdmin(r.user)
  <2>1. pc' \in [Procs -> PC] /\ pc'[p] = "reading" /\ "reading" \in PC
    BY <1>5 DEF Goto, Inv, Types, PC
  <2>2. seen[p] \subseteq seen'[p]
    BY <2>1, Observed DEF Inv, Types, Checking
  <2>3. RequestOK("reading", r, seen'[p]) /\ ReadInForce(p)'
    BY <1>2, <1>5, <2>1, <2>2 DEF RequestOK, ReadInForce
  <2> QED BY <1>1, <1>2, <1>5, <2>1, <2>3, StateKept, OneMoves
<1> QED BY <1>3, <1>4, <1>5 DEF Authenticate

LEMMA ReadKeeps ==
    ASSUME Inv, NEW p \in Procs, ReadSubscription(p), Observe PROVE Inv'
<1> DEFINE u == req[p].user
           c == ContractOf(TenantOf[u])
           r == [req[p] EXCEPT !.read = c]
<1>1. pc[p] = "reading" /\ UNCHANGED state /\ Goto(p, "reading", "deciding", r)
  BY DEF ReadSubscription
<1>2. /\ req[p] \in Request /\ u \in Users /\ ~SuperAdmin(u)
      /\ RequestOK("reading", req[p], seen[p])
  BY <1>1 DEF Inv, Types, RequestOK
<1>3. c \in Ledger!Contract \cup {None}
  BY ContractType DEF Inv
<1>4. r \in Request /\ r.read = c /\ r.user = u /\ r.route = req[p].route
  BY <1>2, <1>3 DEF Request
<1>5. /\ pc' \in [Procs -> PC] /\ pc'[p] = "deciding" /\ "deciding" \in PC
      /\ req'[p] = r
  BY <1>1 DEF Goto, Inv, Types, PC
<1> HIDE DEF r
<1>6. seen'[p] = seen[p] \cup FactsOf(req[p])'
  BY <1>5, Observed DEF Inv, Types, Checking
<1>7. RequestOK("deciding", r, seen'[p])
  BY <1>2, <1>4, <1>6 DEF RequestOK
<1>8. ReadInForce(p)'
  <2> SUFFICES ASSUME Lets(req[p].read)' PROVE "open" \in seen'[p]
    BY DEF ReadInForce
  <2>1. Lets(c)
    BY <1>1, <1>4, <1>5 DEF Lets, state
  <2>2. InForce(u)
    BY <1>2, <2>1, LetsIsInForce DEF Inv
  <2>3. InForce(req[p].user)'
    BY <1>1, <1>4, <1>5, <2>2 DEF InForce, ContractOf, state
  <2> QED BY <1>6, <2>3 DEF FactsOf
<1> QED BY <1>1, <1>4, <1>5, <1>7, <1>8, StateKept, OneMoves

LEMMA DecideKeeps ==
    ASSUME Inv, NEW p \in Procs, Decide(p), Observe PROVE Inv'
<1> DEFINE q == req[p]
           c == q.read
           now_ == ContractOf(TenantOf[q.user])
           r == [q EXCEPT !.read = None]
<1>1. pc[p] = "deciding" /\ UNCHANGED state
  BY DEF Decide
<1>2. /\ q \in Request /\ q.user \in Users /\ q.route \in Routes /\ ~SuperAdmin(q.user)
      /\ {"active", "permitted"} \subseteq seen[p]
      /\ Lets(c) => "open" \in seen[p]
      /\ ~InForce(q.user) => "closed" \in seen[p]
  BY <1>1, Seen DEF Inv, Types, RequestOK, ReadInForce, Checking
<1>3. /\ r \in Request /\ r.user = q.user /\ r.route = q.route
  BY <1>2 DEF Request
<1>4. CASE ~Lets(c) /\ Goto(p, "deciding", "refused",
                             [r EXCEPT !.cause = "subscription", !.changed = c # now_])
  <2> DEFINE s == [r EXCEPT !.cause = "subscription", !.changed = c # now_]
  <2>1. (c # now_) \in BOOLEAN
    OBVIOUS
  <2>2. "subscription" \in Refusals
    BY DEF Refusals
  <2>3. s \in Request /\ s.user = q.user /\ s.route = q.route /\ s.cause = "subscription"
    BY <1>3, <2>1, <2>2 DEF Request
  <2>4. c # now_ => s.changed
    BY <1>3 DEF Request
  <2> HIDE DEF s
  <2>5. c = now_ => "closed" \in seen[p]
    BY <1>2, <1>4, LetsIsInForce DEF Inv
  <2>6. Caused(s, seen[p])
    BY <2>3, <2>4, <2>5 DEF Caused
  <2> QED BY <1>1, <1>2, <1>4, <2>2, <2>3, <2>6, RefuseKeeps DEF s
<1>5. CASE Lets(c) /\ r.route = "admin"
           /\ Goto(p, "deciding", "refused", [r EXCEPT !.cause = "admin"])
  <2> DEFINE s == [r EXCEPT !.cause = "admin"]
  <2>1. s \in Request /\ s.user = q.user /\ s.route = q.route /\ s.cause = "admin"
        /\ s.cause \in Refusals
    BY <1>3 DEF Request, Refusals
  <2> HIDE DEF s
  <2>2. Caused(s, seen[p])
    BY <1>2, <2>1 DEF Caused
  <2> QED BY <1>1, <1>2, <1>5, <2>1, <2>2, RefuseKeeps DEF s
<1>6. CASE Lets(c) /\ r.route # "admin" /\ Goto(p, "deciding", "handling", r)
  <2> HIDE DEF r
  <2>1. r.route = "admin" => SuperAdmin(r.user)
    BY <1>6
  <2> QED BY <1>1, <1>2, <1>3, <1>6, <2>1, ServeKeeps
<1> QED BY <1>4, <1>5, <1>6 DEF Decide

-----------------------------------------------------------------------------
(* The handlers, the seed and the clock.                                   *)

LEMMA SetContractType ==
    ASSUME Types, NEW t \in Tenants, NEW c \in Ledger!Contract, Ledger!SetContract(t, c)
    PROVE  DOMAIN contract' \subseteq Tenants /\ \A u \in DOMAIN contract' : contract'[u] \in Ledger!Contract
BY DEF Types, Ledger!SetContract

LEMMA LedgerTypes ==
    ASSUME Types, NEW t \in Tenants,
           \/ \E d \in Times \cup {None} : Ledger!OpenContract(t, d)
           \/ Ledger!Activate(t) \/ Ledger!CancelContract(t) \/ Ledger!SetUp
    PROVE  DOMAIN contract' \subseteq Tenants /\ \A u \in DOMAIN contract' : contract'[u] \in Ledger!Contract
<1>1. ASSUME NEW d \in Times \cup {None}, NEW status \in Ledger!Status
      PROVE  [status |-> status, until |-> d] \in Ledger!Contract
  BY DEF Ledger!Contract
<1>2. {"TRIAL", "ACTIVE", "CANCELED"} = Ledger!Status
  BY DEF Ledger!Status
<1>3. ASSUME NEW d \in Times \cup {None}, Ledger!OpenContract(t, d)
      PROVE  \E c \in Ledger!Contract : Ledger!SetContract(t, c)
  <2>1. (IF d = None THEN "ACTIVE" ELSE "TRIAL") \in Ledger!Status
    BY <1>2
  <2> QED BY <1>1, <1>3, <2>1 DEF Ledger!OpenContract
<1>4. t \in DOMAIN contract => contract[t].until \in Times \cup {None}
  BY DEF Types, Ledger!Contract
<1>5. CASE Ledger!Activate(t) \/ Ledger!CancelContract(t)
  <2>1. \E c \in Ledger!Contract : Ledger!SetContract(t, c)
    BY <1>1, <1>2, <1>4, <1>5 DEF Ledger!Activate, Ledger!CancelContract
  <2> QED BY <2>1, SetContractType
<1>6. CASE Ledger!SetUp
  <2>1. \E c \in Ledger!Contract : Ledger!SetContract(SeedTenant, c)
    BY <1>1, <1>2, <1>6 DEF Ledger!SetUp
  <2> QED BY <2>1, SetContractType, AccessAssumption
<1> QED BY <1>3, <1>5, <1>6, SetContractType

LEMMA HandlerKeeps ==
    ASSUME Inv, NEW p \in Procs, Handle(p) PROVE Inv'
<1>1. Observe /\ Types
  BY DEF Handle, Inv
<1>2. now' = now
  BY DEF Handle, DeleteUser, UpdateProfile, OpenContract, ActivateContract, CancelContract, GiveUp,
     Answer, state
<1>3. End(p, "handling") \/ End(p, "refused")
  BY DEF Handle, DeleteUser, UpdateProfile, OpenContract, ActivateContract, CancelContract, GiveUp,
     Answer
<1>4. ASSUME NEW u \in Users, DeleteUser(p, u) PROVE StateTypes'
  BY <1>1, <1>4 DEF DeleteUser, StateTypes, Types
<1>5. ASSUME NEW f \in Profiles, NEW s \in SUBSET Permissions, UpdateProfile(p, f, s)
      PROVE  StateTypes'
  BY <1>1, <1>5 DEF UpdateProfile, StateTypes, Types
<1>6. ASSUME NEW t \in Tenants,
             \/ \E d \in Times \cup {None} : OpenContract(p, t, d)
             \/ ActivateContract(p, t) \/ CancelContract(p, t)
      PROVE  StateTypes'
  <2>1. UNCHANGED <<now, gone, granted>>
    BY <1>6 DEF OpenContract, ActivateContract, CancelContract
  <2>2. \/ \E d \in Times \cup {None} : Ledger!OpenContract(t, d)
        \/ Ledger!Activate(t) \/ Ledger!CancelContract(t)
    BY <1>6 DEF OpenContract, ActivateContract, CancelContract
  <2> QED BY <1>1, <2>1, <2>2, LedgerTypes DEF StateTypes, Types
<1>7. ASSUME GiveUp(p) \/ Answer(p) PROVE StateTypes'
  BY <1>7, StateKept DEF GiveUp, Answer
<1>8. StateTypes'
  BY <1>4, <1>5, <1>6, <1>7 DEF Handle
<1> QED BY <1>1, <1>2, <1>3, <1>8, Ends

LEMMA EnvironmentKeeps ==
    ASSUME Inv, Environment PROVE Inv'
<1>1. Observe /\ Types
  BY DEF Environment, Inv
<1>2. now \in Int /\ MaxNow \in Int
  BY <1>1, AccessAssumption DEF Types, Times
<1>3. ASSUME NEW p \in Procs, NEW u \in Users, NEW route \in Routes, Arrive(p, u, route)
      PROVE  Inv'
  BY <1>1, <1>3, ArriveKeeps
<1>4. CASE SeedProfiles
  <2>1. StateTypes' /\ now' = now /\ UNCHANGED <<pc, req>>
    BY <1>1, <1>4 DEF SeedProfiles, StateTypes, Types
  <2> QED BY <1>1, <1>2, <2>1, NoneMoves
<1>5. CASE SeedContract
  <2>1. UNCHANGED <<now, gone, granted, pc, req>> /\ Ledger!SetUp
    BY <1>5 DEF SeedContract
  <2>2. StateTypes'
    BY <1>1, <2>1, LedgerTypes, AccessAssumption DEF StateTypes, Types
  <2> QED BY <1>1, <1>2, <2>1, <2>2, NoneMoves
<1>6. CASE Tick
  <2>1. now' \in Times /\ now <= now'
    BY <1>1, <1>2, <1>6 DEF Tick, Types, Times
  <2>2. StateTypes' /\ UNCHANGED <<pc, req>>
    BY <1>1, <1>6, <2>1 DEF Tick, StateTypes, Types
  <2> QED BY <1>1, <2>1, <2>2, NoneMoves
<1> QED BY <1>3, <1>4, <1>5, <1>6 DEF Environment

LEMMA NextInv == Inv /\ [Next]_vars => Inv'
<1> SUFFICES ASSUME Inv, [Next]_vars PROVE Inv'
  OBVIOUS
<1>1. CASE UNCHANGED vars
  <2>1. /\ UNCHANGED <<now, contract, gone, granted, pc, req, seen>>
    BY <1>1 DEF vars, state
  <2>2. \A p \in Procs : /\ RequestOK(pc'[p], req'[p], seen'[p])
                         /\ Current(p)' /\ ReadInForce(p)'
    BY <2>1 DEF Inv, Current, ReadInForce, FactsOf, InForce, ContractOf, Lets
  <2>3. Types'
    BY <2>1 DEF Inv, Types
  <2> QED BY <2>2, <2>3 DEF Inv
<1>2. ASSUME NEW p \in Procs, Check(p) PROVE Inv'
  BY <1>2, AuthenticateKeeps, ReadKeeps, DecideKeeps DEF Check
<1> QED BY <1>1, <1>2, HandlerKeeps, EnvironmentKeeps DEF Next

LEMMA InitInv == Init => Inv
<1> SUFFICES ASSUME Init PROVE Inv
  OBVIOUS
<1>1. Types
  BY AccessAssumption DEF Init, Types, Ledger!Init, Times, NoRequest, Request, PC
<1>2. ASSUME NEW p \in Procs PROVE RequestOK(pc[p], req[p], seen[p]) /\ Current(p) /\ ReadInForce(p)
  <2>1. pc[p] = "idle"
    BY DEF Init
  <2> QED BY <2>1 DEF RequestOK, Current, ReadInForce, Checking
<1> QED BY <1>1, <1>2 DEF Inv

LEMMA Invariance == Spec => []Inv
BY InitInv, NextInv, PTL DEF Spec

\* Type correctness, and no contract is looked up for a super administrator.
THEOREM TypeCorrect == Spec => []TypeOK
<1>1. Inv => TypeOK
  BY DEF Inv, Types, RequestOK, TypeOK
<1> QED BY <1>1, Invariance, PTL

\* Nobody is served without having been active, permitted and, but for super
\* administrators, in a contract, each at some moment of the request's checks.
THEOREM ServedTheorem == Spec => []ServedWithCause
<1>1. Inv => ServedWithCause
  BY DEF Inv, RequestOK, ServedWithCause
<1> QED BY <1>1, Invariance, PTL

\* Nobody is refused without cause, but over a contract that changed meanwhile.
THEOREM RefusedTheorem == Spec => []RefusedWithCause
<1>1. Inv => RefusedWithCause
  <2> SUFFICES ASSUME Inv, NEW p \in Procs, pc[p] = "refused"
               PROVE  CASE req[p].cause = "user"         -> "deleted" \in seen[p]
                        [] req[p].cause = "permission"   -> "barred" \in seen[p]
                        [] req[p].cause = "subscription" -> "closed" \in seen[p] \/ req[p].changed
                        [] req[p].cause = "admin"        -> ~SuperAdmin(req[p].user)
    BY DEF RefusedWithCause
  <2>1. req[p].cause \in {"user", "permission", "subscription", "admin"} /\ Caused(req[p], seen[p])
    BY DEF Inv, RequestOK, Refusals
  <2>2. CASE req[p].cause = "user"
    BY <2>1, <2>2 DEF Caused
  <2>3. CASE req[p].cause = "permission"
    BY <2>1, <2>3 DEF Caused
  <2>4. CASE req[p].cause = "subscription"
    BY <2>1, <2>4 DEF Caused
  <2>5. CASE req[p].cause = "admin"
    BY <2>1, <2>5 DEF Caused
  <2> QED BY <2>1, <2>2, <2>3, <2>4, <2>5
<1> QED BY <1>1, Invariance, PTL
-----------------------------------------------------------------------------
(* Deletion shuts out.  DeletionShutsOut needs fairness, which stays with     *)
(* TLC; it rests on two facts that do not: a deleted user is let in by no     *)
(* further check, and the requests in flight can only come to an end.         *)

\* The requests of u that JwtAuthGuard has let in.
Admitted(u) ==
    {p \in Procs : pc[p] \in {"reading", "deciding", "handling"} /\ req[p].user = u}

\* Every edge of a request's life, with the user it is for.
Moves(q) ==
    \/ pc'[q] = pc[q] /\ req'[q] = req[q]
    \/ pc[q] = "idle" /\ pc'[q] = "arrived"
    \/ /\ pc[q] = "arrived" /\ pc'[q] \in {"reading", "handling"}
       /\ Known(req[q].user) /\ req'[q] = req[q]
    \/ pc[q] \in {"arrived", "deciding"} /\ pc'[q] = "refused"
    \/ /\ <<pc[q], pc'[q]>> \in {<<"reading", "deciding">>, <<"deciding", "handling">>}
       /\ req'[q].user = req[q].user
    \/ pc[q] \in {"handling", "refused"} /\ pc'[q] = "idle"

LEMMA NextMoves == ASSUME Types, [Next]_vars, NEW q \in Procs PROVE Moves(q)
<1>0. pc \in [Procs -> PC] /\ req \in [Procs -> Request]
  BY DEF Types
<1>1. Authenticate(q) => Moves(q)
  BY <1>0 DEF Authenticate, Refuse, Goto, Moves
<1>2. ReadSubscription(q) \/ Decide(q) => Moves(q)
  BY <1>0 DEF ReadSubscription, Decide, Goto, Request, Moves
<1>3. Handle(q) => Moves(q)
  BY <1>0 DEF Handle, DeleteUser, UpdateProfile, OpenContract, ActivateContract, CancelContract,
     GiveUp, Answer, End, Goto, Moves
<1>4. ASSUME NEW u \in Users, NEW route \in Routes, Arrive(q, u, route) PROVE Moves(q)
  BY <1>0, <1>4 DEF Arrive, Goto, Moves
<1>5. ASSUME NEW p \in Procs, p # q,
             \/ Check(p) \/ Handle(p)
             \/ \E u \in Users, route \in Routes : Arrive(p, u, route)
      PROVE  pc'[q] = pc[q] /\ req'[q] = req[q]
  BY <1>0, <1>5 DEF Check, Authenticate, ReadSubscription, Decide, Refuse, Handle, DeleteUser,
     UpdateProfile, OpenContract, ActivateContract, CancelContract, GiveUp, Answer, Arrive, End, Goto
<1>6. ASSUME SeedProfiles \/ SeedContract \/ Tick \/ UNCHANGED vars
      PROVE  pc'[q] = pc[q] /\ req'[q] = req[q]
  BY <1>6 DEF SeedProfiles, SeedContract, Tick, vars
<1>7. pc'[q] = pc[q] /\ req'[q] = req[q] => Moves(q)
  BY DEF Moves
<1> QED BY <1>1, <1>2, <1>3, <1>4, <1>5, <1>6, <1>7 DEF Next, Environment, Check

\* Nobody is undeleted.
LEMMA GoneGrows == [Next]_vars => gone \subseteq gone'
BY DEF Next, Environment, Arrive, SeedProfiles, SeedContract, Tick, Check, Authenticate,
   ReadSubscription, Decide, Handle, DeleteUser, UpdateProfile, OpenContract, ActivateContract,
   CancelContract, GiveUp, Answer, vars, state

\* Deletion is a barrier for admission (auth.service.ts:265): a deleted user stays
\* deleted, and no request of it passes the strategy any more, although its access
\* tokens go on being valid; those that were in are all that may still be served.
AdmissionBarrier ==
    [][/\ gone \subseteq gone'
       /\ \A u \in gone : Admitted(u)' \subseteq Admitted(u)]_vars

\* A deleted user is let in by no check, however requests interleave.
THEOREM AdmissionTheorem == Spec => AdmissionBarrier
<1>1. Inv /\ [Next]_vars
        => [/\ gone \subseteq gone'
            /\ \A u \in gone : Admitted(u)' \subseteq Admitted(u)]_vars
  <2> SUFFICES ASSUME Inv, [Next]_vars, NEW u \in gone, NEW q \in Procs, q \in Admitted(u)'
               PROVE  q \in Admitted(u)
    BY GoneGrows DEF Admitted
  <2>1. Moves(q)
    BY NextMoves DEF Inv
  <2> QED BY <2>1 DEF Moves, Admitted, Known
<1> QED BY <1>1, Invariance, PTL DEF Spec, AdmissionBarrier

\* The steps a request has still to take, at most.
Left(at) ==
    CASE at = "arrived" -> 4
      [] at = "reading" -> 3
      [] at = "deciding" -> 2
      [] at \in {"handling", "refused"} -> 1
      [] at = "idle" -> 0

\* Whatever moves a request that is under way leaves it fewer steps to take.
RequestsEnd ==
    [][\A p \in Procs :
         pc[p] # "idle" /\ (pc'[p] # pc[p] \/ req'[p] # req[p])
           => Left(pc'[p]) \in Nat /\ Left(pc'[p]) < Left(pc[p])]_vars

\* Every request ends after finitely many of its own steps; nothing that other
\* requests, the seed or the clock do adds to them.
THEOREM RequestsEndTheorem == Spec => RequestsEnd
<1>1. Inv /\ [Next]_vars
        => [\A p \in Procs :
              pc[p] # "idle" /\ (pc'[p] # pc[p] \/ req'[p] # req[p])
                => Left(pc'[p]) \in Nat /\ Left(pc'[p]) < Left(pc[p])]_vars
  <2> SUFFICES ASSUME Inv, [Next]_vars, NEW p \in Procs, pc[p] # "idle",
                      pc'[p] # pc[p] \/ req'[p] # req[p]
               PROVE  Left(pc'[p]) \in Nat /\ Left(pc'[p]) < Left(pc[p])
    OBVIOUS
  <2>1. Moves(p)
    BY NextMoves DEF Inv
  <2> QED BY <2>1 DEF Moves, Left
<1> QED BY <1>1, Invariance, PTL DEF Spec, RequestsEnd

-----------------------------------------------------------------------------
(* What the guards decide when nothing changes between their reads.          *)

\* A server that answers a request before it takes the next.
OneAtATime == \A p, q \in Procs : p = q

\* A contract that was not canceled; a trial may be over by now.
NotCanceled(u) ==
    \/ SuperAdmin(u)
    \/ TenantOf[u] \in DOMAIN contract /\ contract[TenantOf[u]].status # "CANCELED"

\* Whoever is being served has, at this moment, an active account, the permission
\* of the route and a contract that is not canceled (permissions.guard.ts:33,
\* subscription.guard.ts:35).  With several requests ServedWithCause is all that
\* remains of it; the seed and the clock, which run beside any request, do not
\* break it.
ServedNow ==
    \A p \in Procs : pc[p] = "handling" =>
        /\ Known(req[p].user)
        /\ Permitted(req[p].user, req[p].route)
        /\ NotCanceled(req[p].user)

\* What SubscriptionGuard read is not canceled unless the contract is.
SerialOK(p) ==
    /\ pc[p] \in {"reading", "deciding", "handling"}
         => Known(req[p].user) /\ Permitted(req[p].user, req[p].route)
    /\ pc[p] = "deciding" /\ req[p].read # None /\ req[p].read.status # "CANCELED"
         => NotCanceled(req[p].user)
    /\ pc[p] = "handling" => NotCanceled(req[p].user)

SerialInv == \A p \in Procs : SerialOK(p)

\* What the seed and the clock leave a user: as much as it had.
LEMMA EnvironmentKind ==
    ASSUME Inv, SeedProfiles \/ SeedContract \/ Tick, NEW u \in Users, NEW route
    PROVE  /\ Known(u) => Known(u)'
           /\ Permitted(u, route) => Permitted(u, route)'
           /\ NotCanceled(u) => NotCanceled(u)'
<1>1. gone' = gone /\ (Known(u) => Known(u)')
  BY DEF SeedProfiles, SeedContract, Tick, Known
<1>2. Permitted(u, route) => Permitted(u, route)'
  <2>1. ProfileOf[u] \in Profiles /\ granted \in [Profiles -> SUBSET Permissions]
    BY AccessAssumption DEF Inv, Types
  <2>2. granted' = granted \/ granted' = [granted EXCEPT ![SeedProfile] = Permissions]
    BY DEF SeedProfiles, SeedContract, Tick
  <2> QED BY <2>1, <2>2 DEF Permitted
<1>3. CASE contract' = contract
  BY <1>1, <1>2, <1>3 DEF NotCanceled
<1>4. CASE SeedContract
  <2> DEFINE c == [status |-> "ACTIVE", until |-> None]
  <2>1. contract' = [t \in DOMAIN contract \cup {SeedTenant} |->
                       IF t = SeedTenant THEN c ELSE contract[t]]
    BY <1>4 DEF SeedContract, Ledger!SetUp, Ledger!SetContract
  <2>2. c.status # "CANCELED"
    OBVIOUS
  <2> QED BY <1>1, <1>2, <2>1, <2>2 DEF NotCanceled
<1> QED BY <1>3, <1>4 DEF SeedProfiles, Tick

\* The guards' steps leave what they read as it is.
LEMMA CheckSerial == ASSUME Inv, NEW q \in Procs, SerialOK(q), Check(q) PROVE SerialOK(q)'
<1> DEFINE r == req[q]
<1>0. /\ pc \in [Procs -> PC] /\ req \in [Procs -> Request] /\ r \in Request
      /\ UNCHANGED <<contract, gone, granted>>
  BY DEF Inv, Types, Check, Authenticate, ReadSubscription, Decide, state
<1>2. CASE Authenticate(q)
  <2>1. /\ pc'[q] \in {"refused", "reading", "handling"}
        /\ pc'[q] # "refused" => req'[q] = r /\ Known(r.user) /\ Permitted(r.user, r.route)
        /\ pc'[q] = "handling" => SuperAdmin(r.user)
    BY <1>0, <1>2 DEF Authenticate, Refuse, Goto
  <2> QED BY <1>0, <2>1 DEF SerialOK, Known, Permitted, NotCanceled, SuperAdmin
<1>3. CASE ReadSubscription(q)
  <2> DEFINE c == ContractOf(TenantOf[r.user])
  <2>1. /\ pc[q] = "reading" /\ pc'[q] = "deciding"
        /\ req'[q].user = r.user /\ req'[q].route = r.route /\ req'[q].read = c
    BY <1>0, <1>3 DEF ReadSubscription, Goto, Request
  <2>2. c # None /\ c.status # "CANCELED" => NotCanceled(r.user)
    BY DEF ContractOf, NotCanceled
  <2> HIDE DEF c
  <2> QED BY <1>0, <2>1, <2>2 DEF SerialOK, Known, Permitted, NotCanceled, SuperAdmin
<1>4. CASE Decide(q)
  <2>1. /\ pc[q] = "deciding" /\ pc'[q] \in {"refused", "handling"}
        /\ pc'[q] = "handling" =>
             Lets(r.read) /\ req'[q].user = r.user /\ req'[q].route = r.route
    BY <1>0, <1>4 DEF Decide, Goto, Request
  <2>2. Lets(r.read) => r.read # None /\ r.read.status # "CANCELED"
    BY DEF Lets
  <2> QED BY <1>0, <2>1, <2>2 DEF SerialOK, Known, Permitted, NotCanceled, SuperAdmin
<1> QED BY <1>2, <1>3, <1>4 DEF Check

LEMMA NextSerial ==
    ASSUME OneAtATime, Inv, SerialInv, [Next]_vars PROVE SerialInv'
<1>0. pc \in [Procs -> PC] /\ req \in [Procs -> Request]
  BY DEF Inv, Types
<1>1. ASSUME NEW p \in Procs, Check(p) PROVE SerialInv'
  <2>1. \A q \in Procs : q = p
    BY DEF OneAtATime
  <2>2. SerialOK(p)'
    BY <1>1, CheckSerial DEF SerialInv
  <2> QED BY <2>1, <2>2, Zenon DEF SerialInv
<1>2. ASSUME NEW p \in Procs,
             Handle(p) \/ \E u \in Users, route \in Routes : Arrive(p, u, route)
      PROVE  SerialInv'
  <2>1. pc'[p] \in {"idle", "arrived"}
    BY <1>0, <1>2 DEF Handle, DeleteUser, UpdateProfile, OpenContract, ActivateContract,
       CancelContract, GiveUp, Answer, Arrive, End, Goto
  <2>2. \A q \in Procs : q = p
    BY DEF OneAtATime
  <2>3. SerialOK(p)'
    BY <2>1 DEF SerialOK
  <2> QED BY <2>2, <2>3, Zenon DEF SerialInv
<1>3. CASE SeedProfiles \/ SeedContract \/ Tick
  <2>1. UNCHANGED <<pc, req>>
    BY <1>3 DEF SeedProfiles, SeedContract, Tick
  <2>2. ASSUME NEW p \in Procs PROVE SerialOK(p)'
    <3>1. CASE pc[p] = "idle"
      BY <2>1, <3>1 DEF SerialOK
    <3>2. CASE pc[p] # "idle"
      <4>1. PICK u \in Users : u = req[p].user
        BY <3>2 DEF Inv, RequestOK
      <4>2. /\ Known(u) => Known(u)'
            /\ \A route : Permitted(u, route) => Permitted(u, route)'
            /\ NotCanceled(u) => NotCanceled(u)'
        BY <1>3, EnvironmentKind
      <4>3. SerialOK(p)
        BY DEF SerialInv
      <4> QED BY <2>1, <4>1, <4>2, <4>3 DEF SerialOK, Known, Permitted, NotCanceled, SuperAdmin
    <3> QED BY <3>1, <3>2
  <2> QED BY <2>2 DEF SerialInv
<1>4. CASE UNCHANGED vars
  <2>1. UNCHANGED <<contract, gone, granted, pc, req>>
    BY <1>4 DEF vars, state
  <2> QED BY <2>1 DEF SerialInv, SerialOK, Known, Permitted, NotCanceled
<1> QED BY <1>1, <1>2, <1>3, <1>4 DEF Next, Environment

\* One request at a time, whoever is served is entitled to it while it is served.
THEOREM SerialServedNow == ASSUME OneAtATime PROVE Spec => []ServedNow
<1>1. Init => SerialInv
  BY DEF Init, SerialInv, SerialOK
<1>2. Inv /\ SerialInv /\ [Next]_vars => SerialInv'
  BY NextSerial
<1>3. SerialInv => ServedNow
  BY DEF SerialInv, SerialOK, ServedNow
<1> QED BY <1>1, <1>2, <1>3, Invariance, PTL DEF Spec
=============================================================================
