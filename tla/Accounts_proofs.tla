---------------------------- MODULE Accounts_proofs ----------------------------
(***************************************************************************)
(* Theorems about Accounts, for any number of users, addresses, tenants    *)
(* and requests.                                                           *)
(***************************************************************************)
EXTENDS Accounts, TLAPS

-----------------------------------------------------------------------------
(* The inductive invariant.                                                *)

\* No two rows have one address: the unique column.
UniqueEmails == \A u, v \in Known : users[u].email = users[v].email => u = v

\* The table: well typed, unique, aliases on the deleted rows they name only.
UsersOK ==
    /\ Known \subseteq Users
    /\ \A u \in Known : users[u] \in Row
    /\ AliasNamesDeleted
    /\ UniqueEmails

\* What an update has checked of its target.
TargetOK(r, T) == r.target \in DOMAIN T /\ (r.master => T[r.target].tenant = r.tenant)

\* What a request at `at` knows when the table is T.
LocalsOK(at, r, T) ==
    /\ at = "finding" => r.target \in DOMAIN T
    /\ at \in {"looking", "releasing", "inserting", "deleting"} => r.email \in Emails
    /\ at \in {"looking", "releasing"} =>
           r.op = "create" \/ (r.op = "update" /\ TargetOK(r, T))
    /\ at = "releasing" => r.owner \in DOMAIN T /\ T[r.owner].deleted
    /\ at = "inserting" => r.op = "create"
    /\ at = "updating" => r.op = "update" /\ TargetOK(r, T)
    /\ at = "finding" /\ r.op = "delete" => r.actor \in DOMAIN T
    /\ at = "deleting" =>
           /\ r.op = "delete" /\ r.target \in DOMAIN T
           /\ r.actor \in DOMAIN T /\ r.actor # r.target

Inv ==
    /\ UsersOK
    /\ pc \in [Procs -> PC]
    /\ req \in [Procs -> Request]
    /\ \A p \in Procs : LocalsOK(pc[p], req[p], users)

\* Rows stay, stay in their tenant, and stay deleted.
UsersPersist ==
    /\ Known \subseteq Known'
    /\ \A u \in Known : /\ users'[u].tenant = users[u].tenant
                        /\ users[u].deleted => users'[u].deleted

LEMMA GotoMoves ==
    ASSUME Inv, NEW p \in Procs, NEW from, NEW to \in PC, NEW r \in Request,
           Goto(p, from, to, r)
    PROVE  /\ pc' \in [Procs -> PC]
           /\ req' \in [Procs -> Request]
           /\ pc[p] = from /\ pc'[p] = to /\ req'[p] = r
           /\ \A q \in Procs \ {p} : pc'[q] = pc[q] /\ req'[q] = req[q]
BY DEF Inv, Goto

LEMMA NoRequestOK ==
    /\ NoRequest \in Request
    /\ \A T : LocalsOK("idle", NoRequest, T)
BY DEF NoRequest, Request, LocalsOK

\* What a request knows stays true while others write.
LEMMA LocalsKept ==
    ASSUME UsersPersist, NEW at, NEW r, LocalsOK(at, r, users)
    PROVE  LocalsOK(at, r, users')
BY DEF LocalsOK, TargetOK, UsersPersist, Known

\* A step of one request keeps the invariant when it keeps the table in order and
\* its own locals are right.
LEMMA RequestStep ==
    ASSUME Inv, NEW p \in Procs, NEW from, NEW to \in PC, NEW r \in Request,
           Goto(p, from, to, r), UsersOK', UsersPersist, LocalsOK(to, r, users')
    PROVE  Inv'
<1>1. ASSUME NEW q \in Procs PROVE LocalsOK(pc[q], req[q], users)'
  <2>1. CASE q = p
    <3>1. pc'[q] = to /\ req'[q] = r
      BY <2>1, GotoMoves
    <3> QED BY <3>1 DEF LocalsOK, TargetOK
  <2>2. CASE q # p
    <3>1. LocalsOK(pc[q], req[q], users')
      BY LocalsKept DEF Inv
    <3> QED BY <2>2, <3>1, GotoMoves DEF LocalsOK, TargetOK
  <2> QED BY <2>1, <2>2
<1> QED BY <1>1, GotoMoves DEF Inv

\* A step that leaves the table alone.
LEMMA ReadStep ==
    ASSUME Inv, NEW p \in Procs, NEW from, NEW to \in PC, NEW r \in Request,
           Goto(p, from, to, r), LocalsOK(to, r, users), UNCHANGED users
    PROVE  Inv' /\ UsersPersist
<1>1. UsersPersist
  BY DEF UsersPersist, Known
<1>2. UsersOK'
  BY DEF Inv, UsersOK, Known, AliasNamesDeleted, UniqueEmails
<1>3. LocalsOK(to, r, users')
  BY <1>1, LocalsKept
<1> QED BY <1>1, <1>2, <1>3, RequestStep

\* A request that ends, with whatever it did to the table.
LEMMA EndStep ==
    ASSUME Inv, NEW p \in Procs, NEW from, End(p, from), UsersOK', UsersPersist
    PROVE  Inv'
BY NoRequestOK, RequestStep DEF End, PC

LEMMA RejectStep ==
    ASSUME Inv, NEW p \in Procs, NEW from, End(p, from), UNCHANGED users
    PROVE  Inv' /\ UsersPersist
BY NoRequestOK, ReadStep DEF End, PC

LEMMA InitInv == Init => Inv
<1> SUFFICES ASSUME Init PROVE Inv
  OBVIOUS
<1>1. Known = Roots
  BY DEF Init, Known
<1>2. \A u \in Known : /\ users[u] \in [email : Emails, tenant : Tenants \cup {None}, deleted : {FALSE}]
                       /\ users[u] \in Row /\ users[u].email \in Emails
  BY <1>1 DEF Init, Row
<1>3. UsersOK
  BY <1>1, <1>2, AccountsAssumption DEF Init, UsersOK, AliasNamesDeleted, UniqueEmails
<1>4. \A p \in Procs : LocalsOK(pc[p], req[p], users)
  BY NoRequestOK DEF Init
<1> QED BY <1>3, <1>4, NoRequestOK DEF Init, Inv, PC

-----------------------------------------------------------------------------
(* The writes.                                                             *)

LEMMA AliasType ==
    ASSUME NEW e \in Emails, NEW u \in Users
    PROVE  AliasOf(e, u) \in Alias /\ AliasOf(e, u).id = u
BY DEF AliasOf, Alias

\* An address written where it is unique, an alias on its deleted row only.
LEMMA WriteKeeps ==
    ASSUME UsersOK, NEW u \in Known, NEW e \in Emails \cup Alias, WriteEmail(u, e),
           e \in Alias => users[u].deleted /\ e.id = u
    PROVE  UsersOK' /\ UsersPersist
<1>1. /\ Known' = Known
      /\ users'[u].email = e
      /\ users'[u].tenant = users[u].tenant
      /\ users'[u].deleted = users[u].deleted
      /\ users'[u] \in Row
      /\ \A v \in Known \ {u} : users'[v] = users[v]
  <2>1. users[u] \in Row
    BY DEF UsersOK
  <2>2. users' = [users EXCEPT ![u] = [users[u] EXCEPT !.email = e]]
    BY DEF WriteEmail
  <2>3. users'[u] = [users[u] EXCEPT !.email = e] /\ Known' = Known
    BY <2>2 DEF Known
  <2> QED BY <2>1, <2>2, <2>3 DEF Row, Known
<1>2. \A v \in Known \ {u} : users[v].email # e
  BY DEF WriteEmail, Holders
<1>3. UsersPersist
  BY <1>1 DEF UsersPersist
<1>4. AliasNamesDeleted'
  BY <1>1 DEF UsersOK, AliasNamesDeleted
<1>5. UniqueEmails'
  BY <1>1, <1>2 DEF UsersOK, UniqueEmails
<1> QED BY <1>1, <1>3, <1>4, <1>5 DEF UsersOK

\* The row InsertUser adds.
LEMMA Inserted ==
    ASSUME Inv, NEW p \in Procs, NEW u \in Users, InsertUser(p, u)
    PROVE  /\ u \notin Known /\ Known' = Known \cup {u}
           /\ req[p].email \in Emails /\ req[p].op = "create"
           /\ \A v \in Known : users'[v] = users[v] /\ users[v].email # req[p].email
           /\ users'[u] = [email |-> req[p].email, tenant |-> req[p].tenant, deleted |-> FALSE]
<1>1. LocalsOK("inserting", req[p], users) /\ pc[p] = "inserting"
  BY DEF Inv, InsertUser, End, Goto
<1> QED BY <1>1 DEF LocalsOK, InsertUser, Holders, Known

LEMMA InsertKeeps ==
    ASSUME Inv, NEW p \in Procs, NEW u \in Users, InsertUser(p, u)
    PROVE  UsersOK' /\ UsersPersist
<1>0. /\ u \notin Known /\ Known' = Known \cup {u}
      /\ req[p].email \in Emails
      /\ \A v \in Known : users'[v] = users[v] /\ users[v].email # req[p].email
  BY Inserted
<1>1. req[p] \in Request
  BY DEF Inv
<1>2. users'[u] \in Row /\ users'[u].email = req[p].email
  <2>1. req[p].tenant \in Tenants \cup {None}
    BY <1>1 DEF Request
  <2> DEFINE row == [email |-> req[p].email, tenant |-> req[p].tenant, deleted |-> FALSE]
  <2>2. row \in Row /\ row.email = req[p].email
    BY <1>0, <2>1 DEF Row
  <2>3. users'[u] = row
    BY Inserted
  <2> QED BY <2>2, <2>3
<1>3. UsersPersist
  BY <1>0 DEF UsersPersist
<1>4. AliasNamesDeleted'
  <2>1. users'[u].email \notin Alias
    BY <1>0, <1>2, AccountsAssumption
  <2> QED BY <1>0, <2>1 DEF Inv, UsersOK, AliasNamesDeleted
<1>5. UniqueEmails'
  BY <1>0, <1>2 DEF Inv, UsersOK, UniqueEmails
<1>6. \A v \in Known' : v \in Users /\ users'[v] \in Row
  BY <1>0, <1>2 DEF Inv, UsersOK
<1> QED BY <1>4, <1>5, <1>6, <1>3 DEF UsersOK

\* The row DeleteUser leaves.
LEMMA Deleted ==
    ASSUME Inv, NEW p \in Procs, DeleteUser(p)
    PROVE  LET u == req[p].target  a == AliasOf(req[p].email, u) IN
           /\ u \in Known /\ Known' = Known /\ req[p].op = "delete"
           /\ a \in Alias /\ a.id = u
           /\ \A v \in Known \ {u} : users'[v] = users[v] /\ users[v].email # a
           /\ users'[u] \in Row /\ users'[u].email = a
           /\ users'[u].deleted /\ users'[u].tenant = users[u].tenant
<1> DEFINE u == req[p].target
           a == AliasOf(req[p].email, u)
<1>1. u \in Known /\ req[p].email \in Emails /\ req[p].op = "delete" /\ users[u] \in Row /\ u \in Users
  BY DEF Inv, UsersOK, DeleteUser, End, Goto, LocalsOK, Known
<1>2. a \in Alias /\ a.id = u
  BY <1>1, AliasType
<1>3. \A v \in Known \ {u} : users[v].email # a
  BY DEF DeleteUser, Holders
<1>4. users' = [users EXCEPT ![u] = [users[u] EXCEPT !.email = a, !.deleted = TRUE]]
  BY DEF DeleteUser
<1> HIDE DEF a
<1>5. /\ users'[u] = [users[u] EXCEPT !.email = a, !.deleted = TRUE]
      /\ Known' = Known
      /\ \A v \in Known \ {u} : users'[v] = users[v]
  BY <1>1, <1>4 DEF Known
<1>6. [users[u] EXCEPT !.email = a, !.deleted = TRUE].deleted
  BY <1>1 DEF Row
<1>7. /\ users'[u] \in Row /\ users'[u].email = a
      /\ users'[u].tenant = users[u].tenant
  BY <1>1, <1>2, <1>5 DEF Row
<1> QED BY <1>1, <1>2, <1>3, <1>5, <1>6, <1>7 DEF a

LEMMA DeleteKeeps ==
    ASSUME Inv, NEW p \in Procs, DeleteUser(p)
    PROVE  UsersOK' /\ UsersPersist
<1>1. UsersPersist
  BY Deleted DEF UsersPersist
<1>2. AliasNamesDeleted'
  BY Deleted DEF Inv, UsersOK, AliasNamesDeleted
<1>3. UniqueEmails'
  BY Deleted DEF Inv, UsersOK, UniqueEmails
<1> QED BY <1>1, <1>2, <1>3, Deleted DEF Inv, UsersOK

-----------------------------------------------------------------------------
(* Every step keeps the invariant.                                         *)

LEMMA ArriveKeeps ==
    ASSUME Inv, NEW p \in Procs, Arrive(p) PROVE Inv' /\ UsersPersist
<1>1. ASSUME NEW a \in Users, NEW e \in Emails, BeginCreate(p, a, e)
      PROVE  Inv' /\ UsersPersist
  <2> DEFINE r == [NoRequest EXCEPT !.op = "create", !.tenant = users[a].tenant, !.email = e]
  <2>1. users[a].tenant \in Tenants \cup {None}
    BY <1>1 DEF BeginCreate, Active, Inv, UsersOK, Row
  <2>2. r \in Request /\ r.op = "create" /\ r.email = e
    BY <2>1 DEF NoRequest, Request
  <2>3. Goto(p, "idle", "looking", r) /\ UNCHANGED users
    BY <1>1 DEF BeginCreate
  <2> HIDE DEF r
  <2>4. LocalsOK("looking", r, users)
    BY <2>2 DEF LocalsOK
  <2> QED BY <2>2, <2>3, <2>4, ReadStep DEF PC
<1>2. ASSUME NEW a \in Users, NEW u \in Known, NEW e \in Emails \cup {None},
             NEW master \in BOOLEAN, BeginUpdate(p, a, u, e, master)
      PROVE  Inv' /\ UsersPersist
  <2> DEFINE t == IF master THEN users[a].tenant ELSE None
             r == [NoRequest EXCEPT !.op = "update", !.master = master, !.target = u,
                                    !.email = e, !.tenant = t]
  <2>1. t \in Tenants \cup {None} /\ u \in Users
    BY <1>2 DEF BeginUpdate, Active, Inv, UsersOK, Row
  <2>2. r \in Request /\ r.target = u /\ r.op = "update"
    BY <2>1 DEF NoRequest, Request
  <2>3. Goto(p, "idle", "finding", r) /\ UNCHANGED users
    BY <1>2 DEF BeginUpdate
  <2> HIDE DEF r
  <2>4. LocalsOK("finding", r, users)
    BY <2>2 DEF LocalsOK, Known
  <2> QED BY <2>2, <2>3, <2>4, ReadStep DEF PC
<1>3. ASSUME NEW a \in Users, NEW u \in Known, BeginDelete(p, a, u)
      PROVE  Inv' /\ UsersPersist
  <2> DEFINE r == [NoRequest EXCEPT !.op = "delete", !.actor = a, !.target = u]
  <2>1. u \in Users
    BY DEF Inv, UsersOK
  <2>2. r \in Request /\ r.target = u /\ r.actor = a
    BY <2>1 DEF NoRequest, Request
  <2>3. Goto(p, "idle", "finding", r) /\ UNCHANGED users /\ a \in Known
    BY <1>3 DEF BeginDelete, Active
  <2> HIDE DEF r
  <2>4. LocalsOK("finding", r, users)
    BY <2>2, <2>3 DEF LocalsOK, Known
  <2> QED BY <2>2, <2>3, <2>4, ReadStep DEF PC
<1> QED BY <1>1, <1>2, <1>3 DEF Arrive

LEMMA FindKeeps ==
    ASSUME Inv, NEW p \in Procs, FindToUpdate(p) \/ FindToDelete(p)
    PROVE  Inv' /\ UsersPersist
<1> DEFINE r == req[p]
<1>1. r \in Request /\ UNCHANGED users
  BY DEF Inv, FindToUpdate, FindToDelete
<1>2. CASE FindToUpdate(p)
  <2>1. CASE End(p, "finding")
    BY <1>1, <2>1, RejectStep
  <2>2. CASE /\ r.op = "update" /\ TargetOK(r, users)
             /\ Goto(p, "finding", "updating", r)
    <3>1. LocalsOK("updating", r, users)
      BY <2>2 DEF LocalsOK
    <3> QED BY <1>1, <2>2, <3>1, ReadStep DEF PC
  <2>3. CASE /\ r.op = "update" /\ TargetOK(r, users) /\ r.email \in Emails
             /\ Goto(p, "finding", "looking", r)
    <3>1. LocalsOK("looking", r, users)
      BY <2>3 DEF LocalsOK
    <3> QED BY <1>1, <2>3, <3>1, ReadStep DEF PC
  <2>4. r.email \in Emails \cup {None}
    BY <1>1 DEF Request
  <2>5. Active(r.target) => r.target \in Known
    BY DEF Active
  <2> QED BY <1>2, <2>1, <2>2, <2>3, <2>4, <2>5 DEF FindToUpdate, TargetOK, Known
<1>3. CASE FindToDelete(p)
  <2>1. CASE End(p, "finding")
    BY <1>1, <2>1, RejectStep
  <2>2. CASE ~End(p, "finding")
    <3> DEFINE s == [r EXCEPT !.email = users[r.target].email]
    <3>1. /\ Active(r.target) /\ r.target # r.actor /\ r.op = "delete"
          /\ Goto(p, "finding", "deleting", s)
      BY <1>3, <2>2 DEF FindToDelete
    <3>0. r.actor \in Known
      BY <3>1 DEF Goto, Inv, LocalsOK, Known
    <3>2. users[r.target].email \in Emails /\ r.target \in Known
      BY <3>1 DEF Active, Inv, UsersOK, AliasNamesDeleted, Row
    <3>3. /\ s \in Request /\ s.op = "delete" /\ s.target = r.target
          /\ s.email = users[r.target].email /\ s.actor = r.actor
      BY <1>1, <3>1, <3>2 DEF Request
    <3> HIDE DEF s
    <3>4. LocalsOK("deleting", s, users)
      BY <3>0, <3>1, <3>2, <3>3 DEF LocalsOK, Known
    <3> QED BY <1>1, <3>1, <3>3, <3>4, ReadStep DEF PC
  <2> QED BY <2>1, <2>2
<1> QED BY <1>2, <1>3

LEMMA LookUpKeeps ==
    ASSUME Inv, NEW p \in Procs, LookUpEmail(p) PROVE Inv' /\ UsersPersist
<1> DEFINE r == req[p]
<1>1. r \in Request /\ UNCHANGED users
  BY DEF Inv, LookUpEmail
<1>2. pc[p] = "looking" /\ LocalsOK("looking", r, users)
  BY DEF Inv, LookUpEmail, Goto, End
<1>3. CASE End(p, "looking")
  BY <1>1, <1>3, RejectStep
<1>4. CASE Goto(p, "looking", AfterLookUp(r), r)
  <2>1. LocalsOK(AfterLookUp(r), r, users)
    BY <1>2 DEF LocalsOK, AfterLookUp
  <2> QED BY <1>1, <1>4, <2>1, ReadStep DEF PC, AfterLookUp
<1>5. ASSUME NEW o \in Holders(r.email), users[o].deleted,
             Goto(p, "looking", "releasing", [r EXCEPT !.owner = o])
      PROVE  Inv' /\ UsersPersist
  <2> DEFINE s == [r EXCEPT !.owner = o]
  <2>1. o \in Known /\ o \in Users
    BY DEF Holders, Inv, UsersOK
  <2>2. /\ s \in Request /\ s.owner = o /\ s.op = r.op /\ s.target = r.target
        /\ s.master = r.master /\ s.tenant = r.tenant /\ s.email = r.email
    BY <1>1, <2>1 DEF Request
  <2> HIDE DEF s
  <2>3. LocalsOK("releasing", s, users)
    BY <1>2, <1>5, <2>1, <2>2 DEF LocalsOK, TargetOK, Known
  <2> QED BY <1>1, <1>5, <2>2, <2>3, ReadStep DEF PC, s
<1> QED BY <1>1, <1>3, <1>4, <1>5 DEF LookUpEmail

\* The row ReleaseEmail renames is a deleted one.
LEMMA Released ==
    ASSUME Inv, NEW p \in Procs, ReleaseEmail(p)
    PROVE  LET o == req[p].owner  a == AliasOf(req[p].email, o) IN
           /\ LocalsOK("releasing", req[p], users)
           /\ o \in Known /\ users[o].deleted
           /\ a \in Alias /\ a.id = o /\ WriteEmail(o, a)
<1>1. LocalsOK("releasing", req[p], users)
  BY DEF Inv, ReleaseEmail, Goto
<1>2. req[p].owner \in Known /\ req[p].owner \in Users /\ req[p].email \in Emails
  BY <1>1 DEF LocalsOK, Known, Inv, UsersOK
<1> QED BY <1>1, <1>2, AliasType DEF LocalsOK, ReleaseEmail

LEMMA ReleaseKeeps ==
    ASSUME Inv, NEW p \in Procs, ReleaseEmail(p) PROVE Inv' /\ UsersPersist
<1> DEFINE r == req[p]
           s == [r EXCEPT !.owner = None]
<1>1. r \in Request
  BY DEF Inv
<1>2. /\ s \in Request /\ s.op = r.op /\ s.target = r.target
      /\ s.master = r.master /\ s.tenant = r.tenant /\ s.email = r.email
  BY <1>1 DEF Request
<1>3. Goto(p, "releasing", AfterLookUp(r), s)
  BY DEF ReleaseEmail
<1> HIDE DEF s
<1>4. UsersOK' /\ UsersPersist
  BY Released, WriteKeeps DEF Inv
<1>5. LocalsOK(AfterLookUp(r), s, users)
  BY <1>2, Released DEF LocalsOK, TargetOK, AfterLookUp
<1>6. LocalsOK(AfterLookUp(r), s, users')
  BY <1>4, <1>5, LocalsKept
<1> QED BY <1>2, <1>3, <1>4, <1>6, RequestStep DEF PC, AfterLookUp

\* What UpdateUser writes.
LEMMA Updated ==
    ASSUME Inv, NEW p \in Procs, UpdateUser(p)
    PROVE  /\ req[p].target \in Known
           /\ req[p].master => users[req[p].target].tenant = req[p].tenant
           /\ \/ UNCHANGED users
              \/ req[p].email \in Emails /\ WriteEmail(req[p].target, req[p].email)
<1>1. LocalsOK("updating", req[p], users)
  BY DEF Inv, UpdateUser, End, Goto
<1>2. req[p].email \in Emails \cup {None}
  BY DEF Inv, Request
<1> QED BY <1>1, <1>2 DEF LocalsOK, TargetOK, UpdateUser, Known

LEMMA UpdateKeeps ==
    ASSUME Inv, NEW p \in Procs, UpdateUser(p) PROVE Inv' /\ UsersPersist
<1>1. End(p, "updating")
  BY DEF UpdateUser
<1>2. CASE UNCHANGED users
  BY <1>1, <1>2, RejectStep
<1>3. CASE req[p].email \in Emails /\ WriteEmail(req[p].target, req[p].email)
  <2>1. UsersOK' /\ UsersPersist
    BY <1>3, Updated, WriteKeeps, AccountsAssumption DEF Inv
  <2> QED BY <1>1, <2>1, EndStep
<1> QED BY <1>2, <1>3, Updated

LEMMA NextInv == Inv /\ [Next]_vars => Inv' /\ UsersPersist
<1> SUFFICES ASSUME Inv, [Next]_vars PROVE Inv' /\ UsersPersist
  OBVIOUS
<1>1. CASE UNCHANGED vars
  BY <1>1 DEF vars, Inv, UsersOK, Known, AliasNamesDeleted, UniqueEmails, LocalsOK, TargetOK,
              UsersPersist
<1>2. ASSUME NEW p \in Procs, Proceed(p) PROVE Inv' /\ UsersPersist
  <2>1. ASSUME NEW u \in Users, InsertUser(p, u) PROVE Inv' /\ UsersPersist
    BY <2>1, InsertKeeps, EndStep DEF InsertUser
  <2>2. CASE DeleteUser(p)
    BY <2>2, DeleteKeeps, EndStep DEF DeleteUser
  <2> QED BY <1>2, <2>1, <2>2, FindKeeps, LookUpKeeps, ReleaseKeeps, UpdateKeeps DEF Proceed
<1>3. ASSUME NEW p \in Procs, Fail(p) PROVE Inv' /\ UsersPersist
  BY <1>3, RejectStep DEF Fail
<1> QED BY <1>1, <1>2, <1>3, ArriveKeeps DEF Next

LEMMA Invariance == Spec => []Inv
BY InitInv, NextInv, PTL DEF Spec

\* Type correctness, with aliases made of addresses only.
THEOREM TypeCorrect == Spec => []TypeOK
<1>1. Inv => TypeOK
  BY DEF Inv, UsersOK, TypeOK
<1> QED BY <1>1, Invariance, PTL

\* Only deleted rows hold an alias, and it is their own.
THEOREM AliasTheorem == Spec => []AliasNamesDeleted
<1>1. Inv => AliasNamesDeleted
  BY DEF Inv, UsersOK
<1> QED BY <1>1, Invariance, PTL

-----------------------------------------------------------------------------
(* What a step of one request does to the table.                           *)

\* Every step that writes the table is one of these four.
LEMMA Writes ==
    ASSUME Inv, [Next]_vars
    PROVE  \/ UNCHANGED users
           \/ \E p \in Procs : \/ ReleaseEmail(p) \/ UpdateUser(p) \/ DeleteUser(p)
                              \/ \E u \in Users : InsertUser(p, u)
BY DEF Next, Arrive, Proceed, Fail, BeginCreate, BeginUpdate, BeginDelete, FindToUpdate,
       FindToDelete, LookUpEmail, vars

\* A request's own step is the only one that moves it.
LEMMA MovesAlone ==
    ASSUME Inv, NEW p \in Procs, NEW q \in Procs, pc'[p] # pc[p],
           \/ ReleaseEmail(q) \/ UpdateUser(q) \/ DeleteUser(q)
           \/ \E u \in Users : InsertUser(q, u)
    PROVE  p = q
BY DEF Inv, ReleaseEmail, UpdateUser, DeleteUser, InsertUser, End, Goto

LEMMA WriteOthers ==
    ASSUME NEW u \in Known, NEW e, WriteEmail(u, e)
    PROVE  Known' = Known /\ \A v \in Known \ {u} : users'[v] = users[v]
BY DEF WriteEmail, Known

LEMMA NextMaster ==
    ASSUME Inv, [Next]_vars, NEW p \in Procs, req[p].op = "update", req[p].master,
           pc'[p] # pc[p], NEW v \in Known, users'[v] # users[v]
    PROVE  users[v].deleted \/ users[v].tenant = req[p].tenant
<1>1. CASE ReleaseEmail(p)
  BY <1>1, Released, WriteOthers
<1>2. CASE UpdateUser(p)
  BY <1>2, Updated, WriteOthers
<1>3. CASE DeleteUser(p)
  <2>1. req[p].op = "delete"
    BY <1>3, Deleted
  <2> QED BY <2>1
<1>4. ASSUME NEW u \in Users, InsertUser(p, u) PROVE FALSE
  <2>1. users'[v] = users[v]
    BY <1>4, Inserted
  <2> QED BY <2>1
<1> QED BY <1>1, <1>2, <1>3, <1>4, Writes, MovesAlone

\* A request of a MASTER writes no active row of another tenant.
THEOREM MasterTheorem == Spec => MasterStaysHome
<1>1. Inv /\ [Next]_vars =>
        [\A p \in Procs : req[p].op = "update" /\ req[p].master /\ pc'[p] # pc[p] =>
            \A u \in Known : users'[u] # users[u] =>
                users[u].deleted \/ users[u].tenant = req[p].tenant]_vars
  BY NextMaster
<1> QED BY <1>1, Invariance, PTL DEF Spec, MasterStaysHome

LEMMA NextLast ==
    ASSUME Inv, [Next]_vars, NEW p \in Procs, pc[p] = "deleting", pc'[p] # pc[p],
           NEW u \in Known, Active(u), ~(\E v \in Known : Active(v))'
    PROVE  ~Active(req[p].actor)
<1>1. /\ req[p].actor \in Known /\ req[p].actor # req[p].target
  BY DEF Inv, LocalsOK, Known
<1>2. CASE UNCHANGED users
  BY <1>2 DEF Active, Known
<1>3. CASE DeleteUser(p)
  <2>1. Known' = Known /\ users'[req[p].actor] = users[req[p].actor]
    BY <1>1, <1>3, Deleted
  <2> QED BY <1>1, <2>1 DEF Active, Known
<1>4. CASE ReleaseEmail(p) \/ UpdateUser(p) \/ \E v \in Users : InsertUser(p, v)
  BY <1>4 DEF ReleaseEmail, UpdateUser, InsertUser, End, Goto
<1> QED BY <1>2, <1>3, <1>4, Writes, MovesAlone

\* No deletion empties the directory unless its caller was deleted meanwhile.
THEOREM LastTheorem == Spec => NotLastAlone
<1>1. Inv /\ [Next]_vars =>
        [\A p \in Procs :
            /\ pc[p] = "deleting" /\ pc'[p] # pc[p]
            /\ (\E u \in Known : Active(u)) /\ ~(\E u \in Known : Active(u))'
            => ~Active(req[p].actor)]_vars
  BY NextLast
<1> QED BY <1>1, Invariance, PTL DEF Spec, NotLastAlone

-----------------------------------------------------------------------------
(* The refinement of AccountDirectory.                                     *)

Address == [u \in {v \in Known : ~users[v].deleted} |-> users[u].email]
Gone == {u \in Known : users[u].deleted}

\* The abstract accounts are the active rows.
LEMMA AccountsAre ==
    /\ Directory!Accounts = DOMAIN Address
    /\ \A e : Directory!Taken(e) <=> \E u \in DOMAIN Address : users[u].email = e
BY DEF Directory!Accounts, Directory!Taken, Address

\* A row that was deleted before and after does not show.
LEMMA DeletedHidden ==
    ASSUME NEW o \in Known, users[o].deleted, users'[o].deleted, Known' = Known,
           \A v \in Known \ {o} : users'[v] = users[v]
    PROVE  Address' = Address /\ Gone' = Gone
BY DEF Address, Gone

LEMMA WriteRefines ==
    ASSUME UsersOK, NEW u \in Known, NEW e \in Emails, WriteEmail(u, e)
    PROVE  (Address' = Address /\ Gone' = Gone) \/ Directory!Next
<1>1. /\ Known' = Known
      /\ \A v \in Known \ {u} : users'[v] = users[v]
      /\ users'[u].email = e /\ users'[u].deleted = users[u].deleted
  <2>1. users[u] \in Row
    BY DEF UsersOK
  <2>2. users' = [users EXCEPT ![u] = [users[u] EXCEPT !.email = e]]
    BY DEF WriteEmail
  <2> QED BY <2>1, <2>2 DEF Row, Known
<1>2. CASE users[u].deleted
  BY <1>1, <1>2, DeletedHidden
<1>3. CASE ~users[u].deleted
  <2>1. Gone' = Gone
    BY <1>1, <1>3 DEF Gone
  <2>2. DOMAIN Address' = DOMAIN Address /\ u \in DOMAIN Address
    BY <1>1, <1>3 DEF Address
  <2>3. Address' = [Address EXCEPT ![u] = e]
    BY <1>1, <1>3 DEF Address
  <2>4. CASE users[u].email = e
    <3>1. Address' = Address
      BY <2>2, <2>3, <2>4 DEF Address
    <3> QED BY <2>1, <3>1
  <2>5. CASE users[u].email # e
    <3>1. ~Directory!Taken(e)
      BY <2>5, AccountsAre DEF Address, WriteEmail, Holders
    <3>2. Directory!Move(u, e)
      BY <2>1, <2>2, <2>3, <3>1, AccountsAre DEF Directory!Move, Address, Gone
    <3> QED BY <3>2 DEF Directory!Next, UsersOK
  <2> QED BY <2>4, <2>5
<1> QED BY <1>2, <1>3

LEMMA InsertRefines ==
    ASSUME Inv, NEW p \in Procs, NEW u \in Users, InsertUser(p, u)
    PROVE  Directory!Next
<1>0. PICK e \in Emails : e = req[p].email
  BY Inserted
<1>1. /\ u \notin Known /\ Known' = Known \cup {u}
      /\ \A v \in Known : users'[v] = users[v] /\ users[v].email # e
      /\ users'[u].email = e /\ ~users'[u].deleted
  <2> DEFINE row == [email |-> req[p].email, tenant |-> req[p].tenant, deleted |-> FALSE]
  <2>1. row.email = e
    BY <1>0
  <2>2. ~row.deleted
    OBVIOUS
  <2>3. users'[u] = row
    BY Inserted
  <2>4. /\ u \notin Known /\ Known' = Known \cup {u}
        /\ \A v \in Known : users'[v] = users[v] /\ users[v].email # e
    BY <1>0, Inserted
  <2> HIDE DEF row
  <2> QED BY <2>1, <2>2, <2>3, <2>4
<1>2. Gone' = Gone
  BY <1>1 DEF Gone
<1>3. Address' = [v \in DOMAIN Address \cup {u} |-> IF v = u THEN e ELSE Address[v]]
  BY <1>1 DEF Address
<1>4. u \notin DOMAIN Address \cup Gone /\ ~Directory!Taken(e)
  BY <1>1, AccountsAre DEF Address, Gone
<1>5. Directory!Register(u, e)
  BY <1>2, <1>3, <1>4, AccountsAre DEF Directory!Register, Address, Gone
<1> QED BY <1>5 DEF Directory!Next

LEMMA DeleteRefines ==
    ASSUME Inv, NEW p \in Procs, DeleteUser(p)
    PROVE  (Address' = Address /\ Gone' = Gone) \/ Directory!Next
<1>0. PICK u \in Users : u = req[p].target
  BY Deleted DEF Inv, UsersOK
<1>1. /\ u \in Known /\ Known' = Known /\ users'[u].deleted
      /\ \A v \in Known \ {u} : users'[v] = users[v]
  BY <1>0, Deleted
<1>2. CASE users[u].deleted
  BY <1>1, <1>2, DeletedHidden
<1>3. CASE ~users[u].deleted
  <2>1. Gone' = Gone \cup {u} /\ u \in DOMAIN Address
    BY <1>1, <1>3 DEF Gone, Address
  <2>2. Address' = [v \in DOMAIN Address \ {u} |-> Address[v]]
    BY <1>1, <1>3 DEF Address
  <2>3. Directory!Leave(u)
    BY <2>1, <2>2, AccountsAre DEF Directory!Leave, Address, Gone
  <2> QED BY <2>3 DEF Directory!Next
<1> QED BY <1>2, <1>3

LEMMA NextRefines == Inv /\ [Next]_vars => [Directory!Next]_(Directory!vars)
<1> SUFFICES ASSUME Inv, [Next]_vars PROVE [Directory!Next]_(Directory!vars)
  OBVIOUS
<1>1. Address' = Address /\ Gone' = Gone => UNCHANGED Directory!vars
  BY DEF Directory!vars, Address, Gone
<1>2. CASE UNCHANGED users
  BY <1>1, <1>2 DEF Address, Gone, Known
<1>3. ASSUME NEW p \in Procs, ReleaseEmail(p) PROVE [Directory!Next]_(Directory!vars)
  <2>1. Address' = Address /\ Gone' = Gone
    <3> DEFINE o == req[p].owner
               a == AliasOf(req[p].email, o)
    <3>1. o \in Known /\ users[o].deleted /\ WriteEmail(o, a) /\ a \in Alias /\ a.id = o
      BY <1>3, Released
    <3>2. Known' = Known /\ \A v \in Known \ {o} : users'[v] = users[v]
      BY <3>1, WriteOthers
    <3>3. users'[o].deleted
      BY <3>1, WriteKeeps DEF Inv, UsersPersist
    <3> QED BY <3>1, <3>2, <3>3, DeletedHidden
  <2> QED BY <1>1, <2>1
<1>4. ASSUME NEW p \in Procs, UpdateUser(p) PROVE [Directory!Next]_(Directory!vars)
  <2>1. CASE req[p].email \in Emails /\ WriteEmail(req[p].target, req[p].email)
    <3>1. PICK u \in Known, e \in Emails : WriteEmail(u, e)
      BY <1>4, <2>1, Updated
    <3>2. (Address' = Address /\ Gone' = Gone) \/ Directory!Next
      BY <3>1, WriteRefines DEF Inv
    <3> QED BY <1>1, <3>2
  <2> QED BY <1>2, <1>4, <2>1, Updated
<1>5. ASSUME NEW p \in Procs, DeleteUser(p) PROVE [Directory!Next]_(Directory!vars)
  BY <1>1, <1>5, DeleteRefines
<1>6. ASSUME NEW p \in Procs, NEW u \in Users, InsertUser(p, u)
      PROVE  [Directory!Next]_(Directory!vars)
  BY <1>6, InsertRefines
<1> QED BY <1>2, <1>3, <1>4, <1>5, <1>6, Writes

\* The users feature implements a directory of distinct addresses: under every
\* interleaving of creations, updates, deletions and failures.
THEOREM DirectoryTheorem == Spec => DirectorySpec
<1>1. Init => Directory!Init
  <2> SUFFICES ASSUME Init PROVE Directory!Init
    OBVIOUS
  <2>1. /\ Known = Roots
        /\ \A u \in Known : ~users[u].deleted /\ users[u].email \in Emails
    BY DEF Init, Known
  <2>2. Gone = {} /\ Address \in [Roots -> Emails] /\ Roots \in SUBSET Users
    BY <2>1, AccountsAssumption DEF Gone, Address
  <2>3. \A u, v \in DOMAIN Address : users[u].email = users[v].email => u = v
    BY <2>1 DEF Init, Address
  <2> QED BY <2>2, <2>3, AccountsAre DEF Directory!Init, Address, Gone
<1> QED BY <1>1, NextRefines, Invariance, PTL DEF Spec, DirectorySpec, Directory!Spec
-----------------------------------------------------------------------------
(* One request at a time.  What the interleavings cost the directory: with  *)
(* requests that do not overlap, deleted rows hold aliases and aliases      *)
(* only, no address has to be released, and somebody is always left.        *)

OneAtATime == \A p, q \in Procs : p = q

\* The addresses people use are those of active rows.
AddressesFree == \A u \in Known : users[u].deleted <=> users[u].email \in Alias

\* The directory does not lose its last account.
NeverLast == [][(\E u \in Known : Active(u)) => (\E u \in Known : Active(u))']_vars

ActiveIn(u, T) == u \in DOMAIN T /\ ~T[u].deleted

\* What a request that runs alone can rely on when the table is T.
AloneOK(at, r, T) ==
    /\ at # "releasing"
    /\ at \in {"looking", "updating"} /\ r.op = "update" => ActiveIn(r.target, T)
    /\ at \in {"finding", "deleting"} /\ r.op = "delete" => ActiveIn(r.actor, T)

Alone ==
    /\ \A u \in Known : users[u].deleted => users[u].email \in Alias
    /\ \A p \in Procs : AloneOK(pc[p], req[p], users)

LEMMA InitAlone == Init => Alone
BY DEF Init, Alone, AloneOK, Known

\* The only request moves, and leaves deleted rows with aliases.
LEMMA AloneStep ==
    ASSUME Inv, OneAtATime, NEW p \in Procs, NEW from, NEW to \in PC, NEW r \in Request,
           Goto(p, from, to, r), AloneOK(to, r, users'),
           \A u \in Known' : users'[u].deleted => users'[u].email \in Alias
    PROVE  Alone'
<1>1. ASSUME NEW q \in Procs PROVE AloneOK(pc[q], req[q], users)'
  <2>1. q = p
    BY DEF OneAtATime
  <2>2. pc'[q] = to /\ req'[q] = r
    BY <2>1, GotoMoves
  <2> QED BY <2>2 DEF AloneOK, ActiveIn
<1> QED BY <1>1 DEF Alone

LEMMA AloneRead ==
    ASSUME Inv, Alone, OneAtATime, NEW p \in Procs, NEW from, NEW to \in PC, NEW r \in Request,
           Goto(p, from, to, r), AloneOK(to, r, users), UNCHANGED users
    PROVE  Alone'
<1>1. AloneOK(to, r, users')
  BY DEF AloneOK, ActiveIn
<1>2. \A u \in Known' : users'[u].deleted => users'[u].email \in Alias
  BY DEF Alone, Known
<1> QED BY <1>1, <1>2, AloneStep

LEMMA AloneEnd ==
    ASSUME Inv, OneAtATime, NEW p \in Procs, NEW from, End(p, from),
           \A u \in Known' : users'[u].deleted => users'[u].email \in Alias
    PROVE  Alone'
<1>1. AloneOK("idle", NoRequest, users')
  BY DEF AloneOK
<1> QED BY <1>1, NoRequestOK, AloneStep DEF End, PC

LEMMA AloneReject ==
    ASSUME Inv, Alone, OneAtATime, NEW p \in Procs, NEW from, End(p, from), UNCHANGED users
    PROVE  Alone'
BY AloneEnd DEF Alone, Known

LEMMA ArriveAlone ==
    ASSUME Inv, Alone, OneAtATime, NEW p \in Procs, Arrive(p) PROVE Alone'
<1>1. ASSUME NEW a \in Users, NEW e \in Emails, BeginCreate(p, a, e) PROVE Alone'
  <2> DEFINE r == [NoRequest EXCEPT !.op = "create", !.tenant = users[a].tenant, !.email = e]
  <2>1. users[a].tenant \in Tenants \cup {None}
    BY <1>1 DEF BeginCreate, Active, Inv, UsersOK, Row
  <2>2. r \in Request /\ r.op = "create"
    BY <2>1 DEF NoRequest, Request
  <2>3. Goto(p, "idle", "looking", r) /\ UNCHANGED users
    BY <1>1 DEF BeginCreate
  <2> HIDE DEF r
  <2>4. AloneOK("looking", r, users)
    BY <2>2 DEF AloneOK
  <2> QED BY <2>2, <2>3, <2>4, AloneRead DEF PC
<1>2. ASSUME NEW a \in Users, NEW u \in Known, NEW e \in Emails \cup {None},
             NEW master \in BOOLEAN, BeginUpdate(p, a, u, e, master)
      PROVE  Alone'
  <2> DEFINE t == IF master THEN users[a].tenant ELSE None
             r == [NoRequest EXCEPT !.op = "update", !.master = master, !.target = u,
                                    !.email = e, !.tenant = t]
  <2>1. t \in Tenants \cup {None} /\ u \in Users
    BY <1>2 DEF BeginUpdate, Active, Inv, UsersOK, Row
  <2>2. r \in Request /\ r.op = "update"
    BY <2>1 DEF NoRequest, Request
  <2>3. Goto(p, "idle", "finding", r) /\ UNCHANGED users
    BY <1>2 DEF BeginUpdate
  <2> HIDE DEF r
  <2>4. AloneOK("finding", r, users)
    BY <2>2 DEF AloneOK
  <2> QED BY <2>2, <2>3, <2>4, AloneRead DEF PC
<1>3. ASSUME NEW a \in Users, NEW u \in Known, BeginDelete(p, a, u) PROVE Alone'
  <2> DEFINE r == [NoRequest EXCEPT !.op = "delete", !.actor = a, !.target = u]
  <2>1. u \in Users
    BY DEF Inv, UsersOK
  <2>2. r \in Request /\ r.actor = a
    BY <2>1 DEF NoRequest, Request
  <2>3. Goto(p, "idle", "finding", r) /\ UNCHANGED users /\ ActiveIn(a, users)
    BY <1>3 DEF BeginDelete, Active, ActiveIn, Known
  <2> HIDE DEF r
  <2>4. AloneOK("finding", r, users)
    BY <2>2, <2>3 DEF AloneOK
  <2> QED BY <2>2, <2>3, <2>4, AloneRead DEF PC
<1> QED BY <1>1, <1>2, <1>3 DEF Arrive

LEMMA FindAlone ==
    ASSUME Inv, Alone, OneAtATime, NEW p \in Procs, FindToUpdate(p) \/ FindToDelete(p)
    PROVE  Alone'
<1> DEFINE r == req[p]
<1>1. r \in Request /\ UNCHANGED users /\ AloneOK(pc[p], r, users)
  BY DEF Inv, Alone, FindToUpdate, FindToDelete
<1>2. CASE FindToUpdate(p)
  <2>1. CASE End(p, "finding")
    BY <1>1, <2>1, AloneReject
  <2>2. ASSUME NEW to \in {"looking", "updating"}, Active(r.target), Goto(p, "finding", to, r)
        PROVE  Alone'
    <3>1. AloneOK(to, r, users)
      BY <1>2, <2>2 DEF AloneOK, FindToUpdate, Active, ActiveIn, Known
    <3> QED BY <1>1, <2>2, <3>1, AloneRead DEF PC
  <2> QED BY <1>2, <2>1, <2>2 DEF FindToUpdate
<1>3. CASE FindToDelete(p)
  <2>1. CASE End(p, "finding")
    BY <1>1, <2>1, AloneReject
  <2>2. CASE ~End(p, "finding")
    <3> DEFINE s == [r EXCEPT !.email = users[r.target].email]
    <3>1. Active(r.target) /\ r.op = "delete" /\ Goto(p, "finding", "deleting", s)
      BY <1>3, <2>2 DEF FindToDelete
    <3>2. users[r.target].email \in Emails
      BY <3>1 DEF Active, Inv, UsersOK, AliasNamesDeleted, Row
    <3>3. s \in Request /\ s.op = "delete" /\ s.actor = r.actor
      BY <1>1, <3>1, <3>2 DEF Request
    <3>4. ActiveIn(r.actor, users)
      BY <1>1, <3>1 DEF Goto, AloneOK
    <3> HIDE DEF s
    <3>5. AloneOK("deleting", s, users)
      BY <3>3, <3>4 DEF AloneOK
    <3> QED BY <1>1, <3>1, <3>3, <3>5, AloneRead DEF PC
  <2> QED BY <2>1, <2>2
<1> QED BY <1>2, <1>3

\* A look-up of an address people use finds no deleted holder.
LEMMA LookUpAlone ==
    ASSUME Inv, Alone, OneAtATime, NEW p \in Procs, LookUpEmail(p) PROVE Alone'
<1> DEFINE r == req[p]
<1>1. /\ r \in Request /\ UNCHANGED users /\ AloneOK("looking", r, users)
      /\ LocalsOK("looking", r, users)
  BY DEF Inv, Alone, LookUpEmail, Goto, End
<1>2. CASE End(p, "looking")
  BY <1>1, <1>2, AloneReject
<1>3. CASE Goto(p, "looking", AfterLookUp(r), r)
  <2>1. AloneOK(AfterLookUp(r), r, users) /\ AfterLookUp(r) \in PC
    BY <1>1 DEF AloneOK, LocalsOK, AfterLookUp, PC
  <2> QED BY <1>1, <1>3, <2>1, AloneRead
<1>4. ASSUME NEW o \in Holders(r.email), users[o].deleted PROVE FALSE
  <2>1. r.email \in Emails /\ users[o].email = r.email /\ o \in Known
    BY <1>1 DEF LocalsOK, Holders
  <2> QED BY <1>4, <2>1, AccountsAssumption DEF Alone
<1> QED BY <1>2, <1>3, <1>4 DEF LookUpEmail

LEMMA WriteAlone ==
    ASSUME Inv, Alone, OneAtATime, NEW p \in Procs,
           UpdateUser(p) \/ DeleteUser(p) \/ \E u \in Users : InsertUser(p, u)
    PROVE  Alone'
<1>1. CASE UpdateUser(p)
  <2>1. CASE UNCHANGED users
    BY <1>1, <2>1, AloneReject DEF UpdateUser
  <2>2. CASE req[p].email \in Emails /\ WriteEmail(req[p].target, req[p].email)
    <3> DEFINE u == req[p].target
    <3>1. u \in Known /\ ~users[u].deleted
      BY <1>1 DEF Alone, AloneOK, ActiveIn, UpdateUser, End, Goto, Known, Inv, LocalsOK
    <3>2. Known' = Known /\ \A v \in Known \ {u} : users'[v] = users[v]
      BY <2>2, <3>1, WriteOthers
    <3>3. users'[u].deleted = users[u].deleted
      <4>1. users[u] \in Row
        BY <3>1 DEF Inv, UsersOK
      <4>2. users' = [users EXCEPT ![u] = [users[u] EXCEPT !.email = req[p].email]]
        BY <2>2 DEF WriteEmail
      <4> QED BY <3>1, <4>1, <4>2 DEF Row, Known
    <3>4. \A v \in Known' : users'[v].deleted => users'[v].email \in Alias
      BY <3>1, <3>2, <3>3 DEF Alone
    <3> QED BY <1>1, <3>4, AloneEnd DEF UpdateUser
  <2> QED BY <1>1, <2>1, <2>2, Updated
<1>2. CASE DeleteUser(p)
  <2>1. \A v \in Known' : users'[v].deleted => users'[v].email \in Alias
    BY <1>2, Deleted DEF Alone
  <2> QED BY <1>2, <2>1, AloneEnd DEF DeleteUser
<1>3. ASSUME NEW u \in Users, InsertUser(p, u) PROVE Alone'
  <2>1. ~users'[u].deleted
    <3> DEFINE row == [email |-> req[p].email, tenant |-> req[p].tenant, deleted |-> FALSE]
    <3>1. users'[u] = row /\ ~row.deleted
      BY <1>3, Inserted
    <3> QED BY <3>1
  <2>2. Known' = Known \cup {u} /\ \A v \in Known : users'[v] = users[v]
    BY <1>3, Inserted
  <2>3. \A v \in Known' : users'[v].deleted => users'[v].email \in Alias
    BY <2>1, <2>2 DEF Alone
  <2> QED BY <1>3, <2>3, AloneEnd DEF InsertUser
<1> QED BY <1>1, <1>2, <1>3

LEMMA NextAlone == Inv /\ Alone /\ OneAtATime /\ [Next]_vars => Alone'
<1> SUFFICES ASSUME Inv, Alone, OneAtATime, [Next]_vars PROVE Alone'
  OBVIOUS
<1>1. CASE UNCHANGED vars
  BY <1>1 DEF vars, Alone, AloneOK, ActiveIn, Known
<1>2. ASSUME NEW p \in Procs, ReleaseEmail(p) PROVE Alone'
  BY <1>2 DEF Alone, AloneOK, ReleaseEmail, Goto
<1>3. ASSUME NEW p \in Procs, Fail(p) PROVE Alone'
  BY <1>3, AloneReject DEF Fail
<1> QED BY <1>1, <1>2, <1>3, ArriveAlone, FindAlone, LookUpAlone, WriteAlone DEF Next, Proceed

LEMMA AloneInvariance == ASSUME OneAtATime PROVE Spec => []Alone
BY InitAlone, NextAlone, Invariance, PTL DEF Spec

\* Requests that do not overlap: an address can be registered again as soon as its
\* holder is deleted (user-delete.service.ts:48), without releasing it first.
THEOREM SerialAddresses == ASSUME OneAtATime PROVE Spec => []AddressesFree
<1>1. Inv /\ Alone => AddressesFree
  BY DEF Inv, UsersOK, AliasNamesDeleted, Alone, AddressesFree
<1> QED BY <1>1, Invariance, AloneInvariance, PTL

LEMMA NextNeverLast ==
    ASSUME Inv, Alone, [Next]_vars, NEW u \in Known, Active(u)
    PROVE  (\E v \in Known : Active(v))'
<1>1. ASSUME NEW p \in Procs, DeleteUser(p) PROVE (\E v \in Known : Active(v))'
  <2> DEFINE a == req[p].actor
  <2>1. a \in Known /\ ~users[a].deleted /\ a # req[p].target
    BY <1>1 DEF Alone, AloneOK, ActiveIn, Inv, LocalsOK, DeleteUser, End, Goto, Known
  <2>2. a \in Known' /\ ~users'[a].deleted
    BY <1>1, <2>1, Deleted
  <2> QED BY <2>2 DEF Active, Known
<1>2. ASSUME NEW p \in Procs, ReleaseEmail(p) PROVE FALSE
  BY <1>2 DEF Alone, AloneOK, ReleaseEmail, Goto
<1>3. ASSUME NEW p \in Procs, UpdateUser(p) PROVE (\E v \in Known : Active(v))'
  <2>1. CASE UNCHANGED users
    BY <2>1 DEF Active, Known
  <2>2. CASE req[p].email \in Emails /\ WriteEmail(req[p].target, req[p].email)
    <3>1. PICK w \in Known, e \in Emails : WriteEmail(w, e)
      BY <1>3, <2>2, Updated
    <3>2. Known' = Known /\ \A v \in Known \ {w} : users'[v] = users[v]
      BY <3>1, WriteOthers
    <3>3. users'[w].deleted = users[w].deleted
      <4>1. users[w] \in Row
        BY DEF Inv, UsersOK
      <4>2. users' = [users EXCEPT ![w] = [users[w] EXCEPT !.email = e]]
        BY <3>1 DEF WriteEmail
      <4> QED BY <4>1, <4>2 DEF Row, Known
    <3> QED BY <3>2, <3>3 DEF Active, Known
  <2> QED BY <1>3, <2>1, <2>2, Updated
<1>4. ASSUME NEW p \in Procs, NEW v \in Users, InsertUser(p, v)
      PROVE  (\E w \in Known : Active(w))'
  <2>1. u \in Known' /\ users'[u] = users[u]
    BY <1>4, Inserted
  <2> QED BY <2>1 DEF Active, Known
<1>5. CASE UNCHANGED users
  BY <1>5 DEF Active, Known
<1> QED BY <1>1, <1>2, <1>3, <1>4, <1>5, Writes

\* Requests that do not overlap: "cannot delete yourself" (user-delete.service.ts:41)
\* is enough for somebody to be left.
THEOREM SerialLast == ASSUME OneAtATime PROVE Spec => NeverLast
<1>1. Inv /\ Alone /\ [Next]_vars =>
        [(\E u \in Known : Active(u)) => (\E u \in Known : Active(u))']_vars
  BY NextNeverLast
<1> QED BY <1>1, Invariance, AloneInvariance, PTL DEF Spec, NeverLast
=============================================================================
