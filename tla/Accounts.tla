------------------------------- MODULE Accounts -------------------------------
(***************************************************************************)
(* The rows of table users: who has which e-mail address, in which tenant. *)
(*                                                                         *)
(*   create   UserCreateService.create and AdminUsersCreateService.create, *)
(*            up to the insertion of the user (then see UserTokens)        *)
(*   update   UserUpdateService.update                                     *)
(*   delete   UserDeleteService.delete (its effect on users)               *)
(*                                                                         *)
(* A request is a process and a step ends at a statement sent to the       *)
(* database.  Rows are never removed: a deletion sets deletedAt and        *)
(* replaces the address by an alias "<address>__deleted__<id>", which      *)
(* IsEmail accepts in no request.  The address column is unique.           *)
(* Passwords are in UserTokens.  Names, the unused status and roles are    *)
(* left out, except that a caller may be a MASTER.                         *)
(***************************************************************************)
EXTENDS FiniteSets

CONSTANTS
    Users,     \* BOUND: ids that rows can get
    Roots,     \* the users the database holds at the start
    Emails,    \* addresses people use
    Tenants,
    Procs,     \* requests that can be in flight at once
    None       \* "undefined"

Alias == [of : Emails, id : Users]

ASSUME AccountsAssumption ==
    /\ Roots \subseteq Users
    /\ Emails \cap Alias = {}
    /\ None \notin Users \cup Emails \cup Tenants

VARIABLES
    users,   \* table users: partial function on Users
    pc,
    req

vars == <<users, pc, req>>

Row == [email : Emails \cup Alias, tenant : Tenants \cup {None}, deleted : BOOLEAN]

PC == {"idle", "finding", "looking", "releasing", "inserting", "updating", "deleting"}

Request == [op     : {"create", "update", "delete", None},
            actor  : Users \cup {None},             \* currentUser
            tenant : Tenants \cup {None},           \* its tenant
            master : BOOLEAN,                       \* its role is MASTER
            target : Users \cup {None},
            email  : Emails \cup {None},            \* the address asked for, or read
            owner  : Users \cup {None}]             \* the deleted holder of email

NoRequest == [op |-> None, actor |-> None, tenant |-> None, master |-> FALSE,
              target |-> None, email |-> None, owner |-> None]

Known == DOMAIN users

Active(u) == u \in Known /\ ~users[u].deleted

Init ==
    /\ users \in [Roots -> [email : Emails, tenant : Tenants \cup {None}, deleted : {FALSE}]]
    /\ \A u, v \in Roots : users[u].email = users[v].email => u = v
    /\ pc = [p \in Procs |-> "idle"]
    /\ req = [p \in Procs |-> NoRequest]

-----------------------------------------------------------------------------
(* Helpers.                                                                *)

Goto(p, from, to, r) ==
    /\ pc[p] = from
    /\ pc' = [pc EXCEPT ![p] = to]
    /\ req' = [req EXCEPT ![p] = r]

End(p, from) == Goto(p, from, "idle", NoRequest)

\* buildDeletedEmailAlias
AliasOf(e, u) == [of |-> e, id |-> u]

Holders(e) == {u \in Known : users[u].email = e}

\* MUTANT of WriteEmail: the column is not unique.
WriteAnyEmail(u, e) ==
    users' = [users EXCEPT ![u].email = e]

\* user.update of the address, when the unique column admits it.
WriteEmail(u, e) ==
    /\ Holders(e) \subseteq {u}
    /\ users' = [users EXCEPT ![u].email = e]

-----------------------------------------------------------------------------
(* Requests arrive: JwtStrategy reads the caller, who must be active.      *)

\* A super administrator's request (AdminUsersCreateService) is one whose caller
\* has no tenant: the new user has none either.
BeginCreate(p, a, e) ==
    /\ Active(a)
    /\ Goto(p, "idle", "looking",
            [NoRequest EXCEPT !.op = "create", !.tenant = users[a].tenant, !.email = e])
    /\ UNCHANGED users

BeginUpdate(p, a, u, e, master) ==
    /\ Active(a)
    /\ Goto(p, "idle", "finding",
            [NoRequest EXCEPT !.op = "update", !.master = master, !.target = u, !.email = e,
                              !.tenant = IF master THEN users[a].tenant ELSE None])
    /\ UNCHANGED users

BeginDelete(p, a, u) ==
    /\ Active(a)
    /\ Goto(p, "idle", "finding",
            [NoRequest EXCEPT !.op = "delete", !.actor = a, !.target = u])
    /\ UNCHANGED users

-----------------------------------------------------------------------------
(* The look-ups.                                                           *)

\* MUTANT of FindToUpdate: the tenant of the caller is not compared.
FindAnyTenant(p) ==
    LET r == req[p] IN
    /\ r.op = "update"
    /\ Active(r.target)
    /\ Goto(p, "finding",
            IF r.email \in {None, users[r.target].email} THEN "updating" ELSE "looking", r)
    /\ UNCHANGED users

\* update reads its target; a MASTER may update its own tenant's users only.  The
\* address is looked up when it differs from the one read here.
FindToUpdate(p) ==
    LET r == req[p] IN
    /\ r.op = "update"
    /\ IF Active(r.target) /\ (r.master => users[r.target].tenant = r.tenant)
         THEN Goto(p, "finding",
                   IF r.email \in {None, users[r.target].email} THEN "updating" ELSE "looking",
                   r)
         ELSE End(p, "finding")
    /\ UNCHANGED users

\* MUTANT of FindToDelete: deleted users are found as well.
FindAnyToDelete(p) ==
    LET r == req[p] IN
    /\ r.op = "delete"
    /\ IF r.target # r.actor
         THEN Goto(p, "finding", "deleting", [r EXCEPT !.email = users[r.target].email])
         ELSE End(p, "finding")
    /\ UNCHANGED users

\* MUTANT of FindToDelete: a caller may delete itself.
FindSelfToDelete(p) ==
    LET r == req[p] IN
    /\ r.op = "delete"
    /\ IF Active(r.target)
         THEN Goto(p, "finding", "deleting", [r EXCEPT !.email = users[r.target].email])
         ELSE End(p, "finding")
    /\ UNCHANGED users

\* delete reads its target, with the address it will turn into an alias.
FindToDelete(p) ==
    LET r == req[p] IN
    /\ r.op = "delete"
    /\ IF Active(r.target) /\ r.target # r.actor
         THEN Goto(p, "finding", "deleting", [r EXCEPT !.email = users[r.target].email])
         ELSE End(p, "finding")
    /\ UNCHANGED users

AfterLookUp(r) == IF r.op = "create" THEN "inserting" ELSE "updating"

\* MUTANT of LookUpEmail: whoever holds the address is moved to an alias.
LookUpAnyEmail(p) ==
    LET r == req[p] IN
    /\ IF Holders(r.email) = {}
         THEN Goto(p, "looking", AfterLookUp(r), r)
         ELSE \E o \in Holders(r.email) :
                Goto(p, "looking", "releasing", [r EXCEPT !.owner = o])
    /\ UNCHANGED users

\* user.findUnique by address: free, held by a deleted user, or in use.
LookUpEmail(p) ==
    LET r == req[p] IN
    /\ IF Holders(r.email) = {}
         THEN Goto(p, "looking", AfterLookUp(r), r)
         ELSE \E o \in Holders(r.email) :
                IF users[o].deleted
                  THEN Goto(p, "looking", "releasing", [r EXCEPT !.owner = o])
                  ELSE End(p, "looking")
    /\ UNCHANGED users

-----------------------------------------------------------------------------
(* The writes.                                                             *)

\* The deleted holder of the address gets its alias, so that the address is free.
ReleaseEmail(p) ==
    LET r == req[p] IN
    /\ Goto(p, "releasing", AfterLookUp(r), [r EXCEPT !.owner = None])
    /\ WriteEmail(r.owner, AliasOf(r.email, r.owner))

InsertUser(p, u) ==
    LET r == req[p] IN
    /\ End(p, "inserting")
    /\ u \notin Known
    /\ Holders(r.email) = {}
    /\ users' = [v \in Known \cup {u} |->
                   IF v = u THEN [email |-> r.email, tenant |-> r.tenant, deleted |-> FALSE]
                            ELSE users[v]]

\* The transaction writes by id, whether or not the row was deleted since.
UpdateUser(p) ==
    LET r == req[p] IN
    /\ End(p, "updating")
    /\ IF r.email = None THEN UNCHANGED users ELSE WriteEmail(r.target, r.email)

DeleteUser(p) ==
    LET r == req[p]
        a == AliasOf(r.email, r.target)
    IN  /\ End(p, "deleting")
        /\ Holders(a) \subseteq {r.target}
        /\ users' = [users EXCEPT ![r.target].email = a, ![r.target].deleted = TRUE]

\* The request ends where it is: an unknown role profile, a password that is the
\* old one, a unique address taken in the meantime, or a crash.
Fail(p) ==
    /\ pc[p] # "idle"
    /\ End(p, pc[p])
    /\ UNCHANGED users

Arrive(p) ==
    \E a \in Users :
        \/ \E e \in Emails : BeginCreate(p, a, e)
        \/ \E u \in Known, e \in Emails \cup {None}, master \in BOOLEAN :
               BeginUpdate(p, a, u, e, master)
        \/ \E u \in Known : BeginDelete(p, a, u)

Proceed(p) ==
    \/ FindToUpdate(p)
    \/ FindToDelete(p)
    \/ LookUpEmail(p)
    \/ ReleaseEmail(p)
    \/ \E u \in Users : InsertUser(p, u)
    \/ UpdateUser(p)
    \/ DeleteUser(p)

Next == \E p \in Procs : Arrive(p) \/ Proceed(p) \/ Fail(p)

Spec == Init /\ [][Next]_vars

-----------------------------------------------------------------------------
(* Properties.                                                             *)

\* The type invariant.  An alias is made of an address, never of another alias,
\* although delete and the two look-ups build it from whatever they read.
TypeOK ==
    /\ Known \subseteq Users
    /\ \A u \in Known : users[u] \in Row
    /\ pc \in [Procs -> PC]
    /\ req \in [Procs -> Request]

\* An alias names the row that holds it, and that row is deleted
\* (user-create.service.ts:56, user-update.service.ts:76): a look-up that found a
\* deleted holder never turns an active user's address into an alias.
AliasNamesDeleted ==
    \A u \in Known : users[u].email \in Alias =>
        users[u].deleted /\ users[u].email.id = u

\* A request of a MASTER changes no active user of another tenant
\* (user-update.service.ts:47), not even through the release of an address.
MasterStaysHome ==
    [][\A p \in Procs : req[p].op = "update" /\ req[p].master /\ pc'[p] # pc[p] =>
          \A u \in Known : users'[u] # users[u] =>
              users[u].deleted \/ users[u].tenant = req[p].tenant]_vars

\* "Cannot delete yourself" (user-delete.service.ts:41) looks at one request, so the
\* directory can still lose its last account, but to no request alone: a deletion
\* that leaves nobody is one whose caller another request deleted meanwhile.
NotLastAlone ==
    [][\A p \in Procs :
          /\ pc[p] = "deleting" /\ pc'[p] # pc[p]
          /\ (\E u \in Known : Active(u)) /\ ~(\E u \in Known : Active(u))'
          => ~Active(req[p].actor)]_vars

\* The implementation refines AccountDirectory.
Directory == INSTANCE AccountDirectory WITH
    address <- [u \in {v \in Known : ~users[v].deleted} |-> users[u].email],
    gone <- {u \in Known : users[u].deleted}

DirectorySpec == Directory!Spec
=============================================================================
