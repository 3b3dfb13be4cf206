--------------------------- MODULE UserTokens_proofs ---------------------------
(***************************************************************************)
(* Theorems about UserTokens, for any number of users, requests, tokens,   *)
(* ticks and faults.                                                       *)
(***************************************************************************)
EXTENDS UserTokens, FiniteSetTheorems, TLAPS

-----------------------------------------------------------------------------
(* The inductive invariant.                                                *)

\* Where a request has drawn a token that it has not mailed, and not stored.
Issuing == {"overwriting", "discarding", "creating", "mailing"}

Early == {"overwriting", "discarding", "creating"}

\* What a request at `at` knows, when the tokens are T and those in M were mailed.
LocalsOK(at, r, T, M) ==
    /\ at \in Issuing => r.user \in Users /\ r.type \in Type /\ r.id \in Ids \ M
    /\ at \in Early => r.id \notin DOMAIN T
    /\ at = "verifying" => r.id \in Ids
    /\ at \in {"resetting", "completing"} => r.user \in Users /\ r.id \in Ids \cap M /\ r.new \in Chosen
    /\ at = "resetting" /\ r.id \in DOMAIN T => T[r.id].codeVerified
    /\ at = "completing" /\ r.id \in DOMAIN T => T[r.id].type = "FIRST_ACCESS"
    /\ at = "changing" => r.user \in Users /\ r.new \in Chosen
    /\ at = "deleting" => r.user \in Users

\* Random values are drawn once.
DrawnOnce ==
    /\ \A i \in Stored \cup mailed : i < next
    /\ \A p \in Procs : pc[p] \in Issuing => req[p].id < next
    /\ \A p, q \in Procs : pc[p] \in Issuing /\ pc[q] \in Issuing /\ req[p].id = req[q].id => p = q

Inv ==
    /\ TypeOK
    /\ DrawnOnce
    /\ ChangesAreEarned
    /\ \A p \in Procs : LocalsOK(pc[p], req[p], tokens, mailed)

-----------------------------------------------------------------------------
(* A step.                                                                 *)

LEMMA Constants ==
    /\ Ttl \in Nat /\ AdminTtl \in Nat /\ MaxIds \in Nat /\ MaxNow \in Nat /\ MaxFaults \in Nat
    /\ \A i \in Ids : i \in Nat
    /\ Ids \subseteq Password /\ Chosen \subseteq Password
BY ConstantAssumption DEF Ids, Password

\* The types of everything but the requests.
DataTypes ==
    /\ now \in 0..MaxNow
    /\ status \in [Users -> {"absent", "active", "deleted"}]
    /\ password \in [Users -> Password]
    /\ Stored \subseteq Ids
    /\ \A i \in Stored : tokens[i] \in Row
    /\ mailed \subseteq Ids
    /\ next \in 1..MaxIds + 1
    /\ faults \in 0..MaxFaults
    /\ cutShort \subseteq Ids
    /\ uses \in [Ids -> Nat]

\* What any step does to tokens: they only ripen, the spent ones stay, and a row
\* that is new was not mailed before.
Ripens ==
    /\ mailed \subseteq mailed'
    /\ \A i \in Stored \cap Stored' :
          /\ tokens'[i].user = tokens[i].user /\ tokens'[i].type = tokens[i].type
          /\ tokens[i].used => tokens'[i].used
          /\ tokens[i].codeVerified => tokens'[i].codeVerified
    /\ \A i \in Stored : tokens[i].used => i \in Stored'
    /\ \A i \in Stored' \ Stored : i \notin mailed
    /\ next <= next'

\* The ids that a step makes stored or mailed are not those of other requests.
Own(p) ==
    /\ \A i \in (Stored' \ Stored) \cup (mailed' \ mailed) :
          i < next' /\ \A q \in Procs \ {p} : pc[q] \in Issuing => req[q].id # i
    /\ pc'[p] \in Issuing =>
          /\ req'[p].id < next'
          /\ \A q \in Procs \ {p} : pc[q] \in Issuing => req[q].id # req'[p].id

\* A change was earned already, or is now.
Earns ==
    \A i \in Ids : uses'[i] > 0 =>
        \/ uses[i] > 0
        \/ /\ i \in mailed' /\ i \in Stored' /\ tokens'[i].used
           /\ tokens'[i].type = "FORGOT_PASSWORD" => tokens'[i].codeVerified

LEMMA EarnedStays ==
    ASSUME ChangesAreEarned, Ripens, Earns PROVE ChangesAreEarned'
BY DEF ChangesAreEarned, Ripens, Earns

LEMMA StaysOK ==
    ASSUME Inv, Ripens, NEW p \in Procs, Own(p), NEW q \in Procs \ {p}
    PROVE  LocalsOK(pc[q], req[q], tokens', mailed')
<1>1. LocalsOK(pc[q], req[q], tokens, mailed)
  BY DEF Inv
<1>2. pc[q] \in Issuing => req[q].id \notin mailed' /\ (pc[q] \in Early => req[q].id \notin DOMAIN tokens')
  BY <1>1 DEF LocalsOK, Own, Stored, Issuing, Early
<1>3. pc[q] \in {"resetting", "completing"} =>
        /\ req[q].id \in mailed'
        /\ req[q].id \in DOMAIN tokens' => req[q].id \in DOMAIN tokens
  BY <1>1 DEF LocalsOK, Ripens, Stored
<1>4. \A i \in DOMAIN tokens \cap DOMAIN tokens' :
        /\ tokens'[i].type = tokens[i].type
        /\ tokens[i].codeVerified => tokens'[i].codeVerified
  BY DEF Ripens, Stored
<1> QED BY <1>1, <1>2, <1>3, <1>4 DEF LocalsOK, Issuing, Early

\* A step keeps the invariant when it moves one request to where its locals are right.
LEMMA OneMoves ==
    ASSUME Inv, NEW p \in Procs, NEW from, NEW to \in PC, NEW r \in Request, Goto(p, from, to, r),
           DataTypes', Ripens, Own(p), Earns, LocalsOK(to, r, tokens', mailed')
    PROVE  Inv'
<1>1. /\ pc' \in [Procs -> PC] /\ req' \in [Procs -> Request]
      /\ pc'[p] = to /\ req'[p] = r
      /\ \A q \in Procs \ {p} : pc'[q] = pc[q] /\ req'[q] = req[q]
  BY DEF Goto, Inv, TypeOK
<1>2. TypeOK'
  BY <1>1 DEF TypeOK, DataTypes
<1>3. \A q \in Procs : LocalsOK(pc'[q], req'[q], tokens', mailed')
  <2> TAKE q \in Procs
  <2>1. CASE q = p
    BY <1>1, <2>1
  <2>2. CASE q # p
    <3>1. LocalsOK(pc[q], req[q], tokens', mailed')
      BY <2>2, StaysOK
    <3> QED BY <1>1, <2>2, <3>1
  <2> QED BY <2>1, <2>2
<1>4. DrawnOnce'
  <2>0. next \in Int /\ next' \in Int /\ next <= next' /\ \A i \in Ids : i \in Int
    BY Constants DEF Inv, TypeOK, DataTypes, Ripens
  <2>1. \A i \in Stored' \cup mailed' : i < next'
    BY <2>0 DEF Own, DrawnOnce, Inv, TypeOK
  <2>2. \A q \in Procs : pc'[q] \in Issuing => req'[q].id < next'
    <3> SUFFICES ASSUME NEW q \in Procs, pc'[q] \in Issuing PROVE req'[q].id < next'
      OBVIOUS
    <3>1. CASE q = p
      BY <3>1 DEF Own
    <3>2. CASE q # p
      <4>1. req[q].id < next /\ req[q].id \in Ids
        BY <1>1, <3>2 DEF Inv, DrawnOnce, LocalsOK
      <4> QED BY <1>1, <2>0, <3>2, <4>1
    <3> QED BY <3>1, <3>2
  <2>3. \A q, s \in Procs : pc'[q] \in Issuing /\ pc'[s] \in Issuing /\ req'[q].id = req'[s].id => q = s
    BY <1>1 DEF Own, Inv, DrawnOnce
  <2> QED BY <2>1, <2>2, <2>3 DEF DrawnOnce
<1>5. ChangesAreEarned'
  BY EarnedStays DEF Inv
<1> QED BY <1>2, <1>3, <1>4, <1>5 DEF Inv

\* A step that touches neither tokens nor e-mails and moves to where nothing is issued.
LEMMA PlainMove ==
    ASSUME Inv, NEW p \in Procs, NEW from, NEW to \in PC \ Issuing, NEW r \in Request,
           Goto(p, from, to, r), DataTypes', UNCHANGED <<tokens, mailed, next, uses>>,
           LocalsOK(to, r, tokens, mailed)
    PROVE  Inv'
<1>1. pc'[p] \notin Issuing
  BY DEF Goto, Inv, TypeOK
<1>2. Ripens /\ Own(p) /\ Earns
  <2>1. next \in Int
    BY DEF Inv, TypeOK
  <2> QED BY <1>1, <2>1 DEF Ripens, Own, Earns, Stored
<1> QED BY <1>2, OneMoves

LEMMA NoRequestOK ==
    NoRequest \in Request /\ \A T, M : LocalsOK("idle", NoRequest, T, M)
<1>1. NoRequest \in Request
  BY DEF NoRequest, Request
<1>2. \A T, M : LocalsOK("idle", NoRequest, T, M)
  BY DEF LocalsOK, Issuing, Early
<1> QED BY <1>1, <1>2

LEMMA DataKept ==
    ASSUME Inv, UNCHANGED <<now, data, mailed, next, faults, history>> PROVE DataTypes'
BY DEF Inv, TypeOK, DataTypes, data, history, Stored

-----------------------------------------------------------------------------
(* Requests that issue a token.                                            *)

LEMMA DrawMove ==
    ASSUME Inv, NEW p \in Procs, NEW to \in Early, NEW r \in Request, Goto(p, "idle", to, r), Draw,
           r.id = next, r.user \in Users, r.type \in Type, DataTypes',
           UNCHANGED <<tokens, mailed, uses>>
    PROVE  Inv'
<1>1. next \in Ids /\ next \in Int /\ next' = next + 1
  BY Constants DEF Draw, Inv, TypeOK
<1>2. next \notin mailed /\ next \notin Stored
  BY <1>1 DEF Inv, DrawnOnce
<1>3. LocalsOK(to, r, tokens', mailed')
  BY <1>1, <1>2 DEF LocalsOK, Early, Issuing, Stored
<1>4. pc'[p] = to /\ req'[p] = r
  BY DEF Goto, Inv, TypeOK
<1>5. \A q \in Procs \ {p} : pc[q] \in Issuing => req[q].id # next
  BY <1>1 DEF Inv, DrawnOnce
<1>6. Own(p)
  BY <1>1, <1>4, <1>5 DEF Own, Stored
<1>7. Ripens /\ Earns
  BY <1>1 DEF Ripens, Earns, Stored
<1> QED BY <1>3, <1>6, <1>7, OneMoves DEF Early, PC

LEMMA IssueRequests ==
    ASSUME Inv, NEW p \in Procs, NEW u \in Users,
           \/ Forgot(p, u)
           \/ RequestFirstAccess(p, u)
           \/ \E admin \in BOOLEAN : CreateUser(p, u, admin)
    PROVE  Inv'
<1>1. Draw /\ next \in Ids /\ next' \in 1..MaxIds + 1 /\ UNCHANGED <<tokens, mailed, uses>>
  <2>1. Draw /\ UNCHANGED <<tokens, mailed, uses>>
    BY DEF Forgot, RequestFirstAccess, CreateUser, data, history
  <2>2. next \in Ids /\ next' = next + 1
    BY <2>1 DEF Draw
  <2>3. next' \in 1..MaxIds + 1
    BY <2>2, Constants DEF Ids
  <2> QED BY <2>1, <2>2, <2>3
<1>2. CASE Forgot(p, u)
  <2> DEFINE r == [NoRequest EXCEPT !.user = u, !.type = "FORGOT_PASSWORD", !.id = next, !.ttl = Ttl]
  <2>1. r \in Request /\ r.user = u /\ r.type \in Type /\ r.id = next
    BY <1>1, Constants DEF NoRequest, Request, Type
  <2>2. Goto(p, "idle", "discarding", r)
    BY <1>2 DEF Forgot
  <2>3. DataTypes'
    BY <1>1, <1>2 DEF Forgot, DataTypes, Inv, TypeOK, data, history, Stored
  <2> HIDE DEF r
  <2> QED BY <1>1, <2>1, <2>2, <2>3, DrawMove DEF Early
<1>3. CASE RequestFirstAccess(p, u)
  <2> DEFINE r == [NoRequest EXCEPT !.user = u, !.type = "FIRST_ACCESS", !.id = next, !.ttl = Ttl]
  <2>1. r \in Request /\ r.user = u /\ r.type \in Type /\ r.id = next
    BY <1>1, Constants DEF NoRequest, Request, Type
  <2>2. Goto(p, "idle", "overwriting", r)
    BY <1>3 DEF RequestFirstAccess
  <2>3. DataTypes'
    BY <1>1, <1>3 DEF RequestFirstAccess, DataTypes, Inv, TypeOK, data, history, Stored
  <2> HIDE DEF r
  <2> QED BY <1>1, <2>1, <2>2, <2>3, DrawMove DEF Early
<1>4. ASSUME NEW admin \in BOOLEAN, CreateUser(p, u, admin) PROVE Inv'
  <2> DEFINE d == IF admin THEN AdminTtl ELSE Ttl
             r == [NoRequest EXCEPT !.user = u, !.type = "FIRST_ACCESS", !.id = next, !.ttl = d]
             to == IF admin THEN "creating" ELSE "discarding"
  <2>0. d \in Nat
    BY Constants
  <2>1. r \in Request /\ r.user = u /\ r.type \in Type /\ r.id = next
    BY <1>1, <2>0 DEF NoRequest, Request, Type
  <2>2. Goto(p, "idle", to, r) /\ to \in Early
    BY <1>4 DEF CreateUser, Early
  <2>3. next \in Password
    BY <1>1, Constants
  <2>4. DataTypes'
    BY <1>1, <1>4, <2>3 DEF CreateUser, DataTypes, Inv, TypeOK, history, Stored
  <2> HIDE DEF r, to
  <2> QED BY <1>1, <2>1, <2>2, <2>4, DrawMove
<1> QED BY <1>2, <1>3, <1>4

\* What an issuing request knows, and others of it.
LEMMA Issues ==
    ASSUME Inv, NEW p \in Procs, pc[p] \in Issuing
    PROVE  LET r == req[p] IN
           /\ r \in Request /\ r.user \in Users /\ r.type \in Type
           /\ r.id \in Ids /\ r.id \notin mailed /\ r.id < next /\ r.id \in Password
           /\ pc[p] \in Early => r.id \notin Stored
           /\ \A q \in Procs \ {p} : pc[q] \in Issuing => req[q].id # r.id
BY Constants DEF Inv, TypeOK, LocalsOK, DrawnOnce, Stored

\* A step of an issuing request that goes on, with the same locals.
LEMMA IssueMove ==
    ASSUME Inv, NEW p \in Procs, NEW from \in Issuing, NEW to \in Issuing,
           Goto(p, from, to, req[p]), DataTypes', Ripens, mailed' = mailed, next' = next, uses' = uses,
           Stored' \subseteq Stored \cup {req[p].id},
           to \in Early => req[p].id \notin Stored'
    PROVE  Inv'
<1> DEFINE r == req[p]
<1>1. pc[p] \in Issuing
  BY DEF Goto
<1>2. LocalsOK(to, r, tokens', mailed')
  BY <1>1, Issues DEF LocalsOK, Early, Issuing, Stored
<1>3. pc'[p] = to /\ req'[p] = r
  BY DEF Goto, Inv, TypeOK
<1>4. Own(p)
  BY <1>1, <1>3, Issues DEF Own
<1>5. Earns /\ r \in Request /\ to \in PC
  BY <1>1, Issues DEF Earns, Issuing, PC
<1> QED BY <1>2, <1>4, <1>5, OneMoves

LEMMA OverwriteKeeps ==
    ASSUME Inv, NEW p \in Procs, OverwritePassword(p) PROVE Inv'
<1>1. pc[p] = "overwriting" /\ Goto(p, "overwriting", "discarding", req[p])
  BY DEF OverwritePassword, Goto
<1>2. req[p].id \in Password /\ req[p].id \notin Stored /\ next \in Int
  BY <1>1, Issues DEF Issuing, Early, Inv, TypeOK
<1>3. /\ UNCHANGED <<now, status, tokens, mailed, next, faults, history>>
      /\ password' = [password EXCEPT ![req[p].user] = req[p].id]
  BY DEF OverwritePassword
<1>4. DataTypes'
  BY <1>2, <1>3 DEF DataTypes, Inv, TypeOK, history, Stored
<1>5. Ripens
  BY <1>2, <1>3 DEF Ripens, Stored
<1> QED BY <1>1, <1>2, <1>3, <1>4, <1>5, IssueMove DEF Issuing, history, Stored

LEMMA DiscardKeeps ==
    ASSUME Inv, NEW p \in Procs, DiscardUnused(p) PROVE Inv'
<1> DEFINE gone == {i \in Stored : /\ tokens[i].user = req[p].user
                                   /\ tokens[i].type = req[p].type
                                   /\ ~tokens[i].used}
<1>1. pc[p] = "discarding" /\ Goto(p, "discarding", "creating", req[p])
  BY DEF DiscardUnused, Goto
<1>2. /\ UNCHANGED <<now, status, password, mailed, next, faults, history>>
      /\ tokens' = [i \in Stored \ gone |-> tokens[i]]
  BY DEF DiscardUnused
<1>3. \A i \in Stored : tokens[i].used => i \notin gone
  OBVIOUS
<1>4. gone \subseteq Stored
  OBVIOUS
<1> HIDE DEF gone
<1>5. Stored' = Stored \ gone /\ \A i \in Stored' : tokens'[i] = tokens[i]
  BY <1>2 DEF Stored
<1>6. DataTypes'
  BY <1>2, <1>5 DEF DataTypes, Inv, TypeOK, history
<1>7. Ripens
  <2>1. next \in Int
    BY DEF Inv, TypeOK
  <2> QED BY <1>2, <1>3, <1>5, <2>1 DEF Ripens
<1>8. req[p].id \notin Stored
  BY <1>1, Issues DEF Issuing, Early
<1> QED BY <1>1, <1>2, <1>5, <1>6, <1>7, <1>8, IssueMove DEF Issuing, history

LEMMA NewRowType ==
    ASSUME NEW r \in Request, r.user \in Users, r.type \in Type, now \in 0..MaxNow
    PROVE  NewRow(r) \in Row
<1>1. now + r.ttl \in Nat
  BY Constants DEF Request
<1> QED BY <1>1 DEF NewRow, Row

LEMMA CreateKeeps ==
    ASSUME Inv, NEW p \in Procs, CreateToken(p) PROVE Inv'
<1> DEFINE r == req[p]
           row == NewRow(r)
<1>1. pc[p] = "creating" /\ Goto(p, "creating", "mailing", r)
  BY DEF CreateToken, Goto
<1>2. /\ UNCHANGED <<now, status, password, mailed, next, faults, history>>
      /\ tokens' = [i \in Stored \cup {r.id} |-> IF i = r.id THEN row ELSE tokens[i]]
  BY DEF CreateToken
<1>3. r \in Request /\ r.user \in Users /\ r.type \in Type /\ r.id \in Ids /\ r.id \notin mailed
      /\ r.id \notin Stored
  BY <1>1, Issues DEF Issuing, Early
<1>4. row \in Row
  BY <1>3, NewRowType DEF Inv, TypeOK
<1> HIDE DEF row
<1>5. /\ Stored' = Stored \cup {r.id} /\ tokens'[r.id] = row
      /\ \A i \in Stored : tokens'[i] = tokens[i]
  BY <1>2, <1>3 DEF Stored
<1>6. DataTypes'
  BY <1>2, <1>3, <1>4, <1>5 DEF DataTypes, Inv, TypeOK, history
<1>7. Ripens
  <2>1. next \in Int
    BY DEF Inv, TypeOK
  <2> QED BY <1>2, <1>3, <1>5, <2>1 DEF Ripens
<1> QED BY <1>1, <1>2, <1>5, <1>6, <1>7, IssueMove DEF Issuing, Early, history

LEMMA DispatchKeeps ==
    ASSUME Inv, NEW p \in Procs, DispatchMail(p) PROVE Inv'
<1>1. pc[p] = "mailing" /\ Goto(p, "mailing", "idle", NoRequest)
  BY DEF DispatchMail, End, Goto
<1>2. mailed' = mailed \cup {req[p].id} /\ UNCHANGED <<now, data, next, faults, history>>
  BY DEF DispatchMail
<1>3. /\ req[p].id \in Ids /\ req[p].id < next
      /\ \A q \in Procs \ {p} : pc[q] \in Issuing => req[q].id # req[p].id
  BY <1>1, Issues DEF Issuing
<1>4. UNCHANGED <<status, password, tokens, cutShort, uses>> /\ Stored' = Stored
  BY <1>2 DEF data, history, Stored
<1>5. DataTypes'
  BY <1>2, <1>3, <1>4 DEF DataTypes, Inv, TypeOK
<1>6. pc'[p] = "idle"
  BY <1>1 DEF Goto, Inv, TypeOK
<1>7. Own(p)
  BY <1>2, <1>3, <1>4, <1>6 DEF Own, Issuing
<1>8. Ripens /\ Earns
  <2>1. next \in Int
    BY DEF Inv, TypeOK
  <2> QED BY <1>2, <1>4, <2>1 DEF Ripens, Earns
<1> QED BY <1>1, <1>5, <1>7, <1>8, NoRequestOK, OneMoves DEF PC

-----------------------------------------------------------------------------
(* Requests that present a token, change a password or delete a user.      *)

LEMMA PresentRequests ==
    ASSUME Inv, NEW p \in Procs, NEW i \in Ids,
           \/ VerifyCode(p, i)
           \/ \E w \in Chosen : ResetPassword(p, i, w)
           \/ \E w \in Chosen : CompleteFirstAccess(p, i, w)
    PROVE  Inv'
<1>1. i \in mailed /\ i \in Stored /\ tokens[i] \in Row
      /\ UNCHANGED <<now, data, mailed, next, faults, history>>
  BY DEF VerifyCode, ResetPassword, CompleteFirstAccess, ValidFirstAccess, Unused, Inv, TypeOK
<1>2. DataTypes' /\ UNCHANGED <<tokens, mailed, next, uses>>
  BY <1>1, DataKept DEF data, history
<1>3. CASE VerifyCode(p, i)
  <2> DEFINE r == [NoRequest EXCEPT !.id = i]
  <2>1. r \in Request /\ r.id = i /\ Goto(p, "idle", "verifying", r)
    BY <1>3 DEF VerifyCode, NoRequest, Request
  <2> HIDE DEF r
  <2>2. LocalsOK("verifying", r, tokens, mailed)
    BY <2>1 DEF LocalsOK, Issuing, Early
  <2> QED BY <1>2, <2>1, <2>2, PlainMove DEF PC, Issuing
<1>4. ASSUME NEW w \in Chosen, ResetPassword(p, i, w) PROVE Inv'
  <2> DEFINE u == tokens[i].user
             r == [NoRequest EXCEPT !.user = u, !.id = i, !.new = w]
  <2>1. u \in Users /\ tokens[i].codeVerified
    BY <1>1, <1>4 DEF ResetPassword, Row
  <2>2. r \in Request /\ r.user = u /\ r.id = i /\ r.new = w
    BY <2>1 DEF NoRequest, Request
  <2>3. Goto(p, "idle", "resetting", r)
    BY <1>4 DEF ResetPassword
  <2> HIDE DEF r
  <2>4. LocalsOK("resetting", r, tokens, mailed)
    BY <1>1, <2>1, <2>2 DEF LocalsOK, Issuing, Early
  <2> QED BY <1>2, <2>2, <2>3, <2>4, PlainMove DEF PC, Issuing
<1>5. ASSUME NEW w \in Chosen, CompleteFirstAccess(p, i, w) PROVE Inv'
  <2> DEFINE u == tokens[i].user
             r == [NoRequest EXCEPT !.user = u, !.id = i, !.new = w]
  <2>1. u \in Users /\ tokens[i].type = "FIRST_ACCESS"
    BY <1>1, <1>5 DEF CompleteFirstAccess, ValidFirstAccess, Row
  <2>2. r \in Request /\ r.user = u /\ r.id = i /\ r.new = w
    BY <2>1 DEF NoRequest, Request
  <2>3. Goto(p, "idle", "completing", r)
    BY <1>5 DEF CompleteFirstAccess
  <2> HIDE DEF r
  <2>4. LocalsOK("completing", r, tokens, mailed)
    BY <1>1, <2>1, <2>2 DEF LocalsOK, Issuing, Early
  <2> QED BY <1>2, <2>2, <2>3, <2>4, PlainMove DEF PC, Issuing
<1> QED BY <1>3, <1>4, <1>5

LEMMA OtherRequests ==
    ASSUME Inv, NEW p \in Procs, NEW u \in Users,
           \/ \E w \in Chosen : ChangePassword(p, u, w)
           \/ FindUserToDelete(p, u)
    PROVE  Inv'
<1>1. UNCHANGED <<now, data, mailed, next, faults, history>>
  BY DEF ChangePassword, FindUserToDelete
<1>2. DataTypes' /\ UNCHANGED <<tokens, mailed, next, uses>>
  BY <1>1, DataKept DEF data, history
<1>3. ASSUME NEW w \in Chosen, ChangePassword(p, u, w) PROVE Inv'
  <2> DEFINE r == [NoRequest EXCEPT !.user = u, !.new = w]
  <2>1. r \in Request /\ r.user = u /\ r.new = w /\ Goto(p, "idle", "changing", r)
    BY <1>3 DEF ChangePassword, NoRequest, Request
  <2> HIDE DEF r
  <2>2. LocalsOK("changing", r, tokens, mailed)
    BY <2>1 DEF LocalsOK, Issuing, Early
  <2> QED BY <1>2, <2>1, <2>2, PlainMove DEF PC, Issuing
<1>4. CASE FindUserToDelete(p, u)
  <2> DEFINE r == [NoRequest EXCEPT !.user = u]
  <2>1. r \in Request /\ r.user = u /\ Goto(p, "idle", "deleting", r)
    BY <1>4 DEF FindUserToDelete, NoRequest, Request
  <2> HIDE DEF r
  <2>2. LocalsOK("deleting", r, tokens, mailed)
    BY <2>1 DEF LocalsOK, Issuing, Early
  <2> QED BY <1>2, <2>1, <2>2, PlainMove DEF PC, Issuing
<1> QED BY <1>3, <1>4

\* A request that ends with a write of rows that are there.
LEMMA EndWithRows ==
    ASSUME Inv, NEW p \in Procs, NEW from, End(p, from), DataTypes',
           mailed' = mailed, next' = next, Stored' = Stored,
           \A i \in Stored : /\ tokens'[i].user = tokens[i].user /\ tokens'[i].type = tokens[i].type
                             /\ tokens[i].used => tokens'[i].used
                             /\ tokens[i].codeVerified => tokens'[i].codeVerified,
           Earns
    PROVE  Inv'
<1>1. pc'[p] = "idle" /\ next \in Int
  BY DEF End, Goto, Inv, TypeOK
<1>2. Ripens
  BY <1>1 DEF Ripens
<1>3. Own(p)
  BY <1>1 DEF Own, Issuing
<1> QED BY <1>2, <1>3, NoRequestOK, OneMoves DEF End, PC

\* A request that ends without a change of the tokens.
LEMMA EndPlain ==
    ASSUME Inv, NEW p \in Procs, NEW from, End(p, from), DataTypes',
           UNCHANGED <<tokens, mailed, next, uses>>
    PROVE  Inv'
BY NoRequestOK, PlainMove DEF End, PC, Issuing

LEMMA MarkKeeps ==
    ASSUME Inv, NEW p \in Procs, MarkVerified(p) PROVE Inv'
<1> DEFINE i == req[p].id
           row == [tokens[i] EXCEPT !.codeVerified = TRUE]
<1>1. End(p, "verifying") /\ UNCHANGED <<now, status, password, mailed, next, faults, history>>
  BY DEF MarkVerified
<1>2. CASE i \notin Stored
  <2>1. tokens' = tokens
    BY <1>2 DEF MarkVerified
  <2>2. DataTypes'
    BY <1>1, <2>1 DEF DataTypes, Inv, TypeOK, history, Stored
  <2> QED BY <1>1, <2>1, <2>2, EndPlain DEF history
<1>3. CASE i \in Stored
  <2>1. tokens[i] \in Row
    BY <1>3 DEF Inv, TypeOK
  <2>2. row.codeVerified
    BY <2>1 DEF Row
  <2>3. /\ row \in Row /\ row.user = tokens[i].user /\ row.type = tokens[i].type
        /\ row.used = tokens[i].used
    BY <2>1 DEF Row
  <2>4. tokens' = [tokens EXCEPT ![i] = row]
    BY <1>3 DEF MarkVerified
  <2> HIDE DEF row
  <2>5. Stored' = Stored /\ tokens'[i] = row /\ \A j \in Stored \ {i} : tokens'[j] = tokens[j]
    BY <1>3, <2>4 DEF Stored
  <2>6. DataTypes'
    BY <1>1, <2>3, <2>5 DEF DataTypes, Inv, TypeOK, history
  <2>7. Earns
    BY <1>1 DEF Earns, history
  <2>8. \A j \in Stored : /\ tokens'[j].user = tokens[j].user /\ tokens'[j].type = tokens[j].type
                          /\ tokens[j].used => tokens'[j].used
                          /\ tokens[j].codeVerified => tokens'[j].codeVerified
    BY <2>2, <2>3, <2>5
  <2> QED BY <1>1, <2>5, <2>6, <2>7, <2>8, EndWithRows
<1> QED BY <1>2, <1>3

LEMMA ConsumeKeeps ==
    ASSUME Inv, NEW p \in Procs, NEW from \in {"resetting", "completing"}, Consume(p, from)
    PROVE  Inv'
<1> DEFINE r == req[p]
           i == r.id
           row == [tokens[i] EXCEPT !.used = TRUE]
<1>1. End(p, from) /\ pc[p] = from /\ UNCHANGED <<now, status, mailed, next, faults, cutShort>>
  BY DEF Consume, End, Goto
<1>2. CASE i \notin Stored
  <2>1. UNCHANGED <<password, tokens, uses>>
    BY <1>2 DEF Consume
  <2>2. DataTypes'
    BY <1>1, <2>1 DEF DataTypes, Inv, TypeOK, Stored
  <2> QED BY <1>1, <2>1, <2>2, EndPlain
<1>3. CASE i \in Stored
  <2>1. /\ tokens[i] \in Row /\ i \in Ids /\ i \in mailed /\ r.user \in Users /\ r.new \in Password
        /\ tokens[i].type = "FORGOT_PASSWORD" => tokens[i].codeVerified
    BY <1>1, <1>3, Constants DEF Inv, TypeOK, LocalsOK, Stored
  <2>2. row.used
    BY <2>1 DEF Row
  <2>3. row \in Row /\ row.user = tokens[i].user /\ row.type = tokens[i].type
    BY <2>1 DEF Row
  <2>4. row.codeVerified = tokens[i].codeVerified
    BY <2>1 DEF Row
  <2>5. /\ password' = [password EXCEPT ![r.user] = r.new]
        /\ tokens' = [tokens EXCEPT ![i] = row]
        /\ uses' = [uses EXCEPT ![i] = uses[i] + 1]
    BY <1>3 DEF Consume
  <2> HIDE DEF row
  <2>6. Stored' = Stored /\ tokens'[i] = row /\ \A j \in Stored \ {i} : tokens'[j] = tokens[j]
    BY <1>3, <2>5 DEF Stored
  <2>7. uses' \in [Ids -> Nat] /\ \A j \in Ids \ {i} : uses'[j] = uses[j]
    BY <2>1, <2>5 DEF Inv, TypeOK
  <2>8. DataTypes'
    BY <1>1, <2>1, <2>3, <2>5, <2>6, <2>7 DEF DataTypes, Inv, TypeOK
  <2>9. row.type = "FORGOT_PASSWORD" => row.codeVerified
    BY <2>1, <2>3, <2>4
  <2>10. Earns
    BY <1>1, <1>3, <2>1, <2>2, <2>6, <2>7, <2>9 DEF Earns
  <2>11. \A j \in Stored : /\ tokens'[j].user = tokens[j].user /\ tokens'[j].type = tokens[j].type
                           /\ tokens[j].used => tokens'[j].used
                           /\ tokens[j].codeVerified => tokens'[j].codeVerified
    BY <2>2, <2>3, <2>4, <2>6
  <2> QED BY <1>1, <2>6, <2>8, <2>10, <2>11, EndWithRows
<1> QED BY <1>2, <1>3

LEMMA StorePasswordKeeps ==
    ASSUME Inv, NEW p \in Procs, StorePassword(p) PROVE Inv'
<1>1. /\ End(p, "changing") /\ pc[p] = "changing"
      /\ password' = [password EXCEPT ![req[p].user] = req[p].new]
      /\ UNCHANGED <<now, status, tokens, mailed, next, faults, history>>
  BY DEF StorePassword, End, Goto
<1>2. req[p].new \in Password
  BY <1>1, Constants DEF Inv, LocalsOK
<1>3. DataTypes'
  BY <1>1, <1>2 DEF DataTypes, Inv, TypeOK, history, Stored
<1> QED BY <1>1, <1>3, EndPlain DEF history

LEMMA DeleteKeeps ==
    ASSUME Inv, NEW p \in Procs, DeleteUser(p) PROVE Inv'
<1> DEFINE u == req[p].user
           Spent(i) == [tokens[i] EXCEPT !.used = TRUE]
<1>1. /\ End(p, "deleting") /\ status' = [status EXCEPT ![u] = "deleted"]
      /\ UNCHANGED <<now, password, mailed, next, faults, history>>
      /\ tokens' = [i \in Stored |-> IF tokens[i].user = u THEN Spent(i) ELSE tokens[i]]
  BY DEF DeleteUser
<1>2. \A i \in Stored : tokens[i] \in Row
  BY DEF Inv, TypeOK
<1>3. \A i \in Stored : Spent(i).used
  BY <1>2 DEF Row
<1>4. \A i \in Stored : /\ Spent(i) \in Row
                        /\ Spent(i).user = tokens[i].user /\ Spent(i).type = tokens[i].type
  BY <1>2 DEF Row
<1>5. \A i \in Stored : Spent(i).codeVerified = tokens[i].codeVerified
  BY <1>2 DEF Row
<1> HIDE DEF Spent
<1>6. Stored' = Stored /\ \A i \in Stored : tokens'[i] \in {Spent(i), tokens[i]}
  BY <1>1 DEF Stored
<1>7. status' \in [Users -> {"absent", "active", "deleted"}]
  BY <1>1 DEF Inv, TypeOK
<1>8. DataTypes'
  BY <1>1, <1>4, <1>6, <1>7 DEF DataTypes, Inv, TypeOK, history
<1>9. Earns
  BY <1>1 DEF Earns, history
<1>10. \A i \in Stored : /\ tokens'[i].user = tokens[i].user /\ tokens'[i].type = tokens[i].type
                         /\ tokens[i].used => tokens'[i].used
                         /\ tokens[i].codeVerified => tokens'[i].codeVerified
  BY <1>3, <1>4, <1>5, <1>6
<1> QED BY <1>1, <1>6, <1>8, <1>9, <1>10, EndWithRows

LEMMA FaultKeeps ==
    ASSUME Inv, NEW p \in Procs, Fault(p) PROVE Inv'
<1>1. /\ Goto(p, pc[p], "failed", req[p]) /\ faults < MaxFaults /\ faults' = faults + 1
      /\ UNCHANGED <<now, data, mailed, next, uses>>
      /\ cutShort' = IF pc[p] \in Issuing THEN cutShort \cup {req[p].id} ELSE cutShort
  BY DEF Fault, Issuing
<1>2. cutShort' \subseteq Ids
  BY <1>1, Issues DEF Inv, TypeOK
<1>3. faults' \in 0..MaxFaults
  BY <1>1, Constants DEF Inv, TypeOK
<1>4. DataTypes'
  BY <1>1, <1>2, <1>3 DEF DataTypes, Inv, TypeOK, data, Stored
<1>5. LocalsOK("failed", req[p], tokens, mailed) /\ req[p] \in Request
  BY DEF LocalsOK, Issuing, Early, Inv, TypeOK
<1> QED BY <1>1, <1>4, <1>5, PlainMove DEF PC, Issuing, data

-----------------------------------------------------------------------------
(* Every step.                                                             *)

LEMMA InitInv == Init => Inv
<1> SUFFICES ASSUME Init PROVE Inv
  OBVIOUS
<1>1. pc = [p \in Procs |-> "idle"] /\ req = [p \in Procs |-> NoRequest] /\ Stored = {} /\ mailed = {}
  BY DEF Init, Stored
<1>2. TypeOK
  BY <1>1, NoRequestOK, Constants DEF Init, TypeOK, PC
<1>3. DrawnOnce /\ \A p \in Procs : LocalsOK(pc[p], req[p], tokens, mailed)
  BY <1>1, NoRequestOK DEF DrawnOnce, Issuing
<1>4. ChangesAreEarned
  BY DEF Init, ChangesAreEarned
<1> QED BY <1>2, <1>3, <1>4 DEF Inv

LEMMA NextInv == Inv /\ [Next]_vars => Inv'
<1> SUFFICES ASSUME Inv, [Next]_vars PROVE Inv'
  OBVIOUS
<1>1. CASE /\ UNCHANGED <<data, mailed, next, pc, req, faults, history>> /\ now' \in 0..MaxNow
  BY <1>1 DEF Inv, TypeOK, DrawnOnce, ChangesAreEarned, LocalsOK, Stored, data, history
<1>2. CASE Tick
  <2>1. now' \in 0..MaxNow
    BY <1>2, Constants DEF Tick, Inv, TypeOK
  <2> QED BY <1>1, <1>2, <2>1 DEF Tick
<1>3. CASE UNCHANGED vars
  BY <1>1, <1>3 DEF vars, Inv, TypeOK
<1>4. ASSUME NEW p \in Procs, Arrive(p) PROVE Inv'
  BY <1>4, IssueRequests, PresentRequests, OtherRequests DEF Arrive
<1>5. ASSUME NEW p \in Procs, SendError(p) PROVE Inv'
  <2>1. End(p, "failed") /\ UNCHANGED <<now, data, mailed, next, faults, history>>
    BY <1>5 DEF SendError
  <2> QED BY <2>1, DataKept, EndPlain DEF data, history
<1>6. ASSUME NEW p \in Procs, Proceed(p) PROVE Inv'
  BY <1>5, <1>6, OverwriteKeeps, DiscardKeeps, CreateKeeps, DispatchKeeps, MarkKeeps,
     ConsumeKeeps, StorePasswordKeeps, DeleteKeeps DEF Proceed, ConsumeReset, ConsumeFirstAccess
<1> QED BY <1>2, <1>3, <1>4, <1>6, FaultKeeps DEF Next

LEMMA Invariance == Spec => []Inv
BY InitInv, NextInv, PTL DEF Spec

\* Type correctness, whatever requests and faults interleave.
THEOREM TypeCorrect == Spec => []TypeOK
<1>1. Inv => TypeOK
  BY DEF Inv
<1> QED BY <1>1, Invariance, PTL

\* A token that changed a password was mailed, is spent, and had its code verified if it
\* is of the flow that asks for one.
THEOREM EarnedTheorem == Spec => []ChangesAreEarned
<1>1. Inv => ChangesAreEarned
  BY DEF Inv
<1> QED BY <1>1, Invariance, PTL

-----------------------------------------------------------------------------
(* Spent tokens.                                                           *)

SpentStays ==
    \A i \in Stored : tokens[i].used =>
        i \in Stored' /\ tokens'[i].used /\ tokens'[i].user = tokens[i].user

\* One row is written over, used or not but spent no less.
LEMMA OverwrittenRow ==
    ASSUME NEW i \in Stored, NEW row, tokens' = [tokens EXCEPT ![i] = row],
           row.user = tokens[i].user, tokens[i].used => row.used
    PROVE  SpentStays
BY DEF SpentStays, Stored

LEMMA SpentSteps ==
    ASSUME Inv, NEW p \in Procs, Proceed(p) PROVE SpentStays
<1>1. CASE tokens' = tokens
  BY <1>1 DEF SpentStays, Stored
<1>2. CASE DiscardUnused(p)
  <2> DEFINE gone == {i \in Stored : /\ tokens[i].user = req[p].user
                                     /\ tokens[i].type = req[p].type
                                     /\ ~tokens[i].used}
  <2>1. tokens' = [i \in Stored \ gone |-> tokens[i]]
    BY <1>2 DEF DiscardUnused
  <2> QED BY <2>1 DEF SpentStays, Stored
<1>3. CASE CreateToken(p)
  <2>1. req[p].id \notin Stored
    BY <1>3, Issues DEF CreateToken, Goto, Issuing, Early
  <2> QED BY <1>3, <2>1 DEF CreateToken, SpentStays, Stored
<1>4. CASE MarkVerified(p) /\ req[p].id \in Stored
  <2> DEFINE i == req[p].id
             row == [tokens[i] EXCEPT !.codeVerified = TRUE]
  <2>1. tokens' = [tokens EXCEPT ![i] = row] /\ tokens[i] \in Row
    BY <1>4 DEF MarkVerified, Inv, TypeOK
  <2>2. row.user = tokens[i].user
    BY <2>1 DEF Row
  <2>3. tokens[i].used => row.used
    BY <2>1 DEF Row
  <2> HIDE DEF row
  <2> QED BY <1>4, <2>1, <2>2, <2>3, OverwrittenRow
<1>5. CASE (Consume(p, "resetting") \/ Consume(p, "completing")) /\ req[p].id \in Stored
  <2> DEFINE i == req[p].id
             row == [tokens[i] EXCEPT !.used = TRUE]
  <2>1. tokens' = [tokens EXCEPT ![i] = row] /\ tokens[i] \in Row
    BY <1>5 DEF Consume, Inv, TypeOK
  <2>2. row.user = tokens[i].user
    BY <2>1 DEF Row
  <2>3. row.used
    BY <2>1 DEF Row
  <2> HIDE DEF row
  <2> QED BY <1>5, <2>1, <2>2, <2>3, OverwrittenRow
<1>6. CASE DeleteUser(p)
  <2> DEFINE Spent(i) == [tokens[i] EXCEPT !.used = TRUE]
  <2>1. \A i \in Stored : tokens[i] \in Row
    BY DEF Inv, TypeOK
  <2>2. \A i \in Stored : Spent(i).used
    BY <2>1 DEF Row
  <2>3. \A i \in Stored : Spent(i).user = tokens[i].user
    BY <2>1 DEF Row
  <2>4. tokens' = [i \in Stored |-> IF tokens[i].user = req[p].user THEN Spent(i) ELSE tokens[i]]
    BY <1>6 DEF DeleteUser
  <2> HIDE DEF Spent
  <2>5. Stored' = Stored /\ \A i \in Stored : tokens'[i] \in {Spent(i), tokens[i]}
    BY <2>4 DEF Stored
  <2> QED BY <2>2, <2>3, <2>5 DEF SpentStays
<1> QED BY <1>1, <1>2, <1>3, <1>4, <1>5, <1>6 DEF Proceed, OverwritePassword, DispatchMail,
        MarkVerified, ConsumeReset, ConsumeFirstAccess, Consume, StorePassword, SendError, data

LEMMA NextSpent == Inv /\ [Next]_vars => SpentStays
<1> SUFFICES ASSUME Inv, [Next]_vars PROVE SpentStays
  OBVIOUS
<1>1. CASE tokens' = tokens
  BY <1>1 DEF SpentStays, Stored
<1>2. ASSUME NEW p \in Procs, Arrive(p) \/ Fault(p) PROVE tokens' = tokens
  BY <1>2 DEF Arrive, Forgot, RequestFirstAccess, CreateUser, VerifyCode, ResetPassword,
     CompleteFirstAccess, ChangePassword, FindUserToDelete, Fault, data
<1> QED BY <1>1, <1>2, SpentSteps DEF Next, Tick, vars, data

\* Spent tokens are kept and stay spent under every interleaving.
THEOREM SpentTheorem == Spec => SpentIsFinal
<1>1. Inv /\ [Next]_vars =>
        [\A i \in Stored : tokens[i].used =>
            i \in Stored' /\ tokens'[i].used /\ tokens'[i].user = tokens[i].user]_vars
  BY NextSpent DEF SpentStays
<1> QED BY <1>1, Invariance, PTL DEF Spec, SpentIsFinal

-----------------------------------------------------------------------------
(* Deletion.                                                               *)

Writing == {"overwriting", "discarding", "creating", "resetting", "completing", "changing"}

Freezes == \A u \in Users : status[u] = "deleted" => Writers(u)' \subseteq Writers(u)

\* A request becomes a writer of an active user, or of a row that is new, or was one.
LEMMA OneFreezes ==
    ASSUME Inv, NEW p \in Procs, NEW from, NEW to, NEW r, Goto(p, from, to, r),
           to \in Writing => \/ status[r.user] # "deleted"
                             \/ from \in Writing /\ req[p].user = r.user
    PROVE  Freezes
<1>1. /\ pc[p] = from /\ pc'[p] = to /\ req'[p] = r
      /\ \A q \in Procs \ {p} : pc'[q] = pc[q] /\ req'[q] = req[q]
  BY DEF Goto, Inv, TypeOK
<1>2. ASSUME NEW u \in Users, status[u] = "deleted", NEW q \in Procs,
             pc'[q] \in Writing, req'[q].user = u
      PROVE  pc[q] \in Writing /\ req[q].user = u
  BY <1>1, <1>2
<1> QED BY <1>2 DEF Freezes, Writers, Writing

LEMMA RequestsFreeze ==
    ASSUME Inv, NEW p \in Procs, Arrive(p) PROVE Freezes
<1>1. ASSUME NEW u \in Users,
             \/ Forgot(p, u)
             \/ RequestFirstAccess(p, u)
             \/ \E admin \in BOOLEAN : CreateUser(p, u, admin)
      PROVE  Freezes
  <2>1. status[u] # "deleted"
    BY <1>1 DEF Forgot, RequestFirstAccess, CreateUser
  <2> DEFINE r(t, d) == [NoRequest EXCEPT !.user = u, !.type = t, !.id = next, !.ttl = d]
  <2>2. \A t, d : r(t, d).user = u
    BY DEF NoRequest
  <2>3. \E t, d, to : Goto(p, "idle", to, r(t, d))
    <3>1. CASE Forgot(p, u)
      BY <3>1 DEF Forgot
    <3>2. CASE RequestFirstAccess(p, u)
      BY <3>2 DEF RequestFirstAccess
    <3>3. ASSUME NEW admin \in BOOLEAN, CreateUser(p, u, admin)
          PROVE  \E t, d, to : Goto(p, "idle", to, r(t, d))
      <4>1. Goto(p, "idle", IF admin THEN "creating" ELSE "discarding",
                 r("FIRST_ACCESS", IF admin THEN AdminTtl ELSE Ttl))
        BY <3>3 DEF CreateUser
      <4> HIDE DEF r
      <4> QED BY <4>1
    <3> QED BY <1>1, <3>1, <3>2, <3>3
  <2> HIDE DEF r
  <2> QED BY <2>1, <2>2, <2>3, OneFreezes
<1>2. ASSUME NEW i \in Ids, NEW w \in Chosen, ResetPassword(p, i, w) \/ CompleteFirstAccess(p, i, w)
      PROVE  Freezes
  <2> DEFINE u == tokens[i].user
             r == [NoRequest EXCEPT !.user = u, !.id = i, !.new = w]
  <2>1. status[u] = "active"
    BY <1>2 DEF ResetPassword, CompleteFirstAccess, ValidFirstAccess
  <2>2. r.user = u
    BY DEF NoRequest
  <2>3. \E to : Goto(p, "idle", to, r)
    BY <1>2 DEF ResetPassword, CompleteFirstAccess
  <2> HIDE DEF r
  <2> QED BY <2>1, <2>2, <2>3, OneFreezes
<1>3. ASSUME NEW u \in Users, NEW w \in Chosen, ChangePassword(p, u, w) PROVE Freezes
  <2> DEFINE r == [NoRequest EXCEPT !.user = u, !.new = w]
  <2>1. status[u] = "active" /\ Goto(p, "idle", "changing", r)
    BY <1>3 DEF ChangePassword
  <2>2. r.user = u
    BY DEF NoRequest
  <2> HIDE DEF r
  <2> QED BY <2>1, <2>2, OneFreezes
<1>4. ASSUME NEW u \in Users, FindUserToDelete(p, u) PROVE Freezes
  BY <1>4, OneFreezes DEF FindUserToDelete, Writing
<1>5. ASSUME NEW i \in Ids, VerifyCode(p, i) PROVE Freezes
  BY <1>5, OneFreezes DEF VerifyCode, Writing
<1> QED BY <1>1, <1>2, <1>3, <1>4, <1>5 DEF Arrive

LEMMA NextFreezes == Inv /\ [Next]_vars => Freezes
<1> SUFFICES ASSUME Inv, [Next]_vars PROVE Freezes
  OBVIOUS
<1>1. CASE UNCHANGED <<pc, req>>
  BY <1>1 DEF Freezes, Writers
<1>2. ASSUME NEW p \in Procs, Proceed(p) PROVE Freezes
  <2>1. CASE OverwritePassword(p) \/ DiscardUnused(p) \/ CreateToken(p)
    <3>1. \E from \in Writing : \E to : Goto(p, from, to, req[p])
      BY <2>1 DEF OverwritePassword, DiscardUnused, CreateToken, Writing
    <3> QED BY <3>1, OneFreezes
  <2>2. CASE \E from : End(p, from)
    BY <2>2, OneFreezes DEF End, Writing
  <2> QED BY <1>2, <2>1, <2>2 DEF Proceed, DispatchMail, MarkVerified, ConsumeReset,
          ConsumeFirstAccess, Consume, StorePassword, DeleteUser, SendError
<1>3. ASSUME NEW p \in Procs, Fault(p) PROVE Freezes
  BY <1>3, OneFreezes DEF Fault, Writing
<1> QED BY <1>1, <1>2, <1>3, RequestsFreeze DEF Next, Tick, vars

\* However requests interleave with its deletion, a deleted account gets no new writer.
THEOREM FreezeTheorem == Spec => DeletionFreezes
<1>1. Inv /\ [Next]_vars =>
        [\A u \in Users : status[u] = "deleted" => Writers(u)' \subseteq Writers(u)]_vars
  BY NextFreezes DEF Freezes
<1> QED BY <1>1, Invariance, PTL DEF Spec, DeletionFreezes
-----------------------------------------------------------------------------
(* What "one-time" still promises when requests race.  OneTime fails: a       *)
(* token is looked up in one statement and spent in another.  What spending   *)
(* it does stop, and how often a token can be used, hold in general.          *)

\* The requests that found token i valid and have not used it yet.
Presenters(i) ==
    {p \in Procs : pc[p] \in {"resetting", "completing"} /\ req[p].id = i}

\* Every edge of a request's life, with what it does to the token it is about.
Moves(q) ==
    \/ pc'[q] = pc[q] /\ req'[q] = req[q]
    \/ pc[q] = "idle" /\ pc'[q] \in Early /\ req'[q].id = next
    \/ pc[q] = "idle" /\ pc'[q] \in {"resetting", "completing"} /\ Unused(req'[q].id)
    \/ pc[q] = "idle" /\ pc'[q] \in {"verifying", "changing", "deleting"}
    \/ /\ <<pc[q], pc'[q]>> \in {<<"overwriting", "discarding">>, <<"discarding", "creating">>,
                                 <<"creating", "mailing">>}
       /\ req'[q] = req[q]
    \/ /\ pc[q] \notin {"idle", "failed"} /\ pc'[q] = "failed"
       /\ pc[q] \in Issuing => req[q].id \in cutShort'
    \/ /\ pc[q] \in {"mailing", "verifying", "resetting", "completing", "changing", "deleting",
                     "failed"}
       /\ pc'[q] = "idle"
       /\ pc[q] = "mailing" => req[q].id \in mailed'

LEMMA ArriveMoves == ASSUME TypeOK, NEW q \in Procs, Arrive(q) PROVE Moves(q)
<1>0. pc \in [Procs -> PC] /\ req \in [Procs -> Request]
  BY DEF TypeOK
<1>1. ASSUME NEW u \in Users, Forgot(q, u) PROVE Moves(q)
  BY <1>0, <1>1 DEF Forgot, Goto, NoRequest, Moves, Early
<1>2. ASSUME NEW u \in Users, RequestFirstAccess(q, u) PROVE Moves(q)
  BY <1>0, <1>2 DEF RequestFirstAccess, Goto, NoRequest, Moves, Early
<1>3. ASSUME NEW u \in Users, NEW admin \in BOOLEAN, CreateUser(q, u, admin) PROVE Moves(q)
  BY <1>0, <1>3 DEF CreateUser, Goto, NoRequest, Moves, Early
<1>4. ASSUME NEW i \in Ids, VerifyCode(q, i) PROVE Moves(q)
  BY <1>0, <1>4 DEF VerifyCode, Goto, Moves
<1>5. ASSUME NEW i \in Ids, NEW w \in Chosen, ResetPassword(q, i, w) \/ CompleteFirstAccess(q, i, w)
      PROVE  Moves(q)
  <2> DEFINE r == [NoRequest EXCEPT !.user = tokens[i].user, !.id = i, !.new = w]
  <2>1. r.id = i
    BY DEF NoRequest
  <2>2. Unused(i) /\ (Goto(q, "idle", "resetting", r) \/ Goto(q, "idle", "completing", r))
    BY <1>5 DEF ResetPassword, CompleteFirstAccess, ValidFirstAccess
  <2> HIDE DEF r
  <2> QED BY <1>0, <2>1, <2>2 DEF Goto, Moves
<1>6. ASSUME NEW u \in Users, NEW w \in Chosen, ChangePassword(q, u, w) PROVE Moves(q)
  BY <1>0, <1>6 DEF ChangePassword, Goto, Moves
<1>7. ASSUME NEW u \in Users, FindUserToDelete(q, u) PROVE Moves(q)
  BY <1>0, <1>7 DEF FindUserToDelete, Goto, Moves
<1> QED BY <1>1, <1>2, <1>3, <1>4, <1>5, <1>6, <1>7 DEF Arrive

LEMMA NextMoves == ASSUME TypeOK, [Next]_vars, NEW q \in Procs PROVE Moves(q)
<1>0. pc \in [Procs -> PC] /\ req \in [Procs -> Request]
  BY DEF TypeOK
<1>1. Proceed(q) => Moves(q)
  BY <1>0 DEF Proceed, OverwritePassword, DiscardUnused, CreateToken, DispatchMail, MarkVerified,
     ConsumeReset, ConsumeFirstAccess, Consume, StorePassword, DeleteUser, SendError, End, Goto, Moves
<1>2. Fault(q) => Moves(q)
  BY <1>0 DEF Fault, Goto, Moves, Issuing
<1>3. ASSUME NEW p \in Procs, p # q, Arrive(p) \/ Proceed(p) \/ Fault(p)
      PROVE  pc'[q] = pc[q] /\ req'[q] = req[q]
  BY <1>0, <1>3 DEF Arrive, Forgot, RequestFirstAccess, CreateUser, VerifyCode, ResetPassword,
     CompleteFirstAccess, ChangePassword, FindUserToDelete, Proceed, OverwritePassword,
     DiscardUnused, CreateToken, DispatchMail, MarkVerified, ConsumeReset, ConsumeFirstAccess,
     Consume, StorePassword, DeleteUser, SendError, Fault, End, Goto
<1>4. ASSUME Tick \/ UNCHANGED vars PROVE pc'[q] = pc[q] /\ req'[q] = req[q]
  BY <1>4 DEF Tick, vars
<1>5. pc'[q] = pc[q] /\ req'[q] = req[q] => Moves(q)
  BY DEF Moves
<1> QED BY <1>1, <1>2, <1>3, <1>4, <1>5, ArriveMoves DEF Next

\* Spending a token is a barrier (forgot-password.service.ts:109): from then on no
\* further request finds it valid; those that did before are all that can use it.
UseBarrier ==
    [][\A i \in Stored : tokens[i].used => Presenters(i)' \subseteq Presenters(i)]_vars

LEMMA NextPresenters ==
    ASSUME TypeOK, [Next]_vars, NEW i, ~Unused(i) PROVE Presenters(i)' \subseteq Presenters(i)
<1> SUFFICES ASSUME NEW q \in Procs, q \in Presenters(i)' PROVE q \in Presenters(i)
  BY DEF Presenters
<1>1. pc'[q] \in {"resetting", "completing"} /\ req'[q].id = i
  BY DEF Presenters
<1> QED BY <1>1, NextMoves DEF Moves, Presenters, Early

\* No request finds a spent token valid, however requests interleave.
THEOREM UseBarrierTheorem == Spec => UseBarrier
<1>1. Inv /\ [Next]_vars
        => [\A i \in Stored : tokens[i].used => Presenters(i)' \subseteq Presenters(i)]_vars
  BY NextPresenters DEF Inv, Unused
<1> QED BY <1>1, Invariance, PTL DEF Spec, UseBarrier

\* A token changes passwords at most once per request slot: the changes it made
\* and the requests that may still make one are together no more than the
\* requests that can be in flight.
UsesBounded ==
    \A i \in Ids : uses[i] + Cardinality(Presenters(i)) <= Cardinality(Procs)

LEMMA PresentersFinite ==
    ASSUME IsFiniteSet(Procs), NEW S, S \subseteq Procs
    PROVE  /\ IsFiniteSet(S) /\ Cardinality(S) \in Nat /\ Cardinality(Procs) \in Nat
           /\ Cardinality(S) <= Cardinality(Procs)
BY FS_Subset, FS_CardinalityType

\* A use is counted as its request ends.
LEMMA UseEnds ==
    ASSUME TypeOK, [Next]_vars, NEW i \in Ids, uses'[i] # uses[i]
    PROVE  /\ uses'[i] = uses[i] + 1
           /\ \E p \in Presenters(i) : Presenters(i)' \subseteq Presenters(i) \ {p}
<1>0. pc \in [Procs -> PC] /\ req \in [Procs -> Request] /\ uses \in [Ids -> Nat]
  BY DEF TypeOK
<1>1. PICK p \in Procs : Consume(p, "resetting") \/ Consume(p, "completing")
  BY DEF Next, Arrive, Forgot, RequestFirstAccess, CreateUser, VerifyCode, ResetPassword,
     CompleteFirstAccess, ChangePassword, FindUserToDelete, Proceed, OverwritePassword,
     DiscardUnused, CreateToken, DispatchMail, MarkVerified, ConsumeReset, ConsumeFirstAccess,
     StorePassword, DeleteUser, SendError, Fault, Tick, vars, history
<1>2. /\ pc[p] \in {"resetting", "completing"} /\ pc'[p] = "idle"
      /\ \A q \in Procs \ {p} : pc'[q] = pc[q] /\ req'[q] = req[q]
  BY <1>0, <1>1 DEF Consume, End, Goto
<1>3. req[p].id = i /\ uses'[i] = uses[i] + 1
  BY <1>0, <1>1 DEF Consume
<1>4. p \in Presenters(i) /\ Presenters(i)' \subseteq Presenters(i) \ {p}
  BY <1>2, <1>3 DEF Presenters
<1> QED BY <1>3, <1>4

LEMMA NextUses ==
    ASSUME IsFiniteSet(Procs), Inv, UsesBounded, [Next]_vars PROVE UsesBounded'
<1> SUFFICES ASSUME NEW i \in Ids
             PROVE  uses'[i] + Cardinality(Presenters(i)') <= Cardinality(Procs)
  BY DEF UsesBounded
<1>1. /\ uses[i] \in Nat
      /\ uses[i] + Cardinality(Presenters(i)) <= Cardinality(Procs)
  BY DEF Inv, TypeOK, UsesBounded
<1>2. /\ IsFiniteSet(Presenters(i)) /\ Cardinality(Presenters(i)) \in Nat
      /\ Cardinality(Presenters(i)') \in Nat /\ Cardinality(Procs) \in Nat
      /\ Cardinality(Presenters(i)') <= Cardinality(Procs)
  <2>1. Presenters(i) \subseteq Procs /\ Presenters(i)' \subseteq Procs
    BY DEF Presenters
  <2> QED BY <2>1, PresentersFinite
<1>3. CASE uses'[i] # uses[i]
  <2>1. PICK p \in Presenters(i) : Presenters(i)' \subseteq Presenters(i) \ {p}
    BY <1>3, UseEnds DEF Inv
  <2>2. /\ IsFiniteSet(Presenters(i) \ {p})
        /\ Cardinality(Presenters(i) \ {p}) = Cardinality(Presenters(i)) - 1
    BY <1>2, FS_RemoveElement
  <2>3. Cardinality(Presenters(i)') <= Cardinality(Presenters(i)) - 1
    BY <2>1, <2>2, FS_Subset
  <2>4. uses'[i] = uses[i] + 1
    BY <1>3, UseEnds DEF Inv
  <2> QED BY <1>1, <1>2, <2>3, <2>4
<1>4. CASE uses'[i] = uses[i] /\ uses[i] > 0
  <2>1. ~Unused(i)
    BY <1>4 DEF Inv, ChangesAreEarned, Unused
  <2>2. Presenters(i)' \subseteq Presenters(i)
    BY <2>1, NextPresenters DEF Inv
  <2>3. Cardinality(Presenters(i)') <= Cardinality(Presenters(i))
    BY <1>2, <2>2, FS_Subset
  <2> QED BY <1>1, <1>2, <1>4, <2>3
<1>5. CASE uses'[i] = 0
  BY <1>2, <1>5
<1> QED BY <1>1, <1>3, <1>4, <1>5

LEMMA UsesInvariance == ASSUME IsFiniteSet(Procs) PROVE Spec => []UsesBounded
<1>1. Init => UsesBounded
  <2> SUFFICES ASSUME Init, NEW i \in Ids
               PROVE  uses[i] + Cardinality(Presenters(i)) <= Cardinality(Procs)
    BY DEF UsesBounded
  <2>1. uses[i] = 0 /\ Presenters(i) = {}
    BY DEF Init, Presenters
  <2> QED BY <2>1, FS_EmptySet, FS_CardinalityType
<1>2. Inv /\ UsesBounded /\ [Next]_vars => UsesBounded'
  BY NextUses
<1> QED BY <1>1, <1>2, Invariance, PTL DEF Spec

\* No token changes more passwords than requests can be in flight at once, however
\* often it is presented.
THEOREM UsesTheorem == ASSUME IsFiniteSet(Procs) PROVE Spec => []UsesBounded
BY UsesInvariance

\* One request at a time, a token is one-time: what run UserTokens_one_time finds
\* takes two requests in flight.
THEOREM SerialOneTime == ASSUME \E p : Procs = {p} PROVE Spec => []OneTime
<1>1. IsFiniteSet(Procs) /\ Cardinality(Procs) = 1
  BY FS_Singleton
<1>2. TypeOK /\ UsesBounded => OneTime
  <2> SUFFICES ASSUME TypeOK, UsesBounded, NEW i \in Ids PROVE uses[i] <= 1
    BY DEF OneTime
  <2>1. Presenters(i) \subseteq Procs
    BY DEF Presenters
  <2>2. Cardinality(Presenters(i)) \in Nat
    BY <1>1, <2>1, PresentersFinite
  <2>3. uses[i] \in Nat /\ uses[i] + Cardinality(Presenters(i)) <= 1
    BY <1>1 DEF TypeOK, UsesBounded
  <2> QED BY <2>2, <2>3
<1>3. Spec => []UsesBounded
  BY <1>1, UsesInvariance
<1> QED BY <1>2, <1>3, TypeCorrect, PTL

-----------------------------------------------------------------------------
(* Temporary passwords.                                                      *)

\* No temporary password is orphaned (auth-first-access.service.ts:57): one that
\* is in force was mailed, or is still carried by a request on its way to mail
\* it, or its request was cut short.  This is what TemporaryIsMailed rests on.
TemporaryExplained ==
    \A u \in Users : password[u] \in Ids =>
        \/ password[u] \in mailed \cup cutShort
        \/ \E p \in Procs : pc[p] \in Issuing /\ req[p].id = password[u]

\* An explained password stays explained.
LEMMA ExplainedStays ==
    ASSUME TypeOK, [Next]_vars, NEW i,
           \/ i \in mailed \cup cutShort
           \/ \E p \in Procs : pc[p] \in Issuing /\ req[p].id = i
    PROVE  \/ i \in mailed' \cup cutShort'
           \/ \E p \in Procs : pc'[p] \in Issuing /\ req'[p].id = i
<1>1. mailed \subseteq mailed' /\ cutShort \subseteq cutShort'
  BY DEF Next, Arrive, Forgot, RequestFirstAccess, CreateUser, VerifyCode, ResetPassword,
     CompleteFirstAccess, ChangePassword, FindUserToDelete, Proceed, OverwritePassword,
     DiscardUnused, CreateToken, DispatchMail, MarkVerified, ConsumeReset, ConsumeFirstAccess,
     Consume, StorePassword, DeleteUser, SendError, Fault, Tick, vars, history
<1>2. ASSUME NEW p \in Procs, pc[p] \in Issuing, req[p].id = i
      PROVE  i \in mailed' \cup cutShort' \/ (pc'[p] \in Issuing /\ req'[p].id = i)
  BY <1>2, NextMoves DEF Moves, Issuing
<1> QED BY <1>1, <1>2

\* The statements that write a password: the temporary ones are written by a
\* request that goes on to mail them, the others are chosen.
LEMMA WritesPassword ==
    ASSUME Inv, [Next]_vars, NEW u \in Users, password'[u] # password[u]
    PROVE  \/ password'[u] \in Chosen
           \/ \E p \in Procs : pc'[p] \in Issuing /\ req'[p].id = password'[u]
<1>0. /\ pc \in [Procs -> PC] /\ req \in [Procs -> Request] /\ password \in [Users -> Password]
      /\ \A p \in Procs : LocalsOK(pc[p], req[p], tokens, mailed)
  BY DEF Inv, TypeOK
<1>1. ASSUME NEW p \in Procs, NEW v \in Users, NEW admin \in BOOLEAN, CreateUser(p, v, admin)
      PROVE  pc'[p] \in Issuing /\ req'[p].id = password'[u]
  <2> DEFINE r == [NoRequest EXCEPT !.user = v, !.type = "FIRST_ACCESS", !.id = next,
                                    !.ttl = IF admin THEN AdminTtl ELSE Ttl]
  <2>1. r.id = next /\ Goto(p, "idle", IF admin THEN "creating" ELSE "discarding", r)
    BY <1>1 DEF CreateUser, NoRequest
  <2>2. password'[u] = next
    BY <1>0, <1>1 DEF CreateUser
  <2> HIDE DEF r
  <2> QED BY <1>0, <2>1, <2>2 DEF Goto, Issuing
<1>2. ASSUME NEW p \in Procs, OverwritePassword(p)
      PROVE  pc'[p] \in Issuing /\ req'[p].id = password'[u]
  BY <1>0, <1>2 DEF OverwritePassword, Goto, Issuing
<1>3. ASSUME NEW p \in Procs, Consume(p, "resetting") \/ Consume(p, "completing")
      PROVE  password'[u] \in Chosen
  <2>1. req[p].new \in Chosen
    BY <1>0, <1>3 DEF Consume, End, Goto, LocalsOK
  <2>2. password' = [password EXCEPT ![req[p].user] = req[p].new]
    BY <1>3 DEF Consume
  <2> QED BY <1>0, <2>1, <2>2
<1>4. ASSUME NEW p \in Procs, StorePassword(p) PROVE password'[u] \in Chosen
  <2>1. req[p].new \in Chosen
    BY <1>0, <1>4 DEF StorePassword, End, Goto, LocalsOK
  <2> QED BY <1>0, <1>4, <2>1 DEF StorePassword
<1>5. \/ \E p \in Procs, v \in Users, admin \in BOOLEAN : CreateUser(p, v, admin)
      \/ \E p \in Procs : \/ OverwritePassword(p)
                          \/ Consume(p, "resetting") \/ Consume(p, "completing")
                          \/ StorePassword(p)
  BY DEF Next, Arrive, Forgot, RequestFirstAccess, VerifyCode, ResetPassword,
     CompleteFirstAccess, ChangePassword, FindUserToDelete, Proceed, DiscardUnused, CreateToken,
     DispatchMail, MarkVerified, ConsumeReset, ConsumeFirstAccess, DeleteUser, SendError,
     Fault, Tick, vars, data
<1> QED BY <1>1, <1>2, <1>3, <1>4, <1>5

\* A temporary password in force was mailed, will be, or its request was cut short,
\* for any number of concurrent requests for the same user.
THEOREM TemporaryTheorem == Spec => []TemporaryExplained
<1>1. Init => TemporaryExplained
  BY ConstantAssumption DEF Init, TemporaryExplained
<1>2. Inv /\ TemporaryExplained /\ [Next]_vars => TemporaryExplained'
  <2> SUFFICES ASSUME Inv, TemporaryExplained, [Next]_vars, NEW u \in Users, password'[u] \in Ids
               PROVE  \/ password'[u] \in mailed' \cup cutShort'
                      \/ \E p \in Procs : pc'[p] \in Issuing /\ req'[p].id = password'[u]
    BY DEF TemporaryExplained
  <2>1. CASE password'[u] = password[u]
    BY <2>1, ExplainedStays DEF TemporaryExplained, Inv
  <2>2. CASE password'[u] # password[u]
    BY <2>2, WritesPassword, ConstantAssumption
  <2> QED BY <2>1, <2>2
<1> QED BY <1>1, <1>2, Invariance, PTL DEF Spec

-----------------------------------------------------------------------------
(* Why requests end: the safety half of what TemporaryIsMailed needs.        *)

\* The steps a request has still to take, at most.
Left(at) ==
    CASE at = "overwriting" -> 5
      [] at = "discarding" -> 4
      [] at = "creating" -> 3
      [] at \in {"mailing", "verifying", "resetting", "completing", "changing", "deleting"} -> 2
      [] at = "failed" -> 1
      [] at = "idle" -> 0

\* Whatever moves a request that is under way leaves it fewer steps to take.
RequestsEnd ==
    [][\A p \in Procs :
         pc[p] # "idle" /\ (pc'[p] # pc[p] \/ req'[p] # req[p])
           => Left(pc'[p]) \in Nat /\ Left(pc'[p]) < Left(pc[p])]_vars

\* Every request ends after finitely many of its own steps; no other request can
\* add to them.
THEOREM RequestsEndTheorem == Spec => RequestsEnd
<1>1. Inv /\ [Next]_vars
        => [\A p \in Procs :
              pc[p] # "idle" /\ (pc'[p] # pc[p] \/ req'[p] # req[p])
                => Left(pc'[p]) \in Nat /\ Left(pc'[p]) < Left(pc[p])]_vars
  <2> SUFFICES ASSUME Inv, [Next]_vars, NEW p \in Procs, pc[p] # "idle",
                      pc'[p] # pc[p] \/ req'[p] # req[p]
               PROVE  Left(pc'[p]) \in Nat /\ Left(pc'[p]) < Left(pc[p])
    OBVIOUS
  <2>1. Moves(p) /\ pc[p] \in PC
    BY NextMoves DEF Inv, TypeOK
  <2> QED BY <2>1 DEF Moves, Left, PC
<1> QED BY <1>1, Invariance, PTL DEF Spec, RequestsEnd
=============================================================================
