------------------------- MODULE ProfileImages_proofs -------------------------
(***************************************************************************)
(* Theorems about ProfileImages, for any number of users, extensions and   *)
(* requests.                                                               *)
(***************************************************************************)
EXTENDS ProfileImages, TLAPS

-----------------------------------------------------------------------------
(* The inductive invariant.                                                *)

\* What a request at `at` has found and done.
LocalsOK(at, r, address) ==
    /\ at = "idle" => r = NoRequest
    /\ at # "idle" => r.user \in Users /\ r.ext \in Exts
    /\ at = "deleting" => r.old \in Exts
    /\ r.cut => at \in {"uploading", "updating"} /\ address = "host"

TypeInv ==
    /\ publicUrl \in {"none", "host", "path"}
    /\ url \in [Users -> Exts \cup {None}]
    /\ publicUrl = "none" => \A u \in Users : url[u] = None
    /\ objects \subseteq Key
    /\ pc \in [Procs -> PC]
    /\ req \in [Procs -> Request]
    /\ \A p \in Procs : LocalsOK(pc[p], req[p], publicUrl)
    /\ met \subseteq Procs /\ broken \subseteq Users /\ littered \subseteq Users

\* q uploads for the user of p.
WithUserOf(p, q) == req[q].user = req[p].user

\* A request that met no other is the only one of its user.
Alone ==
    \A p \in Procs : pc[p] # "idle" /\ p \notin met =>
        \A q \in Procs : WithUserOf(p, q) => q = p

\* The requests of a user upload one extension, or the user is marked for it.
SameExt ==
    \A p, q \in Procs :
        /\ pc[p] # "idle" /\ WithUserOf(p, q)
        /\ ~(req[p].user \in broken /\ req[p].user \in littered)
        => req[q].ext = req[p].ext

\* q has deleted an image of the user u and has still to put the new one.
WillPut(q, u) == req[q].user = u /\ pc[q] = "uploading" /\ req[q].cut

\* An uploaded image is there, or the request that deleted it will put it again.
Uploaded ==
    \A p \in Procs : pc[p] = "updating" =>
        LET r == req[p] IN
        /\ p \notin met => <<r.user, r.ext>> \in objects
        /\ r.user \notin broken =>
               <<r.user, r.ext>> \in objects \/ \E q \in Procs : WillPut(q, r.user)

\* A URL leads to an image, or the request that deleted it is under way.
Resolves ==
    \A u \in Users \ broken : url[u] # None =>
        <<u, url[u]>> \in objects \/ \E q \in Procs : req[q].user = u /\ req[q].cut

\* Where every image that was replaced could be deleted.
Clean(u) == publicUrl = "host" /\ u \notin littered

\* The URL a request has read is still the user's, or leads to its own image.
OldKnown ==
    \A p \in Procs : pc[p] = "deleting" /\ Clean(req[p].user) =>
        url[req[p].user] \in {req[p].old, req[p].ext}

\* Past the deletion, the user has images of the new extension only.
Swept ==
    \A p \in Procs : pc[p] \in {"uploading", "updating"} /\ Clean(req[p].user) =>
        \A e \in Exts : <<req[p].user, e>> \in objects => e = req[p].ext

\* An image of a user is the one its URL leads to, or about to be.
Tidy ==
    \A u \in Users : Clean(u) =>
        \A e \in Exts : <<u, e>> \in objects =>
            \/ e = url[u]
            \/ \E p \in Procs : req[p].user = u /\ pc[p] = "updating" /\ req[p].ext = e

Inv == TypeInv /\ Alone /\ SameExt /\ Uploaded /\ Resolves /\ OldKnown /\ Swept /\ Tidy

LEMMA InitInv == Init => Inv
<1> SUFFICES ASSUME Init PROVE Inv
  OBVIOUS
<1>1. \A p \in Procs : pc[p] = "idle" /\ req[p] = NoRequest
  BY DEF Init
<1>2. TypeInv
  BY <1>1 DEF Init, TypeInv, LocalsOK, NoRequest, Request, PC
<1>3. Alone /\ SameExt /\ Uploaded /\ OldKnown /\ Swept
  BY <1>1 DEF Alone, SameExt, Uploaded, OldKnown, Swept
<1>4. Resolves /\ Tidy
  BY DEF Init, Resolves, Tidy
<1> QED BY <1>2, <1>3, <1>4 DEF Inv

-----------------------------------------------------------------------------
(* The steps.                                                              *)

\* A step of p, and of no other request.
Moved(p, to, r) ==
    /\ pc' \in [Procs -> PC] /\ req' \in [Procs -> Request]
    /\ pc'[p] = to /\ req'[p] = r
    /\ \A q \in Procs \ {p} : pc'[q] = pc[q] /\ req'[q] = req[q]

LEMMA GotoMoves ==
    ASSUME TypeInv, NEW p \in Procs, NEW from, NEW to \in PC, NEW r \in Request,
           Goto(p, from, to, r)
    PROVE  pc[p] = from /\ Moved(p, to, r)
BY DEF TypeInv, Goto, Moved

LEMMA NoRequestOK == NoRequest \in Request /\ NoRequest.user = None /\ ~NoRequest.cut
BY DEF NoRequest, Request

\* What is known of a request in flight.
LEMMA InFlight ==
    ASSUME TypeInv, NEW p \in Procs
    PROVE  /\ req[p] \in Request /\ LocalsOK(pc[p], req[p], publicUrl)
           /\ pc[p] # "idle" => req[p].user \in Users /\ req[p].ext \in Exts
           /\ pc[p] = "idle" => req[p].user = None
BY NoRequestOK DEF TypeInv, LocalsOK

LEMMA TypeStep ==
    ASSUME TypeInv, NEW p \in Procs, NEW to \in PC, NEW r \in Request, Moved(p, to, r),
           LocalsOK(to, r, publicUrl), UNCHANGED publicUrl,
           url' \in [Users -> Exts \cup {None}],
           publicUrl = "none" => url' = url,
           objects' \subseteq Key,
           met' \subseteq Procs, broken' \subseteq Users, littered' \subseteq Users
    PROVE  TypeInv'
<1>1. \A q \in Procs : LocalsOK(pc[q], req[q], publicUrl)'
  BY DEF TypeInv, Moved, LocalsOK
<1> QED BY <1>1 DEF TypeInv, Moved

\* A new request, of the user u.
LEMMA BeginKeeps ==
    ASSUME Inv, NEW p \in Procs, NEW u \in Users, NEW e \in Exts, Begin(p, u, e)
    PROVE  Inv'
<1> DEFINE r == [NoRequest EXCEPT !.user = u, !.ext = e]
<1>0. r \in Request /\ r.user = u /\ r.ext = e /\ r.cut = FALSE /\ r.old = None
  BY DEF NoRequest, Request
<1>1. pc[p] = "idle" /\ Moved(p, "finding", r)
  BY <1>0, GotoMoves DEF Begin, Inv, PC
<1> HIDE DEF r
<1>2. UNCHANGED <<publicUrl, url, objects>> /\ met \subseteq met'
      /\ broken \subseteq broken' /\ littered \subseteq littered'
  BY DEF Begin, storage
<1>3. u # None
  BY ImagesAssumption
<1>4. req[p].user = None /\ p \notin Of(u)
  BY <1>1, <1>3, InFlight DEF Inv, Of
<1>5. TypeInv'
  <2>1. LocalsOK("finding", r, publicUrl)
    BY <1>0 DEF LocalsOK
  <2>2. met' \subseteq Procs /\ broken' \subseteq Users /\ littered' \subseteq Users
    BY DEF Begin, Inv, TypeInv, Of, Clash
  <2> QED BY <1>0, <1>1, <1>2, <2>1, <2>2, TypeStep DEF PC, Inv, TypeInv
<1>6. Alone'
  <2> SUFFICES ASSUME NEW a \in Procs, pc'[a] # "idle", a \notin met',
                      NEW b \in Procs, req'[b].user = req'[a].user, a # b
               PROVE  FALSE
    BY DEF Alone, WithUserOf
  <2>1. CASE a # p /\ b # p
    BY <1>1, <1>2, <2>1 DEF Inv, Alone, WithUserOf, Moved
  <2>2. CASE a = p
    BY <1>0, <1>1, <2>2 DEF Begin, Of, Moved
  <2>3. CASE b = p
    BY <1>0, <1>1, <2>3 DEF Begin, Of, Moved
  <2> QED BY <2>1, <2>2, <2>3
<1>7. SameExt'
  <2> SUFFICES ASSUME NEW a \in Procs, NEW b \in Procs, pc'[a] # "idle",
                      req'[b].user = req'[a].user, req'[b].ext # req'[a].ext
               PROVE  req'[a].user \in broken' /\ req'[a].user \in littered'
    BY DEF SameExt, WithUserOf
  <2>1. CASE a # p /\ b # p
    BY <1>1, <1>2, <2>1 DEF Inv, SameExt, WithUserOf, Moved
  <2>2. CASE a = p \/ b = p
    <3>1. \E o \in Procs : req[o].user = u /\ req[o].ext # e
      BY <1>0, <1>1, <2>2 DEF Moved
    <3>2. u \in Clash(u, e)
      BY <3>1 DEF Clash, Of
    <3>3. req'[a].user = u
      BY <1>0, <1>1, <2>2 DEF Moved
    <3> QED BY <3>2, <3>3 DEF Begin
  <2> QED BY <2>1, <2>2
<1>8. Uploaded'
  <2>1. ASSUME NEW q \in Procs, NEW v, WillPut(q, v) PROVE WillPut(q, v)'
    BY <1>1, <2>1 DEF WillPut, Moved
  <2> QED BY <1>1, <1>2, <2>1 DEF Inv, Uploaded, Moved
<1>9. Resolves'
  <2>1. ASSUME NEW q \in Procs, NEW v \in Users, req[q].user = v, req[q].cut
        PROVE  req'[q].user = v /\ req'[q].cut
    BY <1>1, <1>4, <2>1, ImagesAssumption DEF Moved
  <2> QED BY <1>2, <2>1 DEF Inv, Resolves
<1>10. OldKnown' /\ Swept'
  BY <1>1, <1>2 DEF Inv, OldKnown, Swept, Clean, Moved
<1>11. Tidy'
  <2>1. ASSUME NEW q \in Procs, pc[q] = "updating" PROVE pc'[q] = pc[q] /\ req'[q] = req[q]
    BY <1>1, <2>1 DEF Moved
  <2> QED BY <1>2, <2>1 DEF Inv, Tidy, Clean
<1> QED BY <1>5, <1>6, <1>7, <1>8, <1>9, <1>10, <1>11 DEF Inv

\* A step on the way: user and extension stay, the request is neither new nor done.
LEMMA StayKeeps ==
    ASSUME Inv, NEW p \in Procs, NEW to \in PC \ {"idle"}, NEW r \in Request, Moved(p, to, r),
           pc[p] # "idle", r.user = req[p].user, r.ext = req[p].ext,
           UNCHANGED <<met, broken>>, littered \subseteq littered'
    PROVE  Alone' /\ SameExt'
<1>1. \A q \in Procs : req'[q].user = req[q].user /\ req'[q].ext = req[q].ext
                       /\ (pc'[q] # "idle" => pc[q] # "idle")
  BY DEF Moved
<1> QED BY <1>1 DEF Inv, Alone, SameExt, WithUserOf

\* The end of a request.  Whoever stays marked or clean does so rightly.
LEMMA EndKeeps ==
    ASSUME Inv, NEW p \in Procs, Moved(p, "idle", NoRequest), met' = met \ {p},
           littered \subseteq littered',
           \A u \in Users : u \in broken => u \in broken' \/ (u = req[p].user /\ p \notin met),
           pc[p] # "idle"
    PROVE  Alone' /\ SameExt'
<1>1. \A q \in Procs \ {p} : pc'[q] = pc[q] /\ req'[q] = req[q]
  BY DEF Moved
<1>2. pc'[p] = "idle" /\ req'[p].user = None
  BY NoRequestOK DEF Moved
<1>3. \A a \in Procs : pc'[a] # "idle" => a # p /\ req'[a].user \in Users /\ req'[a].user # None
  BY <1>1, <1>2, InFlight, ImagesAssumption DEF Inv
<1>4. Alone'
  BY <1>1, <1>2, <1>3 DEF Inv, Alone, WithUserOf
<1>5. SameExt'
  <2> SUFFICES ASSUME NEW a \in Procs, NEW b \in Procs, pc'[a] # "idle",
                      req'[b].user = req'[a].user, req'[b].ext # req'[a].ext
               PROVE  req'[a].user \in broken' /\ req'[a].user \in littered'
    BY DEF SameExt, WithUserOf
  <2>1. a # p /\ b # p
    BY <1>2, <1>3
  <2>2. req[a].user \in broken /\ req[a].user \in littered
    BY <1>1, <2>1 DEF Inv, SameExt, WithUserOf
  <2>3. ~(req[a].user = req[p].user /\ p \notin met)
    BY <2>1 DEF Inv, Alone, WithUserOf
  <2> QED BY <1>1, <1>3, <2>1, <2>2, <2>3
<1> QED BY <1>4, <1>5

LEMMA FindKeeps ==
    ASSUME Inv, NEW p \in Procs, FindUser(p)
    PROVE  Inv'
<1> DEFINE old == url[req[p].user]
           r   == [req[p] EXCEPT !.old = old]
           to  == IF old = None THEN "uploading" ELSE "deleting"
<1>0. req[p] \in Request /\ pc[p] = "finding" /\ req[p].user \in Users /\ req[p].ext \in Exts
      /\ ~req[p].cut
  BY InFlight DEF Inv, FindUser, LocalsOK
<1>1. old \in Exts \cup {None}
  BY <1>0 DEF Inv, TypeInv
<1>2. r \in Request /\ r.user = req[p].user /\ r.ext = req[p].ext /\ r.cut = FALSE /\ r.old = old
  BY <1>0, <1>1 DEF Request
<1>3. to \in PC \ {"idle"} /\ Moved(p, to, r)
  BY <1>2, GotoMoves DEF FindUser, Inv, PC
<1>4. UNCHANGED <<publicUrl, url, objects, met, broken, littered>>
  BY DEF FindUser, storage, history
<1>5. old = None => to = "uploading"
  OBVIOUS
<1>6. old # None => to = "deleting" /\ old \in Exts
  BY <1>1
<1> HIDE DEF r, to, old
<1>7. TypeInv'
  <2>1. LocalsOK(to, r, publicUrl)
    BY <1>0, <1>2, <1>5, <1>6 DEF LocalsOK
  <2> QED BY <1>2, <1>3, <1>4, <2>1, TypeStep DEF Inv, TypeInv
<1>8. Alone' /\ SameExt'
  BY <1>0, <1>2, <1>3, <1>4, StayKeeps
<1>9. /\ \A q \in Procs \ {p} : pc'[q] = pc[q] /\ req'[q] = req[q]
      /\ pc'[p] = to /\ req'[p] = r
  BY <1>3 DEF Moved
<1>10. Uploaded'
  <2>1. ASSUME NEW q \in Procs, NEW v, WillPut(q, v) PROVE WillPut(q, v)'
    BY <1>0, <1>9, <2>1 DEF WillPut
  <2>2. \A q \in Procs : pc'[q] = "updating" => q # p
    BY <1>5, <1>6, <1>9
  <2> QED BY <1>4, <1>9, <2>1, <2>2 DEF Inv, Uploaded
<1>11. Resolves'
  <2>1. ASSUME NEW q \in Procs, req[q].cut PROVE req'[q] = req[q]
    BY <1>0, <1>9, <2>1
  <2> QED BY <1>4, <2>1 DEF Inv, Resolves
<1>12. OldKnown'
  <2>1. url[req[p].user] = r.old
    BY <1>2 DEF old
  <2> QED BY <1>2, <1>4, <1>9, <2>1 DEF Inv, OldKnown, Clean
<1>13. Swept'
  <2>1. ASSUME old = None, Clean(req[p].user), NEW e \in Exts, <<req[p].user, e>> \in objects
        PROVE  e = req[p].ext
    <3>1. url[req[p].user] = None /\ e # None
      BY <2>1, ImagesAssumption DEF old
    <3>2. \E q \in Procs : req[q].user = req[p].user /\ pc[q] = "updating" /\ req[q].ext = e
      BY <1>0, <2>1, <3>1 DEF Inv, Tidy
    <3>3. req[p].user \notin littered
      BY <2>1 DEF Clean
    <3> QED BY <1>0, <3>2, <3>3 DEF Inv, SameExt, WithUserOf
  <2>2. ASSUME NEW q \in Procs, pc'[q] \in {"uploading", "updating"},
               publicUrl' = "host", req'[q].user \notin littered',
               NEW e \in Exts, <<req'[q].user, e>> \in objects'
        PROVE  e = req'[q].ext
    <3>1. CASE q = p
      BY <1>2, <1>4, <1>5, <1>6, <1>9, <2>1, <2>2, <3>1 DEF Clean
    <3>2. CASE q # p
      BY <1>4, <1>9, <2>2, <3>2 DEF Inv, Swept, Clean
    <3> QED BY <3>1, <3>2
  <2> QED BY <2>2 DEF Swept, Clean
<1>14. Tidy'
  <2>1. ASSUME NEW q \in Procs, pc[q] = "updating" PROVE pc'[q] = pc[q] /\ req'[q] = req[q]
    BY <1>0, <1>9, <2>1
  <2> QED BY <1>4, <2>1 DEF Inv, Tidy, Clean
<1> QED BY <1>7, <1>8, <1>10, <1>11, <1>12, <1>13, <1>14 DEF Inv

\* The deletion of the old image, done or failed: whoever cut it will put the new one.
LEMMA DeleteKeeps ==
    ASSUME Inv, NEW p \in Procs, DeleteOld(p) \/ DeleteFails(p)
    PROVE  Inv'
<1> DEFINE done == DeleteOld(p)
           r == IF done THEN [req[p] EXCEPT !.cut = OldKeys(req[p]) # {}] ELSE req[p]
<1>0. pc[p] = "deleting" /\ req[p] \in Request /\ req[p].user \in Users /\ req[p].ext \in Exts
      /\ req[p].old \in Exts /\ ~req[p].cut
  BY InFlight DEF Inv, DeleteOld, DeleteFails, Goto, LocalsOK
<1>1. /\ r \in Request /\ r.user = req[p].user /\ r.ext = req[p].ext
      /\ r.cut => publicUrl = "host"
  BY <1>0 DEF Request, OldKeys
<1>2. Moved(p, "uploading", r)
  BY <1>1, GotoMoves DEF DeleteOld, DeleteFails, Inv, PC
<1>3. UNCHANGED <<publicUrl, url, met, broken>>
      /\ littered \subseteq littered' /\ objects' \subseteq objects
  BY DEF DeleteOld, DeleteFails, storage, history
<1>4. \A v \in Users, e \in Exts : <<v, e>> \in objects =>
          <<v, e>> \in objects' \/ (v = req[p].user /\ e = req[p].old /\ r.cut)
  BY <1>0, <1>1 DEF DeleteOld, DeleteFails, OldKeys, storage, Request
<1>5. publicUrl = "host" =>
          <<req[p].user, req[p].old>> \notin objects' \/ req[p].user \in littered'
  BY DEF DeleteOld, DeleteFails, OldKeys
<1>6. littered' \subseteq Users
  BY <1>0 DEF DeleteOld, DeleteFails, Inv, TypeInv, history
<1> HIDE DEF r
<1>7. /\ \A q \in Procs \ {p} : pc'[q] = pc[q] /\ req'[q] = req[q]
      /\ pc'[p] = "uploading" /\ req'[p] = r
  BY <1>2 DEF Moved
<1>8. TypeInv'
  <2>1. LocalsOK("uploading", r, publicUrl)
    BY <1>0, <1>1 DEF LocalsOK
  <2> QED BY <1>1, <1>2, <1>3, <1>6, <2>1, TypeStep DEF Inv, TypeInv, PC
<1>9. Alone' /\ SameExt'
  BY <1>0, <1>1, <1>2, <1>3, StayKeeps DEF PC
<1>10. Uploaded'
  <2> SUFFICES ASSUME NEW q \in Procs, pc'[q] = "updating"
               PROVE  /\ q \notin met' => <<req'[q].user, req'[q].ext>> \in objects'
                      /\ req'[q].user \notin broken' =>
                            \/ <<req'[q].user, req'[q].ext>> \in objects'
                            \/ \E o \in Procs : WillPut(o, req[q].user)'
    BY <1>7 DEF Uploaded, WillPut
  <2>1. q # p /\ req'[q] = req[q] /\ pc[q] = "updating"
    BY <1>7
  <2>2. req[q].user \in Users /\ req[q].ext \in Exts
    BY <2>1, InFlight DEF Inv
  <2>3. ASSUME q \notin met PROVE <<req[q].user, req[q].ext>> \in objects'
    <3>1. req[q].user # req[p].user
      BY <2>1, <2>3 DEF Inv, Alone, WithUserOf
    <3> QED BY <1>4, <2>1, <2>2, <2>3, <3>1 DEF Inv, Uploaded
  <2>4. ASSUME NEW o \in Procs, WillPut(o, req[q].user) PROVE WillPut(o, req[q].user)'
    BY <1>0, <1>7, <2>1, <2>4 DEF WillPut
  <2>5. r.cut /\ req[q].user = req[p].user => WillPut(p, req[q].user)'
    BY <1>1, <1>7, <2>1 DEF WillPut
  <2> QED BY <1>3, <1>4, <2>1, <2>2, <2>3, <2>4, <2>5 DEF Inv, Uploaded
<1>11. Resolves'
  <2> SUFFICES ASSUME NEW u \in Users \ broken, url[u] # None
               PROVE  \/ <<u, url[u]>> \in objects'
                      \/ \E q \in Procs : req'[q].user = u /\ req'[q].cut
    BY <1>3 DEF Resolves
  <2>1. url[u] \in Exts
    BY DEF Inv, TypeInv
  <2>2. \A q \in Procs : req[q].user = u /\ req[q].cut => req'[q].user = u /\ req'[q].cut
    BY <1>0, <1>7
  <2> QED BY <1>1, <1>4, <1>7, <2>1, <2>2 DEF Inv, Resolves
<1>12. OldKnown'
  BY <1>3, <1>7 DEF Inv, OldKnown, Clean
<1>13. Swept'
  <2> SUFFICES ASSUME NEW q \in Procs, pc'[q] \in {"uploading", "updating"},
                      publicUrl = "host", req'[q].user \notin littered',
                      NEW e \in Exts, <<req'[q].user, e>> \in objects'
               PROVE  e = req'[q].ext
    BY <1>3 DEF Swept, Clean
  <2>1. CASE q # p
    BY <1>3, <1>7, <2>1 DEF Inv, Swept, Clean
  <2>2. CASE q = p
    <3>1. <<req[p].user, e>> \in objects /\ Clean(req[p].user) /\ e # req[p].old
      BY <1>1, <1>3, <1>5, <1>7, <2>2 DEF Clean
    <3>2. CASE e = url[req[p].user]
      BY <1>0, <1>1, <1>7, <2>2, <3>1, <3>2 DEF Inv, OldKnown
    <3>3. CASE \E o \in Procs : req[o].user = req[p].user /\ pc[o] = "updating" /\ req[o].ext = e
      BY <1>0, <1>1, <1>7, <2>2, <3>1, <3>3 DEF Inv, SameExt, WithUserOf, Clean
    <3> QED BY <1>0, <3>1, <3>2, <3>3 DEF Inv, Tidy
  <2> QED BY <2>1, <2>2
<1>14. Tidy'
  <2>1. ASSUME NEW q \in Procs, pc[q] = "updating" PROVE pc'[q] = pc[q] /\ req'[q] = req[q]
    BY <1>0, <1>7, <2>1
  <2> QED BY <1>3, <2>1 DEF Inv, Tidy, Clean
<1> QED BY <1>8, <1>9, <1>10, <1>11, <1>12, <1>13, <1>14 DEF Inv

LEMMA UploadKeeps ==
    ASSUME Inv, NEW p \in Procs, Upload(p)
    PROVE  Inv'
<1> DEFINE r == req[p]
<1>0. pc[p] = "uploading" /\ r \in Request /\ r.user \in Users /\ r.ext \in Exts
      /\ LocalsOK("uploading", r, publicUrl)
  BY InFlight DEF Inv, Upload, Goto
<1>1. Moved(p, "updating", r)
  BY <1>0, GotoMoves DEF Upload, Inv, PC
<1>2. UNCHANGED <<publicUrl, url, met, broken, littered>>
      /\ objects' = objects \cup {<<r.user, r.ext>>}
  BY DEF Upload, history
<1>3. /\ \A q \in Procs \ {p} : pc'[q] = pc[q] /\ req'[q] = req[q]
      /\ pc'[p] = "updating" /\ req'[p] = r
  BY <1>1 DEF Moved
<1>4. TypeInv'
  <2>1. LocalsOK("updating", r, publicUrl)
    BY <1>0 DEF LocalsOK
  <2>2. objects' \subseteq Key
    BY <1>0, <1>2 DEF Inv, TypeInv, Key
  <2> QED BY <1>0, <1>1, <1>2, <2>1, <2>2, TypeStep DEF Inv, TypeInv, PC
<1>5. Alone' /\ SameExt'
  BY <1>0, <1>1, <1>2, StayKeeps DEF PC
<1>6. Uploaded'
  <2> SUFFICES ASSUME NEW q \in Procs, pc'[q] = "updating"
               PROVE  /\ q \notin met => <<req[q].user, req[q].ext>> \in objects'
                      /\ req[q].user \notin broken =>
                            \/ <<req[q].user, req[q].ext>> \in objects'
                            \/ \E o \in Procs : WillPut(o, req[q].user)'
    BY <1>2, <1>3 DEF Uploaded, WillPut
  <2>1. CASE q = p
    BY <1>2, <2>1
  <2>2. CASE q # p
    <3>1. pc[q] = "updating"
      BY <1>3, <2>2
    <3>2. ASSUME NEW o \in Procs, WillPut(o, req[q].user), o # p
          PROVE  WillPut(o, req[q].user)'
      BY <1>3, <2>2, <3>2 DEF WillPut
    <3>3. ASSUME WillPut(p, req[q].user), req[q].user \notin broken
          PROVE  <<req[q].user, req[q].ext>> \in objects'
      BY <1>0, <1>2, <3>1, <3>3 DEF WillPut, Inv, SameExt, WithUserOf
    <3> QED BY <1>2, <3>1, <3>2, <3>3 DEF Inv, Uploaded
  <2> QED BY <2>1, <2>2
<1>7. Resolves'
  <2>1. \A q \in Procs : req'[q] = req[q]
    BY <1>3
  <2> QED BY <1>2, <2>1 DEF Inv, Resolves
<1>8. OldKnown'
  BY <1>2, <1>3 DEF Inv, OldKnown, Clean
<1>9. Swept'
  <2> SUFFICES ASSUME NEW q \in Procs, pc'[q] \in {"uploading", "updating"}, Clean(req[q].user),
                      NEW e \in Exts, <<req[q].user, e>> \in objects'
               PROVE  e = req[q].ext
    BY <1>2, <1>3 DEF Swept, Clean
  <2>1. pc[q] \in {"uploading", "updating"}
    BY <1>0, <1>3
  <2>2. CASE <<req[q].user, e>> \in objects
    BY <2>1, <2>2 DEF Inv, Swept
  <2>3. CASE req[q].user = r.user /\ e = r.ext
    BY <2>1, <2>3 DEF Inv, SameExt, WithUserOf, Clean
  <2> QED BY <1>2, <2>2, <2>3
<1>10. Tidy'
  <2> SUFFICES ASSUME NEW u \in Users, Clean(u), NEW e \in Exts, <<u, e>> \in objects'
               PROVE  \/ e = url[u]
                      \/ \E q \in Procs : req'[q].user = u /\ pc'[q] = "updating" /\ req'[q].ext = e
    BY <1>2 DEF Tidy, Clean
  <2>1. CASE <<u, e>> \in objects
    <3>1. \A q \in Procs : pc[q] = "updating" => pc'[q] = "updating" /\ req'[q] = req[q]
      BY <1>3
    <3> QED BY <2>1, <3>1 DEF Inv, Tidy
  <2>2. CASE u = r.user /\ e = r.ext
    BY <1>3, <2>2
  <2> QED BY <1>2, <2>1, <2>2
<1> QED BY <1>4, <1>5, <1>6, <1>7, <1>8, <1>9, <1>10 DEF Inv

\* A request that ends early, after a deletion or an upload or neither.
LEMMA EndEarlyKeeps ==
    ASSUME Inv, NEW p \in Procs, NEW from \in PC \ {"idle"}, NEW put \in BOOLEAN,
           EndEarly(p, from, put), UNCHANGED <<publicUrl, url>>,
           objects' = objects
              \/ (put /\ objects' = objects \cup {<<req[p].user, req[p].ext>>}),
           from = "updating" => put
    PROVE  Inv'
<1> DEFINE r == req[p]
<1>0. pc[p] = from /\ r \in Request /\ r.user \in Users /\ r.ext \in Exts
  BY InFlight DEF Inv, EndEarly, End, Goto
<1>1. Moved(p, "idle", NoRequest)
  BY NoRequestOK, GotoMoves DEF EndEarly, End, Inv, PC
<1>2. /\ \A q \in Procs \ {p} : pc'[q] = pc[q] /\ req'[q] = req[q]
      /\ pc'[p] = "idle" /\ req'[p].user = None /\ ~req'[p].cut
  BY <1>1, NoRequestOK DEF Moved
<1>3. /\ met' = met \ {p}
      /\ broken' \in SUBSET Users /\ littered' \in SUBSET Users
      /\ broken \subseteq broken' /\ littered \subseteq littered'
      /\ r.cut => r.user \in broken'
      /\ put => r.user \in littered'
  BY <1>0 DEF EndEarly, Inv, TypeInv
<1>4. TypeInv'
  <2>1. LocalsOK("idle", NoRequest, publicUrl)
    BY NoRequestOK DEF LocalsOK
  <2>2. objects' \subseteq Key
    BY <1>0 DEF Inv, TypeInv, Key
  <2> QED BY <1>1, <1>3, <2>1, <2>2, NoRequestOK, TypeStep DEF Inv, TypeInv, PC
<1>5. Alone' /\ SameExt'
  BY <1>0, <1>1, <1>3, EndKeeps
<1>6. \A q \in Procs : pc'[q] # "idle" => q # p /\ pc[q] = pc'[q] /\ req'[q] = req[q]
  BY <1>2
<1>7. Uploaded'
  <2> SUFFICES ASSUME NEW q \in Procs, pc'[q] = "updating"
               PROVE  /\ q \notin met' => <<req[q].user, req[q].ext>> \in objects'
                      /\ req[q].user \notin broken' =>
                            \/ <<req[q].user, req[q].ext>> \in objects'
                            \/ \E o \in Procs : WillPut(o, req[q].user)'
    BY <1>6 DEF Uploaded, WillPut
  <2>1. q # p /\ pc[q] = "updating"
    BY <1>6
  <2>2. ASSUME NEW o \in Procs, WillPut(o, req[q].user), req[q].user \notin broken'
        PROVE  WillPut(o, req[q].user)'
    BY <1>2, <1>3, <2>1, <2>2 DEF WillPut
  <2> QED BY <1>3, <2>1, <2>2 DEF Inv, Uploaded
<1>8. Resolves'
  <2>1. ASSUME NEW u \in Users \ broken', NEW q \in Procs, req[q].user = u, req[q].cut
        PROVE  req'[q] = req[q]
    BY <1>2, <1>3, <2>1
  <2> QED BY <1>3, <2>1 DEF Inv, Resolves
<1>9. OldKnown'
  BY <1>3, <1>6 DEF Inv, OldKnown, Clean
<1>10. ASSUME NEW u \in Users, Clean(u), u \notin littered', NEW e
       PROVE  <<u, e>> \in objects' => <<u, e>> \in objects
  BY <1>3, <1>10
<1>11. Swept'
  <2> SUFFICES ASSUME NEW q \in Procs, pc'[q] \in {"uploading", "updating"},
                      publicUrl = "host", req[q].user \notin littered',
                      NEW e \in Exts, <<req[q].user, e>> \in objects'
               PROVE  e = req[q].ext
    BY <1>6 DEF Swept, Clean
  <2>1. pc[q] \in {"uploading", "updating"} /\ req[q].user \in Users
    BY <1>6, InFlight DEF Inv
  <2>2. Clean(req[q].user)
    BY <1>3 DEF Clean
  <2>3. <<req[q].user, e>> \in objects
    BY <1>10, <2>1, <2>2
  <2> QED BY <2>1, <2>2, <2>3 DEF Inv, Swept
<1>12. Tidy'
  <2> SUFFICES ASSUME NEW u \in Users, publicUrl = "host", u \notin littered',
                      NEW e \in Exts, <<u, e>> \in objects'
               PROVE  \/ e = url[u]
                      \/ \E q \in Procs : req'[q].user = u /\ pc'[q] = "updating" /\ req'[q].ext = e
    BY DEF Tidy, Clean
  <2>1. Clean(u) /\ <<u, e>> \in objects
    BY <1>3, <1>10 DEF Clean
  <2>2. ASSUME NEW q \in Procs, req[q].user = u, pc[q] = "updating"
        PROVE  pc'[q] = "updating" /\ req'[q] = req[q]
    BY <1>0, <1>2, <1>3, <2>2
  <2> QED BY <2>1, <2>2 DEF Inv, Tidy
<1> QED BY <1>4, <1>5, <1>7, <1>8, <1>9, <1>11, <1>12 DEF Inv

\* The new URL: its image is there, or its deleter will put it again.
LEMMA UpdateKeeps ==
    ASSUME Inv, NEW p \in Procs, UpdateUrl(p)
    PROVE  Inv'
<1> DEFINE r == req[p]
<1>0. pc[p] = "updating" /\ r \in Request /\ r.user \in Users /\ r.ext \in Exts
      /\ LocalsOK("updating", r, publicUrl)
  BY InFlight DEF Inv, UpdateUrl, End, Goto
<1>1. Moved(p, "idle", NoRequest)
  BY NoRequestOK, GotoMoves DEF UpdateUrl, End, Inv, PC
<1>2. /\ \A q \in Procs \ {p} : pc'[q] = pc[q] /\ req'[q] = req[q]
      /\ pc'[p] = "idle" /\ req'[p].user = None /\ ~req'[p].cut
  BY <1>1, NoRequestOK DEF Moved
<1>3. /\ UNCHANGED <<publicUrl, objects, littered>>
      /\ met' = met \ {p}
      /\ broken' \subseteq broken
      /\ \A u \in Users : u \in broken => u \in broken' \/ (u = r.user /\ p \notin met)
  BY DEF UpdateUrl
<1>4. /\ url' \in [Users -> Exts \cup {None}]
      /\ \A u \in Users \ {r.user} : url'[u] = url[u]
      /\ publicUrl = "none" => url' = url
      /\ publicUrl # "none" => url'[r.user] = r.ext
  BY <1>0 DEF UpdateUrl, Inv, TypeInv
<1>5. TypeInv'
  <2>1. LocalsOK("idle", NoRequest, publicUrl)
    BY NoRequestOK DEF LocalsOK
  <2> QED BY <1>1, <1>3, <1>4, <2>1, NoRequestOK, TypeStep DEF Inv, TypeInv, PC
<1>6. Alone' /\ SameExt'
  BY <1>0, <1>1, <1>3, EndKeeps
<1>7. \A q \in Procs : pc'[q] # "idle" => q # p /\ pc[q] = pc'[q] /\ req'[q] = req[q]
  BY <1>2
<1>8. ASSUME NEW q \in Procs, NEW u, WillPut(q, u)
      PROVE  WillPut(q, u)' /\ req'[q].user = u /\ req'[q].cut
  BY <1>0, <1>2, <1>8 DEF WillPut
<1>9. Uploaded'
  <2> SUFFICES ASSUME NEW q \in Procs, pc'[q] = "updating"
               PROVE  /\ q \notin met' => <<req[q].user, req[q].ext>> \in objects
                      /\ req[q].user \notin broken' =>
                            \/ <<req[q].user, req[q].ext>> \in objects
                            \/ \E o \in Procs : WillPut(o, req[q].user)'
    BY <1>3, <1>7 DEF Uploaded, WillPut
  <2>1. q # p /\ pc[q] = "updating" /\ req[q].user \in Users /\ req'[q] = req[q]
    BY <1>7, InFlight DEF Inv
  <2>2. req[q].user \notin broken' => req[q].user \notin broken
    BY <1>0, <1>3, <2>1 DEF Inv, Alone, WithUserOf
  <2>3. ASSUME NEW o \in Procs, WillPut(o, req[q].user) PROVE WillPut(o, req[q].user)'
    BY <1>0, <1>2, <2>1, <2>3 DEF WillPut
  <2> QED BY <1>3, <2>1, <2>2, <2>3 DEF Inv, Uploaded
<1>10. Resolves'
  <2> SUFFICES ASSUME NEW u \in Users, u \notin broken', url'[u] # None
               PROVE  \/ <<u, url'[u]>> \in objects
                      \/ \E q \in Procs : req'[q].user = u /\ req'[q].cut
    BY <1>3 DEF Resolves
  <2>1. CASE u # r.user
    <3>1. u \notin broken /\ url'[u] = url[u]
      BY <1>3, <1>4, <2>1
    <3>2. ASSUME NEW q \in Procs, req[q].user = u PROVE req'[q] = req[q]
      BY <1>2, <2>1, <3>2
    <3> QED BY <3>1, <3>2 DEF Inv, Resolves
  <2>2. CASE u = r.user
    <3>1. publicUrl # "none" /\ url'[u] = r.ext
      BY <1>4, <2>2 DEF Inv, TypeInv
    <3>2. <<u, r.ext>> \in objects \/ \E q \in Procs : WillPut(q, u)
      BY <1>0, <1>3, <2>2 DEF Inv, Uploaded
    <3> QED BY <1>8, <3>1, <3>2
  <2> QED BY <2>1, <2>2
<1>11. OldKnown'
  <2> SUFFICES ASSUME NEW q \in Procs, pc'[q] = "deleting", Clean(req[q].user)
               PROVE  url'[req[q].user] \in {req[q].old, req[q].ext}
    BY <1>3, <1>7 DEF OldKnown, Clean
  <2>1. pc[q] = "deleting" /\ req[q].user \in Users
    BY <1>7, InFlight DEF Inv
  <2>2. CASE req[q].user # r.user
    BY <1>4, <2>1, <2>2 DEF Inv, OldKnown
  <2>3. CASE req[q].user = r.user
    <3>1. req[q].ext = r.ext
      BY <2>1, <2>3 DEF Inv, SameExt, WithUserOf, Clean
    <3> QED BY <1>4, <2>3, <3>1 DEF Clean
  <2> QED BY <2>2, <2>3
<1>12. Swept'
  BY <1>3, <1>7 DEF Inv, Swept, Clean
<1>13. Tidy'
  <2> SUFFICES ASSUME NEW u \in Users, Clean(u), NEW e \in Exts, <<u, e>> \in objects
               PROVE  \/ e = url'[u]
                      \/ \E q \in Procs : req'[q].user = u /\ pc'[q] = "updating" /\ req'[q].ext = e
    BY <1>3 DEF Tidy, Clean
  <2>1. CASE u # r.user
    <3>1. ASSUME NEW q \in Procs, req[q].user = u, pc[q] = "updating"
          PROVE  pc'[q] = "updating" /\ req'[q] = req[q]
      BY <1>2, <2>1, <3>1
    <3> QED BY <1>4, <2>1, <3>1 DEF Inv, Tidy
  <2>2. CASE u = r.user
    BY <1>0, <1>4, <2>2 DEF Inv, Swept, Clean
  <2> QED BY <2>1, <2>2
<1> QED BY <1>5, <1>6, <1>9, <1>10, <1>11, <1>12, <1>13 DEF Inv

LEMMA NextInv == Inv /\ [Next]_vars => Inv'
<1> SUFFICES ASSUME Inv, [Next]_vars PROVE Inv'
  OBVIOUS
<1>1. CASE UNCHANGED vars
  BY <1>1 DEF vars, storage, history, Inv, TypeInv, Alone, SameExt, Uploaded, Resolves,
              OldKnown, Swept, Tidy, WithUserOf, WillPut, Clean
<1>2. ASSUME NEW p \in Procs, NEW u \in Users, NEW e \in Exts, Begin(p, u, e) PROVE Inv'
  BY <1>2, BeginKeeps
<1>3. ASSUME NEW p \in Procs, Proceed(p) PROVE Inv'
  <2>1. CASE FindUser(p)
    BY <2>1, FindKeeps
  <2>2. CASE DeleteOld(p) \/ DeleteFails(p)
    BY <2>2, DeleteKeeps
  <2>3. CASE Upload(p)
    BY <2>3, UploadKeeps
  <2>4. ASSUME NEW put \in BOOLEAN, UploadFails(p, put) PROVE Inv'
    <3>1. /\ EndEarly(p, "uploading", put) /\ UNCHANGED <<publicUrl, url>>
          /\ objects' = objects
                \/ (put /\ objects' = objects \cup {<<req[p].user, req[p].ext>>})
      BY <2>4 DEF UploadFails
    <3> QED BY <3>1, EndEarlyKeeps DEF PC
  <2>5. CASE UpdateUrl(p)
    BY <2>5, UpdateKeeps
  <2>6. CASE Fail(p)
    <3> DEFINE put == pc[p] = "updating"
    <3>1. pc[p] \in PC \ {"idle"} /\ put \in BOOLEAN
      BY <2>6 DEF Fail, Inv, TypeInv
    <3>2. EndEarly(p, pc[p], put) /\ UNCHANGED <<publicUrl, url>> /\ objects' = objects
      BY <2>6 DEF Fail, storage
    <3> QED BY <3>1, <3>2, EndEarlyKeeps
  <2> QED BY <1>3, <2>1, <2>2, <2>3, <2>4, <2>5, <2>6 DEF Proceed
<1> QED BY <1>1, <1>2, <1>3 DEF Next

LEMMA Invariance == Spec => []Inv
BY InitInv, NextInv, PTL DEF Spec

-----------------------------------------------------------------------------
(* The theorems.                                                           *)

\* Every reachable state is well typed; a request deletes only an image it has found.
THEOREM TypeCorrect == Spec => []TypeOK
<1>1. Inv => TypeOK
  <2> SUFFICES ASSUME Inv PROVE TypeOK
    OBVIOUS
  <2>1. \A p \in Procs : pc[p] = "deleting" => req[p].old # None
    BY ImagesAssumption DEF Inv, TypeInv, LocalsOK
  <2> QED BY <2>1 DEF Inv, TypeInv, TypeOK
<1> QED BY <1>1, Invariance, PTL

\* When no upload of a user is under way, its URL leads to an image, for any number of
\* uploads that interleaved, unless one ended halfway or two extensions met.
THEOREM ResolvesTheorem == Spec => []ImageResolves
<1>1. Inv => ImageResolves
  BY DEF Inv, Resolves, ImageResolves, Quiet, Of
<1> QED BY <1>1, Invariance, PTL

\* Then, too, no replaced image is left in the storage, if URLs are a host and a key.
THEOREM LitterTheorem == Spec => []NoLitter
<1>1. Inv => NoLitter
  <2> SUFFICES ASSUME Inv, NEW u \in Users \ (littered \cup broken), Quiet(u),
                      publicUrl = "host", NEW e \in Exts, <<u, e>> \in objects
               PROVE  url[u] = e
    BY DEF NoLitter
  <2>1. ~\E p \in Procs : req[p].user = u
    BY DEF Quiet, Of
  <2> QED BY <2>1 DEF Inv, Tidy, Clean
<1> QED BY <1>1, Invariance, PTL
=============================================================================
