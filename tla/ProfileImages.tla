---------------------------- MODULE ProfileImages ----------------------------
(***************************************************************************)
(* UserUploadService.uploadProfileImage: a user's old image is deleted     *)
(* from the storage, the new one put there, and its URL stored with the    *)
(* user, in four statements to two systems and no transaction.             *)
(*                                                                         *)
(* A request is a process.  The key of an image is its user and the        *)
(* extension of the file; contents are left out.  Either adapter, R2 or    *)
(* MinIO, turns an error of the storage into an answer without success,    *)
(* which may hide that the storage obeyed.  The requests of                *)
(* StorageController on other keys are left out.                           *)
(***************************************************************************)
EXTENDS Naturals

CONSTANTS
    Users,
    Exts,       \* extensions of file names
    Procs,      \* requests that can be in flight at once
    None

ASSUME ImagesAssumption == None \notin Exts \cup Users

VARIABLES
    publicUrl,  \* the adapter's: none, a host, or a host and a path such as the bucket
    url,        \* profileImageUrl of each user, by its extension, or None
    objects,    \* the keys in the bucket
    pc,
    req,
    met,        \* HISTORY: requests that met another of the same user
    broken,     \* HISTORY: users whose URL may lead nowhere, and
    littered    \*   users who may have an image no URL leads to

storage == <<publicUrl, url, objects>>
history == <<met, broken, littered>>
vars    == <<storage, pc, req, history>>

PC == {"idle", "finding", "deleting", "uploading", "updating"}

Key == Users \X Exts

Request == [user : Users \cup {None},
            ext  : Exts \cup {None},
            old  : Exts \cup {None},  \* the image that was read
            cut  : BOOLEAN]           \* HISTORY: its object was deleted

NoRequest == [user |-> None, ext |-> None, old |-> None, cut |-> FALSE]

Init ==
    /\ publicUrl \in {"none", "host", "path"}
    /\ url = [u \in Users |-> None]
    /\ objects = {}
    /\ pc = [p \in Procs |-> "idle"]
    /\ req = [p \in Procs |-> NoRequest]
    /\ met = {}
    /\ broken = {}
    /\ littered = {}

Goto(p, from, to, r) ==
    /\ pc[p] = from
    /\ pc' = [pc EXCEPT ![p] = to]
    /\ req' = [req EXCEPT ![p] = r]

End(p, from) == Goto(p, from, "idle", NoRequest)

\* A request that ends early leaves what it did: the object it deleted, the one it put.
EndEarly(p, from, put) ==
    LET r == req[p] IN
    /\ End(p, from)
    /\ met' = met \ {p}
    /\ broken' = IF r.cut THEN broken \cup {r.user} ELSE broken
    /\ littered' = IF put THEN littered \cup {r.user} ELSE littered

-----------------------------------------------------------------------------
Of(u) == {q \in Procs : req[q].user = u}

\* Two extensions at once: either request may delete what the other has put.
Clash(u, ext) == {u} \cap {req[q].user : q \in {o \in Of(u) : req[o].ext # ext}}

\* A user uploads an image of its own.
Begin(p, u, ext) ==
    /\ Goto(p, "idle", "finding", [NoRequest EXCEPT !.user = u, !.ext = ext])
    /\ met' = IF Of(u) = {} THEN met ELSE met \cup Of(u) \cup {p}
    /\ broken' = broken \cup Clash(u, ext)
    /\ littered' = littered \cup Clash(u, ext)
    /\ UNCHANGED storage

\* MUTANT of FindUser: there is always an image to delete.
FindUserImage(p) ==
    /\ pc[p] = "finding"
    /\ Goto(p, "finding", "deleting", [req[p] EXCEPT !.old = url[req[p].user]])
    /\ UNCHANGED <<storage, history>>

FindUser(p) ==
    LET old == url[req[p].user] IN
    /\ pc[p] = "finding"
    /\ Goto(p, "finding", IF old = None THEN "uploading" ELSE "deleting",
            [req[p] EXCEPT !.old = old])
    /\ UNCHANGED <<storage, history>>

\* MUTANTS of OldKeys: the image of that extension of any user; the leading slash stays.
OldKeysOfAny(r) == IF publicUrl = "host" THEN Users \X {r.old} ELSE {}

OldKeysSlashed(r) == {}

\* The key is the path of the URL, so that it is the image's only under a bare host.
OldKeys(r) == IF publicUrl = "host" THEN {<<r.user, r.old>>} ELSE {}

\* The old image is deleted; the answer is not looked at, and an exception is caught.
DeleteOld(p) ==
    LET r == req[p] IN
    /\ Goto(p, "deleting", "uploading", [r EXCEPT !.cut = OldKeys(r) # {}])
    /\ objects' = objects \ OldKeys(r)
    /\ UNCHANGED <<publicUrl, url, history>>

DeleteFails(p) ==
    /\ Goto(p, "deleting", "uploading", req[p])
    /\ littered' = littered \cup {req[p].user}
    /\ UNCHANGED <<storage, met, broken>>

Upload(p) ==
    LET r == req[p] IN
    /\ Goto(p, "uploading", "updating", r)
    /\ objects' = objects \cup {<<r.user, r.ext>>}
    /\ UNCHANGED <<publicUrl, url, history>>

\* The adapter answers without success: the request does.  Whether or not the object
\* is there, the URL stays what it was.
UploadFails(p, put) ==
    LET r == req[p] IN
    /\ EndEarly(p, "uploading", put)
    /\ objects' = IF put THEN objects \cup {<<r.user, r.ext>>} ELSE objects
    /\ UNCHANGED <<publicUrl, url>>

\* user.update of the URL, deleted user or not; an undefined URL changes nothing.  A
\* request that met no other leaves a sound image, whatever was before it.
UpdateUrl(p) ==
    LET r == req[p] IN
    /\ End(p, "updating")
    /\ url' = IF publicUrl = "none" THEN url ELSE [url EXCEPT ![r.user] = r.ext]
    /\ met' = met \ {p}
    /\ broken' = IF p \in met THEN broken ELSE broken \ {r.user}
    /\ UNCHANGED <<publicUrl, objects, littered>>

\* A deleted user, an exception of the database, or a crash.
Fail(p) ==
    /\ pc[p] # "idle"
    /\ EndEarly(p, pc[p], pc[p] = "updating")
    /\ UNCHANGED storage

Proceed(p) ==
    \/ FindUser(p)
    \/ DeleteOld(p)
    \/ DeleteFails(p)
    \/ Upload(p)
    \/ \E put \in BOOLEAN : UploadFails(p, put)
    \/ UpdateUrl(p)
    \/ Fail(p)

Next ==
    \E p \in Procs :
        \/ \E u \in Users, ext \in Exts : Begin(p, u, ext)
        \/ Proceed(p)

Spec == Init /\ [][Next]_vars

-----------------------------------------------------------------------------
(* Properties.                                                             *)

\* The type invariant.  Only an image that was found is deleted.
TypeOK ==
    /\ publicUrl \in {"none", "host", "path"}
    /\ url \in [Users -> Exts \cup {None}]
    /\ objects \subseteq Key
    /\ pc \in [Procs -> PC]
    /\ req \in [Procs -> Request]
    /\ \A p \in Procs : pc[p] = "deleting" => req[p].old # None
    /\ met \subseteq Procs /\ broken \subseteq Users /\ littered \subseteq Users

Quiet(u) == Of(u) = {}

\* When no upload of a user is under way, its URL leads to an image, unless an upload
\* ended between the deletion and the new URL, or two uploads of different extensions
\* met (user-upload.service.ts:34, 55); two of one extension may interleave at will,
\* and the next upload that goes through repairs the URL.
ImageResolves ==
    \A u \in Users \ broken :
        Quiet(u) /\ url[u] # None => <<u, url[u]>> \in objects

\* Then, too, the image is the only one of the user, if URLs have no path of their
\* own: every replaced image is deleted under the key that its URL gives
\* (user-upload.service.ts:33).
NoLitter ==
    \A u \in Users \ (littered \cup broken) :
        Quiet(u) /\ publicUrl = "host" => \A e \in Exts : <<u, e>> \in objects => url[u] = e
=============================================================================
