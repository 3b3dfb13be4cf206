------------------------------ MODULE ScanGateway ------------------------------
(***************************************************************************)
(* ScanGateway and ScanSessionStoreService: a desktop opens a scan         *)
(* session, a mobile sends the codes it reads, and the desktop gets them   *)
(* all, those read before it joined included.                              *)
(*                                                                         *)
(* submittedAt and the session a desktop's meta names are written and      *)
(* never read: they are left out.  The order of codes is left out.         *)
(***************************************************************************)
EXTENDS SocketServer

CONSTANTS
    Codes,
    Ttl,       \* SESSION_TTL_MS, in ticks
    MaxNow     \* BOUND: the clock stops here

VARIABLES
    now,
    sessions,  \* the session objects, from their creation
    stored,    \* the ids the store's map holds
    meta,      \* socketMeta
    joining,   \* handleJoin calls that wait for the room: pairs of a socket and a session
    got        \* HISTORY: the codes emitted to an open socket, with their session

scan == <<now, sessions, stored, meta, joining, got>>

Known == DOMAIN sessions

Times == 0..MaxNow

Expired(s) == sessions[s].expiresAt < now

Meta == [role : {"desktop"}, user : Users] \cup [role : {"mobile"}, session : Sessions]

Init ==
    /\ now = 0
    /\ sessions = [s \in {} |-> None]
    /\ stored = {}
    /\ meta = [c \in Sockets |-> None]
    /\ joining = {}
    /\ got = [c \in Sockets |-> {}]

\* A socket with a role, whose message has come.
From(c, role) == IsOpen(c) /\ meta[c] # None /\ meta[c].role = role

\* The codes of s are emitted to the sockets of C.
Emit(C, s, codes) ==
    got' = [c \in Sockets |-> IF c \in C THEN got[c] \cup ({s} \X codes) ELSE got[c]]

-----------------------------------------------------------------------------
\* ScanSessionStoreService.create; no other code of the repository calls it.
Create(s, u) ==
    /\ s \notin Known
    /\ sessions' = [q \in Known \cup {s} |->
                      IF q = s THEN [user |-> u, codes |-> {}, expiresAt |-> now + Ttl]
                               ELSE sessions[q]]
    /\ stored' = stored \cup {s}
    /\ UNCHANGED <<server, now, meta, joining, got>>

\* MUTANT of CleanExpired: the objects are emptied as well.
CleanExpiredObjects ==
    /\ \E s \in stored : Expired(s)
    /\ stored' = {s \in stored : ~Expired(s)}
    /\ sessions' = [s \in {q \in Known : ~Expired(q)} |-> sessions[s]]
    /\ UNCHANGED <<server, now, meta, joining, got>>

\* The map forgets the session; a call that waits keeps the object.
CleanExpired ==
    /\ \E s \in stored : Expired(s)
    /\ stored' = {s \in stored : ~Expired(s)}
    /\ UNCHANGED <<server, now, sessions, meta, joining, got>>

\* findByToken; a wrong token is as good as none.
Valid(s) == s \in stored /\ ~Expired(s)

\* handleConnection of a mobile: the session's id and token are its handshake.
ConnectMobile(c, s) ==
    /\ Accept(c, [ns |-> "scan", token |-> None, session |-> s],
              IF Valid(s) THEN "open" ELSE "closed")
    /\ IF Valid(s)
         THEN /\ meta' = [meta EXCEPT ![c] = [role |-> "mobile", session |-> s]]
              /\ rooms' = rooms \cup {<<<<"scan", s>>, c>>}
         ELSE UNCHANGED <<meta, rooms>>
    /\ UNCHANGED <<checking, now, sessions, stored, joining, got>>

\* handleConnection of a desktop, up to the check of its token.
ConnectDesktop(c, u) ==
    /\ Accept(c, [ns |-> "scan", token |-> u, session |-> None],
              IF u = None THEN "closed" ELSE "open")
    /\ checking' = IF u = None THEN checking ELSE checking \cup {c}
    /\ UNCHANGED <<rooms, scan>>

CheckPasses(c) ==
    /\ Answered(c, "scan")
    /\ meta' = [meta EXCEPT ![c] = [role |-> "desktop", user |-> auth[c].token]]
    /\ UNCHANGED <<link, auth, rooms, raced, now, sessions, stored, joining, got>>

CheckFails(c) ==
    /\ Answered(c, "scan")
    /\ Close(c)
    /\ UNCHANGED <<auth, raced, scan>>

HandleDisconnect(c) ==
    /\ ClosedByClient(c, "scan")
    /\ meta' = [meta EXCEPT ![c] = None]
    /\ got' = [got EXCEPT ![c] = {}]
    /\ UNCHANGED <<now, sessions, stored, joining>>

-----------------------------------------------------------------------------
\* MUTANT of MayJoin: any user.
MayJoinAny(c, s) == s \in stored /\ ~Expired(s)

MayJoin(c, s) == s \in stored /\ sessions[s].user = meta[c].user /\ ~Expired(s)

\* MUTANT of HandleJoin: the codes read before are not emitted.
HandleJoinOnly(c, s) ==
    /\ From(c, "desktop")
    /\ MayJoin(c, s)
    /\ Join(c, {<<"scan", s>>})
    /\ UNCHANGED <<link, auth, checking, raced, scan>>

\* handleJoin up to "await client.join"; an error has no effect.
HandleJoin(c, s) ==
    /\ From(c, "desktop")
    /\ MayJoin(c, s)
    /\ Join(c, {<<"scan", s>>})
    /\ joining' = joining \cup {<<c, s>>}
    /\ UNCHANGED <<link, auth, checking, raced, now, sessions, stored, meta, got>>

\* MUTANT of Replay: a session cleaned up in the meantime is waited for.
ReplayStored(c, s) ==
    /\ <<c, s>> \in joining
    /\ s \in stored
    /\ joining' = joining \ {<<c, s>>}
    /\ Emit({c} \cap {d \in Sockets : IsOpen(d)}, s, sessions[s].codes)
    /\ UNCHANGED <<server, now, sessions, stored, meta>>

\* The rest of handleJoin, on the session object it found: its codes are emitted.
Replay(c, s) ==
    /\ <<c, s>> \in joining
    /\ joining' = joining \ {<<c, s>>}
    /\ Emit({c} \cap {d \in Sockets : IsOpen(d)}, s, sessions[s].codes)
    /\ UNCHANGED <<server, now, sessions, stored, meta>>

\* addCode keeps a code once; it is emitted every time.
HandleCode(c, code) ==
    LET s == meta[c].session IN
    /\ From(c, "mobile")
    /\ Valid(s)
    /\ sessions' = [sessions EXCEPT ![s].codes = @ \cup {code}]
    /\ Emit(Members(<<"scan", s>>), s, {code})
    /\ UNCHANGED <<server, now, stored, meta, joining>>

\* markSubmitted finds the session, expired or not, until it is cleaned.
HandleSubmit(c) ==
    LET s == meta[c].session IN
    /\ From(c, "mobile")
    /\ s \in stored
    /\ Emit(Members(<<"scan", s>>), s, sessions[s].codes)
    /\ UNCHANGED <<server, now, sessions, stored, meta, joining>>

Tick ==
    /\ now < MaxNow
    /\ now' = now + 1
    /\ UNCHANGED <<server, sessions, stored, meta, joining, got>>

Resume(c) == CheckPasses(c) \/ CheckFails(c) \/ \E s \in Sessions : Replay(c, s)

Next ==
    \/ \E c \in Sockets :
           \/ \E s \in Sessions : ConnectMobile(c, s) \/ HandleJoin(c, s)
           \/ \E u \in Users \cup {None} : ConnectDesktop(c, u)
           \/ Resume(c)
           \/ HandleDisconnect(c)
           \/ \E code \in Codes : HandleCode(c, code)
           \/ HandleSubmit(c)
    \/ \E s \in Sessions, u \in Users : Create(s, u)
    \/ CleanExpired
    \/ Tick

\* The store and the map of the process are new, and no call is resumed.
Restart ==
    /\ sessions' = [s \in {} |-> None]
    /\ stored' = {}
    /\ meta' = [c \in Sockets |-> None]
    /\ joining' = {}
    /\ got' = [c \in Sockets |-> {}]
    /\ UNCHANGED now

GatewayTypeOK ==
    /\ now \in Times
    /\ Known \subseteq Sessions /\ stored \subseteq Known
    /\ \A s \in Known : sessions[s] \in [user : Users, codes : SUBSET Codes,
                                         expiresAt : 0..(MaxNow + Ttl)]
    /\ meta \in [Sockets -> Meta \cup {None}]
    /\ joining \subseteq Sockets \X Known
    /\ got \in [Sockets -> SUBSET (Sessions \X Codes)]
=============================================================================
