---------------------------- MODULE SessionLineage ----------------------------
(***************************************************************************)
(* What the session store promises, whatever the requests do: a session is *)
(* opened once, lives until it is ended, and never lives again; a rotation *)
(* opens a session that succeeds one already ended.                        *)
(***************************************************************************)
EXTENDS FiniteSets

CONSTANT Token

VARIABLES
    live,   \* the sessions that can be refreshed
    dead,   \* the sessions that were ended
    heir    \* <<s, t>>: the rotation of s opened t

vars == <<live, dead, heir>>

Init == live = {} /\ dead = {} /\ heir = {}

Open(t) ==
    /\ t \notin live \cup dead
    /\ live' = live \cup {t}
    /\ UNCHANGED <<dead, heir>>

Succeed(s, t) ==
    /\ s \in dead
    /\ t \notin live \cup dead
    /\ live' = live \cup {t}
    /\ heir' = heir \cup {<<s, t>>}
    /\ UNCHANGED dead

End(S) ==
    /\ live' = live \ S
    /\ dead' = dead \cup S
    /\ UNCHANGED heir

Next ==
    \/ \E t \in Token : Open(t)
    \/ \E s, t \in Token : Succeed(s, t)
    \/ \E S \in SUBSET live : End(S)

Spec == Init /\ [][Next]_vars
=============================================================================
