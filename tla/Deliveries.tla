------------------------------ MODULE Deliveries ------------------------------
(***************************************************************************)
(* What the event pipeline promises of an effect, an e-mail or a log row:  *)
(* once its job is posted the effect is had at most so many times, the job *)
(* is done only when it was had, and a job that is done or dropped stays   *)
(* so and has no effect any more.                                          *)
(***************************************************************************)
EXTENDS Naturals

CONSTANTS Jobs, Limit     \* how often the effect of a job may be had

VARIABLES
    posted,    \* the jobs
    had,       \* job -> how often its effect was had
    done,
    dropped

vars == <<posted, had, done, dropped>>

Init ==
    /\ posted = {}
    /\ had = [j \in Jobs |-> 0]
    /\ done = {}
    /\ dropped = {}

Open == posted \ (done \cup dropped)

Post(j) ==
    /\ j \notin posted
    /\ posted' = posted \cup {j}
    /\ UNCHANGED <<had, done, dropped>>

Effect(j) ==
    /\ j \in Open
    /\ had[j] < Limit[j]
    /\ had' = [had EXCEPT ![j] = @ + 1]
    /\ UNCHANGED <<posted, done, dropped>>

Finish(j) ==
    /\ j \in Open
    /\ had[j] > 0
    /\ done' = done \cup {j}
    /\ UNCHANGED <<posted, had, dropped>>

\* Some jobs are given up, several at once when the process dies.
Drop(given) ==
    /\ given \subseteq Open
    /\ dropped' = dropped \cup given
    /\ UNCHANGED <<posted, had, done>>

Next ==
    \/ \E j \in Jobs : Post(j) \/ Effect(j) \/ Finish(j)
    \/ \E given \in SUBSET Jobs : Drop(given)

Spec == Init /\ [][Next]_vars
=============================================================================
