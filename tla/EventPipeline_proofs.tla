-------------------------- MODULE EventPipeline_proofs --------------------------
(***************************************************************************)
(* Theorems about EventPipeline, for any number of events, attempts,       *)
(* stalls and crashes.                                                     *)
(***************************************************************************)
EXTENDS EventPipeline, TLAPS

-----------------------------------------------------------------------------
(* The inductive invariant.                                                *)

\* The effect of a run that neither an attempt nor a stall counts yet, or ever.
Uncounted(row) == IF row.status \in {"succeeded", "threw", "completed"} THEN 1 ELSE 0

\* A job with a attempts whose effect was had n times: every run is counted once, by
\* an attempt, by a stall, or by its status.
JobOK(row, a, n) ==
    /\ row \in Record
    /\ n <= row.tries + row.stalls + Uncounted(row)
    /\ row.status # "failed" => row.tries < a /\ row.stalls <= MaxStalls
    /\ row.status = "failed" => \/ row.tries = a /\ row.stalls <= MaxStalls
                                \/ row.tries < a /\ row.stalls = MaxStalls + 1
    /\ row.status \in {"succeeded", "completed"} => n > 0

JobsOK ==
    /\ Queued \subseteq Job
    /\ effects \in [Job -> Nat]
    /\ \A j \in Queued : JobOK(jobs[j], Attempts[j[2]], effects[j])
    /\ \A j \in Job \ Queued : effects[j] = 0

\* What a listener at `at` has queued of the event e, when the jobs in Q are queued.
QueuedOK(at, e, Q) ==
    /\ at \in {"none", "mail"} => <<e, "mail">> \notin Q
    /\ at \in {"none", "mail", "log"} => <<e, "log">> \notin Q
    /\ at = "mail" => e \in Mailed
    /\ at = "log" => e \in Logged
    /\ at \in {"log", "done"} /\ e \in Mailed => <<e, "mail">> \in Q
    /\ at = "done" /\ e \in Logged => <<e, "log">> \in Q
    /\ e \in Mailed /\ <<e, "log">> \in Q => <<e, "mail">> \in Q

ListenersOK ==
    /\ listener \in [Events -> Stage]
    /\ \A e \in Events : QueuedOK(listener[e], e, Queued)

Inv == JobsOK /\ ListenersOK /\ crashes \in 0..MaxCrashes

LEMMA Constants ==
    /\ MaxStalls \in Nat /\ MaxCrashes \in Nat
    /\ \A j \in Job : Attempts[j[2]] \in Nat \ {0}
BY PipelineAssumption DEF Job

-----------------------------------------------------------------------------
(* Listeners.                                                              *)

LEMMA DispatchKeeps ==
    ASSUME Inv, NEW e \in Events, Dispatch(e) PROVE Inv'
<1>1. /\ listener' = [listener EXCEPT ![e] = FirstJob(e)] /\ listener[e] = "none"
      /\ UNCHANGED <<jobs, effects, crashes>>
  BY DEF Dispatch
<1>2. JobsOK' /\ Queued' = Queued
  BY <1>1 DEF Inv, JobsOK, Queued
<1>3. FirstJob(e) \in Stage /\ QueuedOK(FirstJob(e), e, Queued)
  BY <1>1 DEF Inv, ListenersOK, FirstJob, Stage, QueuedOK
<1>4. ListenersOK'
  BY <1>1, <1>2, <1>3 DEF Inv, ListenersOK
<1> QED BY <1>1, <1>2, <1>4 DEF Inv

\* A job that is queued is queued once.
LEMMA EnqueueKeeps ==
    ASSUME JobsOK, NEW j \in Job, j \notin Queued, Enqueue(j), effects' = effects
    PROVE  JobsOK' /\ Queued' = Queued \cup {j}
<1> DEFINE row == [status |-> "waiting", tries |-> 0, stalls |-> 0]
<1>1. jobs' = [i \in Queued \cup {j} |-> IF i = j THEN row ELSE jobs[i]]
  BY DEF Enqueue
<1>2. effects[j] = 0 /\ JobOK(row, Attempts[j[2]], 0)
  BY Constants DEF JobsOK, JobOK, Record, Status, Uncounted
<1> HIDE DEF row
<1>3. Queued' = Queued \cup {j} /\ jobs'[j] = row /\ \A i \in Queued : jobs'[i] = jobs[i]
  BY <1>1 DEF Queued
<1>4. \A i \in Queued' : JobOK(jobs'[i], Attempts[i[2]], effects'[i])
  BY <1>2, <1>3 DEF JobsOK
<1> QED BY <1>3, <1>4 DEF JobsOK

LEMMA AddJobKeeps ==
    ASSUME Inv, NEW e \in Events, NEW k \in Kind, AddJob(e, k) PROVE Inv'
<1> DEFINE j == <<e, k>>
<1>1. j \in Job /\ j \notin Queued /\ listener[e] = k /\ UNCHANGED <<effects, crashes>>
  BY DEF AddJob, Inv, ListenersOK, QueuedOK, Job, Kind
<1>2. ASSUME NEW to \in {NextJob(e, k), "lost"}, listener' = [listener EXCEPT ![e] = to],
             Enqueue(j) \/ (UNCHANGED jobs /\ to = "lost")
      PROVE  Inv'
  <2>1. JobsOK' /\ Queued' \in {Queued \cup {j}, Queued} /\ (to # "lost" => Queued' = Queued \cup {j})
    <3>1. CASE Enqueue(j)
      BY <1>1, <3>1, EnqueueKeeps DEF Inv
    <3>2. CASE UNCHANGED jobs /\ to = "lost"
      BY <1>1, <3>2 DEF Inv, JobsOK, Queued
    <3> QED BY <1>2, <3>1, <3>2
  <2>2. to \in Stage
    BY DEF NextJob, Stage
  <2>3. QueuedOK(to, e, Queued')
    BY <1>1, <2>1 DEF Inv, ListenersOK, QueuedOK, NextJob, Kind
  <2>4. ASSUME NEW f \in Events \ {e} PROVE QueuedOK(listener[f], f, Queued')
    <3>1. \A kind : <<f, kind>> \in Queued' <=> <<f, kind>> \in Queued
      BY <2>1
    <3>2. QueuedOK(listener[f], f, Queued)
      BY DEF Inv, ListenersOK
    <3> QED BY <3>1, <3>2 DEF QueuedOK
  <2>5. ListenersOK'
    BY <1>2, <2>2, <2>3, <2>4 DEF Inv, ListenersOK
  <2> QED BY <1>1, <2>1, <2>5 DEF Inv
<1> QED BY <1>2 DEF AddJob

-----------------------------------------------------------------------------
(* Processors.                                                             *)

\* A step that writes one job, and counts its effect.
LEMMA JobStep ==
    ASSUME Inv, NEW j \in Queued, NEW row, jobs' = [jobs EXCEPT ![j] = row],
           NEW n \in Nat, effects' = [effects EXCEPT ![j] = n], JobOK(row, Attempts[j[2]], n),
           UNCHANGED <<listener, crashes>>
    PROVE  Inv'
<1>1. Queued' = Queued /\ jobs'[j] = row /\ \A i \in Queued \ {j} : jobs'[i] = jobs[i]
  BY DEF Queued
<1>2. /\ effects' \in [Job -> Nat] /\ effects'[j] = n
      /\ \A i \in Job \ {j} : effects'[i] = effects[i]
  BY DEF Inv, JobsOK
<1>3. \A i \in Queued : JobOK(jobs'[i], Attempts[i[2]], effects'[i])
  BY <1>1, <1>2 DEF Inv, JobsOK
<1>4. JobsOK'
  BY <1>1, <1>2, <1>3 DEF Inv, JobsOK
<1>5. ListenersOK'
  BY <1>1 DEF Inv, ListenersOK
<1> QED BY <1>4, <1>5 DEF Inv

\* A row with another status.
LEMMA StatusRow ==
    ASSUME NEW old \in Record, NEW s \in Status
    PROVE  LET row == [old EXCEPT !.status = s]
           IN  row \in Record /\ row.status = s /\ row.tries = old.tries /\ row.stalls = old.stalls
BY DEF Record

LEMMA KnownJob ==
    ASSUME Inv, NEW j \in Queued
    PROVE  /\ j \in Job /\ jobs[j] \in Record /\ jobs[j].tries \in Nat /\ jobs[j].stalls \in Nat
           /\ effects[j] \in Nat /\ effects = [effects EXCEPT ![j] = effects[j]]
           /\ JobOK(jobs[j], Attempts[j[2]], effects[j]) /\ Attempts[j[2]] \in Nat
BY Constants DEF Inv, JobsOK, JobOK, Record

LEMMA HandleKeeps ==
    ASSUME Inv, NEW j \in Queued, Handle(j) PROVE Inv'
<1>1. PICK success \in BOOLEAN : Send(j, success) /\ Become(j, IF success THEN "succeeded" ELSE "threw")
  BY DEF Handle
<1> DEFINE s == IF success THEN "succeeded" ELSE "threw"
           row == [jobs[j] EXCEPT !.status = s]
<1>2. jobs' = [jobs EXCEPT ![j] = row] /\ jobs[j].status = "active" /\ UNCHANGED <<listener, crashes>>
  BY <1>1 DEF Handle, Become
<1>3. PICK n \in {effects[j], effects[j] + 1} :
         effects' = [effects EXCEPT ![j] = n] /\ (success => n = effects[j] + 1)
  BY <1>1, KnownJob DEF Send
<1>4. n \in Nat
  BY <1>3, KnownJob
<1>5. /\ row \in Record /\ row.status = s
      /\ row.tries = jobs[j].tries /\ row.stalls = jobs[j].stalls
  <2>1. s \in Status
    BY DEF Status
  <2> QED BY <2>1, KnownJob DEF Record
<1> HIDE DEF row
<1>6. JobOK(row, Attempts[j[2]], n)
  <2>1. effects[j] <= jobs[j].tries + jobs[j].stalls
    BY <1>2, KnownJob DEF JobOK, Uncounted
  <2>2. Uncounted(row) = 1
    BY <1>5 DEF Uncounted
  <2>3. n <= row.tries + row.stalls + Uncounted(row)
    BY <1>3, <1>5, <2>1, <2>2, KnownJob
  <2>4. row.status = "succeeded" => n > 0
    BY <1>3, <1>5, KnownJob
  <2> QED BY <1>2, <1>5, <2>3, <2>4, KnownJob DEF JobOK
<1> QED BY <1>2, <1>3, <1>4, <1>6, JobStep

LEMMA BecomeKeeps ==
    ASSUME Inv, NEW j \in Queued, Take(j) \/ Complete(j) \/ Promote(j) PROVE Inv'
<1>1. PICK s \in Status : /\ Become(j, s) /\ UNCHANGED <<listener, effects, crashes>>
                          /\ \/ jobs[j].status = "waiting" /\ s = "active"
                             \/ jobs[j].status = "succeeded" /\ s = "completed"
                             \/ jobs[j].status = "delayed" /\ s = "waiting"
  BY DEF Take, Complete, Promote, Status
<1> DEFINE row == [jobs[j] EXCEPT !.status = s]
<1>2. jobs' = [jobs EXCEPT ![j] = row]
  BY <1>1 DEF Become
<1>3. row \in Record /\ row.status = s
      /\ row.tries = jobs[j].tries /\ row.stalls = jobs[j].stalls
  BY KnownJob, StatusRow
<1> HIDE DEF row
<1>4. JobOK(row, Attempts[j[2]], effects[j])
  BY <1>1, <1>3, KnownJob DEF JobOK, Uncounted
<1> QED BY <1>1, <1>2, <1>4, KnownJob, JobStep

LEMMA RetryKeeps ==
    ASSUME Inv, NEW j \in Queued, Retry(j) PROVE Inv'
<1> DEFINE n == jobs[j].tries + 1
           s == IF n < Attempts[j[2]] THEN "delayed" ELSE "failed"
           row == [jobs[j] EXCEPT !.tries = n, !.status = s]
<1>1. jobs' = [jobs EXCEPT ![j] = row] /\ jobs[j].status = "threw"
      /\ UNCHANGED <<listener, effects, crashes>>
  BY DEF Retry
<1>2. n \in Nat /\ s \in Status
  BY KnownJob DEF Status
<1>3. row \in Record /\ row.status = s /\ row.tries = n /\ row.stalls = jobs[j].stalls
  BY <1>2, KnownJob DEF Record
<1> HIDE DEF row
<1>4. /\ effects[j] <= jobs[j].tries + jobs[j].stalls + 1
      /\ jobs[j].tries < Attempts[j[2]] /\ jobs[j].stalls <= MaxStalls
  BY <1>1, KnownJob DEF JobOK, Uncounted
<1>5. Uncounted(row) = 0
  BY <1>3 DEF Uncounted
<1>6. JobOK(row, Attempts[j[2]], effects[j])
  <2>1. effects[j] <= row.tries + row.stalls + Uncounted(row)
    BY <1>3, <1>4, <1>5, KnownJob
  <2>2. CASE n < Attempts[j[2]]
    BY <1>3, <1>4, <2>1, <2>2 DEF JobOK
  <2>3. CASE ~(n < Attempts[j[2]])
    <3>1. n = Attempts[j[2]]
      BY <1>2, <1>4, <2>3, KnownJob
    <3>2. row.status = "failed"
      BY <1>3, <2>3
    <3> QED BY <1>3, <1>4, <2>1, <3>1, <3>2 DEF JobOK
  <2> QED BY <2>2, <2>3
<1> QED BY <1>1, <1>6, KnownJob, JobStep

-----------------------------------------------------------------------------
(* Crashes, and every step.                                                *)

LEMMA CrashKeeps ==
    ASSUME Inv, Crash PROVE Inv'
<1> DEFINE Stalled(j) == [jobs[j] EXCEPT !.stalls = jobs[j].stalls + 1,
                                         !.status = IF jobs[j].stalls < MaxStalls THEN "waiting"
                                                                                  ELSE "failed"]
<1>1. /\ jobs' = [j \in Queued |-> IF jobs[j].status \in Running THEN Stalled(j) ELSE jobs[j]]
      /\ effects' = effects
  BY DEF Crash
<1>2. ASSUME NEW j \in Queued, jobs[j].status \in Running
      PROVE  JobOK(Stalled(j), Attempts[j[2]], effects[j])
  <2> DEFINE row == Stalled(j)
             n == jobs[j].stalls + 1
             s == IF jobs[j].stalls < MaxStalls THEN "waiting" ELSE "failed"
  <2>1. n \in Nat /\ s \in Status
    BY KnownJob DEF Status
  <2>2. row \in Record /\ row.status = s /\ row.stalls = n /\ row.tries = jobs[j].tries
    BY <2>1, KnownJob DEF Record
  <2> HIDE DEF row
  <2>3. /\ effects[j] <= jobs[j].tries + jobs[j].stalls + 1
        /\ jobs[j].tries < Attempts[j[2]] /\ jobs[j].stalls <= MaxStalls
    BY <1>2, KnownJob DEF JobOK, Uncounted, Running
  <2>4. Uncounted(row) = 0
    BY <2>2 DEF Uncounted
  <2>5. JobOK(row, Attempts[j[2]], effects[j])
    BY <2>2, <2>3, <2>4, KnownJob, Constants DEF JobOK
  <2> QED BY <2>5 DEF row
<1> HIDE DEF Stalled
<1>3. Queued' = Queued
  BY <1>1 DEF Queued
<1>4. \A j \in Queued : JobOK(jobs'[j], Attempts[j[2]], effects'[j])
  BY <1>1, <1>2, KnownJob
<1>5. JobsOK'
  BY <1>1, <1>3, <1>4 DEF Inv, JobsOK
<1>6. ListenersOK'
  <2>1. listener' = [e \in Events |-> IF listener[e] \in Kind THEN "lost" ELSE listener[e]]
    BY DEF Crash
  <2>2. \A e \in Events : QueuedOK("lost", e, Queued)
    BY DEF Inv, ListenersOK, QueuedOK
  <2>3. listener' \in [Events -> Stage] /\ \A e \in Events : QueuedOK(listener'[e], e, Queued)
    BY <2>1, <2>2 DEF Inv, ListenersOK, Stage
  <2> QED BY <1>3, <2>3 DEF ListenersOK
<1>7. crashes' \in 0..MaxCrashes
  <2>1. crashes \in 0..MaxCrashes /\ crashes < MaxCrashes /\ crashes' = crashes + 1
    BY DEF Crash, Inv
  <2> QED BY <2>1, Constants
<1> QED BY <1>5, <1>6, <1>7 DEF Inv

LEMMA InitInv == Init => Inv
<1> SUFFICES ASSUME Init PROVE Inv
  OBVIOUS
<1>1. Queued = {}
  BY DEF Init, Queued
<1>2. JobsOK
  BY <1>1 DEF Init, JobsOK
<1>3. ListenersOK
  BY <1>1 DEF Init, ListenersOK, QueuedOK, Stage
<1> QED BY <1>2, <1>3, Constants DEF Init, Inv

LEMMA NextInv == Inv /\ [Next]_vars => Inv'
<1> SUFFICES ASSUME Inv, [Next]_vars PROVE Inv'
  OBVIOUS
<1>1. CASE UNCHANGED vars
  BY <1>1 DEF vars, Inv, JobsOK, ListenersOK, Queued
<1>2. ASSUME NEW j \in Job, Work(j) PROVE Inv'
  <2>1. j \in Queued
    BY <1>2 DEF Work, Take, Handle, Complete, Retry, Promote
  <2> QED BY <1>2, <2>1, BecomeKeeps, HandleKeeps, RetryKeeps DEF Work
<1> QED BY <1>1, <1>2, DispatchKeeps, AddJobKeeps, CrashKeeps DEF Next

LEMMA Invariance == Spec => []Inv
BY InitInv, NextInv, PTL DEF Spec

\* Type correctness, and the limits of a job's counters.
THEOREM TypeCorrect == Spec => []TypeOK
<1>1. ASSUME Inv PROVE TypeOK
  <2>1. \A j \in Queued : /\ jobs[j] \in Record
                          /\ jobs[j].tries <= Attempts[j[2]] /\ jobs[j].stalls <= MaxStalls + 1
    <3> TAKE j \in Queued
    <3> QED BY <1>1, KnownJob, Constants DEF JobOK
  <2> QED BY <1>1, <2>1 DEF Inv, JobsOK, ListenersOK, TypeOK
<1> QED BY <1>1, Invariance, PTL

\* However listeners, retries and crashes interleave, an event makes at most so many
\* e-mails and log rows as its jobs have attempts and may stall.
THEOREM DuplicatesTheorem == Spec => []DuplicatesBounded
<1>1. ASSUME Inv, NEW j \in Job PROVE effects[j] <= Attempts[j[2]] + MaxStalls
  <2>1. CASE j \in Queued
    <3>1. /\ effects[j] <= jobs[j].tries + jobs[j].stalls + Uncounted(jobs[j])
          /\ jobs[j].status # "failed" => jobs[j].tries < Attempts[j[2]] /\ jobs[j].stalls <= MaxStalls
          /\ jobs[j].status = "failed" =>
                \/ jobs[j].tries = Attempts[j[2]] /\ jobs[j].stalls <= MaxStalls
                \/ jobs[j].tries < Attempts[j[2]] /\ jobs[j].stalls = MaxStalls + 1
      BY <1>1, <2>1, KnownJob DEF JobOK
    <3>2. Uncounted(jobs[j]) \in {0, 1} /\ (jobs[j].status = "failed" => Uncounted(jobs[j]) = 0)
      BY DEF Uncounted
    <3> QED BY <1>1, <2>1, <3>1, <3>2, KnownJob, Constants
  <2>2. CASE j \notin Queued
    BY <1>1, <2>2, Constants DEF Inv, JobsOK
  <2> QED BY <2>1, <2>2
<1>2. Inv => DuplicatesBounded
  BY <1>1 DEF DuplicatesBounded
<1> QED BY <1>2, Invariance, PTL

\* A job is dropped only when it had its effect or its attempts or stalls are used up.
THEOREM SettledTheorem == Spec => []SettledRightly
<1>1. ASSUME Inv, NEW j \in Queued
      PROVE  /\ jobs[j].status = "completed" => effects[j] > 0
             /\ jobs[j].status = "failed" => \/ jobs[j].tries = Attempts[j[2]]
                                             \/ jobs[j].stalls > MaxStalls
  BY <1>1, KnownJob, Constants DEF JobOK
<1>2. Inv => SettledRightly
  BY <1>1 DEF SettledRightly
<1> QED BY <1>2, Invariance, PTL

\* No event is logged before its e-mail is queued, whatever Redis loses.
THEOREM OrderTheorem == Spec => []QueuedInOrder
<1>1. ASSUME Inv, NEW e \in Events
      PROVE  /\ e \in Mailed /\ <<e, "log">> \in Queued => <<e, "mail">> \in Queued
             /\ listener[e] = "done" => \A k \in Kind :
                   e \in (IF k = "mail" THEN Mailed ELSE Logged) => <<e, k>> \in Queued
  BY <1>1 DEF Inv, ListenersOK, QueuedOK, Kind
<1>2. Inv => QueuedInOrder
  BY <1>1 DEF QueuedInOrder
<1> QED BY <1>2, Invariance, PTL

-----------------------------------------------------------------------------
(* Why jobs settle.  JobsSettle needs fairness, which stays with TLC; that no  *)
(* job is lost on the way, revived or retried for ever does not.              *)

\* Every edge of a job's life: its processor's or Bull's steps, a counted attempt,
\* a counted stall.
Moves(old, new) ==
    \/ new = old
    \/ /\ new.tries = old.tries /\ new.stalls = old.stalls
       /\ <<old.status, new.status>> \in {<<"waiting", "active">>, <<"active", "succeeded">>,
                                          <<"active", "threw">>, <<"succeeded", "completed">>,
                                          <<"delayed", "waiting">>}
    \/ /\ new.tries = old.tries + 1 /\ new.stalls = old.stalls
       /\ old.status = "threw" /\ new.status \in {"delayed", "failed"}
    \/ /\ new.tries = old.tries /\ new.stalls = old.stalls + 1
       /\ old.status \in Running /\ new.status \in {"waiting", "failed"}

\* Jobs are never dropped from their queue, and each moves along an edge; a stall
\* is one crash.
JobsMove ==
    \A j \in Queued :
        /\ j \in Queued'
        /\ Moves(jobs[j], jobs'[j])
        /\ jobs'[j].stalls # jobs[j].stalls => crashes' = crashes + 1

LEMMA OneJobMoves ==
    ASSUME NEW j \in Queued, NEW row, jobs' = [jobs EXCEPT ![j] = row], Moves(jobs[j], row),
           row.stalls = jobs[j].stalls
    PROVE  JobsMove
BY DEF JobsMove, Moves, Queued

LEMMA WorkMoves == ASSUME Inv, NEW j \in Queued, Work(j) PROVE JobsMove
<1>1. ASSUME NEW s \in Status, Become(j, s),
             <<jobs[j].status, s>> \in {<<"waiting", "active">>, <<"active", "succeeded">>,
                                        <<"active", "threw">>, <<"succeeded", "completed">>,
                                        <<"delayed", "waiting">>}
      PROVE  JobsMove
  <2> DEFINE row == [jobs[j] EXCEPT !.status = s]
  <2>1. row.status = s /\ row.tries = jobs[j].tries /\ row.stalls = jobs[j].stalls
    BY KnownJob, StatusRow
  <2>2. jobs' = [jobs EXCEPT ![j] = row]
    BY <1>1 DEF Become
  <2> HIDE DEF row
  <2>3. Moves(jobs[j], row)
    BY <1>1, <2>1 DEF Moves
  <2> QED BY <2>1, <2>2, <2>3, OneJobMoves
<1>2. CASE Retry(j)
  <2> DEFINE n == jobs[j].tries + 1
             s == IF n < Attempts[j[2]] THEN "delayed" ELSE "failed"
             row == [jobs[j] EXCEPT !.tries = n, !.status = s]
  <2>1. row.status = s /\ row.tries = n /\ row.stalls = jobs[j].stalls
    BY KnownJob DEF Record
  <2>2. jobs' = [jobs EXCEPT ![j] = row] /\ jobs[j].status = "threw"
    BY <1>2 DEF Retry
  <2> HIDE DEF row
  <2>3. Moves(jobs[j], row)
    BY <2>1, <2>2 DEF Moves
  <2> QED BY <2>1, <2>2, <2>3, OneJobMoves
<1> QED BY <1>1, <1>2 DEF Work, Take, Handle, Complete, Promote, Status

LEMMA CrashMoves == ASSUME Inv, Crash PROVE JobsMove
<1> SUFFICES ASSUME NEW j \in Queued
             PROVE  /\ j \in Queued'
                    /\ Moves(jobs[j], jobs'[j])
                    /\ jobs'[j].stalls # jobs[j].stalls => crashes' = crashes + 1
  BY DEF JobsMove
<1> DEFINE s == IF jobs[j].stalls < MaxStalls THEN "waiting" ELSE "failed"
           row == [jobs[j] EXCEPT !.stalls = jobs[j].stalls + 1, !.status = s]
<1>1. /\ j \in Queued' /\ crashes' = crashes + 1
      /\ jobs'[j] = IF jobs[j].status \in Running THEN row ELSE jobs[j]
  BY DEF Crash, Queued
<1>2. row.status = s /\ row.tries = jobs[j].tries /\ row.stalls = jobs[j].stalls + 1
  BY KnownJob DEF Record
<1> HIDE DEF row
<1>3. Moves(jobs[j], jobs'[j])
  BY <1>1, <1>2 DEF Moves
<1> QED BY <1>1, <1>3

LEMMA NextJobsMove == ASSUME Inv, [Next]_vars PROVE JobsMove
<1>1. ASSUME UNCHANGED jobs PROVE JobsMove
  BY <1>1 DEF JobsMove, Moves, Queued
<1>2. ASSUME NEW e \in Events, NEW k \in Kind, AddJob(e, k), Enqueue(<<e, k>>) PROVE JobsMove
  <2>1. <<e, k>> \notin Queued
    BY <1>2 DEF AddJob, Inv, ListenersOK, QueuedOK, Kind
  <2> QED BY <1>2, <2>1 DEF Enqueue, JobsMove, Moves, Queued
<1>3. ASSUME NEW j \in Job, Work(j) PROVE JobsMove
  <2>1. j \in Queued
    BY <1>3 DEF Work, Take, Handle, Complete, Retry, Promote
  <2> QED BY <1>3, <2>1, WorkMoves
<1> QED BY <1>1, <1>2, <1>3, CrashMoves DEF Next, Dispatch, AddJob, vars

\* How far a job is from being settled: the attempts and stalls it has left, each
\* worth a round through the queue, and its place in the round.
Phase(status) ==
    CASE status = "delayed" -> 5
      [] status = "waiting" -> 4
      [] status = "active" -> 3
      [] status \in {"succeeded", "threw"} -> 2
      [] status \in Settled -> 0

Left(j, row) ==
    IF row.status \in Settled THEN 0
    ELSE 6 * (Attempts[j[2]] - row.tries + MaxStalls + 1 - row.stalls) + Phase(row.status)

\* The work on a job is bounded and its outcome is final (queue.service.ts:29): it
\* stays in its queue, every step on it, a failure or a crash included, brings it
\* nearer to being settled, and once settled it is never touched again.
WorkBounded ==
    [][\A j \in Queued :
         /\ j \in Queued'
         /\ Left(j, jobs'[j]) \in Nat
         /\ jobs'[j] # jobs[j] => Left(j, jobs'[j]) < Left(j, jobs[j])
         /\ jobs[j].status \in Settled => jobs'[j] = jobs[j]]_vars

LEMMA LeftType ==
    ASSUME NEW j \in Job, NEW row \in Record, row.tries <= Attempts[j[2]], row.stalls <= MaxStalls + 1
    PROVE  Left(j, row) \in Nat
<1>1. /\ row.tries \in Nat /\ row.stalls \in Nat /\ Attempts[j[2]] \in Nat /\ MaxStalls \in Nat
      /\ Phase(row.status) \in Nat
  BY Constants DEF Record, Status, Phase, Settled
<1>2. Attempts[j[2]] - row.tries + MaxStalls + 1 - row.stalls \in Nat
  BY <1>1
<1> QED BY <1>1, <1>2 DEF Left

LEMMA MovesDecrease ==
    ASSUME NEW j \in Job, NEW old \in Record, NEW new \in Record, Moves(old, new), new # old
    PROVE  /\ old.status \notin Settled
           /\ old.tries < Attempts[j[2]] /\ old.stalls <= MaxStalls => Left(j, new) < Left(j, old)
<1>1. /\ old.tries \in Nat /\ old.stalls \in Nat /\ new.tries \in Nat /\ new.stalls \in Nat
      /\ Attempts[j[2]] \in Nat /\ MaxStalls \in Nat
  BY Constants DEF Record
<1>2. old.status \notin Settled
  BY DEF Moves, Settled, Running
<1>3. CASE new.tries = old.tries /\ new.stalls = old.stalls
  BY <1>1, <1>2, <1>3 DEF Moves, Left, Phase, Settled, Running
<1>4. CASE new.tries + new.stalls = old.tries + old.stalls + 1
  <2>1. Phase(new.status) <= 5 /\ Phase(old.status) >= 2 /\ Phase(new.status) \in Nat /\ Phase(old.status) \in Nat
    BY <1>2 DEF Phase, Record, Status, Settled
  <2>2. CASE new.status \in Settled
    BY <1>1, <1>2, <2>1, <2>2 DEF Left
  <2>3. CASE new.status \notin Settled
    BY <1>1, <1>2, <1>4, <2>1, <2>3 DEF Left
  <2> QED BY <2>2, <2>3
<1> QED BY <1>1, <1>2, <1>3, <1>4 DEF Moves

\* Whatever the provider answers and however often the process dies, no job is
\* worked on for ever, lost or revived.
THEOREM WorkTheorem == Spec => WorkBounded
<1>1. Inv /\ [Next]_vars
        => [\A j \in Queued :
              /\ j \in Queued'
              /\ Left(j, jobs'[j]) \in Nat
              /\ jobs'[j] # jobs[j] => Left(j, jobs'[j]) < Left(j, jobs[j])
              /\ jobs[j].status \in Settled => jobs'[j] = jobs[j]]_vars
  <2> SUFFICES ASSUME Inv, [Next]_vars, NEW j \in Queued
               PROVE  /\ j \in Queued'
                      /\ Left(j, jobs'[j]) \in Nat
                      /\ jobs'[j] # jobs[j] => Left(j, jobs'[j]) < Left(j, jobs[j])
                      /\ jobs[j].status \in Settled => jobs'[j] = jobs[j]
    OBVIOUS
  <2>1. j \in Queued' /\ Moves(jobs[j], jobs'[j])
    BY NextJobsMove DEF JobsMove
  <2>2. Inv'
    BY NextInv
  <2>3. /\ j \in Job /\ jobs[j] \in Record /\ jobs'[j] \in Record
        /\ JobOK(jobs[j], Attempts[j[2]], effects[j])
        /\ JobOK(jobs'[j], Attempts[j[2]], effects'[j])
    BY <2>1, <2>2 DEF Inv, JobsOK, JobOK
  <2>4. jobs'[j].tries <= Attempts[j[2]] /\ jobs'[j].stalls <= MaxStalls + 1
    BY <2>3, Constants DEF JobOK, Record
  <2>5. Left(j, jobs'[j]) \in Nat
    BY <2>3, <2>4, LeftType
  <2>6. jobs[j].status \notin Settled => jobs[j].tries < Attempts[j[2]] /\ jobs[j].stalls <= MaxStalls
    BY <2>3 DEF JobOK, Settled
  <2> QED BY <2>1, <2>3, <2>5, <2>6, MovesDecrease
<1> QED BY <1>1, Invariance, PTL DEF Spec, WorkBounded

\* What causes duplicates: beyond the attempts of its options, a job repeats its
\* effect only for crashes of the process, at most once for each.
DuplicatesExplained ==
    \A j \in Job : effects[j] <= Attempts[j[2]] + crashes

StallsExplained == \A j \in Queued : jobs[j].stalls <= crashes

LEMMA StallsInvariance == Spec => []StallsExplained
<1>1. Init => StallsExplained
  BY DEF Init, StallsExplained, Queued
<1>2. Inv /\ StallsExplained /\ [Next]_vars => StallsExplained'
  <2> SUFFICES ASSUME Inv, StallsExplained, [Next]_vars, NEW j \in Queued'
               PROVE  jobs'[j].stalls <= crashes'
    BY DEF StallsExplained
  <2>1. crashes \in Nat /\ crashes' \in Nat /\ crashes <= crashes'
    <3>1. crashes' = crashes \/ crashes' = crashes + 1
      BY DEF Next, Dispatch, AddJob, Work, Take, Handle, Complete, Retry, Promote, Crash, vars
    <3> QED BY <3>1, Constants DEF Inv
  <2>2. CASE j \in Queued
    <3>1. /\ Moves(jobs[j], jobs'[j]) /\ jobs[j].stalls <= crashes /\ jobs[j].stalls \in Nat
          /\ jobs'[j].stalls # jobs[j].stalls => crashes' = crashes + 1
      BY <2>2, NextJobsMove, KnownJob DEF JobsMove, StallsExplained
    <3>2. jobs'[j].stalls \in {jobs[j].stalls, jobs[j].stalls + 1}
      BY <3>1 DEF Moves
    <3> QED BY <2>1, <3>1, <3>2
  <2>3. CASE j \notin Queued
    <3>1. PICK e \in Events, k \in Kind : Enqueue(<<e, k>>) /\ j = <<e, k>>
      <4>1. \A i \in Queued : Work(i) \/ Crash => Queued' = Queued
        BY DEF Work, Take, Handle, Complete, Retry, Promote, Become, Crash, Queued
      <4>2. \A i : Work(i) => i \in Queued
        BY DEF Work, Take, Handle, Complete, Retry, Promote
      <4>3. Crash => Queued' = Queued
        BY DEF Crash, Queued
      <4>4. \A e \in Events, k \in Kind : Enqueue(<<e, k>>) => Queued' = Queued \cup {<<e, k>>}
        BY DEF Enqueue, Queued
      <4>5. UNCHANGED jobs => Queued' = Queued
        BY DEF Queued
      <4> QED BY <2>3, <4>1, <4>2, <4>3, <4>4, <4>5 DEF Next, Dispatch, AddJob, vars
    <3>2. jobs'[j].stalls = 0
      BY <3>1 DEF Enqueue
    <3> QED BY <2>1, <3>2
  <2> QED BY <2>2, <2>3
<1> QED BY <1>1, <1>2, Invariance, PTL DEF Spec

\* While the process does not die, an event makes no more e-mails or rows than its
\* job has attempts; each crash adds one at most, for any number of them.
THEOREM DuplicatesExplainedTheorem == Spec => []DuplicatesExplained
<1>1. ASSUME Inv, StallsExplained, NEW j \in Job PROVE effects[j] <= Attempts[j[2]] + crashes
  <2>0. crashes \in Nat
    BY <1>1, Constants DEF Inv
  <2>1. CASE j \in Queued
    <3>1. /\ effects[j] <= jobs[j].tries + jobs[j].stalls + Uncounted(jobs[j])
          /\ jobs[j].tries <= Attempts[j[2]] /\ jobs[j].stalls <= crashes
          /\ jobs[j].status # "failed" => jobs[j].tries < Attempts[j[2]]
      BY <1>1, <2>1, KnownJob DEF JobOK, StallsExplained
    <3>2. Uncounted(jobs[j]) \in {0, 1} /\ (jobs[j].status = "failed" => Uncounted(jobs[j]) = 0)
      BY DEF Uncounted
    <3> QED BY <1>1, <2>0, <2>1, <3>1, <3>2, KnownJob
  <2>2. CASE j \notin Queued
    BY <1>1, <2>0, <2>2, Constants DEF Inv, JobsOK
  <2> QED BY <2>1, <2>2
<1>2. Inv /\ StallsExplained => DuplicatesExplained
  BY <1>1 DEF DuplicatesExplained
<1> QED BY <1>2, Invariance, StallsInvariance, PTL
-----------------------------------------------------------------------------
(* The refinement of Deliveries.                                           *)

Budget  == [j \in Job |-> Attempts[j[2]] + MaxStalls]
Done    == {j \in Queued : jobs[j].status = "completed"}
Dropped == {j \in Queued : jobs[j].status = "failed"}

Outbox == INSTANCE Deliveries WITH
    Jobs <- Job, Limit <- Budget, posted <- Queued, had <- effects, done <- Done, dropped <- Dropped

OutboxSpec == Outbox!Spec

\* The open jobs of the outbox are those Bull may still run.
LEMMA OpenAre == Outbox!Open = {j \in Queued : jobs[j].status \notin Settled}
BY DEF Outbox!Open, Done, Dropped, Settled

LEMMA PostRefines ==
    ASSUME NEW j \in Job, j \notin Queued, Enqueue(j), effects' = effects
    PROVE  Outbox!Next
<1> DEFINE row == [status |-> "waiting", tries |-> 0, stalls |-> 0]
<1>1. jobs' = [i \in Queued \cup {j} |-> IF i = j THEN row ELSE jobs[i]]
  BY DEF Enqueue
<1>2. row.status = "waiting"
  OBVIOUS
<1> HIDE DEF row
<1>3. /\ Queued' = Queued \cup {j}
      /\ \A i \in Queued : jobs'[i] = jobs[i]
      /\ jobs'[j].status = "waiting"
  BY <1>1, <1>2 DEF Queued
<1>4. Done' = Done /\ Dropped' = Dropped
  BY <1>3 DEF Done, Dropped
<1>5. Outbox!Post(j)
  BY <1>3, <1>4 DEF Outbox!Post
<1> QED BY <1>5 DEF Outbox!Next

\* One job changes its status to s.
LEMMA StatusSet ==
    ASSUME Inv, NEW j \in Queued, NEW row, row.status \in Status,
           jobs' = [jobs EXCEPT ![j] = row], jobs[j].status \notin Settled
    PROVE  /\ Queued' = Queued
           /\ Done' = IF row.status = "completed" THEN Done \cup {j} ELSE Done
           /\ Dropped' = IF row.status = "failed" THEN Dropped \cup {j} ELSE Dropped
BY DEF Queued, Done, Dropped, Settled

LEMMA RunRefines ==
    ASSUME Inv, NEW j \in Queued, Handle(j)
    PROVE  UNCHANGED Outbox!vars \/ Outbox!Next
<1>1. PICK s \in {"succeeded", "threw"} : Become(j, s)
  BY DEF Handle
<1> DEFINE row == [jobs[j] EXCEPT !.status = s]
<1>2. row.status = s /\ jobs' = [jobs EXCEPT ![j] = row]
  BY <1>1, KnownJob, StatusRow DEF Become
<1>3. jobs[j].status \notin Settled /\ s \in Status
  BY DEF Handle, Settled, Status
<1> HIDE DEF row
<1>4. Queued' = Queued /\ Done' = Done /\ Dropped' = Dropped
  BY <1>2, <1>3, StatusSet
<1>5. j \in Job /\ effects \in [Job -> Nat]
  BY DEF Inv, JobsOK
<1>6. CASE effects' = effects
  BY <1>4, <1>6 DEF Outbox!vars
<1>7. CASE effects' = [effects EXCEPT ![j] = effects[j] + 1]
  <2>1. /\ effects[j] <= jobs[j].tries + jobs[j].stalls + Uncounted(jobs[j])
        /\ jobs[j].tries < Attempts[j[2]] /\ jobs[j].stalls <= MaxStalls
    BY KnownJob DEF Handle, JobOK
  <2>2. Uncounted(jobs[j]) = 0
    BY DEF Handle, Uncounted
  <2>3. effects[j] < Budget[j]
    BY <1>5, <2>1, <2>2, KnownJob, Constants DEF Budget
  <2>4. Outbox!Effect(j)
    BY <1>3, <1>4, <1>7, <2>3, OpenAre DEF Outbox!Effect
  <2> QED BY <1>5, <2>4 DEF Outbox!Next
<1> QED BY <1>6, <1>7 DEF Handle, Send

LEMMA RetryRefines ==
    ASSUME Inv, NEW j \in Queued, Retry(j)
    PROVE  UNCHANGED Outbox!vars \/ Outbox!Next
<1> DEFINE n   == jobs[j].tries + 1
           s   == IF n < Attempts[j[2]] THEN "delayed" ELSE "failed"
           row == [jobs[j] EXCEPT !.tries = n, !.status = s]
<1>1. row.status = s /\ jobs' = [jobs EXCEPT ![j] = row]
  BY KnownJob DEF Record, Retry
<1>2. jobs[j].status \notin Settled /\ s \in Status /\ effects' = effects
  BY DEF Retry, Settled, Status
<1> HIDE DEF row, s
<1>3. /\ Queued' = Queued /\ Done' = IF s = "completed" THEN Done \cup {j} ELSE Done
      /\ Dropped' = IF s = "failed" THEN Dropped \cup {j} ELSE Dropped
  BY <1>1, <1>2, StatusSet
<1>4. s \in {"delayed", "failed"} /\ j \in Job
  BY DEF s, Inv, JobsOK
<1>5. CASE s = "delayed"
  BY <1>2, <1>3, <1>5 DEF Outbox!vars
<1>6. CASE s = "failed"
  <2>1. Outbox!Drop({j})
    BY <1>2, <1>3, <1>6, OpenAre DEF Outbox!Drop
  <2> QED BY <1>4, <2>1 DEF Outbox!Next
<1> QED BY <1>4, <1>5, <1>6

LEMMA QueueRefines ==
    ASSUME Inv, NEW j \in Queued, Take(j) \/ Complete(j) \/ Promote(j)
    PROVE  UNCHANGED Outbox!vars \/ Outbox!Next
<1>1. ASSUME NEW s \in Status, Become(j, s), jobs[j].status \notin Settled
      PROVE  /\ Queued' = Queued
             /\ Done' = IF s = "completed" THEN Done \cup {j} ELSE Done
             /\ Dropped' = IF s = "failed" THEN Dropped \cup {j} ELSE Dropped
  <2> DEFINE row == [jobs[j] EXCEPT !.status = s]
  <2>1. row.status = s /\ jobs' = [jobs EXCEPT ![j] = row]
    BY <1>1, KnownJob, StatusRow DEF Become
  <2> HIDE DEF row
  <2> QED BY <1>1, <2>1, StatusSet
<1>2. CASE Complete(j)
  <2>1. Queued' = Queued /\ Done' = Done \cup {j} /\ Dropped' = Dropped /\ effects' = effects
    BY <1>1, <1>2 DEF Complete, Settled, Status
  <2>2. effects[j] > 0 /\ j \in Job
    BY <1>2, KnownJob DEF Complete, JobOK, Inv, JobsOK
  <2>3. Outbox!Finish(j)
    BY <1>2, <2>1, <2>2, OpenAre DEF Outbox!Finish, Complete, Settled
  <2> QED BY <2>2, <2>3 DEF Outbox!Next
<1>3. CASE Take(j) \/ Promote(j)
  <2>1. Queued' = Queued /\ Done' = Done /\ Dropped' = Dropped /\ effects' = effects
    BY <1>1, <1>3 DEF Take, Promote, Settled, Status
  <2> QED BY <2>1 DEF Outbox!vars
<1> QED BY <1>2, <1>3

\* A crash gives up the jobs that ran and have no stall left.
LEMMA CrashRefines ==
    ASSUME Inv, Crash PROVE Outbox!Next
<1> DEFINE given == {j \in Queued : jobs[j].status \in Running /\ ~(jobs[j].stalls < MaxStalls)}
<1>1. Queued' = Queued /\ effects' = effects
  BY DEF Crash, Queued
<1>2. ASSUME NEW j \in Queued
      PROVE  jobs'[j].status = IF jobs[j].status \in Running
                                 THEN IF jobs[j].stalls < MaxStalls THEN "waiting" ELSE "failed"
                                 ELSE jobs[j].status
  <2> DEFINE s   == IF jobs[j].stalls < MaxStalls THEN "waiting" ELSE "failed"
             row == [jobs[j] EXCEPT !.stalls = jobs[j].stalls + 1, !.status = s]
  <2>1. jobs'[j] = IF jobs[j].status \in Running THEN row ELSE jobs[j]
    BY DEF Crash, Queued
  <2>2. row.status = s
    BY KnownJob DEF Record
  <2> HIDE DEF row
  <2> QED BY <2>1, <2>2
<1>3. Done' = Done /\ Dropped' = Dropped \cup given
  BY <1>1, <1>2 DEF Done, Dropped, Running
<1>4. given \subseteq Outbox!Open /\ given \in SUBSET Job
  BY OpenAre DEF Running, Settled, Inv, JobsOK
<1> HIDE DEF given
<1>5. Outbox!Drop(given)
  BY <1>1, <1>3, <1>4 DEF Outbox!Drop
<1> QED BY <1>4, <1>5 DEF Outbox!Next

LEMMA NextRefines == Inv /\ [Next]_vars => [Outbox!Next]_(Outbox!vars)
<1> SUFFICES ASSUME Inv, [Next]_vars PROVE UNCHANGED Outbox!vars \/ Outbox!Next
  OBVIOUS
<1>1. CASE UNCHANGED <<jobs, effects>>
  BY <1>1 DEF Outbox!vars, Queued, Done, Dropped
<1>2. ASSUME NEW e \in Events, NEW k \in Kind, AddJob(e, k), Enqueue(<<e, k>>)
      PROVE  Outbox!Next
  <2> DEFINE j == <<e, k>>
  <2>1. j \in Job /\ j \notin Queued
    BY <1>2 DEF AddJob, Inv, ListenersOK, QueuedOK, Kind, Job
  <2>2. Enqueue(j) /\ effects' = effects
    BY <1>2 DEF AddJob
  <2> HIDE DEF j
  <2> QED BY <2>1, <2>2, PostRefines
<1>3. ASSUME NEW j \in Job, Work(j) PROVE UNCHANGED Outbox!vars \/ Outbox!Next
  <2>1. j \in Queued
    BY <1>3 DEF Work, Take, Handle, Complete, Retry, Promote
  <2> QED BY <1>3, <2>1, RunRefines, RetryRefines, QueueRefines DEF Work
<1> QED BY <1>1, <1>2, <1>3, CrashRefines DEF Next, Dispatch, AddJob, vars

\* The pipeline implements an outbox: an effect is had at most attempts plus stalls
\* times, at least once for a job that is done, and never after its job has settled.
THEOREM OutboxTheorem == Spec => OutboxSpec
<1>1. Init => Outbox!Init
  BY DEF Init, Outbox!Init, Queued, Done, Dropped
<1> QED BY <1>1, NextRefines, Invariance, PTL DEF Spec, OutboxSpec, Outbox!Spec
=============================================================================
