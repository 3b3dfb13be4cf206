----------------------------- MODULE EventPipeline -----------------------------
(***************************************************************************)
(* From a domain event to its e-mail and its log row.                      *)
(*                                                                         *)
(* EventDispatcherService.dispatch emits the event; the listener registered *)
(* for it awaits QueueService.addEmailJob, then QueueService.addLogJob, or *)
(* one of the two; EmailProcessor and LogProcessor run the jobs.  The jobs *)
(* live in Redis and are kept by Bull, which is external and modelled from *)
(* the options the code gives it: a job that throws is retried after a     *)
(* backoff until its attempts are used up, and a job that was running when *)
(* the process died is run again, at most MaxStalls times.  Settled jobs   *)
(* stay (the code has Bull keep the last 100 and 1000 of them), and the    *)
(* other four queues have no processor.                                    *)
(***************************************************************************)
EXTENDS Integers

CONSTANTS
    Events,     \* BOUND: the events dispatched
    Mailed,     \* those whose listener adds an e-mail job
    Logged,     \* those whose listener adds a log job
    Attempts,   \* [Kind -> attempts of the job options] (3 and 5)
    MaxStalls,  \* Bull's maxStalledCount (1)
    MaxCrashes  \* BOUND: crashes of the process

Kind == {"mail", "log"}
Job  == Events \X Kind

ASSUME PipelineAssumption ==
    /\ Mailed \subseteq Events
    /\ Logged \subseteq Events
    /\ Attempts \in [Kind -> Nat \ {0}]
    /\ MaxStalls \in Nat
    /\ MaxCrashes \in Nat

VARIABLES
    listener,  \* where the listener of each event is
    jobs,      \* the queues: partial function on Job
    effects,   \* e-mails the provider accepted, log rows inserted, per job
    crashes

vars == <<listener, jobs, effects, crashes>>

Stage == {"none", "mail", "log", "done", "lost"}

\* succeeded, threw: the processor has returned and Bull was not told yet.
Status == {"waiting", "active", "succeeded", "threw", "delayed", "completed", "failed"}

Running == {"active", "succeeded", "threw"}
Settled == {"completed", "failed"}

Record == [status : Status, tries : Nat, stalls : Nat]

Init ==
    /\ listener = [e \in Events |-> "none"]
    /\ jobs = [j \in {} |-> {}]
    /\ effects = [j \in Job |-> 0]
    /\ crashes = 0

-----------------------------------------------------------------------------
(* The listeners.                                                          *)

Queued == DOMAIN jobs

\* What the listener of e queues first, and after its e-mail.
FirstJob(e) ==
    IF e \in Mailed THEN "mail" ELSE IF e \in Logged THEN "log" ELSE "done"

NextJob(e, k) == IF k = "mail" /\ e \in Logged THEN "log" ELSE "done"

\* emit runs the listener up to its first await; an event nobody listens to
\* (subscriptions and invoices) ends here.
Dispatch(e) ==
    /\ listener[e] = "none"
    /\ listener' = [listener EXCEPT ![e] = FirstJob(e)]
    /\ UNCHANGED <<jobs, effects, crashes>>

Enqueue(j) ==
    jobs' = [i \in Queued \cup {j} |->
               IF i = j THEN [status |-> "waiting", tries |-> 0, stalls |-> 0] ELSE jobs[i]]

\* MUTANT of AddJob: a failed add is swallowed and the listener goes on.
AddJobSwallowing(e, k) ==
    /\ listener[e] = k
    /\ \/ Enqueue(<<e, k>>)
       \/ UNCHANGED jobs
    /\ listener' = [listener EXCEPT ![e] = NextJob(e, k)]
    /\ UNCHANGED <<effects, crashes>>

\* queue.add: done; or Redis fails it, after or before having stored the job, and
\* the listener's promise rejects.
AddJob(e, k) ==
    /\ listener[e] = k
    /\ \/ /\ Enqueue(<<e, k>>)
          /\ listener' = [listener EXCEPT ![e] = NextJob(e, k)]
       \/ /\ Enqueue(<<e, k>>) \/ UNCHANGED jobs
          /\ listener' = [listener EXCEPT ![e] = "lost"]
    /\ UNCHANGED <<effects, crashes>>

-----------------------------------------------------------------------------
(* The processors.                                                         *)

Become(j, s) == jobs' = [jobs EXCEPT ![j].status = s]

\* A queue has one worker of concurrency 1.
Take(j) ==
    /\ j \in Queued /\ jobs[j].status = "waiting"
    /\ \A i \in Queued : i[2] = j[2] => jobs[i].status \notin Running
    /\ Become(j, "active")
    /\ UNCHANGED <<listener, effects, crashes>>

\* ResendAdapter.sendEmail, which returns a failure and never throws, and log.create,
\* which throws: what failed may have been done all the same.
Send(j, success) ==
    effects' \in {[effects EXCEPT ![j] = @ + 1]} \cup (IF success THEN {} ELSE {effects})

\* MUTANT of Handle: a failure the adapter returns is logged and not thrown.
HandleQuietly(j) ==
    /\ j \in Queued /\ jobs[j].status = "active"
    /\ \E success \in BOOLEAN : Send(j, success)
    /\ Become(j, "succeeded")
    /\ UNCHANGED <<listener, crashes>>

\* MUTANT of Handle: a job that ran before is taken for a duplicate and left alone.
HandleFirstRun(j) ==
    /\ j \in Queued /\ jobs[j].status = "active" /\ jobs[j].tries = 0
    /\ \E success \in BOOLEAN :
           Send(j, success) /\ Become(j, IF success THEN "succeeded" ELSE "threw")
    /\ UNCHANGED <<listener, crashes>>

\* handleEmailJob and handleLogJob; a template that does not render is replaced.
Handle(j) ==
    /\ j \in Queued /\ jobs[j].status = "active"
    /\ \E success \in BOOLEAN :
           Send(j, success) /\ Become(j, IF success THEN "succeeded" ELSE "threw")
    /\ UNCHANGED <<listener, crashes>>

Complete(j) ==
    /\ j \in Queued /\ jobs[j].status = "succeeded"
    /\ Become(j, "completed")
    /\ UNCHANGED <<listener, effects, crashes>>

\* MUTANT of Retry: one attempt too many.
RetryOnceMore(j) ==
    LET n == jobs[j].tries + 1 IN
    /\ j \in Queued /\ jobs[j].status = "threw"
    /\ jobs' = [jobs EXCEPT ![j].tries = n,
                            ![j].status = IF n <= Attempts[j[2]] THEN "delayed" ELSE "failed"]
    /\ UNCHANGED <<listener, effects, crashes>>

\* The processor's exception counts an attempt; after the last the job has failed.
Retry(j) ==
    LET n == jobs[j].tries + 1 IN
    /\ j \in Queued /\ jobs[j].status = "threw"
    /\ jobs' = [jobs EXCEPT ![j].tries = n,
                            ![j].status = IF n < Attempts[j[2]] THEN "delayed" ELSE "failed"]
    /\ UNCHANGED <<listener, effects, crashes>>

\* The backoff is over.
Promote(j) ==
    /\ j \in Queued /\ jobs[j].status = "delayed"
    /\ Become(j, "waiting")
    /\ UNCHANGED <<listener, effects, crashes>>

\* The process dies and restarts: listeners are gone, running jobs have stalled.
Crash ==
    /\ crashes < MaxCrashes
    /\ crashes' = crashes + 1
    /\ listener' = [e \in Events |-> IF listener[e] \in Kind THEN "lost" ELSE listener[e]]
    /\ jobs' = [j \in Queued |->
                 IF jobs[j].status \in Running
                   THEN [jobs[j] EXCEPT !.stalls = @ + 1,
                                        !.status = IF jobs[j].stalls < MaxStalls THEN "waiting"
                                                                                 ELSE "failed"]
                   ELSE jobs[j]]
    /\ UNCHANGED effects

Work(j) == Take(j) \/ Handle(j) \/ Complete(j) \/ Retry(j) \/ Promote(j)

Next ==
    \/ \E e \in Events : Dispatch(e) \/ \E k \in Kind : AddJob(e, k)
    \/ \E j \in Job : Work(j)
    \/ Crash

Spec == Init /\ [][Next]_vars

\* A worker takes a job that keeps waiting while it is free, every call to the
\* provider and the database returns, and a backoff ends.
FairSpec == Spec /\ \A j \in Job : WF_vars(Work(j))

-----------------------------------------------------------------------------
(* Properties.                                                             *)

\* The type invariant, with the limits of a job's counters (queue.service.ts:29).
TypeOK ==
    /\ listener \in [Events -> Stage]
    /\ Queued \subseteq Job
    /\ \A j \in Queued : /\ jobs[j] \in Record
                         /\ jobs[j].tries <= Attempts[j[2]]
                         /\ jobs[j].stalls <= MaxStalls + 1
    /\ effects \in [Job -> Nat]
    /\ crashes \in 0..MaxCrashes

\* Duplicates are bounded (queue.service.ts:29): retries of calls that were done
\* all the same, and runs repeated after crashes, make at most this many e-mails
\* or rows of one event.
DuplicatesBounded ==
    \A j \in Job : effects[j] <= Attempts[j[2]] + MaxStalls

\* Bull drops a job only when its e-mail was accepted (its row inserted) or when
\* it has used up its attempts or its stalls: a refusal by the provider, which the
\* adapter returns and does not throw (email.processor.ts:65), is never taken for
\* a success.
SettledRightly ==
    \A j \in Queued :
        /\ jobs[j].status = "completed" => effects[j] > 0
        /\ jobs[j].status = "failed" => \/ jobs[j].tries = Attempts[j[2]]
                                        \/ jobs[j].stalls > MaxStalls

\* The audit log never speaks of an event whose e-mail was not even queued
\* (user.listener.ts:37-54), and a listener that went through queued everything.
QueuedInOrder ==
    \A e \in Events :
        /\ e \in Mailed /\ <<e, "log">> \in Queued => <<e, "mail">> \in Queued
        /\ listener[e] = "done" => \A k \in Kind :
               e \in (IF k = "mail" THEN Mailed ELSE Logged) => <<e, k>> \in Queued

\* Every queued job is settled in the end, whatever the provider answers.
JobsSettle ==
    \A j \in Job : (j \in Queued) ~> (j \in Queued /\ jobs[j].status \in Settled)
=============================================================================
