---------------------------- MODULE JobLifecycle ----------------------------
(***************************************************************************)
(* What the compile queue promises about each job, whatever workers do:     *)
(* a job is admitted once; every attempt is counted and the budget is never *)
(* exceeded; a verdict is final; a cancellation request is never withdrawn, *)
(* and once it is recorded the job ends cancelled or not at all.            *)
(*                                                                         *)
(* The contract of the states of compile_jobs (migrations/0003) with the    *)
(* errors InvalidState and LeaseLost of compile_queue.rs read as refusals.  *)
(***************************************************************************)
EXTENDS Integers

CONSTANTS Jobs, MaxAttempts     \* the budget of attempts: a positive number

VARIABLE status     \* what a reader of the table sees of each job

Verdicts == {"succeeded", "failed", "timed_out"}

Status == [state    : {"absent", "queued", "running", "cancelled"} \cup Verdicts,
           attempts : 0 .. MaxAttempts,
           cancel   : BOOLEAN]

Unadmitted == [state |-> "absent", attempts |-> 0, cancel |-> FALSE]

Admit(s, t) ==
    /\ s = Unadmitted
    /\ t = [s EXCEPT !.state = "queued"]

Attempt(s, t) ==
    /\ s.state = "queued" /\ s.attempts < MaxAttempts
    /\ t = [s EXCEPT !.state = "running", !.attempts = @ + 1]

Retry(s, t) ==
    /\ s.state = "running" /\ ~ s.cancel /\ s.attempts < MaxAttempts
    /\ t = [s EXCEPT !.state = "queued"]

Decide(s, t) ==
    /\ s.state = "running" /\ ~ s.cancel
    /\ \E v \in Verdicts : t = [s EXCEPT !.state = v]

Request(s, t) ==
    \/ s.state = "queued" /\ t = [s EXCEPT !.state = "cancelled", !.cancel = TRUE]
    \/ s.state = "running" /\ t = [s EXCEPT !.cancel = TRUE]

Cancel(s, t) ==
    /\ s.state = "running" /\ s.cancel
    /\ t = [s EXCEPT !.state = "cancelled"]

Move(s, t) ==
    Admit(s, t) \/ Attempt(s, t) \/ Retry(s, t) \/ Decide(s, t)
        \/ Request(s, t) \/ Cancel(s, t)

Init == status = [j \in Jobs |-> Unadmitted]

\* One transaction may move several jobs: recovery, or a verdict that
\* activates a pending build.
Next ==
    /\ status' \in [Jobs -> Status]
    /\ \A j \in Jobs : status'[j] = status[j] \/ Move(status[j], status'[j])

Spec == Init /\ [][Next]_status
=============================================================================
