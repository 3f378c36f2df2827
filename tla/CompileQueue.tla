---------------------------- MODULE CompileQueue ----------------------------
(***************************************************************************)
(* The durable compile queue and the worker loops that drain it:           *)
(* crates/persistence/src/compile_queue.rs (the PostgreSQL table), the      *)
(* worker of crates/queue/src/lib.rs, and the start-up recovery of          *)
(* services/server/src/bin/worker.rs.                                       *)
(*                                                                         *)
(* One action is one PostgreSQL transaction, or one step of a worker loop   *)
(* between two transactions.  A worker is one incarnation of the worker     *)
(* process: every start draws a fresh WorkerId, shared by all its loops.    *)
(*                                                                         *)
(* The V2 scheduler row that finalize_v2_build updates belongs to           *)
(* BuildScheduler; here its pending slot is a choice: finalizing a V2 job   *)
(* inserts at most one further job of the same paper.                       *)
(***************************************************************************)
EXTENDS Integers, FiniteSets

CONSTANTS
    Jobs,               \* every job that may ever be admitted
    NoJob,
    Users, UserOf,      \* whose job it is
    Keys, KeyOf,        \* its compile key: equal keys, equal outputs
    Papers, NoPaper,
    PaperOf,            \* the paper a V2 job builds; NoPaper for a library job
    Requests, RequestOf,\* the idempotency key of a library job
    Priority,           \* 10 for a manual V2 build, 0 for an automatic one
    Workers, NoWorker,  \* incarnations of the worker process
    Slots,              \* the loops of one process (WORKER_CONCURRENCY)
    GlobalRunning, PerUserRunning, PerUserOutstanding, MaxAttempts,
    Faults              \* the faults the environment may inject

AllFaults == {"crash", "shutdown", "stall", "error"}

ASSUME QueueAssumption ==
    /\ IsFiniteSet(Jobs) /\ NoJob \notin Jobs
    /\ UserOf \in [Jobs -> Users] /\ KeyOf \in [Jobs -> Keys]
    /\ NoPaper \notin Papers /\ PaperOf \in [Jobs -> Papers \cup {NoPaper}]
    /\ RequestOf \in [Jobs -> Requests] /\ Priority \in [Jobs -> Int]
    /\ NoWorker \notin Workers /\ Workers # {} /\ Slots # {}
    /\ GlobalRunning \in Nat \ {0} /\ PerUserRunning \in Nat \ {0}
    /\ PerUserOutstanding \in Nat \ {0} /\ MaxAttempts \in Nat \ {0}
    /\ Faults \subseteq AllFaults

Loops == Workers \X Slots
V2Jobs == {j \in Jobs : PaperOf[j] # NoPaper}

VARIABLES
    job,    \* the compile_jobs table joined with each job's v2_paper_builds row
    cache,  \* compile_cache: the job whose artifact manifest serves a key
    proc,   \* the life of each worker process
    loop    \* where each worker loop is inside run_once

vars == <<job, cache, proc, loop>>

Verdicts == {"succeeded", "failed", "timed_out"}
Terminal == Verdicts \cup {"cancelled"}
Outstanding == {"queued", "running"}

Row == [state    : {"absent"} \cup Outstanding \cup Terminal,
        worker   : Workers \cup {NoWorker},
        lease    : {"none", "live", "expired"},
        attempts : 0 .. MaxAttempts,
        cancel   : BOOLEAN,                     \* cancellation_requested_at
        source   : Jobs \cup {NoJob},           \* cache_source_job_id
        build    : {"none", "queued", "running", "succeeded", "failed"},
        created  : Nat]                         \* created_at, as admission order

Absent == [state |-> "absent", worker |-> NoWorker, lease |-> "none",
           attempts |-> 0, cancel |-> FALSE, source |-> NoJob,
           build |-> "none", created |-> 0]

LoopState ==
    [pc      : {"idle", "lookup", "verify", "hit", "compile", "commit", "fail", "infra"},
     job     : Jobs \cup {NoJob},
     attempt : 0 .. MaxAttempts,
     cached  : Jobs \cup {NoJob}]               \* the CompileCacheRecordV1 it read

Idle == [pc |-> "idle", job |-> NoJob, attempt |-> 0, cached |-> NoJob]

TypeOK ==
    /\ job \in [Jobs -> Row]
    /\ cache \in [Keys -> Jobs \cup {NoJob}]
    /\ proc \in [Workers -> {"off", "up", "stopping", "dead"}]
    /\ loop \in [Loops -> LoopState]

-----------------------------------------------------------------------------
(* Reading the table *)

Admitted == {j \in Jobs : job[j].state # "absent"}
Running == {j \in Jobs : job[j].state = "running"}
RunningOf(u) == {j \in Running : UserOf[j] = u}
OutstandingOf(u) == {j \in Jobs : job[j].state \in Outstanding /\ UserOf[j] = u}
Arrival == Cardinality(Admitted)

\* The row every admission inserts.
Fresh(j) ==
    [Absent EXCEPT !.state = "queued", !.created = Arrival,
                   !.build = IF j \in V2Jobs THEN "queued" ELSE "none"]

\* finish: the row leaves "running" with a verdict and without a lease.
Finished(row, state, source) ==
    [row EXCEPT !.state = state, !.worker = NoWorker, !.lease = "none",
                !.source = source]

Requeued(row) == [row EXCEPT !.state = "queued", !.worker = NoWorker, !.lease = "none"]

\* The jobs the pending slots of the papers of the jobs J may hold.
Activations(J) ==
    {N \in SUBSET (V2Jobs \ Admitted) :
        /\ \A m \in N : \E j \in J \cap V2Jobs : PaperOf[j] = PaperOf[m]
        /\ \A m, n \in N : PaperOf[m] = PaperOf[n] => m = n}

\* finalize_v2_build for the jobs J of a table whose queue transition is done.
Finalized(table, J, N) ==
    [j \in Jobs |->
        IF j \in N THEN Fresh(j)
        ELSE IF j \in J \cap V2Jobs
             THEN [table[j] EXCEPT !.build =
                      IF table[j].state = "succeeded" THEN "succeeded" ELSE "failed"]
             ELSE table[j]]

-----------------------------------------------------------------------------
(* Admission and cancellation *)

\* The library's enqueue: one row per user and idempotency key, bounded.
Enqueue(j) ==
    /\ j \in Jobs \ (V2Jobs \cup Admitted)
    /\ ~ \E k \in Admitted \ V2Jobs :
            UserOf[k] = UserOf[j] /\ RequestOf[k] = RequestOf[j]
    /\ Cardinality(OutstandingOf(UserOf[j])) < PerUserOutstanding
    /\ job' = [job EXCEPT ![j] = Fresh(j)]
    /\ UNCHANGED <<cache, proc, loop>>

\* The scheduler's enqueue_build inserts its row without the outstanding limit.
EnqueueBuild(j) ==
    /\ j \in V2Jobs \ Admitted
    /\ job' = [job EXCEPT ![j] = Fresh(j)]
    /\ UNCHANGED <<cache, proc, loop>>

RequestCancellation(j) ==
    /\ job[j].state \in Outstanding
    /\ job' = [job EXCEPT ![j] =
                 IF @.state = "queued"
                 THEN [@ EXCEPT !.state = "cancelled", !.cancel = TRUE]
                 ELSE [@ EXCEPT !.cancel = TRUE]]
    /\ UNCHANGED <<cache, proc, loop>>

-----------------------------------------------------------------------------
(* Leases and processes *)

Held(j) == \E l \in Loops : loop[l].job = j

\* Time passes beyond lease_until.  A loop renews three times per lease, so the
\* lease of a job some loop still works on expires only if that loop stalls.
Expire(j) ==
    /\ job[j].lease = "live"
    /\ Held(j) => "stall" \in Faults
    /\ job' = [job EXCEPT ![j].lease = "expired"]
    /\ UNCHANGED <<cache, proc, loop>>

\* Wrong on purpose: recovery passes over the rows with a cancellation request.
ExpiredUncancelled == {j \in Running : job[j].lease = "expired" /\ ~ job[j].cancel}

Expired == {j \in Running : job[j].lease = "expired"}

RecoveredRow(row) ==
    CASE row.cancel                                    -> Finished(row, "cancelled", row.source)
      [] ~ row.cancel /\ row.attempts >= MaxAttempts   -> Finished(row, "failed", row.source)
      [] ~ row.cancel /\ row.attempts < MaxAttempts    -> Requeued(row)

\* Wrong on purpose: recovery fails the job and leaves its build unfinished.
StartUnsettled(w) ==
    /\ proc[w] = "off"
    /\ proc' = [proc EXCEPT ![w] = "up"]
    /\ job' = [j \in Jobs |-> IF j \in Expired THEN RecoveredRow(job[j]) ELSE job[j]]
    /\ UNCHANGED <<cache, loop>>

\* A process starts: recover_expired_leases runs once, before its loops.
Start(w) ==
    LET swept == [j \in Jobs |-> IF j \in Expired THEN RecoveredRow(job[j]) ELSE job[j]]
        unsettled == {j \in V2Jobs : /\ swept[j].state = "failed"
                                     /\ swept[j].build \in {"queued", "running"}}
    IN  /\ proc[w] = "off"
        /\ proc' = [proc EXCEPT ![w] = "up"]
        /\ \E N \in Activations(unsettled) : job' = Finalized(swept, unsettled, N)
        /\ UNCHANGED <<cache, loop>>

Silenced(w) == [l \in Loops |-> IF l[1] = w THEN Idle ELSE loop[l]]

\* The process dies between two steps; its rows keep its lease.  A spare
\* incarnation bounds the number of crashes.
Crash(w) ==
    /\ "crash" \in Faults
    /\ proc[w] \in {"up", "stopping"}
    /\ \E v \in Workers : proc[v] = "off"
    /\ proc' = [proc EXCEPT ![w] = "dead"]
    /\ loop' = Silenced(w)
    /\ UNCHANGED <<job, cache>>

\* ctrl_c requests the shutdown; a loop leaves once its current job is done.
RequestShutdown(w) ==
    /\ "shutdown" \in Faults
    /\ proc[w] = "up"
    /\ proc' = [proc EXCEPT ![w] = "stopping"]
    /\ UNCHANGED <<job, cache, loop>>

Exit(w) ==
    /\ proc[w] = "stopping"
    /\ \A l \in Loops : l[1] = w => loop[l].pc = "idle"
    /\ proc' = [proc EXCEPT ![w] = "dead"]
    /\ UNCHANGED <<job, cache, loop>>

-----------------------------------------------------------------------------
(* One cycle of a worker loop: run_once *)

At(l, pc) == loop[l].pc = pc
Goto(l, pc) == loop' = [loop EXCEPT ![l].pc = pc]
Leave(l) == loop' = [loop EXCEPT ![l] = Idle]

\* Wrong on purpose: the per-user bound is not looked at.
EligibleUncapped == {j \in Jobs : job[j].state = "queued"}

Eligible == {j \in Jobs : /\ job[j].state = "queued"
                          /\ Cardinality(RunningOf(UserOf[j])) < PerUserRunning}

\* ORDER BY priority DESC, created_at ASC; a tie goes either way.
Before(j, k) ==
    \/ Priority[j] > Priority[k]
    \/ Priority[j] = Priority[k] /\ job[j].created < job[k].created

Claim(l, j) ==
    /\ proc[l[1]] = "up"
    /\ At(l, "idle")
    /\ Cardinality(Running) < GlobalRunning
    /\ j \in Eligible
    /\ \A k \in Eligible : ~ Before(k, j)
    /\ job' = [job EXCEPT ![j].state = "running", ![j].worker = l[1],
                          ![j].lease = "live", ![j].attempts = @ + 1,
                          ![j].build = IF j \in V2Jobs THEN "running" ELSE @]
    /\ loop' = [loop EXCEPT ![l] = [pc |-> "lookup", job |-> j,
                                    attempt |-> job[j].attempts + 1, cached |-> NoJob]]
    /\ UNCHANGED <<cache, proc>>

\* cache_entry
LookUp(l) ==
    /\ At(l, "lookup")
    /\ LET hit == cache[KeyOf[loop[l].job]]
       IN  loop' = [loop EXCEPT ![l].cached = hit,
                                ![l].pc = IF hit = NoJob THEN "compile" ELSE "verify"]
    /\ UNCHANGED <<job, cache, proc>>

\* try_cache_hit reads the manifest and the metadata of every artifact.
Verified(l) ==
    /\ At(l, "verify")
    /\ Goto(l, "hit")
    /\ UNCHANGED <<job, cache, proc>>

\* A blob is missing or damaged: evict the row that was read, then compile.
Evict(l) ==
    /\ At(l, "verify")
    /\ LET k == KeyOf[loop[l].job]
       IN  cache' = [cache EXCEPT ![k] = IF @ = loop[l].cached THEN NoJob ELSE @]
    /\ Goto(l, "compile")
    /\ UNCHANGED <<job, proc>>

\* Wrong on purpose: the cache row is written with the artifacts, before the
\* lease is asserted.
ExecutedCaching(l, pc) ==
    /\ At(l, "compile")
    /\ pc \in {"commit", "fail", "infra"}
    /\ Goto(l, pc)
    /\ cache' = IF pc = "commit" THEN [cache EXCEPT ![KeyOf[loop[l].job]] = loop[l].job]
                                 ELSE cache
    /\ UNCHANGED <<job, proc>>

\* The compilation ends: artifacts stored, a compile error, or an
\* infrastructure error (the manifest, the container, the blob store).
Executed(l, pc) ==
    /\ At(l, "compile")
    /\ pc \in {"commit", "fail", "infra"}
    /\ Goto(l, pc)
    /\ UNCHANGED <<job, cache, proc>>

\* Wrong on purpose: the owner of the lease is not compared.
OwnsAnyWorker(l) ==
    job[loop[l].job].state = "running" /\ job[loop[l].job].lease = "live"

\* assert_live_lease
Owns(l) ==
    LET row == job[loop[l].job]
    IN  row.state = "running" /\ row.worker = l[1] /\ row.lease = "live"

\* renew_lease failed during the compilation.
RenewalLost(l) ==
    /\ At(l, "compile")
    /\ ~ Owns(l)
    /\ Goto(l, "infra")
    /\ UNCHANGED <<job, cache, proc>>

\* A completion that finds the lease lost changes nothing.
Refused(l) ==
    /\ \/ At(l, "commit") \/ At(l, "fail") \/ At(l, "infra")
    /\ ~ Owns(l)
    /\ Leave(l)
    /\ UNCHANGED <<job, cache, proc>>

\* For a cache hit the refusal is handled as an infrastructure failure.
HitRefused(l) ==
    /\ At(l, "hit")
    /\ ~ Owns(l)
    /\ Goto(l, "infra")
    /\ UNCHANGED <<job, cache, proc>>

\* A completion that finds a cancellation request; finalize_v2_build is skipped.
CompleteCancelled(l) ==
    /\ \/ At(l, "hit") \/ At(l, "commit") \/ At(l, "fail") \/ At(l, "infra")
    /\ Owns(l)
    /\ job[loop[l].job].cancel
    /\ job' = [job EXCEPT ![loop[l].job] = Finished(@, "cancelled", NoJob)]
    /\ Leave(l)
    /\ UNCHANGED <<cache, proc>>

\* Wrong on purpose: a cancellation request does not stop a verdict.
SettleCancelled(l, state, source) ==
    LET j == loop[l].job
    IN  /\ Owns(l)
        /\ \E N \in Activations({j}) :
              job' = Finalized([job EXCEPT ![j] = Finished(@, state, source)], {j}, N)
        /\ Leave(l)
        /\ UNCHANGED proc

\* A verdict of a live, uncancelled attempt: finish and finalize_v2_build.
Settle(l, state, source) ==
    LET j == loop[l].job
    IN  /\ Owns(l)
        /\ ~ job[j].cancel
        /\ \E N \in Activations({j}) :
              job' = Finalized([job EXCEPT ![j] = Finished(@, state, source)], {j}, N)
        /\ Leave(l)
        /\ UNCHANGED proc

CompleteSuccess(l) ==
    /\ At(l, "commit")
    /\ Settle(l, "succeeded", NoJob)
    /\ LET j == loop[l].job      \* ON CONFLICT keeps the row that is there
       IN  cache' = [cache EXCEPT ![KeyOf[j]] = IF @ = NoJob THEN j ELSE @]

CompleteCachedSuccess(l) ==
    /\ At(l, "hit")
    /\ Settle(l, "succeeded", loop[l].cached)
    /\ UNCHANGED cache

CompleteFailure(l, state) ==
    /\ At(l, "fail")
    /\ state \in {"failed", "timed_out"}
    /\ Settle(l, state, NoJob)
    /\ UNCHANGED cache

\* complete_infrastructure_failure: retry, or fail once the budget is spent.
InfraExhausted(l) ==
    /\ At(l, "infra")
    /\ job[loop[l].job].attempts >= MaxAttempts
    /\ Settle(l, "failed", NoJob)
    /\ UNCHANGED cache

\* Wrong on purpose: the loop gives the job up without putting its row back.
InfraRequeueForgotten(l) ==
    /\ At(l, "infra")
    /\ job[loop[l].job].attempts < MaxAttempts
    /\ Leave(l)
    /\ UNCHANGED <<job, cache, proc>>

InfraRequeue(l) ==
    LET j == loop[l].job
    IN  /\ At(l, "infra")
        /\ Owns(l)
        /\ ~ job[j].cancel
        /\ job[j].attempts < MaxAttempts
        /\ job' = [job EXCEPT ![j] = Requeued(@)]
        /\ Leave(l)
        /\ UNCHANGED <<cache, proc>>

\* A database error, or a failure to store a compile error's log, propagates
\* out of run_once: the loop goes on and the row stays running.
Abandon(l) ==
    /\ "error" \in Faults
    /\ \/ At(l, "lookup") \/ At(l, "commit") \/ At(l, "fail") \/ At(l, "infra")
    /\ Leave(l)
    /\ UNCHANGED <<job, cache, proc>>

\* An error of the cache path is handled as an infrastructure failure.
CacheError(l) ==
    /\ "error" \in Faults
    /\ \/ At(l, "verify") \/ At(l, "hit")
    /\ Goto(l, "infra")
    /\ UNCHANGED <<job, cache, proc>>

-----------------------------------------------------------------------------
Init ==
    /\ job = [j \in Jobs |-> Absent]
    /\ cache = [k \in Keys |-> NoJob]
    /\ proc = [w \in Workers |-> "off"]
    /\ loop = [l \in Loops |-> Idle]

LoopStep(l) ==
    \/ \E j \in Jobs : Claim(l, j)
    \/ LookUp(l) \/ Verified(l) \/ Evict(l)
    \/ \E pc \in {"commit", "fail", "infra"} : Executed(l, pc)
    \/ RenewalLost(l) \/ Refused(l) \/ HitRefused(l)
    \/ CompleteCancelled(l) \/ CompleteSuccess(l) \/ CompleteCachedSuccess(l)
    \/ \E state \in {"failed", "timed_out"} : CompleteFailure(l, state)
    \/ InfraExhausted(l) \/ InfraRequeue(l)

Client(j) == Enqueue(j) \/ EnqueueBuild(j) \/ RequestCancellation(j)

Process(w) == Start(w) \/ Crash(w) \/ RequestShutdown(w) \/ Exit(w)

Next ==
    \/ \E j \in Jobs : Client(j) \/ Expire(j)
    \/ \E w \in Workers : Process(w)
    \/ \E l \in Loops : LoopStep(l) \/ Abandon(l) \/ CacheError(l)

Spec == Init /\ [][Next]_vars

\* A loop keeps going (run_until_shutdown), docker restarts the worker, and
\* time passes.  Clients and faults are not fair.
FairSpec ==
    /\ Spec
    /\ \A l \in Loops : WF_vars(LoopStep(l))
    /\ \A w \in Workers : WF_vars(Start(w))
    /\ \A j \in Jobs : WF_vars(Expire(j))
=============================================================================
