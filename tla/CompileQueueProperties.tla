----------------------- MODULE CompileQueueProperties -----------------------
(***************************************************************************)
(* What must be true of the compile queue.                                  *)
(***************************************************************************)
EXTENDS CompileQueue, TLC

\* The global and the per-user bound on compilations hold in every state, also
\* for rows whose worker crashed and rows that recovery or a retry put back:
\* claim counts them under the advisory lock (compile_queue.rs, claim).
CapsRespected ==
    /\ Cardinality(Running) <= GlobalRunning
    /\ \A u \in Users : Cardinality(RunningOf(u)) <= PerUserRunning

\* A loop that may still write a job's verdict works on the job's current
\* attempt: assert_live_lease fences the loops of earlier attempts, because a
\* row is claimed again only under another WorkerId.  This needs one loop per
\* process, the default of WORKER_CONCURRENCY.
OwnerIsCurrent ==
    \A l \in Loops :
        (loop[l].job # NoJob /\ Owns(l)) => loop[l].attempt = job[loop[l].job].attempts

\* The verdict of a job and the status of the V2 build it compiles agree, on
\* every path that writes either: completion, the retry budget, and recovery
\* (finalize_v2_build runs in the transaction of the verdict).
VerdictReachesBuild ==
    \A j \in V2Jobs :
        /\ job[j].state = "succeeded" <=> job[j].build = "succeeded"
        /\ job[j].state \in {"failed", "timed_out"} <=> job[j].build = "failed"

\* A success taken from the cache has the outputs of a real compilation of the
\* same key: the row was read, verified and used in different transactions, and
\* may have been evicted and replaced in between (lib.rs, try_cache_hit).
CacheSound ==
    LET Genuine(j, k) == /\ job[j].state = "succeeded"
                         /\ job[j].source = NoJob
                         /\ KeyOf[j] = k
    IN  /\ \A k \in Keys : cache[k] # NoJob => Genuine(cache[k], k)
        /\ \A j \in Jobs : job[j].source # NoJob => Genuine(job[j].source, KeyOf[j])

\* The queue implements the contract of a job's life.
Contract == INSTANCE JobLifecycle WITH
    status <- [j \in Jobs |-> [state |-> job[j].state, attempts |-> job[j].attempts,
                               cancel |-> job[j].cancel]]
Lifecycle == Contract!Spec

\* While a process stays up and nothing stalls or fails, every admitted job
\* gets its verdict or is cancelled (run_until_shutdown never stops claiming).
Drains == \A j \in Jobs : job[j].state \in Outstanding ~> job[j].state \in Terminal

\* A row whose lease has expired is taken back when the next process starts
\* (bin/worker.rs: recover_expired_leases before the loops).
RecoveredAtNextStart ==
    \A j \in Jobs :
        (j \in Expired /\ \E w \in Workers : proc[w] = "off") ~> job[j].state # "running"

\* ARCHITECTURE.md:44 says row locking and SKIP LOCKED enable "retry and crash
\* recovery": a claimed job does not stay running for ever when workers restart.
CrashRecovered == \A j \in Jobs : job[j].state = "running" ~> job[j].state # "running"
=============================================================================
