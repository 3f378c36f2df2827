-------------------------- MODULE CompileQueueProofs --------------------------
(***************************************************************************)
(* Proofs about the compile queue.                                          *)
(*                                                                         *)
(* Every invariant of the table speaks of one row at a time, and so does    *)
(* the contract JobLifecycle.  The proofs therefore go in two stages: first *)
(* that any step of the queue moves every row by one of a few row moves     *)
(* (RowsMove), then that each row move keeps what is claimed of a row.      *)
(***************************************************************************)
EXTENDS CompileQueueProperties, FiniteSetTheorems, TLAPS

(* The row moves *)

Inserted(j) ==
    /\ job[j].state = "absent"
    /\ \E c \in Nat : job'[j] = [Absent EXCEPT !.state = "queued", !.created = c,
                                  !.build = IF j \in V2Jobs THEN "queued" ELSE "none"]

Claimed(j) ==
    /\ job[j].state = "queued"
    /\ \E w \in Workers :
          job'[j] = [job[j] EXCEPT !.state = "running", !.worker = w, !.lease = "live",
                                   !.attempts = job[j].attempts + 1,
                                   !.build = IF j \in V2Jobs THEN "running" ELSE job[j].build]

Aged(j) == job[j].lease = "live" /\ job'[j] = [job[j] EXCEPT !.lease = "expired"]

Asked(j) ==
    \/ /\ job[j].state = "queued"
       /\ job'[j] = [job[j] EXCEPT !.state = "cancelled", !.cancel = TRUE]
    \/ /\ job[j].state = "running"
       /\ job'[j] = [job[j] EXCEPT !.cancel = TRUE]

\* Where the source of a finished row comes from.
SourceOf(j, s) ==
    \/ s = NoJob
    \/ s = job[j].source
    \/ \E l \in Loops : loop[l].pc # "idle" /\ loop[l].job = j /\ s = loop[l].cached

Stopped(j) ==
    /\ job[j].state = "running" /\ job[j].cancel
    /\ \E s \in Jobs \cup {NoJob} :
          SourceOf(j, s) /\ job'[j] = Finished(job[j], "cancelled", s)

Returned(j) ==
    /\ job[j].state = "running" /\ ~ job[j].cancel /\ job[j].attempts < MaxAttempts
    /\ job'[j] = Requeued(job[j])

Decided(j) ==
    /\ job[j].state = "running" /\ ~ job[j].cancel
    /\ \E v \in Verdicts, s \in Jobs \cup {NoJob}, b \in {"none", "queued", "running", "succeeded", "failed"} :
          /\ SourceOf(j, s)
          /\ b = IF j \notin V2Jobs THEN job[j].build
                 ELSE IF v = "succeeded" THEN "succeeded" ELSE "failed"
          /\ job'[j] = [Finished(job[j], v, s) EXCEPT !.build = b]

\* The moves of every transaction but a claim.
QuietMove(j) ==
    \/ job'[j] = job[j]
    \/ Inserted(j) \/ Aged(j) \/ Asked(j)
    \/ Stopped(j) \/ Returned(j) \/ Decided(j)

RowMove(j) == QuietMove(j) \/ Claimed(j)

-----------------------------------------------------------------------------
(* The inductive invariant *)

\* A row that was never inserted is blank; a queued one has an attempt left; a
\* V2 row that was inserted has its build.
RowsConsistent ==
    \A j \in Jobs :
        /\ job[j].state = "absent" => job[j] = Absent
        /\ job[j].state = "queued" => job[j].attempts < MaxAttempts
        /\ (j \in V2Jobs /\ job[j].state # "absent") => job[j].build # "none"

\* A loop inside run_once works on a job.
LoopsBusy == \A l \in Loops : loop[l].pc # "idle" => loop[l].job \in Jobs

QueueInv == TypeOK /\ RowsConsistent /\ LoopsBusy /\ VerdictReachesBuild

\* The next admission has a number.
LEMMA ArrivalType == Arrival \in Nat
BY QueueAssumption, FS_Subset, FS_CardinalityType DEF Arrival, Admitted

\* Admission makes an absent row a fresh queued one.
LEMMA FreshRow ==
    ASSUME NEW j \in Jobs, job[j].state = "absent", job'[j] = Fresh(j)
    PROVE  Inserted(j)
BY ArrivalType DEF Inserted, Fresh

\* finalize_v2_build after a table whose rows have moved.
LEMMA FinalizedMoves ==
    ASSUME NEW table, NEW J \in SUBSET Jobs, NEW N \in Activations(J),
           job' = Finalized(table, J, N)
    PROVE  \A j \in Jobs :
              /\ j \in N => Inserted(j)
              /\ (j \notin N /\ j \in J /\ j \in V2Jobs) =>
                    job'[j] = [table[j] EXCEPT !.build =
                                 IF table[j].state = "succeeded" THEN "succeeded" ELSE "failed"]
              /\ (j \notin N /\ ~ (j \in J /\ j \in V2Jobs)) => job'[j] = table[j]
<1> SUFFICES ASSUME NEW j \in Jobs
             PROVE  /\ j \in N => Inserted(j)
                    /\ (j \notin N /\ j \in J /\ j \in V2Jobs) =>
                          job'[j] = [table[j] EXCEPT !.build =
                                       IF table[j].state = "succeeded" THEN "succeeded" ELSE "failed"]
                    /\ (j \notin N /\ ~ (j \in J /\ j \in V2Jobs)) => job'[j] = table[j]
    OBVIOUS
<1>1. j \in N => job'[j] = Fresh(j) /\ job[j].state = "absent"
    BY DEF Finalized, Activations, Admitted
<1>2. j \in N => Inserted(j)
    BY <1>1, FreshRow
<1> QED BY <1>2 DEF Finalized

\* A step touches the table as a whole, and every row by a row move.
TableMoves == job' = [j \in Jobs |-> job'[j]] /\ \A j \in Jobs : RowMove(j)
QuietStep == job' = [j \in Jobs |-> job'[j]] /\ \A j \in Jobs : QuietMove(j)

\* A step that leaves the table alone is quiet.
LEMMA TableKept == ASSUME TypeOK, UNCHANGED job PROVE QuietStep
BY DEF QuietStep, QuietMove, TypeOK

\* A loop that owns a job works on a running row.
LEMMA OwnedIsRunning ==
    ASSUME QueueInv, NEW l \in Loops, loop[l].pc # "idle"
    PROVE  /\ loop[l].job \in Jobs
           /\ Owns(l) => job[loop[l].job].state = "running"
BY DEF QueueInv, LoopsBusy, Owns

\* The one transaction behind every verdict of a worker.
LEMMA SettleMoves ==
    ASSUME QueueInv, NEW l \in Loops, loop[l].pc # "idle",
           NEW v \in Verdicts, NEW s \in Jobs \cup {NoJob},
           s = NoJob \/ s = loop[l].cached,
           Settle(l, v, s)
    PROVE  QuietStep
<1> DEFINE o == loop[l].job
           J == {o}
           table == [job EXCEPT ![o] = Finished(@, v, s)]
<1>1. o \in Jobs /\ job[o].state = "running" /\ ~ job[o].cancel
    BY OwnedIsRunning DEF Settle
<1>2. PICK N \in Activations(J) : job' = Finalized(table, J, N)
    BY DEF Settle
<1>5. J \in SUBSET Jobs /\ \A j : j \in J <=> j = o
    BY <1>1
<1>6. \A j \in Jobs : table[j] = IF j = o THEN Finished(job[j], v, s) ELSE job[j]
    BY <1>1 DEF QueueInv, TypeOK
<1> HIDE DEF table, J
<1>7. \A j \in Jobs :
        /\ j \in N => Inserted(j)
        /\ (j \notin N /\ j \in J /\ j \in V2Jobs) =>
              job'[j] = [table[j] EXCEPT !.build =
                           IF table[j].state = "succeeded" THEN "succeeded" ELSE "failed"]
        /\ (j \notin N /\ ~ (j \in J /\ j \in V2Jobs)) => job'[j] = table[j]
    BY <1>2, <1>5, FinalizedMoves
<1>3. job' = [j \in Jobs |-> job'[j]]
    BY <1>2 DEF Finalized
<1>4. ASSUME NEW j \in Jobs PROVE QuietMove(j)
    <2>1. CASE j \in N
        BY <1>1, <1>5, <1>7, <2>1 DEF QuietMove
    <2>2. CASE j \notin N /\ j # o
        <3>1. job'[j] = table[j]
            BY <1>1, <1>5, <1>7, <2>2
        <3>2. table[j] = job[j]
            BY <1>6, <2>2
        <3> QED BY <3>1, <3>2 DEF QuietMove
    <2>3. CASE j \notin N /\ j = o
        <3>1. table[j] = Finished(job[j], v, s)
            BY <1>6, <2>3
        <3>2. table[j].state = v
            BY <3>1, <1>1, <2>3 DEF Finished, QueueInv, TypeOK, Row
        <3>3. job[j] \in Row
            BY DEF QueueInv, TypeOK
        <3>4. SourceOf(j, s)
            BY <2>3 DEF SourceOf
        <3>5. CASE j \in V2Jobs
            <4> DEFINE b == IF v = "succeeded" THEN "succeeded" ELSE "failed"
            <4>1. job'[j] = [table[j] EXCEPT !.build = b]
                BY <1>5, <1>7, <2>3, <3>2, <3>5
            <4> QED BY <4>1, <3>1, <3>4, <3>5, <1>1, <2>3 DEF QuietMove, Decided
        <3>6. CASE j \notin V2Jobs
            <4>1. job'[j] = table[j]
                BY <1>5, <1>7, <2>3, <3>6
            <4>2. job'[j] = [Finished(job[j], v, s) EXCEPT !.build = job[j].build]
                BY <4>1, <3>1, <3>3 DEF Finished, Row
            <4>3. job[j].build \in {"none", "queued", "running", "succeeded", "failed"}
                BY <3>3 DEF Row
            <4> QED BY <4>2, <4>3, <3>4, <3>6, <1>1, <2>3 DEF QuietMove, Decided
        <3> QED BY <3>5, <3>6
    <2> QED BY <2>1, <2>2, <2>3
<1> QED BY <1>3, <1>4 DEF QuietStep

\* Recovery at the start of a process.
LEMMA StartMoves ==
    ASSUME QueueInv, NEW w \in Workers, Start(w)
    PROVE  QuietStep
<1> DEFINE swept == [j \in Jobs |-> IF j \in Expired THEN RecoveredRow(job[j]) ELSE job[j]]
           unsettled == {j \in V2Jobs : /\ swept[j].state = "failed"
                                        /\ swept[j].build \in {"queued", "running"}}
<1>1. PICK N \in Activations(unsettled) : job' = Finalized(swept, unsettled, N)
    BY DEF Start
<1>2. job' = [j \in Jobs |-> job'[j]]
    BY <1>1 DEF Finalized
<1>3. unsettled \in SUBSET Jobs
    BY DEF V2Jobs
<1>5. \A j \in Jobs :
        /\ swept[j] = IF j \in Expired THEN RecoveredRow(job[j]) ELSE job[j]
        /\ j \in unsettled <=> /\ j \in V2Jobs
                              /\ swept[j].state = "failed"
                              /\ swept[j].build \in {"queued", "running"}
    BY DEF V2Jobs
<1> HIDE DEF swept, unsettled
<1>7. \A j \in Jobs :
        /\ j \in N => Inserted(j)
        /\ (j \notin N /\ j \in unsettled /\ j \in V2Jobs) =>
              job'[j] = [swept[j] EXCEPT !.build =
                           IF swept[j].state = "succeeded" THEN "succeeded" ELSE "failed"]
        /\ (j \notin N /\ ~ (j \in unsettled /\ j \in V2Jobs)) => job'[j] = swept[j]
    BY <1>1, <1>3, FinalizedMoves
<1>4. ASSUME NEW j \in Jobs PROVE QuietMove(j)
    <2>0. job[j] \in Row /\ QueueInv /\ swept[j] = IF j \in Expired THEN RecoveredRow(job[j]) ELSE job[j]
        BY <1>5 DEF QueueInv, TypeOK
    <2>1. CASE j \in N
        BY <1>7, <2>1 DEF QuietMove
    <2>2. CASE j \notin N /\ j \notin Expired
        <3>1. swept[j] = job[j]
            BY <2>0, <2>2
        <3>2. j \notin unsettled
            BY <3>1, <2>0, <1>5 DEF QueueInv, VerdictReachesBuild
        <3>3. job'[j] = swept[j]
            BY <3>2, <1>7, <2>2
        <3> QED BY <3>1, <3>3 DEF QuietMove
    <2>3. CASE j \notin N /\ j \in Expired
        <3>0. job[j].state = "running" /\ swept[j] = RecoveredRow(job[j]) /\ job[j].attempts \in 0 .. MaxAttempts
              /\ job[j].cancel \in BOOLEAN /\ job[j].source \in Jobs \cup {NoJob}
            BY <2>0, <2>3 DEF Expired, Running, Row
        <3>s. SourceOf(j, job[j].source)
            BY DEF SourceOf
        <3>1. CASE job[j].cancel
            <4>1. swept[j] = Finished(job[j], "cancelled", job[j].source)
                BY <3>0, <3>1 DEF RecoveredRow
            <4>2. j \notin unsettled
                BY <4>1, <2>0, <1>5 DEF Finished, Row
            <4>3. job'[j] = swept[j]
                BY <4>2, <1>7, <2>3
            <4> QED BY <4>1, <4>3, <3>0, <3>1, <3>s DEF QuietMove, Stopped
        <3>2. CASE ~ job[j].cancel /\ job[j].attempts < MaxAttempts
            <4>1. swept[j] = Requeued(job[j])
                BY <3>0, <3>2, QueueAssumption DEF RecoveredRow
            <4>2. j \notin unsettled
                BY <4>1, <2>0, <1>5 DEF Requeued, Row
            <4>3. job'[j] = swept[j]
                BY <4>2, <1>7, <2>3
            <4> QED BY <4>1, <4>3, <3>0, <3>2 DEF QuietMove, Returned
        <3>3. CASE ~ job[j].cancel /\ job[j].attempts >= MaxAttempts
            <4>1. swept[j] = Finished(job[j], "failed", job[j].source)
                BY <3>0, <3>3, QueueAssumption DEF RecoveredRow
            <4>2. swept[j].state = "failed" /\ swept[j].build = job[j].build
                BY <4>1, <2>0 DEF Finished, Row
            <4>3. CASE j \in V2Jobs
                <5>1. job[j].build \in {"queued", "running"}
                    BY <4>3, <2>0, <3>0 DEF QueueInv, VerdictReachesBuild, RowsConsistent, Row
                <5>2. job'[j] = [swept[j] EXCEPT !.build = "failed"]
                    BY <5>1, <4>2, <4>3, <1>5, <1>7, <2>3
                <5> QED BY <5>2, <4>1, <4>3, <3>0, <3>3, <3>s DEF QuietMove, Decided, Verdicts
            <4>4. CASE j \notin V2Jobs
                <5>1. job'[j] = swept[j]
                    BY <4>4, <1>7, <2>3
                <5>2. job'[j] = [Finished(job[j], "failed", job[j].source) EXCEPT !.build = job[j].build]
                    BY <5>1, <4>1, <2>0 DEF Finished, Row
                <5>3. job[j].build \in {"none", "queued", "running", "succeeded", "failed"}
                    BY <2>0 DEF Row
                <5> QED BY <5>2, <5>3, <4>4, <3>0, <3>3, <3>s DEF QuietMove, Decided, Verdicts
            <4> QED BY <4>3, <4>4
        <3> QED BY <3>0, <3>1, <3>2, <3>3, QueueAssumption
    <2> QED BY <2>1, <2>2, <2>3
<1> QED BY <1>2, <1>4 DEF QuietStep

\* Clients and the passing of time move one row, quietly.
LEMMA ClientMoves ==
    ASSUME QueueInv, NEW k \in Jobs, Client(k) \/ Expire(k)
    PROVE  QuietStep
<1>1. \A j \in Jobs \ {k} : job'[j] = job[j]
    BY DEF Client, Enqueue, EnqueueBuild, RequestCancellation, Expire, QueueInv, TypeOK
<1>2. job' = [j \in Jobs |-> job'[j]]
    BY DEF Client, Enqueue, EnqueueBuild, RequestCancellation, Expire, QueueInv, TypeOK
<1>3. job \in [Jobs -> Row]
    BY DEF QueueInv, TypeOK
<1>4. QuietMove(k)
    <2>1. CASE Enqueue(k) \/ EnqueueBuild(k)
        <3>1. job[k].state = "absent" /\ job'[k] = Fresh(k)
            BY <1>3, <2>1 DEF Enqueue, EnqueueBuild, Admitted
        <3> QED BY <3>1, FreshRow DEF QuietMove
    <2>2. CASE RequestCancellation(k)
        BY <1>3, <2>2 DEF RequestCancellation, Outstanding, QuietMove, Asked
    <2>3. CASE Expire(k)
        BY <1>3, <2>3 DEF Expire, QuietMove, Aged
    <2> QED BY <2>1, <2>2, <2>3 DEF Client
<1> QED BY <1>1, <1>2, <1>4 DEF QuietStep, QuietMove

\* A claim moves the claimed row and no other.
LEMMA ClaimMoves ==
    ASSUME QueueInv, NEW l \in Loops, NEW k \in Jobs, Claim(l, k)
    PROVE  TableMoves
<1>1. job \in [Jobs -> Row] /\ l[1] \in Workers /\ job[k].state = "queued"
    BY DEF QueueInv, TypeOK, Loops, Claim, Eligible
<1>2. job' = [j \in Jobs |-> job'[j]] /\ \A j \in Jobs \ {k} : job'[j] = job[j]
    BY <1>1 DEF Claim
<1>3. Claimed(k)
    BY <1>1 DEF Claim, Claimed
<1> QED BY <1>2, <1>3 DEF TableMoves, RowMove, QuietMove

\* A completion that honours a cancellation request, or puts the job back.
LEMMA OwnedRowMoves ==
    ASSUME QueueInv, NEW l \in Loops, CompleteCancelled(l) \/ InfraRequeue(l)
    PROVE  QuietStep
<1> DEFINE o == loop[l].job
<1>1. o \in Jobs /\ job[o].state = "running"
    BY OwnedIsRunning DEF CompleteCancelled, InfraRequeue, At
<1>2. job \in [Jobs -> Row]
    BY DEF QueueInv, TypeOK
<1>3. CASE CompleteCancelled(l)
    <2>1. job' = [job EXCEPT ![o] = Finished(job[o], "cancelled", NoJob)] /\ job[o].cancel
        BY <1>2, <1>3 DEF CompleteCancelled
    <2>2. Stopped(o)
        BY <1>1, <1>2, <2>1 DEF Stopped, SourceOf
    <2> QED BY <1>1, <1>2, <2>1, <2>2 DEF QuietStep, QuietMove
<1>4. CASE InfraRequeue(l)
    <2>1. /\ job' = [job EXCEPT ![o] = Requeued(job[o])]
          /\ ~ job[o].cancel /\ job[o].attempts < MaxAttempts
        BY <1>2, <1>4 DEF InfraRequeue
    <2>2. Returned(o)
        BY <1>1, <1>2, <2>1 DEF Returned
    <2> QED BY <1>1, <1>2, <2>1, <2>2 DEF QuietStep, QuietMove
<1> QED BY <1>3, <1>4

\* A step of the queue that is not a claim makes only quiet row moves.
LEMMA RowsMoveQuietly ==
    ASSUME QueueInv, [Next]_vars
    PROVE  QuietStep \/ \E l \in Loops, j \in Jobs : Claim(l, j)
<1> DEFINE Claiming == \E l \in Loops, j \in Jobs : Claim(l, j)
<1> USE DEF QueueInv
<1>1. ASSUME NEW j \in Jobs, Client(j) \/ Expire(j) PROVE QuietStep
    BY <1>1, ClientMoves
<1>2. ASSUME NEW w \in Workers, Process(w) PROVE QuietStep
    <2>1. CASE Start(w)
        BY <2>1, StartMoves
    <2>2. CASE Crash(w) \/ RequestShutdown(w) \/ Exit(w)
        BY <2>2, TableKept DEF Crash, RequestShutdown, Exit
    <2> QED BY <1>2, <2>1, <2>2 DEF Process
<1>3. ASSUME NEW l \in Loops, LoopStep(l) PROVE QuietStep \/ Claiming
    <2>1. CASE \E j \in Jobs : Claim(l, j)
        BY <2>1
    <2>2. CASE LookUp(l) \/ Verified(l) \/ Evict(l) \/ RenewalLost(l) \/ Refused(l) \/ HitRefused(l)
        BY <2>2, TableKept DEF LookUp, Verified, Evict, RenewalLost, Refused, HitRefused
    <2>3. ASSUME NEW pc \in {"commit", "fail", "infra"}, Executed(l, pc) PROVE QuietStep
        BY <2>3, TableKept DEF Executed
    <2>4. CASE CompleteCancelled(l) \/ InfraRequeue(l)
        BY <2>4, OwnedRowMoves
    <2>5. CASE CompleteSuccess(l)
        <3>1. loop[l].pc # "idle" /\ Settle(l, "succeeded", NoJob)
            BY <2>5 DEF CompleteSuccess, At
        <3> QED BY <3>1, SettleMoves DEF Verdicts
    <2>6. CASE CompleteCachedSuccess(l)
        <3>1. /\ loop[l].pc # "idle" /\ Settle(l, "succeeded", loop[l].cached)
              /\ loop[l].cached \in Jobs \cup {NoJob}
            BY <2>6 DEF CompleteCachedSuccess, At, TypeOK, LoopState
        <3> QED BY <3>1, SettleMoves DEF Verdicts
    <2>7. ASSUME NEW state \in {"failed", "timed_out"}, CompleteFailure(l, state) PROVE QuietStep
        <3>1. loop[l].pc # "idle" /\ Settle(l, state, NoJob)
            BY <2>7 DEF CompleteFailure, At
        <3> QED BY <3>1, SettleMoves DEF Verdicts
    <2>8. CASE InfraExhausted(l)
        <3>1. loop[l].pc # "idle" /\ Settle(l, "failed", NoJob)
            BY <2>8 DEF InfraExhausted, At
        <3> QED BY <3>1, SettleMoves DEF Verdicts
    <2> QED BY <1>3, <2>1, <2>2, <2>3, <2>4, <2>5, <2>6, <2>7, <2>8 DEF LoopStep
<1>4. ASSUME NEW l \in Loops, Abandon(l) \/ CacheError(l) PROVE QuietStep
    BY <1>4, TableKept DEF Abandon, CacheError
<1>5. CASE UNCHANGED vars
    BY <1>5, TableKept DEF vars
<1> QED BY <1>1, <1>2, <1>3, <1>4, <1>5 DEF Next

\* Every step of the queue moves each row by a row move.
LEMMA RowsMove ==
    ASSUME QueueInv, [Next]_vars
    PROVE  TableMoves
BY RowsMoveQuietly, ClaimMoves DEF QuietStep, TableMoves, RowMove

-----------------------------------------------------------------------------
(* The invariant is inductive *)

\* The empty table, with every worker off, satisfies the invariant.
LEMMA QueueInvInit == Init => QueueInv
<1> SUFFICES ASSUME Init PROVE QueueInv
    OBVIOUS
<1>1. Absent \in Row /\ Idle \in LoopState
    BY QueueAssumption DEF Absent, Row, Idle, LoopState, Outstanding, Terminal, Verdicts
<1>2. TypeOK
    BY <1>1 DEF Init, TypeOK
<1>3. RowsConsistent /\ VerdictReachesBuild
    BY DEF Init, RowsConsistent, VerdictReachesBuild, Absent, V2Jobs
<1>4. LoopsBusy
    BY DEF Init, LoopsBusy, Idle
<1> QED BY <1>2, <1>3, <1>4 DEF QueueInv

\* What is claimed of one row survives each of its moves.
RowOK(j) ==
    /\ job[j] \in Row
    /\ job[j].state = "absent" => job[j] = Absent
    /\ job[j].state = "queued" => job[j].attempts < MaxAttempts
    /\ j \in V2Jobs =>
          /\ job[j].state # "absent" => job[j].build # "none"
          /\ job[j].state = "succeeded" <=> job[j].build = "succeeded"
          /\ job[j].state \in {"failed", "timed_out"} <=> job[j].build = "failed"

\* Every row move keeps a row consistent.
LEMMA RowOKMoves ==
    ASSUME NEW j \in Jobs, RowOK(j), RowMove(j)
    PROVE  RowOK(j)'
<1>0. /\ job[j] \in Row /\ MaxAttempts \in Nat
      /\ job[j].attempts \in 0 .. MaxAttempts /\ job[j].attempts \in Int
    BY QueueAssumption DEF RowOK, Row
<1>1. CASE job'[j] = job[j]
    BY <1>1 DEF RowOK
<1>2. CASE Inserted(j)
    <2>1. PICK c \in Nat :
            job'[j] = [Absent EXCEPT !.state = "queued", !.created = c,
                                     !.build = IF j \in V2Jobs THEN "queued" ELSE "none"]
        BY <1>2 DEF Inserted
    <2>2. job'[j] = [state |-> "queued", worker |-> NoWorker, lease |-> "none",
                     attempts |-> 0, cancel |-> FALSE, source |-> NoJob,
                     build |-> IF j \in V2Jobs THEN "queued" ELSE "none", created |-> c]
        BY <2>1 DEF Absent
    <2>3. job'[j] \in Row
        BY <2>2, QueueAssumption DEF Row, Outstanding
    <2>4. /\ job'[j].state = "queued" /\ job'[j].attempts = 0
          /\ j \in V2Jobs => job'[j].build = "queued"
        BY <2>2
    <2> QED BY <2>3, <2>4, QueueAssumption DEF RowOK
<1>3. CASE Claimed(j)
    <2> DEFINE n == job[j].attempts + 1
               b == IF j \in V2Jobs THEN "running" ELSE job[j].build
    <2>3. n \in 0 .. MaxAttempts /\ b \in {"none", "queued", "running", "succeeded", "failed"}
        BY <1>0, <1>3 DEF Claimed, RowOK, Row
    <2>4. PICK w \in Workers :
            job'[j] = [job[j] EXCEPT !.state = "running", !.worker = w, !.lease = "live",
                                     !.attempts = n, !.build = b]
        BY <1>3 DEF Claimed
    <2> HIDE DEF n, b
    <2>1. job'[j] \in Row
        BY <1>0, <2>3, <2>4 DEF Row, Outstanding
    <2>2. /\ job'[j].state = "running"
          /\ j \in V2Jobs => job'[j].build = "running"
        BY <1>0, <1>3 DEF Claimed, Row
    <2> QED BY <2>1, <2>2 DEF RowOK
<1>4. CASE Aged(j)
    <2>1. job'[j] \in Row
        BY <1>0, <1>4 DEF Aged, Row
    <2>2. /\ job'[j].state = job[j].state /\ job'[j].build = job[j].build
          /\ job'[j].attempts = job[j].attempts
        BY <1>0, <1>4 DEF Aged, Row
    <2>3. job[j].state # "absent"
        BY <1>4 DEF Aged, RowOK, Absent
    <2> QED BY <2>1, <2>2, <2>3 DEF RowOK
<1>5. CASE Asked(j)
    <2>1. job'[j] \in Row
        BY <1>0, <1>5 DEF Asked, Row, Terminal
    <2>2. /\ job'[j].build = job[j].build
          /\ \/ job[j].state = "queued" /\ job'[j].state = "cancelled"
             \/ job[j].state = "running" /\ job'[j].state = "running"
        BY <1>0, <1>5 DEF Asked, Row
    <2> QED BY <2>1, <2>2 DEF RowOK
<1>6. CASE Stopped(j)
    <2>3. PICK s \in Jobs \cup {NoJob} : job'[j] = Finished(job[j], "cancelled", s)
        BY <1>6 DEF Stopped
    <2>1. job'[j] \in Row
        BY <1>0, <2>3 DEF Finished, Row, Terminal
    <2>2. job'[j].build = job[j].build /\ job'[j].state = "cancelled" /\ job[j].state = "running"
        BY <1>0, <1>6 DEF Stopped, Finished, Row
    <2> QED BY <2>1, <2>2 DEF RowOK
<1>7. CASE Returned(j)
    <2>1. job'[j] \in Row
        BY <1>0, <1>7 DEF Returned, Requeued, Row, Outstanding
    <2>2. /\ job'[j].build = job[j].build /\ job'[j].state = "queued" /\ job[j].state = "running"
          /\ job'[j].attempts = job[j].attempts /\ job[j].attempts < MaxAttempts
        BY <1>0, <1>7 DEF Returned, Requeued, Row
    <2> QED BY <2>1, <2>2 DEF RowOK
<1>8. CASE Decided(j)
    <2>1. PICK v \in Verdicts, s \in Jobs \cup {NoJob},
               b \in {"none", "queued", "running", "succeeded", "failed"} :
            /\ b = IF j \notin V2Jobs THEN job[j].build
                   ELSE IF v = "succeeded" THEN "succeeded" ELSE "failed"
            /\ job'[j] = [Finished(job[j], v, s) EXCEPT !.build = b]
        BY <1>8 DEF Decided
    <2>2. job'[j] \in Row
        BY <1>0, <2>1 DEF Finished, Row, Terminal
    <2>3. job'[j].build = b /\ job'[j].state = v
        BY <1>0, <2>1 DEF Finished, Row
    <2> QED BY <2>1, <2>2, <2>3 DEF RowOK, Verdicts
<1> QED BY <1>1, <1>2, <1>3, <1>4, <1>5, <1>6, <1>7, <1>8 DEF RowMove, QuietMove

\* The invariant, row by row.
LEMMA RowsAreOK == QueueInv <=> /\ TypeOK /\ LoopsBusy
                               /\ \A j \in Jobs : RowOK(j)
<1>1. QueueInv => /\ TypeOK /\ LoopsBusy
                  /\ \A j \in Jobs : RowOK(j)
    BY DEF QueueInv, TypeOK, RowsConsistent, VerdictReachesBuild, RowOK, V2Jobs
<1>2. TypeOK /\ LoopsBusy /\ (\A j \in Jobs : RowOK(j)) => QueueInv
    BY DEF QueueInv, RowsConsistent, VerdictReachesBuild, RowOK, V2Jobs
<1> QED BY <1>1, <1>2

\* A loop only ever moves inside LoopState, and holds a job while it is busy.
\* The cached job it knows comes from the cache row of its job's key.
LoopMove(l) ==
    \/ loop'[l] = loop[l]
    \/ loop'[l].pc = "idle"
    \/ loop'[l].cached = NoJob
    \/ /\ loop[l].pc # "idle" /\ loop'[l].job = loop[l].job
       /\ loop'[l].cached \in {loop[l].cached, cache[KeyOf[loop[l].job]]}

LoopOK(l) == loop[l] \in LoopState /\ (loop[l].pc # "idle" => loop[l].job \in Jobs)

\* A loop that leaves its job is idle, and no other loop moves.
LEMMA LoopLeaves ==
    ASSUME TypeOK, LoopsBusy, NEW k \in Loops, Leave(k), NEW l \in Loops
    PROVE  loop' = [m \in Loops |-> loop'[m]] /\ LoopOK(l)' /\ LoopMove(l)
<1>1. Idle \in LoopState
    BY QueueAssumption DEF Idle, LoopState
<1>2. CASE l = k
    BY <1>1, <1>2 DEF Leave, LoopOK, LoopMove, TypeOK, Idle
<1>3. CASE l # k
    BY <1>3 DEF Leave, LoopOK, LoopMove, TypeOK, LoopsBusy
<1> QED BY <1>2, <1>3 DEF Leave, TypeOK

\* A loop that goes on keeps its job; at a cache lookup it takes the row's source.
LEMMA LoopGoes ==
    ASSUME TypeOK, LoopsBusy, NEW k \in Loops, loop[k].pc # "idle",
           NEW pc \in {"verify", "hit", "compile", "commit", "fail", "infra"},
           \/ Goto(k, pc)
           \/ loop' = [loop EXCEPT ![k].cached = cache[KeyOf[loop[k].job]], ![k].pc = pc],
           NEW l \in Loops
    PROVE  loop' = [m \in Loops |-> loop'[m]] /\ LoopOK(l)' /\ LoopMove(l)
<1> DEFINE hit == cache[KeyOf[loop[k].job]]
<1>1. loop[k] \in LoopState /\ loop[k].job \in Jobs
    BY DEF TypeOK, LoopsBusy
<1>4. hit \in Jobs \cup {NoJob}
    BY <1>1, QueueAssumption DEF TypeOK
<1>2. CASE l = k
    <2>1. \/ loop'[k] = [loop[k] EXCEPT !.pc = pc]
          \/ loop'[k] = [loop[k] EXCEPT !.cached = hit, !.pc = pc]
        BY <1>2 DEF Goto, TypeOK
    <2> HIDE DEF hit
    <2>2. /\ loop'[k] \in LoopState /\ loop'[k].job = loop[k].job
          /\ loop'[k].cached \in {loop[k].cached, hit}
        BY <1>1, <1>4, <2>1 DEF LoopState
    <2>3. loop' = [m \in Loops |-> loop'[m]]
        BY DEF Goto, TypeOK
    <2> QED BY <1>1, <1>2, <2>2, <2>3 DEF LoopOK, LoopMove, hit
<1>3. CASE l # k
    BY <1>3 DEF Goto, LoopOK, LoopMove, TypeOK, LoopsBusy
<1> QED BY <1>2, <1>3 DEF Goto, TypeOK

\* A step that leaves the loops alone keeps them well formed.
LEMMA LoopKept ==
    ASSUME TypeOK, LoopsBusy, UNCHANGED loop, NEW l \in Loops
    PROVE  loop' = [m \in Loops |-> loop'[m]] /\ LoopOK(l)' /\ LoopMove(l)
BY DEF LoopOK, LoopMove, TypeOK, LoopsBusy

\* A claim gives an idle loop a job within the budget of attempts.
LEMMA LoopClaims ==
    ASSUME QueueInv, NEW k \in Loops, NEW j \in Jobs, Claim(k, j), NEW l \in Loops
    PROVE  loop' = [m \in Loops |-> loop'[m]] /\ LoopOK(l)' /\ LoopMove(l)
<1> DEFINE n == job[j].attempts + 1
<1>1. n \in 0 .. MaxAttempts
    <2>1. job[j].attempts \in 0 .. MaxAttempts /\ job[j].attempts < MaxAttempts
        BY DEF QueueInv, TypeOK, Row, RowsConsistent, Claim, Eligible
    <2> QED BY <2>1, QueueAssumption
<1>2. loop' = [loop EXCEPT ![k] = [pc |-> "lookup", job |-> j, attempt |-> n, cached |-> NoJob]]
    BY DEF Claim
<1> HIDE DEF n
<1>3. CASE l = k
    BY <1>1, <1>2, <1>3 DEF LoopOK, LoopMove, LoopState, QueueInv, TypeOK
<1>4. CASE l # k
    BY <1>2, <1>4 DEF LoopOK, LoopMove, QueueInv, TypeOK, LoopsBusy
<1> QED BY <1>2, <1>3, <1>4 DEF QueueInv, TypeOK

\* Every step of the queue keeps every loop well formed.
LEMMA LoopsMove ==
    ASSUME QueueInv, [Next]_vars, NEW l \in Loops
    PROVE  loop' = [m \in Loops |-> loop'[m]] /\ LoopOK(l)' /\ LoopMove(l)
<1> DEFINE Goal == loop' = [m \in Loops |-> loop'[m]] /\ LoopOK(l)' /\ LoopMove(l)
<1> USE DEF QueueInv
<1>1. ASSUME NEW j \in Jobs, Client(j) \/ Expire(j) PROVE Goal
    BY <1>1, LoopKept DEF Client, Enqueue, EnqueueBuild, RequestCancellation, Expire
<1>2. ASSUME NEW w \in Workers, Process(w) PROVE Goal
    <2>1. CASE Start(w) \/ RequestShutdown(w) \/ Exit(w)
        BY <2>1, LoopKept DEF Start, RequestShutdown, Exit
    <2>2. CASE Crash(w)
        <3>1. Idle \in LoopState /\ Idle.pc = "idle"
            BY QueueAssumption DEF Idle, LoopState
        <3>2. loop' = Silenced(w)
            BY <2>2 DEF Crash
        <3>3. loop' = [m \in Loops |-> loop'[m]] /\ (loop'[l] = Idle \/ loop'[l] = loop[l])
            BY <3>2 DEF Silenced
        <3> QED BY <3>1, <3>3 DEF LoopOK, LoopMove, TypeOK, LoopsBusy
    <2> QED BY <1>2, <2>1, <2>2 DEF Process
<1>3. ASSUME NEW k \in Loops, LoopStep(k) PROVE Goal
    <2>1. ASSUME NEW j \in Jobs, Claim(k, j) PROVE Goal
        BY <2>1, LoopClaims
    <2>2. CASE LookUp(k)
        <3>1. /\ loop[k].pc # "idle"
              /\ \E pc \in {"compile", "verify"} :
                    loop' = [loop EXCEPT ![k].cached = cache[KeyOf[loop[k].job]], ![k].pc = pc]
            BY <2>2 DEF LookUp, At
        <3> QED BY <3>1, LoopGoes
    <2>3. CASE Verified(k) \/ Evict(k) \/ RenewalLost(k) \/ HitRefused(k)
        <3>1. loop[k].pc # "idle" /\ \E pc \in {"hit", "compile", "infra"} : Goto(k, pc)
            BY <2>3 DEF Verified, Evict, RenewalLost, HitRefused, At
        <3> QED BY <3>1, LoopGoes
    <2>4. ASSUME NEW pc \in {"commit", "fail", "infra"}, Executed(k, pc) PROVE Goal
        <3>1. loop[k].pc # "idle" /\ Goto(k, pc)
            BY <2>4 DEF Executed, At
        <3> QED BY <3>1, LoopGoes
    <2>5. CASE \/ Refused(k) \/ CompleteCancelled(k) \/ CompleteSuccess(k)
               \/ CompleteCachedSuccess(k) \/ InfraExhausted(k) \/ InfraRequeue(k)
        <3>1. Leave(k)
            BY <2>5 DEF Refused, CompleteCancelled, CompleteSuccess, CompleteCachedSuccess,
                        InfraExhausted, InfraRequeue, Settle
        <3> QED BY <3>1, LoopLeaves
    <2>6. ASSUME NEW state \in {"failed", "timed_out"}, CompleteFailure(k, state) PROVE Goal
        BY <2>6, LoopLeaves DEF CompleteFailure, Settle
    <2> QED BY <1>3, <2>1, <2>2, <2>3, <2>4, <2>5, <2>6 DEF LoopStep
<1>4. ASSUME NEW k \in Loops, Abandon(k) \/ CacheError(k) PROVE Goal
    <2>1. CASE Abandon(k)
        BY <2>1, LoopLeaves DEF Abandon
    <2>2. CASE CacheError(k)
        <3>1. loop[k].pc # "idle" /\ Goto(k, "infra")
            BY <2>2 DEF CacheError, At
        <3> QED BY <3>1, LoopGoes
    <2> QED BY <1>4, <2>1, <2>2
<1>5. CASE UNCHANGED vars
    BY <1>5, LoopKept DEF vars
<1> QED BY <1>1, <1>2, <1>3, <1>4, <1>5 DEF Next

\* The cache and the processes keep their types.
LEMMA CacheMoves ==
    ASSUME QueueInv, [Next]_vars
    PROVE  /\ cache' \in [Keys -> Jobs \cup {NoJob}]
           /\ proc' \in [Workers -> {"off", "up", "stopping", "dead"}]
<1> USE DEF QueueInv, TypeOK
<1> DEFINE Goal == /\ cache' \in [Keys -> Jobs \cup {NoJob}]
                   /\ proc' \in [Workers -> {"off", "up", "stopping", "dead"}]
<1>1. ASSUME NEW j \in Jobs, Client(j) \/ Expire(j) PROVE Goal
    BY <1>1 DEF Client, Enqueue, EnqueueBuild, RequestCancellation, Expire
<1>2. ASSUME NEW w \in Workers, Process(w) PROVE Goal
    BY <1>2 DEF Process, Start, Crash, RequestShutdown, Exit
<1>3. ASSUME NEW l \in Loops, LoopStep(l) PROVE Goal
    <2>1. CASE CompleteSuccess(l)
        <3>1. loop[l].job \in Jobs /\ UNCHANGED proc
            BY <2>1, OwnedIsRunning DEF CompleteSuccess, At, Settle
        <3> QED BY <2>1, <3>1, QueueAssumption DEF CompleteSuccess
    <2>2. CASE Evict(l)
        BY <2>2 DEF Evict
    <2>3. CASE ~ CompleteSuccess(l) /\ ~ Evict(l)
        <3>1. UNCHANGED <<cache, proc>>
            BY <1>3, <2>3 DEF LoopStep, Claim, LookUp, Verified, Executed, RenewalLost, Refused,
                HitRefused, CompleteCancelled, CompleteCachedSuccess, CompleteFailure,
                InfraExhausted, InfraRequeue, Settle
        <3> QED BY <3>1
    <2> QED BY <2>1, <2>2, <2>3
<1>4. ASSUME NEW l \in Loops, Abandon(l) \/ CacheError(l) PROVE Goal
    BY <1>4 DEF Abandon, CacheError
<1>5. CASE UNCHANGED vars
    BY <1>5 DEF vars
<1> QED BY <1>1, <1>2, <1>3, <1>4, <1>5 DEF Next

\* The invariant is inductive.
LEMMA QueueInvNext == QueueInv /\ [Next]_vars => QueueInv'
<1> SUFFICES ASSUME QueueInv, [Next]_vars PROVE QueueInv'
    OBVIOUS
<1>1. job' = [j \in Jobs |-> job'[j]] /\ \A j \in Jobs : RowOK(j)'
    BY RowsMove, RowsAreOK, RowOKMoves DEF TableMoves
<1>2. loop' \in [Loops -> LoopState] /\ LoopsBusy'
    <2>1. \A l \in Loops : loop' = [m \in Loops |-> loop'[m]] /\ LoopOK(l)' /\ LoopMove(l)
        BY LoopsMove
    <2>2. Loops # {}
        <3>1. PICK w \in Workers, n \in Slots : TRUE
            BY QueueAssumption
        <3>2. <<w, n>> \in Loops
            BY <3>1 DEF Loops
        <3> QED BY <3>2
    <2> QED BY <2>1, <2>2 DEF LoopOK, LoopsBusy
<1>3. job' \in [Jobs -> Row]
    BY <1>1 DEF RowOK
<1>4. TypeOK'
    BY <1>2, <1>3, CacheMoves DEF TypeOK
<1>5. RowsConsistent' /\ VerdictReachesBuild'
    BY <1>1 DEF RowOK, RowsConsistent, VerdictReachesBuild, V2Jobs
<1> QED BY <1>2, <1>4, <1>5 DEF QueueInv

\* The invariant holds in every reachable state.
LEMMA QueueInvAlways == Spec => []QueueInv
BY QueueInvInit, QueueInvNext, PTL DEF Spec

\* The columns of every row, the cache, the processes and the loops keep their
\* types; the retry budget bounds attempts (compile_queue.rs, claim and
\* complete_infrastructure_failure).
THEOREM QueueTypeCorrect == Spec => []TypeOK
<1>1. QueueInv => TypeOK
    BY DEF QueueInv
<1> QED BY <1>1, QueueInvAlways, PTL

\* The verdict of a job reaches the build it compiles, on every path.
THEOREM VerdictAlwaysReachesBuild == Spec => []VerdictReachesBuild
<1>1. QueueInv => VerdictReachesBuild
    BY DEF QueueInv
<1> QED BY <1>1, QueueInvAlways, PTL

-----------------------------------------------------------------------------
(* The queue implements the contract of a job's life *)

StatusOf(j) == [state |-> job[j].state, attempts |-> job[j].attempts, cancel |-> job[j].cancel]

\* A consistent row is read as a status of the contract.
LEMMA StatusType ==
    ASSUME NEW j \in Jobs, RowOK(j)
    PROVE  /\ StatusOf(j) \in Contract!Status
           /\ StatusOf(j).state = job[j].state
           /\ StatusOf(j).attempts = job[j].attempts
           /\ StatusOf(j).cancel = job[j].cancel
BY DEF RowOK, Row, StatusOf, Contract!Status, Contract!Verdicts, Outstanding, Terminal, Verdicts

\* The contract's moves, field by field.
LEMMA ContractMoves ==
    ASSUME NEW s \in Contract!Status, NEW t \in Contract!Status,
           \/ /\ s.state = "absent" /\ s.attempts = 0 /\ ~ s.cancel
              /\ t.state = "queued" /\ t.attempts = 0 /\ ~ t.cancel
           \/ /\ s.state = "queued" /\ s.attempts < MaxAttempts
              /\ t.state = "running" /\ t.attempts = s.attempts + 1 /\ t.cancel = s.cancel
           \/ /\ s.state = "running" /\ ~ s.cancel /\ s.attempts < MaxAttempts
              /\ t.state = "queued" /\ t.attempts = s.attempts /\ ~ t.cancel
           \/ /\ s.state = "running" /\ ~ s.cancel
              /\ t.state \in Verdicts /\ t.attempts = s.attempts /\ ~ t.cancel
           \/ /\ s.state = "queued"
              /\ t.state = "cancelled" /\ t.attempts = s.attempts /\ t.cancel
           \/ /\ s.state = "running"
              /\ t.state = "running" /\ t.attempts = s.attempts /\ t.cancel
           \/ /\ s.state = "running" /\ s.cancel
              /\ t.state = "cancelled" /\ t.attempts = s.attempts /\ t.cancel
    PROVE  Contract!Move(s, t)
<1>1. CASE /\ s.state = "absent" /\ s.attempts = 0 /\ ~ s.cancel
             /\ t.state = "queued" /\ t.attempts = 0 /\ ~ t.cancel
    <2>1. Contract!Admit(s, t)
        BY <1>1 DEF Contract!Admit, Contract!Status, Contract!Verdicts, Contract!Unadmitted
    <2> QED BY <2>1 DEF Contract!Move
<1>2. CASE /\ s.state = "queued" /\ s.attempts < MaxAttempts
             /\ t.state = "running" /\ t.attempts = s.attempts + 1 /\ t.cancel = s.cancel
    <2>1. Contract!Attempt(s, t)
        BY <1>2 DEF Contract!Attempt, Contract!Status, Contract!Verdicts
    <2> QED BY <2>1 DEF Contract!Move
<1>3. CASE /\ s.state = "running" /\ ~ s.cancel /\ s.attempts < MaxAttempts
             /\ t.state = "queued" /\ t.attempts = s.attempts /\ ~ t.cancel
    <2>1. Contract!Retry(s, t)
        BY <1>3 DEF Contract!Retry, Contract!Status, Contract!Verdicts
    <2> QED BY <2>1 DEF Contract!Move
<1>4. CASE /\ s.state = "running" /\ ~ s.cancel
             /\ t.state \in Verdicts /\ t.attempts = s.attempts /\ ~ t.cancel
    <2>1. Contract!Decide(s, t)
        BY <1>4 DEF Contract!Decide, Contract!Status, Contract!Verdicts, Verdicts
    <2> QED BY <2>1 DEF Contract!Move
<1>5. CASE /\ s.state = "queued"
             /\ t.state = "cancelled" /\ t.attempts = s.attempts /\ t.cancel
    <2>1. Contract!Request(s, t)
        BY <1>5 DEF Contract!Request, Contract!Status, Contract!Verdicts
    <2> QED BY <2>1 DEF Contract!Move
<1>6. CASE /\ s.state = "running"
             /\ t.state = "running" /\ t.attempts = s.attempts /\ t.cancel
    <2>1. Contract!Request(s, t)
        BY <1>6 DEF Contract!Request, Contract!Status, Contract!Verdicts
    <2> QED BY <2>1 DEF Contract!Move
<1>7. CASE /\ s.state = "running" /\ s.cancel
             /\ t.state = "cancelled" /\ t.attempts = s.attempts /\ t.cancel
    <2>1. Contract!Cancel(s, t)
        BY <1>7 DEF Contract!Cancel, Contract!Status, Contract!Verdicts
    <2> QED BY <2>1 DEF Contract!Move
<1> QED BY <1>1, <1>2, <1>3, <1>4, <1>5, <1>6, <1>7

\* A row move is read as a move of the contract, or as none.
LEMMA RowMoveIsContractMove ==
    ASSUME NEW j \in Jobs, RowOK(j), RowMove(j)
    PROVE  \/ StatusOf(j)' = StatusOf(j)
           \/ Contract!Move(StatusOf(j), StatusOf(j)')
<1>9. /\ StatusOf(j) \in Contract!Status /\ StatusOf(j)' \in Contract!Status
      /\ StatusOf(j).state = job[j].state /\ StatusOf(j)'.state = job'[j].state
      /\ StatusOf(j).attempts = job[j].attempts /\ StatusOf(j)'.attempts = job'[j].attempts
      /\ StatusOf(j).cancel = job[j].cancel /\ StatusOf(j)'.cancel = job'[j].cancel
    <2>1. RowOK(j)'
        BY RowOKMoves
    <2>2. /\ StatusOf(j)' \in Contract!Status
          /\ StatusOf(j)'.state = job'[j].state
          /\ StatusOf(j)'.attempts = job'[j].attempts
          /\ StatusOf(j)'.cancel = job'[j].cancel
        BY <2>1 DEF RowOK, Row, StatusOf, Contract!Status, Contract!Verdicts,
                    Outstanding, Terminal, Verdicts
    <2> QED BY <2>2, StatusType
<1>0. /\ job[j] \in Row /\ MaxAttempts \in Nat
      /\ job[j].attempts \in Int /\ job[j].cancel \in BOOLEAN
    BY QueueAssumption DEF RowOK, Row
<1>1. CASE job'[j] = job[j]
    BY <1>1 DEF StatusOf
<1>2. CASE Inserted(j)
    <2>1. job[j].state = "absent" /\ job[j].attempts = 0 /\ job[j].cancel = FALSE
        BY <1>2 DEF Inserted, RowOK, Absent
    <2>2. job'[j].state = "queued" /\ job'[j].attempts = 0 /\ job'[j].cancel = FALSE
        BY <1>2 DEF Inserted, Absent
    <2> QED BY <1>9, <1>0, <2>1, <2>2, ContractMoves
<1>3. CASE Claimed(j)
    <2>1. /\ job[j].state = "queued" /\ job[j].attempts < MaxAttempts
          /\ job'[j].state = "running" /\ job'[j].attempts = job[j].attempts + 1
          /\ job'[j].cancel = job[j].cancel
        BY <1>0, <1>3 DEF Claimed, RowOK, Row
    <2> QED BY <1>9, <1>0, <2>1, ContractMoves
<1>4. CASE Aged(j)
    <2>1. /\ job'[j].state = job[j].state /\ job'[j].attempts = job[j].attempts
          /\ job'[j].cancel = job[j].cancel
        BY <1>0, <1>4 DEF Aged, Row
    <2> QED BY <2>1 DEF StatusOf
<1>5. CASE Asked(j)
    <2>1. /\ job'[j].attempts = job[j].attempts /\ job'[j].cancel = TRUE
          /\ \/ job[j].state = "queued" /\ job'[j].state = "cancelled"
             \/ job[j].state = "running" /\ job'[j].state = "running"
        BY <1>0, <1>5 DEF Asked, Row
    <2> QED BY <1>9, <1>0, <2>1, ContractMoves
<1>6. CASE Stopped(j)
    <2>1. job[j].cancel = TRUE
        BY <1>0, <1>6 DEF Stopped
    <2>2. /\ job[j].state = "running" /\ job'[j].state = "cancelled"
          /\ job'[j].attempts = job[j].attempts /\ job'[j].cancel = job[j].cancel
        BY ZenonT(60), <1>0, <1>6 DEF Stopped, Finished, Row
    <2> QED BY <1>9, <1>0, <2>1, <2>2, ContractMoves
<1>7. CASE Returned(j)
    <2>1. job[j].cancel = FALSE
        BY <1>0, <1>7 DEF Returned
    <2>2. /\ job[j].state = "running" /\ job'[j].state = "queued"
          /\ job[j].attempts < MaxAttempts
          /\ job'[j].attempts = job[j].attempts /\ job'[j].cancel = job[j].cancel
        BY <1>0, <1>7 DEF Returned, Requeued, Row
    <2> QED BY <1>9, <1>0, <2>1, <2>2, ContractMoves
<1>8. CASE Decided(j)
    <2>1. job[j].cancel = FALSE
        BY <1>0, <1>8 DEF Decided
    <2>2. /\ job[j].state = "running" /\ job'[j].state \in Verdicts
          /\ job'[j].attempts = job[j].attempts /\ job'[j].cancel = job[j].cancel
        BY <1>0, <1>8 DEF Decided, Finished, Row
    <2> QED BY <1>9, <1>0, <2>1, <2>2, ContractMoves
<1> QED BY <1>1, <1>2, <1>3, <1>4, <1>5, <1>6, <1>7, <1>8 DEF RowMove, QuietMove

\* The queue implements JobLifecycle: whatever workers, crashes, recoveries and
\* retries do, a job only ever moves as its contract says.
THEOREM QueueImplementsContract == Spec => Lifecycle
<1>1. Init => Contract!Init
    BY DEF Init, Contract!Init, Contract!Unadmitted, Absent
<1>2. QueueInv /\ QueueInv' /\ [Next]_vars => [Contract!Next]_([j \in Jobs |-> StatusOf(j)])
    <2> SUFFICES ASSUME QueueInv, QueueInv', [Next]_vars PROVE Contract!Next
        BY DEF StatusOf
    <2>1. \A j \in Jobs : StatusOf(j)' = StatusOf(j) \/ Contract!Move(StatusOf(j), StatusOf(j)')
        BY RowsMove, RowsAreOK, RowMoveIsContractMove DEF TableMoves
    <2>2. \A j \in Jobs : StatusOf(j)' \in Contract!Status
        BY DEF QueueInv, TypeOK, Row, StatusOf, Contract!Status, Contract!Verdicts,
               Outstanding, Terminal, Verdicts
    <2> QED BY <2>1, <2>2 DEF Contract!Next, StatusOf
<1> QED BY <1>1, <1>2, QueueInvAlways, PTL DEF Spec, Lifecycle, Contract!Spec, StatusOf

-----------------------------------------------------------------------------
(* The bounds on running compilations *)

\* Only a claim makes a row run.
LEMMA QuietKeepsRunning ==
    ASSUME QueueInv, QuietStep
    PROVE  Running' \subseteq Running
<1>1. \A j \in Jobs : job[j] \in Row
    BY DEF QueueInv, TypeOK
<1>2. ASSUME NEW j \in Jobs, job'[j].state = "running" PROVE job[j].state = "running"
    <2>0. QuietMove(j) /\ job[j] \in Row
        BY <1>1 DEF QuietStep
    <2>1. ~ Inserted(j)
        BY <1>2 DEF Inserted, Absent
    <2>2. CASE Aged(j) \/ Asked(j)
        BY <1>2, <2>0, <2>2 DEF Aged, Asked, Row
    <2>3. CASE job'[j] = job[j] \/ Stopped(j) \/ Returned(j) \/ Decided(j)
        BY <1>2, <2>3 DEF Stopped, Returned, Decided
    <2> QED BY <2>0, <2>1, <2>2, <2>3 DEF QuietMove
<1> QED BY <1>2 DEF Running

\* The running rows can be counted.
LEMMA RunningFinite ==
    /\ IsFiniteSet(Running) /\ \A u : IsFiniteSet(RunningOf(u))
    /\ Cardinality(Running) \in Nat /\ \A u : Cardinality(RunningOf(u)) \in Nat
<1>1. Running \subseteq Jobs /\ \A u : RunningOf(u) \subseteq Jobs
    BY DEF Running, RunningOf
<1> QED BY <1>1, QueueAssumption, FS_Subset, FS_CardinalityType

\* What a claim adds to the running rows.
LEMMA ClaimRuns ==
    ASSUME QueueInv, NEW l \in Loops, NEW k \in Jobs, Claim(l, k)
    PROVE  /\ k \notin Running /\ Running' = Running \cup {k}
           /\ \A u : RunningOf(u)' = IF u = UserOf[k] THEN RunningOf(u) \cup {k} ELSE RunningOf(u)
<1>1. job \in [Jobs -> Row] /\ job[k].state = "queued"
    BY DEF QueueInv, TypeOK, Claim, Eligible
<1>2. job'[k].state = "running" /\ \A j \in Jobs \ {k} : job'[j] = job[j]
    BY <1>1 DEF Claim, Row
<1>3. k \notin Running /\ Running' = Running \cup {k}
    BY <1>1, <1>2 DEF Running
<1> QED BY <1>3 DEF RunningOf

\* The bounds on running rows are kept by every step.
LEMMA CapsNext == QueueInv /\ CapsRespected /\ [Next]_vars => CapsRespected'
<1> SUFFICES ASSUME QueueInv, CapsRespected, [Next]_vars PROVE CapsRespected'
    OBVIOUS
<1>1. CASE QuietStep
    <2>1. Running' \subseteq Running /\ \A u : RunningOf(u)' \subseteq RunningOf(u)
        BY <1>1, QuietKeepsRunning DEF RunningOf
    <2>2. /\ Cardinality(Running') <= Cardinality(Running)
          /\ Cardinality(Running') \in Nat
          /\ \A u : /\ Cardinality(RunningOf(u)') <= Cardinality(RunningOf(u))
                    /\ Cardinality(RunningOf(u)') \in Nat
        BY <2>1, RunningFinite, FS_Subset, FS_CardinalityType
    <2> QED BY <2>2, RunningFinite, QueueAssumption DEF CapsRespected
<1>2. ASSUME NEW l \in Loops, NEW k \in Jobs, Claim(l, k) PROVE CapsRespected'
    <2>1. /\ k \notin Running /\ Running' = Running \cup {k}
          /\ \A u : RunningOf(u)' = IF u = UserOf[k] THEN RunningOf(u) \cup {k} ELSE RunningOf(u)
        BY <1>2, ClaimRuns
    <2>2. /\ Cardinality(Running) < GlobalRunning
          /\ Cardinality(RunningOf(UserOf[k])) < PerUserRunning
        BY <1>2 DEF Claim, Eligible
    <2>3. Cardinality(Running') = Cardinality(Running) + 1
        BY <2>1, RunningFinite, FS_AddElement
    <2>4. k \notin RunningOf(UserOf[k])
        BY <2>1 DEF RunningOf
    <2>5. Cardinality(RunningOf(UserOf[k]) \cup {k}) = Cardinality(RunningOf(UserOf[k])) + 1
        BY <2>4, RunningFinite, FS_AddElement
    <2>6. Cardinality(Running') <= GlobalRunning
        BY <2>2, <2>3, RunningFinite, QueueAssumption
    <2>7. \A u \in Users : Cardinality(RunningOf(u)') <= PerUserRunning
        <3> TAKE u \in Users
        <3>1. CASE u = UserOf[k]
            <4>1. RunningOf(u)' = RunningOf(UserOf[k]) \cup {k}
                BY <3>1, <2>1
            <4>2. Cardinality(RunningOf(u)') = Cardinality(RunningOf(UserOf[k])) + 1
                BY <4>1, <2>5
            <4>3. Cardinality(RunningOf(UserOf[k])) \in Nat
                BY RunningFinite
            <4> QED BY <4>2, <4>3, <2>2, QueueAssumption
        <3>2. CASE u # UserOf[k]
            BY <3>2, <2>1 DEF CapsRespected
        <3> QED BY <3>1, <3>2
    <2> QED BY <2>6, <2>7 DEF CapsRespected
<1> QED BY <1>1, <1>2, RowsMoveQuietly

\* However many workers crash, recover and retry, the global and the per-user
\* bound on compilations hold (compile_queue.rs, claim).
THEOREM CapsAlwaysRespected == Spec => []CapsRespected
<1>1. Init => CapsRespected
    <2> SUFFICES ASSUME Init PROVE CapsRespected
        OBVIOUS
    <2>1. Running = {} /\ \A u : RunningOf(u) = {}
        BY DEF Init, Absent, Running, RunningOf
    <2> QED BY <2>1, FS_EmptySet, QueueAssumption DEF CapsRespected
<1> QED BY <1>1, CapsNext, QueueInvAlways, PTL DEF Spec

-----------------------------------------------------------------------------
(* The cache *)

\* The job j really compiled the key k.
Compiled(j, k) ==
    j \in Jobs /\ job[j].state = "succeeded" /\ job[j].source = NoJob /\ KeyOf[j] = k

\* The rows of the cache, the sources of finished rows, and what a loop has
\* read and not used yet.
SourcesGenuine ==
    /\ \A k \in Keys : cache[k] # NoJob => Compiled(cache[k], k)
    /\ \A j \in Jobs : job[j].source # NoJob => Compiled(job[j].source, KeyOf[j])
    /\ \A l \in Loops : (loop[l].pc # "idle" /\ loop[l].cached # NoJob)
                          => Compiled(loop[l].cached, KeyOf[loop[l].job])

\* A success is final: no row move touches it.
LEMMA CompiledForEver ==
    ASSUME QueueInv, [Next]_vars, NEW j, NEW k, Compiled(j, k)
    PROVE  Compiled(j, k)'
<1>1. j \in Jobs /\ job[j] \in Row /\ job[j].state = "succeeded"
    BY DEF Compiled, QueueInv, TypeOK
<1>2. RowMove(j)
    BY <1>1, RowsMove DEF TableMoves
<1>3. job'[j] = job[j] \/ Aged(j)
    BY <1>1, <1>2 DEF RowMove, QuietMove, Inserted, Claimed, Asked, Stopped, Returned, Decided
<1>4. job'[j].state = job[j].state /\ job'[j].source = job[j].source
    BY <1>1, <1>3 DEF Aged, Row
<1> QED BY <1>1, <1>4 DEF Compiled

\* A completion that writes the cache row really compiled.
LEMMA SuccessCompiles ==
    ASSUME QueueInv, NEW l \in Loops, CompleteSuccess(l),
           NEW o, o = loop[l].job
    PROVE  Compiled(o, KeyOf[o])'
<1> DEFINE J == {o}
           table == [job EXCEPT ![o] = Finished(@, "succeeded", NoJob)]
<1>1. o \in Jobs /\ job[o].state = "running" /\ job[o] \in Row
    BY OwnedIsRunning DEF CompleteSuccess, Settle, At, QueueInv, TypeOK
<1>2. PICK N \in Activations(J) : job' = Finalized(table, J, N)
    BY DEF CompleteSuccess, Settle
<1>3. J \in SUBSET Jobs /\ o \notin N /\ \A j : j \in J <=> j = o
    BY <1>1 DEF Activations, Admitted
<1>4. table[o] = Finished(job[o], "succeeded", NoJob)
    BY <1>1 DEF QueueInv, TypeOK
<1> HIDE DEF table, J
<1>5. /\ o \in V2Jobs => job'[o] = [table[o] EXCEPT !.build =
                              IF table[o].state = "succeeded" THEN "succeeded" ELSE "failed"]
      /\ o \notin V2Jobs => job'[o] = table[o]
    BY <1>1, <1>2, <1>3, FinalizedMoves
<1>6. table[o] \in Row /\ table[o].state = "succeeded" /\ table[o].source = NoJob
    BY <1>1, <1>4 DEF Finished, Row, Terminal, Verdicts
<1>7. job'[o].state = "succeeded" /\ job'[o].source = NoJob
    BY <1>5, <1>6 DEF Row
<1> QED BY <1>1, <1>7 DEF Compiled

\* Only an eviction and a success write the cache.
LEMMA CacheWrites ==
    ASSUME QueueInv, [Next]_vars, NEW k \in Keys, NEW c, c = cache'[k], c # NoJob
    PROVE  c = cache[k] \/ Compiled(c, k)'
<1>1. CASE \E l \in Loops : CompleteSuccess(l)
    <2>1. PICK l \in Loops : CompleteSuccess(l)
        BY <1>1
    <2>2. PICK o : o = loop[l].job
        OBVIOUS
    <2>3. Compiled(o, KeyOf[o])' /\ o \in Jobs
        BY <2>1, <2>2, SuccessCompiles DEF Compiled
    <2>4. cache' = [cache EXCEPT ![KeyOf[o]] = IF cache[KeyOf[o]] = NoJob THEN o ELSE cache[KeyOf[o]]]
        BY <2>1, <2>2 DEF CompleteSuccess
    <2>5. c = cache[k] \/ (k = KeyOf[o] /\ c = o)
        BY <2>4 DEF QueueInv, TypeOK
    <2> QED BY <2>3, <2>5 DEF Compiled
<1>2. CASE \E l \in Loops : Evict(l)
    BY <1>2 DEF Evict, QueueInv, TypeOK
<1>3. CASE ~ (\E l \in Loops : CompleteSuccess(l) \/ Evict(l))
    <2>1. UNCHANGED cache
        BY ZenonT(60), <1>3 DEF Next, vars, Client, Enqueue, EnqueueBuild, RequestCancellation, Expire,
            Process, Start, Crash, RequestShutdown, Exit, LoopStep, Claim, LookUp, Verified,
            Executed, RenewalLost, Refused, HitRefused, CompleteCancelled,
            CompleteCachedSuccess, CompleteFailure, InfraExhausted, InfraRequeue,
            Abandon, CacheError
    <2> QED BY <2>1
<1> QED BY <1>1, <1>2, <1>3

\* That what is cached, or was read from the cache, is genuine is kept by every step.
LEMMA SourcesNext == QueueInv /\ SourcesGenuine /\ [Next]_vars => SourcesGenuine'
<1> SUFFICES ASSUME QueueInv, SourcesGenuine, [Next]_vars PROVE SourcesGenuine'
    OBVIOUS
<1>1. ASSUME NEW k \in Keys, NEW c, c = cache'[k], c # NoJob
      PROVE  Compiled(c, k)'
    <2>1. CASE c = cache[k]
        <3>1. Compiled(c, k)
            BY <1>1, <2>1 DEF SourcesGenuine
        <3> QED BY <3>1, CompiledForEver
    <2>2. CASE c # cache[k]
        BY <1>1, <2>2, CacheWrites
    <2> QED BY <2>1, <2>2
<1>2. ASSUME NEW j \in Jobs, NEW c, c = job'[j].source, c # NoJob
      PROVE  Compiled(c, KeyOf[j])'
    <2>1. RowMove(j) /\ job[j] \in Row
        BY RowsMove DEF TableMoves, QueueInv, TypeOK
    <2>2. SourceOf(j, c)
        <3>1. CASE job'[j] = job[j]
            BY <1>2, <3>1 DEF SourceOf
        <3>2. CASE Inserted(j)
            BY <3>2, <1>2 DEF Inserted, Absent
        <3>3. CASE Claimed(j) \/ Aged(j) \/ Asked(j) \/ Returned(j)
            BY <1>2, <2>1, <3>3 DEF Claimed, Aged, Asked, Returned, Requeued, Row, SourceOf
        <3>4. CASE Stopped(j)
            <4>1. PICK s : SourceOf(j, s) /\ job'[j] = Finished(job[j], "cancelled", s)
                BY <3>4 DEF Stopped
            <4>2. c = s
                BY <1>2, <2>1, <4>1 DEF Finished, Row
            <4> QED BY <4>1, <4>2
        <3>5. CASE Decided(j)
            <4>1. PICK v \in Verdicts, s \in Jobs \cup {NoJob},
                      b \in {"none", "queued", "running", "succeeded", "failed"} :
                    SourceOf(j, s) /\ job'[j] = [Finished(job[j], v, s) EXCEPT !.build = b]
                BY <3>5 DEF Decided
            <4>2. c = s
                BY <1>2, <2>1, <4>1 DEF Finished, Row
            <4> QED BY <4>1, <4>2
        <3> QED BY <2>1, <3>1, <3>2, <3>3, <3>4, <3>5 DEF RowMove, QuietMove
    <2>3. Compiled(c, KeyOf[j])
        BY <1>2, <2>2 DEF SourceOf, SourcesGenuine
    <2> QED BY <2>3, CompiledForEver
<1>3. ASSUME NEW l \in Loops, loop'[l].pc # "idle",
             NEW c, c = loop'[l].cached, c # NoJob, NEW o, o = loop'[l].job
      PROVE  Compiled(c, KeyOf[o])'
    <2>1. LoopMove(l)
        BY LoopsMove
    <2>2. Compiled(c, KeyOf[o])
        <3>1. CASE loop'[l] = loop[l]
            BY <1>3, <3>1 DEF SourcesGenuine
        <3>2. CASE /\ loop[l].pc # "idle" /\ loop'[l].job = loop[l].job
                   /\ loop'[l].cached \in {loop[l].cached, cache[KeyOf[loop[l].job]]}
            <4>1. KeyOf[o] \in Keys
                BY <1>3, <3>2, QueueAssumption DEF QueueInv, LoopsBusy
            <4> QED BY <1>3, <3>2, <4>1 DEF SourcesGenuine
        <3> QED BY <1>3, <2>1, <3>1, <3>2 DEF LoopMove
    <2> QED BY <2>2, CompiledForEver
<1>4. \A k \in Keys : (cache[k] # NoJob => Compiled(cache[k], k))'
    BY <1>1 DEF Compiled
<1>5. \A j \in Jobs : (job[j].source # NoJob => Compiled(job[j].source, KeyOf[j]))'
    BY <1>2 DEF Compiled
<1>6. \A l \in Loops : ((loop[l].pc # "idle" /\ loop[l].cached # NoJob)
                           => Compiled(loop[l].cached, KeyOf[loop[l].job]))'
    BY <1>3 DEF Compiled
<1> QED BY <1>4, <1>5, <1>6 DEF SourcesGenuine

\* Whatever is evicted, replaced or lost between reading the cache row and
\* using it, a success taken from the cache names a job that really compiled
\* the same key (lib.rs, try_cache_hit; compile_queue.rs, complete_cached_success).
THEOREM CacheAlwaysSound == Spec => []CacheSound
<1>1. Init => SourcesGenuine
    BY DEF Init, SourcesGenuine, Absent, Idle
<1>2. SourcesGenuine => CacheSound
    BY DEF SourcesGenuine, CacheSound, Compiled
<1> QED BY <1>1, <1>2, SourcesNext, QueueInvAlways, PTL DEF Spec
-----------------------------------------------------------------------------
(* The fence of a lease *)

\* One loop per process, the default of WORKER_CONCURRENCY: the loops of a process
\* share its WorkerId, so with two of them the lease does not tell who claimed.
OneLoop == \A s, t \in Slots : s = t

\* A loop whose process is the owner of a running row claimed it last, whether
\* the lease is still live or not.
Fenced(l) ==
    LET o == loop[l].job
    IN  o # NoJob /\ job[o].state = "running" /\ job[o].worker = l[1]
            => loop[l].attempt = job[o].attempts
AttemptsFenced == \A l \in Loops : Fenced(l)

\* Between a claim and the end of its cycle a loop keeps its job and its attempt.
LEMMA LoopKeepsAttempt ==
    ASSUME QueueInv, [Next]_vars, ~ \E k \in Loops, j \in Jobs : Claim(k, j), NEW l \in Loops
    PROVE  \/ loop'[l].job = NoJob
           \/ loop'[l].job = loop[l].job /\ loop'[l].attempt = loop[l].attempt
<1> DEFINE Goal == \/ loop'[l].job = NoJob
                   \/ loop'[l].job = loop[l].job /\ loop'[l].attempt = loop[l].attempt
<1>0. loop \in [Loops -> LoopState]
    BY DEF QueueInv, TypeOK
<1>1. ASSUME UNCHANGED loop PROVE Goal
    BY <1>1
<1>2. ASSUME NEW k \in Loops, Leave(k) PROVE Goal
    BY <1>0, <1>2 DEF Leave, Idle
<1>3. ASSUME NEW k \in Loops, NEW pc, Goto(k, pc) PROVE Goal
    BY <1>0, <1>3 DEF Goto, LoopState
<1>4. ASSUME NEW w \in Workers, Crash(w) PROVE Goal
    BY <1>4 DEF Crash, Silenced, Idle
<1>5. ASSUME NEW k \in Loops, LookUp(k) PROVE Goal
    BY <1>0, <1>5 DEF LookUp, LoopState
<1>6. ASSUME NEW k \in Loops, LoopStep(k) PROVE Goal
    <2>1. CASE Verified(k) \/ Evict(k) \/ RenewalLost(k) \/ HitRefused(k)
               \/ \E pc \in {"commit", "fail", "infra"} : Executed(k, pc)
        BY <2>1, <1>3 DEF Verified, Evict, RenewalLost, HitRefused, Executed
    <2>2. CASE \/ Refused(k) \/ CompleteCancelled(k) \/ CompleteSuccess(k) \/ CompleteCachedSuccess(k)
               \/ InfraExhausted(k) \/ InfraRequeue(k)
               \/ \E state \in {"failed", "timed_out"} : CompleteFailure(k, state)
        BY <2>2, <1>2 DEF Refused, CompleteCancelled, CompleteSuccess, CompleteCachedSuccess, CompleteFailure,
                          InfraExhausted, InfraRequeue, Settle
    <2> QED BY <1>5, <1>6, <2>1, <2>2 DEF LoopStep
<1>7. ASSUME NEW k \in Loops, Abandon(k) \/ CacheError(k) PROVE Goal
    BY <1>2, <1>3, <1>7 DEF Abandon, CacheError
<1>8. ASSUME NEW j \in Jobs, Client(j) \/ Expire(j) PROVE Goal
    BY <1>1, <1>8 DEF Client, Enqueue, EnqueueBuild, RequestCancellation, Expire
<1>9. ASSUME NEW w \in Workers, Process(w) PROVE Goal
    BY <1>1, <1>4, <1>9 DEF Process, Start, RequestShutdown, Exit
<1> QED BY <1>1, <1>6, <1>7, <1>8, <1>9 DEF Next, vars

\* A row comes to run, or to be run again, only by a claim.
LEMMA QuietOwner ==
    ASSUME QueueInv, NEW j \in Jobs, QuietMove(j), job'[j].state = "running"
    PROVE  job[j].state = "running" /\ job'[j].worker = job[j].worker /\ job'[j].attempts = job[j].attempts
<1>1. job[j] \in Row
    BY DEF QueueInv, TypeOK
<1>2. ~ Inserted(j) /\ ~ Stopped(j) /\ ~ Returned(j) /\ ~ Decided(j)
    <2>1. ~ Inserted(j)
        BY DEF Inserted, Absent
    <2>2. ~ Stopped(j) /\ ~ Returned(j)
        BY <1>1 DEF Stopped, Returned, Finished, Requeued, Row
    <2>3. ~ Decided(j)
        BY <1>1 DEF Decided, Finished, Row, Verdicts
    <2> QED BY <2>1, <2>2, <2>3
<1>3. CASE Aged(j)
    BY <1>1, <1>3 DEF Aged, Row
<1>4. CASE Asked(j)
    BY <1>1, <1>4 DEF Asked, Row
<1> QED BY <1>2, <1>3, <1>4 DEF QuietMove

\* A claim fences every other loop that still works on the row.
LEMMA ClaimFences ==
    ASSUME OneLoop, QueueInv, AttemptsFenced, NEW k \in Loops, NEW j \in Jobs, Claim(k, j)
    PROVE  AttemptsFenced'
<1>0. job \in [Jobs -> Row] /\ loop \in [Loops -> LoopState]
    BY DEF QueueInv, TypeOK
<1>1. /\ job'[j].worker = k[1] /\ job'[j].attempts = job[j].attempts + 1
      /\ \A i \in Jobs \ {j} : job'[i] = job[i]
    BY <1>0 DEF Claim, Row
<1>2. /\ loop'[k].attempt = job[j].attempts + 1 /\ loop'[k].job = j
      /\ \A l \in Loops \ {k} : loop'[l] = loop[l]
    BY <1>0 DEF Claim
<1> SUFFICES ASSUME NEW l \in Loops PROVE Fenced(l)'
    BY DEF AttemptsFenced
<1>3. CASE l = k
    BY <1>1, <1>2, <1>3 DEF Fenced
<1>4. CASE l # k
    <2>1. l[1] # k[1]
        BY <1>4 DEF OneLoop, Loops
    <2>2. loop'[l] = loop[l] /\ loop[l].job \in Jobs \cup {NoJob} /\ Fenced(l)
        BY <1>0, <1>2, <1>4 DEF LoopState, AttemptsFenced
    <2>3. CASE loop[l].job = j
        BY <1>1, <2>1, <2>2, <2>3 DEF Fenced
    <2>4. CASE loop[l].job # j
        BY <1>1, <2>2, <2>4 DEF Fenced
    <2> QED BY <2>3, <2>4
<1> QED BY <1>3, <1>4

LEMMA FenceNext == ASSUME OneLoop, QueueInv, AttemptsFenced, [Next]_vars PROVE AttemptsFenced'
<1>1. CASE \E k \in Loops, j \in Jobs : Claim(k, j)
    BY <1>1, ClaimFences
<1>2. CASE ~ \E k \in Loops, j \in Jobs : Claim(k, j)
    <2> SUFFICES ASSUME NEW l \in Loops, loop'[l].job # NoJob, NEW o, o = loop'[l].job,
                        job'[o].state = "running", job'[o].worker = l[1]
                 PROVE  loop'[l].attempt = job'[o].attempts
        BY DEF AttemptsFenced, Fenced
    <2>1. o = loop[l].job /\ loop'[l].attempt = loop[l].attempt
        BY <1>2, LoopKeepsAttempt
    <2>2. o \in Jobs
        BY <2>1 DEF QueueInv, TypeOK, LoopState
    <2>3. QuietMove(o)
        BY <1>2, <2>2, RowsMoveQuietly DEF QuietStep
    <2>4. job[o].state = "running" /\ job'[o].worker = job[o].worker /\ job'[o].attempts = job[o].attempts
        BY <2>2, <2>3, QuietOwner
    <2> QED BY <2>1, <2>4 DEF AttemptsFenced, Fenced
<1> QED BY <1>1, <1>2

\* A completion that finds its lease live writes the verdict of the current attempt:
\* a loop that stalled while its row was recovered and claimed again is refused by
\* assert_live_lease, for any number of processes, stalls and restarts.
THEOREM OwnerAlwaysCurrent == ASSUME OneLoop PROVE Spec => []OwnerIsCurrent
<1>1. Init => AttemptsFenced
    BY DEF Init, AttemptsFenced, Fenced, Idle
<1>2. AttemptsFenced => OwnerIsCurrent
    BY DEF AttemptsFenced, Fenced, OwnerIsCurrent, Owns
<1>3. QueueInv /\ AttemptsFenced /\ [Next]_vars => AttemptsFenced'
    BY FenceNext
<1> QED BY <1>1, <1>2, <1>3, QueueInvAlways, PTL DEF Spec
=============================================================================
