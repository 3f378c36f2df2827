---------------------- MODULE BuildSchedulerProperties ----------------------
(***************************************************************************)
(* What must be true of the scheduler of a paper, and what its documents    *)
(* say of it.                                                               *)
(***************************************************************************)
EXTENDS BuildScheduler

BuildsOf(h) == {b \in 1 .. Len(builds) : builds[b].hash = h}
Shown == IF sched.current = NoBuild THEN None ELSE builds[sched.current].hash

\* The pending slot waits for a build that will still end: nothing else empties
\* it into a job (compile_queue.rs, finalize_v2_build), so a request left
\* behind an ended build, or behind none, would wait for ever.
PendingIsDriven ==
    /\ sched.active # NoBuild => Unfinished(sched.active)
    /\ HasPending => /\ sched.active # NoBuild
                     /\ sched.pending[1].hash # builds[sched.active].hash

\* No submission is lost: a desired hash is shown, or being built, or pending,
\* or its newest build failed.  Submissions coalesce, replace each other, are
\* answered from history and leave builds orphaned; none may drop the last one
\* (versions.rs, submit_v2_build).  Restoration desires a hash it does not
\* submit, so this is checked without it.
NoLostSubmission ==
    sched.desired # None =>
        \/ Shown = sched.desired
        \/ HasPending /\ sched.pending[1].hash = sched.desired
        \/ \E b \in BuildsOf(sched.desired) : Unfinished(b)
        \/ \E b \in BuildsOf(sched.desired) :
              builds[b].status = "failed" /\ \A a \in BuildsOf(sched.desired) : a <= b

\* As long as the scheduler's source sequence is the head's, the hash it wants
\* is the head's: whatever completes, an old result is not shown as current
\* unless the row itself tells it is behind.
DesiredIsExact ==
    (sched.desired # None /\ sched.seq = head.seq) => sched.desired = head.hash

\* The PDF on show is replaced only by an ended, successful build of exactly the
\* desired hash, never by a failure and never by nothing
\* (V2_COMPILE_STATE_MACHINE.md, Artifact promotion).
ShownOnlyExact ==
    [][sched'.current # sched.current =>
         /\ sched'.current # NoBuild
         /\ builds'[sched'.current].status = "succeeded"
         /\ builds'[sched'.current].hash = sched'.desired]_vars

\* What was submitted is resolved: the desired hash is shown, or superseded, or
\* has failed.
Resolved ==
    \A h \in Hashes :
        sched.desired = h ~> \/ sched.desired # h
                             \/ Shown = h
                             \/ \E b \in BuildsOf(h) : builds[b].status = "failed"

-----------------------------------------------------------------------------
(* Statements of the documents that the code does not keep *)

\* ADR-005:11: "Per Paper Team, at most one automatic build is running".
OneRunning == Cardinality({b \in 1 .. Len(builds) : builds[b].status = "running"}) <= 1

\* ADR-005:11: "The pending slot always represents the latest state."
PendingIsLatest == HasPending => sched.pending[1].seq = head.seq

\* V2_COMPILE_STATE_MACHINE.md:37: "If H1 completes while H2 is current, retain
\* H1 historically but never promote it as current."
NoStalePromotion ==
    [][sched'.current # sched.current => builds'[sched'.current].hash = head'.hash]_vars

\* v2.rs:1989: "A durable canonical edit immediately invalidates any in-flight
\* exact hash".
MoveInvalidates ==
    [][head'.seq # head.seq => sched'.desired \in {None, head'.hash}]_vars
=============================================================================
