--------------------------- MODULE BuildScheduler ---------------------------
(***************************************************************************)
(* The V2 build scheduler of one paper: the row of v2_paper_build_state     *)
(* with its desired hash, its active and current build and its one pending  *)
(* slot (crates/persistence/src/versions.rs), as it is moved by             *)
(*   - submissions, captured and submitted in two steps by a handler         *)
(*     (services/server/src/main.rs, v2_submit_build);                       *)
(*   - the completion of a build (compile_queue.rs, finalize_v2_build);      *)
(*   - durable edits (v2.rs, append_workspace_operations);                   *)
(*   - front matter and template changes, which move the head by themselves; *)
(*   - restoration (governance.rs, apply_restore).                           *)
(*                                                                         *)
(* The queue in front of the builds is CompileQueue; here a build waits,    *)
(* runs and ends.  A source state is its hash; the document epoch is left   *)
(* out, no decision here reads it.                                          *)
(***************************************************************************)
EXTENDS Integers, Sequences, FiniteSets

CONSTANTS
    Hashes, None,
    Clients,        \* the handlers in flight, each of another user
    Moves,          \* the ways the source may move, of AllMoves
    PerUserRunning, \* the queue's bound, as it concerns one paper
    MaxSeq,         \* bound: durable versions of the workspace
    MaxBuilds       \* bound: builds ever requested

AllMoves == {"edit", "materialize", "restore"}

ASSUME SchedulerAssumption ==
    /\ None \notin Hashes
    /\ Moves \subseteq AllMoves
    /\ PerUserRunning \in Nat \ {0} /\ MaxSeq \in Nat \ {0} /\ MaxBuilds \in Nat

VARIABLES
    head,       \* workspace_heads: the durable sequence and the hash of its source
    captured,   \* what each handler captured and has not used yet
    sched,      \* the v2_paper_build_state row; known is FALSE before the first insert
    builds,     \* v2_paper_builds, oldest first
    versions    \* the hashes of the rows of paper_versions

vars == <<head, captured, sched, builds, versions>>

Ids == 1 .. MaxBuilds
NoBuild == 0
State == [seq : 0 .. MaxSeq, hash : Hashes]
Request == [seq : 0 .. MaxSeq, hash : Hashes, user : Clients]
Build == [seq : 0 .. MaxSeq, hash : Hashes, user : Clients,
          status : {"queued", "running", "succeeded", "failed"},
          full : BOOLEAN]       \* PDF, log and SyncTeX were all stored
NoRequest == [none |-> TRUE]
NoPending == <<>>

TypeOK ==
    /\ head \in State
    /\ captured \in [Clients -> State \cup {NoRequest}]
    /\ sched \in [known : BOOLEAN, desired : Hashes \cup {None}, seq : 0 .. MaxSeq,
                  active : Ids \cup {NoBuild}, current : Ids \cup {NoBuild},
                  pending : {NoPending} \cup {<<r>> : r \in Request}]
    /\ builds \in Seq(Build) /\ Len(builds) <= MaxBuilds
    /\ {sched.active, sched.current} \subseteq {NoBuild} \cup 1 .. Len(builds)
    /\ versions \subseteq Hashes

Unfinished(b) == builds[b].status \in {"queued", "running"}
HasPending == sched.pending # NoPending

-----------------------------------------------------------------------------
(* The source moves *)

CanMove(kind) == kind \in Moves /\ head.seq < MaxSeq
MovedTo(h) == [seq |-> head.seq + 1, hash |-> h]

\* Wrong on purpose: the edit records its sequence and leaves the hash desired.
EditStillDesired(h) ==
    /\ CanMove("edit")
    /\ head' = MovedTo(h)
    /\ sched' = IF sched.known THEN [sched EXCEPT !.seq = head.seq + 1] ELSE sched
    /\ UNCHANGED <<captured, builds, versions>>

\* append_workspace_operations: a durable edit invalidates the desired hash and
\* drops the pending request.  Before the first submission there is no row.
Edit(h) ==
    /\ CanMove("edit")
    /\ head' = MovedTo(h)
    /\ sched' = IF sched.known
                THEN [sched EXCEPT !.desired = None, !.seq = head.seq + 1,
                                   !.pending = NoPending]
                ELSE sched
    /\ UNCHANGED <<captured, builds, versions>>

\* Front matter materialization and template changes write the event and the
\* head themselves, with a safety version of the state before.
Materialize(h) ==
    /\ CanMove("materialize")
    /\ head' = MovedTo(h)
    /\ versions' = versions \cup {head.hash}
    /\ UNCHANGED <<captured, sched, builds>>

\* capture_exact_v2_state: no lock is held from here to the use of the capture.
Capture(c) ==
    /\ captured[c] = NoRequest
    /\ captured' = [captured EXCEPT ![c] = head]
    /\ UNCHANGED <<head, sched, builds, versions>>

Use(c) == captured' = [captured EXCEPT ![c] = NoRequest]

\* A handler may fail, or its browser may go away, before it submits.
GiveUp(c) ==
    /\ captured[c] # NoRequest
    /\ Use(c)
    /\ UNCHANGED <<head, sched, builds, versions>>

\* create_manual_version
ManualVersion(c) ==
    /\ captured[c] # NoRequest
    /\ versions' = versions \cup {captured[c].hash}
    /\ sched' = [sched EXCEPT !.known = TRUE]
    /\ Use(c)
    /\ UNCHANGED <<head, builds>>

\* finalize_template_change records the state captured after the change; it does
\* not take the scheduler's lock and does not create its row.
TemplateVersion(c) ==
    /\ "materialize" \in Moves
    /\ captured[c] # NoRequest
    /\ versions' = versions \cup {captured[c].hash}
    /\ Use(c)
    /\ UNCHANGED <<head, sched, builds>>

\* apply_restore, refused unless the captured state is still the head.
Restore(c, target) ==
    /\ CanMove("restore")
    /\ captured[c] # NoRequest
    /\ captured[c].seq = head.seq
    /\ target \in versions
    /\ head' = MovedTo(target)
    /\ versions' = versions \cup {captured[c].hash}
    /\ sched' = IF sched.known
                THEN [sched EXCEPT !.desired = target, !.seq = head.seq + 1,
                                   !.active = NoBuild, !.pending = NoPending]
                ELSE sched
    /\ Use(c)
    /\ UNCHANGED builds

-----------------------------------------------------------------------------
(* submit_v2_build *)

\* What a submission may be answered with: the newest build of the hash whose
\* artifacts are all there.  Builds are ordered as they were inserted; created_at
\* is the start of the inserting transaction, which may differ for two
\* transactions that waited for the scheduler row.
Reusable(h) == {b \in 1 .. Len(builds) : /\ builds[b].hash = h
                                         /\ builds[b].status = "succeeded"
                                         /\ builds[b].full}
Newest(B) == CHOOSE b \in B : \A a \in B : a <= b

Queued(r) == [seq |-> r.seq, hash |-> r.hash, user |-> r.user,
              status |-> "queued", full |-> FALSE]

\* The row after the desired state was recorded, whatever was there before.
Wanted(r) == [sched EXCEPT !.known = TRUE, !.desired = r.hash, !.seq = r.seq]

\* Wrong on purpose: the reuse forgets the pending slot.
ReuseKeepingPending(r) ==
    /\ Reusable(r.hash) # {}
    /\ sched' = [Wanted(r) EXCEPT !.active = NoBuild, !.current = Newest(Reusable(r.hash))]
    /\ UNCHANGED <<builds, versions>>

\* clear_pending_and_promote
Reuse(r) ==
    /\ Reusable(r.hash) # {}
    /\ sched' = [Wanted(r) EXCEPT !.pending = NoPending, !.active = NoBuild,
                                  !.current = Newest(Reusable(r.hash))]
    /\ UNCHANGED <<builds, versions>>

\* Wrong on purpose: any active build answers the submission.
CoalesceWithAny(r) ==
    /\ Reusable(r.hash) = {}
    /\ sched.active # NoBuild
    /\ sched' = [Wanted(r) EXCEPT !.pending = NoPending]
    /\ UNCHANGED <<builds, versions>>

\* clear_pending: the active build already compiles this hash.
Coalesce(r) ==
    /\ Reusable(r.hash) = {}
    /\ sched.active # NoBuild /\ builds[sched.active].hash = r.hash
    /\ sched' = [Wanted(r) EXCEPT !.pending = NoPending]
    /\ UNCHANGED <<builds, versions>>

\* set_pending: the one slot is overwritten.
Postpone(r) ==
    /\ Reusable(r.hash) = {}
    /\ sched.active # NoBuild /\ builds[sched.active].hash # r.hash
    /\ Len(builds) < MaxBuilds
    /\ sched' = [Wanted(r) EXCEPT !.pending = <<r>>]
    /\ UNCHANGED <<builds, versions>>

\* enqueue_build
Enqueue(r) ==
    /\ Reusable(r.hash) = {}
    /\ sched.active = NoBuild
    /\ Len(builds) < MaxBuilds
    /\ builds' = Append(builds, Queued(r))
    /\ versions' = versions \cup {r.hash}
    /\ sched' = [Wanted(r) EXCEPT !.active = Len(builds) + 1]

Submit(c) ==
    /\ captured[c] # NoRequest
    /\ LET r == [seq |-> captured[c].seq, hash |-> captured[c].hash, user |-> c]
       IN  Reuse(r) \/ Coalesce(r) \/ Postpone(r) \/ Enqueue(r)
    /\ Use(c)
    /\ UNCHANGED head

-----------------------------------------------------------------------------
(* The builds run *)

RunningBy(u) == {b \in 1 .. Len(builds) : builds[b].status = "running" /\ builds[b].user = u}

\* A retry puts the job back in the queue but leaves the build "running"; the
\* next claim finds it so.
Claim(b) ==
    /\ b \in 1 .. Len(builds)
    /\ builds[b].status = "queued"
    /\ Cardinality(RunningBy(builds[b].user)) < PerUserRunning
    /\ builds' = [builds EXCEPT ![b].status = "running"]
    /\ UNCHANGED <<head, captured, sched, versions>>

\* Wrong on purpose: whatever succeeds is promoted.
ExactIfSucceeded(b, status) == status = "succeeded"

\* Only the build of the desired hash is promoted.
Exact(b, status) == status = "succeeded" /\ sched.desired = builds[b].hash

\* Whichever build ends, the pending request is next.
Activates(b) == HasPending

\* finalize_v2_build: the verdict, the promotion and the next build.
Finish(b, status, full) ==
    LET ended == [builds EXCEPT ![b].status = status, ![b].full = full]
    IN  /\ b \in 1 .. Len(builds)
        /\ builds[b].status = "running"
        /\ status = "failed" => ~ full
        /\ builds' = IF HasPending /\ Activates(b)
                     THEN Append(ended, Queued(sched.pending[1])) ELSE ended
        /\ versions' = IF HasPending /\ Activates(b)
                       THEN versions \cup {sched.pending[1].hash} ELSE versions
        /\ sched' = [sched EXCEPT
                        !.active = IF Activates(b) THEN Len(builds) + 1 ELSE NoBuild,
                        !.current = IF Exact(b, status) THEN b ELSE @,
                        !.pending = NoPending]
        /\ UNCHANGED <<head, captured>>

-----------------------------------------------------------------------------
Init ==
    /\ \E h \in Hashes : head = [seq |-> 1, hash |-> h]
    /\ captured = [c \in Clients |-> NoRequest]
    /\ sched = [known |-> FALSE, desired |-> None, seq |-> 0, active |-> NoBuild,
                current |-> NoBuild, pending |-> NoPending]
    /\ builds = <<>>
    /\ versions = {}

Move == \E h \in Hashes :
            Edit(h) \/ Materialize(h) \/ \E c \in Clients : Restore(c, h)

Handler(c) ==
    Capture(c) \/ GiveUp(c) \/ ManualVersion(c) \/ TemplateVersion(c) \/ Submit(c)

Work(b) ==
    \/ Claim(b)
    \/ \E status \in {"succeeded", "failed"}, full \in BOOLEAN : Finish(b, status, full)

Next ==
    \/ Move
    \/ \E c \in Clients : Handler(c)
    \/ \E b \in Ids : Work(b)

Spec == Init /\ [][Next]_vars

\* The queue drains (CompileQueue: Drains); writers and handlers are not fair.
FairSpec == Spec /\ \A b \in Ids : WF_vars(Work(b))
=============================================================================
