------------------------ MODULE BuildSchedulerProofs ------------------------
(***************************************************************************)
(* Proofs about the build scheduler, for any number of hashes, handlers,    *)
(* versions and builds.                                                     *)
(***************************************************************************)
EXTENDS BuildSchedulerProperties, WellFoundedInduction, TLAPS

-----------------------------------------------------------------------------
(* The list of builds: what ending one and adding one do to it *)

Ended(B, b, status, full) == [B EXCEPT ![b].status = status, ![b].full = full]

\* The end of a build changes its status and leaves its hash and the others.
LEMMA EndedBuild ==
    ASSUME NEW B \in Seq(Build), NEW b \in 1 .. Len(B),
           NEW status \in {"succeeded", "failed"}, NEW full \in BOOLEAN
    PROVE  /\ Ended(B, b, status, full) \in Seq(Build)
           /\ Len(Ended(B, b, status, full)) = Len(B)
           /\ \A a \in 1 .. Len(B) : a # b => Ended(B, b, status, full)[a] = B[a]
           /\ \A a \in 1 .. Len(B) : Ended(B, b, status, full)[a].hash = B[a].hash
           /\ Ended(B, b, status, full)[b].status = status
<1>1. /\ B[b] \in Build
      /\ \A a \in 1 .. Len(B) : B[a] \in Build
  OBVIOUS
<1>2. [B[b] EXCEPT !.status = status, !.full = full] \in Build
  BY <1>1 DEF Build
<1>3. /\ [B[b] EXCEPT !.status = status, !.full = full].hash = B[b].hash
      /\ [B[b] EXCEPT !.status = status, !.full = full].status = status
  BY <1>1 DEF Build
<1>4. Ended(B, b, status, full) = [B EXCEPT ![b] = [B[b] EXCEPT !.status = status, !.full = full]]
  BY <1>1 DEF Ended, Build
<1> QED  BY <1>1, <1>2, <1>3, <1>4

\* A new build leaves the older ones as they are.
LEMMA AddedBuild ==
    ASSUME NEW B \in Seq(Build), NEW x \in Build
    PROVE  /\ Append(B, x) \in Seq(Build)
           /\ Len(Append(B, x)) = Len(B) + 1
           /\ \A a \in 1 .. Len(B) : Append(B, x)[a] = B[a]
           /\ Append(B, x)[Len(B) + 1] = x
OBVIOUS

\* What is inserted is a queued build of the requested hash.
LEMMA QueuedBuild ==
    ASSUME NEW r \in Request
    PROVE  /\ Queued(r) \in Build
           /\ Queued(r).hash = r.hash
           /\ Queued(r).status = "queued"
BY DEF Request, Build, Queued

\* Newest is well defined: a build that may be reused is found.
LEMMA NewestExists ==
    ASSUME NEW n \in Nat, NEW B \in SUBSET (1 .. n), B # {}
    PROVE  Newest(B) \in B
<1> DEFINE M == {n - b : b \in B}
<1>1. M \subseteq Nat /\ M # {}
  <2>1. \A b \in B : b \in Nat /\ b <= n
    OBVIOUS
  <2>2. ASSUME NEW m \in M PROVE m \in Nat
    <3>1. PICK b \in B : m = n - b
      OBVIOUS
    <3>2. b \in Nat /\ b <= n
      BY <2>1
    <3> QED  BY <3>1, <3>2
  <2>3. PICK b : b \in B
    OBVIOUS
  <2>4. n - b \in M
    BY <2>3
  <2> QED  BY <2>2, <2>4
<1>2. PICK m \in M : \A k \in M : ~ (<<k, m>> \in OpToRel(<, Nat))
  BY <1>1, NatLessThanWellFounded, WFMin
<1>3. PICK b \in B : m = n - b
  BY <1>2
<1>4. \A a \in B : a <= b
  <2> SUFFICES ASSUME NEW a \in B, ~ (a <= b) PROVE FALSE
    OBVIOUS
  <2>1. n - a \in M /\ n - a \in Nat /\ m \in Nat /\ n - a < m
    BY <1>1, <1>3
  <2>2. <<n - a, m>> \in OpToRel(<, Nat)
    BY <2>1 DEF OpToRel
  <2> QED  BY <2>1, <2>2, <1>2
<1> QED  BY <1>4 DEF Newest

-----------------------------------------------------------------------------
(* The row: its types, the pending slot and the active build.  Types are    *)
(* not inductive alone, a build is added at the end of another without a    *)
(* look at MaxBuilds; that there is room follows from the pending slot      *)
(* being kept only behind an active build, and that again from the active   *)
(* build being the last one.                                                *)

ActiveIsNewest == sched.active # NoBuild => sched.active = Len(builds)
RoomForPending == HasPending => Len(builds) < MaxBuilds

RowInv == TypeOK /\ PendingIsDriven /\ ActiveIsNewest /\ RoomForPending

\* Before the first submission there is no row and no build.
LEMMA RowInit == Init => RowInv
<1> SUFFICES ASSUME Init PROVE RowInv
  OBVIOUS
<1> USE SchedulerAssumption DEF Init
<1>1. head \in State
  BY DEF State
<1>2. TypeOK
  BY <1>1 DEF TypeOK, NoPending, NoBuild, Ids
<1>3. ~ HasPending /\ sched.active = NoBuild
  BY DEF HasPending
<1> QED  BY <1>2, <1>3 DEF RowInv, PendingIsDriven, ActiveIsNewest, RoomForPending

\* What a step that leaves the builds alone has to show of the row.
LEMMA RowOnly ==
    ASSUME RowInv, UNCHANGED builds,
           head' \in State,
           captured' \in [Clients -> State \cup {NoRequest}],
           versions' \subseteq Hashes,
           sched' \in [known : BOOLEAN, desired : Hashes \cup {None}, seq : 0 .. MaxSeq,
                       active : Ids \cup {NoBuild}, current : Ids \cup {NoBuild},
                       pending : {NoPending} \cup {<<r>> : r \in Request}],
           sched'.current \in {NoBuild} \cup 1 .. Len(builds),
           sched'.active \in {NoBuild, sched.active},
           \/ sched'.pending = NoPending
           \/ sched'.pending = sched.pending /\ sched'.active = sched.active
           \/ /\ sched'.active # NoBuild /\ Len(builds) < MaxBuilds
              /\ sched'.pending[1].hash # builds[sched'.active].hash
    PROVE  RowInv'
BY DEF RowInv, TypeOK, PendingIsDriven, ActiveIsNewest, RoomForPending, HasPending, Unfinished

\* Edits, renders and restorations touch no build, and take away the active one
\* only together with the pending slot.
LEMMA MovesKeepRow == ASSUME RowInv, Move PROVE RowInv'
<1> USE DEF RowInv, TypeOK
<1> PICK h \in Hashes : Edit(h) \/ Materialize(h) \/ \E c \in Clients : Restore(c, h)
  BY DEF Move
<1>1. head.seq < MaxSeq => MovedTo(h) \in State
  BY SchedulerAssumption DEF MovedTo, State
<1>2. CASE Edit(h)
  <2>1. /\ head' \in State /\ UNCHANGED <<captured, builds, versions>>
        /\ sched' = sched \/ sched' = [sched EXCEPT !.desired = None, !.seq = head.seq + 1,
                                                    !.pending = NoPending]
    BY <1>1, <1>2 DEF Edit, CanMove
  <2>2. head.seq + 1 \in 0 .. MaxSeq
    BY <1>2, SchedulerAssumption DEF Edit, CanMove, State
  <2> QED  BY <2>1, <2>2, RowOnly
<1>3. CASE Materialize(h)
  <2>1. head' \in State /\ UNCHANGED <<captured, sched, builds>> /\ versions' \subseteq Hashes
    BY <1>1, <1>3 DEF Materialize, CanMove, State
  <2> QED  BY <2>1, RowOnly
<1>4. ASSUME NEW c \in Clients, Restore(c, h) PROVE RowInv'
  <2>1. captured[c] \in State
    BY <1>4 DEF Restore
  <2>2. /\ head' \in State /\ UNCHANGED builds /\ versions' \subseteq Hashes
        /\ captured' \in [Clients -> State \cup {NoRequest}]
        /\ \/ sched' = sched
           \/ sched' = [sched EXCEPT !.desired = h, !.seq = head.seq + 1,
                                     !.active = NoBuild, !.pending = NoPending]
    BY <1>1, <1>4, <2>1 DEF Restore, CanMove, Use, State
  <2>3. head.seq + 1 \in 0 .. MaxSeq
    BY <1>4, SchedulerAssumption DEF Restore, CanMove, State
  <2> QED  BY <2>2, <2>3, RowOnly
<1> QED  BY <1>2, <1>3, <1>4

\* What is reused is a build, and the wanted row is a row.
LEMMA WantedRow ==
    ASSUME RowInv, NEW r \in Request
    PROVE  /\ Wanted(r) \in [known : BOOLEAN, desired : Hashes \cup {None}, seq : 0 .. MaxSeq,
                             active : Ids \cup {NoBuild}, current : Ids \cup {NoBuild},
                             pending : {NoPending} \cup {<<q>> : q \in Request}]
           /\ Wanted(r).known /\ Wanted(r).desired = r.hash /\ Wanted(r).seq = r.seq
           /\ Wanted(r).active = sched.active /\ Wanted(r).current = sched.current
           /\ Wanted(r).pending = sched.pending
BY DEF RowInv, TypeOK, Wanted, Request

\* What answers a submission from history is a success of the submitted hash.
LEMMA ReusedBuild ==
    ASSUME RowInv, NEW h, Reusable(h) # {}
    PROVE  /\ Newest(Reusable(h)) \in 1 .. Len(builds)
           /\ builds[Newest(Reusable(h))].hash = h
           /\ builds[Newest(Reusable(h))].status = "succeeded"
<1>1. Len(builds) \in Nat /\ Reusable(h) \in SUBSET (1 .. Len(builds))
  BY DEF RowInv, TypeOK, Reusable
<1>2. Newest(Reusable(h)) \in Reusable(h)
  BY <1>1, NewestExists
<1> QED  BY <1>2 DEF Reusable

\* A submission is one of a request made of the capture.
LEMMA SubmittedRequest ==
    ASSUME RowInv, NEW c \in Clients, Submit(c)
    PROVE  \E r \in Request :
              /\ r.seq = captured[c].seq /\ r.hash = captured[c].hash
              /\ Reuse(r) \/ Coalesce(r) \/ Postpone(r) \/ Enqueue(r)
<1>1. captured[c] \in State
  BY DEF RowInv, TypeOK, Submit
<1>2. [seq |-> captured[c].seq, hash |-> captured[c].hash, user |-> c] \in Request
  BY <1>1 DEF State, Request
<1> QED  BY <1>2 DEF Submit

\* All four outcomes of a submission keep the invariant.
LEMMA SubmitsKeepRow ==
    ASSUME RowInv, NEW c \in Clients, Submit(c)
    PROVE  RowInv'
<1>1. PICK r \in Request : Reuse(r) \/ Coalesce(r) \/ Postpone(r) \/ Enqueue(r)
  BY SubmittedRequest
<1>2. r \in Request
  OBVIOUS
<1>3. /\ Reuse(r) \/ Coalesce(r) \/ Postpone(r) \/ Enqueue(r)
      /\ UNCHANGED head /\ head \in State
      /\ captured' \in [Clients -> State \cup {NoRequest}]
  BY <1>1 DEF RowInv, TypeOK, Submit, Use
<1>4. r.hash \in Hashes
  BY DEF Request
<1>5. builds \in Seq(Build) /\ Len(builds) \in Nat /\ Len(builds) <= MaxBuilds /\ MaxBuilds \in Nat
      /\ versions \subseteq Hashes
      /\ sched.active \in {NoBuild} \cup 1 .. Len(builds)
      /\ sched.current \in {NoBuild} \cup 1 .. Len(builds)
  BY SchedulerAssumption DEF RowInv, TypeOK
<1> DEFINE Rows == [known : BOOLEAN, desired : Hashes \cup {None}, seq : 0 .. MaxSeq,
                    active : Ids \cup {NoBuild}, current : Ids \cup {NoBuild},
                    pending : {NoPending} \cup {<<q>> : q \in Request}]
<1>6. /\ Wanted(r) \in Rows
      /\ Wanted(r).active = sched.active /\ Wanted(r).current = sched.current
      /\ Wanted(r).pending = sched.pending
  BY <1>2, WantedRow
<1>7. CASE Reuse(r)
  <2> DEFINE b == Newest(Reusable(r.hash))
  <2>1. b \in 1 .. Len(builds)
    BY <1>7, ReusedBuild DEF Reuse
  <2> HIDE DEF b
  <2>2. b \in Ids
    BY <2>1, <1>5 DEF Ids
  <2>3. sched' = [Wanted(r) EXCEPT !.pending = NoPending, !.active = NoBuild, !.current = b]
    BY <1>7 DEF Reuse, b
  <2>4. /\ sched' \in Rows
        /\ sched'.current = b /\ sched'.active = NoBuild /\ sched'.pending = NoPending
    BY <2>2, <2>3, <1>6
  <2>5. UNCHANGED <<builds, versions>>
    BY <1>7 DEF Reuse
  <2> QED  BY <2>1, <2>4, <2>5, <1>3, <1>5, RowOnly
<1>8. CASE Coalesce(r)
  <2>1. sched' = [Wanted(r) EXCEPT !.pending = NoPending] /\ UNCHANGED <<builds, versions>>
    BY <1>8 DEF Coalesce
  <2>2. /\ sched' \in Rows
        /\ sched'.current = sched.current /\ sched'.active = sched.active
        /\ sched'.pending = NoPending
    BY <2>1, <1>6
  <2> QED  BY <2>1, <2>2, <1>3, <1>5, RowOnly
<1>9. CASE Postpone(r)
  <2>1. sched' = [Wanted(r) EXCEPT !.pending = <<r>>] /\ UNCHANGED <<builds, versions>>
    BY <1>9 DEF Postpone
  <2>2. /\ sched' \in Rows
        /\ sched'.current = sched.current /\ sched'.active = sched.active
        /\ sched'.pending = <<r>>
    BY <2>1, <1>6, <1>2
  <2>3. sched'.pending[1].hash = r.hash
    BY <2>2
  <2>4. sched.active # NoBuild /\ builds[sched.active].hash # r.hash /\ Len(builds) < MaxBuilds
    BY <1>9 DEF Postpone
  <2> QED  BY <2>1, <2>2, <2>3, <2>4, <1>3, <1>5, RowOnly
<1>10. CASE Enqueue(r)
  <2>1. /\ sched.active = NoBuild /\ Len(builds) < MaxBuilds
        /\ builds' = Append(builds, Queued(r))
        /\ versions' = versions \cup {r.hash}
        /\ sched' = [Wanted(r) EXCEPT !.active = Len(builds) + 1]
    BY <1>10 DEF Enqueue
  <2>2. /\ builds' \in Seq(Build) /\ Len(builds') = Len(builds) + 1
        /\ builds'[Len(builds) + 1].status = "queued"
    BY <2>1, <1>2, <1>5, QueuedBuild, AddedBuild
  <2>3. Len(builds) + 1 \in Ids
    BY <2>1, <1>5 DEF Ids
  <2>4. /\ sched' \in Rows
        /\ sched'.active = Len(builds) + 1 /\ sched'.current = sched.current
        /\ sched'.pending = sched.pending
    BY <2>1, <2>3, <1>6
  <2>5. sched.pending = NoPending
    BY <2>1 DEF RowInv, PendingIsDriven, HasPending
  <2>6. TypeOK'
    <3>1. Len(builds') <= MaxBuilds /\ versions' \subseteq Hashes
      BY <2>1, <2>2, <1>4, <1>5
    <3>2. {sched'.active, sched'.current} \subseteq {NoBuild} \cup 1 .. Len(builds')
      BY <2>2, <2>4, <1>5
    <3> QED  BY <3>1, <3>2, <2>2, <2>4, <1>3 DEF TypeOK
  <2>7. ~ HasPending' /\ Unfinished(sched.active)'
    BY <2>2, <2>4, <2>5 DEF HasPending, Unfinished
  <2> QED  BY <2>2, <2>4, <2>6, <2>7
           DEF RowInv, PendingIsDriven, ActiveIsNewest, RoomForPending
<1> QED  BY <1>3, <1>7, <1>8, <1>9, <1>10

\* So does everything else a handler does.
LEMMA HandlersKeepRow ==
    ASSUME RowInv, NEW c \in Clients, Handler(c)
    PROVE  RowInv'
<1>1. CASE Submit(c)
  BY <1>1, SubmitsKeepRow
<1>2. CASE ManualVersion(c)
  <2>1. captured[c] \in State
    BY <1>2 DEF RowInv, TypeOK, ManualVersion
  <2> QED  BY <1>2, <2>1, RowOnly DEF RowInv, TypeOK, ManualVersion, Use, State
<1>3. CASE TemplateVersion(c)
  <2>1. captured[c] \in State
    BY <1>3 DEF RowInv, TypeOK, TemplateVersion
  <2> QED  BY <1>3, <2>1, RowOnly DEF RowInv, TypeOK, TemplateVersion, Use, State
<1>4. CASE Capture(c)
  BY <1>4, RowOnly DEF RowInv, TypeOK, Capture
<1>5. CASE GiveUp(c)
  BY <1>5, RowOnly DEF RowInv, TypeOK, GiveUp, Use
<1> QED  BY <1>1, <1>2, <1>3, <1>4, <1>5 DEF Handler

\* A claimed build is still unfinished.
LEMMA ClaimsKeepRow ==
    ASSUME RowInv, NEW b, Claim(b)
    PROVE  RowInv'
<1>1. /\ b \in 1 .. Len(builds) /\ builds[b].status = "queued"
      /\ builds' = [builds EXCEPT ![b].status = "running"]
      /\ UNCHANGED <<head, captured, sched, versions>>
      /\ builds \in Seq(Build) /\ Len(builds) \in Nat
  BY DEF Claim, RowInv, TypeOK
<1>2. builds[b] \in Build
  BY <1>1
<1>3. /\ [builds[b] EXCEPT !.status = "running"] \in Build
      /\ [builds[b] EXCEPT !.status = "running"].hash = builds[b].hash
      /\ [builds[b] EXCEPT !.status = "running"].status = "running"
  BY <1>2 DEF Build
<1>4. /\ builds' \in Seq(Build) /\ Len(builds') = Len(builds)
      /\ \A a \in 1 .. Len(builds) : a # b => builds'[a] = builds[a]
      /\ builds'[b].hash = builds[b].hash /\ builds'[b].status = "running"
  BY <1>1, <1>3
<1>5. TypeOK'
  BY <1>1, <1>4 DEF RowInv, TypeOK
<1>6. PendingIsDriven'
  <2>1. sched.active # NoBuild => sched.active \in 1 .. Len(builds)
    BY DEF RowInv, TypeOK
  <2> QED  BY <2>1, <1>1, <1>4 DEF RowInv, PendingIsDriven, HasPending, Unfinished
<1> QED  BY <1>1, <1>4, <1>5, <1>6 DEF RowInv, ActiveIsNewest, RoomForPending, HasPending

\* The two ways a build may end: with or without a pending request.
LEMMA FinishCases ==
    ASSUME RowInv, NEW b, NEW status \in {"succeeded", "failed"}, NEW full \in BOOLEAN,
           Finish(b, status, full)
    PROVE  /\ b \in 1 .. Len(builds) /\ builds[b].status = "running"
           /\ UNCHANGED <<head, captured>>
           /\ sched' \in [known : BOOLEAN, desired : Hashes \cup {None}, seq : 0 .. MaxSeq,
                          active : Nat, current : Ids \cup {NoBuild},
                          pending : {NoPending} \cup {<<r>> : r \in Request}]
           /\ sched'.pending = NoPending
           /\ sched'.desired = sched.desired /\ sched'.seq = sched.seq
           /\ sched'.current = IF Exact(b, status) THEN b ELSE sched.current
           /\ \/ /\ ~ HasPending /\ sched'.active = NoBuild
                 /\ builds' = Ended(builds, b, status, full)
                 /\ versions' = versions
              \/ /\ HasPending /\ sched'.active = Len(builds) + 1
                 /\ sched.pending[1] \in Request
                 /\ builds' = Append(Ended(builds, b, status, full), Queued(sched.pending[1]))
                 /\ versions' = versions \cup {sched.pending[1].hash}
<1>1. b \in 1 .. Len(builds) /\ builds[b].status = "running" /\ b \in Ids
  BY SchedulerAssumption DEF Finish, RowInv, TypeOK, Ids
<1>2. Len(builds) \in Nat /\ NoBuild \in Nat
  BY DEF RowInv, TypeOK, NoBuild
<1>3. sched' = [sched EXCEPT !.active = IF HasPending THEN Len(builds) + 1 ELSE NoBuild,
                             !.current = IF Exact(b, status) THEN b ELSE sched.current,
                             !.pending = NoPending]
  BY DEF Finish, Activates, RowInv, TypeOK
<1>4. HasPending => sched.pending[1] \in Request
  BY DEF HasPending, RowInv, TypeOK
<1> DEFINE a == IF HasPending THEN Len(builds) + 1 ELSE NoBuild
           k == IF Exact(b, status) THEN b ELSE sched.current
<1>5. a \in Nat
  BY <1>2
<1>6. k \in Ids \cup {NoBuild}
  BY <1>1 DEF RowInv, TypeOK
<1>7. sched' = [sched EXCEPT !.active = a, !.current = k, !.pending = NoPending]
  BY <1>3
<1> HIDE DEF a, k
<1>8. /\ sched' \in [known : BOOLEAN, desired : Hashes \cup {None}, seq : 0 .. MaxSeq,
                     active : Nat, current : Ids \cup {NoBuild},
                     pending : {NoPending} \cup {<<r>> : r \in Request}]
      /\ sched'.pending = NoPending
      /\ sched'.desired = sched.desired /\ sched'.seq = sched.seq
      /\ sched'.current = k /\ sched'.active = a
  BY <1>5, <1>6, <1>7 DEF RowInv, TypeOK
<1>9. /\ sched' \in [known : BOOLEAN, desired : Hashes \cup {None}, seq : 0 .. MaxSeq,
                     active : Nat, current : Ids \cup {NoBuild},
                     pending : {NoPending} \cup {<<r>> : r \in Request}]
      /\ sched'.pending = NoPending
      /\ sched'.desired = sched.desired /\ sched'.seq = sched.seq
      /\ sched'.current = IF Exact(b, status) THEN b ELSE sched.current
      /\ sched'.active = IF HasPending THEN Len(builds) + 1 ELSE NoBuild
  BY <1>8 DEF a, k
<1> QED  BY <1>1, <1>4, <1>9 DEF Finish, Activates, Ended

\* When a build ends, the pending request becomes the active build, or there is
\* no active build any more.
LEMMA FinishesKeepRow ==
    ASSUME RowInv, NEW b, NEW status \in {"succeeded", "failed"}, NEW full \in BOOLEAN,
           Finish(b, status, full)
    PROVE  RowInv'
<1> DEFINE E == Ended(builds, b, status, full)
<1>1. /\ builds \in Seq(Build) /\ Len(builds) \in Nat /\ Len(builds) <= MaxBuilds
      /\ MaxBuilds \in Nat /\ versions \subseteq Hashes
      /\ head \in State /\ captured \in [Clients -> State \cup {NoRequest}]
      /\ sched.current \in {NoBuild} \cup 1 .. Len(builds)
  BY SchedulerAssumption DEF RowInv, TypeOK
<1>2. /\ b \in 1 .. Len(builds)
      /\ UNCHANGED <<head, captured>>
      /\ sched' \in [known : BOOLEAN, desired : Hashes \cup {None}, seq : 0 .. MaxSeq,
                     active : Nat, current : Ids \cup {NoBuild},
                     pending : {NoPending} \cup {<<r>> : r \in Request}]
      /\ sched'.pending = NoPending
      /\ sched'.current \in {b, sched.current}
  BY FinishCases
<1>3. E \in Seq(Build) /\ Len(E) = Len(builds)
  <2>1. builds \in Seq(Build) /\ b \in 1 .. Len(builds)
    BY <1>1, <1>2
  <2> QED  BY <2>1, EndedBuild
<1>4. CASE /\ ~ HasPending /\ sched'.active = NoBuild
           /\ builds' = E /\ versions' = versions
  <2>1. sched'.active \in Ids \cup {NoBuild}
    BY <1>4
  <2>2. TypeOK'
    BY <1>1, <1>2, <1>3, <1>4, <2>1 DEF TypeOK
  <2> QED  BY <1>2, <1>4, <2>2
           DEF RowInv, PendingIsDriven, ActiveIsNewest, RoomForPending, HasPending
<1>5. CASE /\ HasPending /\ sched'.active = Len(builds) + 1
           /\ sched.pending[1] \in Request
           /\ builds' = Append(E, Queued(sched.pending[1]))
           /\ versions' = versions \cup {sched.pending[1].hash}
  <2>1. /\ builds' \in Seq(Build) /\ Len(builds') = Len(builds) + 1
        /\ builds'[Len(builds) + 1].status = "queued"
    BY <1>3, <1>5, QueuedBuild, AddedBuild
  <2>2. Len(builds) < MaxBuilds
    BY <1>5 DEF RowInv, RoomForPending
  <2>3. sched'.active \in Ids \cup {NoBuild}
    BY <1>1, <1>5, <2>2 DEF Ids
  <2>4. sched.pending[1].hash \in Hashes
    BY <1>5 DEF Request
  <2>5. {sched'.active, sched'.current} \subseteq {NoBuild} \cup 1 .. Len(builds')
    BY <1>1, <1>2, <1>5, <2>1
  <2>6. versions' \subseteq Hashes /\ Len(builds') <= MaxBuilds
    BY <1>1, <1>5, <2>1, <2>2, <2>4
  <2>7. TypeOK'
    BY <1>1, <1>2, <2>1, <2>3, <2>5, <2>6 DEF TypeOK
  <2>8. Unfinished(sched.active)'
    BY <1>5, <2>1 DEF Unfinished
  <2> QED  BY <1>2, <1>5, <2>1, <2>7, <2>8
           DEF RowInv, PendingIsDriven, ActiveIsNewest, RoomForPending, HasPending
<1> QED  BY <1>4, <1>5, FinishCases

\* The invariant of the row is inductive.
LEMMA RowStep == RowInv /\ [Next]_vars => RowInv'
<1> SUFFICES ASSUME RowInv, [Next]_vars PROVE RowInv'
  OBVIOUS
<1>1. CASE Move
  BY <1>1, MovesKeepRow
<1>2. ASSUME NEW c \in Clients, Handler(c) PROVE RowInv'
  BY <1>2, HandlersKeepRow
<1>3. ASSUME NEW b \in Ids, Work(b) PROVE RowInv'
  BY <1>3, ClaimsKeepRow, FinishesKeepRow DEF Work
<1>4. CASE UNCHANGED vars
  BY <1>4 DEF vars, RowInv, TypeOK, PendingIsDriven, ActiveIsNewest, RoomForPending,
              HasPending, Unfinished
<1> QED  BY <1>1, <1>2, <1>3, <1>4 DEF Next

\* The row, its snapshots and the builds have the types of their tables, and the
\* pending slot always waits for an active, unfinished build of another hash:
\* set_pending fills it only behind one, and enqueue_build, finalize_v2_build and
\* apply_restore never take that build away without emptying it.
THEOREM SchedulerInvariant == Spec => [](TypeOK /\ PendingIsDriven)
<1>1. RowInv => TypeOK /\ PendingIsDriven
  BY DEF RowInv
<1> QED  BY <1>1, RowInit, RowStep, PTL DEF Spec

-----------------------------------------------------------------------------
(* The head.  A capture is the head of some earlier moment, and the row     *)
(* knows a sequence some capture had; equal sequences are equal sources.    *)

SourceInv ==
    /\ RowInv
    /\ DesiredIsExact
    /\ sched.seq <= head.seq
    /\ \A c \in Clients : captured[c] # NoRequest =>
          /\ captured[c].seq <= head.seq
          /\ captured[c].seq = head.seq => captured[c].hash = head.hash

\* At first nothing is captured and nothing desired.
LEMMA SourceInit == Init => SourceInv
BY RowInit DEF Init, SourceInv, DesiredIsExact

\* Whoever moves the head makes every capture older than it.
LEMMA SourceStep == SourceInv /\ [Next]_vars => SourceInv'
<1> SUFFICES ASSUME SourceInv, [Next]_vars PROVE SourceInv'
  OBVIOUS
<1> USE DEF SourceInv
<1>1. RowInv'
  BY RowStep
<1>2. /\ head.seq \in Nat /\ head.seq < head.seq + 1 /\ sched.seq \in Nat
      /\ \A c \in Clients : captured[c] # NoRequest => captured[c] \in State
      /\ captured \in [Clients -> State \cup {NoRequest}] /\ head \in State
      /\ None \notin Hashes
  BY SchedulerAssumption DEF RowInv, TypeOK, State
<1>3. CASE Move
  <2> PICK h \in Hashes : Edit(h) \/ Materialize(h) \/ \E c \in Clients : Restore(c, h)
    BY <1>3 DEF Move
  <2>1. head'.seq = head.seq + 1 /\ head'.hash = h
    BY DEF Edit, Materialize, Restore, MovedTo
  <2>2. \A c \in Clients : captured'[c] # NoRequest => captured'[c] = captured[c]
    BY <1>2 DEF Edit, Materialize, Restore, Use
  <2>3. \A c \in Clients : captured'[c] # NoRequest => captured'[c].seq < head'.seq
    BY <1>2, <2>1, <2>2 DEF State
  <2>4. \/ sched' = sched
        \/ sched'.desired = None /\ sched'.seq = head.seq + 1
        \/ sched'.desired = h /\ sched'.seq = head.seq + 1
    BY DEF Edit, Materialize, Restore, RowInv, TypeOK
  <2>5. sched'.seq <= head'.seq /\ DesiredIsExact'
    BY <1>2, <2>1, <2>4 DEF DesiredIsExact
  <2> QED  BY <1>1, <1>2, <2>1, <2>2, <2>3, <2>5 DEF State
<1>4. ASSUME NEW c \in Clients, Handler(c) PROVE SourceInv'
  <2>1. head' = head
    BY <1>4 DEF Handler, Capture, GiveUp, ManualVersion, TemplateVersion, Submit
  <2>2. \A d \in Clients : captured'[d] # NoRequest => captured'[d] \in {captured[d], head}
    BY <1>2, <1>4 DEF Handler, Capture, GiveUp, ManualVersion, TemplateVersion, Submit, Use
  <2>3. \/ sched'.desired = sched.desired /\ sched'.seq = sched.seq
        \/ /\ captured[c] # NoRequest
           /\ sched'.desired = captured[c].hash /\ sched'.seq = captured[c].seq
    <3>1. CASE Submit(c)
      <4>1. PICK r \in Request :
               /\ r.seq = captured[c].seq /\ r.hash = captured[c].hash
               /\ Reuse(r) \/ Coalesce(r) \/ Postpone(r) \/ Enqueue(r)
        BY <3>1, SubmittedRequest
      <4>2. sched'.desired = r.hash /\ sched'.seq = r.seq
        BY ZenonT(60), <4>1, WantedRow DEF Reuse, Coalesce, Postpone, Enqueue
      <4> QED  BY <3>1, <4>1, <4>2 DEF Submit
    <3>2. CASE ManualVersion(c)
      BY <3>2 DEF ManualVersion, RowInv, TypeOK
    <3> QED  BY <1>4, <3>1, <3>2 DEF Handler, Capture, GiveUp, TemplateVersion
  <2>4. sched'.seq <= head'.seq /\ DesiredIsExact'
    BY <2>1, <2>3 DEF DesiredIsExact
  <2> QED  BY <1>1, <1>2, <2>1, <2>2, <2>4
<1>5. ASSUME NEW b \in Ids, Work(b) PROVE SourceInv'
  <2>1. UNCHANGED <<head, captured>> /\ sched'.desired = sched.desired /\ sched'.seq = sched.seq
    BY <1>5, FinishCases DEF Work, Claim
  <2> QED  BY <1>1, <2>1 DEF DesiredIsExact
<1>6. CASE UNCHANGED vars
  BY <1>1, <1>6 DEF vars, DesiredIsExact
<1> QED  BY <1>3, <1>4, <1>5, <1>6 DEF Next

\* While the row's source sequence is the head's, the hash it wants is the
\* head's hash: whoever trusts the pair (the exactness badge, the reuse of a
\* build) never takes an older capture for the present source.
THEOREM DesiredIsTheHead == Spec => []DesiredIsExact
<1>1. SourceInv => DesiredIsExact
  BY DEF SourceInv
<1> QED  BY <1>1, SourceInit, SourceStep, PTL DEF Spec

-----------------------------------------------------------------------------
(* The build on show *)

\* The build on show changes by a reuse or an exact completion, and not otherwise.
LEMMA ShownStep ==
    ASSUME RowInv, [Next]_vars, sched'.current # sched.current
    PROVE  /\ sched'.current # NoBuild
           /\ builds'[sched'.current].status = "succeeded"
           /\ builds'[sched'.current].hash = sched'.desired
<1> USE DEF RowInv, TypeOK
<1>1. ~ (Move \/ UNCHANGED vars)
  BY DEF Move, Edit, Materialize, Restore, vars
<1>2. ASSUME NEW c \in Clients, Handler(c)
      PROVE  /\ sched'.current # NoBuild
             /\ builds'[sched'.current].status = "succeeded"
             /\ builds'[sched'.current].hash = sched'.desired
  <2>1. Submit(c)
    BY <1>2 DEF Handler, Capture, GiveUp, ManualVersion, TemplateVersion
  <2>2. PICK r \in Request : Reuse(r) \/ Coalesce(r) \/ Postpone(r) \/ Enqueue(r)
    BY <2>1, SubmittedRequest
  <2>3. Reuse(r)
    BY <2>2, WantedRow DEF Coalesce, Postpone, Enqueue
  <2>4. /\ sched'.current = Newest(Reusable(r.hash)) /\ sched'.desired = r.hash
        /\ UNCHANGED builds /\ Reusable(r.hash) # {}
    BY <2>3, WantedRow DEF Reuse
  <2> QED  BY <2>4, ReusedBuild DEF NoBuild
<1>3. ASSUME NEW b \in Ids, Work(b)
      PROVE  /\ sched'.current # NoBuild
             /\ builds'[sched'.current].status = "succeeded"
             /\ builds'[sched'.current].hash = sched'.desired
  <2>1. PICK status \in {"succeeded", "failed"}, full \in BOOLEAN : Finish(b, status, full)
    BY <1>3 DEF Work, Claim
  <2>2. /\ b \in 1 .. Len(builds) /\ sched'.current = b /\ Exact(b, status)
        /\ sched'.desired = sched.desired
        /\ \/ builds' = Ended(builds, b, status, full)
           \/ /\ sched.pending[1] \in Request
              /\ builds' = Append(Ended(builds, b, status, full), Queued(sched.pending[1]))
    BY <2>1, FinishCases
  <2>3. /\ builds'[b].status = status /\ builds'[b].hash = builds[b].hash
    <3> DEFINE E == Ended(builds, b, status, full)
    <3>1. builds \in Seq(Build) /\ b \in 1 .. Len(builds)
      BY <2>2
    <3>2. /\ E \in Seq(Build) /\ Len(E) = Len(builds)
          /\ E[b].status = status /\ E[b].hash = builds[b].hash
      BY SMTT(30), <3>1, EndedBuild
    <3> QED  BY <2>2, <3>1, <3>2, AddedBuild, QueuedBuild
  <2> QED  BY <2>2, <2>3 DEF Exact, NoBuild
<1> QED  BY <1>1, <1>2, <1>3 DEF Next

\* The PDF on show is only ever replaced by an ended, successful build of exactly
\* the desired hash: by the reuse of one in submit_v2_build or by the completion
\* of one in finalize_v2_build.
THEOREM ShownIsExact == Spec => ShownOnlyExact
<1>1. RowInv /\ [Next]_vars =>
        [sched'.current # sched.current =>
           /\ sched'.current # NoBuild
           /\ builds'[sched'.current].status = "succeeded"
           /\ builds'[sched'.current].hash = sched'.desired]_vars
  BY ShownStep
<1> QED  BY <1>1, RowInit, RowStep, PTL DEF Spec, ShownOnlyExact

-----------------------------------------------------------------------------
(* Submissions without restoration.  NoLostSubmission is not inductive: when *)
(* a build of the desired hash fails, nothing may be left of that hash but  *)
(* an older build.  It is the newest build of the hash that has to be       *)
(* followed, and a submission coalesces with no other, the active build     *)
(* being the newest of all.                                                 *)

NewestUnderway ==
    sched.desired # None =>
        \/ Shown = sched.desired
        \/ HasPending /\ sched.pending[1].hash = sched.desired
        \/ \E b \in BuildsOf(sched.desired) :
              builds[b].status # "succeeded" /\ \A a \in BuildsOf(sched.desired) : a <= b

\* The newest build of the desired hash is followed by every step.
LEMMA SubmissionStep ==
    ASSUME "restore" \notin Moves, RowInv, NewestUnderway, [Next]_vars
    PROVE  NewestUnderway'
<1> USE DEF RowInv, TypeOK
<1>1. /\ builds \in Seq(Build) /\ Len(builds) \in Nat
      /\ sched.current \in {NoBuild} \cup 1 .. Len(builds)
  OBVIOUS
<1>2. CASE Move
  <2>1. PICK h \in Hashes : Edit(h) \/ Materialize(h)
    BY <1>2 DEF Move, Restore, CanMove
  <2>2. sched'.desired = None \/ sched' = sched
    BY <2>1 DEF Edit, Materialize
  <2>3. builds' = builds
    BY <2>1 DEF Edit, Materialize
  <2> QED  BY <2>2, <2>3 DEF NewestUnderway, Shown, BuildsOf, HasPending
<1>3. ASSUME NEW c \in Clients, Handler(c) PROVE NewestUnderway'
  <2>1. CASE ~ Submit(c)
    <3>1. /\ builds' = builds
          /\ sched' = sched \/ sched' = [sched EXCEPT !.known = TRUE]
      BY <1>3, <2>1 DEF Handler, Capture, GiveUp, ManualVersion, TemplateVersion
    <3>2. /\ sched'.desired = sched.desired /\ sched'.pending = sched.pending
          /\ sched'.current = sched.current
      BY <3>1
    <3> QED  BY <3>1, <3>2 DEF NewestUnderway, Shown, BuildsOf, HasPending
  <2>2. CASE Submit(c)
    <3>1. PICK r \in Request : Reuse(r) \/ Coalesce(r) \/ Postpone(r) \/ Enqueue(r)
      BY <2>2, SubmittedRequest
    <3>2. CASE Reuse(r)
      <4>1. /\ sched'.current = Newest(Reusable(r.hash)) /\ sched'.desired = r.hash
            /\ UNCHANGED builds /\ Reusable(r.hash) # {}
        BY <3>2, WantedRow DEF Reuse
      <4>2. Shown' = sched'.desired
        BY <4>1, ReusedBuild DEF Shown, NoBuild
      <4> QED  BY <4>2 DEF NewestUnderway
    <3>3. CASE Coalesce(r)
      <4>1. /\ sched'.desired = r.hash /\ UNCHANGED builds
            /\ sched.active # NoBuild /\ builds[sched.active].hash = r.hash
        BY <3>3, WantedRow DEF Coalesce
      <4>2. /\ sched.active = Len(builds) /\ sched.active \in 1 .. Len(builds)
            /\ builds[sched.active].status # "succeeded"
        BY <4>1 DEF ActiveIsNewest, PendingIsDriven, Unfinished
      <4>3. /\ sched.active \in BuildsOf(sched.desired)'
            /\ \A a \in BuildsOf(sched.desired)' : a <= sched.active
        BY <4>1, <4>2 DEF BuildsOf
      <4>4. (\E b \in BuildsOf(sched.desired) :
               builds[b].status # "succeeded" /\ \A a \in BuildsOf(sched.desired) : a <= b)'
        BY <4>1, <4>2, <4>3
      <4> QED  BY <4>4 DEF NewestUnderway
    <3>4. CASE Postpone(r)
      <4>1. sched'.desired = r.hash /\ sched'.pending = <<r>>
        BY <3>4, WantedRow DEF Postpone
      <4>2. HasPending' /\ sched'.pending[1].hash = sched'.desired
        BY <4>1 DEF HasPending, NoPending
      <4> QED  BY <4>2 DEF NewestUnderway
    <3>5. CASE Enqueue(r)
      <4> DEFINE n == Len(builds) + 1
      <4>1. sched'.desired = r.hash /\ builds' = Append(builds, Queued(r))
        BY <3>5, WantedRow DEF Enqueue
      <4>2. /\ builds' \in Seq(Build) /\ Len(builds') = n /\ n \in 1 .. n
            /\ builds'[n].hash = r.hash /\ builds'[n].status # "succeeded"
        BY <1>1, <4>1, QueuedBuild, AddedBuild
      <4>3. /\ n \in BuildsOf(sched.desired)'
            /\ \A a \in BuildsOf(sched.desired)' : a <= n
        BY <4>1, <4>2 DEF BuildsOf
      <4>4. (\E b \in BuildsOf(sched.desired) :
               builds[b].status # "succeeded" /\ \A a \in BuildsOf(sched.desired) : a <= b)'
        BY <4>2, <4>3
      <4> QED  BY <4>4 DEF NewestUnderway
    <3> QED  BY <3>1, <3>2, <3>3, <3>4, <3>5
  <2> QED  BY <2>1, <2>2
<1>4. ASSUME NEW b \in Ids, Work(b) PROVE NewestUnderway'
  <2> SUFFICES ASSUME sched'.desired # None PROVE NewestUnderway'
    BY DEF NewestUnderway
  <2>1. CASE Claim(b)
    <3>1. /\ UNCHANGED sched /\ Len(builds') = Len(builds)
          /\ \A a \in 1 .. Len(builds) :
                /\ builds'[a].hash = builds[a].hash
                /\ builds'[a].status \in {builds[a].status, "running"}
      BY <1>1, <2>1 DEF Claim, Build
    <3> QED  BY <1>1, <3>1 DEF NewestUnderway, Shown, BuildsOf, HasPending
  <2>2. ASSUME NEW status \in {"succeeded", "failed"}, NEW full \in BOOLEAN,
               Finish(b, status, full)
        PROVE  NewestUnderway'
    <3> DEFINE E == Ended(builds, b, status, full)
               n == Len(builds) + 1
    <3>1. /\ b \in 1 .. Len(builds)
          /\ sched'.desired = sched.desired
          /\ sched'.current = IF Exact(b, status) THEN b ELSE sched.current
          /\ \/ ~ HasPending /\ builds' = E
             \/ /\ HasPending /\ sched.pending[1] \in Request
                /\ builds' = Append(E, Queued(sched.pending[1]))
      BY SMTT(30), <2>2, FinishCases
    <3>2. /\ E \in Seq(Build) /\ Len(E) = Len(builds)
          /\ \A a \in 1 .. Len(builds) : a # b => E[a] = builds[a]
          /\ \A a \in 1 .. Len(builds) : E[a].hash = builds[a].hash
          /\ E[b].status = status
      <4>1. builds \in Seq(Build) /\ b \in 1 .. Len(builds)
        BY <1>1, <3>1
      <4>2. E = Ended(builds, b, status, full)
        OBVIOUS
      <4> HIDE DEF E, TypeOK, RowInv
      <4>3. /\ Ended(builds, b, status, full) \in Seq(Build)
            /\ Len(Ended(builds, b, status, full)) = Len(builds)
            /\ Ended(builds, b, status, full)[b].status = status
        BY <4>1, EndedBuild
      <4>4. ASSUME NEW a \in 1 .. Len(builds)
            PROVE  /\ a # b => Ended(builds, b, status, full)[a] = builds[a]
                   /\ Ended(builds, b, status, full)[a].hash = builds[a].hash
        BY SMTT(30), <4>1, EndedBuild
      <4> QED  BY <4>2, <4>3, <4>4
    <3> HIDE DEF E
    <3>3. \A a \in 1 .. Len(builds) : builds'[a] = E[a]
      BY <3>1, <3>2, QueuedBuild, AddedBuild
    <3>4. HasPending => /\ Len(builds') = n /\ n \in 1 .. n
                        /\ builds'[n].hash = sched.pending[1].hash
                        /\ builds'[n].status = "queued"
      BY <1>1, <3>1, <3>2, QueuedBuild, AddedBuild
    <3>5. ~ HasPending => Len(builds') = Len(builds)
      BY <3>1, <3>2
    <3>6. CASE Exact(b, status)
      <4>1. Shown' = sched'.desired
        BY <3>1, <3>2, <3>3, <3>6 DEF Shown, Exact, NoBuild
      <4> QED  BY <4>1 DEF NewestUnderway
    <3>7. CASE ~ Exact(b, status) /\ Shown = sched.desired
      <4>1. sched.current \in 1 .. Len(builds) /\ sched'.current = sched.current
        BY <1>1, <3>1, <3>7 DEF Shown
      <4>2. Shown' = sched'.desired
        BY <3>1, <3>2, <3>3, <3>7, <4>1 DEF Shown, NoBuild
      <4> QED  BY <4>2 DEF NewestUnderway
    <3>8. CASE HasPending /\ sched.pending[1].hash = sched.desired
      <4>1. /\ n \in BuildsOf(sched.desired)' /\ builds'[n].status # "succeeded"
            /\ \A a \in BuildsOf(sched.desired)' : a <= n
        BY <1>1, <3>1, <3>4, <3>8 DEF BuildsOf
      <4>2. (\E x \in BuildsOf(sched.desired) :
               builds[x].status # "succeeded" /\ \A a \in BuildsOf(sched.desired) : a <= x)'
        BY <4>1
      <4> QED  BY <4>2 DEF NewestUnderway
    <3>9. ASSUME ~ Exact(b, status), ~ (HasPending /\ sched.pending[1].hash = sched.desired),
                 NEW x \in BuildsOf(sched.desired), builds[x].status # "succeeded",
                 \A a \in BuildsOf(sched.desired) : a <= x
          PROVE  NewestUnderway'
      <4>1. BuildsOf(sched.desired)' = BuildsOf(sched.desired)
        <5>1. \A a \in 1 .. Len(builds) : builds'[a].hash = builds[a].hash
          BY <3>2, <3>3
        <5>2. CASE ~ HasPending
          BY <3>1, <3>5, <5>1, <5>2 DEF BuildsOf
        <5>3. CASE HasPending
          <6>1. Len(builds') = n /\ builds'[n].hash # sched.desired
            BY <3>4, <3>9, <5>3
          <6>2. \A a : a \in 1 .. n <=> a \in 1 .. Len(builds) \/ a = n
            BY <1>1
          <6> HIDE DEF n
          <6> QED  BY <3>1, <5>1, <6>1, <6>2 DEF BuildsOf
        <5> QED  BY <5>2, <5>3
      <4>2. builds'[x].status # "succeeded"
        BY <3>1, <3>2, <3>3, <3>9 DEF BuildsOf, Exact
      <4>3. (\E y \in BuildsOf(sched.desired) :
               builds[y].status # "succeeded" /\ \A a \in BuildsOf(sched.desired) : a <= y)'
        BY <3>9, <4>1, <4>2
      <4> QED  BY <4>3 DEF NewestUnderway
    <3> QED  BY <3>1, <3>6, <3>7, <3>8, <3>9 DEF NewestUnderway
  <2> QED  BY <1>4, <2>1, <2>2 DEF Work
<1>5. CASE UNCHANGED vars
  BY <1>5 DEF vars, NewestUnderway, Shown, BuildsOf, HasPending
<1> QED  BY <1>2, <1>3, <1>4, <1>5 DEF Next

\* Without restoration no submission is lost, whatever coalesces, replaces the
\* pending request, is answered from history or leaves a build orphaned: the
\* desired hash is shown, is being built, is pending, or its newest build failed.
THEOREM NoSubmissionLost ==
    ASSUME "restore" \notin Moves
    PROVE  Spec => []NoLostSubmission
<1>1. Init => NewestUnderway
  BY DEF Init, NewestUnderway
<1>2. RowInv /\ NewestUnderway /\ [Next]_vars => NewestUnderway'
  BY SubmissionStep
<1>3. RowInv /\ NewestUnderway => NoLostSubmission
  <2> SUFFICES ASSUME RowInv, NewestUnderway, sched.desired # None,
                      NEW b \in BuildsOf(sched.desired), builds[b].status # "succeeded",
                      \A a \in BuildsOf(sched.desired) : a <= b
               PROVE  \/ Unfinished(b)
                      \/ builds[b].status = "failed"
    BY DEF NewestUnderway, NoLostSubmission
  <2>1. builds[b] \in Build
    BY DEF BuildsOf, RowInv, TypeOK
  <2> QED  BY <2>1 DEF Build, Unfinished
<1> QED  BY <1>1, <1>2, <1>3, RowInit, RowStep, PTL DEF Spec
=============================================================================
