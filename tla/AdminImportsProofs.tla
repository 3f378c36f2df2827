------------------------- MODULE AdminImportsProofs -------------------------
(***************************************************************************)
(* Proofs about institution imports, for any students, assignments, Admins,  *)
(* batches and requests.                                                     *)
(***************************************************************************)
EXTENDS AdminImportsProperties, TLAPS

-----------------------------------------------------------------------------
(* The inductive invariant *)

\* A request names a batch that is there, carries passwords only once it has applied
\* it, and its plans are of assignments that the batch names, whose Teams stay.
Fits(c) ==
    /\ c.step # "none" => c.batch \in Batches /\ batches[c.batch].status # "NONE"
    /\ c.step \in {"none", "apply"} => c.fresh = {}
    /\ c.step = "none" => c.plans = {}
    /\ c.step \notin {"none", "lost"} => c.admin \in Admins
    /\ \A p \in c.plans :
         /\ p.name # None
         /\ p.existing => teams[p.group] # None
         /\ Names(c.batch, p.group)

Underway == \A i \in Slots : Fits(calls[i])

\* A batch does what its rows say, and reports nothing before it is there.
BatchesReviewed ==
    \A b \in Batches :
        /\ batches[b].todo \subseteq batches[b].rows
        /\ batches[b].status = "NONE" => batches[b].unresolved = {}

\* A page that shows a status shows that of a batch.
PageKnows ==
    \A a \in Admins : page[a].status # "NONE" =>
        page[a].batch \in Batches /\ batches[page[a].batch].status # "NONE"

IInv == TypeOK /\ Underway /\ BatchesReviewed /\ PageKnows /\ HandedOnce /\ Referenced /\ NoSilentTeam

-----------------------------------------------------------------------------
(* What one transaction does to the records *)

\* Only apply_batch changes a record.
LEMMA OnlyCommit ==
    ASSUME [Next]_vars
    PROVE  UNCHANGED records \/ \E i \in Slots : Commit(i)
BY ZenonT(60) DEF Next, vars, Admin, Server, Validate, Show, PressApply, PressRetry, Commit, Again, Conflict,
       Plans, Materialized, Materialize, Leave, Unresolved, Resolved, Unchanged, Shown, Unlink,
       ManualLink, Lose

\* An Add writes what is missing only (ON CONFLICT DO NOTHING).
THEOREM ImportsKeepExisting == Spec => AddKeepsExisting
<1>1. ASSUME NEW i \in Slots, Commit(i), Of(i).op = "ADD", NEW k \in Keys, Exists(k)
      PROVE  records'[k] = records[k]
  BY <1>1 DEF Commit, Effect, Of
<1>2. [\A i \in Slots : Commit(i) /\ Of(i).op = "ADD" =>
         \A k \in Keys : Exists(k) => records'[k] = records[k]]_vars
  BY <1>1
<1> QED  BY <1>2, PTL DEF AddKeepsExisting

\* The rows of a batch that was applied never take effect again.
THEOREM BatchesApplyOnce == Spec => AppliedOnce
<1>1. ASSUME [Next]_vars, NEW b \in Batches, batches[b].status \in Done, NEW k \in Keys, records'[k] = b
      PROVE  records[k] = b
  <2>1. CASE UNCHANGED records
    BY <1>1, <2>1
  <2>2. ASSUME NEW i \in Slots, Commit(i) PROVE records[k] = b
    <3>1. calls[i].batch # b
      BY <1>1, <2>2 DEF Commit, Of, Done
    <3>2. b # None
      BY ImportAssumption DEF Batches
    <3> QED  BY <1>1, <2>2, <3>1, <3>2 DEF Commit, Effect
  <2> QED  BY <1>1, <2>1, <2>2, OnlyCommit
<1>2. [Next]_vars => [\A b \in Batches : batches[b].status \in Done =>
                        \A k \in Keys : records'[k] = b => records[k] = b]_vars
  BY <1>1
<1> QED  BY <1>2, PTL DEF AppliedOnce, Spec

-----------------------------------------------------------------------------
(* Types *)

\* A request that is sent takes a free place.
LEMMA Asking ==
    ASSUME TypeOK, NEW a \in Admins, NEW step \in Steps, NEW b \in 0 .. MaxBatches, Ask(a, step, b)
    PROVE  \E i \in Slots :
             /\ calls[i].step = "none"
             /\ calls' = [calls EXCEPT ![i] = [step |-> step, admin |-> a, batch |-> b,
                                              plans |-> {}, fresh |-> {}]]
BY ZenonT(60) DEF Ask, Free, NoCall

LEMMA AskingType ==
    ASSUME TypeOK, NEW a \in Admins, NEW step \in Steps, NEW b \in 0 .. MaxBatches, Ask(a, step, b)
    PROVE  calls' \in [Slots -> Call]
<1>1. PICK i \in Slots : calls' = [calls EXCEPT ![i] = [step |-> step, admin |-> a, batch |-> b,
                                                     plans |-> {}, fresh |-> {}]]
  BY Asking
<1>2. [step |-> step, admin |-> a, batch |-> b, plans |-> {}, fresh |-> {}] \in Call
  BY DEF Call
<1> QED  BY <1>1, <1>2 DEF TypeOK

LEMMA GoingType ==
    ASSUME TypeOK, NEW i \in Slots, NEW step \in Steps, Goes(i, step)
    PROVE  calls' \in [Slots -> Call]
<1>1. [calls[i] EXCEPT !.step = step] \in Call
  BY DEF TypeOK, Call
<1> QED  BY <1>1 DEF TypeOK, Goes

LEMMA EndingType ==
    ASSUME TypeOK, NEW i \in Slots, Ends(i)
    PROVE  calls' \in [Slots -> Call]
<1>1. NoCall \in Call
  BY ImportAssumption DEF NoCall, Call, Steps
<1> QED  BY <1>1 DEF TypeOK, Ends

LEMMA PastType ==
    ASSUME TypeOK, NEW i \in Slots, NEW p \in calls[i].plans, Past(i, p)
    PROVE  calls' \in [Slots -> Call] /\ p \in Plan
BY SMTT(30) DEF TypeOK, Past, Call

LEMMA EffectType ==
    ASSUME TypeOK, NEW i \in Slots
    PROVE  Effect(calls[i].batch) \in [Keys -> Written]
BY DEF TypeOK, Effect, Written, Call

LEMMA ValidateType ==
    ASSUME TypeOK, NEW a \in Admins, NEW op \in Operations, NEW K \in Uploads, Validate(a, op, K)
    PROVE  TypeOK'
<1>1. PICK b \in Batches :
        /\ batches' = [batches EXCEPT ![b] =
                [op |-> op, rows |-> K,
                 todo |-> IF op = "ADD" THEN {k \in K : ~Exists(k)} ELSE K,
                 status |-> IF Wrong(op, K) THEN "FAILED" ELSE "VALIDATED",
                 unresolved |-> {}]]
        /\ Ask(a, "show", b)
  BY DEF Validate
<1>2. K \subseteq Keys
  BY ImportAssumption
<1> DEFINE todo == IF op = "ADD" THEN {k \in K : ~Exists(k)} ELSE K
           status == IF Wrong(op, K) THEN "FAILED" ELSE "VALIDATED"
<1>3. todo \subseteq Keys /\ status \in {"FAILED", "VALIDATED"}
  BY <1>2
<1>4. [op |-> op, rows |-> K, todo |-> todo, status |-> status, unresolved |-> {}] \in Batch
  <2> HIDE DEF todo, status
  <2> QED  BY <1>2, <1>3 DEF Batch, Statuses, Done
<1>5. batches' \in [Batches -> Batch]
  BY <1>1, <1>4 DEF TypeOK
<1>6. b \in 0 .. MaxBatches /\ "show" \in Steps
  BY ImportAssumption DEF Batches, Steps
<1>7. calls' \in [Slots -> Call]
  BY <1>1, <1>6, AskingType
<1> QED  BY <1>5, <1>7 DEF Validate, TypeOK

LEMMA CommitType ==
    ASSUME TypeOK, NEW i \in Slots, Commit(i)
    PROVE  TypeOK'
<1> DEFINE b == calls[i].batch
           new == Newcomers(b, Effect(b))
<1>1. Effect(b) \in [Keys -> Written]
  BY EffectType
<1>2. new \subseteq Students
  BY DEF Newcomers
<1>3. accounts' = [s \in Students |-> IF s \in new THEN "temporary" ELSE accounts[s]]
  BY DEF Commit
<1>4. accounts' \in [Students -> {"none", "own", "temporary"}]
  <2> HIDE DEF new
  <2> QED  BY <1>3 DEF TypeOK
<1>5. batches' \in [Batches -> Batch]
  <2>1. b \in Batches => [batches[b] EXCEPT !.status = "APPLIED"] \in Batch
    BY DEF TypeOK, Batch, Statuses, Done
  <2>2. batches' = [batches EXCEPT ![b].status = "APPLIED"]
    BY DEF Commit
  <2> HIDE DEF b
  <2> QED  BY <2>1, <2>2 DEF TypeOK
<1>6. AfterApply(b) \in Steps
  BY DEF AfterApply, Steps
<1>7. calls' = [calls EXCEPT ![i].step = AfterApply(b), ![i].fresh = new]
  BY DEF Commit
<1>8. calls' \in [Slots -> Call]
  <2> DEFINE step == AfterApply(b)
  <2>1. calls[i] \in Call
    BY DEF TypeOK
  <2> HIDE DEF new, step
  <2>2. [calls[i] EXCEPT !.step = step, !.fresh = new] \in Call
    BY <1>2, <1>6, <2>1 DEF Call, step
  <2>3. calls' = [calls EXCEPT ![i] = [calls[i] EXCEPT !.step = step, !.fresh = new]]
    BY <1>7, <2>1 DEF TypeOK, Call, step
  <2> QED  BY <2>2, <2>3 DEF TypeOK
<1> QED  BY <1>1, <1>4, <1>5, <1>8 DEF Commit, TypeOK

LEMMA PlansType ==
    ASSUME TypeOK, NEW i \in Slots, Plans(i)
    PROVE  TypeOK'
<1> DEFINE plan(g) == [group |-> g, name |-> records[g], existing |-> teams[g] # None,
                       resolved |-> Writers(g) # {} /\ \A s \in Writers(g) : Linked(s)]
           named == {g \in Groups : Exists(g) /\ Names(calls[i].batch, g)}
           step == IF calls[i].step = "plans" THEN "team" ELSE "again"
<1>1. ASSUME NEW g \in Groups PROVE plan(g) \in Plan
  BY DEF Plan, TypeOK, Keys
<1>2. {plan(g) : g \in named} \subseteq Plan
  BY <1>1
<1>3. calls' = [calls EXCEPT ![i].step = step, ![i].plans = {plan(g) : g \in named}]
  BY DEF Plans
<1>4. step \in Steps
  BY DEF Steps
<1>5. calls' \in [Slots -> Call]
  <2> DEFINE P == {plan(g) : g \in named}
  <2>1. calls[i] \in Call /\ P \subseteq Plan
    BY <1>2 DEF TypeOK
  <2>2. calls' = [calls EXCEPT ![i].step = step, ![i].plans = P]
    BY <1>3
  <2> HIDE DEF P, step
  <2>3. [calls[i] EXCEPT !.step = step, !.plans = P] \in Call
    BY <1>4, <2>1 DEF Call
  <2>4. calls' = [calls EXCEPT ![i] = [calls[i] EXCEPT !.step = step, !.plans = P]]
    BY <2>1, <2>2 DEF TypeOK, Call
  <2> QED  BY <2>3, <2>4 DEF TypeOK
<1> QED  BY <1>5 DEF Plans, TypeOK

\* TypeOK is kept by every step.
LEMMA TypeStep ==
    ASSUME TypeOK, Underway, [Next]_vars
    PROVE  TypeOK'
<1>1. CASE UNCHANGED vars
  BY <1>1 DEF vars, TypeOK
<1>2. ASSUME NEW a \in Admins, Admin(a) PROVE TypeOK'
  <2>1. ASSUME NEW b \in Batches, Show(a, b) PROVE TypeOK'
    <3>1. b \in 0 .. MaxBatches /\ "show" \in Steps
      BY ImportAssumption DEF Batches, Steps
    <3>2. calls' \in [Slots -> Call]
      BY <2>1, <3>1, AskingType DEF Show
    <3> QED  BY <2>1, <3>2 DEF Show, TypeOK
  <2>2. CASE PressApply(a) \/ PressRetry(a)
    <3>1. page[a].batch \in 0 .. MaxBatches /\ "apply" \in Steps /\ "retry" \in Steps
      BY DEF TypeOK, Steps
    <3>2. calls' \in [Slots -> Call]
      BY <2>2, <3>1, AskingType DEF PressApply, PressRetry
    <3> QED  BY <2>2, <3>2 DEF PressApply, PressRetry, TypeOK
  <2> QED  BY <1>2, <2>1, <2>2, ValidateType DEF Admin
<1>3. ASSUME NEW s \in Students, Unlink(s) \/ ManualLink(s) PROVE TypeOK'
  BY <1>3 DEF Unlink, ManualLink, TypeOK
<1>4. ASSUME NEW i \in Slots, Server(i) PROVE TypeOK'
  <2>1. CASE Again(i)
    <3>1. AfterApply(calls[i].batch) \in Steps
      BY DEF AfterApply, Steps
    <3>2. calls' \in [Slots -> Call]
      BY <2>1, <3>1, GoingType DEF Again
    <3> QED  BY <2>1, <3>2 DEF Again, TypeOK
  <2>2. CASE Conflict(i)
    <3>1. calls' \in [Slots -> Call]
      BY <2>2, EndingType DEF Conflict
    <3> QED  BY <2>2, <3>1 DEF Conflict, TypeOK
  <2>3. CASE Materialized(i)
    <3>1. "show" \in Steps
      BY DEF Steps
    <3>2. calls' \in [Slots -> Call]
      BY <2>3, <3>1, GoingType DEF Materialized
    <3> QED  BY <2>3, <3>2 DEF Materialized, TypeOK
  <2>4. ASSUME NEW p \in calls[i].plans,
               Materialize(i, p) \/ Leave(i, p) \/ Unresolved(i, p) \/ Resolved(i, p) \/ Unchanged(i, p)
        PROVE  TypeOK'
    <3>1. calls' \in [Slots -> Call] /\ p \in Plan
      BY <2>4, PastType DEF Materialize, Leave, Unresolved, Resolved, Unchanged
    <3>2. teams' \in [Groups -> Written]
      BY <2>4, <3>1 DEF Materialize, Leave, Unresolved, Resolved, Unchanged, TypeOK, Plan
    <3>3. batches' \in [Batches -> Batch]
      <4>1. CASE Unresolved(i, p)
        <5>1. p.group \in Groups
          BY <3>1 DEF Plan
        <5>2. calls[i].batch \in Batches => Of(i).unresolved \subseteq Groups
          BY DEF Of, TypeOK, Batch
        <5> DEFINE more == Of(i).unresolved \cup {p.group}
        <5>3. calls[i].batch \in Batches => more \subseteq Groups
          BY <5>1, <5>2
        <5>4. batches' = [batches EXCEPT ![calls[i].batch].status = "PARTIAL", ![calls[i].batch].unresolved = more]
          BY <4>1 DEF Unresolved
        <5> HIDE DEF more
        <5>5. ASSUME calls[i].batch \in Batches
              PROVE  [batches[calls[i].batch] EXCEPT !.status = "PARTIAL", !.unresolved = more] \in Batch
          BY ZenonT(60), <5>3, <5>5 DEF TypeOK, Batch, Statuses, Done
        <5>6. batches' = [batches EXCEPT ![calls[i].batch] =
                            [batches[calls[i].batch] EXCEPT !.status = "PARTIAL", !.unresolved = more]]
          BY <5>4 DEF TypeOK, Batch
        <5> QED  BY <5>5, <5>6 DEF TypeOK
      <4>2. CASE Resolved(i, p)
        <5> DEFINE left == Of(i).unresolved \ {p.group}
                   status == IF left = {} THEN "APPLIED" ELSE "PARTIAL"
        <5>1. calls[i].batch \in Batches => left \subseteq Groups
          BY DEF Of, TypeOK, Batch
        <5>2. batches' = [batches EXCEPT ![calls[i].batch].unresolved = left, ![calls[i].batch].status = status]
          BY <4>2 DEF Resolved
        <5>3. status \in Statuses
          BY DEF Statuses, Done
        <5>4. ASSUME calls[i].batch \in Batches
              PROVE  [batches[calls[i].batch] EXCEPT !.unresolved = left, !.status = status] \in Batch
          <6> HIDE DEF left, status
          <6> QED  BY ZenonT(60), <5>1, <5>3, <5>4 DEF TypeOK, Batch
        <5>5. batches' = [batches EXCEPT ![calls[i].batch] =
                            [batches[calls[i].batch] EXCEPT !.unresolved = left, !.status = status]]
          <6> HIDE DEF left, status
          <6> QED  BY <5>2 DEF TypeOK, Batch
        <5> HIDE DEF left, status
        <5> QED  BY <5>4, <5>5 DEF TypeOK
      <4> QED  BY <2>4, <4>1, <4>2 DEF Materialize, Leave, Unchanged, TypeOK
    <3> QED  BY <2>4, <3>1, <3>2, <3>3 DEF Materialize, Leave, Unresolved, Resolved, Unchanged, TypeOK
  <2> QED  BY <1>4, <2>1, <2>2, <2>3, <2>4, CommitType, PlansType DEF Server
<1>5. ASSUME NEW i \in Slots, Shown(i) PROVE TypeOK'
  <2>1. calls' \in [Slots -> Call]
    BY <1>5, EndingType DEF Shown
  <2>2. calls[i] \in Call
    BY DEF TypeOK
  <2>3. handed' \in [Admins -> SUBSET Students]
    BY <1>5, <2>2 DEF Shown, TypeOK, Call
  <2>4. Of(i).status \in Statuses
    BY <1>5 DEF Shown, Underway, Fits, Of, TypeOK, Batch
  <2>5. page' \in [Admins -> [batch : 0 .. MaxBatches, status : Statuses]]
    BY <1>5, <2>2, <2>4 DEF Shown, TypeOK, Call
  <2> QED  BY <1>5, <2>1, <2>3, <2>5 DEF Shown, TypeOK
<1>6. ASSUME NEW i \in Slots, Lose(i) PROVE TypeOK'
  <2>1. calls[i] \in Call
    BY DEF TypeOK
  <2>2. [calls[i] EXCEPT !.step = "lost", !.admin = None, !.plans = {}] \in Call
    BY <2>1 DEF Call, Steps
  <2>3. calls' = [calls EXCEPT ![i] = [calls[i] EXCEPT !.step = "lost", !.admin = None, !.plans = {}]]
    BY <1>6, <2>1 DEF Lose, TypeOK, Call
  <2>4. calls' \in [Slots -> Call]
    BY <2>2, <2>3 DEF TypeOK
  <2> QED  BY <1>6, <2>4 DEF Lose, TypeOK
<1> QED  BY <1>1, <1>2, <1>3, <1>4, <1>5, <1>6 DEF Next

-----------------------------------------------------------------------------
(* Requests under way *)

\* Only these change a batch or a Team.
LEMMA BatchWriters ==
    ASSUME [Next]_vars, batches' # batches
    PROVE  \/ \E a \in Admins, op \in Operations, K \in Uploads : Validate(a, op, K)
           \/ \E i \in Slots : Commit(i)
           \/ \E i \in Slots : \E p \in calls[i].plans : Unresolved(i, p) \/ Resolved(i, p)
BY DEF Next, vars, Admin, Server, Show, PressApply, PressRetry, Again, Conflict, Plans,
       Materialized, Materialize, Leave, Unchanged, Shown, Unlink, ManualLink, Lose

LEMMA TeamWriters ==
    ASSUME [Next]_vars, teams' # teams
    PROVE  \E i \in Slots : \E p \in calls[i].plans : Materialize(i, p) \/ Resolved(i, p)
BY ZenonT(60) DEF Next, vars, Admin, Server, Validate, Show, PressApply, PressRetry, Commit, Again, Conflict,
       Plans, Materialized, Leave, Unresolved, Unchanged, Shown, Unlink, ManualLink, Lose

\* A batch stays, with its rows.
LEMMA BatchesStay ==
    ASSUME TypeOK, [Next]_vars, NEW b \in Batches, batches[b].status # "NONE"
    PROVE  batches'[b].status # "NONE" /\ batches'[b].rows = batches[b].rows
<1>1. CASE batches' = batches
  BY <1>1
<1>2. ASSUME NEW a \in Admins, NEW op \in Operations, NEW K \in Uploads, Validate(a, op, K)
      PROVE  batches'[b].status # "NONE" /\ batches'[b].rows = batches[b].rows
  <2>1. PICK e \in Batches : batches[e].status = "NONE" /\ \E new : batches' = [batches EXCEPT ![e] = new]
    BY <1>2 DEF Validate
  <2> QED  BY <2>1 DEF TypeOK
<1>3. ASSUME NEW i \in Slots, Commit(i)
      PROVE  batches'[b].status # "NONE" /\ batches'[b].rows = batches[b].rows
  BY <1>3 DEF Commit, TypeOK, Batch
<1>4. ASSUME NEW i \in Slots, NEW p \in calls[i].plans, Unresolved(i, p) \/ Resolved(i, p)
      PROVE  batches'[b].status # "NONE" /\ batches'[b].rows = batches[b].rows
  <2>1. CASE calls[i].batch # b
    BY <1>4, <2>1 DEF Unresolved, Resolved, TypeOK
  <2>2. CASE calls[i].batch = b /\ Unresolved(i, p)
    BY <2>2 DEF Unresolved, TypeOK, Batch
  <2>3. CASE calls[i].batch = b /\ Resolved(i, p)
    BY <2>3 DEF Resolved, TypeOK, Batch
  <2> QED  BY <1>4, <2>1, <2>2, <2>3
<1> QED  BY <1>1, <1>2, <1>3, <1>4, BatchWriters

\* A Team stays.
LEMMA TeamsStay ==
    ASSUME TypeOK, Underway, [Next]_vars, NEW g \in Groups, teams[g] # None
    PROVE  teams'[g] # None
<1>1. CASE teams' = teams
  BY <1>1
<1>2. ASSUME NEW i \in Slots, NEW p \in calls[i].plans, Materialize(i, p) \/ Resolved(i, p)
      PROVE  teams'[g] # None
  BY <1>2 DEF Materialize, Resolved, TypeOK, Underway, Fits
<1> QED  BY <1>1, <1>2, TeamWriters

\* A request that nobody advances stays as it is known.
LEMMA FitsStays ==
    ASSUME TypeOK, Underway, [Next]_vars, NEW i \in Slots, calls'[i] = calls[i]
    PROVE  Fits(calls[i])'
<1>1. Fits(calls[i]) /\ calls[i] \in Call
  BY DEF Underway, TypeOK
<1>2. ASSUME NEW p \in calls[i].plans
      PROVE  p.name # None /\ (p.existing => teams'[p.group] # None) /\ Names(calls[i].batch, p.group)'
  <2>1. p \in Plan /\ p.group \in Groups
    BY <1>1 DEF Call, Plan
  <2>2. calls[i].batch \in Batches /\ batches[calls[i].batch].status # "NONE"
    BY <1>1 DEF Fits
  <2>3. batches'[calls[i].batch].rows = batches[calls[i].batch].rows
    BY <2>2, BatchesStay
  <2>4. Names(calls[i].batch, p.group)
    BY <1>1 DEF Fits
  <2>5. Names(calls[i].batch, p.group)'
    BY <2>3, <2>4 DEF Names
  <2>6. p.existing => teams'[p.group] # None
    BY <1>1, <2>1, TeamsStay DEF Fits
  <2> QED  BY <1>1, <2>5, <2>6 DEF Fits
<1>3. calls[i].step # "none" => calls[i].batch \in Batches /\ batches'[calls[i].batch].status # "NONE"
  BY <1>1, BatchesStay DEF Fits
<1> QED  BY <1>1, <1>2, <1>3 DEF Fits

\* A request of a batch that is there, with neither passwords nor plans
LEMMA FitsAsked ==
    ASSUME TypeOK, NEW a \in Admins, NEW step \in Steps, NEW b \in Batches, Ask(a, step, b),
           batches'[b].status # "NONE", NEW i \in Slots, calls'[i] # calls[i]
    PROVE  Fits(calls[i])'
<1>1. b \in 0 .. MaxBatches
  BY ImportAssumption DEF Batches
<1>2. PICK k \in Slots : calls' = [calls EXCEPT ![k] = [step |-> step, admin |-> a, batch |-> b,
                                                        plans |-> {}, fresh |-> {}]]
  BY <1>1, Asking
<1>3. calls'[i] = [step |-> step, admin |-> a, batch |-> b, plans |-> {}, fresh |-> {}]
  BY <1>2 DEF TypeOK
<1> QED  BY <1>3 DEF Fits

\* A request that goes on with the plans it has, or fewer
LEMMA FitsAdvanced ==
    ASSUME TypeOK, Underway, [Next]_vars, NEW i \in Slots,
           calls[i].step # "none",
           calls'[i].step \notin {"none", "apply"},
           calls'[i].batch = calls[i].batch,
           calls'[i].step # "lost" => calls'[i].admin = calls[i].admin /\ calls[i].step # "lost",
           calls'[i].plans \subseteq calls[i].plans
    PROVE  Fits(calls[i])'
<1>1. Fits(calls[i]) /\ calls[i] \in Call
  BY DEF Underway, TypeOK
<1>2. calls[i].batch \in Batches /\ batches[calls[i].batch].status # "NONE"
  BY <1>1 DEF Fits
<1>3. batches'[calls[i].batch].rows = batches[calls[i].batch].rows /\ batches'[calls[i].batch].status # "NONE"
  BY <1>2, BatchesStay
<1>4. ASSUME NEW p \in calls'[i].plans
      PROVE  p.name # None /\ (p.existing => teams'[p.group] # None) /\ Names(calls[i].batch, p.group)'
  <2>1. p \in Plan /\ p.group \in Groups
    BY <1>1, <1>4 DEF Call, Plan
  <2>2. Names(calls[i].batch, p.group)
    BY <1>1, <1>4 DEF Fits
  <2>3. Names(calls[i].batch, p.group)'
    BY <1>3, <2>2 DEF Names
  <2>4. p.existing => teams'[p.group] # None
    BY <1>1, <1>4, <2>1, TeamsStay DEF Fits
  <2> QED  BY <1>1, <1>4, <2>3, <2>4 DEF Fits
<1> QED  BY <1>1, <1>2, <1>3, <1>4 DEF Fits

\* A request that ends
LEMMA FitsEnded ==
    ASSUME TypeOK, NEW k \in Slots, Ends(k), NEW i \in Slots, calls'[i] # calls[i]
    PROVE  Fits(calls[i])'
<1>1. calls'[i] = NoCall
  BY DEF Ends, TypeOK
<1> QED  BY <1>1 DEF Fits, NoCall

\* What its transaction leaves of a request that applies
LEMMA FitsCommitted ==
    ASSUME TypeOK, Underway, [Next]_vars, NEW k \in Slots, Commit(k), NEW i \in Slots, calls'[i] # calls[i]
    PROVE  Fits(calls[i])'
<1> DEFINE step == AfterApply(calls[k].batch)
           new == Newcomers(calls[k].batch, Effect(calls[k].batch))
<1>1. calls' = [calls EXCEPT ![k].step = step, ![k].fresh = new]
  BY DEF Commit
<1>2. step \in {"plans", "show"}
  BY DEF AfterApply
<1>3. calls[k].step = "apply"
  BY DEF Commit
<1>4. calls[k] \in Call
  BY DEF TypeOK
<1> HIDE DEF step, new
<1>5. i = k
  BY <1>1 DEF TypeOK
<1>6. /\ calls'[i].step \in {"plans", "show"}
      /\ calls'[i].batch = calls[i].batch
      /\ calls'[i].admin = calls[i].admin
      /\ calls'[i].plans = calls[i].plans
  BY <1>1, <1>2, <1>4, <1>5 DEF TypeOK, Call
<1> QED  BY <1>3, <1>5, <1>6, FitsAdvanced

\* What the plans of a request say when they are read
LEMMA FitsPlanned ==
    ASSUME TypeOK, Underway, NEW k \in Slots, Plans(k), NEW i \in Slots, calls'[i] # calls[i]
    PROVE  Fits(calls[i])'
<1> DEFINE plan(g) == [group |-> g, name |-> records[g], existing |-> teams[g] # None,
                       resolved |-> Writers(g) # {} /\ \A s \in Writers(g) : Linked(s)]
           named == {g \in Groups : Exists(g) /\ Names(calls[k].batch, g)}
           P == {plan(g) : g \in named}
           step == IF calls[k].step = "plans" THEN "team" ELSE "again"
<1>1. calls' = [calls EXCEPT ![k].step = step, ![k].plans = P]
  BY DEF Plans
<1>2. UNCHANGED <<batches, teams>>
  BY DEF Plans
<1>3. ASSUME NEW p \in P
      PROVE  p.name # None /\ (p.existing => teams[p.group] # None) /\ Names(calls[k].batch, p.group)
  <2>1. PICK g \in named : p = plan(g)
    OBVIOUS
  <2>2. p.group = g /\ p.name = records[g] /\ p.existing = (teams[g] # None)
    BY <2>1
  <2> HIDE DEF P, plan
  <2> QED  BY <2>2 DEF Exists
<1>4. calls[k] \in Call /\ Fits(calls[k]) /\ calls[k].step \in {"plans", "retry"}
  BY DEF TypeOK, Underway, Plans
<1>5. step \in {"team", "again"}
  OBVIOUS
<1> HIDE DEF P, step
<1>6. i = k
  BY <1>1 DEF TypeOK
<1>7. /\ calls'[i].step = step
      /\ calls'[i].batch = calls[i].batch
      /\ calls'[i].admin = calls[i].admin
      /\ calls'[i].plans = P
  BY <1>1, <1>4, <1>6 DEF TypeOK, Call
<1>8. ASSUME NEW p \in calls'[i].plans
      PROVE  p.name # None /\ (p.existing => teams'[p.group] # None) /\ Names(calls[i].batch, p.group)'
  BY <1>2, <1>3, <1>6, <1>7 DEF Names
<1> QED  BY <1>2, <1>4, <1>5, <1>6, <1>7, <1>8 DEF Fits

\* Underway is kept by every step.
LEMMA UnderwayStep ==
    ASSUME TypeOK, Underway, PageKnows, [Next]_vars
    PROVE  Underway'
<1> SUFFICES ASSUME NEW i \in Slots PROVE Fits(calls[i])'
  BY DEF Underway
<1>1. CASE calls'[i] = calls[i]
  BY <1>1, FitsStays
<1>2. ASSUME calls'[i] # calls[i], NEW a \in Admins, Admin(a) PROVE Fits(calls[i])'
  <2>1. ASSUME NEW op \in Operations, NEW K \in Uploads, Validate(a, op, K) PROVE Fits(calls[i])'
    <3> DEFINE B(b) == [op |-> op, rows |-> K,
                 todo |-> IF op = "ADD" THEN {k \in K : ~Exists(k)} ELSE K,
                 status |-> IF Wrong(op, K) THEN "FAILED" ELSE "VALIDATED",
                 unresolved |-> {}]
    <3>1. PICK b \in Batches : batches' = [batches EXCEPT ![b] = B(b)] /\ Ask(a, "show", b)
      BY <2>1 DEF Validate
    <3>2. B(b).status # "NONE"
      OBVIOUS
    <3> HIDE DEF B
    <3>3. batches'[b].status # "NONE"
      BY <3>1, <3>2 DEF TypeOK
    <3>4. "show" \in Steps
      BY DEF Steps
    <3> QED  BY <1>2, <3>1, <3>3, <3>4, FitsAsked
  <2>2. ASSUME NEW b \in Batches, Show(a, b) PROVE Fits(calls[i])'
    <3>1. batches'[b].status # "NONE" /\ "show" \in Steps
      BY <2>2 DEF Show, Steps
    <3> QED  BY <1>2, <2>2, <3>1, FitsAsked DEF Show
  <2>3. CASE PressApply(a) \/ PressRetry(a)
    <3>1. page[a].batch \in Batches /\ batches[page[a].batch].status # "NONE" /\ batches' = batches
      BY <2>3 DEF PressApply, PressRetry, PageKnows
    <3>2. "apply" \in Steps /\ "retry" \in Steps
      BY DEF Steps
    <3> QED  BY <1>2, <2>3, <3>1, <3>2, FitsAsked DEF PressApply, PressRetry
  <2> QED  BY <1>2, <2>1, <2>2, <2>3 DEF Admin
<1>3. ASSUME calls'[i] # calls[i], NEW k \in Slots, Server(k) PROVE Fits(calls[i])'
  <2>0. calls[k] \in Call /\ Fits(calls[k])
    BY DEF TypeOK, Underway
  <2>1. CASE Again(k) \/ Materialized(k)
    <3>1. PICK step \in {"plans", "show"} : calls' = [calls EXCEPT ![k].step = step]
      BY <2>1 DEF Again, Materialized, Goes, AfterApply
    <3>2. calls[k].step \in {"apply", "team", "again"}
      BY <2>1 DEF Again, Materialized
    <3>3. i = k
      BY <1>3, <3>1 DEF TypeOK
    <3>4. /\ calls'[i].step = step
          /\ calls'[i].batch = calls[i].batch
          /\ calls'[i].admin = calls[i].admin
          /\ calls'[i].plans = calls[i].plans
      BY <2>0, <3>1, <3>3 DEF TypeOK, Call
    <3> QED  BY <3>2, <3>3, <3>4, FitsAdvanced
  <2>2. CASE Conflict(k)
    BY <1>3, <2>2, FitsEnded DEF Conflict
  <2>3. ASSUME NEW p \in calls[k].plans,
               Materialize(k, p) \/ Leave(k, p) \/ Unresolved(k, p) \/ Resolved(k, p) \/ Unchanged(k, p)
        PROVE  Fits(calls[i])'
    <3>1. calls[k].step \in {"team", "again"} /\ calls' = [calls EXCEPT ![k].plans = calls[k].plans \ {p}]
      BY <2>3 DEF Materialize, Leave, Unresolved, Resolved, Unchanged, Planned, Past
    <3>2. i = k
      BY <1>3, <3>1 DEF TypeOK
    <3>3. /\ calls'[i].step = calls[i].step
          /\ calls'[i].batch = calls[i].batch
          /\ calls'[i].admin = calls[i].admin
          /\ calls'[i].plans \subseteq calls[i].plans
      BY <2>0, <3>1, <3>2 DEF TypeOK, Call
    <3> QED  BY <3>1, <3>2, <3>3, FitsAdvanced
  <2> QED  BY <1>3, <2>1, <2>2, <2>3, FitsCommitted, FitsPlanned DEF Server
<1>4. ASSUME calls'[i] # calls[i], NEW k \in Slots, Shown(k) PROVE Fits(calls[i])'
  BY <1>4, FitsEnded DEF Shown
<1>5. ASSUME calls'[i] # calls[i], NEW k \in Slots, Lose(k) PROVE Fits(calls[i])'
  <2>0. calls[k] \in Call
    BY DEF TypeOK
  <2>1. /\ calls[k].step # "none"
        /\ calls' = [calls EXCEPT ![k].step = "lost", ![k].admin = None, ![k].plans = {}]
    BY <1>5 DEF Lose
  <2>2. i = k
    BY <1>5, <2>1 DEF TypeOK
  <2>3. calls'[i].step = "lost" /\ calls'[i].batch = calls[i].batch /\ calls'[i].plans = {}
    BY <2>0, <2>1, <2>2 DEF TypeOK, Call
  <2> QED  BY <2>1, <2>2, <2>3, FitsAdvanced
<1>6. CASE UNCHANGED vars
  BY <1>1, <1>6 DEF vars
<1>7. ASSUME NEW s \in Students, Unlink(s) \/ ManualLink(s) PROVE calls' = calls
  BY <1>7 DEF Unlink, ManualLink
<1> QED  BY <1>1, <1>2, <1>3, <1>4, <1>5, <1>6, <1>7 DEF Next

LEMMA PageStep ==
    ASSUME TypeOK, Underway, PageKnows, [Next]_vars
    PROVE  PageKnows'
<1>1. CASE page' = page
  BY <1>1, BatchesStay DEF PageKnows
<1>2. ASSUME NEW i \in Slots, Shown(i) PROVE PageKnows'
  <2>1. calls[i].batch \in Batches /\ batches' = batches
    BY <1>2 DEF Shown, Underway, Fits
  <2>2. page' = [page EXCEPT ![calls[i].admin] = [batch |-> calls[i].batch, status |-> Of(i).status]]
    BY <1>2 DEF Shown
  <2> QED  BY <2>1, <2>2 DEF PageKnows, TypeOK, Of
<1>3. page' = page \/ \E i \in Slots : Shown(i)
  BY ZenonT(60) DEF Next, vars, Admin, Server, Validate, Show, PressApply, PressRetry, Commit, Again, Conflict,
         Plans, Materialized, Materialize, Leave, Unresolved, Resolved, Unchanged, Unlink, ManualLink, Lose
<1> QED  BY <1>1, <1>2, <1>3

LEMMA ReviewedStep ==
    ASSUME TypeOK, Underway, BatchesReviewed, [Next]_vars
    PROVE  BatchesReviewed'
<1>1. CASE batches' = batches
  BY <1>1 DEF BatchesReviewed
<1>2. ASSUME NEW a \in Admins, NEW op \in Operations, NEW K \in Uploads, Validate(a, op, K)
      PROVE  BatchesReviewed'
  <2> DEFINE todo == IF op = "ADD" THEN {k \in K : ~Exists(k)} ELSE K
             status == IF Wrong(op, K) THEN "FAILED" ELSE "VALIDATED"
  <2>1. PICK b \in Batches : batches' = [batches EXCEPT ![b] =
            [op |-> op, rows |-> K, todo |-> todo, status |-> status, unresolved |-> {}]]
    BY <1>2 DEF Validate
  <2>2. todo \subseteq K
    OBVIOUS
  <2> HIDE DEF todo, status
  <2> QED  BY <2>1, <2>2 DEF BatchesReviewed, TypeOK
<1>3. ASSUME NEW i \in Slots, Commit(i) PROVE BatchesReviewed'
  BY <1>3 DEF Commit, BatchesReviewed, TypeOK, Batch
<1>4. ASSUME NEW i \in Slots, NEW p \in calls[i].plans, Unresolved(i, p) PROVE BatchesReviewed'
  BY <1>4 DEF Unresolved, BatchesReviewed, TypeOK, Batch
<1>5. ASSUME NEW i \in Slots, NEW p \in calls[i].plans, Resolved(i, p) PROVE BatchesReviewed'
  BY <1>5 DEF Resolved, BatchesReviewed, TypeOK, Batch
<1> QED  BY <1>1, <1>2, <1>3, <1>4, <1>5, BatchWriters

-----------------------------------------------------------------------------
(* References *)

\* Referenced is kept: a transaction commits only with its foreign keys whole, and a
\* Team is created only for an assignment that is there.
LEMMA ReferencedStep ==
    ASSUME TypeOK, Underway, Referenced, [Next]_vars
    PROVE  Referenced'
<1>1. CASE UNCHANGED <<records, teams>>
  BY <1>1 DEF Referenced, Sound
<1>2. ASSUME NEW i \in Slots, Commit(i) PROVE Referenced'
  BY <1>2 DEF Commit, Referenced, Sound
<1>3. ASSUME NEW i \in Slots, NEW p \in calls[i].plans, Materialize(i, p) \/ Resolved(i, p)
      PROVE  Referenced'
  <2>1. p \in Plan /\ p.group \in Groups /\ Fits(calls[i])
    BY DEF TypeOK, Call, Plan, Underway
  <2>2. records[p.group] # None
    BY <1>3, <2>1 DEF Materialize, Resolved, Creates, Merges, Exists, Fits, Referenced, Sound
  <2>3. records' = records /\ teams' = [teams EXCEPT ![p.group] = p.name]
    BY <1>3 DEF Materialize, Resolved
  <2> QED  BY <2>1, <2>2, <2>3 DEF Referenced, Sound, TypeOK
<1>4. UNCHANGED teams \/ UNCHANGED records
  BY OnlyCommit DEF Commit
<1> QED  BY <1>1, <1>2, <1>3, <1>4, OnlyCommit, TeamWriters

-----------------------------------------------------------------------------
(* Passwords *)

\* A request carries the passwords that it carried, unless it applies or is shown.
LEMMA FreshKept ==
    ASSUME TypeOK, Underway, [Next]_vars, NEW i \in Slots,
           \A k \in Slots : ~Commit(k) /\ ~Shown(k)
    PROVE  calls'[i].fresh = calls[i].fresh
<1>0. \A k \in Slots : calls[k] \in Call /\ Fits(calls[k])
  BY DEF TypeOK, Underway
<1>1. CASE calls' = calls
  BY <1>1
<1>2. ASSUME NEW a \in Admins, NEW step \in Steps, NEW b \in 0 .. MaxBatches, Ask(a, step, b)
      PROVE  calls'[i].fresh = calls[i].fresh
  <2>1. PICK k \in Slots :
             /\ calls[k].step = "none"
             /\ calls' = [calls EXCEPT ![k] = [step |-> step, admin |-> a, batch |-> b,
                                              plans |-> {}, fresh |-> {}]]
    BY <1>2, Asking
  <2> QED  BY <1>0, <2>1 DEF TypeOK, Fits
<1>3. ASSUME NEW a \in Admins, Admin(a) PROVE calls'[i].fresh = calls[i].fresh
  <2>1. \A b \in Batches : b \in 0 .. MaxBatches
    BY ImportAssumption DEF Batches
  <2>2. page[a].batch \in 0 .. MaxBatches /\ {"show", "apply", "retry"} \subseteq Steps
    BY DEF TypeOK, Steps
  <2>3. \E step \in Steps, b \in 0 .. MaxBatches : Ask(a, step, b)
    BY <1>3, <2>1, <2>2 DEF Admin, Validate, Show, PressApply, PressRetry
  <2> QED  BY <1>2, <2>3
<1>4. ASSUME NEW k \in Slots, Server(k) PROVE calls'[i].fresh = calls[i].fresh
  <2>1. CASE Again(k) \/ Materialized(k)
    <3>1. PICK step : calls' = [calls EXCEPT ![k].step = step]
      BY <2>1 DEF Again, Materialized, Goes
    <3> QED  BY <1>0, <3>1 DEF TypeOK, Call
  <2>2. CASE Conflict(k)
    BY <1>0, <2>2 DEF Conflict, Ends, NoCall, TypeOK, Fits
  <2>3. CASE Plans(k)
    <3>1. PICK step, P : calls' = [calls EXCEPT ![k].step = step, ![k].plans = P]
      BY <2>3 DEF Plans
    <3> QED  BY <1>0, <3>1 DEF TypeOK, Call
  <2>4. ASSUME NEW p \in calls[k].plans, Past(k, p) PROVE calls'[i].fresh = calls[i].fresh
    BY <1>0, <2>4 DEF Past, TypeOK, Call
  <2> QED  BY <1>4, <2>1, <2>2, <2>3, <2>4
           DEF Server, Materialize, Leave, Unresolved, Resolved, Unchanged
<1>5. ASSUME NEW k \in Slots, Lose(k) PROVE calls'[i].fresh = calls[i].fresh
  BY <1>0, <1>5 DEF Lose, TypeOK, Call
<1> QED  BY <1>1, <1>3, <1>4, <1>5 DEF Next, vars, Unlink, ManualLink

\* HandedOnce is kept: passwords are made for students without an account, and
\* leave their request when they are shown.
LEMMA HandedStep ==
    ASSUME TypeOK, Underway, HandedOnce, [Next]_vars
    PROVE  HandedOnce'
<1>0. \A k \in Slots : calls[k] \in Call /\ Fits(calls[k])
  BY DEF TypeOK, Underway
<1>1. ASSUME \A k \in Slots : ~Commit(k) /\ ~Shown(k) PROVE HandedOnce'
  <2>1. UNCHANGED <<accounts, handed>>
    BY ZenonT(60), <1>1 DEF Next, vars, Admin, Server, Validate, Show, PressApply, PressRetry, Again, Conflict,
         Plans, Materialized, Materialize, Leave, Unresolved, Resolved, Unchanged, Unlink, ManualLink, Lose
  <2>2. \A i \in Slots : calls'[i].fresh = calls[i].fresh
    BY <1>1, FreshKept
  <2> QED  BY <2>1, <2>2 DEF HandedOnce
<1>2. ASSUME NEW k \in Slots, Commit(k) PROVE HandedOnce'
  <2> DEFINE step == AfterApply(calls[k].batch)
             new == Newcomers(calls[k].batch, Effect(calls[k].batch))
  <2>1. /\ calls' = [calls EXCEPT ![k].step = step, ![k].fresh = new]
        /\ accounts' = [s \in Students |-> IF s \in new THEN "temporary" ELSE accounts[s]]
        /\ handed' = handed
        /\ calls[k].fresh = {}
    BY <1>0, <1>2 DEF Commit, Fits
  <2>2. new \subseteq Students /\ \A s \in new : accounts[s] = "none"
    BY DEF Newcomers
  <2> HIDE DEF step, new
  <2>3. calls'[k].fresh = new /\ \A i \in Slots : i # k => calls'[i].fresh = calls[i].fresh
    BY <1>0, <2>1 DEF TypeOK, Call
  <2>4. ASSUME NEW s \in new
        PROVE  (\A i \in Slots : s \notin calls[i].fresh) /\ (\A a \in Admins : s \notin handed[a])
    BY <2>2 DEF HandedOnce
  <2>5. ASSUME NEW s \in Students, accounts'[s] = "temporary"
        PROVE  (\E i \in Slots : s \in calls'[i].fresh) \/ (\E a \in Admins : s \in handed'[a])
    <3>1. CASE s \in new
      BY <2>3, <3>1
    <3>2. CASE s \notin new
      <4>1. accounts[s] = "temporary"
        BY <2>1, <2>5, <3>2
      <4>2. CASE \E a \in Admins : s \in handed[a]
        BY <2>1, <4>2
      <4>3. ASSUME NEW i \in Slots, s \in calls[i].fresh PROVE i # k
        BY <2>1, <4>3
      <4> QED  BY <2>3, <4>1, <4>2, <4>3 DEF HandedOnce
    <3> QED  BY <3>1, <3>2
  <2>6. ASSUME NEW s \in Students, NEW i \in Slots, s \in calls'[i].fresh
        PROVE  /\ accounts'[s] = "temporary"
               /\ \A j \in Slots : s \in calls'[j].fresh => j = i
               /\ \A a \in Admins : s \notin handed'[a]
    <3>1. CASE s \in new
      BY <2>1, <2>3, <2>4, <2>6, <3>1
    <3>2. CASE s \notin new
      BY ZenonT(60), <2>1, <2>3, <2>6, <3>2 DEF HandedOnce
    <3> QED  BY <3>1, <3>2
  <2>7. ASSUME NEW s \in Students, NEW a \in Admins, s \in handed'[a]
        PROVE  accounts'[s] = "temporary" /\ \A o \in Admins : s \in handed'[o] => o = a
    BY <2>1, <2>7 DEF HandedOnce
  <2> QED  BY <2>5, <2>6, <2>7 DEF HandedOnce
<1>3. ASSUME NEW k \in Slots, Shown(k) PROVE HandedOnce'
  <2> DEFINE a == calls[k].admin
             F == calls[k].fresh
  <2>1. /\ a \in Admins
        /\ accounts' = accounts
        /\ handed' = [handed EXCEPT ![a] = handed[a] \cup F]
        /\ calls' = [calls EXCEPT ![k] = NoCall]
    BY <1>0, <1>3 DEF Shown, Ends, Fits
  <2>2. calls'[k].fresh = {} /\ \A i \in Slots : i # k => calls'[i].fresh = calls[i].fresh
    BY <2>1 DEF TypeOK, NoCall
  <2>3. handed'[a] = handed[a] \cup F /\ \A o \in Admins : o # a => handed'[o] = handed[o]
    BY <2>1 DEF TypeOK
  <2>4. ASSUME NEW s \in Students, accounts'[s] = "temporary"
        PROVE  (\E i \in Slots : s \in calls'[i].fresh) \/ (\E o \in Admins : s \in handed'[o])
    <3>1. CASE s \in F
      BY <2>1, <2>3, <3>1
    <3>2. CASE \E o \in Admins : s \in handed[o]
      BY <2>1, <2>3, <3>2
    <3>3. CASE \E i \in Slots : i # k /\ s \in calls[i].fresh
      BY <2>2, <3>3
    <3> QED  BY <2>1, <2>4, <3>1, <3>2, <3>3 DEF HandedOnce
  <2>5. ASSUME NEW s \in Students, NEW i \in Slots, s \in calls'[i].fresh
        PROVE  /\ accounts'[s] = "temporary"
               /\ \A j \in Slots : s \in calls'[j].fresh => j = i
               /\ \A o \in Admins : s \notin handed'[o]
    <3>1. i # k /\ s \in calls[i].fresh /\ s \notin F
      BY <2>2, <2>5 DEF HandedOnce
    <3> QED  BY <2>1, <2>2, <2>3, <3>1 DEF HandedOnce
  <2>6. ASSUME NEW s \in Students, NEW o \in Admins, s \in handed'[o]
        PROVE  accounts'[s] = "temporary" /\ \A x \in Admins : s \in handed'[x] => x = o
    <3>1. CASE s \in F
      <4>1. \A x \in Admins : s \notin handed[x]
        BY <3>1 DEF HandedOnce
      <4>2. o = a
        BY <2>3, <2>6, <4>1
      <4>3. accounts[s] = "temporary"
        BY <3>1 DEF HandedOnce
      <4> QED  BY <2>1, <2>3, <4>1, <4>2, <4>3
    <3>2. CASE s \notin F
      <4>1. \A x \in Admins : s \in handed'[x] <=> s \in handed[x]
        BY <2>1, <2>3, <3>2
      <4> QED  BY <2>1, <2>6, <4>1 DEF HandedOnce
    <3> QED  BY <3>1, <3>2
  <2> QED  BY <2>4, <2>5, <2>6 DEF HandedOnce
<1> QED  BY <1>1, <1>2, <1>3
-----------------------------------------------------------------------------
(* Teams that are missing *)

\* The request is still to materialize the Team, or was cut off before.
Awaits(i, g) ==
    \/ calls[i].step \in {"plans", "lost"} /\ Names(calls[i].batch, g)
    \/ calls[i].step = "team" /\ \E p \in calls[i].plans : p.group = g

Told(g) == (\E b \in Batches : g \in batches[b].unresolved) \/ (\E i \in Slots : Awaits(i, g))

\* What a batch reports stays reported until the Team is there.
LEMMA ReportStays ==
    ASSUME TypeOK, Underway, BatchesReviewed, [Next]_vars, NEW g \in Groups, teams'[g] = None,
           NEW b \in Batches, g \in batches[b].unresolved
    PROVE  g \in batches'[b].unresolved
<1>1. ASSUME NEW a \in Admins, NEW op \in Operations, NEW K \in Uploads, Validate(a, op, K)
      PROVE  g \in batches'[b].unresolved
  <2>1. PICK c \in Batches : batches[c].status = "NONE" /\ \E v : batches' = [batches EXCEPT ![c] = v]
    BY <1>1 DEF Validate
  <2>2. b # c
    BY <2>1 DEF BatchesReviewed
  <2> QED  BY <2>1, <2>2 DEF TypeOK
<1>2. ASSUME NEW i \in Slots, Commit(i) PROVE g \in batches'[b].unresolved
  <2>1. batches' = [batches EXCEPT ![calls[i].batch].status = "APPLIED"]
    BY <1>2 DEF Commit
  <2> QED  BY <2>1 DEF TypeOK, Batch
<1>3. ASSUME NEW i \in Slots, NEW p \in calls[i].plans, Unresolved(i, p)
      PROVE  g \in batches'[b].unresolved
  <2>1. batches' = [batches EXCEPT ![calls[i].batch].status = "PARTIAL",
                                  ![calls[i].batch].unresolved =
                                      batches[calls[i].batch].unresolved \cup {p.group}]
    BY <1>3 DEF Unresolved, Of
  <2> QED  BY <2>1 DEF TypeOK, Batch
<1>4. ASSUME NEW i \in Slots, NEW p \in calls[i].plans, Resolved(i, p)
      PROVE  g \in batches'[b].unresolved
  <2> DEFINE left == batches[calls[i].batch].unresolved \ {p.group}
             status == IF left = {} THEN "APPLIED" ELSE "PARTIAL"
  <2>1. batches' = [batches EXCEPT ![calls[i].batch].unresolved = left, ![calls[i].batch].status = status]
    BY <1>4 DEF Resolved, Of
  <2>2. p \in Plan /\ p.group \in Groups /\ p.name # None
    BY DEF TypeOK, Call, Plan, Underway, Fits
  <2>3. p.group # g
    BY <1>4, <2>2 DEF Resolved, TypeOK
  <2>4. b = calls[i].batch => g \in left
    BY <2>3
  <2> HIDE DEF left, status
  <2> QED  BY <2>1, <2>4 DEF TypeOK, Batch
<1> QED  BY <1>1, <1>2, <1>3, <1>4, BatchWriters

\* A batch names what it named.
LEMMA NamesStays ==
    ASSUME TypeOK, Underway, [Next]_vars, NEW i \in Slots, calls[i].step # "none", NEW g \in Groups,
           Names(calls[i].batch, g)
    PROVE  g \in batches'[calls[i].batch].rows
             \/ \E s \in Students : <<g, s>> \in batches'[calls[i].batch].rows
<1>1. calls[i].batch \in Batches /\ batches[calls[i].batch].status # "NONE"
  BY DEF Underway, Fits
<1>2. batches'[calls[i].batch].rows = batches[calls[i].batch].rows
  BY <1>1, BatchesStay
<1> QED  BY <1>2 DEF Names

\* A request that awaits a Team does so until the Team is there, or is reported.
LEMMA AwaitsUntilTold ==
    ASSUME TypeOK, Underway, [Next]_vars, NEW g \in Groups, records[g] # None, teams'[g] = None,
           NEW i \in Slots, Awaits(i, g)
    PROVE  Told(g)'
<1>0. /\ calls[i] \in Call /\ Fits(calls[i])
      /\ calls[i].step \in {"plans", "lost", "team"}
      /\ teams[g] = None
  BY TeamsStay DEF TypeOK, Underway, Awaits
<1>1. ASSUME calls[i].step \in {"plans", "lost"}, calls'[i].step \in {"plans", "lost"},
             calls'[i].batch = calls[i].batch
      PROVE  Told(g)'
  BY <1>1, NamesStays DEF Told, Awaits, Names
<1>2. CASE calls'[i] = calls[i]
  BY <1>0, <1>1, <1>2 DEF Told, Awaits
<1>3. ASSUME calls'[i] # calls[i], NEW a \in Admins, Admin(a) PROVE FALSE
  <2>1. \A b \in Batches : b \in 0 .. MaxBatches
    BY ImportAssumption DEF Batches
  <2>2. page[a].batch \in 0 .. MaxBatches /\ {"show", "apply", "retry"} \subseteq Steps
    BY DEF TypeOK, Steps
  <2>3. PICK step \in Steps, b \in 0 .. MaxBatches : Ask(a, step, b)
    BY <1>3, <2>1, <2>2 DEF Admin, Validate, Show, PressApply, PressRetry
  <2>4. PICK k \in Slots : calls[k].step = "none" /\ \E c : calls' = [calls EXCEPT ![k] = c]
    BY <2>3, Asking
  <2> QED  BY <1>0, <1>3, <2>4 DEF TypeOK
<1>4. ASSUME calls'[i] # calls[i], NEW k \in Slots, Commit(k) \/ Again(k) \/ Conflict(k) \/ Shown(k)
      PROVE  FALSE
  <2>1. calls[k].step \in {"apply", "show"}
    BY <1>4 DEF Commit, Again, Conflict, Shown
  <2>2. i # k
    BY <1>0, <2>1
  <2>3. PICK c : calls' = [calls EXCEPT ![k] = c]
    BY <1>4 DEF Commit, Again, Conflict, Shown, Goes, Ends
  <2> QED  BY <1>4, <2>2, <2>3 DEF TypeOK
<1>5. ASSUME calls'[i] # calls[i], NEW k \in Slots, Plans(k) PROVE Told(g)'
  <2> DEFINE plan(h) == [group |-> h, name |-> records[h], existing |-> teams[h] # None,
                         resolved |-> Writers(h) # {} /\ \A s \in Writers(h) : Linked(s)]
             named == {h \in Groups : Exists(h) /\ Names(calls[k].batch, h)}
             P == {plan(h) : h \in named}
             step == IF calls[k].step = "plans" THEN "team" ELSE "again"
  <2>1. calls' = [calls EXCEPT ![k].step = step, ![k].plans = P] /\ calls[k].step \in {"plans", "retry"}
    BY <1>5 DEF Plans
  <2>2. calls[k].step = "plans" => step = "team"
    OBVIOUS
  <2>3. Names(calls[k].batch, g) => \E p \in P : p.group = g
    <3>1. Names(calls[k].batch, g) => g \in named
      BY DEF Exists
    <3>2. g \in named => plan(g) \in P
      OBVIOUS
    <3>3. plan(g).group = g
      OBVIOUS
    <3> QED  BY <3>1, <3>2, <3>3
  <2> HIDE DEF P, step
  <2>4. i = k
    BY <1>5, <2>1 DEF TypeOK
  <2>5. calls[i].step = "plans" /\ Names(calls[i].batch, g)
    BY <1>0, <2>1, <2>4 DEF Awaits
  <2>6. calls'[i].step = "team" /\ calls'[i].plans = P
    BY <1>0, <2>1, <2>2, <2>4, <2>5 DEF TypeOK, Call
  <2> QED  BY <2>3, <2>4, <2>5, <2>6 DEF Told, Awaits
<1>6. ASSUME calls'[i] # calls[i], NEW k \in Slots, Materialized(k) PROVE FALSE
  <2>1. calls[k].plans = {} /\ calls[k].step \in {"team", "again"} /\ calls' = [calls EXCEPT ![k].step = "show"]
    BY <1>6 DEF Materialized, Goes
  <2>2. i = k
    BY <1>6, <2>1 DEF TypeOK
  <2> QED  BY <2>1, <2>2 DEF Awaits
<1>7. ASSUME calls'[i] # calls[i], NEW k \in Slots, NEW p \in calls[k].plans,
             Materialize(k, p) \/ Leave(k, p) \/ Unresolved(k, p) \/ Resolved(k, p) \/ Unchanged(k, p)
      PROVE  Told(g)'
  <2>1. calls[k].step \in {"team", "again"} /\ calls' = [calls EXCEPT ![k].plans = calls[k].plans \ {p}]
    BY <1>7 DEF Materialize, Leave, Unresolved, Resolved, Unchanged, Planned, Past
  <2>2. i = k
    BY <1>7, <2>1 DEF TypeOK
  <2>3. calls[k].step = "team" /\ calls'[i].step = "team" /\ calls'[i].plans = calls[i].plans \ {p}
    BY <1>0, <2>1, <2>2 DEF TypeOK, Call
  <2>4. PICK q \in calls[i].plans : q.group = g
    BY <2>2, <2>3 DEF Awaits
  <2>5. CASE q # p
    BY <2>3, <2>4, <2>5 DEF Told, Awaits
  <2>6. CASE q = p
    <3>1. p.group = g /\ p.name # None /\ ~p.existing
      BY <1>0, <2>2, <2>4, <2>6 DEF Fits
    <3>2. ~Materialize(k, p)
      BY <3>1 DEF Materialize, TypeOK
    <3>3. Unresolved(k, p)
      BY <1>7, <2>3, <3>1, <3>2 DEF Leave, Resolved, Unchanged, Planned
    <3>4. calls[k].batch \in Batches
      BY <1>0, <2>2, <2>3 DEF Fits
    <3>5. batches' = [batches EXCEPT ![calls[k].batch].status = "PARTIAL",
                                    ![calls[k].batch].unresolved =
                                        batches[calls[k].batch].unresolved \cup {g}]
      BY <3>1, <3>3 DEF Unresolved, Of
    <3>6. g \in batches'[calls[k].batch].unresolved
      BY <3>4, <3>5 DEF TypeOK, Batch
    <3> QED  BY <3>4, <3>6 DEF Told
  <2> QED  BY <2>5, <2>6
<1>8. ASSUME calls'[i] # calls[i], NEW k \in Slots, Lose(k) PROVE Told(g)'
  <2>1. calls' = [calls EXCEPT ![k].step = "lost", ![k].admin = None, ![k].plans = {}]
    BY <1>8 DEF Lose
  <2>2. i = k
    BY <1>8, <2>1 DEF TypeOK
  <2>3. calls'[i].step = "lost" /\ calls'[i].batch = calls[i].batch
    BY <1>0, <2>1, <2>2 DEF TypeOK, Call
  <2>4. Names(calls[i].batch, g)
    BY <1>0 DEF Awaits, Fits
  <2> QED  BY <1>0, <2>3, <2>4, NamesStays DEF Told, Awaits, Names
<1>9. ASSUME calls'[i] # calls[i], NEW k \in Slots, Server(k) PROVE Told(g)'
  <2>1. \/ Commit(k) \/ Again(k) \/ Conflict(k) \/ Plans(k) \/ Materialized(k)
        \/ \E p \in calls[k].plans :
             Materialize(k, p) \/ Leave(k, p) \/ Unresolved(k, p) \/ Resolved(k, p) \/ Unchanged(k, p)
    BY <1>9 DEF Server
  <2> QED  BY <1>9, <1>4, <1>5, <1>6, <1>7, <2>1
<1>10. CASE calls'[i] # calls[i]
  <2>1. \/ \E a \in Admins : Admin(a)
        \/ \E k \in Slots : Server(k) \/ Shown(k) \/ Lose(k)
    BY <1>10 DEF Next, vars, Unlink, ManualLink
  <2> QED  BY <1>3, <1>4, <1>8, <1>9, <1>10, <2>1
<1> QED  BY <1>2, <1>10

\* NoSilentTeam is kept: whoever adds an assignment goes on to its Team.
LEMMA NoSilentStep ==
    ASSUME TypeOK, Underway, BatchesReviewed, NoSilentTeam, [Next]_vars
    PROVE  NoSilentTeam'
<1> SUFFICES ASSUME NEW g \in Groups, records'[g] # None, teams'[g] = None PROVE Told(g)'
  BY DEF NoSilentTeam, Exists, Told, Awaits
<1>1. teams[g] = None
  BY TeamsStay
<1>2. CASE records[g] # None
  <2>1. Told(g)
    BY <1>1, <1>2 DEF NoSilentTeam, Exists, Told, Awaits
  <2>2. ASSUME NEW b \in Batches, g \in batches[b].unresolved PROVE Told(g)'
    BY <2>2, ReportStays DEF Told
  <2>3. ASSUME NEW i \in Slots, Awaits(i, g) PROVE Told(g)'
    BY <1>2, <2>3, AwaitsUntilTold
  <2>4. (\E b \in Batches : g \in batches[b].unresolved) \/ (\E i \in Slots : Awaits(i, g))
    BY <2>1 DEF Told
  <2> QED  BY <2>2, <2>3, <2>4
<1>3. CASE records[g] = None
  <2>1. PICK k \in Slots : Commit(k)
    BY <1>3, OnlyCommit
  <2> DEFINE b == calls[k].batch
             step == AfterApply(b)
             new == Newcomers(b, Effect(b))
  <2>2. b \in Batches /\ batches[b].status # "NONE" /\ calls[k].step = "apply" /\ calls[k] \in Call
    BY <2>1 DEF Commit, Underway, Fits, TypeOK
  <2>3. records' = Effect(b) /\ calls' = [calls EXCEPT ![k].step = step, ![k].fresh = new]
    BY <2>1 DEF Commit
  <2>4. g \in Keys
    BY DEF Keys
  <2>5. g \in batches[b].todo /\ batches[b].op # "DELETE"
    BY <1>3, <2>3, <2>4 DEF Effect
  <2>6. step = "plans" /\ Names(b, g)
    BY <2>2, <2>5 DEF AfterApply, BatchesReviewed, Names
  <2> HIDE DEF step, new
  <2>7. calls'[k].step = "plans" /\ calls'[k].batch = b
    BY <2>2, <2>3, <2>6 DEF TypeOK, Call
  <2> QED  BY <2>2, <2>6, <2>7, NamesStays DEF Told, Awaits, Names
<1> QED  BY <1>2, <1>3

-----------------------------------------------------------------------------
(* The theorems *)

LEMMA InitIInv == Init => IInv
<1> SUFFICES ASSUME Init PROVE IInv
  OBVIOUS
<1>1. TypeOK
  <2>1. None \in Written /\ 0 \in Written /\ 0 \in 0 .. MaxBatches
    BY ImportAssumption DEF Written
  <2>2. NoBatch \in Batch /\ NoCall \in Call
    BY <2>1 DEF NoBatch, Batch, Operations, Statuses, NoCall, Call, Steps
  <2>3. records \in [Keys -> Written] /\ teams \in [Groups -> Written]
    BY <2>1 DEF Init, Keys
  <2>4. [batch |-> 0, status |-> "NONE"] \in [batch : 0 .. MaxBatches, status : Statuses]
    BY <2>1 DEF Statuses
  <2> QED  BY <2>1, <2>2, <2>3, <2>4 DEF Init, TypeOK
<1>2. Underway
  BY DEF Init, Underway, Fits, NoCall
<1>3. BatchesReviewed /\ PageKnows
  BY DEF Init, BatchesReviewed, PageKnows, NoBatch
<1>4. HandedOnce
  BY DEF Init, HandedOnce, NoCall
<1>5. Referenced /\ NoSilentTeam
  BY DEF Init, Referenced, NoSilentTeam, Exists
<1> QED  BY <1>1, <1>2, <1>3, <1>4, <1>5 DEF IInv

LEMMA IInvHolds == Spec => []IInv
<1>1. IInv /\ [Next]_vars => IInv'
  <2> SUFFICES ASSUME IInv, [Next]_vars PROVE IInv'
    OBVIOUS
  <2>1. TypeOK /\ Underway /\ BatchesReviewed /\ PageKnows /\ HandedOnce /\ Referenced /\ NoSilentTeam
    BY DEF IInv
  <2>2. TypeOK' /\ Underway' /\ PageKnows'
    BY <2>1, TypeStep, UnderwayStep, PageStep
  <2>3. BatchesReviewed' /\ Referenced'
    BY <2>1, ReviewedStep, ReferencedStep
  <2>4. HandedOnce' /\ NoSilentTeam'
    BY <2>1, HandedStep, NoSilentStep
  <2> QED  BY <2>2, <2>3, <2>4 DEF IInv
<1> QED  BY <1>1, InitIInv, PTL DEF Spec

\* Every record, account, batch, request and page keeps its type, whatever overlaps.
THEOREM ImportsTypeCorrect == Spec => []TypeOK
<1>1. IInv => TypeOK
  BY DEF IInv
<1> QED  BY <1>1, IInvHolds, PTL

\* A temporary password that provision_import_accounts_tx makes reaches at most one
\* Admin and is made once, for any number of batches, repeated requests and lost answers.
THEOREM PasswordsHandedOnce == Spec => []HandedOnce
<1>1. IInv => HandedOnce
  BY DEF IInv
<1> QED  BY <1>1, IInvHolds, PTL

\* apply_batch leaves no record without what it refers to and no Team without its
\* assignment, whatever was added or deleted since the batch was reviewed.
THEOREM ReferencesWhole == Spec => []Referenced
<1>1. IInv => Referenced
  BY DEF IInv
<1> QED  BY <1>1, IInvHolds, PTL

\* Each assignment without a Team is reported by mark_team_unresolved, or awaited by a
\* request that is under way or was cut off by a restart.
THEOREM NoTeamMissedSilently == Spec => []NoSilentTeam
<1>1. IInv => NoSilentTeam
  BY DEF IInv
<1> QED  BY <1>1, IInvHolds, PTL
=============================================================================
