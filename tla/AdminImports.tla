---------------------------- MODULE AdminImports ----------------------------
(***************************************************************************)
(* Institution imports: a batch of rows is validated, reviewed by an Admin,   *)
(* applied in one transaction that also provisions accounts, and the Paper     *)
(* Teams it assigns are materialized one by one                                *)
(* (crates/persistence/src/institution.rs, services/server/src/main.rs), from  *)
(* the Imports section of the Admin's page (services/server/static/admin.js).  *)
(*                                                                         *)
(* Three datasets stand for all: students, paper_teams and, a row per Team and *)
(* Writer, paper_team_writers.  What a record says is the batch that wrote it. *)
(* A batch is one file, so its job and it have one status; the Leader is one   *)
(* of the Writers.  A button is never disabled while its request is under way. *)
(***************************************************************************)
EXTENDS Naturals, FiniteSets

CONSTANTS
    Students, Groups, Admins, None,
    Faults,         \* "drop": an answer is lost; "crash": the server restarts
    Uploads,        \* bound: the sets of rows that an Admin puts into one batch
    MaxBatches,     \* bound: batches validated
    MaxCalls        \* bound: requests under way or lost

VARIABLES
    records,    \* the vcap tables: the batch that wrote each record
    accounts,   \* the credentials of each student's email address
    unlinked,   \* the students that an Admin unlinked
    teams,      \* external_paper_team_links, and the batch that named the Team
    batches,    \* institution_import_batches
    calls,      \* what the server, and then the page, still has of each request
    page,       \* the batch that each Admin's page shows, and its status when loaded
    handed      \* the students whose passwords each Admin was given

vars == <<records, accounts, unlinked, teams, batches, calls, page, handed>>

Seats == Groups \X Students
Keys == Students \cup Groups \cup Seats
Refs(k) == IF k \in Seats THEN {k[1], k[2]} ELSE {}

ASSUME ImportAssumption ==
    /\ Faults \subseteq {"drop", "crash"}
    /\ Uploads \subseteq SUBSET Keys
    /\ MaxBatches \in Nat /\ MaxCalls \in Nat
    /\ None \notin Nat

Batches == 1 .. MaxBatches
Slots == 1 .. MaxCalls
Written == {None} \cup 0 .. MaxBatches
Operations == {"ADD", "EDIT", "DELETE"}
Done == {"APPLIED", "PARTIAL"}
Statuses == {"NONE", "VALIDATED", "FAILED"} \cup Done

Batch == [op : Operations, rows : SUBSET Keys, todo : SUBSET Keys,
          status : Statuses, unresolved : SUBSET Groups]

\* ImportedTeamPlan
Plan == [group : Groups, name : Written, existing : BOOLEAN, resolved : BOOLEAN]

Steps == {"none", "apply", "plans", "team", "retry", "again", "show", "lost"}
Call == [step : Steps, admin : {None} \cup Admins, batch : 0 .. MaxBatches,
         plans : SUBSET Plan, fresh : SUBSET Students]

TypeOK ==
    /\ records \in [Keys -> Written]
    /\ accounts \in [Students -> {"none", "own", "temporary"}]
    /\ unlinked \subseteq Students
    /\ teams \in [Groups -> Written]
    /\ batches \in [Batches -> Batch]
    /\ calls \in [Slots -> Call]
    /\ page \in [Admins -> [batch : 0 .. MaxBatches, status : Statuses]]
    /\ handed \in [Admins -> SUBSET Students]

-----------------------------------------------------------------------------
NoBatch == [op |-> "ADD", rows |-> {}, todo |-> {}, status |-> "NONE", unresolved |-> {}]
NoCall == [step |-> "none", admin |-> None, batch |-> 0, plans |-> {}, fresh |-> {}]

Free(i) == calls[i].step = "none" /\ \A j \in Slots : j < i => calls[j].step # "none"
Ask(a, step, b) ==
    \E i \in Slots : Free(i) /\ calls' = [calls EXCEPT ![i] = [NoCall EXCEPT !.admin = a, !.step = step, !.batch = b]]

\* What an Admin does beside a request of its own, another Admin may do as well; only
\* buttons are pressed twice.
Idle(a) == \A i \in Slots : calls[i].admin # a

Goes(i, step) == calls' = [calls EXCEPT ![i].step = step]
Ends(i) == calls' = [calls EXCEPT ![i] = NoCall]
Of(i) == batches[calls[i].batch]

Exists(k) == records[k] # None
InUse(k) ==
    \/ \E j \in Keys : Exists(j) /\ k \in Refs(j)
    \/ k \in Groups /\ teams[k] # None
    \/ k \in Seats /\ teams[k[1]] # None

\* validate_cross_rows, assign_actions, validate_database_references and
\* validate_delete_dependencies
Wrong(op, K) ==
    \/ K \cap Seats # {} /\ \E g \in K \cap Groups : \A s \in Students : <<g, s>> \notin K
    \/ \E k \in K :
         \/ op = "ADD" /\ \E r \in Refs(k) : ~Exists(r) /\ r \notin K
         \/ op # "ADD" /\ ~Exists(k)
         \/ op = "DELETE" /\ InUse(k)

\* "Review changes": the batch is stored with what its rows are to do, and shown.
Validate(a, op, K) ==
    /\ Idle(a)
    /\ \E b \in Batches :
         /\ batches[b].status = "NONE" /\ \A e \in Batches : e < b => batches[e].status # "NONE"
         /\ batches' = [batches EXCEPT ![b] =
                [op |-> op, rows |-> K,
                 todo |-> IF op = "ADD" THEN {k \in K : ~Exists(k)} ELSE K,
                 status |-> IF Wrong(op, K) THEN "FAILED" ELSE "VALIDATED",
                 unresolved |-> {}]]
         /\ Ask(a, "show", b)
    /\ UNCHANGED <<records, accounts, unlinked, teams, page, handed>>

\* "View details" of the recent imports, or "Open Import Job" of a Team
Show(a, b) ==
    /\ Idle(a) /\ batches[b].status # "NONE"
    /\ Ask(a, "show", b)
    /\ UNCHANGED <<records, accounts, unlinked, teams, batches, page, handed>>

\* The button is disabled by the status the page was loaded with.
PressApply(a) ==
    /\ page[a].status = "VALIDATED"
    /\ Ask(a, "apply", page[a].batch)
    /\ UNCHANGED <<records, accounts, unlinked, teams, batches, page, handed>>

PressRetry(a) ==
    /\ page[a].status = "PARTIAL"
    /\ Ask(a, "retry", page[a].batch)
    /\ UNCHANGED <<records, accounts, unlinked, teams, batches, page, handed>>

-----------------------------------------------------------------------------
(* apply_batch *)

\* Wrong on purpose: a conflicting row is merged.
EffectMerging(b) ==
    [k \in Keys |->
        IF k \notin batches[b].todo THEN records[k]
        ELSE IF batches[b].op = "DELETE" THEN None
        ELSE IF batches[b].op = "EDIT" /\ ~Exists(k) THEN None ELSE b]

\* apply_query (ON CONFLICT DO NOTHING), update_query and delete_query
Effect(b) ==
    [k \in Keys |->
        IF k \notin batches[b].todo THEN records[k]
        ELSE IF batches[b].op = "DELETE" THEN None
        ELSE IF Exists(k) = (batches[b].op = "EDIT") THEN b ELSE records[k]]

\* Every foreign key is ON DELETE RESTRICT: the transaction fails.
Sound(R) ==
    /\ \A k \in Keys : R[k] # None => \A r \in Refs(k) : R[r] # None
    /\ \A g \in Groups : teams[g] # None => R[g] # None

\* Wrong on purpose: whoever is named gets a new password.
NewcomersAll(b, R) ==
    IF batches[b].op # "ADD" THEN {}
    ELSE {s \in Students :
            /\ R[s] # None
            /\ s \in batches[b].rows \/ \E g \in Groups : <<g, s>> \in batches[b].rows}

\* provision_import_accounts_tx: the students that the rows of an Add name, the
\* skipped ones included, and that have no account yet
Newcomers(b, R) ==
    IF batches[b].op # "ADD" THEN {}
    ELSE {s \in Students :
            /\ R[s] # None
            /\ accounts[s] = "none"
            /\ s \in batches[b].rows \/ \E g \in Groups : <<g, s>> \in batches[b].rows}

AfterApply(b) == IF batches[b].op = "DELETE" THEN "show" ELSE "plans"

\* Wrong on purpose: only a batch with errors is refused.
CommitAgain(i) ==
    LET b == calls[i].batch  R == Effect(b)  new == Newcomers(b, R)
    IN  /\ calls[i].step = "apply"
        /\ Of(i).status # "FAILED" /\ Sound(R)
        /\ records' = R
        /\ accounts' = [s \in Students |-> IF s \in new THEN "temporary" ELSE accounts[s]]
        /\ unlinked' = {s \in unlinked : R[s] # None}
        /\ batches' = [batches EXCEPT ![b].status = "APPLIED"]
        /\ calls' = [calls EXCEPT ![i].step = AfterApply(b), ![i].fresh = new]
        /\ UNCHANGED <<teams, page, handed>>

\* Wrong on purpose: no foreign key restricts a Delete.
CommitUnreferenced(i) ==
    LET b == calls[i].batch  R == Effect(b)  new == Newcomers(b, R)
    IN  /\ calls[i].step = "apply"
        /\ Of(i).status = "VALIDATED"
        /\ records' = R
        /\ accounts' = [s \in Students |-> IF s \in new THEN "temporary" ELSE accounts[s]]
        /\ unlinked' = {s \in unlinked : R[s] # None}
        /\ batches' = [batches EXCEPT ![b].status = "APPLIED"]
        /\ calls' = [calls EXCEPT ![i].step = AfterApply(b), ![i].fresh = new]
        /\ UNCHANGED <<teams, page, handed>>

\* The transaction: rows, accounts, identity links and status together
Commit(i) ==
    LET b == calls[i].batch  R == Effect(b)  new == Newcomers(b, R)
    IN  /\ calls[i].step = "apply"
        /\ Of(i).status = "VALIDATED" /\ Sound(R)
        /\ records' = R
        /\ accounts' = [s \in Students |-> IF s \in new THEN "temporary" ELSE accounts[s]]
        /\ unlinked' = {s \in unlinked : R[s] # None}
        /\ batches' = [batches EXCEPT ![b].status = "APPLIED"]
        /\ calls' = [calls EXCEPT ![i].step = AfterApply(b), ![i].fresh = new]
        /\ UNCHANGED <<teams, page, handed>>

\* Applied already: nothing is provisioned, but Teams are materialized again.
Again(i) ==
    /\ calls[i].step = "apply" /\ Of(i).status \in Done
    /\ Goes(i, AfterApply(calls[i].batch))
    /\ UNCHANGED <<records, accounts, unlinked, teams, batches, page, handed>>

Conflict(i) ==
    /\ calls[i].step = "apply"
    /\ Of(i).status = "FAILED" \/ (Of(i).status = "VALIDATED" /\ ~Sound(Effect(calls[i].batch)))
    /\ Ends(i)
    /\ UNCHANGED <<records, accounts, unlinked, teams, batches, page, handed>>

-----------------------------------------------------------------------------
(* Team materialization *)

Linked(s) == accounts[s] # "none" /\ s \notin unlinked
Writers(g) == {s \in Students : Exists(<<g, s>>)}
Names(b, g) == g \in batches[b].rows \/ \E s \in Students : <<g, s>> \in batches[b].rows

\* pending_team_plans, for apply and for retry
Plans(i) ==
    /\ calls[i].step \in {"plans", "retry"}
    /\ LET named == {g \in Groups : Exists(g) /\ Names(calls[i].batch, g)}
           plan(g) == [group |-> g, name |-> records[g], existing |-> teams[g] # None,
                       resolved |-> Writers(g) # {} /\ \A s \in Writers(g) : Linked(s)]
       IN  calls' = [calls EXCEPT ![i].step = IF calls[i].step = "plans" THEN "team" ELSE "again",
                                  ![i].plans = {plan(g) : g \in named}]
    /\ UNCHANGED <<records, accounts, unlinked, teams, batches, page, handed>>

Past(i, p) == calls' = [calls EXCEPT ![i].plans = calls[i].plans \ {p}]
Planned(i, p, step) == calls[i].step = step /\ p \in calls[i].plans

\* create_template_paper_team: the key of the link is unique, and the template may be
\* missing or not materializable.
Creates(p) == ~p.existing /\ p.resolved /\ teams[p.group] = None /\ Exists(p.group)

\* Of an Edit, whose Team takes what the plan says
Merges(i, p) == p.existing /\ p.resolved /\ (calls[i].step = "again" \/ Of(i).op = "EDIT")

Materialize(i, p) ==
    /\ Planned(i, p, "team")
    /\ Creates(p) \/ Merges(i, p)
    /\ teams' = [teams EXCEPT ![p.group] = p.name]
    /\ Past(i, p)
    /\ UNCHANGED <<records, accounts, unlinked, batches, page, handed>>

\* An Add leaves the Teams there are.
Leave(i, p) ==
    /\ Planned(i, p, "team")
    /\ p.existing /\ Of(i).op = "ADD"
    /\ Past(i, p)
    /\ UNCHANGED <<records, accounts, unlinked, teams, batches, page, handed>>

\* Wrong on purpose: a Team that could not be created is only counted.
UnresolvedCounted(i, p) ==
    /\ Planned(i, p, "team")
    /\ ~(p.existing /\ Of(i).op = "ADD") /\ ~Merges(i, p)
    /\ batches' = [batches EXCEPT ![calls[i].batch].status = "PARTIAL",
                                  ![calls[i].batch].unresolved =
                                      IF p.resolved THEN Of(i).unresolved
                                      ELSE Of(i).unresolved \cup {p.group}]
    /\ Past(i, p)
    /\ UNCHANGED <<records, accounts, unlinked, teams, page, handed>>

\* mark_team_unresolved: identities are missing, or the Team cannot be created.
Unresolved(i, p) ==
    /\ Planned(i, p, "team")
    /\ ~(p.existing /\ Of(i).op = "ADD") /\ ~Merges(i, p)
    /\ batches' = [batches EXCEPT ![calls[i].batch].status = "PARTIAL",
                                  ![calls[i].batch].unresolved = Of(i).unresolved \cup {p.group}]
    /\ Past(i, p)
    /\ UNCHANGED <<records, accounts, unlinked, teams, page, handed>>

\* retry_teams, and mark_team_resolved
Resolved(i, p) ==
    /\ Planned(i, p, "again")
    /\ Creates(p) \/ Merges(i, p)
    /\ teams' = [teams EXCEPT ![p.group] = p.name]
    /\ LET left == Of(i).unresolved \ {p.group}
       IN  batches' = [batches EXCEPT ![calls[i].batch].unresolved = left,
                                      ![calls[i].batch].status = IF left = {} THEN "APPLIED" ELSE "PARTIAL"]
    /\ Past(i, p)
    /\ UNCHANGED <<records, accounts, unlinked, page, handed>>

\* A retry that fails leaves the row as it is.
Unchanged(i, p) ==
    /\ Planned(i, p, "again")
    /\ ~Merges(i, p)
    /\ Past(i, p)
    /\ UNCHANGED <<records, accounts, unlinked, teams, batches, page, handed>>

\* The batch is read again for the answer, which still carries the passwords.
Materialized(i) ==
    /\ calls[i].step \in {"team", "again"} /\ calls[i].plans = {}
    /\ Goes(i, "show")
    /\ UNCHANGED <<records, accounts, unlinked, teams, batches, page, handed>>

-----------------------------------------------------------------------------
(* The page *)

\* The answer is announced and showSection loads the batch (renderBatchDetail,
\* renderImportDetail), whatever the Admin opened since; then showCredentialHandoff
\* downloads the passwords.
Shown(i) ==
    /\ calls[i].step = "show"
    /\ LET a == calls[i].admin
       IN  /\ page' = [page EXCEPT ![a] = [batch |-> calls[i].batch, status |-> Of(i).status]]
           /\ handed' = [handed EXCEPT ![a] = handed[a] \cup calls[i].fresh]
    /\ Ends(i)
    /\ UNCHANGED <<records, accounts, unlinked, teams, batches>>

\* renderIdentityLinkManager
Unlink(s) ==
    /\ Exists(s) /\ s \notin unlinked
    /\ \A g \in Groups : Exists(<<g, s>>) => teams[g] = None
    /\ unlinked' = unlinked \cup {s}
    /\ UNCHANGED <<records, accounts, teams, batches, calls, page, handed>>

ManualLink(s) ==
    /\ s \in unlinked /\ accounts[s] # "none"
    /\ unlinked' = unlinked \ {s}
    /\ UNCHANGED <<records, accounts, teams, batches, calls, page, handed>>

\* The server restarts between two transactions, or an answer is lost.
Lose(i) ==
    /\ \/ "crash" \in Faults /\ calls[i].step \in {"plans", "team", "again"}
       \/ "drop" \in Faults /\ calls[i].step = "show" /\ calls[i].fresh # {}
    /\ \A j \in Slots : calls[j].step # "lost"
    /\ calls' = [calls EXCEPT ![i].step = "lost", ![i].admin = None, ![i].plans = {}]
    /\ UNCHANGED <<records, accounts, unlinked, teams, batches, page, handed>>

-----------------------------------------------------------------------------
\* Whoever is there already was provisioned long ago; an assignment has its Team.
Init ==
    /\ records \in [Keys -> {None, 0}]
    /\ accounts \in [Students -> {"none", "own"}]
    /\ teams = [g \in Groups |-> records[g]]
    /\ Sound(records)
    /\ \A k \in Seats : records[k] # None => accounts[k[2]] # "none"
    /\ unlinked = {}
    /\ batches = [b \in Batches |-> NoBatch]
    /\ calls = [i \in Slots |-> NoCall]
    /\ page = [a \in Admins |-> [batch |-> 0, status |-> "NONE"]]
    /\ handed = [a \in Admins |-> {}]

Server(i) ==
    \/ Commit(i) \/ Again(i) \/ Conflict(i) \/ Plans(i) \/ Materialized(i)
    \/ \E p \in calls[i].plans :
         Materialize(i, p) \/ Leave(i, p) \/ Unresolved(i, p) \/ Resolved(i, p) \/ Unchanged(i, p)

Admin(a) ==
    \/ \E op \in Operations, K \in Uploads : Validate(a, op, K)
    \/ \E b \in Batches : Show(a, b)
    \/ PressApply(a) \/ PressRetry(a)

Next ==
    \/ \E a \in Admins : Admin(a)
    \/ \E s \in Students : Unlink(s) \/ ManualLink(s)
    \/ \E i \in Slots : Server(i) \/ Shown(i) \/ Lose(i)

Spec == Init /\ [][Next]_vars
=============================================================================
