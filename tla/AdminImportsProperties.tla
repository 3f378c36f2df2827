----------------------- MODULE AdminImportsProperties -----------------------
(***************************************************************************)
(* What an import promises to the Admins who run several at once, press      *)
(* buttons twice and lose answers, and what overlapping ones do not keep.     *)
(***************************************************************************)
EXTENDS AdminImports

\* INSTITUTION_IMPORT_FORMAT.md:39, "The Add response hands the plaintext to the
\* Admin once": the temporary password of each account that imports created is on its
\* way to one Admin, or was given to one, or was lost with its answer; batches
\* applied twice and people named by two batches make no second one.
HandedOnce ==
    /\ \A s \in Students : accounts[s] = "temporary" =>
          (\E i \in Slots : s \in calls[i].fresh) \/ (\E a \in Admins : s \in handed[a])
    /\ \A s \in Students, i \in Slots : s \in calls[i].fresh =>
          /\ accounts[s] = "temporary"
          /\ \A j \in Slots : s \in calls[j].fresh => j = i
          /\ \A a \in Admins : s \notin handed[a]
    /\ \A s \in Students, a \in Admins : s \in handed[a] =>
          /\ accounts[s] = "temporary"
          /\ \A o \in Admins : s \in handed[o] => o = a

\* An assignment without its Team is reported as unresolved, unless a request that
\* is to materialize it is still under way or was cut off by a restart.
NoSilentTeam ==
    \A g \in Groups : Exists(g) /\ teams[g] = None =>
        \/ \E b \in Batches : g \in batches[b].unresolved
        \/ \E i \in Slots :
              \/ calls[i].step \in {"plans", "lost"} /\ Names(calls[i].batch, g)
              \/ calls[i].step = "team" /\ \E p \in calls[i].plans : p.group = g

\* A Delete reviewed while nothing depended on its rows leaves no record that refers
\* to a missing one, and no Team without its assignment, whatever was added since
\* (DELETE_BLOCKED_DEPENDENCY and the foreign keys behind it).
Referenced == Sound(records)

\* INSTITUTION_IMPORT_FORMAT.md:14, existing keys are unchanged by an Add, also
\* those that another batch added after the review.
AddKeepsExisting ==
    [][\A i \in Slots : Commit(i) /\ Of(i).op = "ADD" =>
          \A k \in Keys : Exists(k) => records'[k] = records[k]]_vars

\* A reviewed batch takes effect once, although several pages show its button and
\* each may press it again: what its rows say never comes back.
AppliedOnce ==
    [][\A b \in Batches : batches[b].status \in Done =>
          \A k \in Keys : records'[k] = b => records[k] = b]_vars

-----------------------------------------------------------------------------
(* What overlapping requests do not keep *)

\* Two requests that materialize one Team: the second fails on the unique key and
\* reports the Team of the first as unresolved.
PartialMeansMissing ==
    \A b \in Batches, g \in Groups :
        (\A i \in Slots : calls[i].step \in {"none", "show"}) /\ g \in batches[b].unresolved /\ Exists(g)
            => teams[g] = None

\* The plan of one Edit, read before another Edit, is merged after it.
TeamFollowsRecord ==
    \A g \in Groups :
        (\A i \in Slots : calls[i].step \in {"none", "show"}) /\ teams[g] # None /\ Exists(g)
            /\ (\A b \in Batches : g \notin batches[b].unresolved)
            => teams[g] = records[g]

\* An Edit replaces what its Admin did not review.
EditsWhatWasReviewed ==
    [][\A i \in Slots : Commit(i) /\ Of(i).op = "EDIT" =>
          \A k \in Of(i).rows : records[k] < calls[i].batch]_vars
=============================================================================
