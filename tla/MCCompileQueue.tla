--------------------------- MODULE MCCompileQueue ---------------------------
(***************************************************************************)
(* Instances of CompileQueue for TLC.                                       *)
(***************************************************************************)
EXTENDS CompileQueueProperties

CONSTANTS j1, j2, j3, u1, u2, k1, k2, p1, r1, r2, w1, w2, w3

\* Two builds of one paper by one user, the second one manual, and a library
\* job of another user that shares the compile key of the first.
MixedUser == [j \in Jobs |-> IF j = j3 THEN u2 ELSE u1]
MixedKey == [j \in Jobs |-> IF j = j2 THEN k2 ELSE k1]
MixedPaper == [j \in Jobs |-> IF j = j3 THEN NoPaper ELSE p1]
MixedPriority == [j \in Jobs |-> IF j = j2 THEN 10 ELSE 0]

\* Two builds of one paper by one user with one compile key.
SameUser == [j \in Jobs |-> u1]
SameKey == [j \in Jobs |-> k1]
SamePaper == [j \in Jobs |-> p1]
SamePriority == [j \in Jobs |-> 0]

\* Every library job carries an idempotency key of its own.
OwnRequest == [j \in Jobs |-> IF j = j3 THEN r2 ELSE r1]

\* The incarnations of the worker are interchangeable.
WorkerSymmetry == Permutations(Workers)
=============================================================================
