---------------------------- MODULE MCMentorPage ----------------------------
EXTENDS MentorPageProperties, TLC

CONSTANTS p, q, f1, f2, g1

\* Two files of one paper, one of the other
TwoAndOne == [f \in Files |-> IF f = g1 THEN q ELSE p]

Symmetry == Permutations({f1, f2})
=============================================================================
