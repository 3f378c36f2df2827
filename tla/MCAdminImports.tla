--------------------------- MODULE MCAdminImports ---------------------------
EXTENDS AdminImportsProperties, TLC

CONSTANTS s, g, a1, a2

\* A student; a group and the seat of that student in it
TwoUploads == {{s}, {g, <<g, s>>}}

Symmetry == Permutations({a1, a2})
=============================================================================
