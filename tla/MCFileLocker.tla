----------------------------- MODULE MCFileLocker -----------------------------
EXTENDS FileLocker, TLC

CONSTANTS f, g

\* Three nodes and one that joins.  The copies of f and of g go to -4 and 4; the node
\* that joins comes before the place of f, and after the place of g.
FourNodes == {-7, -4, 0, 4}
ThreeMembers == {-7, -4, 4}

Places == [c \in {f, g} |-> IF c = f THEN 2 ELSE -2]
Keyed == {-7, 0}

\* The requests differ in nothing but their names.
AnyRequest == Permutations(Request)
=============================================================================
