----------------------------- MODULE MCChordRing -----------------------------
EXTENDS RingShape

\* Circles of 16 identifiers; in both, the ends of the int range lie between nodes.
ThreeNodes == {-8, -4, 2}
FourNodes == {-7, -4, 0, 4}
FirstNode == -4

\* Three members, of which the one before First may crash; that node's own
\* predecessor has a fresh list.
LastCrasher == {2}
RecoverSpec == Settled(ThreeNodes, -8) /\ [][Next]_vars /\ Fairness
=============================================================================
