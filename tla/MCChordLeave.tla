---------------------------- MODULE MCChordLeave -----------------------------
EXTENDS ChordLeave

FourNodes == {-8, -4, 2, 5}
FirstNode == -4
ThreeNodes == {-8, -4, 2}
TwoNodes == {-4, 5}
OneLeaver == {-4}
OneCrasher == {5}

\* The node that leaves is one of three, or one of two of which the other may
\* crash, or it is alone.
Rings == \/ LeaveInit(ThreeNodes, 2)
         \/ LeaveInit(TwoNodes, 5)
         \/ LookupInit /\ hook = [n \in Node |-> NoHook]
RingsSpec == Rings /\ [][LeaveNext]_leaveVars

GhostSpec == LeaveInit(TwoNodes, 5) /\ [][LeaveNext]_leaveVars /\ LeaveFairness
=============================================================================
