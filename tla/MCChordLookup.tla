---------------------------- MODULE MCChordLookup ----------------------------
EXTENDS ChordLookup

\* Nodes so close to each other that a finger may lie behind the next node.
ThreeNodes == {6, -7, -4}
FirstNode == -7
TwoNodes == {-7, -4}
OneCrasher == {-4}

\* Two members, and a third node that joins when it likes.
Joining == LookupSettled(TwoNodes, -4)
JoiningSpec == Joining /\ [][LookupNext]_allVars /\ LookupFairness

\* The same, or three members.
CrashSpec == (Joining \/ LookupSettled(Node, 6)) /\ [][LookupNext]_allVars

StuckSpec == LookupSettled(Node, 6) /\ [][LookupNext]_allVars /\ LookupFairness
=============================================================================
