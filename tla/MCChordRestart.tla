--------------------------- MODULE MCChordRestart ----------------------------
EXTENDS ChordRestart

FourNodes == {-7, -4, 0, 4}
FirstNode == -4

\* Four members, any of which may crash and come back.
Back == RestartInit(FourNodes, 4)

\* -7 and 0 have joined First, 0 after it has crashed and come back.  -7 has notified
\* First, and 0 has found it there.  First is still its own successor, and a lookup for
\* the fourth node ends at 0 or at First: its successor may be -7, which is not linked
\* into the ring yet.
Chain ==
  /\ JustJoined({-7, -4, 0}, [n \in Node |-> IF n = 0 THEN -7 ELSE First], -7)
  /\ restarted = {0}

SettledSpec == (Back \/ Chain) /\ [][RestartNext]_restartVars /\ RestartFairness
=============================================================================
