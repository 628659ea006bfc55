------------------------- MODULE ChordRestartProofs -------------------------
(***************************************************************************)
(* Hosts that crash and come back, for any set of nodes.                   *)
(***************************************************************************)
EXTENDS ChordRestart, ChordRingProofs

LEMMA RestartType ==
  ASSUME TypeOK, NEW n \in Node, Restart(n) \/ (n = First /\ RestartFirst)
  PROVE  TypeOK'
<1>1. n \in Node /\ First \in Node
  BY NodeAssumption
<1>2. CASE Restart(n)
  BY <1>1, <1>2 DEF Restart, NewProcess, EmptyList, TypeOK, NodeOrNull
<1>3. CASE RestartFirst
  BY <1>1, <1>3 DEF RestartFirst, NewProcess, EmptyList, TypeOK, NodeOrNull
<1>4. QED BY <1>2, <1>3

LEMMA RestartNextType == TypeOK /\ [RestartNext]_restartVars => TypeOK'
<1> SUFFICES ASSUME TypeOK, [RestartNext]_restartVars PROVE TypeOK'
  OBVIOUS
<1>1. CASE [Next]_vars
  BY <1>1, NextType
<1>2. ASSUME NEW n \in Crashers, Restart(n) PROVE TypeOK'
  BY <1>2, RestartType, NodeAssumption
<1>3. CASE RestartFirst
  BY <1>3, RestartType, NodeAssumption
<1>4. QED BY <1>1, <1>2, <1>3 DEF RestartNext, restartVars, Next

LEMMA RestartTypes == RestartSpec => []TypeOK
BY InitType, RestartNextType, PTL DEF RestartSpec

LEMMA NobodyCrashes ==
  ASSUME TypeOK, NEW n \in Node, Join(n) \/ Stabilize(n), NEW m \in Node,
         status'[m] = "crashed"
  PROVE  status[m] = "crashed"
<1> USE DEF TypeOK
<1>1. CASE Join(n)
  BY <1>1 DEF Join, JoinFind, JoinReread, JoinTable, JoinWalk, JoinRefresh, JoinExit, Exit
<1>2. CASE Stabilize(n)
  BY <1>2 DEF Stabilize, Round, StabilizeRead, StabilizeRecover, StabilizeAdopt, StabilizeTell,
     NotifyCheck, NotifySet, NotifyNobody, NotifyFails, FixFingersDies
<1>3. QED BY <1>1, <1>2

LEMMA FailedNext ==
  ASSUME TypeOK, Failed \subseteq Crashers, [RestartNext]_restartVars
  PROVE  (Failed \subseteq Crashers)'
<1> USE DEF Failed, TypeOK
<1>1. ASSUME NEW n \in Node, (Join(n) \/ Stabilize(n)) /\ UNCHANGED restarted
      PROVE  (Failed \subseteq Crashers)'
  BY <1>1, NobodyCrashes
<1>2. ASSUME NEW n \in Node, NEW e \in Up, JoinStart(n, e) /\ UNCHANGED restarted
      PROVE  (Failed \subseteq Crashers)'
  BY <1>2 DEF JoinStart
<1>3. ASSUME NEW n \in Crashers, Crash(n) /\ UNCHANGED restarted
      PROVE  (Failed \subseteq Crashers)'
  BY <1>3 DEF Crash
<1>4. ASSUME NEW n \in Crashers, Restart(n) PROVE (Failed \subseteq Crashers)'
  BY <1>4 DEF Restart, Comeback
<1>5. CASE RestartFirst
  BY <1>5, NodeAssumption DEF RestartFirst, Comeback
<1>6. CASE UNCHANGED restartVars
  BY <1>6 DEF restartVars, vars
<1>7. QED BY <1>1, <1>2, <1>3, <1>4, <1>5, <1>6 DEF RestartNext

\* Every variable keeps its type, however often hosts crash and come back, and only those
\* that may crash do.
THEOREM RestartTypeCorrect == RestartSpec => []RestartTypeOK
<1>1. Init /\ restarted = {} => Failed \subseteq Crashers
  BY DEF Failed, Init
<1>2. TypeOK /\ Failed \subseteq Crashers /\ [RestartNext]_restartVars
        => (Failed \subseteq Crashers)'
  BY FailedNext
<1>3. TypeOK /\ Failed \subseteq Crashers => RestartTypeOK
  BY DEF RestartTypeOK
<1>4. QED BY <1>1, <1>2, <1>3, RestartTypes, PTL DEF RestartSpec
-----------------------------------------------------------------------------
(* A node never joins a ring of its own. *)

\* A step of join or of stabilize concerns the local state of one node.
Local(m) == <<pc[m], successor[m], stub[m], entry[m], want[m]>>

LEMMA JoinLocal ==
  ASSUME TypeOK, NEW n \in Node, Join(n), NEW m \in Node \ {n}
  PROVE  Local(m)' = Local(m)
<1> USE DEF Local, TypeOK
<1>1. CASE JoinFind(n)
  BY <1>1 DEF JoinFind, pointers
<1>2. CASE JoinReread(n)
  BY <1>2 DEF JoinReread
<1>3. CASE JoinTable(n)
  BY <1>3 DEF JoinTable, pointers
<1>4. CASE JoinWalk(n)
  BY <1>4 DEF JoinWalk, pointers
<1>5. CASE JoinRefresh(n)
  BY <1>5 DEF JoinRefresh
<1>6. CASE JoinExit(n)
  BY <1>6 DEF JoinExit, Exit
<1>7. QED BY <1>1, <1>2, <1>3, <1>4, <1>5, <1>6 DEF Join

LEMMA StabilizeLocal ==
  ASSUME TypeOK, NEW n \in Node, Stabilize(n), NEW m \in Node \ {n}
  PROVE  Local(m)' = Local(m)
<1> USE DEF Local, TypeOK, pointers, locals
<1>1. CASE StabilizeRead(n)
  BY <1>1 DEF StabilizeRead
<1>2. CASE StabilizeRecover(n)
  BY <1>2 DEF StabilizeRecover, UpdateSuccessor
<1>3. CASE StabilizeAdopt(n)
  BY <1>3 DEF StabilizeAdopt
<1>4. CASE StabilizeTell(n)
  BY <1>4 DEF StabilizeTell
<1>5. CASE NotifyCheck(n)
  BY <1>5 DEF NotifyCheck
<1>6. CASE NotifySet(n)
  BY <1>6 DEF NotifySet
<1>7. CASE NotifyNobody(n)
  BY <1>7 DEF NotifyNobody
<1>8. CASE NotifyFails(n)
  BY <1>8 DEF NotifyFails, UpdateSuccessor
<1>9. CASE FixFingersDies(n)
  BY <1>9 DEF FixFingersDies
<1>10. QED
  BY <1>1, <1>2, <1>3, <1>4, <1>5, <1>6, <1>7, <1>8, <1>9 DEF Stabilize, Round

\* WalkMissesEntry for one node.
Misses(m) ==
  /\ pc[m] \in JoinPC => entry[m] # m
  /\ pc[m] = "walk" /\ successor[m] = m => stub[m] = m /\ entry[m] \in want[m]
  /\ pc[m] = "refresh" => successor[m] # m

LEMMA JoinMisses ==
  ASSUME TypeOK, NEW n \in Node, Join(n), Misses(n)
  PROVE  Misses(n)'
<1> USE DEF Misses, TypeOK, JoinPC
<1>1. CASE JoinFind(n)
  BY <1>1 DEF JoinFind, pointers
<1>2. CASE JoinReread(n)
  BY <1>2 DEF JoinReread
<1>3. CASE JoinTable(n)
  BY <1>3 DEF JoinTable, pointers
<1>4. CASE JoinWalk(n)
  BY <1>4 DEF JoinWalk, WalkEnds, pointers
<1>5. CASE JoinRefresh(n)
  BY <1>5 DEF JoinRefresh
<1>6. CASE JoinExit(n)
  BY <1>6 DEF JoinExit, Exit
<1>7. QED BY <1>1, <1>2, <1>3, <1>4, <1>5, <1>6 DEF Join

LEMMA WalkMissesEntryNext ==
  ASSUME TypeOK, WalkMissesEntry, [RestartNext]_restartVars
  PROVE  WalkMissesEntry'
<1>1. \A m \in Node : Misses(m)
  BY DEF WalkMissesEntry, Misses
<1> SUFFICES ASSUME NEW m \in Node PROVE Misses(m)'
  BY DEF WalkMissesEntry, Misses
<1>2. CASE Local(m)' = Local(m)
  BY <1>1, <1>2 DEF Local, Misses
<1>3. ASSUME NEW n \in Node, Join(n) PROVE Misses(m)'
  BY <1>1, <1>2, <1>3, JoinMisses, JoinLocal
<1>4. ASSUME NEW n \in Node, Stabilize(n) PROVE Misses(m)'
  <2>1. CASE m = n
    BY <1>4, <2>1, StabilizePc DEF Misses, JoinPC, StabilizePC, TypeOK
  <2>2. QED BY <1>2, <1>4, <2>1, StabilizeLocal
<1>5. ASSUME NEW n \in Node, NEW e \in Up, JoinStart(n, e) PROVE Misses(m)'
  <2>1. CASE m = n
    BY <1>5, <2>1 DEF JoinStart, Up, Misses, JoinPC, TypeOK
  <2>2. CASE m # n
    BY <1>2, <1>5, <2>2 DEF JoinStart, Local, TypeOK, pointers
  <2>3. QED BY <2>1, <2>2
<1>6. ASSUME NEW n \in Crashers, Crash(n) PROVE Misses(m)'
  BY <1>2, <1>6 DEF Crash, Local, pointers, locals
<1>7. ASSUME NEW n \in Crashers, Restart(n) PROVE Misses(m)'
  <2>1. CASE m = n
    BY <1>7, <2>1 DEF Restart, Misses, JoinPC, TypeOK
  <2>2. CASE m # n
    BY <1>2, <1>7, <2>2 DEF Restart, NewProcess, Local, TypeOK
  <2>3. QED BY <2>1, <2>2
<1>8. CASE RestartFirst
  <2>1. CASE m = First
    BY <1>8, <2>1 DEF RestartFirst, Misses, JoinPC, TypeOK
  <2>2. CASE m # First
    BY <1>2, <1>8, <2>2 DEF RestartFirst, NewProcess, Local, TypeOK
  <2>3. QED BY <2>1, <2>2
<1>9. CASE UNCHANGED restartVars
  BY <1>2, <1>9 DEF restartVars, vars, pointers, locals, Local
<1>10. QED
  BY <1>3, <1>4, <1>5, <1>6, <1>7, <1>8, <1>9 DEF RestartNext

LEMMA WalkMissesEntryCorrect == RestartSpec => []WalkMissesEntry
<1>1. Init => WalkMissesEntry
  BY DEF Init, WalkMissesEntry, JoinPC
<1>2. QED BY <1>1, WalkMissesEntryNext, RestartTypes, PTL DEF RestartSpec

\* Only the end of its join takes a node from joining to up.
LEMMA JoinedByRefresh ==
  ASSUME TypeOK, [RestartNext]_restartVars, NEW n \in Node,
         status[n] = "joining", status'[n] = "up"
  PROVE  JoinRefresh(n)
<1> USE DEF TypeOK
<1>1. ASSUME NEW m \in Node, Join(m) PROVE JoinRefresh(n)
  BY <1>1
  DEF Join, JoinFind, JoinReread, JoinTable, JoinWalk, JoinRefresh, JoinExit, Exit
<1>2. ASSUME NEW m \in Node, Stabilize(m) PROVE FALSE
  <2>1. status' = status
    BY <1>2, StabilizePc
  <2>2. QED BY <2>1
<1>3. ASSUME NEW m \in Node, NEW e \in Up, JoinStart(m, e) PROVE FALSE
  BY <1>3 DEF JoinStart
<1>4. ASSUME NEW m \in Crashers, Crash(m) PROVE FALSE
  BY <1>4 DEF Crash
<1>5. ASSUME NEW m \in Crashers, Restart(m) PROVE FALSE
  BY <1>5 DEF Restart
<1>6. CASE RestartFirst
  BY <1>6 DEF RestartFirst, Comeback
<1>7. CASE UNCHANGED restartVars
  BY <1>7 DEF restartVars, vars
<1>8. QED BY <1>1, <1>2, <1>3, <1>4, <1>5, <1>6, <1>7 DEF RestartNext

\* Whichever hosts crash and come back, and whatever the others still hold of them,
\* no join succeeds with the node itself as its successor.
THEOREM NobodyJoinsItself == RestartSpec => JoinsOthers
<1>1. TypeOK /\ WalkMissesEntry /\ [RestartNext]_restartVars =>
        [\A n \in Node :
           status[n] = "joining" /\ status'[n] = "up" => successor'[n] # n]_restartVars
  <2> SUFFICES ASSUME TypeOK, WalkMissesEntry, [RestartNext]_restartVars, NEW n \in Node,
                      status[n] = "joining", status'[n] = "up"
               PROVE  successor'[n] # n
    OBVIOUS
  <2>1. JoinRefresh(n)
    BY JoinedByRefresh
  <2>2. QED BY <2>1 DEF JoinRefresh, WalkMissesEntry
<1>2. QED
  BY <1>1, RestartTypes, WalkMissesEntryCorrect, PTL DEF RestartSpec, JoinsOthers
=============================================================================
