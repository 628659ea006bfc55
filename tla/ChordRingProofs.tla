--------------------------- MODULE ChordRingProofs ---------------------------
(***************************************************************************)
(* Invariants of ChordRing, for any set of nodes.  The first two parts let *)
(* any node crash at any moment, the third assumes that none does.         *)
(***************************************************************************)
EXTENDS ChordRing, ChordUtilProofs

-----------------------------------------------------------------------------
(* refreshSuccessors. *)

\* A refreshed list is a list of nodes and nulls.
LEMMA RefreshType ==
  ASSUME NEW s0 \in NodeOrNull, NEW succ \in [Node -> NodeOrNull],
         NEW old \in [{0, 1} -> NodeOrNull]
  PROVE  /\ Refresh(s0, succ, old).list \in [{0, 1} -> NodeOrNull]
         /\ Refresh(s0, succ, old).out \in {"ok", "remote", "npe"}
BY DEF Refresh, Contactable, EmptyList, NodeOrNull

\* It holds nothing but the first two nodes, what it held before, and null.
LEMMA RefreshEntries ==
  ASSUME NEW s0 \in NodeOrNull, NEW succ \in [Node -> NodeOrNull],
         NEW old \in [{0, 1} -> NodeOrNull], NEW i \in {0, 1}
  PROVE  \/ Refresh(s0, succ, old).list[i] \in {s0, old[0], old[1], Null}
         \/ s0 \in Node /\ Refresh(s0, succ, old).list[i] = succ[s0]
BY DEF Refresh, Contactable, EmptyList, NodeOrNull

\* A NullPointerException comes from a null successor, of the node that refreshes
\* or of the first of the list.
LEMMA RefreshNpe ==
  ASSUME NEW s0, NEW succ, NEW old, Refresh(s0, succ, old).out = "npe"
  PROVE  s0 = Null \/ (s0 \in Node /\ succ[s0] = Null)
BY DEF Refresh, Contactable

-----------------------------------------------------------------------------
(* Types. *)

LEMMA NullIsNoNode == Null \notin Node
BY NodeAssumption

LEMMA InitType == Init => TypeOK
BY NodeAssumption DEF Init, TypeOK, EmptyList, NodeOrNull

LEMMA RefreshAtType ==
  ASSUME TypeOK, NEW p \in Node
  PROVE  /\ RefreshAt(p).list \in [{0, 1} -> NodeOrNull]
         /\ RefreshAt(p).out \in {"ok", "remote", "npe"}
<1> /\ successor \in [Node -> NodeOrNull]
    /\ successor[p] \in NodeOrNull
    /\ successorList[p] \in [{0, 1} -> NodeOrNull]
  BY DEF TypeOK
<1> QED BY RefreshType DEF RefreshAt

LEMMA UpdateSuccessorType ==
  ASSUME TypeOK, NEW n \in Node, NEW next \in {"notify", "stabilize"},
         UpdateSuccessor(n, next)
  PROVE  /\ successor' \in [Node -> NodeOrNull]
         /\ successorList' \in [Node -> [{0, 1} -> NodeOrNull]]
         /\ pc' \in [Node -> {"idle", "find", "reread", "table", "walk", "refresh",
                             "stabilize", "adopt", "tell", "notify", "setPredecessor", "dead"}]
<1> DEFINE s == successorList[n][1]
           succ == [successor EXCEPT ![n] = s]
           r == Refresh(s, succ, successorList[n])
<1>1. /\ s \in NodeOrNull
      /\ succ \in [Node -> NodeOrNull]
      /\ successorList[n] \in [{0, 1} -> NodeOrNull]
  BY DEF TypeOK
<1>2. r.list \in [{0, 1} -> NodeOrNull]
  BY <1>1, RefreshType
<1>3. /\ successor' = succ
      /\ successorList' = [successorList EXCEPT ![n] = r.list]
      /\ pc' = [pc EXCEPT ![n] = IF r.out = "npe" THEN "dead" ELSE next]
  BY DEF UpdateSuccessor
<1> HIDE DEF s, succ, r
<1>4. QED BY <1>1, <1>2, <1>3 DEF TypeOK

LEMMA JoinType ==
  ASSUME TypeOK, NEW n \in Node, Join(n)
  PROVE  TypeOK'
<1>1. CASE JoinFind(n)
  BY <1>1 DEF JoinFind, Path, TypeOK, pointers, NodeOrNull
<1>2. CASE JoinReread(n)
  BY <1>2 DEF JoinReread, Contactable, TypeOK, NodeOrNull
<1>3. CASE JoinTable(n)
  <2>1. Fingers(successor[n]) \subseteq Node
    BY DEF Fingers, Path
  <2>2. successor[n] \in Node /\ successor[successor[n]] \in Node /\ entry[n] \in NodeOrNull
    BY <1>3 DEF JoinTable, Contactable, TypeOK, NodeOrNull
  <2>3. QED BY <1>3, <2>1, <2>2 DEF JoinTable, TypeOK, pointers, NodeOrNull
<1>4. CASE JoinWalk(n)
  BY <1>4 DEF JoinWalk, Contactable, TypeOK, pointers, NodeOrNull
<1>5. CASE JoinRefresh(n)
  BY <1>5, RefreshAtType DEF JoinRefresh, TypeOK, NodeOrNull
<1>6. CASE JoinExit(n)
  BY <1>6 DEF JoinExit, Exit, TypeOK, EmptyList, NodeOrNull
<1>7. QED BY <1>1, <1>2, <1>3, <1>4, <1>5, <1>6 DEF Join

LEMMA StabilizeType ==
  ASSUME TypeOK, NEW n \in Node, Stabilize(n)
  PROVE  TypeOK'
<1>1. CASE StabilizeRead(n)
  BY <1>1 DEF StabilizeRead, Contactable, TypeOK, pointers, NodeOrNull
<1>2. CASE StabilizeRecover(n)
  <2>1. UpdateSuccessor(n, "notify")
    BY <1>2 DEF StabilizeRecover
  <2>2. /\ successor' \in [Node -> NodeOrNull]
        /\ successorList' \in [Node -> [{0, 1} -> NodeOrNull]]
        /\ pc' \in [Node -> {"idle", "find", "reread", "table", "walk", "refresh",
                            "stabilize", "adopt", "tell", "notify", "setPredecessor", "dead"}]
    BY <2>1, UpdateSuccessorType
  <2>3. \E s \in NodeOrNull : stub' = [stub EXCEPT ![n] = s]
    BY <1>2, <2>2 DEF StabilizeRecover, TypeOK, NodeOrNull
  <2>4. stub' \in [Node -> NodeOrNull]
    BY <2>3 DEF TypeOK
  <2>5. QED BY <1>2, <2>2, <2>4 DEF StabilizeRecover, TypeOK
<1>3. CASE StabilizeAdopt(n)
  BY <1>3 DEF StabilizeAdopt, TypeOK, NodeOrNull
<1>4. CASE StabilizeTell(n)
  <2> DEFINE p == predecessor[n]
             q == predecessor[p]
             lists == IF Contactable(p)
                      THEN [successorList EXCEPT ![p] = RefreshAt(p).list]
                      ELSE successorList
  <2>1. lists \in [Node -> [{0, 1} -> NodeOrNull]]
    BY RefreshAtType DEF Contactable, TypeOK
  <2>2. Contactable(q) =>
          [lists EXCEPT ![q] = RefreshAt(q).list] \in [Node -> [{0, 1} -> NodeOrNull]]
    BY <2>1, RefreshAtType DEF Contactable
  <2>3. \/ successorList' = lists
        \/ Contactable(q) /\ successorList' = [lists EXCEPT ![q] = RefreshAt(q).list]
    BY <1>4 DEF StabilizeTell
  <2>4. successorList' \in [Node -> [{0, 1} -> NodeOrNull]]
    BY <2>1, <2>2, <2>3
  <2>5. pc' \in [Node -> {"idle", "find", "reread", "table", "walk", "refresh",
                         "stabilize", "adopt", "tell", "notify", "setPredecessor", "dead"}]
    BY <1>4 DEF StabilizeTell, TypeOK
  <2>6. QED BY <1>4, <2>4, <2>5 DEF StabilizeTell, TypeOK, locals
<1>5. CASE NotifyCheck(n)
  BY <1>5 DEF NotifyCheck, TypeOK, pointers, NodeOrNull
<1>6. CASE NotifySet(n)
  BY <1>6 DEF NotifySet, Contactable, TypeOK, NodeOrNull
<1>7. CASE NotifyNobody(n)
  BY <1>7 DEF NotifyNobody, TypeOK, pointers, locals
<1>8. CASE NotifyFails(n)
  <2>1. UpdateSuccessor(n, "stabilize")
    BY <1>8 DEF NotifyFails
  <2>2. QED BY <1>8, <2>1, UpdateSuccessorType DEF NotifyFails, TypeOK, NodeOrNull
<1>9. CASE FixFingersDies(n)
  BY <1>9 DEF FixFingersDies, TypeOK, pointers, locals
<1>10. QED
  BY <1>1, <1>2, <1>3, <1>4, <1>5, <1>6, <1>7, <1>8, <1>9 DEF Stabilize, Round

LEMMA NextType == TypeOK /\ [Next]_vars => TypeOK'
<1> SUFFICES ASSUME TypeOK, [Next]_vars PROVE TypeOK'
  OBVIOUS
<1>1. ASSUME NEW n \in Node, Join(n) PROVE TypeOK'
  BY <1>1, JoinType
<1>2. ASSUME NEW n \in Node, Stabilize(n) PROVE TypeOK'
  BY <1>2, StabilizeType
<1>3. ASSUME NEW n \in Node, NEW e \in Up, JoinStart(n, e) PROVE TypeOK'
  BY <1>3 DEF JoinStart, Up, TypeOK, pointers, NodeOrNull
<1>4. ASSUME NEW n \in Crashers, Crash(n) PROVE TypeOK'
  BY <1>4 DEF Crash, Contactable, TypeOK, pointers, locals
<1>5. CASE UNCHANGED vars
  BY <1>5 DEF vars, pointers, locals, TypeOK
<1>6. QED BY <1>1, <1>2, <1>3, <1>4, <1>5 DEF Next

\* Every variable keeps its type, whoever crashes.
THEOREM TypeCorrect == Spec => []TypeOK
BY InitType, NextType, PTL DEF Spec
-----------------------------------------------------------------------------
(* The program counter fits the status of the process. *)

\* What a stabilizer step does to the program counter.
LEMMA StabilizePc ==
  ASSUME TypeOK, NEW n \in Node, Stabilize(n)
  PROVE  /\ status' = status
         /\ pc[n] \in StabilizePC
         /\ \E c \in StabilizePC : pc' = [pc EXCEPT ![n] = c]
<1>1. CASE StabilizeRead(n)
  BY <1>1 DEF StabilizeRead, StabilizePC
<1>2. CASE StabilizeRecover(n)
  BY <1>2 DEF StabilizeRecover, UpdateSuccessor, StabilizePC
<1>3. CASE StabilizeAdopt(n)
  BY <1>3 DEF StabilizeAdopt, StabilizePC
<1>4. CASE StabilizeTell(n)
  BY <1>4 DEF StabilizeTell, StabilizePC
<1>5. CASE NotifyCheck(n)
  BY <1>5 DEF NotifyCheck, StabilizePC, TypeOK
<1>6. CASE NotifySet(n)
  BY <1>6 DEF NotifySet, StabilizePC
<1>7. CASE NotifyNobody(n)
  BY <1>7 DEF NotifyNobody, StabilizePC
<1>8. CASE NotifyFails(n)
  BY <1>8 DEF NotifyFails, UpdateSuccessor, StabilizePC
<1>9. CASE FixFingersDies(n)
  BY <1>9 DEF FixFingersDies, StabilizePC
<1>10. QED
  BY <1>1, <1>2, <1>3, <1>4, <1>5, <1>6, <1>7, <1>8, <1>9 DEF Stabilize, Round

\* What a step of join does to the program counter and to the status.
LEMMA JoinPc ==
  ASSUME TypeOK, NEW n \in Node, Join(n)
  PROVE  /\ pc[n] \in JoinPC /\ status[n] \in {"joining", "up"}
         /\ \/ /\ status' = status
               /\ \E c \in JoinPC : pc' = [pc EXCEPT ![n] = c]
            \/ /\ status' = [status EXCEPT ![n] = "up"]
               /\ pc' = [pc EXCEPT ![n] = "stabilize"]
            \/ /\ status' = [status EXCEPT ![n] = "down"]
               /\ pc' = [pc EXCEPT ![n] = "idle"]
<1>1. CASE JoinFind(n)
  BY <1>1 DEF JoinFind, Contactable, JoinPC
<1>2. CASE JoinReread(n)
  BY <1>2 DEF JoinReread, Contactable, JoinPC
<1>3. CASE JoinTable(n)
  BY <1>3 DEF JoinTable, Contactable, JoinPC
<1>4. CASE JoinWalk(n)
  BY <1>4 DEF JoinWalk, Contactable, JoinPC, TypeOK
<1>5. CASE JoinRefresh(n)
  BY <1>5 DEF JoinRefresh, Contactable, JoinPC
<1>6. CASE JoinExit(n)
  BY <1>6 DEF JoinExit, JoinFails, Exit, Contactable, JoinPC
<1>7. QED BY <1>1, <1>2, <1>3, <1>4, <1>5, <1>6 DEF Join

LEMMA NextPcFitsStatus ==
  ASSUME TypeOK, PcFitsStatus, [Next]_vars
  PROVE  PcFitsStatus'
<1> USE DEF PcFitsStatus, TypeOK
<1>1. ASSUME NEW n \in Node, Join(n) PROVE PcFitsStatus'
  BY <1>1, JoinPc DEF JoinPC, StabilizePC
<1>2. ASSUME NEW n \in Node, Stabilize(n) PROVE PcFitsStatus'
  BY <1>2, StabilizePc DEF JoinPC, StabilizePC
<1>3. ASSUME NEW n \in Node, NEW e \in Up, JoinStart(n, e) PROVE PcFitsStatus'
  BY <1>3 DEF JoinStart, JoinPC
<1>4. ASSUME NEW n \in Crashers, Crash(n) PROVE PcFitsStatus'
  BY <1>4 DEF Crash, Contactable
<1>5. CASE UNCHANGED vars
  BY <1>5 DEF vars
<1>6. QED BY <1>1, <1>2, <1>3, <1>4, <1>5 DEF Next

\* Once through its join, a node is never again taken for one that is not.
LEMMA StartedGrows ==
  ASSUME TypeOK, PcFitsStatus, [Next]_vars
  PROVE  Started \subseteq Started'
<1> USE DEF PcFitsStatus, TypeOK, Started
<1>1. ASSUME NEW n \in Node, Join(n) PROVE Started \subseteq Started'
  BY <1>1, JoinPc DEF JoinPC, StabilizePC
<1>2. ASSUME NEW n \in Node, Stabilize(n) PROVE Started \subseteq Started'
  BY <1>2, StabilizePc
<1>3. ASSUME NEW n \in Node, NEW e \in Up, JoinStart(n, e) PROVE Started \subseteq Started'
  BY <1>3 DEF JoinStart
<1>4. ASSUME NEW n \in Crashers, Crash(n) PROVE Started \subseteq Started'
  BY <1>4 DEF Crash, Contactable
<1>5. CASE UNCHANGED vars
  BY <1>5 DEF vars
<1>6. QED BY <1>1, <1>2, <1>3, <1>4, <1>5 DEF Next
-----------------------------------------------------------------------------
(* Only nodes that have come through their join are known. *)

LEMMA RefreshAtKnown ==
  ASSUME TypeOK, KnownStarted, NEW p \in Node, successor[p] \in Started \cup {Null}
  PROVE  /\ RefreshAt(p).list[0] \in Started \cup {Null}
         /\ RefreshAt(p).list[1] \in Started \cup {Null}
<1>1. /\ successor \in [Node -> NodeOrNull]
      /\ successor[p] \in NodeOrNull
      /\ successorList[p] \in [{0, 1} -> NodeOrNull]
  BY DEF TypeOK
<1>2. successor[p] \in Node => successor[successor[p]] \in Started \cup {Null}
  BY NullIsNoNode DEF KnownStarted, Started
<1>3. /\ successorList[p][0] \in Started \cup {Null}
      /\ successorList[p][1] \in Started \cup {Null}
  BY DEF KnownStarted
<1>4. \A i \in {0, 1} : RefreshAt(p).list[i] \in Started \cup {Null}
  BY <1>1, <1>2, <1>3, RefreshEntries DEF RefreshAt
<1>5. QED BY <1>4

LEMMA UpdateSuccessorKnown ==
  ASSUME TypeOK, KnownStarted, NEW n \in Node, NEW next, UpdateSuccessor(n, next)
  PROVE  /\ successor'[n] \in Started \cup {Null}
         /\ successorList'[n][0] \in Started \cup {Null}
         /\ successorList'[n][1] \in Started \cup {Null}
         /\ \A m \in Node \ {n} : /\ successor'[m] = successor[m]
                                /\ successorList'[m] = successorList[m]
<1> DEFINE s == successorList[n][1]
           succ == [successor EXCEPT ![n] = s]
           r == Refresh(s, succ, successorList[n])
<1>1. /\ s \in NodeOrNull
      /\ succ \in [Node -> NodeOrNull]
      /\ successorList[n] \in [{0, 1} -> NodeOrNull]
  BY DEF TypeOK
<1>2. /\ s \in Started \cup {Null}
      /\ successorList[n][0] \in Started \cup {Null}
  BY DEF KnownStarted
<1>3. s \in Node => succ[s] \in Started \cup {Null}
  BY <1>2, NullIsNoNode DEF KnownStarted, TypeOK
<1>4. \A i \in {0, 1} : r.list[i] \in Started \cup {Null}
  <2> HIDE DEF succ
  <2> QED BY <1>1, <1>2, <1>3, RefreshEntries
<1>5. /\ successor' = succ
      /\ successorList' = [successorList EXCEPT ![n] = r.list]
  BY DEF UpdateSuccessor
<1> HIDE DEF r
<1>6. QED BY <1>2, <1>4, <1>5 DEF TypeOK

LEMMA JoinKnown ==
  ASSUME TypeOK, PcFitsStatus, KnownStarted, Started \subseteq Started',
         NEW n \in Node, Join(n)
  PROVE  KnownStarted'
<1> USE DEF KnownStarted, TypeOK
<1>1. CASE JoinFind(n)
  <2>1. Closed(Started)
    BY DEF Closed, Started
  <2>2. entry[n] \in Started
    BY <1>1, NullIsNoNode DEF JoinFind, Contactable
  <2>3. Path(entry[n]) \subseteq Started
    BY <2>1, <2>2 DEF Path, Started
  <2>4. PICK p \in Started : stub' = [stub EXCEPT ![n] = p]
    BY <1>1, <2>3 DEF JoinFind
  <2>5. QED BY <1>1, <2>4 DEF JoinFind, pointers
<1>2. CASE JoinReread(n)
  <2>1. stub[n] \in Started /\ successor[stub[n]] \in Started
    BY <1>2, NullIsNoNode DEF JoinReread, Contactable, Started
  <2>2. QED BY <1>2, <2>1 DEF JoinReread
<1>3. CASE JoinTable(n)
  <2>1. successor[n] \in Started
    BY <1>3 DEF JoinTable
  <2>2. successor[successor[n]] \in Started
    BY <1>3, <2>1 DEF JoinTable, Started
  <2>3. QED BY <1>3, <2>1, <2>2 DEF JoinTable, pointers
<1>4. CASE JoinWalk(n)
  <2>1. stub[n] \in Started /\ successor[stub[n]] \in Started \cup {Null}
    BY <1>4, NullIsNoNode DEF JoinWalk, Contactable, Started
  <2>2. QED BY <1>4, <2>1 DEF JoinWalk, pointers
<1>5. CASE JoinRefresh(n)
  <2>1. successor[n] \in Started
    BY <1>5 DEF JoinRefresh
  <2>2. /\ RefreshAt(n).list[0] \in Started \cup {Null}
        /\ RefreshAt(n).list[1] \in Started \cup {Null}
    BY <2>1, RefreshAtKnown
  <2>3. QED BY <1>5, <2>1, <2>2 DEF JoinRefresh
<1>6. CASE JoinExit(n)
  BY <1>6 DEF JoinExit, Exit, EmptyList
<1>7. QED BY <1>1, <1>2, <1>3, <1>4, <1>5, <1>6 DEF Join

LEMMA StabilizeKnown ==
  ASSUME TypeOK, PcFitsStatus, KnownStarted, Started \subseteq Started',
         NEW n \in Node, Stabilize(n)
  PROVE  KnownStarted'
<1> USE DEF KnownStarted, TypeOK
<1>0. n \in Started
  BY StabilizePc DEF PcFitsStatus, JoinPC, StabilizePC, Started
<1>1. CASE StabilizeRead(n)
  <2>1. successor[n] \in Started
    BY <1>0, <1>1, NullIsNoNode DEF StabilizeRead, Contactable
  <2>2. QED BY <1>1, <2>1 DEF StabilizeRead, pointers, Started
<1>2. CASE StabilizeRecover(n)
  <2>1. UpdateSuccessor(n, "notify")
    BY <1>2 DEF StabilizeRecover
  <2>2. PICK s \in {successor'[n], Null, successor[n]} : stub' = [stub EXCEPT ![n] = s]
    BY <1>2 DEF StabilizeRecover
  <2>3. s \in Started \cup {Null}
    BY <1>0, <2>1, UpdateSuccessorKnown
  <2>4. \A m \in Node : pc'[m] \in {"table", "walk", "refresh"} => pc'[m] = pc[m] /\ m # n
    BY <2>1, <1>2 DEF UpdateSuccessor, StabilizeRecover
  <2>5. QED BY <1>2, <2>1, <2>2, <2>3, <2>4, UpdateSuccessorKnown DEF StabilizeRecover
<1>3. CASE StabilizeAdopt(n)
  BY <1>3 DEF StabilizeAdopt
<1>4. CASE StabilizeTell(n)
  <2> DEFINE p == predecessor[n]
             q == predecessor[p]
             lists == IF Contactable(p)
                      THEN [successorList EXCEPT ![p] = RefreshAt(p).list]
                      ELSE successorList
             Entries(l) == \A m \in Node : /\ l[m][0] \in Started \cup {Null}
                                          /\ l[m][1] \in Started \cup {Null}
  <2>1. Contactable(p) => /\ p \in Started
                          /\ RefreshAt(p).list[0] \in Started \cup {Null}
                          /\ RefreshAt(p).list[1] \in Started \cup {Null}
    BY NullIsNoNode, RefreshAtKnown DEF Contactable
  <2>2. Entries(lists) /\ DOMAIN lists = Node
    BY <2>1 DEF Contactable
  <2>3. Contactable(p) /\ Contactable(q) =>
          /\ RefreshAt(q).list[0] \in Started \cup {Null}
          /\ RefreshAt(q).list[1] \in Started \cup {Null}
    BY <2>1, NullIsNoNode, RefreshAtKnown DEF Contactable
  <2>4. \/ successorList' = lists
        \/ /\ Contactable(p) /\ Contactable(q)
           /\ successorList' = [lists EXCEPT ![q] = RefreshAt(q).list]
    BY <1>4 DEF StabilizeTell
  <2>5. Entries(successorList')
    <3> HIDE DEF lists
    <3> QED BY <2>2, <2>3, <2>4
  <2>6. QED BY <1>4, <2>5 DEF StabilizeTell, locals
<1>5. CASE NotifyCheck(n)
  BY <1>5 DEF NotifyCheck, pointers
<1>6. CASE NotifySet(n)
  BY <1>0, <1>6 DEF NotifySet
<1>7. CASE NotifyNobody(n)
  BY <1>7 DEF NotifyNobody, pointers, locals
<1>8. CASE NotifyFails(n)
  <2>1. UpdateSuccessor(n, "stabilize")
    BY <1>8 DEF NotifyFails
  <2>2. \A m \in Node : pc'[m] \in {"table", "walk", "refresh"} => pc'[m] = pc[m] /\ m # n
    BY <2>1 DEF UpdateSuccessor
  <2>3. QED BY <1>8, <2>1, <2>2, UpdateSuccessorKnown DEF NotifyFails
<1>9. CASE FixFingersDies(n)
  BY <1>9 DEF FixFingersDies, pointers, locals
<1>10. QED
  BY <1>1, <1>2, <1>3, <1>4, <1>5, <1>6, <1>7, <1>8, <1>9 DEF Stabilize, Round

LEMMA NextKnownStarted ==
  ASSUME TypeOK, PcFitsStatus, KnownStarted, [Next]_vars
  PROVE  KnownStarted'
<1>0. Started \subseteq Started'
  BY StartedGrows
<1>1. ASSUME NEW n \in Node, Join(n) PROVE KnownStarted'
  BY <1>0, <1>1, JoinKnown
<1>2. ASSUME NEW n \in Node, Stabilize(n) PROVE KnownStarted'
  BY <1>0, <1>2, StabilizeKnown
<1>3. ASSUME NEW n \in Node, NEW e \in Up, JoinStart(n, e) PROVE KnownStarted'
  BY <1>0, <1>3 DEF JoinStart, KnownStarted, TypeOK, pointers, Up, Started
<1>4. ASSUME NEW n \in Crashers, Crash(n) PROVE KnownStarted'
  BY <1>0, <1>4 DEF Crash, KnownStarted, pointers, locals
<1>5. CASE UNCHANGED vars
  BY <1>0, <1>5 DEF vars, pointers, locals, KnownStarted
<1>6. QED BY <1>1, <1>2, <1>3, <1>4, <1>5 DEF Next
-----------------------------------------------------------------------------
(* Null successors and dead stabilizer threads. *)

\* updateSuccessor leaves a null successor only to a thread it ends, and what it
\* ends a thread for is a null successor.
LEMMA UpdateSuccessorNull ==
  ASSUME TypeOK, NullIsDead, NEW n \in Node, NEW next, next # "dead",
         pc[n] # "dead", UpdateSuccessor(n, next)
  PROVE  NullIsDead' /\ (DeadOfNullSuccessor => DeadOfNullSuccessor')
<1> DEFINE s == successorList[n][1]
           succ == [successor EXCEPT ![n] = s]
           r == Refresh(s, succ, successorList[n])
<1>1. /\ successor' = succ
      /\ pc' = [pc EXCEPT ![n] = IF r.out = "npe" THEN "dead" ELSE next]
  BY DEF UpdateSuccessor
<1>2. s = Null => r.out = "npe"
  BY DEF Refresh
<1>3. r.out = "npe" => s = Null \/ (s \in Node /\ succ[s] = Null)
  BY RefreshNpe
<1> HIDE DEF r
<1>4. NullIsDead'
  BY <1>1, <1>2 DEF NullIsDead, TypeOK
<1>5. ASSUME r.out = "npe" PROVE \E m \in Node : successor'[m] = Null
  BY <1>1, <1>3, <1>5 DEF TypeOK
<1>6. ASSUME DeadOfNullSuccessor PROVE DeadOfNullSuccessor'
  <2>1. CASE r.out = "npe"
    BY <1>4, <1>5, <2>1 DEF DeadOfNullSuccessor, NullIsDead
  <2>2. CASE r.out # "npe"
    BY <1>1, <1>6, <2>2 DEF DeadOfNullSuccessor, TypeOK
  <2>3. QED BY <2>1, <2>2
<1>7. QED BY <1>4, <1>6

LEMMA RefreshAtNpe ==
  ASSUME NEW p \in Node, RefreshAt(p).out = "npe"
  PROVE  \E m \in Node : successor[m] = Null
BY RefreshNpe DEF RefreshAt

LEMMA JoinNull ==
  ASSUME TypeOK, PcFitsStatus, NullIsDead, DeadOfNullSuccessor, NEW n \in Node, Join(n)
  PROVE  NullIsDead' /\ DeadOfNullSuccessor'
<1> USE DEF NullIsDead, DeadOfNullSuccessor, TypeOK
<1>1. pc[n] # "dead" /\ successor[n] # Null
  BY JoinPc DEF JoinPC
<1>2. \A m \in Node \ {n} : successor'[m] = successor[m] /\ pc'[m] = pc[m]
  <2>1. \A m \in Node \ {n} : pc'[m] = pc[m]
    BY JoinPc
  <2>2. \A m \in Node \ {n} : successor'[m] = successor[m]
    BY DEF Join, JoinFind, JoinReread, JoinTable, JoinWalk, JoinRefresh, JoinExit, Exit, pointers
  <2>3. QED BY <2>1, <2>2
<1>3. pc'[n] # "dead"
  BY JoinPc DEF JoinPC
<1>4. successor'[n] # Null
  <2>1. CASE JoinReread(n)
    BY <2>1, NullIsNoNode DEF JoinReread, Contactable
  <2>2. CASE JoinExit(n)
    BY <2>2, NullIsNoNode DEF JoinExit, Exit
  <2>3. CASE UNCHANGED successor
    BY <1>1, <2>3
  <2>4. QED
    BY <2>1, <2>2, <2>3 DEF Join, JoinFind, JoinTable, JoinWalk, JoinRefresh, pointers
<1>5. QED BY <1>1, <1>2, <1>3, <1>4

LEMMA StabilizeNull ==
  ASSUME TypeOK, NullIsDead, DeadOfNullSuccessor, AdoptCloser, NEW n \in Node, Stabilize(n)
  PROVE  NullIsDead' /\ DeadOfNullSuccessor'
<1> USE DEF NullIsDead, DeadOfNullSuccessor, TypeOK
<1>1. CASE StabilizeRead(n)
  BY <1>1 DEF StabilizeRead, pointers
<1>2. CASE StabilizeRecover(n)
  BY <1>2, UpdateSuccessorNull DEF StabilizeRecover
<1>3. CASE StabilizeAdopt(n)
  BY <1>3 DEF StabilizeAdopt, AdoptCloser
<1>4. CASE StabilizeTell(n)
  <2>1. UNCHANGED successor /\ pc[n] = "tell"
    BY <1>4 DEF StabilizeTell
  <2>2. pc'[n] = "dead" => \E m \in Node : successor[m] = Null
    BY <1>4, RefreshAtNpe DEF StabilizeTell, Contactable
  <2>3. \A m \in Node \ {n} : pc'[m] = pc[m]
    BY <1>4 DEF StabilizeTell
  <2>4. QED BY <2>1, <2>2, <2>3
<1>5. CASE NotifyCheck(n)
  BY <1>5 DEF NotifyCheck, pointers
<1>6. CASE NotifySet(n)
  BY <1>6 DEF NotifySet
<1>7. CASE NotifyNobody(n)
  BY <1>7 DEF NotifyNobody, pointers
<1>8. CASE NotifyFails(n)
  BY <1>8, UpdateSuccessorNull DEF NotifyFails
<1>9. CASE FixFingersDies(n)
  BY <1>9 DEF FixFingersDies, Path, pointers
<1>10. QED
  BY <1>1, <1>2, <1>3, <1>4, <1>5, <1>6, <1>7, <1>8, <1>9 DEF Stabilize, Round

-----------------------------------------------------------------------------
(* What stabilize is about to adopt is closer than its successor. *)

LEMMA JoinAdopt ==
  ASSUME TypeOK, AdoptCloser, NEW n \in Node, Join(n)
  PROVE  AdoptCloser'
<1> USE DEF AdoptCloser, TypeOK
<1>1. pc'[n] # "adopt" /\ \A m \in Node \ {n} : pc'[m] = pc[m]
  BY JoinPc DEF JoinPC
<1>2. \A m \in Node \ {n} : successor'[m] = successor[m] /\ x'[m] = x[m]
  BY DEF Join, JoinFind, JoinReread, JoinTable, JoinWalk, JoinRefresh, JoinExit, Exit, pointers
<1>3. QED BY <1>1, <1>2

LEMMA StabilizeAdoptCloser ==
  ASSUME TypeOK, AdoptCloser, NEW n \in Node, Stabilize(n)
  PROVE  AdoptCloser'
<1> USE DEF AdoptCloser, TypeOK
<1>1. CASE StabilizeRead(n)
  <2>1. ASSUME pc'[n] = "adopt"
        PROVE  x'[n] # Null /\ Between(n, x'[n], successor[n])
    <3>1. /\ successor[n] \in Node
          /\ x'[n] \in Node /\ closer(n, successor[n], x'[n])
      BY <1>1, <2>1 DEF StabilizeRead, Contactable, NodeOrNull
    <3>2. QED BY <3>1, NodeAssumption, NullIsNoNode, CloserIsBetween
  <2>2. QED BY <1>1, <2>1 DEF StabilizeRead, pointers
<1>2. CASE StabilizeRecover(n)
  BY <1>2 DEF StabilizeRecover, UpdateSuccessor
<1>3. CASE StabilizeAdopt(n)
  BY <1>3 DEF StabilizeAdopt
<1>4. CASE StabilizeTell(n)
  BY <1>4 DEF StabilizeTell, locals
<1>5. CASE NotifyCheck(n)
  BY <1>5 DEF NotifyCheck, pointers
<1>6. CASE NotifySet(n)
  BY <1>6 DEF NotifySet
<1>7. CASE NotifyNobody(n)
  BY <1>7 DEF NotifyNobody, pointers, locals
<1>8. CASE NotifyFails(n)
  BY <1>8 DEF NotifyFails, UpdateSuccessor
<1>9. CASE FixFingersDies(n)
  BY <1>9 DEF FixFingersDies, pointers, locals
<1>10. QED
  BY <1>1, <1>2, <1>3, <1>4, <1>5, <1>6, <1>7, <1>8, <1>9 DEF Stabilize, Round
-----------------------------------------------------------------------------
(* The invariant that holds whoever crashes. *)

LEMMA InitRingInv == Init => RingInv
BY NodeAssumption
DEF Init, RingInv, PcFitsStatus, KnownStarted, NullIsDead, DeadOfNullSuccessor, AdoptCloser,
    StabilizePC, Started, EmptyList

LEMMA NextRingInv ==
  ASSUME TypeOK, RingInv, [Next]_vars
  PROVE  RingInv'
<1> USE DEF RingInv
<1>1. PcFitsStatus' /\ KnownStarted'
  BY NextPcFitsStatus, NextKnownStarted
<1>2. NullIsDead' /\ DeadOfNullSuccessor' /\ AdoptCloser'
  <2>1. ASSUME NEW n \in Node, Join(n)
        PROVE  NullIsDead' /\ DeadOfNullSuccessor' /\ AdoptCloser'
    BY <2>1, JoinNull, JoinAdopt
  <2>2. ASSUME NEW n \in Node, Stabilize(n)
        PROVE  NullIsDead' /\ DeadOfNullSuccessor' /\ AdoptCloser'
    BY <2>2, StabilizeNull, StabilizeAdoptCloser
  <2>3. ASSUME NEW n \in Node, NEW e \in Up, JoinStart(n, e)
        PROVE  NullIsDead' /\ DeadOfNullSuccessor' /\ AdoptCloser'
    BY <2>3
    DEF JoinStart, PcFitsStatus, NullIsDead, DeadOfNullSuccessor, AdoptCloser, TypeOK, pointers
  <2>4. ASSUME NEW n \in Crashers, Crash(n)
        PROVE  NullIsDead' /\ DeadOfNullSuccessor' /\ AdoptCloser'
    BY <2>4 DEF Crash, NullIsDead, DeadOfNullSuccessor, AdoptCloser, pointers, locals
  <2>5. CASE UNCHANGED vars
    BY <2>5 DEF vars, NullIsDead, DeadOfNullSuccessor, AdoptCloser, pointers, locals
  <2>6. QED BY <2>1, <2>2, <2>3, <2>4, <2>5 DEF Next
<1>3. QED BY <1>1, <1>2

\* The strengthening is an invariant.
THEOREM RingInvCorrect == Spec => []RingInv
BY InitRingInv, NextRingInv, TypeCorrect, PTL DEF Spec

\* However many joins give up, and whoever crashes, the nodes of a ring know only
\* nodes that have come through their join.
THEOREM JoinsLeaveNoTrace == Spec => []OnlyStartedKnown
<1>1. RingInv => OnlyStartedKnown
  <2> SUFFICES ASSUME KnownStarted, NEW n \in Started
               PROVE  {successor[n], predecessor[n], x[n], stub[n], successorList[n][0],
                       successorList[n][1]} \subseteq Started \cup {Null}
    BY DEF RingInv, OnlyStartedKnown
  <2>1. /\ successor[n] \in Started \cup {Null} /\ predecessor[n] \in Started \cup {Null}
        /\ x[n] \in Started \cup {Null} /\ stub[n] \in Started \cup {Null}
        /\ successorList[n][0] \in Started \cup {Null}
        /\ successorList[n][1] \in Started \cup {Null}
    BY DEF KnownStarted, Started
  <2>2. QED BY <2>1
<1>2. QED BY <1>1, RingInvCorrect, PTL

\* However the crashes fall, a stabilizer thread dies only when some node has a
\* null successor and a dead stabilizer of its own.
THEOREM DeathNeedsNull == Spec => []DeadOfNullSuccessor
BY RingInvCorrect, PTL DEF RingInv

-----------------------------------------------------------------------------
(* While no node crashes. *)

\* A node that stabilizes has come through its join.
LEMMA StabilizingIsStarted ==
  ASSUME TypeOK, PcFitsStatus, NEW n \in Node, pc[n] \in StabilizePC
  PROVE  n \in Started
BY DEF PcFitsStatus, TypeOK, JoinPC, StabilizePC, Started

\* Nobody is taken for dead.
LEMMA NobodyRecovers ==
  ASSUME TypeOK, RingInv, CalmInv, NEW n \in Node
  PROVE  ~StabilizeRecover(n) /\ ~NotifyFails(n)
<1>1. ASSUME NEW m \in Started PROVE Contactable(m)
  BY <1>1 DEF CalmInv, Started, Contactable
<1>2. ~StabilizeRecover(n)
  <2> SUFFICES ASSUME StabilizeRecover(n) PROVE FALSE
    OBVIOUS
  <2>1. n \in Started
    BY StabilizingIsStarted DEF StabilizeRecover, StabilizePC, RingInv
  <2>2. successor[n] \in Started
    BY <2>1 DEF RingInv, KnownStarted, CalmInv
  <2>3. QED BY <1>1, <2>2 DEF StabilizeRecover
<1>3. ~NotifyFails(n)
  BY <1>1 DEF NotifyFails, RingInv, KnownStarted
<1>4. QED BY <1>2, <1>3

\* Successors only get closer.
CloserStep == \A p \in Started : \/ successor'[p] = successor[p]
                               \/ /\ successor'[p] \in Node
                                  /\ Between(p, successor'[p], successor[p])

LEMMA CalmStepIsCloser ==
  ASSUME TypeOK, RingInv, CalmInv, Crashers = {}, [Next]_vars
  PROVE  CloserStep /\ \A n \in Node : status'[n] # "crashed" /\ successor'[n] # Null
<1> DEFINE P == CloserStep /\ \A n \in Node : status'[n] # "crashed" /\ successor'[n] # Null
<1> USE DEF CalmInv, CloserStep, TypeOK
<1>1. ASSUME NEW n \in Node, Join(n) PROVE P
  <2>1. status[n] = "joining" /\ n \notin Started
    BY <1>1, JoinPc DEF RingInv, PcFitsStatus, JoinPC, StabilizePC, Started
  <2>2. \A m \in Node \ {n} : successor'[m] = successor[m]
    BY <1>1
    DEF Join, JoinFind, JoinReread, JoinTable, JoinWalk, JoinRefresh, JoinExit, Exit, pointers
  <2>3. successor'[n] # Null
    <3>1. CASE JoinReread(n)
      BY <3>1, NullIsNoNode DEF JoinReread, Contactable
    <3>2. CASE JoinExit(n)
      BY <3>2, NullIsNoNode DEF JoinExit, Exit
    <3>3. CASE UNCHANGED successor
      BY <3>3
    <3>4. QED
      BY <1>1, <3>1, <3>2, <3>3 DEF Join, JoinFind, JoinTable, JoinWalk, JoinRefresh, pointers
  <2>4. \A m \in Node : status'[m] # "crashed"
    BY <1>1, JoinPc
  <2>5. QED BY <2>1, <2>2, <2>3, <2>4 DEF Started
<1>2. ASSUME NEW n \in Node, Stabilize(n) PROVE P
  <2>1. CASE StabilizeAdopt(n)
    BY <2>1 DEF StabilizeAdopt, RingInv, AdoptCloser, NodeOrNull
  <2>2. CASE UNCHANGED <<status, successor>>
    BY <2>2
  <2>3. QED
    BY <1>2, <2>1, <2>2, NobodyRecovers
    DEF Stabilize, Round, StabilizeRead, StabilizeTell, NotifyCheck, NotifySet, NotifyNobody,
        FixFingersDies, pointers
<1>3. ASSUME NEW n \in Node, NEW e \in Up, JoinStart(n, e) PROVE P
  BY <1>3 DEF JoinStart, pointers
<1>4. CASE UNCHANGED vars
  BY <1>4 DEF vars, pointers
<1>5. QED BY <1>1, <1>2, <1>3, <1>4 DEF Next

\* A claim outlives every step that brings successors closer.
LEMMA ClaimKept ==
  ASSUME TypeOK, CalmInv, CloserStep, NEW p \in Started, NEW s \in Node, Claim(p, s)
  PROVE  Claim(p, s)'
<1>1. /\ p \in Id /\ s \in Id /\ p \in Node
      /\ successor[p] \in Id
  BY NodeAssumption DEF Started, TypeOK, CalmInv, NodeOrNull
<1>2. CASE successor'[p] = successor[p]
  BY <1>2 DEF Claim
<1>3. CASE successor'[p] \in Node /\ Between(p, successor'[p], successor[p])
  <2>1. successor'[p] \in Id
    BY <1>3, NodeAssumption
  <2>2. CASE successor[p] = s
    BY <1>3, <2>2 DEF Claim
  <2>3. CASE Between(p, successor[p], s)
    BY <1>1, <1>3, <2>1, <2>3, BetweenTransitive DEF Claim
  <2>4. QED BY <2>2, <2>3 DEF Claim
<1>4. QED BY <1>2, <1>3 DEF CloserStep

LEMMA CalmStepKeepsClaims ==
  ASSUME TypeOK, RingInv, CalmInv, Crashers = {}, [Next]_vars
  PROVE  Claims'
<1> DEFINE Kept(p, s) == successor'[p] = s \/ Between(p, successor'[p], s)
<1>1. \A p \in Started, s \in Node : Claim(p, s) => Kept(p, s)
  <2> SUFFICES ASSUME NEW p \in Started, NEW s \in Node, Claim(p, s) PROVE Kept(p, s)
    OBVIOUS
  <2>1. Claim(p, s)'
    BY CalmStepIsCloser, ClaimKept
  <2>2. QED BY <2>1 DEF Claim
<1>2. \A m \in Node : pc[m] \in {"tell", "notify", "setPredecessor"} /\ stub[m] # Null
                      => Kept(m, stub[m])
  BY <1>1, StabilizingIsStarted DEF CalmInv, Claims, RingInv, TypeOK, NodeOrNull, StabilizePC
<1>3. \A m \in Node : predecessor[m] # Null => Kept(predecessor[m], m)
  BY <1>1 DEF CalmInv, Claims, RingInv, KnownStarted
<1>4. \A m \in Node : pc[m] = "adopt" => stub[m] = successor[m]
  BY DEF CalmInv, Claims
<1> SUFFICES \A m \in Node :
               /\ pc'[m] = "adopt" => stub'[m] = successor'[m]
               /\ pc'[m] \in {"tell", "notify", "setPredecessor"} /\ stub'[m] # Null
                    => Kept(m, stub'[m])
               /\ predecessor'[m] # Null => Kept(predecessor'[m], m)
  BY DEF Claims, Claim
<1> USE DEF TypeOK
<1>5. ASSUME NEW n \in Node, Join(n)
      PROVE  /\ \A m \in Node \ {n} : /\ pc'[m] = pc[m] /\ stub'[m] = stub[m]
                                      /\ successor'[m] = successor[m]
                                      /\ predecessor'[m] = predecessor[m]
             /\ pc'[n] \in JoinPC \cup {"idle", "stabilize"}
             /\ predecessor'[n] \in {predecessor[n], Null}
  <2>1. \A m \in Node \ {n} : pc'[m] = pc[m]
    BY <1>5, JoinPc
  <2>2. pc'[n] \in JoinPC \cup {"idle", "stabilize"}
    BY <1>5, JoinPc
  <2>3. QED
    BY <1>5, <2>1, <2>2
    DEF Join, JoinFind, JoinReread, JoinTable, JoinWalk, JoinRefresh, JoinExit, Exit, pointers
<1> DEFINE Good(m) ==
             /\ pc'[m] = "adopt" => stub'[m] = successor'[m]
             /\ pc'[m] \in {"tell", "notify", "setPredecessor"} /\ stub'[m] # Null
                  => Kept(m, stub'[m])
             /\ predecessor'[m] # Null => Kept(predecessor'[m], m)
<1>6. ASSUME NEW n \in Node, Join(n) PROVE \A m \in Node : Good(m)
  <2> HIDE DEF Kept
  <2>1. \A m \in Node \ {n} : Good(m)
    BY <1>2, <1>3, <1>4, <1>5, <1>6
  <2>2. Good(n)
    BY <1>3, <1>5, <1>6 DEF JoinPC
  <2>3. QED BY <2>1, <2>2
<1>7. ASSUME NEW n \in Node, Stabilize(n) PROVE \A m \in Node : Good(m)
  <2>1. CASE StabilizeRead(n)
    <3>1. Kept(n, successor[n])
      BY <2>1 DEF StabilizeRead, pointers
    <3> HIDE DEF Kept
    <3>2. QED BY <1>2, <1>3, <1>4, <2>1, <3>1 DEF StabilizeRead, pointers
  <2>2. CASE StabilizeAdopt(n)
    <3>1. Kept(n, stub[n])
      BY <1>4, <2>2 DEF StabilizeAdopt, RingInv, AdoptCloser
    <3> HIDE DEF Kept
    <3>2. QED BY <1>2, <1>3, <1>4, <2>2, <3>1 DEF StabilizeAdopt
  <2>3. CASE StabilizeTell(n)
    <3> HIDE DEF Kept
    <3>1. QED BY <1>2, <1>3, <1>4, <2>3 DEF StabilizeTell, locals
  <2>4. CASE NotifyCheck(n)
    <3> HIDE DEF Kept
    <3>1. QED BY <1>2, <1>3, <1>4, <2>4 DEF NotifyCheck, pointers
  <2>5. CASE NotifySet(n)
    <3>1. stub[n] \in Node /\ stub[n] # Null
      BY <2>5, NullIsNoNode DEF NotifySet, Contactable
    <3> HIDE DEF Kept
    <3>2. QED BY <1>2, <1>3, <1>4, <2>5, <3>1 DEF NotifySet
  <2>6. CASE NotifyNobody(n)
    <3> HIDE DEF Kept
    <3>1. QED BY <1>2, <1>3, <1>4, <2>6 DEF NotifyNobody, pointers, locals
  <2>7. ~FixFingersDies(n)
    BY DEF FixFingersDies, Path, CalmInv
  <2>8. QED
    BY <1>7, <2>1, <2>2, <2>3, <2>4, <2>5, <2>6, <2>7, NobodyRecovers DEF Stabilize, Round
<1>8. ASSUME NEW n \in Node, NEW e \in Up, JoinStart(n, e) PROVE \A m \in Node : Good(m)
  <2> HIDE DEF Kept
  <2>1. QED BY <1>2, <1>3, <1>4, <1>8 DEF JoinStart, pointers
<1>9. CASE UNCHANGED vars
  <2> HIDE DEF Kept
  <2>1. QED BY <1>2, <1>3, <1>4, <1>9 DEF vars, pointers, locals
<1>10. QED BY <1>6, <1>7, <1>8, <1>9 DEF Next

LEMMA InitCalm == Init => CalmInv
BY NodeAssumption DEF Init, CalmInv, Claims

\* The second strengthening is an invariant as long as no node crashes.
LEMMA CalmInvCorrect ==
  ASSUME Crashers = {}
  PROVE  Spec => []CalmInv
<1>1. Init => CalmInv
  BY InitCalm
<1>2. TypeOK /\ RingInv /\ CalmInv /\ [Next]_vars => CalmInv'
  BY CalmStepIsCloser, CalmStepKeepsClaims DEF CalmInv
<1>3. QED BY <1>1, <1>2, TypeCorrect, RingInvCorrect, PTL DEF Spec

\* While no node crashes, the predecessor of a node has that node, or by now a
\* closer one, as its successor: no pair of racing notifications leaves a node
\* with a predecessor that never meant it.
THEOREM PredecessorsMeanIt ==
  ASSUME Crashers = {}
  PROVE  Spec => []PredecessorClaimed
<1>1. CalmInv => PredecessorClaimed
  BY DEF CalmInv, Claims, Claim, PredecessorClaimed, Up
<1>2. QED BY <1>1, CalmInvCorrect, PTL

=============================================================================
