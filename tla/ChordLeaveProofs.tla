-------------------------- MODULE ChordLeaveProofs --------------------------
(***************************************************************************)
(* Proofs about departures, for any set of nodes of which any may leave:   *)
(* the types; that no pointer ever passes over a node that stays, whatever *)
(* the hooks and the stabilizers do to each other, so that those who stay  *)
(* reach each other; and that a node which leaves alone, when its          *)
(* stabilizer has ended, is taken out of the ring.                         *)
(***************************************************************************)
EXTENDS ChordLeave, ChordLookupProofs

HookPC == {"none", "tell", "set", "test", "hop", "found", "remove", "replace", "pass", "exit"}

HookType == [pc : HookPC, at : NodeOrNull, x : NodeOrNull, i : 0 .. NUM_FINGERS - 1,
             quiet : BOOLEAN]

\* leave looks for an identifier of the circle, too.
LEMMA FingerValueType ==
  ASSUME NEW n \in Id, NEW i \in 0 .. NUM_FINGERS
  PROVE  fingerValue(n, i) \in Id
<1> DEFINE power == 2 ^ i
           v == n - power + 1
           w == v + RingSize \div 2
<1>1. power \in Nat
  BY PowersAssumption
<1>2. INT_MAX \in Nat /\ INT_MIN = -INT_MAX - 1 /\ RingSize = 2 * INT_MAX + 2
  BY IntAssumption DEF INT_MIN, RingSize
<1> HIDE DEF power
<1>3. v \in Int
  BY <1>1, <1>2 DEF Id
<1> HIDE DEF v
<1>4. RingSize \div 2 = INT_MAX + 1
  BY <1>2
<1>5. w \in Int
  BY <1>2, <1>3, <1>4
<1> HIDE DEF w
<1>6. w % RingSize \in 0 .. RingSize - 1
  BY <1>2, <1>5
<1>7. castInt(v) = (w % RingSize) - (INT_MAX + 1)
  BY <1>4 DEF castInt, castTo, w
<1>8. castInt(v) \in Id
  BY <1>2, <1>6, <1>7 DEF Id
<1>9. QED BY <1>8 DEF fingerValue, v, power

LEMMA FirstFinger == 0 \in 0 .. NUM_FINGERS /\ 0 \in 0 .. NUM_FINGERS - 1
BY IdsAssumption

LEMMA LeaveFingerType ==
  ASSUME LeaveTypeOK, NEW n \in Node, NEW i \in 0 .. NUM_FINGERS, NEW quiet \in BOOLEAN,
         LeaveFinger(n, i, quiet)
  PROVE  hook' \in [Node -> HookType]
<1>1. NUM_FINGERS \in Nat \ {0}
  BY IdsAssumption
<1>2. CASE i < NUM_FINGERS
  <2>1. i \in 0 .. NUM_FINGERS - 1
    BY <1>1, <1>2
  <2> DEFINE h == [pc |-> "test", at |-> n, x |-> Null, i |-> i, quiet |-> quiet]
  <2>2. h \in HookType
    BY <2>1 DEF HookType, HookPC, NodeOrNull
  <2>3. hook' = [hook EXCEPT ![n] = h]
    BY <1>2 DEF LeaveFinger
  <2> HIDE DEF h
  <2>4. QED BY <2>2, <2>3 DEF LeaveTypeOK, HookType, HookPC
<1>3. CASE ~(i < NUM_FINGERS)
  <2> DEFINE h == [pc |-> "exit", at |-> Null, x |-> Null, i |-> 0, quiet |-> quiet]
  <2>1. h \in HookType
    BY FirstFinger DEF HookType, HookPC, NodeOrNull
  <2>2. hook' = [hook EXCEPT ![n] = h]
    BY <1>3 DEF LeaveFinger
  <2> HIDE DEF h
  <2>3. QED BY <2>1, <2>2 DEF LeaveTypeOK, HookType, HookPC
<1>4. QED BY <1>2, <1>3

LEMMA NextFingerType ==
  ASSUME LeaveTypeOK, NEW n \in Node, NextFinger(n)
  PROVE  hook' \in [Node -> HookType]
<1>1. hook[n].i + 1 \in 0 .. NUM_FINGERS /\ hook[n].quiet \in BOOLEAN
  BY IdsAssumption DEF LeaveTypeOK
<1> DEFINE i == hook[n].i + 1
           quiet == hook[n].quiet
<1>2. LeaveFinger(n, i, quiet)
  BY DEF NextFinger
<1> HIDE DEF i, quiet
<1>3. QED BY <1>1, <1>2, LeaveFingerType DEF i, quiet

LEMMA LeaveDiesType ==
  ASSUME LeaveTypeOK, NEW n \in Node, LeaveDies(n)
  PROVE  LeaveTypeOK'
<1>1. NoHook \in HookType
  BY IdsAssumption DEF NoHook, HookType, HookPC, NodeOrNull
<1>2. hook' \in [Node -> HookType]
  BY <1>1 DEF LeaveDies, LeaveTypeOK, HookType, HookPC
<1>3. TypeOK'
  BY DEF LeaveDies, LeaveTypeOK, LookupTypeOK, TypeOK, pointers, locals
<1>4. QED
  BY <1>2, <1>3 DEF LeaveDies, LeaveTypeOK, LookupTypeOK, lookupVars, HookType, HookPC

LEMMA AllUnchangedType ==
  ASSUME LookupTypeOK, UNCHANGED allVars
  PROVE  LookupTypeOK'
BY DEF allVars, lookupVars, vars, pointers, locals, LookupTypeOK, TypeOK

LEMMA LeaveType ==
  ASSUME LeaveTypeOK, NEW n \in Node, Leave(n)
  PROVE  LeaveTypeOK'
<1>1. /\ LookupTypeOK
      /\ hook \in [Node -> HookType]
  BY DEF LeaveTypeOK, HookType, HookPC
<1>2. ASSUME LookupTypeOK', hook' \in [Node -> HookType] PROVE LeaveTypeOK'
  BY <1>2 DEF LeaveTypeOK, HookType, HookPC
<1>3. CASE LeaveTell(n)
  <2>1. LookupTypeOK'
    BY <1>1, <1>3, AllUnchangedType DEF LeaveTell
  <2>2. CASE LeaveFinger(n, 0, FALSE)
    BY <1>2, <2>1, <2>2, LeaveFingerType, FirstFinger
  <2>3. CASE hook' = [hook EXCEPT ![n] = [@ EXCEPT !.pc = "set", !.at = successor[n],
                                                   !.x = predecessor[n]]]
    <3>1. successor[n] \in NodeOrNull /\ predecessor[n] \in NodeOrNull
      BY <1>1 DEF LookupTypeOK, TypeOK
    <3>2. hook' \in [Node -> HookType]
      BY <1>1, <2>3, <3>1 DEF HookType, HookPC
    <3>3. QED BY <1>2, <2>1, <3>2
  <2>4. QED BY <1>3, <2>2, <2>3 DEF LeaveTell
<1>4. CASE LeaveSet(n)
  <2>1. predecessor' \in [Node -> NodeOrNull]
    BY <1>1, <1>4 DEF LeaveSet, LookupTypeOK, TypeOK, HookType
  <2>2. LookupTypeOK'
    BY <1>1, <1>4, <2>1 DEF LeaveSet, LookupTypeOK, TypeOK, lookupVars, locals
  <2> DEFINE quiet == Asleep(n)
  <2>3. LeaveFinger(n, 0, quiet) /\ quiet \in BOOLEAN
    BY <1>4 DEF LeaveSet, Asleep
  <2> HIDE DEF quiet
  <2>4. QED BY <1>2, <2>2, <2>3, LeaveFingerType, FirstFinger
<1>5. CASE LeaveTest(n)
  <2>1. hook' \in [Node -> HookType]
    BY <1>1, <1>5 DEF LeaveTest, HookType, HookPC
  <2>2. QED BY <1>1, <1>2, <1>5, <2>1, AllUnchangedType DEF LeaveTest
<1>6. CASE LeaveHop(n)
  <2> DEFINE m == hook[n].at
             id == LeaveLookup(n).id
             next == closestPrecedingFinger(m, id)
  <2>1. m \in Node
    BY <1>6 DEF LeaveHop, Contactable
  <2>2. id \in Id
    <3>1. n \in Id /\ hook[n].i \in 0 .. NUM_FINGERS
      BY <1>1, NodeAssumption, IdsAssumption DEF HookType
    <3>2. QED BY <3>1, FingerValueType DEF LeaveLookup
  <2> HIDE DEF m, id
  <2>3. next \in Node
    BY <1>1, <2>1, <2>2, HopType
  <2>4. hook' = [hook EXCEPT ![n] = [@ EXCEPT !.pc = "test", !.at = next]]
    BY <1>6 DEF LeaveHop, m, id
  <2> HIDE DEF next
  <2>5. hook' \in [Node -> HookType]
    BY <1>1, <2>3, <2>4 DEF HookType, HookPC, NodeOrNull
  <2>6. QED BY <1>1, <1>2, <1>6, <2>5, AllUnchangedType DEF LeaveHop
<1>7. CASE LeaveFound(n)
  <2>1. successor[n] \in NodeOrNull
    BY <1>1 DEF LookupTypeOK, TypeOK
  <2>2. hook' \in [Node -> HookType]
    BY <1>1, <1>7, <2>1 DEF LeaveFound, HookType, HookPC
  <2>3. QED BY <1>1, <1>2, <1>7, <2>2, AllUnchangedType DEF LeaveFound
<1>8. CASE RemoveNode(n)
  <2>1. hook' = [hook EXCEPT ![n].pc = "replace"] => hook' \in [Node -> HookType]
    BY <1>1 DEF HookType, HookPC
  <2>2. hook' \in [Node -> HookType]
    BY <1>8, <2>1, NextFingerType DEF RemoveNode
  <2>3. QED BY <1>1, <1>2, <1>8, <2>2, AllUnchangedType DEF RemoveNode
<1>9. CASE RemoveReplace(n)
  <2>1. hook' \in [Node -> HookType]
    BY <1>1, <1>9 DEF RemoveReplace, HookType, HookPC
  <2> DEFINE p == hook[n].at
             y == hook[n].x
             i == hook[n].i
  <2>2. p \in Node /\ y \in NodeOrNull /\ i \in 0 .. NUM_FINGERS - 1
    BY <1>1, <1>9 DEF RemoveReplace, Contactable, HookType
  <2>3. \/ successor' = [successor EXCEPT ![p] = y] /\ finger' = finger
        \/ /\ i # 0
           /\ finger' = [finger EXCEPT ![p][i] = y] /\ successor' = successor
    BY <1>9 DEF RemoveReplace
  <2> HIDE DEF p, y, i
  <2>4. successor' \in [Node -> NodeOrNull]
    BY <1>1, <2>2, <2>3 DEF LookupTypeOK, TypeOK
  <2>5. finger' \in [Node -> [FingerIndex -> NodeOrNull]]
    <3> DEFINE row == [finger[p] EXCEPT ![i] = y]
    <3>1. row \in [FingerIndex -> NodeOrNull]
      BY <1>1, <2>2 DEF LookupTypeOK
    <3>2. finger' = [finger EXCEPT ![p] = row] \/ finger' = finger
      BY <2>3
    <3> HIDE DEF row
    <3>3. QED BY <1>1, <2>2, <3>1, <3>2 DEF LookupTypeOK
  <2>6. LookupTypeOK'
    BY <1>1, <1>9, <2>4, <2>5 DEF RemoveReplace, LookupTypeOK, TypeOK, locals
  <2>7. QED BY <1>2, <2>1, <2>6
<1>10. CASE RemovePass(n)
  <2>1. predecessor[hook[n].at] \in NodeOrNull
    BY <1>1, <1>10 DEF RemovePass, Contactable, LookupTypeOK, TypeOK
  <2>2. CASE NextFinger(n)
    BY <1>1, <1>2, <1>10, <2>2, NextFingerType, AllUnchangedType DEF RemovePass
  <2>3. CASE hook' = [hook EXCEPT ![n] = [@ EXCEPT !.pc = "remove",
                                                   !.at = predecessor[hook[n].at]]]
    <3>1. hook' \in [Node -> HookType]
      BY <1>1, <2>1, <2>3 DEF HookType, HookPC
    <3>2. QED BY <1>1, <1>2, <1>10, <3>1, AllUnchangedType DEF RemovePass
  <2>4. QED BY <1>10, <2>2, <2>3 DEF RemovePass
<1>11. CASE LeaveFails(n)
  BY <1>1, <1>2, <1>11, NextFingerType, AllUnchangedType DEF LeaveFails
<1>12. CASE LeaveThrows(n)
  BY <1>12, LeaveDiesType DEF LeaveThrows
<1>13. QED
  BY <1>3, <1>4, <1>5, <1>6, <1>7, <1>8, <1>9, <1>10, <1>11, <1>12 DEF Leave

LEMMA LeaveNextType == LeaveTypeOK /\ [LeaveNext]_leaveVars => LeaveTypeOK'
<1> SUFFICES ASSUME LeaveTypeOK, [LeaveNext]_leaveVars PROVE LeaveTypeOK'
  OBVIOUS
<1>1. ASSUME NEW n \in Node, LeaveRound(n) PROVE LeaveTypeOK'
  BY <1>1, FindType, StabilizeRoundType, FixType DEF LeaveRound, LeaveTypeOK
<1>2. ASSUME NEW n \in Node, Leave(n) PROVE LeaveTypeOK'
  BY <1>2, LeaveType
<1>3. ASSUME NEW n \in Leavers, Cancel(n) PROVE LeaveTypeOK'
  <2>1. n \in Node
    BY LeaversAssumption
  <2>2. CASE LeaveDies(n)
    BY <2>1, <2>2, LeaveDiesType
  <2>3. CASE hook' = [hook EXCEPT ![n].pc = "tell"] /\ UNCHANGED allVars
    BY <2>1, <2>3, AllUnchangedType DEF LeaveTypeOK
  <2>4. QED BY <1>3, <2>2, <2>3 DEF Cancel
<1>4. ASSUME NEW n \in Crashers, Crash(n), UNCHANGED <<lookupVars, hook>> PROVE LeaveTypeOK'
  <2>1. [LookupNext]_allVars
    BY <1>4 DEF LookupNext
  <2>2. QED BY <1>4, <2>1, LookupNextType DEF LeaveTypeOK
<1>5. CASE UNCHANGED leaveVars
  BY <1>5, AllUnchangedType DEF leaveVars, LeaveTypeOK
<1>6. QED BY <1>1, <1>2, <1>3, <1>4, <1>5 DEF LeaveNext

-----------------------------------------------------------------------------
(* The rings a departure starts from. *)

LEMMA FollowerUnique ==
  ASSUME NEW S \in SUBSET Id, NEW n \in S, NEW m \in S, NEW k \in S,
         Follows(S, n, m), Follows(S, n, k)
  PROVE  m = k
<1>1. CASE m = n \/ k = n
  BY <1>1 DEF Follows
<1>2. CASE m # n /\ k # n
  <2>1. ~Between(n, k, m) /\ ~Between(n, m, k)
    BY <1>2 DEF Follows
  <2>2. n \in Id /\ m \in Id /\ k \in Id
    OBVIOUS
  <2>3. QED BY <1>2, <2>1, <2>2, IntAssumption DEF Id, INT_MIN, Between
<1>3. QED BY <1>1, <1>2

\* Every node of a ring follows one.
LEMMA FollowedExists ==
  ASSUME NEW S \in SUBSET Id, NEW n \in S
  PROVE  \E m \in S : Follows(S, m, n)
<1>1. CASE S = {n}
  BY <1>1, FollowsIsNearest
<1>2. CASE S # {n}
  <2>1. PICK m \in S \ {n} : \A k \in S \ {n} : Dist(m, n) <= Dist(k, n)
    <3> S \ {n} \in SUBSET Id /\ S \ {n} # {} /\ n \in Id
      BY <1>2
    <3> QED BY NearestBefore
  <2>2. ASSUME NEW k \in S \ {m} PROVE ~Between(m, k, n)
    <3>1. m \in Id /\ n \in Id /\ k \in Id /\ m # n /\ (k = n \/ Dist(m, n) <= Dist(k, n))
      BY <2>1
    <3>2. QED BY <3>1, <2>2, IntAssumption DEF Id, INT_MIN, Between, Dist, RingSize
  <2>3. QED BY <2>1, <2>2 DEF Follows
<1>3. QED BY <1>1, <1>2

LEMMA SortedFollows ==
  ASSUME NEW S \in SUBSET Id, NEW n \in S
  PROVE  SR!Sorted(S)[n] \in S /\ Follows(S, n, SR!Sorted(S)[n])
<1>1. \A m \in S : SR!Follows(S, n, m) <=> Follows(S, n, m)
  BY DEF SR!Follows, Follows, SR!Between, Between
<1>2. PICK m \in S : Follows(S, n, m)
  BY FollowerExists
<1>3. QED BY <1>1, <1>2 DEF SR!Sorted

LEMMA SettledRing ==
  ASSUME NEW S \in SUBSET Node, NEW j \in S, S # {j}, LookupSettled(S, j)
  PROVE  /\ LookupTypeOK
         /\ Up = S /\ \A n \in Node : status[n] \in {"up", "down"}
         /\ \A n \in S : /\ successor[n] \in S /\ Follows(S, n, successor[n])
                         /\ predecessor[n] \in S /\ successor[predecessor[n]] = n
         /\ \A n \in Node : /\ n \notin S => pc[n] = "idle"
                            /\ n \in S => pc[n] = "stabilize"
                            /\ stub[n] = Null
<1> DEFINE succ == SR!Sorted(S)
           old == SR!Sorted(S \ {j})
<1>1. Node \subseteq Id /\ S \subseteq Id
  BY NodeAssumption
<1>2. \A n \in S : succ[n] \in S /\ Follows(S, n, succ[n])
  BY <1>1, SortedFollows
<1>3. \A n \in S \ {j} : old[n] \in S \ {j}
  BY <1>1, SortedFollows
<1>4. succ[j] # j
  <2>1. Follows(S, j, succ[j])
    BY <1>2
  <2> HIDE DEF succ
  <2>2. QED BY <2>1 DEF Follows
<1>5. ASSUME NEW n \in S PROVE \E m \in S : succ[m] = n
  <2>1. PICK m \in S : Follows(S, m, n)
    BY <1>1, FollowedExists
  <2>2. QED BY <1>1, <1>2, <2>1, FollowerUnique
<1>6. /\ status = [n \in Node |-> IF n \in S THEN "up" ELSE "down"]
      /\ successor = [n \in Node |-> IF n \in S THEN succ[n] ELSE n]
      /\ predecessor = [n \in Node |-> IF n \in S THEN CHOOSE m \in S : succ[m] = n ELSE Null]
      /\ pc = [n \in Node |-> IF n \in S THEN "stabilize" ELSE "idle"]
      /\ stub = [n \in Node |-> Null] /\ x = [n \in Node |-> Null]
      /\ entry = [n \in Node |-> Null] /\ want = [n \in Node |-> {}]
  BY DEF LookupSettled, Settled, AtRest
<1>7. successorList \in [Node -> [{0, 1} -> NodeOrNull]]
  <2> DEFINE list(n, next) == [i \in {0, 1} |-> IF i = 0 THEN next[n]
                                        ELSE IF next[next[n]] = next[n] THEN Null
                                        ELSE next[next[n]]]
             entryOf(n) == IF n \notin S THEN EmptyList
                           ELSE IF succ[n] = j THEN list(n, old) ELSE list(n, succ)
  <2>1. successorList = [n \in Node |-> entryOf(n)]
    BY DEF LookupSettled, Settled, AtRest
  <2>2. ASSUME NEW n \in Node PROVE entryOf(n) \in [{0, 1} -> NodeOrNull]
    <3>1. CASE n \notin S
      BY <3>1 DEF EmptyList, NodeOrNull
    <3>2. CASE n \in S /\ succ[n] = j
      <4>1. n \in S \ {j}
        BY <1>4, <3>2
      <4>2. old[n] \in Node /\ old[old[n]] \in Node
        BY <1>3, <4>1
      <4>3. entryOf(n) = list(n, old)
        BY <3>2
      <4> HIDE DEF entryOf, old, succ
      <4>4. QED BY <4>2, <4>3 DEF NodeOrNull
    <3>3. CASE n \in S /\ succ[n] # j
      <4>1. succ[n] \in Node /\ succ[succ[n]] \in Node
        BY <1>2, <3>3
      <4>2. entryOf(n) = list(n, succ)
        BY <3>3
      <4> HIDE DEF entryOf, old, succ
      <4>3. QED BY <4>1, <4>2 DEF NodeOrNull
    <3>4. QED BY <3>1, <3>2, <3>3
  <2> HIDE DEF entryOf
  <2>3. QED BY <2>1, <2>2
<1>8. /\ finger \in [Node -> [FingerIndex -> NodeOrNull]]
      /\ fingerIndexToUpdate \in [Node -> 0 .. NUM_FINGERS - 1]
      /\ lookup \in [Node -> [pc : {"idle", "test", "hop", "reread"}, at : NodeOrNull, id : Id]]
  <2>1. ASSUME NEW id \in Id PROVE ResponsibleOf(S, id) \in S
    <3>1. \E m \in S : \A k \in S : Dist(id, m) <= Dist(id, k)
      BY <1>1, NearestAfter
    <3>2. QED BY <3>1 DEF ResponsibleOf
  <2>2. ASSUME NEW n \in Node, NEW i \in FingerIndex
        PROVE  ResponsibleOf(S, computeIdToFind(n, i)) \in S
    BY <1>1, <2>1, IdToFindType
  <2>3. finger \in [Node -> [FingerIndex -> NodeOrNull]]
    BY <2>2 DEF LookupSettled, NodeOrNull
  <2>4. Idle \in [pc : {"idle", "test", "hop", "reread"}, at : NodeOrNull, id : Id]
    BY IntAssumption DEF Idle, NodeOrNull, Id, INT_MIN
  <2>5. QED BY <2>3, <2>4, IdsAssumption DEF LookupSettled
<1> HIDE DEF succ, old
<1>9. \A n \in S : /\ successor[n] = succ[n]
                   /\ predecessor[n] \in S /\ succ[predecessor[n]] = n
  BY <1>5, <1>6
<1>10. TypeOK
  BY <1>2, <1>6, <1>7, <1>9 DEF TypeOK, NodeOrNull
<1>11. Up = S
  BY <1>6 DEF Up
<1>12. QED
  BY <1>2, <1>6, <1>8, <1>9, <1>10, <1>11 DEF LookupTypeOK

LEMMA LeaveRingsType == LeaveRings => LeaveTypeOK
<1> SUFFICES ASSUME LeaveRings PROVE LeaveTypeOK
  OBVIOUS
<1>1. LookupTypeOK
  BY LookupInitType, SettledRing DEF LeaveRings, LeaveInit
<1>2. hook = [n \in Node |-> NoHook]
  BY DEF LeaveRings, LeaveInit
<1>3. QED BY <1>1, <1>2, IdsAssumption DEF LeaveTypeOK, NoHook, NodeOrNull

\* Every variable keeps its type during departures: the hook never asks for a finger
\* that there is not, whatever it finds at the nodes it is led to.
THEOREM LeaveTypeCorrect == LeaveSpec => []LeaveTypeOK
BY LeaveRingsType, LeaveNextType, PTL DEF LeaveSpec
-----------------------------------------------------------------------------
(* Nobody who stays is passed over. *)

\* A state of a departure in which no process has died.
LeaveCalm == /\ LeaveTypeOK /\ ~AnyCrash
             /\ OnlyUpKnown /\ NoDetours /\ Untold /\ TakenOut

\* What lies on no arc of a way lies on no short cut of it.
LEMMA ShortCut ==
  ASSUME NEW p \in Id, NEW n \in Id, NEW t \in Id, NEW m \in Id,
         m # n, ~Between(p, m, n), ~Between(n, m, t)
  PROVE  ~Between(p, m, t)
BY IntAssumption DEF Id, INT_MIN, Between

\* A pointer that does not pass over b leads nearer to it.
LEMMA StepNears ==
  ASSUME NEW m \in Id, NEW t \in Id, NEW b \in Id, m # b, t # b, ~Between(m, b, t)
  PROVE  ~(Dist(m, b) <= Dist(t, b))
BY IntAssumption DEF Id, INT_MIN, Between, Dist, RingSize

\* Whoever passes over itself passes over everybody.
LEMMA WholeCircle == \A a, b \in Id : a # b => Between(a, b, a)
BY IntAssumption DEF Id, INT_MIN, Between

LEMMA UpAreIds == Up \subseteq Node /\ Node \subseteq Id /\ Staying \subseteq Up /\ Null \notin Up
BY NodeAssumption DEF Up, Staying

LEMMA Contacts == ASSUME OnlyUpKnown PROVE \A m : Contactable(m) <=> m \in Up
BY DEF OnlyUpKnown, Contactable, Up

\* What a stabilizer adopts lies before its successor.
LEMMA CloserIsNode ==
  ASSUME NEW n \in Node, NEW s \in Node, NEW p \in Node
  PROVE  closer(n, s, p) <=> Between(n, p, s)
BY NodeAssumption, CloserIsBetween

LEMMA CoversIsNode ==
  ASSUME NEW n \in Node, NEW s \in Node, NEW p \in Node
  PROVE  covers(n, s, p) <=> Between(n, p, s) \/ p = s
BY NodeAssumption, CoversIsBetween

\* The steps of a stabilizer while nobody has died.
LEMMA RoundCases ==
  ASSUME LeaveCalm, NEW n \in Node, LeaveRound(n)
  PROVE  /\ n \in Up /\ ~Asleep(n) /\ UNCHANGED <<status, hook>>
         /\ \A m \in Node \ {n} : lookup'[m] = lookup[m]
         /\ \/ \/ StabilizeRead(n) \/ StabilizeAdopt(n) \/ StabilizeTell(n)
               \/ NotifyCheck(n) \/ NotifySet(n) \/ NotifyNobody(n)
            \/ UNCHANGED <<pointers, locals>> /\ (pc' = pc \/ pc' = [pc EXCEPT ![n] = "dead"])
<1> USE Contacts DEF LeaveCalm
<1>1. ~Asleep(n) /\ UNCHANGED hook
  BY DEF LeaveRound
<1>2. LookupTypeOK
  BY DEF LeaveTypeOK
<1>3. CASE Find(n)
  BY <1>1, <1>2, <1>3
  DEF Find, LookupTest, LookupHop, Begin, vars, LookupTypeOK
<1>4. CASE Fix(n)
  <2>1. n \in Up
    BY <1>4 DEF Fix, FixFound, FixSet, FixFails, FixDies, Up
  <2>2. QED
    BY <1>1, <1>2, <1>4, <2>1
    DEF Fix, FixFound, FixSet, FixFails, FixDies, End, vars, LookupTypeOK
<1>5. CASE StabilizeRound(n)
  <2>1. pc[n] \in {"stabilize", "adopt", "tell", "notify", "setPredecessor"}
    BY <1>5
    DEF StabilizeRound, Round, StabilizeRead, StabilizeRecover, StabilizeAdopt, StabilizeTell,
        NotifyCheck, NotifySet, NotifyNobody, NotifyFails
  <2>2. n \in Up
    BY <2>1 DEF OnlyUpKnown
  <2>3. ~StabilizeRecover(n) /\ ~NotifyFails(n)
    BY <2>2 DEF StabilizeRecover, NotifyFails, OnlyUpKnown
  <2>4. status' = status
    BY <1>5, <2>3
    DEF StabilizeRound, Round, StabilizeRead, StabilizeAdopt, StabilizeTell,
        NotifyCheck, NotifySet, NotifyNobody
  <2>5. \A m \in Node \ {n} : lookup'[m] = lookup[m]
    BY <1>2, <1>5 DEF StabilizeRound, Begin, LookupTypeOK
  <2>6. QED BY <1>1, <1>5, <2>2, <2>3, <2>4, <2>5 DEF StabilizeRound, Round
<1>6. QED BY <1>3, <1>4, <1>5 DEF LeaveRound

LEMMA SameUp ==
  ASSUME status' = status PROVE Up' = Up /\ AnyCrash' = AnyCrash
BY DEF Up, AnyCrash

LEMMA SameStaying ==
  ASSUME status' = status, hook' = hook
  PROVE  Up' = Up /\ Staying' = Staying
BY SameUp DEF Staying, Hooking

LEMMA RoundKnown ==
  ASSUME LeaveCalm, NEW n \in Node, LeaveRound(n)
  PROVE  OnlyUpKnown'
<1> USE DEF LeaveCalm
<1>1. /\ n \in Up /\ status' = status /\ hook' = hook /\ Up' = Up
      /\ Up \subseteq Node /\ TypeOK
  BY RoundCases, SameUp, UpAreIds DEF LeaveTypeOK, LookupTypeOK
<1>2. SUFFICES
        /\ \A m \in Node \ {n} : pc'[m] = pc[m]
        /\ \A m \in Up \ {n} : /\ successor'[m] = successor[m] /\ stub'[m] = stub[m]
                               /\ x'[m] = x[m]
        /\ pc'[n] \in StabilizePC /\ successor'[n] \in Up /\ stub'[n] \in Up \cup {Null}
        /\ pc'[n] = "adopt" => x'[n] \in Up
        /\ \A m \in Up : predecessor'[m] \in Up \cup {Null}
  BY <1>1, <1>2 DEF OnlyUpKnown, Hooking
<1>3. CASE StabilizeRead(n)
  BY <1>1, <1>3, UpAreIds
  DEF StabilizeRead, OnlyUpKnown, TypeOK, pointers, StabilizePC
<1>4. CASE StabilizeAdopt(n)
  BY <1>1, <1>4 DEF StabilizeAdopt, OnlyUpKnown, TypeOK, StabilizePC
<1>5. CASE StabilizeTell(n)
  BY <1>1, <1>5 DEF StabilizeTell, OnlyUpKnown, TypeOK, StabilizePC, locals
<1>6. CASE NotifyCheck(n)
  BY <1>1, <1>6 DEF NotifyCheck, OnlyUpKnown, TypeOK, StabilizePC, pointers
<1>7. CASE NotifySet(n)
  BY <1>1, <1>7 DEF NotifySet, OnlyUpKnown, TypeOK, StabilizePC
<1>8. CASE NotifyNobody(n)
  BY <1>1, <1>8 DEF NotifyNobody, OnlyUpKnown, TypeOK, StabilizePC, pointers, locals
<1>9. CASE UNCHANGED <<pointers, locals>> /\ (pc' = pc \/ pc' = [pc EXCEPT ![n] = "dead"])
  BY <1>1, <1>9 DEF OnlyUpKnown, TypeOK, StabilizePC, pointers, locals
<1>10. QED BY <1>3, <1>4, <1>5, <1>6, <1>7, <1>8, <1>9, RoundCases

LEMMA RoundDetours ==
  ASSUME LeaveCalm, NEW n \in Node, LeaveRound(n)
  PROVE  NoDetours'
<1> USE DEF LeaveCalm
<1>1. /\ n \in Up /\ status' = status /\ hook' = hook /\ Up' = Up /\ Staying' = Staying
      /\ Up \subseteq Node /\ Up \subseteq Id /\ Staying \subseteq Id /\ Null \notin Up /\ TypeOK
      /\ NodeOrNull = Node \cup {Null}
  BY RoundCases, SameStaying, UpAreIds DEF LeaveTypeOK, LookupTypeOK, NodeOrNull
<1>2. SUFFICES
        /\ \A m \in Up \ {n} : successor'[m] = successor[m] /\ pc'[m] = pc[m] /\ x'[m] = x[m]
        /\ NoStayingPassed(n, successor'[n])
        /\ pc'[n] = "adopt" => NoStayingPassed(n, x'[n])
  BY <1>1, <1>2 DEF NoDetours, NoStayingPassed, Hooking
<1>3. NoStayingPassed(n, successor[n]) /\ (pc[n] = "adopt" => NoStayingPassed(n, x[n]))
  BY <1>1 DEF NoDetours
<1>4. CASE StabilizeRead(n)
  <2>1. CASE pc'[n] = "adopt"
    <3> DEFINE s == successor[n]
               p == predecessor[s]
    <3>1. s \in Up /\ p \in Up /\ x'[n] = p /\ closer(n, s, p)
      BY <1>1, <1>4, <2>1 DEF StabilizeRead, OnlyUpKnown, TypeOK
    <3>2. Between(n, p, s)
      BY <1>1, <3>1, CloserIsNode
    <3>3. NoStayingPassed(n, p)
      BY <1>1, <1>3, <3>1, <3>2, BetweenTransitive DEF NoStayingPassed
    <3>4. QED BY <1>1, <1>3, <1>4, <3>1, <3>3 DEF StabilizeRead, TypeOK, pointers
  <2>2. CASE pc'[n] # "adopt"
    BY <1>1, <1>3, <1>4, <2>2 DEF StabilizeRead, TypeOK, pointers
  <2>3. QED BY <2>1, <2>2
<1>5. CASE StabilizeAdopt(n)
  BY <1>1, <1>3, <1>5 DEF StabilizeAdopt, TypeOK
<1>6. CASE StabilizeTell(n)
  BY <1>1, <1>3, <1>6 DEF StabilizeTell, TypeOK, locals
<1>7. CASE NotifyCheck(n)
  BY <1>1, <1>3, <1>7 DEF NotifyCheck, TypeOK, pointers
<1>8. CASE NotifySet(n)
  BY <1>1, <1>3, <1>8 DEF NotifySet, TypeOK
<1>9. CASE NotifyNobody(n)
  BY <1>1, <1>3, <1>9 DEF NotifyNobody, TypeOK, pointers, locals
<1>10. CASE UNCHANGED <<pointers, locals>> /\ (pc' = pc \/ pc' = [pc EXCEPT ![n] = "dead"])
  BY <1>1, <1>3, <1>10 DEF TypeOK, pointers, locals
<1>11. QED BY <1>4, <1>5, <1>6, <1>7, <1>8, <1>9, <1>10, RoundCases
\* While everybody has the next node as its successor, nobody adopts another.
LEMMA UnchangedRound ==
  ASSUME LeaveCalm, NEW n \in Node, LeaveRound(n), Unchanged
  PROVE  /\ Unchanged' /\ \A m \in Up : successor'[m] = successor[m]
         /\ \/ predecessor' = predecessor
            \/ stub[n] \in Up /\ predecessor' = [predecessor EXCEPT ![stub[n]] = n]
         /\ \/ pc[n] = "stabilize" /\ stub'[n] = successor[n]
            \/ pc[n] \in {"notify", "setPredecessor"} /\ stub'[n] \in {stub[n], Null}
            \/ pc'[n] = "dead" \/ (pc'[n] = pc[n] /\ stub'[n] = stub[n])
         /\ \A m \in Up \ {n} : pc'[m] = pc[m] /\ stub'[m] = stub[m]
<1> USE DEF LeaveCalm
<1>1. /\ n \in Up /\ status' = status /\ Up' = Up
      /\ Up \subseteq Node /\ Null \notin Up /\ TypeOK
      /\ pc[n] \notin {"adopt", "tell"}
  BY RoundCases, SameUp, UpAreIds DEF LeaveTypeOK, LookupTypeOK, Unchanged
<1>2. ~StabilizeAdopt(n) /\ ~StabilizeTell(n)
  BY <1>1 DEF StabilizeAdopt, StabilizeTell
<1>3. SUFFICES
        /\ successor' = successor /\ \A m \in Up \ {n} : pc'[m] = pc[m] /\ stub'[m] = stub[m]
        /\ pc'[n] \notin {"adopt", "tell"}
        /\ \/ predecessor' = predecessor
           \/ stub[n] \in Up /\ predecessor' = [predecessor EXCEPT ![stub[n]] = n]
        /\ \/ pc[n] = "stabilize" /\ stub'[n] = successor[n]
           \/ pc[n] \in {"notify", "setPredecessor"} /\ stub'[n] \in {stub[n], Null}
           \/ pc'[n] = "dead" \/ (pc'[n] = pc[n] /\ stub'[n] = stub[n])
  BY <1>1, <1>3 DEF Unchanged, NobodyPassed
<1>4. CASE StabilizeRead(n)
  <2> DEFINE s == successor[n]
             p == predecessor[s]
  <2>1. s \in Up /\ p \in Up \cup {Null} /\ NobodyPassed(n, s)
    BY <1>1 DEF OnlyUpKnown, Unchanged
  <2>2. p # Null => ~closer(n, s, p)
    BY <1>1, <2>1, CloserIsNode DEF NobodyPassed
  <2>3. QED BY <1>1, <1>4, <2>2 DEF StabilizeRead, TypeOK, pointers
<1>5. CASE NotifyCheck(n)
  BY <1>1, <1>5 DEF NotifyCheck, TypeOK, pointers
<1>6. CASE NotifySet(n)
  BY <1>1, <1>6, Contacts DEF NotifySet, TypeOK
<1>7. CASE NotifyNobody(n)
  BY <1>1, <1>7 DEF NotifyNobody, TypeOK, pointers, locals
<1>8. CASE UNCHANGED <<pointers, locals>> /\ (pc' = pc \/ pc' = [pc EXCEPT ![n] = "dead"])
  BY <1>1, <1>8 DEF TypeOK, pointers, locals
<1>9. QED BY <1>2, <1>4, <1>5, <1>6, <1>7, <1>8, RoundCases

LEMMA RoundUntold ==
  ASSUME LeaveCalm, NEW n \in Node, LeaveRound(n)
  PROVE  Untold'
<1> USE DEF LeaveCalm
<1>1. /\ n \in Up /\ hook' = hook /\ Up' = Up /\ Up \subseteq Node /\ Null \notin Up
      /\ TypeOK
  BY RoundCases, SameUp, UpAreIds DEF LeaveTypeOK, LookupTypeOK
<1>2. SUFFICES ASSUME \A m \in Node : hook[m].pc \in {"none", "tell", "set"}
      PROVE  Untold'
  BY <1>1, <1>2 DEF Untold
<1>3. /\ Unchanged
      /\ \A m \in Up :
           /\ predecessor[m] # Null => successor[predecessor[m]] = m
           /\ pc[m] \in {"notify", "setPredecessor"} => stub[m] \in {successor[m], Null}
           /\ Hooking(m, "set") => /\ hook[m].at = successor[m]
                                   /\ hook[m].x = m => Up = {m}
  BY <1>2 DEF Untold
<1>4. /\ Unchanged' /\ \A m \in Up : successor'[m] = successor[m]
      /\ \A m \in Up \ {n} : pc'[m] = pc[m] /\ stub'[m] = stub[m]
  BY <1>3, UnchangedRound
<1>5. \A m \in Up : predecessor[m] \in Up \cup {Null}
  BY <1>1 DEF OnlyUpKnown
<1>6. \A m \in Up : predecessor'[m] # Null => successor'[predecessor'[m]] = m
  <2>1. CASE predecessor' = predecessor
    BY <1>3, <1>4, <1>5, <2>1
  <2>2. CASE stub[n] \in Up /\ predecessor' = [predecessor EXCEPT ![stub[n]] = n]
            /\ pc[n] = "setPredecessor"
    <3>1. successor[n] = stub[n]
      BY <1>1, <1>3, <2>2
    <3>2. QED BY <1>1, <1>3, <1>4, <1>5, <2>2, <3>1 DEF TypeOK
  <2>3. predecessor' # predecessor => pc[n] = "setPredecessor"
    BY RoundCases
    DEF StabilizeRead, StabilizeAdopt, StabilizeTell, NotifyCheck, NotifySet, NotifyNobody,
        pointers
  <2>4. QED BY <1>3, <2>1, <2>2, <2>3, UnchangedRound
<1>7. pc'[n] \in {"notify", "setPredecessor"} => stub'[n] \in {successor'[n], Null}
  BY <1>1, <1>3, <1>4, UnchangedRound
<1>8. QED BY <1>1, <1>3, <1>4, <1>6, <1>7 DEF Untold, Hooking

LEMMA RoundTaken ==
  ASSUME LeaveCalm, NEW n \in Node, LeaveRound(n)
  PROVE  TakenOut'
<1> USE DEF LeaveCalm
<1>1. /\ n \in Up /\ hook' = hook /\ Up' = Up /\ Staying' = Staying /\ Up \subseteq Node
      /\ Null \notin Up /\ TypeOK /\ ~Asleep(n)
      /\ \A m \in Node \ {n} : lookup'[m] = lookup[m]
  BY RoundCases, SameStaying, UpAreIds DEF LeaveTypeOK, LookupTypeOK
<1>2. SUFFICES ASSUME NEW k \in Node, Told(k)
      PROVE  /\ Asleep(k)'
             /\ successor'[k] # k
             /\ \A m \in Up : predecessor'[m] # k /\ (pc'[m] = "adopt" => x'[m] # k)
             /\ \/ \A m \in Up : successor'[m] # k
                \/ Unchanged /\ Unchanged' /\ \A m \in Up : successor'[m] = successor[m]
  <2>1. /\ \A k \in Node : hook[k].quiet => hook[k].pc \notin {"none", "tell", "set"}
        /\ \A k \in Node : Told(k)' <=> Told(k)
        /\ \A k \in Up : hook[k].pc \in {"found", "remove", "replace"} => hook[k].at \in Up
    BY <1>1 DEF TakenOut, Told, OnlyUpKnown
  <2>2. SUFFICES ASSUME NEW k \in Node, Told(k)
        PROVE  (/\ Asleep(k)
                /\ successor[k] # k
                /\ \A m \in Up : predecessor[m] # k /\ (pc[m] = "adopt" => x[m] # k)
                /\ hook[k].pc \in {"remove", "replace", "pass"} => hook[k].x # k
                /\ \/ \A m \in Up : successor[m] # k
                   \/ /\ Unchanged
                      /\ hook[k].i = 0
                      /\ hook[k].pc \in {"test", "hop", "found", "remove", "replace"}
                      /\ hook[k].pc \in {"found", "remove", "replace"}
                           => successor[hook[k].at] = k)'
    BY <1>1, <2>1, <2>2 DEF TakenOut
  <2>3. k \in Up
    BY <2>2 DEF Told
  <2>4. \/ \A m \in Up : successor[m] # k
        \/ /\ hook[k].i = 0
           /\ hook[k].pc \in {"test", "hop", "found", "remove", "replace"}
           /\ hook[k].pc \in {"found", "remove", "replace"} => successor[hook[k].at] = k
    BY <2>2 DEF TakenOut
  <2>5. hook[k].pc \in {"remove", "replace", "pass"} => hook[k].x # k
    BY <2>2 DEF TakenOut
  <2>6. CASE \A m \in Up : successor'[m] # k
    BY <1>1, <1>2, <2>2, <2>5, <2>6
  <2>7. CASE ~(\A m \in Up : successor'[m] # k)
    <3>1. Unchanged' /\ \A m \in Up : successor'[m] = successor[m]
      BY <1>2, <2>2, <2>7
    <3>2. QED BY <1>1, <1>2, <2>1, <2>2, <2>3, <2>4, <2>5, <2>7, <3>1
  <2>8. QED BY <2>6, <2>7
<1>3. /\ k \in Up /\ Asleep(k) /\ successor[k] # k
      /\ \A m \in Up : predecessor[m] # k /\ (pc[m] = "adopt" => x[m] # k)
      /\ (\A m \in Up : successor[m] # k) \/ Unchanged
  BY <1>2 DEF TakenOut, Told
<1>4. k # n
  BY <1>1, <1>3
<1>5. \A m \in Up : successor[m] \in Up
  BY <1>1 DEF OnlyUpKnown
<1>6. /\ pc'[k] = pc[k] /\ successor'[k] = successor[k]
      /\ \A m \in Up : predecessor'[m] # k /\ (pc'[m] = "adopt" => x'[m] # k)
      /\ (\A m \in Up : successor[m] # k) => \A m \in Up : successor'[m] # k
  <2>1. CASE StabilizeRead(n)
    <3>1. /\ successor' = successor /\ predecessor' = predecessor
          /\ \A m \in Up \ {n} : pc'[m] = pc[m] /\ x'[m] = x[m]
          /\ pc'[n] = "adopt" => x'[n] = predecessor[successor[n]]
      BY <1>1, <2>1 DEF StabilizeRead, TypeOK, pointers
    <3>2. predecessor[successor[n]] # k
      BY <1>1, <1>3, <1>5
    <3>3. QED BY <1>1, <1>3, <1>4, <3>1, <3>2
  <2>2. CASE StabilizeAdopt(n)
    BY <1>1, <1>3, <1>4, <2>2 DEF StabilizeAdopt, TypeOK
  <2>3. CASE StabilizeTell(n)
    BY <1>1, <1>3, <1>4, <2>3 DEF StabilizeTell, TypeOK, locals
  <2>4. CASE NotifyCheck(n)
    BY <1>1, <1>3, <1>4, <2>4 DEF NotifyCheck, TypeOK, pointers
  <2>5. CASE NotifySet(n)
    BY <1>1, <1>3, <1>4, <2>5 DEF NotifySet, TypeOK
  <2>6. CASE NotifyNobody(n)
    BY <1>1, <1>3, <1>4, <2>6 DEF NotifyNobody, TypeOK, pointers, locals
  <2>7. CASE UNCHANGED <<pointers, locals>> /\ (pc' = pc \/ pc' = [pc EXCEPT ![n] = "dead"])
    BY <1>1, <1>3, <1>4, <2>7 DEF TypeOK, pointers, locals
  <2>8. QED BY <2>1, <2>2, <2>3, <2>4, <2>5, <2>6, <2>7, RoundCases
<1>7. Asleep(k)'
  BY <1>1, <1>3, <1>4, <1>6 DEF Asleep, Looking
<1>8. CASE \A m \in Up : successor[m] # k
  BY <1>3, <1>6, <1>7, <1>8
<1>9. CASE Unchanged
  BY <1>3, <1>6, <1>7, <1>9, UnchangedRound
<1>10. QED BY <1>3, <1>8, <1>9
-----------------------------------------------------------------------------
(* The hook. *)

LEMMA HopUp ==
  ASSUME OnlyUpKnown, NEW m \in Up, NEW id
  PROVE  closestPrecedingFinger(m, id) \in Up
<1> DEFINE P == Preceding(m, id)
           i == CHOOSE k \in P : \A j \in P : k >= j
<1>1. CASE P # {}
  <2>1. P \subseteq FingerIndex
    BY DEF Preceding
  <2>2. i \in P
    BY <1>1, <2>1, HighestIndex
  <2>3. closestPrecedingFinger(m, id) = finger[m][i]
    BY <1>1 DEF closestPrecedingFinger
  <2> HIDE DEF i
  <2>4. QED BY <2>2, <2>3, Contacts DEF Preceding
<1>2. CASE P = {}
  BY <1>2, Contacts DEF closestPrecedingFinger
<1>3. QED BY <1>1, <1>2

\* Where LeaveFinger leads.
LEMMA FingerStep ==
  ASSUME LeaveTypeOK, NEW n \in Node, NEW i, NEW quiet, LeaveFinger(n, i, quiet)
  PROVE  /\ \A m \in Node \ {n} : hook'[m] = hook[m]
         /\ \/ /\ hook'[n].pc = "test" /\ hook'[n].at = n
            \/ /\ hook'[n].pc = "exit" /\ hook'[n].at = Null /\ ~(i < NUM_FINGERS)
         /\ hook'[n].quiet = quiet
         /\ i < NUM_FINGERS => hook'[n].i = i
BY DEF LeaveFinger, LeaveTypeOK

\* The steps of a hook while nobody has died.
LEMMA HookCases ==
  ASSUME LeaveCalm, ~AnyCrash', NEW n \in Node, Leave(n)
  PROVE  /\ n \in Up /\ UNCHANGED <<status, pc, locals, lookup>>
         /\ \A m \in Node \ {n} : hook'[m] = hook[m]
         /\ hook[n].pc # "none" /\ hook'[n].pc # "none"
         /\ \/ LeaveTell(n) \/ LeaveSet(n) \/ LeaveTest(n) \/ LeaveHop(n) \/ LeaveFound(n)
            \/ RemoveNode(n) \/ RemoveReplace(n) \/ RemovePass(n)
<1> USE Contacts DEF LeaveCalm
<1>1. hook[n].pc # "none"
  BY DEF Leave, LeaveTell, LeaveSet, LeaveTest, LeaveHop, LeaveFound, RemoveNode, RemoveReplace,
         RemovePass, LeaveFails, LeaveThrows, Hooking, OnlyUpKnown, LeaveTypeOK
<1>2. n \in Up
  BY <1>1 DEF OnlyUpKnown, Hooking
<1>3. ~LeaveFails(n)
  BY <1>2 DEF LeaveFails, OnlyUpKnown
<1>4. ~LeaveThrows(n)
  BY DEF LeaveThrows, LeaveDies, AnyCrash, LeaveTypeOK, LookupTypeOK, TypeOK
<1> DEFINE Moved == /\ \A m \in Node \ {n} : hook'[m] = hook[m]
                    /\ hook'[n].pc # "none"
                    /\ UNCHANGED <<status, pc, locals, lookup>>
<1>5. (\E i, quiet : LeaveFinger(n, i, quiet)) => /\ \A m \in Node \ {n} : hook'[m] = hook[m]
                                                  /\ hook'[n].pc # "none"
  BY FingerStep
<1>6. ASSUME LeaveTell(n) PROVE Moved
  BY <1>5, <1>6 DEF LeaveTell, LeaveTypeOK, allVars, vars, lookupVars
<1>7. ASSUME LeaveSet(n) PROVE Moved
  BY <1>5, <1>7 DEF LeaveSet, lookupVars
<1>8. ASSUME LeaveTest(n) PROVE Moved
  BY <1>8 DEF LeaveTest, LeaveTypeOK, allVars, vars, lookupVars
<1>9. ASSUME LeaveHop(n) PROVE Moved
  BY <1>9 DEF LeaveHop, LeaveTypeOK, allVars, vars, lookupVars
<1>10. ASSUME LeaveFound(n) PROVE Moved
  BY <1>10 DEF LeaveFound, LeaveTypeOK, allVars, vars, lookupVars
<1>11. ASSUME RemoveNode(n) PROVE Moved
  BY <1>5, <1>11 DEF RemoveNode, NextFinger, LeaveTypeOK, allVars, vars, lookupVars
<1>12. ASSUME RemoveReplace(n) PROVE Moved
  BY <1>12 DEF RemoveReplace, LeaveTypeOK, lookupVars
<1>13. ASSUME RemovePass(n) PROVE Moved
  BY <1>5, <1>13 DEF RemovePass, NextFinger, LeaveTypeOK, allVars, vars, lookupVars
<1>14. QED
  BY <1>1, <1>2, <1>3, <1>4, <1>6, <1>7, <1>8, <1>9, <1>10, <1>11, <1>12, <1>13 DEF Leave

LEMMA HookStaying ==
  ASSUME LeaveCalm, ~AnyCrash', NEW n \in Node, Leave(n)
  PROVE  Up' = Up /\ Staying' = Staying /\ n \in Up \ Staying
<1>1. Up' = Up
  BY HookCases, SameUp
<1>2. \A m \in Up : Hooking(m, "none")' <=> Hooking(m, "none")
  BY <1>1, HookCases, UpAreIds DEF Hooking
<1>3. QED BY <1>1, <1>2, HookCases DEF Staying, Hooking

LEMMA HookKnown ==
  ASSUME LeaveCalm, ~AnyCrash', NEW n \in Node, Leave(n)
  PROVE  OnlyUpKnown'
<1> USE DEF LeaveCalm
<1>1. /\ n \in Up /\ UNCHANGED <<status, pc, locals>> /\ Up' = Up /\ Up \subseteq Node
      /\ \A m \in Node \ {n} : hook'[m] = hook[m]
      /\ TypeOK
  BY HookCases, SameUp, UpAreIds DEF LeaveTypeOK, LookupTypeOK
<1>2. SUFFICES
        /\ \A m \in Up : successor'[m] \in Up /\ predecessor'[m] \in Up \cup {Null}
        /\ hook'[n].at \in Up \cup {Null}
        /\ hook'[n].pc \in {"set", "test", "hop", "found", "remove", "replace", "pass"}
             => hook'[n].at \in Up
        /\ hook'[n].pc = "set" => hook'[n].x \in Up \cup {Null}
        /\ hook'[n].pc \in {"remove", "replace", "pass"} => hook'[n].x \in Up
  BY <1>1, <1>2 DEF OnlyUpKnown, Hooking, locals
<1>3. /\ hook[n].pc \in {"set", "test", "hop", "found", "remove", "replace", "pass"}
            => hook[n].at \in Up
      /\ hook[n].pc = "set" => hook[n].x \in Up \cup {Null}
      /\ hook[n].pc \in {"remove", "replace", "pass"} => hook[n].x \in Up
      /\ \A m \in Up : successor[m] \in Up /\ predecessor[m] \in Up \cup {Null}
  BY <1>1 DEF OnlyUpKnown, Hooking
<1>4. ASSUME NEW i, NEW quiet, LeaveFinger(n, i, quiet)
      PROVE  hook'[n].pc \in {"test", "exit"} /\ hook'[n].at \in {n, Null}
             /\ (hook'[n].pc = "test" => hook'[n].at = n)
  BY <1>4, FingerStep
<1>5. CASE LeaveTell(n)
  <2>1. hook' = [hook EXCEPT ![n] = [@ EXCEPT !.pc = "set", !.at = successor[n],
                                              !.x = predecessor[n]]]
        /\ UNCHANGED <<successor, predecessor>>
    BY <1>1, <1>3, <1>5, Contacts DEF LeaveTell, allVars, vars, pointers
  <2>2. hook'[n].pc = "set" /\ hook'[n].at = successor[n] /\ hook'[n].x = predecessor[n]
    BY <2>1 DEF LeaveTypeOK
  <2>3. QED BY <1>1, <1>3, <2>1, <2>2
<1>6. CASE LeaveSet(n)
  BY <1>1, <1>3, <1>4, <1>6, Contacts DEF LeaveSet, TypeOK, Hooking
<1>7. CASE LeaveTest(n)
  BY <1>1, <1>3, <1>7, Contacts
  DEF LeaveTest, LeaveTypeOK, allVars, vars, pointers, Hooking
<1>8. CASE LeaveHop(n)
  <2> DEFINE next == closestPrecedingFinger(hook[n].at, LeaveLookup(n).id)
  <2>1. next \in Up
    BY <1>3, <1>8, HopUp DEF LeaveHop, Hooking
  <2>2. hook' = [hook EXCEPT ![n] = [@ EXCEPT !.pc = "test", !.at = next]]
        /\ UNCHANGED allVars
    BY <1>8 DEF LeaveHop
  <2> HIDE DEF next
  <2>3. hook'[n].pc = "test" /\ hook'[n].at = next
    BY <2>2 DEF LeaveTypeOK
  <2>4. QED BY <1>1, <1>3, <2>1, <2>2, <2>3 DEF allVars, vars, pointers
<1>9. CASE LeaveFound(n)
  BY <1>1, <1>3, <1>9 DEF LeaveFound, LeaveTypeOK, allVars, vars, pointers, Hooking
<1>10. CASE RemoveNode(n)
  BY <1>1, <1>3, <1>4, <1>10
  DEF RemoveNode, NextFinger, LeaveTypeOK, allVars, vars, pointers, Hooking
<1>11. CASE RemoveReplace(n)
  <2>1. hook[n].at \in Up /\ hook[n].x \in Up
    BY <1>3, <1>11 DEF RemoveReplace, Hooking
  <2>2. hook' = [hook EXCEPT ![n].pc = "pass"] /\ predecessor' = predecessor
        /\ (successor' = [successor EXCEPT ![hook[n].at] = hook[n].x] \/ successor' = successor)
    BY <1>11 DEF RemoveReplace
  <2>3. hook'[n].pc = "pass" /\ hook'[n].at = hook[n].at /\ hook'[n].x = hook[n].x
    BY <2>2 DEF LeaveTypeOK
  <2>4. \A m \in Up : successor'[m] \in Up
    BY <1>1, <1>3, <2>1, <2>2 DEF TypeOK
  <2>5. QED BY <1>3, <2>1, <2>2, <2>3, <2>4
<1>12. CASE RemovePass(n)
  <2> DEFINE q == predecessor[hook[n].at]
  <2>1. hook[n].pc = "pass" /\ hook[n].x \in Up /\ UNCHANGED <<successor, predecessor>>
    BY <1>3, <1>12 DEF RemovePass, Hooking, allVars, vars, pointers
  <2>2. CASE NextFinger(n)
    BY <1>1, <1>3, <1>4, <2>1, <2>2 DEF NextFinger
  <2>3. CASE q \in Up /\ hook' = [hook EXCEPT ![n] = [@ EXCEPT !.pc = "remove", !.at = q]]
    <3>1. hook'[n].pc = "remove" /\ hook'[n].at = q /\ hook'[n].x = hook[n].x
      BY <2>3 DEF LeaveTypeOK
    <3>2. QED BY <1>1, <1>3, <2>1, <2>3, <3>1
  <2>4. QED BY <1>12, <2>2, <2>3, Contacts DEF RemovePass
<1>13. QED BY <1>5, <1>6, <1>7, <1>8, <1>9, <1>10, <1>11, <1>12, HookCases

LEMMA HookDetours ==
  ASSUME LeaveCalm, ~AnyCrash', NEW n \in Node, Leave(n)
  PROVE  NoDetours'
<1> USE DEF LeaveCalm
<1>1. /\ n \in Up /\ UNCHANGED <<status, pc, locals>> /\ Up' = Up /\ Up \subseteq Node
      /\ Node \subseteq Id /\ Staying \subseteq Up
      /\ Staying' = Staying /\ n \notin Staying
      /\ \A m \in Node \ {n} : hook'[m] = hook[m]
      /\ TypeOK
  BY HookCases, HookStaying, UpAreIds DEF LeaveTypeOK, LookupTypeOK
<1>2. SUFFICES
        /\ \A m \in Up : NoStayingPassed(m, successor'[m])
        /\ hook'[n].pc \in {"remove", "replace", "pass"} => NoStayingPassed(n, hook'[n].x)
        /\ hook'[n].pc = "replace" /\ hook'[n].i = 0 => NoStayingPassed(hook'[n].at, n)
  BY <1>1, <1>2 DEF NoDetours, NoStayingPassed, Hooking, locals
<1>3. /\ \A m \in Up : NoStayingPassed(m, successor[m])
      /\ hook[n].pc \in {"remove", "replace", "pass"} => NoStayingPassed(n, hook[n].x)
      /\ hook[n].pc = "replace" /\ hook[n].i = 0 => NoStayingPassed(hook[n].at, n)
  BY <1>1 DEF NoDetours, Hooking
<1>4. ASSUME NEW i, NEW quiet, LeaveFinger(n, i, quiet)
      PROVE  hook'[n].pc \in {"test", "exit"}
  BY <1>4, FingerStep
<1>5. CASE LeaveTell(n)
  BY <1>1, <1>3, <1>4, <1>5 DEF LeaveTell, LeaveTypeOK, allVars, vars, pointers
<1>6. CASE LeaveSet(n)
  BY <1>1, <1>3, <1>4, <1>6 DEF LeaveSet
<1>7. CASE LeaveTest(n)
  BY <1>1, <1>3, <1>7 DEF LeaveTest, LeaveTypeOK, allVars, vars, pointers
<1>8. CASE LeaveHop(n)
  BY <1>1, <1>3, <1>8 DEF LeaveHop, LeaveTypeOK, allVars, vars, pointers
<1>9. CASE LeaveFound(n)
  BY <1>1, <1>3, <1>9 DEF LeaveFound, LeaveTypeOK, allVars, vars, pointers
<1>10. CASE RemoveNode(n)
  <2>1. hook[n].at \in Up
    BY <1>1, <1>10 DEF RemoveNode, OnlyUpKnown, Hooking
  <2>2. CASE fingerAt(hook[n].at, hook[n].i) = n
    BY <1>1, <1>3, <1>10, <2>1, <2>2
    DEF RemoveNode, fingerAt, LeaveTypeOK, allVars, vars, pointers, Hooking
  <2>3. CASE fingerAt(hook[n].at, hook[n].i) # n
    BY <1>1, <1>3, <1>4, <1>10, <2>3 DEF RemoveNode, NextFinger, allVars, vars, pointers
  <2>4. QED BY <2>2, <2>3
<1>11. CASE RemoveReplace(n)
  <2> DEFINE p == hook[n].at
             t == hook[n].x
  <2>1. /\ hook[n].pc = "replace" /\ p \in Up /\ t \in Up /\ NoStayingPassed(n, t)
        /\ hook'[n].pc = "pass" /\ hook'[n].x = t
    BY <1>1, <1>3, <1>11 DEF RemoveReplace, OnlyUpKnown, Hooking, LeaveTypeOK
  <2>2. CASE hook[n].i = 0
    <3>1. NoStayingPassed(p, n)
      BY <1>3, <2>1, <2>2
    <3>2. successor' = [successor EXCEPT ![p] = t]
      BY <1>11, <2>2 DEF RemoveReplace
    <3> HIDE DEF p, t
    <3>3. NoStayingPassed(p, t)
      BY <1>1, <2>1, <3>1, ShortCut DEF NoStayingPassed
    <3>4. QED BY <1>1, <1>3, <2>1, <3>2, <3>3 DEF TypeOK
  <2>3. CASE hook[n].i # 0
    BY <1>3, <1>11, <2>1, <2>3 DEF RemoveReplace
  <2>4. QED BY <2>2, <2>3
<1>12. CASE RemovePass(n)
  BY <1>1, <1>3, <1>4, <1>12
  DEF RemovePass, NextFinger, LeaveTypeOK, allVars, vars, pointers, Hooking
<1>13. QED BY <1>5, <1>6, <1>7, <1>8, <1>9, <1>10, <1>11, <1>12, HookCases
\* Until the first departing node tells its successor, only telling steps happen.
LEMMA HookUntold ==
  ASSUME LeaveCalm, ~AnyCrash', NEW n \in Node, Leave(n)
  PROVE  Untold'
<1> USE DEF LeaveCalm
<1>1. /\ n \in Up /\ UNCHANGED <<status, pc, locals>> /\ Up' = Up /\ Up \subseteq Node
      /\ Node \subseteq Id /\ Null \notin Up
      /\ \A m \in Node \ {n} : hook'[m] = hook[m]
  BY HookCases, HookStaying, UpAreIds
<1>2. SUFFICES ASSUME \A m \in Node : hook'[m].pc \in {"none", "tell", "set"}
      PROVE  Untold'
  BY <1>2 DEF Untold
<1>3. hook'[n].pc \in {"none", "tell", "set"}
  BY <1>2
<1>4. ASSUME NEW i, NEW quiet, LeaveFinger(n, i, quiet)
      PROVE  FALSE
  BY <1>3, <1>4, FingerStep
<1>5. ~LeaveSet(n) /\ ~LeaveTest(n) /\ ~LeaveHop(n) /\ ~LeaveFound(n) /\ ~RemoveNode(n)
      /\ ~RemoveReplace(n) /\ ~RemovePass(n)
  <2>1. ~LeaveSet(n)
    BY <1>4 DEF LeaveSet
  <2>2. ASSUME NEW i, NEW quiet PROVE ~LeaveFinger(n, i, quiet)
    BY <1>4
  <2>3. ~NextFinger(n)
    BY <2>2 DEF NextFinger
  <2>4. hook \in [Node -> HookType] /\ n \in Node
    BY <1>1 DEF LeaveTypeOK, HookType, HookPC
  <2>5. ~LeaveTest(n)
    BY <1>3, <2>4 DEF LeaveTest, HookType
  <2>6. ~LeaveHop(n) /\ ~LeaveFound(n)
    BY <1>3, <2>4 DEF LeaveHop, LeaveFound, HookType
  <2>7. ~RemoveNode(n)
    BY <1>3, <2>3, <2>4 DEF RemoveNode, HookType
  <2>8. ~RemoveReplace(n) /\ ~RemovePass(n)
    BY <1>3, <2>3, <2>4 DEF RemoveReplace, RemovePass, HookType
  <2>9. QED BY <2>1, <2>5, <2>6, <2>7, <2>8
<1>6. LeaveTell(n)
  BY <1>5, HookCases
<1>7. UNCHANGED allVars
      /\ hook' = [hook EXCEPT ![n] = [@ EXCEPT !.pc = "set", !.at = successor[n],
                                              !.x = predecessor[n]]]
  BY <1>4, <1>6 DEF LeaveTell
<1>8. /\ hook'[n].pc = "set" /\ hook'[n].at = successor[n] /\ hook'[n].x = predecessor[n]
  BY <1>7 DEF LeaveTypeOK
<1>9. UNCHANGED <<successor, predecessor, pc, stub>>
  BY <1>7 DEF allVars, vars, pointers, locals
<1>10. \A m \in Node : hook[m].pc \in {"none", "tell", "set"}
  BY <1>1, <1>2, <1>6 DEF LeaveTell, Hooking
<1>11. /\ Unchanged
       /\ \A m \in Up :
            /\ predecessor[m] # Null => successor[predecessor[m]] = m
            /\ pc[m] \in {"notify", "setPredecessor"} => stub[m] \in {successor[m], Null}
            /\ Hooking(m, "set") => /\ hook[m].at = successor[m]
                                    /\ hook[m].x = m => Up = {m}
  BY <1>10 DEF Untold
<1>12. predecessor[n] = n => Up = {n}
  <2> SUFFICES ASSUME predecessor[n] = n, NEW m \in Up, m # n PROVE FALSE
    BY <1>1
  <2>1. successor[n] = n /\ ~Between(n, m, n)
    BY <1>1, <1>11 DEF Unchanged, NobodyPassed
  <2>2. QED BY <1>1, <2>1, WholeCircle
<1>13. Unchanged'
  BY <1>1, <1>9, <1>11 DEF Unchanged, NobodyPassed
<1>14. QED BY <1>1, <1>8, <1>9, <1>11, <1>12, <1>13 DEF Untold, Hooking

LEMMA FingerZero == \A n \in Id : fingerValue(n, 0) = n
<1> SUFFICES ASSUME NEW n \in Id PROVE fingerValue(n, 0) = n
  OBVIOUS
<1>1. 2 ^ 0 = 1
  OBVIOUS
<1>2. fingerValue(n, 0) = castInt(n)
  BY <1>1 DEF fingerValue, Id
<1>3. INT_MAX \in Nat /\ INT_MIN = -INT_MAX - 1 /\ RingSize = 2 * INT_MAX + 2
      /\ RingSize \div 2 = INT_MAX + 1
  BY IntAssumption DEF INT_MIN, RingSize
<1> DEFINE w == n + RingSize \div 2
<1>4. w \in 0 .. RingSize - 1 /\ RingSize \in Nat \ {0}
  BY <1>3 DEF Id
<1>5. w % RingSize = w
  <2> HIDE DEF w
  <2> QED BY <1>4
<1>6. castInt(n) = w - RingSize \div 2
  BY <1>5 DEF castInt, castTo, w
<1>7. QED BY <1>2, <1>3, <1>6 DEF Id

\* What leave does when its stabilizer ends before its successor is told.
LEMMA TellingTakesOut ==
  ASSUME LeaveCalm, ~AnyCrash', NEW n \in Node, LeaveSet(n), Told(n)'
  PROVE  (/\ Asleep(n)
          /\ successor[n] # n
          /\ \A m \in Up : predecessor[m] # n /\ (pc[m] = "adopt" => x[m] # n)
          /\ Unchanged
          /\ hook[n].i = 0 /\ hook[n].pc = "test")'
<1> USE DEF LeaveCalm
<1>1. Leave(n)
  BY DEF Leave
<1>2. /\ n \in Up /\ UNCHANGED <<status, pc, locals, lookup>> /\ Up' = Up /\ Up \subseteq Node
      /\ Node \subseteq Id /\ Null \notin Up /\ Staying' = Staying
      /\ \A m \in Node \ {n} : hook'[m] = hook[m]
      /\ TypeOK
  BY <1>1, HookCases, HookStaying, UpAreIds DEF LeaveTypeOK, LookupTypeOK
<1>3. Staying = Up \ {n} /\ Staying # {} /\ hook'[n].quiet
  BY <1>2 DEF Told
<1>4. \A m \in Node : hook[m].pc \in {"none", "tell", "set"}
  <2>1. \A m \in Node \ {n} : hook[m].pc = "none"
    BY <1>3 DEF Staying, Hooking, OnlyUpKnown
  <2>2. hook[n].pc = "set"
    BY DEF LeaveSet, Hooking
  <2>3. QED BY <2>1, <2>2
<1>5. /\ Unchanged
      /\ \A m \in Up : predecessor[m] # Null => successor[predecessor[m]] = m
      /\ hook[n].at = successor[n]
      /\ hook[n].x = n => Up = {n}
  BY <1>2, <1>4 DEF Untold, LeaveSet
<1>6. hook[n].x # n
  BY <1>2, <1>3, <1>5
<1>7. successor[n] \in Up /\ successor[n] # n
  <2>1. PICK m \in Up : m # n
    BY <1>2, <1>3
  <2>2. ~Between(n, m, successor[n])
    BY <1>2, <1>5 DEF Unchanged, NobodyPassed
  <2>3. QED BY <1>2, <2>1, <2>2, WholeCircle DEF OnlyUpKnown
<1>8. /\ predecessor' = [predecessor EXCEPT ![successor[n]] = hook[n].x]
      /\ successor' = successor /\ LeaveFinger(n, 0, Asleep(n))
  BY <1>5, <1>7, Contacts DEF LeaveSet
<1>9. \A m \in Up : predecessor'[m] # n
  <2> SUFFICES ASSUME NEW m \in Up PROVE predecessor'[m] # n
    OBVIOUS
  <2>1. CASE m = successor[n]
    BY <1>2, <1>6, <1>8, <2>1 DEF TypeOK
  <2>2. CASE m # successor[n]
    BY <1>2, <1>5, <1>8, <2>2 DEF TypeOK
  <2>3. QED BY <2>1, <2>2
<1>10. hook'[n].pc = "test" /\ hook'[n].i = 0 /\ Asleep(n)
  BY <1>3, <1>8, FingerStep, IdsAssumption
<1>11. Asleep(n)'
  BY <1>2, <1>10 DEF Asleep, Looking
<1>12. Unchanged'
  BY <1>2, <1>5, <1>8 DEF Unchanged, NobodyPassed
<1>13. \A m \in Up : pc[m] # "adopt"
  BY <1>5 DEF Unchanged
<1>14. QED BY <1>2, <1>7, <1>8, <1>9, <1>10, <1>11, <1>12, <1>13

\* Where the lookup for a node ends while everybody has the next node as its
\* successor.
LEMMA FoundBefore ==
  ASSUME LeaveCalm, Unchanged, NEW n \in Up, NEW p \in Up, successor[n] # n,
         covers(p, successor[p], n)
  PROVE  successor[p] = n
<1> USE DEF LeaveCalm
<1>1. Up \subseteq Node /\ Node \subseteq Id /\ successor[p] \in Up
  BY UpAreIds DEF OnlyUpKnown
<1>2. Between(p, n, successor[p]) \/ n = successor[p]
  BY <1>1, CoversIsNode
<1>3. ~Between(p, n, successor[p])
  BY DEF Unchanged, NobodyPassed
<1>4. QED BY <1>2, <1>3

\* No two nodes have the same next node.
LEMMA OneBefore ==
  ASSUME LeaveCalm, Unchanged, NEW p \in Up, NEW m \in Up, successor[m] = successor[p],
         successor[p] # p, successor[m] # m
  PROVE  m = p
<1> USE DEF LeaveCalm
<1>1. p \in Id /\ m \in Id /\ successor[p] \in Id
  BY UpAreIds DEF OnlyUpKnown
<1>2. ~Between(p, m, successor[p]) /\ ~Between(m, p, successor[p])
  BY DEF Unchanged, NobodyPassed
<1>3. QED BY <1>1, <1>2, IntAssumption DEF Id, INT_MIN, Between

\* A step of leave after that.
LEMMA TakingOut ==
  ASSUME LeaveCalm, ~AnyCrash', NEW n \in Node, Leave(n), ~LeaveSet(n), Told(n), Told(n)'
  PROVE  /\ Asleep(n)' /\ successor'[n] # n /\ predecessor' = predecessor
         /\ hook'[n].pc \in {"remove", "replace", "pass"} => hook'[n].x # n
         /\ \/ \A m \in Up : successor'[m] # n
            \/ /\ Unchanged' /\ hook'[n].i = 0
               /\ hook'[n].pc \in {"test", "hop", "found", "remove", "replace"}
               /\ hook'[n].pc \in {"found", "remove", "replace"} => successor'[hook'[n].at] = n
<1> USE DEF LeaveCalm
<1>1. /\ n \in Up /\ UNCHANGED <<status, pc, locals, lookup>> /\ Up' = Up /\ Up \subseteq Node
      /\ Node \subseteq Id /\ hook'[n].pc # "none" /\ TypeOK
  BY HookCases, HookStaying, UpAreIds DEF LeaveTypeOK, LookupTypeOK
<1>2. /\ Asleep(n) /\ successor[n] # n
      /\ hook[n].pc \notin {"none", "tell", "set"}
      /\ hook[n].pc \in {"remove", "replace", "pass"} => hook[n].x # n
  BY DEF TakenOut, Told
<1>3. \/ \A m \in Up : successor[m] # n
      \/ /\ Unchanged /\ hook[n].i = 0
         /\ hook[n].pc \in {"test", "hop", "found", "remove", "replace"}
         /\ hook[n].pc \in {"found", "remove", "replace"} => successor[hook[n].at] = n
  BY DEF TakenOut
<1>4. Asleep(n)'
  BY <1>1, <1>2 DEF Asleep, Looking
<1>5. ~LeaveTell(n)
  BY <1>2 DEF LeaveTell, Hooking
<1>6. UNCHANGED allVars => UNCHANGED <<successor, predecessor>>
                           /\ (Unchanged => Unchanged')
  BY <1>1 DEF allVars, vars, pointers, Unchanged, NobodyPassed
<1>7. ASSUME UNCHANGED allVars, \A m \in Up : successor[m] # n,
             hook'[n].pc \in {"remove", "replace", "pass"} => hook'[n].x # n
      PROVE  /\ successor'[n] # n /\ predecessor' = predecessor
             /\ \A m \in Up : successor'[m] # n
  BY <1>2, <1>6, <1>7
<1>8. ASSUME NextFinger(n) PROVE hook'[n].pc \in {"test", "exit"}
  BY <1>8, FingerStep DEF NextFinger
<1>9. CASE LeaveTest(n)
  <2>1. /\ hook[n].pc = "test" /\ UNCHANGED allVars /\ hook[n].at \in Up
        /\ hook'[n].pc = IF Responsible(LeaveLookup(n)) THEN "found" ELSE "hop"
        /\ hook'[n].i = hook[n].i /\ hook'[n].at = hook[n].at
    BY <1>9, Contacts DEF LeaveTest, Hooking, LeaveTypeOK
  <2>2. CASE \A m \in Up : successor[m] # n
    BY <1>2, <1>4, <1>6, <2>1, <2>2
  <2>3. CASE Unchanged /\ hook[n].i = 0
    <3>1. LeaveLookup(n).id = n
      BY <1>1, <2>3, FingerZero DEF LeaveLookup
    <3>2. hook'[n].pc = "found" => successor[hook[n].at] = n
      BY <1>1, <1>2, <2>1, <2>3, <3>1, FoundBefore DEF Responsible, LeaveLookup
    <3>3. QED BY <1>2, <1>4, <1>6, <2>1, <2>3, <3>2
  <2>4. QED BY <1>3, <2>2, <2>3
<1>10. CASE LeaveHop(n)
  <2>1. /\ hook[n].pc = "hop" /\ UNCHANGED allVars
        /\ hook'[n].pc = "test" /\ hook'[n].i = hook[n].i
    BY <1>10 DEF LeaveHop, Hooking, LeaveTypeOK
  <2>2. QED BY <1>2, <1>3, <1>4, <1>6, <2>1
<1>11. CASE LeaveFound(n)
  <2>1. /\ hook[n].pc = "found" /\ UNCHANGED allVars /\ hook'[n].x = successor[n]
        /\ hook'[n].pc = "remove" /\ hook'[n].i = hook[n].i /\ hook'[n].at = hook[n].at
    BY <1>11 DEF LeaveFound, Hooking, LeaveTypeOK
  <2>2. QED BY <1>2, <1>3, <1>4, <1>6, <2>1
<1>12. CASE RemoveNode(n)
  <2>1. hook[n].pc = "remove" /\ UNCHANGED allVars
    BY <1>12 DEF RemoveNode, Hooking
  <2>2. CASE fingerAt(hook[n].at, hook[n].i) = n
    <3>1. /\ hook'[n].pc = "replace" /\ hook'[n].i = hook[n].i /\ hook'[n].at = hook[n].at
          /\ hook'[n].x = hook[n].x
      BY <1>12, <2>2 DEF RemoveNode, LeaveTypeOK
    <3>2. QED BY <1>2, <1>3, <1>4, <1>6, <2>1, <3>1
  <2>3. CASE fingerAt(hook[n].at, hook[n].i) # n
    <3>1. \A m \in Up : successor[m] # n
      BY <1>3, <2>1, <2>3 DEF fingerAt
    <3>2. hook'[n].pc \in {"test", "exit"}
      BY <1>8, <1>12, <2>3 DEF RemoveNode
    <3>3. QED BY <1>4, <1>7, <2>1, <3>1, <3>2
  <2>4. QED BY <2>2, <2>3
<1>13. CASE RemoveReplace(n)
  <2> DEFINE p == hook[n].at
             t == hook[n].x
  <2>1. /\ hook[n].pc = "replace" /\ p \in Up /\ t # n /\ predecessor' = predecessor
        /\ hook'[n].x = t
    BY <1>2, <1>13, Contacts DEF RemoveReplace, Hooking, LeaveTypeOK
  <2>2. CASE hook[n].i = 0
    <3>1. successor' = [successor EXCEPT ![p] = t]
      BY <1>13, <2>2 DEF RemoveReplace
    <3>2. \A m \in Up \ {p} : successor[m] # n
      <4>1. CASE \A m \in Up : successor[m] # n
        BY <4>1
      <4>2. CASE Unchanged /\ successor[p] = n
        <5>1. p # n
          BY <1>2, <4>2
        <5>2. ASSUME NEW m \in Up \ {p}, successor[m] = n PROVE FALSE
          BY <1>2, <2>1, <4>2, <5>1, <5>2, OneBefore
        <5>3. QED BY <5>2
      <4>3. QED BY <1>3, <2>1, <4>1, <4>2
    <3> HIDE DEF p, t
    <3>3. \A m \in Up : successor'[m] # n
      BY <1>1, <2>1, <3>1, <3>2 DEF TypeOK
    <3>4. QED BY <1>1, <1>4, <2>1, <3>3 DEF t
  <2>3. CASE hook[n].i # 0
    <3>1. successor' = successor
      BY <1>13, <2>3 DEF RemoveReplace
    <3>2. \A m \in Up : successor'[m] # n
      BY <1>3, <2>3, <3>1
    <3>3. QED BY <1>1, <1>4, <2>1, <3>2
  <2>4. QED BY <2>2, <2>3
<1>14. CASE RemovePass(n)
  <2>1. hook[n].pc = "pass" /\ UNCHANGED allVars
    BY <1>14 DEF RemovePass, Hooking
  <2>2. \A m \in Up : successor[m] # n
    BY <1>3, <2>1
  <2>3. hook'[n].pc \in {"test", "exit"} \/ hook'[n].x = hook[n].x
    BY <1>8, <1>14 DEF RemovePass, LeaveTypeOK
  <2>4. hook'[n].pc \in {"remove", "replace", "pass"} => hook'[n].x # n
    BY <1>2, <2>1, <2>3
  <2>5. QED BY <1>4, <1>7, <2>1, <2>2, <2>4
<1>15. QED
  BY <1>5, <1>9, <1>10, <1>11, <1>12, <1>13, <1>14, HookCases

LEMMA HookTaken ==
  ASSUME LeaveCalm, ~AnyCrash', NEW n \in Node, Leave(n)
  PROVE  TakenOut'
<1> USE DEF LeaveCalm
<1>1. /\ n \in Up /\ Up \subseteq Node /\ Up' = Up /\ Staying' = Staying /\ n \notin Staying
      /\ UNCHANGED <<pc, locals>> /\ \A m \in Node \ {n} : hook'[m] = hook[m]
  BY HookCases, HookStaying, UpAreIds
<1>2. \A m \in Node : hook[m].quiet => hook[m].pc \notin {"none", "tell", "set"}
  BY DEF TakenOut
<1>3. ASSUME NEW i, NEW quiet, LeaveFinger(n, i, quiet)
      PROVE  hook'[n].pc \in {"test", "exit"} /\ hook'[n].quiet = quiet
  BY <1>3, FingerStep
<1>4. ASSUME ~LeaveSet(n)
      PROVE  /\ hook'[n].quiet = hook[n].quiet
             /\ hook'[n].quiet => hook'[n].pc \notin {"none", "tell", "set"}
  <2>1. ASSUME LeaveTell(n) PROVE hook'[n].quiet = hook[n].quiet /\ ~hook[n].quiet
    <3>1. hook' = [hook EXCEPT ![n] = [@ EXCEPT !.pc = "set", !.at = successor[n],
                                                !.x = predecessor[n]]]
      BY <1>1, <2>1, Contacts DEF LeaveTell, OnlyUpKnown
    <3>2. QED BY <1>2, <2>1, <3>1 DEF LeaveTell, Hooking, LeaveTypeOK
  <2>2. ASSUME LeaveTest(n) PROVE hook'[n].quiet = hook[n].quiet /\ hook'[n].pc \in {"found", "hop"}
    BY <2>2 DEF LeaveTest, LeaveTypeOK
  <2>3. ASSUME LeaveHop(n) PROVE hook'[n].quiet = hook[n].quiet /\ hook'[n].pc = "test"
    BY <2>3 DEF LeaveHop, LeaveTypeOK
  <2>4. ASSUME LeaveFound(n) PROVE hook'[n].quiet = hook[n].quiet /\ hook'[n].pc = "remove"
    BY <2>4 DEF LeaveFound, LeaveTypeOK
  <2>5. ASSUME RemoveNode(n)
        PROVE  hook'[n].quiet = hook[n].quiet /\ hook'[n].pc \in {"replace", "test", "exit"}
    BY <1>3, <2>5 DEF RemoveNode, NextFinger, LeaveTypeOK
  <2>6. ASSUME RemoveReplace(n) PROVE hook'[n].quiet = hook[n].quiet /\ hook'[n].pc = "pass"
    BY <2>6 DEF RemoveReplace, LeaveTypeOK
  <2>7. ASSUME RemovePass(n)
        PROVE  hook'[n].quiet = hook[n].quiet /\ hook'[n].pc \in {"remove", "test", "exit"}
    <3>1. CASE hook' = [hook EXCEPT ![n] = [@ EXCEPT !.pc = "remove",
                                                     !.at = predecessor[hook[n].at]]]
      BY <3>1 DEF LeaveTypeOK
    <3>2. CASE NextFinger(n)
      BY <1>3, <3>2 DEF NextFinger
    <3>3. QED BY <2>7, <3>1, <3>2 DEF RemovePass
  <2>8. QED BY <1>4, <2>1, <2>2, <2>3, <2>4, <2>5, <2>6, <2>7, HookCases
<1>5. \A m \in Node : hook'[m].quiet => hook'[m].pc \notin {"none", "tell", "set"}
  <2>1. LeaveSet(n) => hook'[n].pc \in {"test", "exit"}
    BY <1>3 DEF LeaveSet
  <2>2. QED BY <1>1, <1>2, <1>4, <2>1
<1>6. ASSUME NEW k \in Node, Told(k)' PROVE k = n
  BY <1>1, <1>6 DEF Told
<1>7. CASE LeaveSet(n)
  <2>1. ASSUME Told(n)'
        PROVE  (/\ Asleep(n)
                /\ successor[n] # n
                /\ \A m \in Up : predecessor[m] # n /\ (pc[m] = "adopt" => x[m] # n)
                /\ Unchanged
                /\ hook[n].i = 0 /\ hook[n].pc = "test")'
    BY <1>7, <2>1, TellingTakesOut
  <2>2. QED BY <1>5, <1>6, <2>1 DEF TakenOut
<1>8. CASE ~LeaveSet(n)
  <2>1. ASSUME Told(n)' PROVE Told(n)
    BY <1>1, <1>4, <1>8, <2>1 DEF Told
  <2>2. ASSUME Told(n)'
        PROVE  /\ Asleep(n)' /\ successor'[n] # n /\ predecessor' = predecessor
               /\ hook'[n].pc \in {"remove", "replace", "pass"} => hook'[n].x # n
               /\ \/ \A m \in Up : successor'[m] # n
                  \/ /\ Unchanged' /\ hook'[n].i = 0
                     /\ hook'[n].pc \in {"test", "hop", "found", "remove", "replace"}
                     /\ hook'[n].pc \in {"found", "remove", "replace"}
                          => successor'[hook'[n].at] = n
    BY <1>8, <2>1, <2>2, TakingOut
  <2>3. ASSUME Told(n)'
        PROVE  \A m \in Up : predecessor'[m] # n /\ (pc'[m] = "adopt" => x'[m] # n)
    BY <1>1, <2>1, <2>2, <2>3 DEF TakenOut, locals
  <2>4. QED BY <1>1, <1>5, <1>6, <2>2, <2>3 DEF TakenOut
<1>9. QED BY <1>7, <1>8
-----------------------------------------------------------------------------
(* The invariant. *)

\* A node is told to leave.
LEMMA CancelCalm ==
  ASSUME LeaveCalm, ~AnyCrash', NEW n \in Leavers, Cancel(n)
  PROVE  OnlyUpKnown' /\ NoDetours' /\ Untold' /\ TakenOut'
<1> USE DEF LeaveCalm
<1>1. n \in Node
  BY LeaversAssumption
<1>2. ~LeaveDies(n)
  BY <1>1 DEF LeaveDies, AnyCrash, LeaveTypeOK, LookupTypeOK, TypeOK
<1>3. UNCHANGED allVars /\ hook' = [hook EXCEPT ![n].pc = "tell"] /\ hook[n].pc = "none"
  BY <1>2 DEF Cancel, Hooking
<1>4. /\ UNCHANGED <<status, pc, successor, predecessor, stub, x, lookup>>
      /\ Up' = Up /\ Up \subseteq Node /\ n \in Up
  BY <1>1, <1>3, SameUp, UpAreIds DEF Cancel, Up, allVars, vars, pointers, locals, lookupVars
<1>5. /\ \A m \in Node \ {n} : hook'[m] = hook[m]
      /\ hook'[n].pc = "tell" /\ hook'[n].at = hook[n].at /\ hook'[n].quiet = hook[n].quiet
  BY <1>1, <1>3 DEF LeaveTypeOK
<1>6. Staying' = Staying \ {n}
  BY <1>3, <1>4, <1>5 DEF Staying, Hooking
<1>7. ~hook[n].quiet
  BY <1>1, <1>3 DEF TakenOut
<1>8. OnlyUpKnown'
  BY <1>1, <1>4, <1>5 DEF OnlyUpKnown, Hooking
<1>9. NoDetours'
  BY <1>1, <1>4, <1>5, <1>6 DEF NoDetours, NoStayingPassed, Hooking
<1>10. Unchanged' <=> Unchanged
  BY <1>4 DEF Unchanged, NobodyPassed
<1>11. Untold'
  BY <1>1, <1>3, <1>4, <1>5, <1>10 DEF Untold, Hooking
<1>12. ASSUME NEW k \in Node, Told(k)' PROVE FALSE
  <2>1. k # n
    BY <1>5, <1>7, <1>12 DEF Told
  <2>2. k \in Up /\ k \notin Staying' /\ hook[k].quiet
    BY <1>4, <1>5, <1>12, <2>1 DEF Told
  <2>3. n \in Staying'
    BY <1>4, <1>12, <2>1 DEF Told
  <2>4. QED BY <1>6, <2>3
<1>13. TakenOut'
  <2>1. \A k \in Node : hook'[k].quiet => hook'[k].pc \notin {"none", "tell", "set"}
    BY <1>5, <1>7 DEF TakenOut
  <2>2. QED BY <1>12, <2>1 DEF TakenOut
<1>14. QED BY <1>8, <1>9, <1>11, <1>13

\* A process that has died does not come back.
LEMMA CrashStays ==
  ASSUME LeaveTypeOK, [LeaveNext]_leaveVars, AnyCrash
  PROVE  AnyCrash'
<1> USE DEF AnyCrash, LeaveTypeOK, LookupTypeOK, TypeOK
<1>1. CASE UNCHANGED leaveVars
  BY <1>1 DEF leaveVars, allVars, vars
<1>2. ASSUME NEW n \in Node, LeaveRound(n) PROVE AnyCrash'
  <2>1. status' = status
    BY <1>2
    DEF LeaveRound, Find, LookupTest, LookupHop, StabilizeRound, Round, StabilizeRead,
        StabilizeRecover, StabilizeAdopt, StabilizeTell, NotifyCheck, NotifySet, NotifyNobody,
        NotifyFails, Fix, FixFound, FixSet, FixFails, FixDies, vars
  <2>2. QED BY <2>1
<1>3. ASSUME NEW n \in Node, LeaveDies(n) PROVE AnyCrash'
  BY <1>3 DEF LeaveDies
<1>4. ASSUME NEW n \in Node, Leave(n) PROVE AnyCrash'
  <2>1. status' = status \/ LeaveDies(n)
    BY <1>4
    DEF Leave, LeaveTell, LeaveSet, LeaveTest, LeaveHop, LeaveFound, RemoveNode, RemoveReplace,
        RemovePass, LeaveFails, LeaveThrows, allVars, vars
  <2>2. QED BY <1>3, <2>1
<1>5. ASSUME NEW n \in Leavers, Cancel(n) PROVE AnyCrash'
  <2>1. n \in Node /\ (status' = status \/ LeaveDies(n))
    BY <1>5, LeaversAssumption DEF Cancel, allVars, vars
  <2>2. QED BY <1>3, <2>1
<1>6. ASSUME NEW n \in Crashers, Crash(n) PROVE AnyCrash'
  BY <1>6, NodeAssumption DEF Crash
<1>7. QED BY <1>1, <1>2, <1>4, <1>5, <1>6 DEF LeaveNext

LEMMA LeaveInvStep ==
  LeaveTypeOK /\ LeaveInv /\ [LeaveNext]_leaveVars => LeaveInv'
<1> SUFFICES ASSUME LeaveTypeOK, LeaveInv, [LeaveNext]_leaveVars, ~AnyCrash'
    PROVE  OnlyUpKnown' /\ NoDetours' /\ Untold' /\ TakenOut'
  BY DEF LeaveInv
<1>1. ~AnyCrash /\ LeaveCalm
  BY CrashStays DEF LeaveInv, LeaveCalm
<1>2. CASE UNCHANGED leaveVars
  <2>1. UNCHANGED <<status, pc, successor, predecessor, stub, x, lookup, hook>>
    BY <1>2 DEF leaveVars, allVars, vars, pointers, locals, lookupVars
  <2>2. Up' = Up /\ Staying' = Staying
    BY <2>1, SameStaying
  <2>3. OnlyUpKnown' /\ NoDetours'
    BY <1>1, <2>1, <2>2 DEF LeaveCalm, OnlyUpKnown, NoDetours, NoStayingPassed, Hooking
  <2>4. Unchanged' <=> Unchanged
    BY <2>1, <2>2 DEF Unchanged, NobodyPassed
  <2>5. Untold'
    BY <1>1, <2>1, <2>2, <2>4 DEF LeaveCalm, Untold, Hooking
  <2>6. \A k \in Node : Told(k)' <=> Told(k)
    BY <2>1, <2>2 DEF Told
  <2>7. TakenOut'
    BY <1>1, <2>1, <2>2, <2>4, <2>6 DEF LeaveCalm, TakenOut, Asleep, Looking
  <2>8. QED BY <2>3, <2>5, <2>7
<1>3. ASSUME NEW n \in Node, LeaveRound(n)
      PROVE  OnlyUpKnown' /\ NoDetours' /\ Untold' /\ TakenOut'
  BY <1>1, <1>3, RoundKnown, RoundDetours, RoundUntold, RoundTaken
<1>4. ASSUME NEW n \in Node, Leave(n)
      PROVE  OnlyUpKnown' /\ NoDetours' /\ Untold' /\ TakenOut'
  BY <1>1, <1>4, HookKnown, HookDetours, HookUntold, HookTaken
<1>5. ASSUME NEW n \in Leavers, Cancel(n)
      PROVE  OnlyUpKnown' /\ NoDetours' /\ Untold' /\ TakenOut'
  BY <1>1, <1>5, CancelCalm
<1>6. ASSUME NEW n \in Crashers, Crash(n) PROVE FALSE
  BY <1>6, NodeAssumption DEF Crash, AnyCrash, LeaveTypeOK, LookupTypeOK, TypeOK
<1>7. QED BY <1>2, <1>3, <1>4, <1>5, <1>6 DEF LeaveNext

\* A settled ring, and First alone, satisfy it.
LEMMA LeaveRingsInv == LeaveRings => LeaveInv
<1> SUFFICES ASSUME LeaveRings PROVE OnlyUpKnown /\ NoDetours /\ Untold /\ TakenOut
  BY DEF LeaveInv
<1>1. \A n \in Node : hook[n] = NoHook
  BY DEF LeaveRings, LeaveInit
<1>2. /\ \A n \in Node : /\ status[n] \in {"up", "down"}
                         /\ n \notin Up => pc[n] = "idle"
                         /\ n \in Up => pc[n] = "stabilize"
                         /\ stub[n] = Null
      /\ \A n \in Up : /\ successor[n] \in Up /\ Follows(Up, n, successor[n])
                       /\ predecessor[n] \in Up \cup {Null}
                       /\ predecessor[n] # Null => successor[predecessor[n]] = n
  <2>1. CASE \E S \in SUBSET Node : \E j \in S : S # {j} /\ LeaveInit(S, j)
    <3>1. PICK S \in SUBSET Node : \E j \in S : S # {j} /\ LookupSettled(S, j)
      BY <2>1 DEF LeaveInit
    <3>2. PICK j \in S : S # {j} /\ LookupSettled(S, j)
      BY <3>1
    <3>3. /\ Up = S /\ \A n \in Node : status[n] \in {"up", "down"}
          /\ \A n \in S : /\ successor[n] \in S /\ Follows(S, n, successor[n])
                          /\ predecessor[n] \in S /\ successor[predecessor[n]] = n
          /\ \A n \in Node : /\ n \notin S => pc[n] = "idle"
                             /\ n \in S => pc[n] = "stabilize"
                             /\ stub[n] = Null
      BY <3>2, SettledRing
    <3>4. QED BY <3>3
  <2>2. CASE LookupInit
    <3>1. /\ Up = {First} /\ First \in Node
          /\ \A n \in Node : /\ status[n] = IF n = First THEN "up" ELSE "down"
                             /\ pc[n] = IF n = First THEN "stabilize" ELSE "idle"
                             /\ stub[n] = Null /\ successor[n] = n /\ predecessor[n] = Null
      BY <2>2, NodeAssumption DEF LookupInit, Init, Up
    <3>2. QED BY <3>1 DEF Follows
  <2>3. QED BY <2>1, <2>2 DEF LeaveRings
<1>3. \A n \in Up : NobodyPassed(n, successor[n])
  <2> SUFFICES ASSUME NEW n \in Up, NEW m \in Up PROVE ~Between(n, m, successor[n])
    BY DEF NobodyPassed
  <2>1. n \in Id /\ m \in Id /\ successor[n] \in Id /\ Follows(Up, n, successor[n])
    BY <1>2, UpAreIds
  <2>2. CASE successor[n] = n
    <3>1. m = n
      BY <2>1, <2>2 DEF Follows
    <3>2. QED BY <2>1, <2>2, <3>1, IntAssumption DEF Between, Id, INT_MIN
  <2>3. CASE successor[n] # n
    <3>1. m = n => ~Between(n, m, successor[n])
      BY <2>1, IntAssumption DEF Between, Id, INT_MIN
    <3>2. QED BY <2>1, <2>3, <3>1 DEF Follows
  <2>4. QED BY <2>2, <2>3
<1>4. Unchanged
  BY <1>2, <1>3, UpAreIds DEF Unchanged
<1>5. \A n \in Up : NoStayingPassed(n, successor[n])
  BY <1>3, UpAreIds DEF NobodyPassed, NoStayingPassed
<1>6. OnlyUpKnown
  BY <1>1, <1>2, UpAreIds DEF OnlyUpKnown, NoHook, Hooking, StabilizePC
<1>7. NoDetours
  BY <1>1, <1>2, <1>5, UpAreIds DEF NoDetours, NoHook, Hooking
<1>8. Untold
  BY <1>1, <1>2, <1>4, UpAreIds DEF Untold, NoHook, Hooking
<1>9. TakenOut
  BY <1>1 DEF TakenOut, Told, NoHook
<1>10. QED BY <1>6, <1>7, <1>8, <1>9
-----------------------------------------------------------------------------

\* Whoever stays reaches everybody who stays: take the node nearest before b in a
\* closed set without b; its successor would be nearer.
LEMMA StayersReached == LeaveTypeOK /\ LeaveInv => StayingConnected
<1> SUFFICES ASSUME LeaveTypeOK, OnlyUpKnown, NoDetours, NEW S \in SUBSET Up,
                    S \cap Staying # {}, Closed(S), NEW b \in Staying, b \notin S
             PROVE  FALSE
  BY DEF LeaveInv, StayingConnected
<1>1. S \in SUBSET Id /\ S # {} /\ b \in Id
  BY UpAreIds
<1>2. PICK m \in S : \A k \in S : Dist(m, b) <= Dist(k, b)
  BY <1>1, NearestBefore
<1>3. successor[m] \in S
  <2>1. m \in Up /\ m \in Node /\ Null \notin Up
    BY UpAreIds
  <2>2. QED BY <2>1 DEF Closed, OnlyUpKnown
<1>4. ~Between(m, b, successor[m])
  BY DEF NoDetours, NoStayingPassed
<1>5. m # b /\ successor[m] # b /\ m \in Id /\ successor[m] \in Id
  BY <1>1, <1>3
<1>6. ~(Dist(m, b) <= Dist(successor[m], b))
  BY <1>1, <1>4, <1>5, StepNears
<1>7. QED BY <1>2, <1>3, <1>6

LEMMA TakenOutIsGone == LeaveTypeOK /\ LeaveInv => GoneIfQuiet
<1> SUFFICES ASSUME OnlyUpKnown, TakenOut, NEW n \in Node, Hooking(n, "exit"), hook[n].quiet,
                    Staying = Up \ {n}, NEW m \in Staying
             PROVE  successor[m] # n
  BY DEF LeaveInv, GoneIfQuiet
<1>1. n \in Up
  BY DEF OnlyUpKnown, Hooking
<1>2. Told(n) /\ m \in Up
  BY <1>1 DEF Told
<1>3. QED BY <1>2 DEF TakenOut, Hooking

LEMMA LeaveInvariant == LeaveSpec => [](LeaveTypeOK /\ LeaveInv)
<1>1. LeaveRings => LeaveTypeOK /\ LeaveInv
  BY LeaveRingsType, LeaveRingsInv
<1>2. LeaveTypeOK /\ LeaveInv /\ [LeaveNext]_leaveVars => (LeaveTypeOK /\ LeaveInv)'
  BY LeaveNextType, LeaveInvStep
<1>3. QED BY <1>1, <1>2, PTL DEF LeaveSpec

\* Nodes may leave in any number and at any time, while the stabilizers run: as long
\* as no process dies, the successor pointers lead from every node that stays to every
\* other that stays.
THEOREM StayersConnected == LeaveSpec => []StayingConnected
BY LeaveInvariant, StayersReached, PTL

\* A node that leaves alone, after its stabilizer has ended, is nobody's successor
\* when its hook is through: leave's lookup for the first finger finds the one node
\* that has it, and no stabilizer brings it back.
THEOREM QuietLeaversGone == LeaveSpec => []GoneIfQuiet
BY LeaveInvariant, TakenOutIsGone, PTL
=============================================================================
