-------------------------- MODULE ChordLookupProofs --------------------------
(***************************************************************************)
(* Lookups, for any set of nodes and any crashes.                          *)
(***************************************************************************)
EXTENDS ChordLookup, RingShapeProofs, WellFoundedInduction

-----------------------------------------------------------------------------
(* Types. *)

\* A finger looks for an identifier of the circle.
LEMMA IdToFindType ==
  ASSUME NEW n \in Id, NEW i \in FingerIndex
  PROVE  computeIdToFind(n, i) \in Id
<1> DEFINE power == 2 ^ (i - 1)
           u == n - INT_MIN + power
           v == javaRem(u, 2 ^ NUM_FINGERS)
<1>1. power \in Nat
  BY PowersAssumption, IdsAssumption DEF FingerIndex
<1>2. INT_MAX \in Nat /\ INT_MIN = -INT_MAX - 1 /\ RingSize = 2 * INT_MAX + 2
  BY IntAssumption DEF INT_MIN, RingSize
<1>3. u \in Nat
  BY <1>1, <1>2 DEF Id
<1> HIDE DEF power, u
<1>4. v = u % RingSize
  BY <1>3, IdsAssumption DEF javaRem
<1>5. v \in Int
  BY <1>2, <1>3, <1>4
<1> HIDE DEF v
<1>6. castInt(v + INT_MIN) \in Id
  <2> DEFINE w == v + INT_MIN + RingSize \div 2
  <2>1. RingSize \div 2 = INT_MAX + 1
    BY <1>2
  <2>2. w \in Int
    BY <1>2, <1>5, <2>1
  <2> HIDE DEF w
  <2>3. w % RingSize \in 0 .. RingSize - 1
    BY <1>2, <2>2
  <2>4. castInt(v + INT_MIN) = (w % RingSize) - (INT_MAX + 1)
    BY <2>1 DEF castInt, castTo, w
  <2>5. QED BY <1>2, <2>3, <2>4 DEF Id
<1>7. QED BY <1>6 DEF computeIdToFind, v, u, power

LEMMA NextFingerIndexType ==
  ASSUME NEW i \in 0 .. NUM_FINGERS - 1
  PROVE  nextFingerIndex(i) \in FingerIndex
BY IdsAssumption DEF nextFingerIndex, FingerIndex

\* Of some indices one is the highest.
LEMMA HighestIndex ==
  ASSUME NEW P \in SUBSET FingerIndex, P # {}
  PROVE  \E i \in P : \A j \in P : i >= j
<1> DEFINE below == {NUM_FINGERS - i : i \in P}
<1>1. /\ below \subseteq Nat /\ below # {}
      /\ P \subseteq Int /\ NUM_FINGERS \in Int
  <2>1. NUM_FINGERS \in Nat
    BY IdsAssumption
  <2>2. \A i \in P : i \in Int /\ NUM_FINGERS - i \in Nat
    BY <2>1 DEF FingerIndex
  <2>3. below # {}
    OBVIOUS
  <2>4. QED BY <2>1, <2>2, <2>3
<1>2. PICK k \in below : \A l \in below : ~(<<l, k>> \in OpToRel(<, Nat))
  <2> HIDE DEF below
  <2> QED BY <1>1, NatLessThanWellFounded, WFMin
<1>3. \A l \in below : ~(l < k)
  BY <1>1, <1>2 DEF OpToRel
<1>4. PICK i \in P : k = NUM_FINGERS - i
  OBVIOUS
<1>5. \A j \in P : i >= j
  <2> TAKE j \in P
  <2>1. ~(NUM_FINGERS - j < NUM_FINGERS - i)
    BY <1>3, <1>4
  <2>2. QED BY <1>1, <2>1
<1>6. QED BY <1>5

\* A hop leads to a node that precedes the identifier, or nowhere.
LEMMA HopType ==
  ASSUME LookupTypeOK, NEW m \in Node, NEW id \in Id,
         NEW next, next = closestPrecedingFinger(m, id)
  PROVE  /\ next \in Node
         /\ next = m \/ closer(m, id, next)
         /\ next \in {m, successor[m]} \cup {finger[m][i] : i \in FingerIndex}
<1> DEFINE P == Preceding(m, id)
           i == CHOOSE k \in P : \A j \in P : k >= j
<1>1. CASE P # {}
  <2>1. P \subseteq FingerIndex
    BY DEF Preceding
  <2>2. i \in P
    BY <1>1, <2>1, HighestIndex
  <2>3. next = finger[m][i]
    BY <1>1 DEF closestPrecedingFinger
  <2> HIDE DEF i
  <2>4. next \in Node /\ closer(m, id, next)
    BY <2>2, <2>3 DEF Preceding, Contactable
  <2>5. QED BY <2>1, <2>2, <2>3, <2>4
<1>2. CASE P = {}
  BY <1>2 DEF closestPrecedingFinger, Contactable
<1>3. QED BY <1>1, <1>2

LEMMA LookupInitType == LookupInit => LookupTypeOK
BY InitType, IdsAssumption, IntAssumption
DEF LookupInit, LookupTypeOK, Idle, NodeOrNull, Id, INT_MIN

LEMMA BeginType ==
  ASSUME LookupTypeOK, NEW t \in Node, NEW n \in Node, NEW id \in Id, Begin(t, n, id)
  PROVE  lookup' \in [Node -> [pc : {"idle", "test", "hop", "reread"},
                               at : NodeOrNull, id : Id]]
BY DEF Begin, LookupTypeOK, NodeOrNull

LEMMA EndType ==
  ASSUME LookupTypeOK, NEW t \in Node, End(t)
  PROVE  lookup' \in [Node -> [pc : {"idle", "test", "hop", "reread"},
                               at : NodeOrNull, id : Id]]
BY IntAssumption DEF End, Idle, LookupTypeOK, NodeOrNull, Id, INT_MIN

LEMMA FindType ==
  ASSUME LookupTypeOK, NEW t \in Node, Find(t)
  PROVE  LookupTypeOK'
<1>1. TypeOK'
  BY DEF LookupTypeOK, Find, LookupTest, LookupHop, vars, pointers, locals, TypeOK
<1>2. CASE LookupTest(t)
  BY <1>1, <1>2 DEF LookupTest, LookupTypeOK
<1>3. CASE LookupHop(t)
  <2>1. lookup[t].at \in Node /\ lookup[t].id \in Id
    BY <1>3 DEF LookupHop, NoAnswer, Contactable, LookupTypeOK
  <2>2. closestPrecedingFinger(lookup[t].at, lookup[t].id) \in Node
    BY <2>1, HopType
  <2> DEFINE next == closestPrecedingFinger(lookup[t].at, lookup[t].id)
             id == lookup[t].id
  <2>3. Begin(t, next, id)
    BY <1>3 DEF LookupHop
  <2> HIDE DEF next, id
  <2>4. lookup' \in [Node -> [pc : {"idle", "test", "hop", "reread"},
                              at : NodeOrNull, id : Id]]
    BY <2>1, <2>2, <2>3, BeginType DEF next, id
  <2>5. QED BY <1>1, <1>3, <2>4 DEF LookupHop, LookupTypeOK
<1>4. QED BY <1>2, <1>3 DEF Find

LEMMA LookupJoinType ==
  ASSUME LookupTypeOK, NEW n \in Node, LookupJoin(n)
  PROVE  LookupTypeOK'
<1> USE DEF LookupTypeOK
<1>1. CASE LookupJoinFind(n)
  <2>1. TypeOK'
    BY <1>1 DEF LookupJoinFind, TypeOK, pointers
  <2>2. QED BY <1>1, <2>1, EndType DEF LookupJoinFind
<1>2. CASE LookupJoinTable(n)
  <2>1. fingerTable(successor[n]) \subseteq NodeOrNull /\ entry[n] \in NodeOrNull
    BY <1>2 DEF LookupJoinTable, Contactable, fingerTable, TypeOK
  <2>2. TypeOK'
    BY <1>2, <2>1 DEF LookupJoinTable, Contactable, TypeOK, pointers
  <2>3. QED BY <1>2, <2>2 DEF LookupJoinTable, lookupVars
<1>3. CASE LookupJoinOn(n)
  <2>1. TypeOK'
    BY <1>3, JoinType DEF LookupJoinOn, Join
  <2>2. QED BY <1>3, <2>1 DEF LookupJoinOn, lookupVars
<1>4. CASE LookupJoinFails(n)
  <2>1. TypeOK'
    BY <1>4 DEF LookupJoinFails, Exit, TypeOK, EmptyList, NodeOrNull
  <2>2. QED BY <1>4, <2>1, EndType DEF LookupJoinFails
<1>5. QED BY <1>1, <1>2, <1>3, <1>4 DEF LookupJoin

LEMMA StabilizeRoundType ==
  ASSUME LookupTypeOK, NEW n \in Node, StabilizeRound(n)
  PROVE  LookupTypeOK'
<1>1. TypeOK'
  BY StabilizeType DEF LookupTypeOK, StabilizeRound, Stabilize
<1> DEFINE i == nextFingerIndex(fingerIndexToUpdate[n])
<1>2. fingerIndexToUpdate[n] \in 0 .. NUM_FINGERS - 1
  BY DEF LookupTypeOK
<1>3. i \in FingerIndex /\ n \in Id
  BY <1>2, NextFingerIndexType, NodeAssumption
<1>4. computeIdToFind(n, i) \in Id
  BY <1>3, IdToFindType
<1>5. \/ /\ fingerIndexToUpdate' = [fingerIndexToUpdate EXCEPT ![n] = i]
         /\ Begin(n, n, computeIdToFind(n, i))
      \/ UNCHANGED <<fingerIndexToUpdate, lookup>>
  BY DEF StabilizeRound
<1> HIDE DEF i
<1>6. lookup' \in [Node -> [pc : {"idle", "test", "hop", "reread"},
                            at : NodeOrNull, id : Id]]
  BY <1>4, <1>5, BeginType DEF LookupTypeOK
<1>7. fingerIndexToUpdate' \in [Node -> 0 .. NUM_FINGERS - 1]
  <2>1. i \in 0 .. NUM_FINGERS - 1
    BY <1>3, IdsAssumption DEF FingerIndex
  <2>2. \/ fingerIndexToUpdate' = [fingerIndexToUpdate EXCEPT ![n] = i]
        \/ fingerIndexToUpdate' = fingerIndexToUpdate
    BY <1>5
  <2>3. QED BY <2>1, <2>2 DEF LookupTypeOK
<1>8. QED BY <1>1, <1>6, <1>7 DEF StabilizeRound, LookupTypeOK

LEMMA FixType ==
  ASSUME LookupTypeOK, NEW n \in Node, Fix(n)
  PROVE  LookupTypeOK'
<1> USE DEF LookupTypeOK
<1>1. CASE FixFound(n)
  <2>1. TypeOK'
    BY <1>1 DEF FixFound, vars, pointers, locals, TypeOK
  <2>2. QED BY <1>1, <2>1 DEF FixFound
<1>2. CASE FixSet(n)
  <2>1. TypeOK'
    BY <1>2 DEF FixSet, vars, pointers, locals, TypeOK
  <2> DEFINE s == successor[lookup[n].at]
  <2>2. s \in Node /\ finger' = [finger EXCEPT ![n][fingerIndexToUpdate[n]] = s]
    BY <1>2 DEF FixSet, Contactable
  <2>3. finger' \in [Node -> [FingerIndex -> NodeOrNull]]
    BY <2>2 DEF NodeOrNull
  <2>4. QED BY <1>2, <2>1, <2>3, EndType DEF FixSet
<1>3. CASE FixFails(n)
  <2>1. TypeOK'
    BY <1>3 DEF FixFails, vars, pointers, locals, TypeOK
  <2>2. QED BY <1>3, <2>1, EndType DEF FixFails
<1>4. CASE FixDies(n)
  <2>1. TypeOK'
    BY <1>4 DEF FixDies, pointers, locals, TypeOK
  <2>2. QED BY <1>4, <2>1, EndType DEF FixDies
<1>5. QED BY <1>1, <1>2, <1>3, <1>4 DEF Fix

LEMMA LookupNextType == LookupTypeOK /\ [LookupNext]_allVars => LookupTypeOK'
<1> SUFFICES ASSUME LookupTypeOK, [LookupNext]_allVars PROVE LookupTypeOK'
  OBVIOUS
<1>1. ASSUME NEW n \in Node, Thread(n) PROVE LookupTypeOK'
  BY <1>1, FindType, LookupJoinType, StabilizeRoundType, FixType DEF Thread
<1>2. ASSUME NEW n \in Node, NEW e \in Up, LookupJoinStart(n, e) PROVE LookupTypeOK'
  <2>1. e \in Node /\ n \in Id
    BY NodeAssumption DEF Up
  <2>2. TypeOK'
    <3>1. [Next]_vars
      BY <1>2 DEF LookupJoinStart, Next
    <3>2. QED BY <3>1, NextType DEF LookupTypeOK
  <2>3. QED BY <1>2, <2>1, <2>2, BeginType DEF LookupJoinStart, LookupTypeOK
<1>3. ASSUME NEW n \in Crashers, Crash(n), UNCHANGED lookupVars PROVE LookupTypeOK'
  <2>1. TypeOK'
    <3>1. [Next]_vars
      BY <1>3 DEF Next
    <3>2. QED BY <3>1, NextType DEF LookupTypeOK
  <2>2. QED BY <1>3, <2>1 DEF lookupVars, LookupTypeOK
<1>4. CASE UNCHANGED allVars
  BY <1>4 DEF allVars, lookupVars, vars, pointers, locals, LookupTypeOK, TypeOK
<1>5. QED BY <1>1, <1>2, <1>3, <1>4 DEF LookupNext

\* Every variable keeps its type: fixFingers never leaves the table, and a lookup never
\* goes on at a null, whoever crashes in the middle of it.
THEOREM LookupTypeCorrect == LookupSpec => []LookupTypeOK
BY LookupInitType, LookupNextType, PTL DEF LookupSpec
-----------------------------------------------------------------------------
(* No hop leads away from the identifier. *)

\* Where the interval of a hop is not the whole circle, it is the open arc.
LEMMA CloserIsBetweenApart ==
  ASSUME NEW a \in Id, NEW b \in Id, NEW c \in Id,
         b # plus1(a), b # plus1(plus1(a)), closer(a, b, c)
  PROVE  Between(a, c, b)
BY IntAssumption DEF Id, INT_MIN, closer, withinInterval, plus1, minus1, Between

\* One or two after a node there is nobody but its successor responsible.
LEMMA NearIsCovered ==
  ASSUME NEW a \in Node, NEW s \in Node, NEW c \in Id,
         c = plus1(a) \/ c = plus1(plus1(a))
  PROVE  covers(a, s, c)
<1> /\ a \in Id /\ s \in Id
    /\ a # s => Dist(a, s) >= 3
  BY NodeAssumption DEF Spaced
<1>1. CASE a = s
  BY <1>1, IntAssumption DEF Id, INT_MIN, covers, withinInterval, plus1
<1>2. CASE a # s
  BY <1>2, IntAssumption DEF Id, INT_MIN, covers, withinInterval, plus1, Dist, RingSize
<1>3. QED BY <1>1, <1>2

LEMMA HopsApartInit == LookupInit => HopsApart
BY DEF LookupInit, HopsApart, Looking, Idle

\* Only the test of the loop leads to a hop.
LEMMA HopsFromTest ==
  ASSUME LookupTypeOK, [LookupNext]_allVars, NEW t \in Node, Looking(t, "hop")'
  PROVE  lookup'[t] = lookup[t] \/ LookupTest(t)
<1> USE DEF Looking, LookupTypeOK
<1>1. ASSUME NEW n \in Node, Find(n) PROVE lookup'[t] = lookup[t] \/ LookupTest(t)
  BY <1>1 DEF Find, LookupTest, LookupHop, Begin
<1>2. ASSUME NEW n \in Node, LookupJoin(n) PROVE lookup'[t] = lookup[t]
  BY <1>2
  DEF LookupJoin, LookupJoinFind, LookupJoinTable, LookupJoinOn, LookupJoinFails, End, Idle,
      lookupVars
<1>3. ASSUME NEW n \in Node, StabilizeRound(n) PROVE lookup'[t] = lookup[t]
  BY <1>3 DEF StabilizeRound, Begin
<1>4. ASSUME NEW n \in Node, Fix(n) PROVE lookup'[t] = lookup[t]
  <2>1. CASE FixFound(n)
    BY <2>1 DEF FixFound
  <2>2. CASE End(n)
    BY <2>2 DEF End, Idle
  <2>3. QED BY <1>4, <2>1, <2>2 DEF Fix, FixSet, FixFails, FixDies
<1>5. ASSUME NEW n \in Node, NEW e \in Up, LookupJoinStart(n, e) PROVE lookup'[t] = lookup[t]
  BY <1>5 DEF LookupJoinStart, Begin
<1>6. CASE UNCHANGED lookup
  BY <1>6
<1>7. QED
  BY <1>1, <1>2, <1>3, <1>4, <1>5, <1>6 DEF LookupNext, Thread, allVars, lookupVars

LEMMA HopsApartNext ==
  ASSUME LookupTypeOK, HopsApart, [LookupNext]_allVars
  PROVE  HopsApart'
<1> SUFFICES ASSUME NEW t \in Node, Looking(t, "hop")'
             PROVE  /\ lookup'[t].at \in Node
                    /\ lookup'[t].id \notin {plus1(lookup'[t].at), plus1(plus1(lookup'[t].at))}
  BY DEF HopsApart
<1>1. CASE lookup'[t] = lookup[t]
  BY <1>1 DEF HopsApart, Looking
<1>2. CASE LookupTest(t)
  <2> DEFINE m == lookup[t].at
             id == lookup[t].id
  <2>1. lookup'[t].at = m /\ lookup'[t].id = id
    BY <1>2 DEF LookupTest, LookupTypeOK
  <2>2. m \in Node /\ id \in Id
    BY <1>2 DEF LookupTest, NoAnswer, Contactable, LookupTypeOK
  <2>3. successor[m] \in Node /\ ~covers(m, successor[m], id)
    BY <1>2, <2>2
    DEF LookupTest, Looking, NullMet, Responsible, LookupTypeOK, TypeOK, NodeOrNull
  <2>4. id \notin {plus1(m), plus1(plus1(m))}
    BY <2>2, <2>3, NearIsCovered
  <2>5. QED BY <2>1, <2>2, <2>4
<1>3. QED BY <1>1, <1>2, HopsFromTest

LEMMA HopsApartCorrect == LookupSpec => []HopsApart
BY HopsApartInit, HopsApartNext, LookupTypeCorrect, PTL DEF LookupSpec

\* The program counter fits the status here as it does in ChordRing.
LEMMA LookupPcNext ==
  ASSUME LookupTypeOK, PcFitsStatus, [LookupNext]_allVars
  PROVE  PcFitsStatus'
<1> USE DEF LookupTypeOK
<1>1. CASE [Next]_vars
  BY <1>1, NextPcFitsStatus
<1> USE DEF PcFitsStatus, TypeOK
<1>2. ASSUME NEW n \in Node, Find(n) PROVE PcFitsStatus'
  BY <1>2 DEF Find, LookupTest, LookupHop, vars
<1>3. ASSUME NEW n \in Node, LookupJoin(n) PROVE PcFitsStatus'
  <2>1. CASE LookupJoinFind(n)
    BY <2>1 DEF LookupJoinFind, JoinPC
  <2>2. CASE LookupJoinFails(n)
    BY <2>2 DEF LookupJoinFails, Exit
  <2>3. CASE LookupJoinTable(n)
    BY <2>3 DEF LookupJoinTable, Contactable, JoinPC, StabilizePC
  <2>4. CASE LookupJoinOn(n)
    <3>1. Next
      BY <2>4 DEF LookupJoinOn, Next, Join
    <3>2. QED BY <1>1, <3>1
  <2>5. QED BY <1>3, <2>1, <2>2, <2>3, <2>4 DEF LookupJoin
<1>4. ASSUME NEW n \in Node, StabilizeRound(n) PROVE PcFitsStatus'
  BY <1>1, <1>4 DEF StabilizeRound, Next, Stabilize
<1>5. ASSUME NEW n \in Node, Fix(n) PROVE PcFitsStatus'
  <2>1. CASE UNCHANGED vars
    BY <2>1 DEF vars
  <2>2. CASE FixDies(n)
    BY <2>2 DEF FixDies, StabilizePC
  <2>3. QED BY <1>5, <2>1, <2>2 DEF Fix, FixFound, FixSet, FixFails
<1>6. ASSUME NEW n \in Node, NEW e \in Up, LookupJoinStart(n, e) PROVE PcFitsStatus'
  BY <1>1, <1>6 DEF LookupJoinStart, Next
<1>7. ASSUME NEW n \in Crashers, Crash(n) PROVE PcFitsStatus'
  BY <1>1, <1>7 DEF Next
<1>8. CASE UNCHANGED allVars
  BY <1>1, <1>8 DEF allVars
<1>9. QED BY <1>2, <1>3, <1>4, <1>5, <1>6, <1>7, <1>8 DEF LookupNext, Thread

\* A step of join concerns no other node.
LEMMA JoinAlone ==
  ASSUME TypeOK, NEW n \in Node, Join(n), NEW m \in Node \ {n}
  PROVE  status'[m] = status[m] /\ pc'[m] = pc[m]
<1> DEFINE P == status'[m] = status[m] /\ pc'[m] = pc[m]
<1>1. ASSUME status' = status, NEW c \in JoinPC, pc' = [pc EXCEPT ![n] = c]
      PROVE  P
  BY <1>1 DEF TypeOK
<1>2. CASE status' = [status EXCEPT ![n] = "up"] /\ pc' = [pc EXCEPT ![n] = "stabilize"]
  BY <1>2 DEF TypeOK
<1>3. CASE status' = [status EXCEPT ![n] = "down"] /\ pc' = [pc EXCEPT ![n] = "idle"]
  BY <1>3 DEF TypeOK
<1>4. QED BY <1>1, <1>2, <1>3, JoinPc

LEMMA LookupFitsNext ==
  ASSUME LookupTypeOK, PcFitsStatus, LookupFits, [LookupNext]_allVars
  PROVE  LookupFits'
<1> USE DEF LookupTypeOK, TypeOK, LookupFits, Looking
<1>1. ASSUME NEW n \in Node, Find(n) PROVE LookupFits'
  <2>1. ~Looking(n, "idle") /\ UNCHANGED <<status, pc>>
        /\ \A m \in Node \ {n} : lookup'[m] = lookup[m]
    BY <1>1 DEF Find, LookupTest, LookupHop, Begin, vars
  <2>2. QED BY <2>1
<1>2. ASSUME NEW n \in Node, LookupJoin(n) PROVE LookupFits'
  <2>1. CASE LookupJoinFind(n)
    BY <2>1 DEF LookupJoinFind, End, Idle
  <2>2. CASE LookupJoinFails(n)
    BY <2>2 DEF LookupJoinFails, Exit, End, Idle
  <2>3. CASE Join(n) /\ pc[n] # "find" /\ UNCHANGED lookup
    <3>1. status[n] = "joining"
      BY <2>3, JoinPc DEF PcFitsStatus, JoinPC, StabilizePC
    <3>2. lookup'[n].pc = "idle"
      BY <2>3, <3>1
    <3>3. \A m \in Node \ {n} : status'[m] = status[m] /\ pc'[m] = pc[m]
      BY <2>3, JoinAlone
    <3>4. QED BY <2>3, <3>2, <3>3
  <2>4. CASE LookupJoinTable(n)
    BY <2>4 DEF LookupJoinTable, lookupVars, PcFitsStatus, JoinPC, StabilizePC, pointers
  <2>5. QED
    BY <1>2, <2>1, <2>2, <2>3, <2>4
    DEF LookupJoin, LookupJoinOn, Join, JoinReread, JoinWalk, JoinRefresh, lookupVars
<1>3. ASSUME NEW n \in Node, StabilizeRound(n) PROVE LookupFits'
  <2>1. /\ status' = status /\ pc[n] \in StabilizePC
        /\ \A m \in Node \ {n} : pc'[m] = pc[m]
    BY <1>3, StabilizePc DEF StabilizeRound, Stabilize
  <2>2. \A m \in Node \ {n} : lookup'[m] = lookup[m]
    BY <1>3 DEF StabilizeRound, Begin
  <2>3. status[n] \notin {"down", "joining"}
    BY <2>1 DEF PcFitsStatus, StabilizePC, JoinPC
  <2>4. QED BY <2>1, <2>2, <2>3
<1>4. ASSUME NEW n \in Node, Fix(n) PROVE LookupFits'
  <2>1. /\ status' = status /\ status[n] = "up"
        /\ \A m \in Node \ {n} : pc'[m] = pc[m]
    BY <1>4 DEF Fix, FixFound, FixSet, FixFails, FixDies, vars
  <2>2. \A m \in Node \ {n} : lookup'[m] = lookup[m]
    <3>1. CASE FixFound(n)
      BY <3>1 DEF FixFound
    <3>2. CASE End(n)
      BY <3>2 DEF End, Idle
    <3>3. QED BY <1>4, <3>1, <3>2 DEF Fix, FixSet, FixFails, FixDies
  <2>3. QED BY <2>1, <2>2
<1>5. ASSUME NEW n \in Node, NEW e \in Up, LookupJoinStart(n, e) PROVE LookupFits'
  BY <1>5 DEF LookupJoinStart, JoinStart, Begin
<1>6. ASSUME NEW n \in Crashers, Crash(n), UNCHANGED lookupVars PROVE LookupFits'
  BY <1>6 DEF Crash, lookupVars
<1>7. CASE UNCHANGED allVars
  BY <1>7 DEF allVars, vars, lookupVars
<1>8. QED BY <1>1, <1>2, <1>3, <1>4, <1>5, <1>6, <1>7 DEF LookupNext, Thread

LEMMA LookupFitsCorrect == LookupSpec => [](PcFitsStatus /\ LookupFits)
<1>1. LookupInit => PcFitsStatus /\ LookupFits
  BY InitRingInv DEF LookupInit, RingInv, LookupFits, Looking, Idle
<1>2. LookupTypeOK /\ PcFitsStatus /\ LookupFits /\ [LookupNext]_allVars
        => PcFitsStatus' /\ LookupFits'
  BY LookupPcNext, LookupFitsNext
<1>3. QED BY <1>1, <1>2, LookupTypeCorrect, PTL DEF LookupSpec

\* Only a hop leads back to the test.
LEMMA TestFromHop ==
  ASSUME LookupTypeOK, LookupFits, [LookupNext]_allVars, NEW t \in Node,
         Looking(t, "hop"), lookup'[t].pc = "test"
  PROVE  LookupHop(t)
<1> USE DEF Looking, LookupTypeOK
<1>1. ASSUME NEW n \in Node, Find(n) PROVE LookupHop(t)
  BY <1>1 DEF Find, LookupTest, LookupHop, Begin
<1>2. ASSUME NEW n \in Node, LookupJoin(n) PROVE FALSE
  BY <1>2
  DEF LookupJoin, LookupJoinFind, LookupJoinTable, LookupJoinOn, LookupJoinFails, End, Idle,
      lookupVars
<1>3. ASSUME NEW n \in Node, StabilizeRound(n) PROVE FALSE
  BY <1>3 DEF StabilizeRound, Begin
<1>4. ASSUME NEW n \in Node, Fix(n) PROVE FALSE
  <2>1. CASE FixFound(n)
    BY <2>1 DEF FixFound
  <2>2. CASE End(n)
    BY <2>2 DEF End, Idle
  <2>3. QED BY <1>4, <2>1, <2>2 DEF Fix, FixSet, FixFails, FixDies
<1>5. ASSUME NEW n \in Node, NEW e \in Up, LookupJoinStart(n, e) PROVE FALSE
  BY <1>5 DEF LookupJoinStart, JoinStart, Begin, LookupFits
<1>6. CASE UNCHANGED lookup
  BY <1>6
<1>7. QED
  BY <1>1, <1>2, <1>3, <1>4, <1>5, <1>6 DEF LookupNext, Thread, allVars, lookupVars

\* No hop of a lookup leads away from the identifier it looks for, whatever the
\* fingers are and whoever crashes: the case in which withinInterval takes the
\* interval of a hop for the whole circle never comes about.
THEOREM HopsGetCloser == LookupSpec => HopsCloser
<1>1. LookupTypeOK /\ HopsApart /\ LookupFits /\ [LookupNext]_allVars =>
        [\A t \in Node :
           Looking(t, "hop") /\ lookup'[t].pc = "test"
             => LET m == lookup[t].at  next == lookup'[t].at  id == lookup[t].id IN
                next = m \/ Between(m, next, id)]_allVars
  <2> SUFFICES ASSUME LookupTypeOK, HopsApart, LookupFits, [LookupNext]_allVars,
                      NEW t \in Node, Looking(t, "hop"), lookup'[t].pc = "test"
               PROVE  lookup'[t].at = lookup[t].at
                      \/ Between(lookup[t].at, lookup'[t].at, lookup[t].id)
    OBVIOUS
  <2> DEFINE m == lookup[t].at
             id == lookup[t].id
             next == closestPrecedingFinger(m, id)
  <2>1. Begin(t, next, id)
    BY TestFromHop DEF LookupHop
  <2>2. /\ m \in Node /\ id \in Id
        /\ id # plus1(m) /\ id # plus1(plus1(m))
    BY DEF HopsApart, LookupTypeOK
  <2>3. next \in Node /\ (next = m \/ closer(m, id, next))
    BY <2>2, HopType
  <2> HIDE DEF next
  <2>4. lookup'[t].at = next
    BY <2>1 DEF Begin, LookupTypeOK
  <2> HIDE DEF m, id
  <2>5. m \in Id /\ next \in Id
    BY <2>2, <2>3, NodeAssumption
  <2>6. next = m \/ Between(m, next, id)
    BY <2>2, <2>3, <2>5, CloserIsBetweenApart
  <2>7. QED BY <2>4, <2>6 DEF m, id
<1>2. QED
  BY <1>1, LookupTypeCorrect, HopsApartCorrect, LookupFitsCorrect, PTL
  DEF LookupSpec, HopsCloser
-----------------------------------------------------------------------------
(* What crashes do, now that lookups choose the nodes. *)

\* The steps of ChordLookup that are not steps of ChordRing.
LEMMA LookupStep ==
  ASSUME [LookupNext]_allVars
  PROVE  \/ [Next]_vars
         \/ \E n \in Node : \/ LookupJoinFind(n) \/ LookupJoinTable(n)
                            \/ LookupJoinFails(n) \/ FixDies(n)
<1>1. ASSUME NEW n \in Node, Find(n) PROVE [Next]_vars
  BY <1>1 DEF Find, LookupTest, LookupHop
<1>2. ASSUME NEW n \in Node, LookupJoin(n), ~LookupJoinFind(n), ~LookupJoinTable(n),
             ~LookupJoinFails(n)
      PROVE  [Next]_vars
  BY <1>2 DEF LookupJoin, LookupJoinOn, Next, Join
<1>3. ASSUME NEW n \in Node, StabilizeRound(n) PROVE [Next]_vars
  BY <1>3 DEF StabilizeRound, Next, Stabilize
<1>4. ASSUME NEW n \in Node, Fix(n), ~FixDies(n) PROVE [Next]_vars
  BY <1>4 DEF Fix, FixFound, FixSet, FixFails
<1>5. ASSUME NEW n \in Node, NEW e \in Up, LookupJoinStart(n, e) PROVE [Next]_vars
  BY <1>5 DEF LookupJoinStart, Next
<1>6. ASSUME NEW n \in Crashers, Crash(n) PROVE [Next]_vars
  BY <1>6 DEF Next
<1>7. CASE UNCHANGED allVars
  BY <1>7 DEF allVars
<1>8. QED BY <1>1, <1>2, <1>3, <1>4, <1>5, <1>6, <1>7 DEF LookupNext, Thread

LEMMA LookupStartedGrows ==
  ASSUME LookupTypeOK, PcFitsStatus, [LookupNext]_allVars
  PROVE  Started \subseteq Started'
<1> USE DEF LookupTypeOK
<1>1. CASE [Next]_vars
  BY <1>1, StartedGrows
<1>2. ASSUME NEW n \in Node,
             LookupJoinFind(n) \/ LookupJoinTable(n) \/ LookupJoinFails(n) \/ FixDies(n)
      PROVE  Started \subseteq Started'
  BY <1>2
  DEF LookupJoinFind, LookupJoinTable, LookupJoinFails, FixDies, Exit, Started, TypeOK
<1>3. QED BY <1>1, <1>2, LookupStep

\* A lookup that ends in a NullPointerException has met a node without a successor.
LEMMA NullMetIsSuccessor ==
  ASSUME FingersKnown, NEW l, l.at \in Node, NullMet(l)
  PROVE  successor[l.at] = Null
<1>1. CASE successor[l.at] = Null
  BY <1>1
<1>2. ASSUME NEW i \in 0 .. NUM_FINGERS - 1, fingerAt(l.at, i) = Null
      PROVE  successor[l.at] = Null
  <2>1. CASE i = 0
    BY <1>2, <2>1 DEF fingerAt
  <2>2. CASE i # 0
    <3>1. i \in FingerIndex
      BY <2>2, IdsAssumption DEF FingerIndex
    <3>2. finger[l.at][i] \in Node
      BY <3>1 DEF FingersKnown, Started
    <3>3. QED BY <1>2, <2>2, <3>2, NullIsNoNode DEF fingerAt
  <2>3. QED BY <2>1, <2>2
<1>3. QED BY <1>1, <1>2 DEF NullMet

LEMMA LookupRingInvNext ==
  ASSUME LookupTypeOK, RingInv, LookupFits, FingersKnown, [LookupNext]_allVars
  PROVE  RingInv'
<1>1. TypeOK
  BY DEF LookupTypeOK
<1>2. PcFitsStatus'
  BY LookupPcNext DEF RingInv
<1>3. CASE [Next]_vars
  BY <1>1, <1>3, NextRingInv
<1> USE <1>1 DEF RingInv, TypeOK
<1>4. ASSUME NEW n \in Node, LookupJoinFind(n) PROVE RingInv'
  <2>1. /\ lookup[n].at \in Started
        /\ pc[n] # "dead"
    BY <1>4 DEF LookupJoinFind, Looking, FingersKnown, PcFitsStatus, JoinPC
  <2>2. Started' = Started
    BY <1>4 DEF LookupJoinFind, Started
  <2>3. KnownStarted'
    BY <1>4, <2>1, <2>2 DEF LookupJoinFind, KnownStarted, pointers
  <2>4. NullIsDead' /\ DeadOfNullSuccessor' /\ AdoptCloser'
    BY <1>4, <2>1 DEF LookupJoinFind, NullIsDead, DeadOfNullSuccessor, AdoptCloser, pointers
  <2>5. QED BY <1>2, <2>3, <2>4
<1>5. ASSUME NEW n \in Node, LookupJoinFails(n) PROVE RingInv'
  <2>1. pc[n] # "dead"
    BY <1>5 DEF LookupJoinFails, PcFitsStatus, JoinPC
  <2>2. Started' = Started
    BY <1>5 DEF LookupJoinFails, Exit, Started
  <2>3. KnownStarted'
    BY <1>5, <2>2 DEF LookupJoinFails, Exit, KnownStarted, EmptyList
  <2>4. NullIsDead' /\ DeadOfNullSuccessor' /\ AdoptCloser'
    BY <1>5, <2>1, NullIsNoNode
    DEF LookupJoinFails, Exit, NullIsDead, DeadOfNullSuccessor, AdoptCloser
  <2>5. QED BY <1>2, <2>3, <2>4
<1>6. ASSUME NEW n \in Node, FixDies(n) PROVE RingInv'
  <2>1. Started' = Started
    BY <1>6 DEF FixDies, Started
  <2>2. KnownStarted'
    BY <1>6, <2>1 DEF FixDies, KnownStarted, pointers, locals
  <2>3. \E m \in Node : successor[m] = Null
    <3>1. lookup[n].at \in Node
      BY <1>6 DEF FixDies, NoAnswer, Contactable
    <3>2. QED BY <1>6, <3>1, NullMetIsSuccessor DEF FixDies
  <2>4. NullIsDead' /\ DeadOfNullSuccessor' /\ AdoptCloser'
    BY <1>6, <2>3 DEF FixDies, NullIsDead, DeadOfNullSuccessor, AdoptCloser, pointers, locals
  <2>5. QED BY <1>2, <2>2, <2>4
<1>7. ASSUME NEW n \in Node, LookupJoinTable(n) PROVE RingInv'
  <2>1. /\ successor[n] \in Started /\ successor[successor[n]] \in Started
        /\ pc[n] # "dead"
    BY <1>7, NullIsNoNode DEF LookupJoinTable, KnownStarted, Contactable, Started
  <2>2. Started' = Started
    BY <1>7 DEF LookupJoinTable, Started
  <2>3. KnownStarted'
    BY <1>7, <2>1, <2>2 DEF LookupJoinTable, KnownStarted, pointers
  <2>4. NullIsDead' /\ DeadOfNullSuccessor' /\ AdoptCloser'
    BY <1>7, <2>1
    DEF LookupJoinTable, NullIsDead, DeadOfNullSuccessor, AdoptCloser, pointers
  <2>5. QED BY <1>2, <2>3, <2>4
<1>8. QED BY <1>3, <1>4, <1>5, <1>6, <1>7, LookupStep

LEMMA FingersKnownNext ==
  ASSUME LookupTypeOK, RingInv, LookupFits, FingersKnown, [LookupNext]_allVars
  PROVE  FingersKnown'
<1>1. Started \subseteq Started'
  BY LookupStartedGrows DEF RingInv
<1>2. \A m \in Started : Contactable(successor[m]) => successor[m] \in Started
  BY NullIsNoNode DEF RingInv, KnownStarted, Contactable, Started
<1> USE DEF FingersKnown, Looking, LookupTypeOK
<1>3. CASE UNCHANGED <<finger, lookup>>
  BY <1>1, <1>3
<1>4. ASSUME NEW n \in Node, finger' = finger, End(n) PROVE FingersKnown'
  BY <1>1, <1>4 DEF End, Idle
<1>5. ASSUME NEW n \in Node, NEW m \in Started, NEW id, finger' = finger, Begin(n, m, id)
      PROVE  FingersKnown'
  BY <1>1, <1>5 DEF Begin
<1>6. ASSUME NEW n \in Node, finger' = finger, ~Looking(n, "idle"),
             NEW c, lookup' = [lookup EXCEPT ![n].pc = c]
      PROVE  FingersKnown'
  BY <1>1, <1>6
<1>7. ASSUME NEW t \in Node, Find(t) PROVE FingersKnown'
  <2>1. CASE LookupTest(t)
    BY <1>6, <2>1 DEF LookupTest
  <2>2. CASE LookupHop(t)
    <3> DEFINE m == lookup[t].at
               id == lookup[t].id
               next == closestPrecedingFinger(m, id)
    <3>1. m \in Started /\ m \in Node /\ id \in Id
      BY <2>2 DEF LookupHop, NoAnswer, Contactable
    <3>2. next \in Node /\ next \in {m, successor[m]} \cup {finger[m][i] : i \in FingerIndex}
      BY <3>1, HopType
    <3>3. next \in Started
      BY <3>1, <3>2, NullIsNoNode DEF RingInv, KnownStarted
    <3>4. Begin(t, next, id) /\ finger' = finger
      BY <2>2 DEF LookupHop
    <3> HIDE DEF next, id
    <3>5. QED BY <1>5, <3>3, <3>4
  <2>3. QED BY <1>7, <2>1, <2>2 DEF Find
<1>8. ASSUME NEW n \in Node, LookupJoin(n) PROVE FingersKnown'
  BY <1>3, <1>4, <1>8
  DEF LookupJoin, LookupJoinFind, LookupJoinTable, LookupJoinOn, LookupJoinFails, lookupVars
<1>9. ASSUME NEW n \in Node, StabilizeRound(n) PROVE FingersKnown'
  <2>1. n \in Started
    <3>1. pc[n] \in StabilizePC
      BY <1>9, StabilizePc DEF StabilizeRound, Stabilize
    <3>2. QED BY <3>1, StabilizingIsStarted DEF RingInv
  <2>2. PICK id : finger' = finger /\ (Begin(n, n, id) \/ lookup' = lookup)
    BY <1>9 DEF StabilizeRound
  <2>3. QED BY <1>3, <1>5, <2>1, <2>2
<1>10. ASSUME NEW n \in Node, Fix(n) PROVE FingersKnown'
  <2>1. CASE FixFound(n)
    BY <1>6, <2>1 DEF FixFound
  <2>2. CASE FixSet(n)
    <3> DEFINE s == successor[lookup[n].at]
    <3>1. s \in Started
      BY <1>2, <2>2 DEF FixSet
    <3>2. finger' = [finger EXCEPT ![n][fingerIndexToUpdate[n]] = s] /\ End(n)
      BY <2>2 DEF FixSet
    <3> HIDE DEF s
    <3>3. QED BY <1>1, <3>1, <3>2 DEF End, Idle
  <2>3. QED BY <1>4, <1>10, <2>1, <2>2 DEF Fix, FixFails, FixDies
<1>11. ASSUME NEW n \in Node, NEW e \in Up, LookupJoinStart(n, e) PROVE FingersKnown'
  <2>1. e \in Started
    BY DEF Up, Started
  <2>2. QED BY <1>5, <1>11, <2>1 DEF LookupJoinStart
<1>12. CASE UNCHANGED lookupVars
  BY <1>3, <1>12 DEF lookupVars
<1>13. QED
  BY <1>7, <1>8, <1>9, <1>10, <1>11, <1>12 DEF LookupNext, Thread, allVars

LEMMA LookupInvCorrect == LookupSpec => [](RingInv /\ FingersKnown)
<1>1. LookupInit => RingInv /\ FingersKnown
  BY InitRingInv DEF LookupInit, FingersKnown, Looking, Idle
<1>2. /\ LookupTypeOK /\ LookupFits /\ RingInv /\ FingersKnown /\ [LookupNext]_allVars
      => RingInv' /\ FingersKnown'
  BY LookupRingInvNext, FingersKnownNext
<1>3. QED BY <1>1, <1>2, LookupTypeCorrect, LookupFitsCorrect, PTL DEF LookupSpec

\* Joins that give up leave no trace, neither in pointers, with the nodes that lookups
\* really find as with those that ChordRing allows, nor in fingers and lookups.
THEOREM LookupsLeaveNoTrace == LookupSpec => [](OnlyStartedKnown /\ FingersKnown)
<1>1. RingInv => OnlyStartedKnown
  <2> SUFFICES ASSUME KnownStarted, NEW n \in Started
               PROVE  {successor[n], predecessor[n], x[n], stub[n], successorList[n][0],
                       successorList[n][1]} \subseteq Started \cup {Null}
    BY DEF RingInv, OnlyStartedKnown
  <2>1. QED BY DEF KnownStarted, Started
<1>2. QED BY <1>1, LookupInvCorrect, PTL

\* fixFingers adds no other way to die than by a node whose successor has become
\* null and whose own stabilizer is dead: no finger is ever null.
THEOREM LookupDeathNeedsNull == LookupSpec => []DeadOfNullSuccessor
BY LookupInvCorrect, PTL DEF RingInv
-----------------------------------------------------------------------------
(* While no node crashes, lookups find what ChordRing allows. *)

LEMMA PathStarts == ASSUME NEW n \in Node PROVE n \in Path(n)
BY DEF Path

LEMMA PathGoesOn ==
  ASSUME NEW n \in Node, NEW m \in Path(n), NEW s \in Node, successor[m] = s
  PROVE  s \in Path(n)
BY NullIsNoNode DEF Path, Closed

LEMMA PathContinues ==
  ASSUME NEW n \in Node, NEW m \in Path(n), NEW k \in Path(m)
  PROVE  k \in Path(n)
BY DEF Path

\* A node that has joined is led to whatever it was led to before: the paths of the
\* others only get longer, by nodes in between.
LEMMA PathGrows ==
  ASSUME TypeOK, RingInv, CalmInv, LeadsInv, Crashers = {}, [Next]_vars, NEW n \in Started
  PROVE  Path(n) \subseteq Path(n)'
<1> SUFFICES ASSUME NEW m \in Path(n), NEW S \in SUBSET Node, n \in S, Closed(S)'
             PROVE  m \in S
  BY DEF Path
<1>1. \A k \in S : successor'[k] \in S
  BY CalmStepIsCloser DEF Closed
<1>2. Started \subseteq Node /\ \A k \in Started : successor[k] \in Started
  BY NodesAreIds DEF RingInv, KnownStarted, CalmInv
<1>3. \A k \in S \cap Started : successor[k] \in S
  <2>1. ASSUME NEW j \in Node, Join(j) PROVE \A k \in S \cap Started : successor[k] \in S
    BY <1>1, <1>2, <2>1, JoinStep
  <2>2. CASE UNCHANGED successor
    BY <1>1, <2>2
  <2>3. ASSUME NEW j \in Node, Stabilize(j)
        PROVE  \A k \in S \cap Started : successor[k] \in S
    <3>1. CASE StabilizeAdopt(j)
      BY <1>1, <3>1, AdoptKeepsOneRing
    <3>2. QED
      BY <2>2, <2>3, <3>1, CalmStabilize
      DEF StabilizeRead, StabilizeTell, NotifyCheck, NotifySet, NotifyNobody, pointers
  <2>4. ASSUME NEW j \in Node, NEW e \in Up, JoinStart(j, e)
        PROVE  \A k \in S \cap Started : successor[k] \in S
    BY <2>2, <2>4 DEF JoinStart, pointers
  <2>5. QED BY <2>1, <2>2, <2>3, <2>4 DEF Next, vars, pointers
<1>4. S \cap Started \in SUBSET Node /\ n \in S \cap Started /\ Closed(S \cap Started)
  BY <1>2, <1>3 DEF Closed
<1>5. QED BY <1>4 DEF Path

\* All that holds of a lookup while no node crashes.
LookupCalm == /\ LookupTypeOK /\ RingInv /\ CalmInv /\ LeadsInv
              /\ LookupFits /\ FingersKnown /\ OnPath

\* A lookup that is under way is answered.
LEMMA Answered ==
  ASSUME LookupCalm, NEW n \in Node, ~Looking(n, "idle")
  PROVE  ~NoAnswer(n) /\ ~NullMet(lookup[n])
<1>1. Started = Up /\ Host(n) \in Started /\ lookup[n].at \in Started
  BY NodesAreIds DEF LookupCalm, LookupTypeOK, OnPath, FingersKnown
<1>2. ~NoAnswer(n)
  BY <1>1 DEF NoAnswer, Contactable, Up
<1>3. lookup[n].at \in Node /\ successor[lookup[n].at] # Null
  BY <1>1 DEF LookupCalm, CalmInv, Up
<1>4. QED BY <1>2, <1>3, NullMetIsSuccessor DEF LookupCalm

LEMMA LookupIsRingStep ==
  ASSUME LookupCalm, [LookupNext]_allVars
  PROVE  [Next]_vars
<1> USE DEF LookupCalm
<1>1. ASSUME NEW n \in Node, LookupJoinFind(n) PROVE JoinFind(n)
  <2>1. status[n] = "joining" /\ ~Looking(n, "idle")
    BY <1>1 DEF LookupJoinFind, Looking
  <2>2. pc[n] = "find" /\ Contactable(n) /\ Host(n) = entry[n]
    BY <2>1 DEF LookupFits, Contactable, Host
  <2> DEFINE p == lookup[n].at
  <2>3. p \in Path(entry[n]) /\ Contactable(p) /\ Contactable(entry[n])
    BY <1>1, <2>1, <2>2 DEF OnPath, LookupJoinFind, NoAnswer
  <2>4. successor[p] # Null /\ covers(p, successor[p], n)
    <3>1. lookup[n].id = n
      BY <2>1 DEF OnPath
    <3>2. QED BY <1>1, <3>1 DEF LookupJoinFind, Responsible
  <2> HIDE DEF p
  <2>5. QED BY <1>1, <2>2, <2>3, <2>4 DEF LookupJoinFind, JoinFind, p
<1>2. ASSUME NEW n \in Node, LookupJoinTable(n) PROVE JoinTable(n)
  <2> DEFINE s == successor[n]
  <2>1. s \in Node /\ successor[s] \in Node
    BY <1>2, NodesAreIds DEF LookupJoinTable, Contactable, LookupTypeOK
  <2>2. fingerTable(s) \subseteq Path(s)
    <3>1. \A i \in FingerIndex : finger[s][i] \in Path(s)
      BY <2>1, PathStarts DEF OnPath
    <3>2. successor[s] \in Path(s)
      BY <2>1, PathStarts, PathGoesOn
    <3>3. QED BY <3>1, <3>2 DEF fingerTable
  <2>3. fingerTable(s) = fingerTable(s) \cup {successor[s]}
    BY DEF fingerTable
  <2> DEFINE T == fingerTable(s)
  <2>4. /\ T \in SUBSET Fingers(s)
        /\ want' = [want EXCEPT ![n] = (T \cup {successor[s], entry[n]}) \ {s}]
    BY <1>2, <2>2, <2>3 DEF Fingers, LookupJoinTable
  <2> HIDE DEF T
  <2>5. QED BY <1>2, <2>4 DEF LookupJoinTable, JoinTable, lookupVars
<1>3. ASSUME NEW n \in Node PROVE ~LookupJoinFails(n) /\ ~FixDies(n)
  BY Answered DEF LookupJoinFails, FixDies
<1>4. QED BY <1>1, <1>2, <1>3, LookupStep DEF Next, Join

LEMMA FingerOnPath ==
  ASSUME OnPath, NEW m \in Node, NEW i \in FingerIndex
  PROVE  IF m \in Started THEN finger[m][i] \in Path(m) ELSE finger[m][i] = m
<1>1. finger[m][i] \in IF m \in Started THEN Path(m) ELSE {m}
  BY DEF OnPath
<1>2. QED BY <1>1

\* What OnPath says of one thread.
LookupOnPath(t) ==
  ~Looking(t, "idle") => /\ Host(t) \in Started
                         /\ lookup[t].at \in Path(Host(t))
                         /\ status[t] = "joining" => lookup[t].id = t

\* A thread that a step leaves alone.
Apart(t) == status'[t] = status[t] /\ entry'[t] = entry[t] /\ lookup'[t] = lookup[t]

LEMMA ThreadAlone ==
  ASSUME LookupCalm, NEW n \in Node,
         Thread(n) \/ \E e \in Up : LookupJoinStart(n, e)
  PROVE  \A t \in Node \ {n} : Apart(t)
<1> USE DEF LookupCalm, LookupTypeOK, TypeOK, Apart
<1>1. CASE Find(n)
  BY <1>1 DEF Find, LookupTest, LookupHop, Begin, vars, locals
<1>2. CASE LookupJoin(n)
  BY <1>2
  DEF LookupJoin, LookupJoinFind, LookupJoinTable, LookupJoinOn, LookupJoinFails, JoinReread,
      JoinWalk, JoinRefresh, JoinExit, Exit, End, lookupVars
<1>3. CASE StabilizeRound(n)
  <2>1. UNCHANGED <<status, entry>>
    BY <1>3
    DEF StabilizeRound, Round, StabilizeRead, StabilizeRecover, StabilizeAdopt, StabilizeTell,
        NotifyCheck, NotifySet, NotifyNobody, NotifyFails, locals
  <2>2. \A t \in Node \ {n} : lookup'[t] = lookup[t]
    BY <1>3 DEF StabilizeRound, Begin
  <2>3. QED BY <2>1, <2>2
<1>4. CASE Fix(n)
  BY <1>4 DEF Fix, FixFound, FixSet, FixFails, FixDies, End, vars, locals
<1>5. ASSUME NEW e \in Up, LookupJoinStart(n, e) PROVE \A t \in Node \ {n} : Apart(t)
  BY <1>5 DEF LookupJoinStart, JoinStart, Begin
<1>6. QED BY <1>1, <1>2, <1>3, <1>4, <1>5 DEF Thread

LEMMA OnPathNext ==
  ASSUME LookupCalm, Crashers = {}, [LookupNext]_allVars
  PROVE  OnPath'
<1>1. [Next]_vars
  BY LookupIsRingStep
<1> USE DEF LookupCalm, LookupTypeOK
<1>2. /\ Started \subseteq Started' /\ Started \subseteq Node
      /\ \A n \in Started : Path(n) \subseteq Path(n)'
  BY <1>1, PathGrows, StartedGrows DEF RingInv, Started
<1>3. \A n \in Node : n \in Path(n)'
  BY DEF Path
<1>4. ASSUME NEW t \in Node, Apart(t) PROVE LookupOnPath(t)'
  BY <1>2, <1>4 DEF OnPath, LookupOnPath, Looking, Host, Apart
<1>5. ASSUME NEW n \in Node, \A t \in Node \ {n} : Apart(t), LookupOnPath(n)',
             \A m \in Node, i \in FingerIndex :
               \/ finger'[m][i] = finger[m][i]
               \/ m \in Started /\ finger'[m][i] \in Path(m)
      PROVE  OnPath'
  <2>1. ASSUME NEW m \in Node, NEW i \in FingerIndex
        PROVE  finger'[m][i] \in IF m \in Started' THEN Path(m)' ELSE {m}
    <3>1. CASE m \in Started
      <4>1. finger'[m][i] \in Path(m)
        BY <1>5, <3>1, FingerOnPath
      <4>2. QED BY <1>2, <3>1, <4>1
    <3>2. CASE m \notin Started
      <4>1. finger'[m][i] = m
        BY <1>5, <3>2, FingerOnPath
      <4>2. QED BY <1>3, <4>1
    <3>3. QED BY <3>1, <3>2
  <2>2. \A t \in Node : LookupOnPath(t)'
    BY <1>4, <1>5
  <2> QED BY <2>1, <2>2 DEF OnPath, LookupOnPath
<1>6. ASSUME NEW n \in Node, End(n), UNCHANGED finger, \A t \in Node \ {n} : Apart(t)
      PROVE  OnPath'
  <2>1. LookupOnPath(n)'
    BY <1>6 DEF End, Idle, LookupOnPath, Looking
  <2>2. QED BY <1>5, <1>6, <2>1
<1>7. ASSUME NEW n \in Node, \A t \in Node \ {n} : Apart(t), UNCHANGED <<status, entry, finger>>,
             NEW m \in Path(Host(n)), lookup'[n].at = m, lookup'[n].id = lookup[n].id,
             ~Looking(n, "idle")
      PROVE  OnPath'
  <2>1. LookupOnPath(n)'
    BY <1>2, <1>7 DEF OnPath, LookupOnPath, Host, Looking
  <2>2. QED BY <1>5, <1>7, <2>1
<1>8. ASSUME NEW n \in Node, Find(n) PROVE OnPath'
  <2>1. \A t \in Node \ {n} : Apart(t)
    BY <1>8, ThreadAlone DEF Thread
  <2>2. UNCHANGED <<status, entry, finger>> /\ ~Looking(n, "idle")
    BY <1>8 DEF Find, LookupTest, LookupHop, vars, locals, Looking
  <2>3. lookup[n].at \in Path(Host(n)) /\ Host(n) \in Node
    BY <1>2, <2>2 DEF OnPath
  <2>4. CASE LookupTest(n)
    <3>1. lookup'[n].at = lookup[n].at /\ lookup'[n].id = lookup[n].id
      BY <2>4 DEF LookupTest
    <3>2. QED BY <1>7, <2>1, <2>2, <2>3, <3>1
  <2>5. CASE LookupHop(n)
    <3> DEFINE m == lookup[n].at
               next == closestPrecedingFinger(m, lookup[n].id)
    <3>1. m \in Started /\ m \in Node /\ lookup[n].id \in Id
      BY <2>2 DEF FingersKnown, Started
    <3>2. next \in Node /\ next \in {m, successor[m]} \cup {finger[m][i] : i \in FingerIndex}
      BY <3>1, HopType
    <3>3. next \in Path(Host(n))
      <4>1. CASE next = m
        BY <2>3, <4>1
      <4>2. CASE next = successor[m]
        BY <2>3, <3>2, <4>2, PathGoesOn
      <4>3. ASSUME NEW i \in FingerIndex, next = finger[m][i] PROVE next \in Path(Host(n))
        <5>1. next \in Path(m)
          BY <3>1, <4>3, FingerOnPath
        <5>2. QED BY <2>3, <5>1, PathContinues
      <4>4. QED BY <3>2, <4>1, <4>2, <4>3
    <3>4. lookup'[n].at = next /\ lookup'[n].id = lookup[n].id
      BY <2>5 DEF LookupHop, Begin
    <3> HIDE DEF next
    <3>5. QED BY <1>7, <2>1, <2>2, <3>3, <3>4
  <2>6. QED BY <1>8, <2>4, <2>5 DEF Find
<1>9. ASSUME NEW n \in Node, LookupJoin(n) PROVE OnPath'
  <2>1. \A t \in Node \ {n} : Apart(t)
    BY <1>9, ThreadAlone DEF Thread
  <2>2. CASE LookupJoinFind(n) \/ LookupJoinFails(n)
    BY <1>6, <2>1, <2>2 DEF LookupJoinFind, LookupJoinFails
  <2>3. CASE LookupJoinTable(n) \/ LookupJoinOn(n)
    <3>1. UNCHANGED <<lookup, finger>>
      BY <2>3 DEF LookupJoinTable, LookupJoinOn, lookupVars
    <3>2. pc[n] # "find" /\ status[n] \in {"joining", "up"} /\ pc[n] \in JoinPC
      BY <2>3
      DEF LookupJoinTable, LookupJoinOn, JoinReread, JoinWalk, JoinRefresh, JoinExit, JoinFails,
          Contactable, JoinPC
    <3>3. Looking(n, "idle")
      BY <3>2 DEF LookupFits, RingInv, PcFitsStatus, JoinPC, StabilizePC
    <3>4. LookupOnPath(n)'
      BY <3>1, <3>3 DEF LookupOnPath, Looking
    <3>5. QED BY <1>5, <2>1, <3>1, <3>4
  <2>4. QED BY <1>9, <2>2, <2>3 DEF LookupJoin
<1>10. ASSUME NEW n \in Node, StabilizeRound(n) PROVE OnPath'
  <2>1. \A t \in Node \ {n} : Apart(t)
    BY <1>10, ThreadAlone DEF Thread
  <2>2. finger' = finger /\ status' = status
    BY <1>10
    DEF StabilizeRound, Round, StabilizeRead, StabilizeRecover, StabilizeAdopt, StabilizeTell,
        NotifyCheck, NotifySet, NotifyNobody, NotifyFails
  <2>3. n \in Started /\ status[n] # "joining"
    <3>1. pc[n] \in StabilizePC
      BY <1>10, StabilizePc DEF StabilizeRound, Stabilize
    <3>2. QED BY <3>1, StabilizingIsStarted DEF RingInv, Started
  <2>4. CASE UNCHANGED lookup
    <3>1. LookupOnPath(n)'
      BY <1>10, <2>4 DEF LookupOnPath, Looking, StabilizeRound
    <3>2. QED BY <1>5, <2>1, <2>2, <3>1
  <2>5. ASSUME NEW id, Begin(n, n, id) PROVE OnPath'
    <3>1. LookupOnPath(n)'
      BY <1>2, <1>3, <2>2, <2>3, <2>5 DEF LookupOnPath, Begin, Host
    <3>2. QED BY <1>5, <2>1, <2>2, <3>1
  <2>6. QED BY <1>10, <2>4, <2>5 DEF StabilizeRound
<1>11. ASSUME NEW n \in Node, Fix(n) PROVE OnPath'
  <2>1. \A t \in Node \ {n} : Apart(t)
    BY <1>11, ThreadAlone DEF Thread
  <2>2. CASE FixFound(n)
    <3>1. /\ UNCHANGED <<status, entry, finger>> /\ ~Looking(n, "idle")
          /\ lookup'[n].at = lookup[n].at /\ lookup'[n].id = lookup[n].id
      BY <2>2 DEF FixFound, vars, locals, Looking
    <3>2. lookup[n].at \in Path(Host(n))
      BY <3>1 DEF OnPath
    <3>3. QED BY <1>7, <2>1, <3>1, <3>2
  <2>3. CASE FixSet(n)
    <3> DEFINE p == lookup[n].at
               s == successor[p]
    <3>1. /\ ~Looking(n, "idle") /\ Host(n) = n /\ s \in Node /\ n \in Started
      BY <2>3 DEF FixSet, Looking, Host, Contactable, Started
    <3>2. p \in Path(n)
      BY <3>1 DEF OnPath
    <3> HIDE DEF p
    <3>3. s \in Path(n)
      BY <3>1, <3>2, PathGoesOn
    <3>4. finger' = [finger EXCEPT ![n][fingerIndexToUpdate[n]] = s] /\ End(n)
      BY <2>3 DEF FixSet, p
    <3> HIDE DEF s
    <3>5. \A m \in Node, i \in FingerIndex :
            \/ finger'[m][i] = finger[m][i]
            \/ m \in Started /\ finger'[m][i] \in Path(m)
      BY <3>1, <3>3, <3>4
    <3>6. LookupOnPath(n)'
      BY <3>4 DEF End, Idle, LookupOnPath, Looking
    <3>7. QED BY <1>5, <2>1, <3>5, <3>6
  <2>4. CASE FixFails(n) \/ FixDies(n)
    BY <1>6, <2>1, <2>4 DEF FixFails, FixDies
  <2>5. QED BY <1>11, <2>2, <2>3, <2>4 DEF Fix
<1>12. ASSUME NEW n \in Node, NEW e \in Up, LookupJoinStart(n, e) PROVE OnPath'
  <2>1. \A t \in Node \ {n} : Apart(t)
    BY <1>12, ThreadAlone
  <2>2. /\ finger' = finger /\ e \in Started /\ status'[n] = "joining" /\ entry'[n] = e
        /\ lookup'[n].at = e /\ lookup'[n].id = n
    BY <1>12 DEF LookupJoinStart, JoinStart, Begin, TypeOK, Up, Started
  <2>3. LookupOnPath(n)'
    BY <1>2, <1>3, <2>2 DEF LookupOnPath, Host
  <2>4. QED BY <1>5, <2>1, <2>2, <2>3
<1>13. CASE UNCHANGED allVars
  <2>1. \A t \in Node : LookupOnPath(t)'
    BY <1>4, <1>13 DEF Apart, allVars, vars, locals, lookupVars
  <2>2. QED BY <1>2, <1>13, <2>1 DEF OnPath, LookupOnPath, allVars, lookupVars, vars, Started
<1>14. QED
  BY <1>8, <1>9, <1>10, <1>11, <1>12, <1>13 DEF LookupNext, Thread

LEMMA LookupCalmCorrect ==
  ASSUME Crashers = {}
  PROVE  LookupSpec => []LookupCalm
<1>1. LookupInit => CalmInv /\ LeadsInv /\ OnPath
  <2> SUFFICES ASSUME LookupInit PROVE CalmInv /\ LeadsInv /\ OnPath
    OBVIOUS
  <2>1. CalmInv /\ LeadsInv
    BY InitCalm, InitOneRing DEF LookupInit
  <2>2. OnPath
    BY PathStarts DEF LookupInit, OnPath, Looking, Idle
  <2>3. QED BY <2>1, <2>2
<1>2. LookupCalm /\ [LookupNext]_allVars => CalmInv' /\ LeadsInv' /\ OnPath'
  <2> SUFFICES ASSUME LookupCalm, [LookupNext]_allVars PROVE CalmInv' /\ LeadsInv' /\ OnPath'
    OBVIOUS
  <2>1. [Next]_vars
    BY LookupIsRingStep
  <2>2. CalmInv'
    BY <2>1, CalmStep DEF LookupCalm, LookupTypeOK
  <2>3. LeadsInv'
    BY <2>1, LeadsInvNext DEF LookupCalm, LookupTypeOK
  <2>4. QED BY <2>2, <2>3, OnPathNext
<1>3. QED
  BY <1>1, <1>2, LookupTypeCorrect, LookupInvCorrect, LookupFitsCorrect, PTL
  DEF LookupSpec, LookupCalm

\* While no node crashes, what lookups find by their fingers is what ChordRing takes
\* them to find: the node that a join is told lies on the successor path of its entry
\* node, and the nodes it has to meet on that of its successor, however the ring is
\* rewired while the lookup is under way.  No lookup fails, and none kills a thread.
THEOREM LookupsFollowRing ==
  ASSUME Crashers = {}
  PROVE  LookupSpec => ImplementsRing
<1>1. LookupCalm /\ [LookupNext]_allVars => [Next]_vars
  BY LookupIsRingStep
<1>2. QED BY <1>1, LookupCalmCorrect, PTL DEF LookupSpec, ImplementsRing

\* So the ring with its lookups and fingers is one, and a sorted circle.
THEOREM LookupRingIsSorted ==
  ASSUME Crashers = {}
  PROVE  LookupSpec => []OneRing /\ ImplementsSortedRing
<1>1. LookupInit => Init
  BY DEF LookupInit
<1>2. LookupSpec => Spec
  BY <1>1, LookupsFollowRing, PTL DEF LookupSpec, Spec, ImplementsRing
<1>3. QED BY <1>2, RingIsOne, RingIsSorted, PTL
=============================================================================
