--------------------------- MODULE RingShapeProofs ---------------------------
(***************************************************************************)
(* The shape of the ring for any set of nodes, as long as none crashes: it *)
(* is one, and it is a sorted circle that nodes enter and never leave.     *)
(***************************************************************************)
EXTENDS RingShape, ChordRingProofs

\* A way from n's candidate x to its successor t stays clear of n, and within any
\* arc from p to s on which n takes a step to t.
LEMMA DetourWithin ==
  ASSUME NEW p \in Id, NEW s \in Id, NEW n \in Id, NEW t \in Id, NEW y \in Id,
         NEW k \in Id, NEW u \in Id,
         p # s, n = p \/ Between(p, n, s), OnWay(n, t, s), Between(n, y, t),
         k = y \/ Between(y, k, t), OnWay(k, u, t)
  PROVE  k # n /\ Between(p, k, s) /\ OnWay(k, u, s)
BY IntAssumption DEF Id, INT_MIN, Between, OnWay

LEMMA DetourStarts ==
  ASSUME NEW s \in Id, NEW n \in Id, NEW t \in Id, NEW y \in Id,
         OnWay(n, t, s), Between(n, y, t)
  PROVE  OnWay(n, y, s)
BY IntAssumption DEF Id, INT_MIN, Between, OnWay

LEMMA NodesAreIds ==
  ASSUME TypeOK, CalmInv
  PROVE  /\ Node \subseteq Id /\ Null \notin Node
         /\ \A k \in Node : successor[k] \in Node
         /\ Started \subseteq Node /\ Started = Up
BY NodeAssumption DEF TypeOK, CalmInv, NodeOrNull, Started, Up
-----------------------------------------------------------------------------
(* Ways along successor pointers outlive every step. *)

\* A node that joins lies on no way between others.
LEMMA JoinKeepsLeads ==
  ASSUME TypeOK, RingInv, CalmInv, NEW n \in Node \ Started,
         \A m \in Node \ {n} : successor'[m] = successor[m],
         NEW p \in Started, NEW s \in Node, Leads(successor, p, s)
  PROVE  Leads(successor', p, s)
<1> SUFFICES ASSUME NEW S \in SUBSET Node, p \in S,
                    \A k \in S : (k = p \/ Between(p, k, s)) /\ OnWay(k, successor'[k], s)
                                   => successor'[k] \in S
             PROVE  s \in S
  BY DEF Leads
<1> DEFINE R == S \ {n}
<1>1. \A k \in R : successor[k] # n
  BY DEF RingInv, KnownStarted, CalmInv
<1>2. p \in R /\ R \in SUBSET Node
  OBVIOUS
<1>3. \A k \in R : (k = p \/ Between(p, k, s)) /\ OnWay(k, successor[k], s)
                     => successor[k] \in R
  BY <1>1
<1>4. s \in R
  <2> HIDE DEF R
  <2> QED BY <1>2, <1>3 DEF Leads
<1>5. QED BY <1>4

\* A node that adopts another one takes a detour.
LEMMA AdoptKeepsLeads ==
  ASSUME TypeOK, RingInv, CalmInv, LeadsInv, NEW n \in Node, StabilizeAdopt(n),
         NEW p \in Started, NEW s \in Node, Leads(successor, p, s)
  PROVE  Leads(successor', p, s)
<1> DEFINE t == successor[n]
           y == x[n]
<1> SUFFICES ASSUME NEW S \in SUBSET Node, p \in S, s \notin S,
                    \A k \in S : (k = p \/ Between(p, k, s)) /\ OnWay(k, successor'[k], s)
                                   => successor'[k] \in S
             PROVE  FALSE
  BY DEF Leads
<1>1. /\ Node \subseteq Id /\ p \in Node /\ s \in Node /\ p # s
      /\ \A k \in Node : successor[k] \in Node
  BY NodesAreIds
<1>2. /\ successor'[n] = y /\ \A k \in Node \ {n} : successor'[k] = successor[k]
      /\ y \in Node /\ t \in Node /\ Between(n, y, t) /\ Leads(successor, y, t)
  BY <1>1 DEF StabilizeAdopt, TypeOK, RingInv, AdoptCloser, LeadsInv, NodeOrNull
<1> HIDE DEF y, t
<1>3. PICK k \in S : /\ k = p \/ Between(p, k, s)
                     /\ OnWay(k, successor[k], s) /\ successor[k] \notin S
  BY DEF Leads
<1>4. k = n
  BY <1>2, <1>3
<1>5. t \notin S /\ OnWay(n, t, s) /\ (n = p \/ Between(p, n, s)) /\ n \in S
  BY <1>3, <1>4 DEF t
<1>6. OnWay(n, y, s)
  BY <1>1, <1>2, <1>5, DetourStarts
<1>7. y \in S
  BY <1>2, <1>5, <1>6
<1>8. \A j \in S : (j = y \/ Between(y, j, t)) /\ OnWay(j, successor[j], t)
                     => successor[j] \in S
  <2> SUFFICES ASSUME NEW j \in S, j = y \/ Between(y, j, t), OnWay(j, successor[j], t)
               PROVE  successor[j] \in S
    OBVIOUS
  <2>1. j # n /\ Between(p, j, s) /\ OnWay(j, successor[j], s)
    <3> DEFINE u == successor[j]
    <3>1. /\ j \in Id /\ u \in Id /\ n \in Id /\ t \in Id /\ y \in Id /\ p \in Id /\ s \in Id
          /\ p # s /\ OnWay(j, u, t) /\ Between(n, y, t)
      BY <1>1, <1>2
    <3> HIDE DEF u
    <3>2. j # n /\ Between(p, j, s) /\ OnWay(j, u, s)
      BY <1>5, <3>1, DetourWithin
    <3>3. QED BY <3>2 DEF u
  <2>2. QED BY <1>2, <2>1
<1>9. t \in S
  BY <1>2, <1>7, <1>8 DEF Leads
<1>10. QED BY <1>5, <1>9

\* What a step of a node that joins leaves alone.
LEMMA JoinStep ==
  ASSUME TypeOK, RingInv, CalmInv, NEW n \in Node, Join(n)
  PROVE  /\ n \notin Started
         /\ \A m \in Node \ {n} : /\ successor'[m] = successor[m]
                                  /\ pc'[m] = pc[m] /\ stub'[m] = stub[m] /\ x'[m] = x[m]
                                  /\ predecessor'[m] = predecessor[m]
         /\ pc'[n] \in JoinPC \cup {"idle", "stabilize"}
         /\ predecessor'[n] \in {predecessor[n], Null}
<1> USE DEF TypeOK
<1>1. /\ n \notin Started /\ pc'[n] \in JoinPC \cup {"idle", "stabilize"}
      /\ \A m \in Node \ {n} : pc'[m] = pc[m]
  BY JoinPc DEF RingInv, CalmInv, PcFitsStatus, JoinPC, StabilizePC, Started
<1>2. QED
  BY <1>1
  DEF Join, JoinFind, JoinReread, JoinTable, JoinWalk, JoinRefresh, JoinExit, Exit, pointers

\* The steps of a stabilizer while no node crashes.
LEMMA CalmStabilize ==
  ASSUME TypeOK, RingInv, CalmInv, NEW n \in Node, Stabilize(n)
  PROVE  \/ StabilizeRead(n) \/ StabilizeAdopt(n) \/ StabilizeTell(n)
         \/ NotifyCheck(n) \/ NotifySet(n) \/ NotifyNobody(n)
<1>1. ~FixFingersDies(n)
  BY DEF FixFingersDies, Path, CalmInv
<1>2. QED BY <1>1, NobodyRecovers DEF Stabilize, Round

LEMMA LeadsKept ==
  ASSUME TypeOK, RingInv, CalmInv, LeadsInv, Crashers = {}, [Next]_vars,
         NEW p \in Started, NEW s \in Node, Leads(successor, p, s)
  PROVE  Leads(successor', p, s)
<1>1. ASSUME NEW n \in Node, Join(n) PROVE Leads(successor', p, s)
  BY <1>1, JoinStep, JoinKeepsLeads
<1>2. ASSUME NEW n \in Node, Stabilize(n) PROVE Leads(successor', p, s)
  <2>1. CASE StabilizeAdopt(n)
    BY <2>1, AdoptKeepsLeads
  <2>2. CASE successor' = successor
    BY <2>2
  <2>3. QED
    BY <1>2, <2>1, <2>2, CalmStabilize
    DEF StabilizeRead, StabilizeTell, NotifyCheck, NotifySet, NotifyNobody, pointers
<1>3. CASE successor' = successor
  BY <1>3
<1>4. QED BY <1>1, <1>2, <1>3 DEF Next, JoinStart, vars, pointers

LEMMA LeadsInvNext ==
  ASSUME TypeOK, RingInv, CalmInv, LeadsInv, Crashers = {}, [Next]_vars
  PROVE  LeadsInv'
<1> DEFINE Kept(p, s) == Leads(successor', p, s)
           Good(m) ==
             /\ pc'[m] = "adopt" => Kept(x'[m], successor'[m])
             /\ pc'[m] \in {"adopt", "tell", "notify", "setPredecessor"} /\ stub'[m] # Null
                  => Kept(m, stub'[m])
             /\ predecessor'[m] # Null => Kept(predecessor'[m], m)
<1> SUFFICES \A m \in Node : Good(m)
  BY DEF LeadsInv
<1>1. \A p \in Started, s \in Node : Leads(successor, p, s) => Kept(p, s)
  BY LeadsKept
<1>2. \A m \in Node : pc[m] = "adopt" => Kept(x[m], successor[m])
  BY <1>1, NodesAreIds DEF LeadsInv, RingInv, KnownStarted, AdoptCloser
<1>3. \A m \in Node : pc[m] \in {"adopt", "tell", "notify", "setPredecessor"} /\ stub[m] # Null
                      => Kept(m, stub[m])
  BY <1>1, StabilizingIsStarted DEF LeadsInv, RingInv, TypeOK, NodeOrNull, StabilizePC
<1>4. \A m \in Node : predecessor[m] # Null => Kept(predecessor[m], m)
  BY <1>1 DEF LeadsInv, RingInv, KnownStarted
<1>5. \A m \in Node : Kept(m, successor'[m])
  BY NodesAreIds, CalmStepIsCloser DEF Leads, OnWay
<1> HIDE DEF Kept
<1> USE DEF TypeOK
<1>6. ASSUME NEW n \in Node, Join(n) PROVE \A m \in Node : Good(m)
  <2>1. \A m \in Node \ {n} : Good(m)
    BY <1>2, <1>3, <1>4, <1>6, JoinStep
  <2>2. Good(n)
    BY <1>4, <1>6, JoinStep DEF JoinPC
  <2>3. QED BY <2>1, <2>2
<1>7. ASSUME NEW n \in Node, Stabilize(n) PROVE \A m \in Node : Good(m)
  <2>1. CASE StabilizeRead(n)
    <3>1. successor[n] \in Node /\ Kept(n, successor[n])
      BY <1>5, <2>1, NodesAreIds DEF StabilizeRead, pointers
    <3>2. predecessor[successor[n]] # Null => Kept(predecessor[successor[n]], successor[n])
      BY <1>4, <3>1
    <3>3. QED BY <1>2, <1>3, <1>4, <2>1, <3>1, <3>2 DEF StabilizeRead, pointers
  <2>2. CASE StabilizeAdopt(n)
    BY <1>2, <1>3, <1>4, <2>2 DEF StabilizeAdopt
  <2>3. CASE StabilizeTell(n)
    BY <1>2, <1>3, <1>4, <2>3 DEF StabilizeTell, locals
  <2>4. CASE NotifyCheck(n)
    BY <1>2, <1>3, <1>4, <2>4 DEF NotifyCheck, pointers
  <2>5. CASE NotifySet(n)
    <3>1. stub[n] \in Node /\ stub[n] # Null
      BY <2>5, NullIsNoNode DEF NotifySet, Contactable
    <3>2. QED BY <1>2, <1>3, <1>4, <2>5, <3>1 DEF NotifySet
  <2>6. CASE NotifyNobody(n)
    BY <1>2, <1>3, <1>4, <2>6 DEF NotifyNobody, pointers, locals
  <2>7. QED
    BY <1>7, <2>1, <2>2, <2>3, <2>4, <2>5, <2>6, CalmStabilize
<1>8. ASSUME NEW n \in Node, NEW e \in Up, JoinStart(n, e) PROVE \A m \in Node : Good(m)
  BY <1>2, <1>3, <1>4, <1>8 DEF JoinStart, pointers
<1>9. CASE UNCHANGED vars
  BY <1>2, <1>3, <1>4, <1>9 DEF vars, pointers, locals
<1>10. QED BY <1>6, <1>7, <1>8, <1>9 DEF Next
-----------------------------------------------------------------------------
(* The ring. *)

\* A set closed after an adoption was closed before it.
LEMMA AdoptKeepsOneRing ==
  ASSUME TypeOK, RingInv, CalmInv, LeadsInv, NEW n \in Node, StabilizeAdopt(n),
         NEW S \in SUBSET Node, \A k \in S : successor'[k] \in S
  PROVE  \A k \in S : successor[k] \in S
<1> DEFINE t == successor[n]
           y == x[n]
<1>1. /\ Node \subseteq Id
      /\ \A k \in Node : successor[k] \in Node
  BY NodesAreIds
<1>2. /\ successor'[n] = y /\ \A k \in Node \ {n} : successor'[k] = successor[k]
      /\ y \in Node /\ t \in Node /\ Between(n, y, t) /\ Leads(successor, y, t)
  BY <1>1 DEF StabilizeAdopt, TypeOK, RingInv, AdoptCloser, LeadsInv, NodeOrNull
<1> SUFFICES ASSUME n \in S PROVE t \in S
  BY <1>2
<1> HIDE DEF y, t
<1>3. y \in S
  BY <1>2
<1>4. \A j \in S : (j = y \/ Between(y, j, t)) => j # n
  <2> SUFFICES ASSUME NEW j \in S, j = y \/ Between(y, j, t) PROVE j # n
    OBVIOUS
  <2>1. n \in Id /\ t \in Id /\ y \in Id
    BY <1>1, <1>2
  <2>2. n # y /\ ~Between(y, n, t)
    BY <1>2, <2>1, IntAssumption DEF Id, INT_MIN, Between
  <2>3. QED BY <2>2
<1>5. \A j \in S : (j = y \/ Between(y, j, t)) /\ OnWay(j, successor[j], t)
                     => successor[j] \in S
  BY <1>2, <1>4
<1>6. QED BY <1>2, <1>3, <1>5 DEF Leads

LEMMA OneRingNext ==
  ASSUME TypeOK, RingInv, CalmInv, LeadsInv, OneRing, Crashers = {}, [Next]_vars
  PROVE  OneRing'
<1> SUFFICES ASSUME NEW S \in SUBSET Up', S # {}, Closed(S)'
             PROVE  First \in S
  BY DEF OneRing
<1>1. S \in SUBSET Node /\ \A m \in S : successor'[m] \in S
  BY CalmStepIsCloser DEF Closed, Up
<1>2. Started = Up /\ \A m \in Started : successor[m] \in Started
  BY NodesAreIds DEF RingInv, KnownStarted, CalmInv
<1>3. ASSUME NEW R \in SUBSET Up, R # {}, \A m \in R : successor[m] \in R
      PROVE  First \in R
  BY <1>3 DEF OneRing, Closed
<1> USE DEF TypeOK
<1>4. ASSUME NEW n \in Node, Join(n) PROVE First \in S
  <2>1. n \notin Started /\ \A m \in Node \ {n} : successor'[m] = successor[m]
    BY <1>4, JoinStep
  <2>2. \A m \in Node \ {n} : status'[m] = status[m]
    BY <1>4, JoinPc
  <2>3. S \ {n} \in SUBSET Up
    BY <1>1, <2>2 DEF Up
  <2>4. \A m \in S \ {n} : successor[m] \in S \ {n}
    BY <1>1, <1>2, <2>1, <2>3
  <2>5. CASE S \ {n} # {}
    BY <1>3, <2>3, <2>4, <2>5
  <2>6. CASE S \subseteq {n}
    <3>1. S = {n} /\ n \in Up' /\ successor'[n] = n
      BY <1>1, <2>6
    <3>2. JoinRefresh(n)
      BY <1>2, <1>4, <2>1, <3>1
      DEF Join, JoinFind, JoinReread, JoinTable, JoinWalk, JoinExit, Exit, Up
    <3>3. successor[n] \in Started
      BY <3>2 DEF JoinRefresh, RingInv, KnownStarted
    <3>4. QED BY <2>1, <3>1, <3>2, <3>3 DEF JoinRefresh
  <2>7. QED BY <2>5, <2>6
<1>5. CASE UNCHANGED <<status, successor>>
  <2>1. S \in SUBSET Up /\ \A m \in S : successor[m] \in S
    BY <1>1, <1>5 DEF Up
  <2>2. QED BY <1>3, <2>1
<1>6. ASSUME NEW n \in Node, Stabilize(n) PROVE First \in S
  <2>1. CASE StabilizeAdopt(n)
    <3>1. S \in SUBSET Up
      BY <2>1 DEF StabilizeAdopt, Up
    <3>2. \A m \in S : successor[m] \in S
      BY <1>1, <2>1, AdoptKeepsOneRing
    <3>3. QED BY <1>3, <3>1, <3>2
  <2>2. QED
    BY <1>5, <1>6, <2>1, CalmStabilize
    DEF StabilizeRead, StabilizeTell, NotifyCheck, NotifySet, NotifyNobody, pointers
<1>7. ASSUME NEW n \in Node, NEW e \in Up, JoinStart(n, e) PROVE First \in S
  <2>1. S \in SUBSET Up /\ \A m \in S : successor[m] \in S
    BY <1>1, <1>7 DEF JoinStart, Up, pointers
  <2>2. QED BY <1>3, <2>1
<1>8. QED BY <1>4, <1>5, <1>6, <1>7 DEF Next, vars, pointers

LEMMA InitOneRing == Init => LeadsInv /\ OneRing
<1> SUFFICES ASSUME Init PROVE LeadsInv /\ OneRing
  OBVIOUS
<1>1. LeadsInv
  BY DEF Init, LeadsInv
<1>2. OneRing
  BY DEF Init, OneRing, Up
<1>3. QED BY <1>1, <1>2

\* While no node crashes, there is one ring: from every node that has joined, the
\* successor pointers lead to First, whatever joins and stabilizations overlap.
THEOREM RingIsOne ==
  ASSUME Crashers = {}
  PROVE  Spec => []OneRing
<1>1. Init => LeadsInv /\ OneRing
  BY InitOneRing
<1>2. TypeOK /\ RingInv /\ CalmInv /\ LeadsInv /\ OneRing /\ [Next]_vars
        => (LeadsInv /\ OneRing)'
  BY LeadsInvNext, OneRingNext
<1>3. QED
  BY <1>1, <1>2, TypeCorrect, RingInvCorrect, CalmInvCorrect, PTL DEF Spec
-----------------------------------------------------------------------------
(* What lies on a way along successor pointers. *)

\* The points one comes by, going from y by a function f that never leads back (with
\* respect to the distance d), are met one after another: none is skipped.
LEMMA LeastChain ==
  ASSUME NEW A, NEW f, NEW d, NEW y \in A,
         \A i \in A : f[i] \in A /\ d[i] \in Int /\ d[i] <= d[f[i]],
         \A i, j \in A : d[i] = d[j] => i = j,
         \A S \in SUBSET A : y \in S /\ (\A i \in S : f[i] \in S) => A \subseteq S
  PROVE  \A i, j \in A : d[i] < d[j] => d[f[i]] <= d[j]
<1> DEFINE Good(j) == \A i \in A : d[i] < d[j] => d[f[i]] <= d[j]
<1>1. y \in A /\ \A i \in A : f[i] \in A
  OBVIOUS
<1>2. ASSUME NEW S \in SUBSET A, y \in S, \A i \in S : f[i] \in S
      PROVE  A \subseteq S
  BY <1>1, <1>2
<1> HIDE DEF Good
<1>3. \A i, j \in A : d[i] \in Int /\ d[f[i]] \in Int /\ d[i] <= d[f[i]] /\ (d[i] = d[j] => i = j)
  BY <1>1
<1>4. \A k \in A : d[y] <= d[k]
  <2> DEFINE S == {k \in A : d[y] <= d[k]}
  <2>1. y \in S /\ \A i \in S : f[i] \in S
    BY <1>1, <1>3
  <2>2. A \subseteq S
    BY <1>2, <2>1
  <2>3. QED BY <2>2
<1>5. ASSUME NEW j \in A, Good(j) PROVE \A i \in A : d[i] <= d[j] \/ d[f[j]] <= d[i]
  <2> DEFINE S == {i \in A : d[i] <= d[j] \/ d[f[j]] <= d[i]}
  <2>1. y \in S
    BY <1>1, <1>4
  <2>2. ASSUME NEW i \in S PROVE f[i] \in S
    <3>1. CASE d[i] < d[j]
      BY <1>1, <1>5, <3>1 DEF Good
    <3>2. CASE d[i] = d[j]
      BY <1>1, <1>3, <3>2
    <3>3. CASE d[f[j]] <= d[i]
      BY <1>1, <1>3, <3>3
    <3>4. QED BY <1>3, <3>1, <3>2, <3>3
  <2>3. A \subseteq S
    BY <1>2, <2>1, <2>2
  <2>4. QED BY <2>3
<1>6. A \subseteq {j \in A : Good(j)}
  <2> DEFINE S == {j \in A : Good(j)}
  <2>1. y \in S
    BY <1>1, <1>4, <1>3 DEF Good
  <2>2. ASSUME NEW j \in S PROVE f[j] \in S
    <3>1. ASSUME NEW i \in A, d[i] < d[f[j]] PROVE d[f[i]] <= d[f[j]]
      <4>1. d[i] <= d[j]
        BY <1>5, <1>3, <3>1
      <4>2. CASE d[i] = d[j]
        BY <1>3, <4>2
      <4>3. CASE d[i] < d[j]
        BY <1>3, <4>3 DEF Good
      <4>4. QED BY <1>3, <4>1, <4>2, <4>3
    <3>2. QED BY <1>1, <3>1 DEF Good
  <2>3. QED BY <1>2, <2>1, <2>2
<1>7. QED BY <1>6 DEF Good

\* Distances from y measure how far one is on the arc from y to t.
LEMMA ArcDistances ==
  ASSUME NEW y \in Id, NEW t \in Id, NEW k \in Id, NEW u \in Id, NEW i \in Id
  PROVE  /\ Dist(y, k) \in Int /\ Dist(y, k) >= 0
         /\ Dist(y, k) = Dist(y, u) => k = u
         /\ y # t /\ (k = y \/ Between(y, k, t)) <=> y # t /\ Dist(y, k) < Dist(y, t)
         /\ y # t /\ Dist(y, k) < Dist(y, t)
              => (OnWay(k, u, t) <=> Dist(y, k) < Dist(y, u) /\ Dist(y, u) <= Dist(y, t))
         /\ Dist(y, k) < Dist(y, u)
              => (Between(k, i, u) <=> Dist(y, k) < Dist(y, i) /\ Dist(y, i) < Dist(y, u))
BY IntAssumption DEF Id, INT_MIN, Dist, RingSize, Between, OnWay

\* The nodes W on a way from y to t follow each other between the two, none is passed
\* over, and whatever is closed but for t and holds y holds them all.
Chain(W, y, t) ==
  /\ y \in W /\ t \in W
  /\ \A k \in W \ {t} : /\ k = y \/ Between(y, k, t)
                        /\ successor[k] \in W /\ OnWay(k, successor[k], t)
                        /\ \A i \in W : ~Between(k, i, successor[k])
  /\ \A S \in SUBSET Node :
       y \in S /\ (\A k \in S \ {t} : successor[k] \in S) => W \subseteq S

\* If the pointers lead from y to another node t, they do so by such a way.
LEMMA WayIsChain ==
  ASSUME Node \subseteq Id, \A k \in Node : successor[k] \in Node,
         NEW y \in Node, NEW t \in Node, y # t, Leads(successor, y, t)
  PROVE  \E W \in SUBSET Node : Chain(W, y, t)
<1> DEFINE N == {k \in Node : Dist(y, k) <= Dist(y, t)}
           f == [k \in N |-> IF k # t /\ OnWay(k, successor[k], t) THEN successor[k] ELSE k]
           d == [k \in N |-> Dist(y, k)]
           W == {k \in N : \A S \in SUBSET N : y \in S /\ (\A i \in S : f[i] \in S) => k \in S}
<1>1. \A k \in N : k \in Node /\ k \in Id /\ successor[k] \in Node /\ successor[k] \in Id
  OBVIOUS
<1>2. y \in Id /\ t \in Id /\ y \in N /\ t \in N
  <2>1. Dist(y, y) = 0
    BY IntAssumption DEF Dist, Id, INT_MIN
  <2>2. QED BY <2>1, ArcDistances
<1>3. \A k \in N : (k = y \/ Between(y, k, t)) <=> k # t
  BY <1>1, <1>2, ArcDistances
<1>4. \A k \in N \ {t} : OnWay(k, successor[k], t)
        <=> Dist(y, k) < Dist(y, successor[k]) /\ Dist(y, successor[k]) <= Dist(y, t)
  BY <1>1, <1>2, ArcDistances
<1>5. f \in [N -> N] /\ \A i \in N : d[i] <= d[f[i]]
  BY <1>1, <1>2, <1>4, ArcDistances
<1>6. d \in [N -> Int] /\ \A i, j \in N : d[i] = d[j] => i = j
  BY <1>1, <1>2, ArcDistances
<1>7. y \in W /\ W \subseteq N /\ \A i \in W : f[i] \in W
  <2> HIDE DEF N, f
  <2> QED BY <1>2, <1>5
<1>8. ASSUME NEW S \in SUBSET W, y \in S, \A i \in S : f[i] \in S
      PROVE  W \subseteq S
  <2> HIDE DEF N, f
  <2> QED BY <1>7, <1>8
<1> HIDE DEF W
<1>9. \A i, j \in W : d[i] < d[j] => d[f[i]] <= d[j]
  <2>1. \A i \in W : f[i] \in W /\ d[i] \in Int /\ d[i] <= d[f[i]]
    BY <1>5, <1>6, <1>7
  <2>2. \A i, j \in W : d[i] = d[j] => i = j
    BY <1>6, <1>7
  <2> HIDE DEF N, f, d
  <2>3. \A S \in SUBSET W : y \in S /\ (\A i \in S : f[i] \in S) => W \subseteq S
    BY <1>8
  <2>4. QED BY <1>7, <2>1, <2>2, <2>3, LeastChain
<1>10. t \in W
  <2>1. \A k \in W : (k = y \/ Between(y, k, t)) /\ OnWay(k, successor[k], t) => successor[k] \in W
    BY <1>3, <1>7
  <2>2. QED BY <1>7, <2>1 DEF Leads
<1>11. \A k \in W \ {t} : OnWay(k, successor[k], t) /\ f[k] = successor[k]
  <2> SUFFICES ASSUME NEW k \in W \ {t}, ~OnWay(k, successor[k], t) PROVE FALSE
    BY <1>7
  <2> DEFINE S == {i \in W : d[i] <= d[k]}
  <2>1. f[k] = k /\ k \in N
    BY <1>7
  <2>2. \A i \in W : d[i] \in Int /\ f[i] \in W
    BY <1>6, <1>7
  <2>3. y \in S /\ \A i \in S : f[i] \in S
    <3>1. d[y] <= d[k]
      <4>1. d[y] = 0 /\ d[k] >= 0
        <5>1. Dist(y, y) = 0
          BY <1>2, IntAssumption DEF Dist, Id, INT_MIN
        <5>2. QED BY <1>1, <1>2, <2>1, <5>1, ArcDistances
      <4>2. QED BY <1>7, <2>2, <4>1
    <3>2. ASSUME NEW i \in S PROVE d[f[i]] <= d[k]
      <4>1. CASE d[i] < d[k]
        BY <1>9, <4>1
      <4>2. CASE d[i] = d[k]
        BY <1>6, <1>7, <2>1, <4>2
      <4> HIDE DEF d, f
      <4>3. QED BY <2>2, <4>1, <4>2
    <3>3. QED BY <1>7, <2>2, <3>1, <3>2
  <2>4. t \in S
    <3> HIDE DEF f
    <3> QED BY <1>8, <1>10, <2>3
  <2>5. Dist(y, t) <= Dist(y, k) /\ Dist(y, k) <= Dist(y, t)
    BY <1>2, <2>1, <2>4
  <2>6. QED BY <1>1, <1>2, <2>1, <2>5, ArcDistances
<1>12. \A k \in W \ {t}, i \in W : ~Between(k, i, successor[k])
  <2> SUFFICES ASSUME NEW k \in W \ {t}, NEW i \in W, Between(k, i, successor[k]) PROVE FALSE
    OBVIOUS
  <2> DEFINE u == successor[k]
  <2>1. u = f[k] /\ k \in N \ {t} /\ i \in N /\ u \in N /\ u \in Id /\ k \in Id /\ i \in Id
    BY <1>1, <1>7, <1>11
  <2>2. Dist(y, k) < Dist(y, u)
    BY <1>4, <1>7, <1>11
  <2>3. Dist(y, k) < Dist(y, i) /\ Dist(y, i) < Dist(y, u)
    <3> HIDE DEF u, N
    <3> QED BY <1>2, <2>1, <2>2, ArcDistances DEF u
  <2>4. Dist(y, u) <= Dist(y, i)
    BY <1>9, <1>7, <2>1, <2>3
  <2>5. QED BY <1>2, <2>1, <2>3, <2>4, ArcDistances
<1>13. ASSUME NEW S \in SUBSET Node, y \in S, \A k \in S \ {t} : successor[k] \in S
       PROVE  W \subseteq S
  <2>1. y \in S \cap W /\ \A i \in S \cap W : f[i] \in S \cap W
    <3>1. \A i \in W : i \in N /\ f[i] \in W
      BY <1>7
    <3>2. \A i \in S \cap W : f[i] \in S
      BY <1>13, <3>1
    <3>3. QED BY <1>7, <1>13, <3>1, <3>2
  <2>2. W \subseteq S \cap W
    <3> HIDE DEF f
    <3> QED BY <1>8, <2>1
  <2>3. QED BY <2>2
<1>14. \A k \in W \ {t} : (k = y \/ Between(y, k, t)) /\ successor[k] \in W
  BY <1>3, <1>7, <1>11
<1>15. W \in SUBSET Node
  BY <1>7
<1>16. Chain(W, y, t)
  BY <1>7, <1>10, <1>11, <1>12, <1>13, <1>14 DEF Chain
<1>17. QED BY <1>15, <1>16
-----------------------------------------------------------------------------
(* The ring is a sorted circle. *)

\* Of the sets of U that hold r and are closed under succ, the least one.
Least(U, succ, r) ==
  {m \in U : \A S \in SUBSET (U \ {m}) : r \in S => ~(\A k \in S : succ[k] \in S)}

LEMMA LeastClosed ==
  ASSUME NEW U, NEW succ, NEW r \in U, \A k \in U : succ[k] \in U
  PROVE  /\ Least(U, succ, r) \subseteq U /\ r \in Least(U, succ, r)
         /\ \A m \in Least(U, succ, r) : succ[m] \in Least(U, succ, r)
         /\ \A S : r \in S /\ (\A k \in S \cap U : succ[k] \in S) => Least(U, succ, r) \subseteq S
<1> DEFINE R == Least(U, succ, r)
<1> \A m : m \in R <=> /\ m \in U
                       /\ \A S \in SUBSET (U \ {m}) : r \in S => ~(\A k \in S : succ[k] \in S)
  BY DEF Least
<1> HIDE DEF R
<1>1. R \subseteq U /\ r \in R
  OBVIOUS
<1>2. ASSUME NEW m \in R, succ[m] \notin R PROVE FALSE
  <2>1. PICK S \in SUBSET (U \ {succ[m]}) : r \in S /\ \A k \in S : succ[k] \in S
    BY <1>1, <1>2
  <2>2. S \in SUBSET (U \ {m})
    BY <2>1
  <2>3. QED BY <1>2, <2>1, <2>2
<1>3. ASSUME NEW S, r \in S, \A k \in S \cap U : succ[k] \in S, NEW m \in R, m \notin S
      PROVE  FALSE
  <2>1. S \cap U \in SUBSET (U \ {m}) /\ r \in S \cap U
    BY <1>3
  <2>2. \A k \in S \cap U : succ[k] \in S \cap U
    BY <1>3
  <2>3. QED BY <1>3, <2>1, <2>2
<1>4. QED BY <1>1, <1>2, <1>3 DEF R

LEMMA RingIsLeast ==
  ASSUME TypeOK, RingInv, CalmInv, First \in Up
  PROVE  /\ Ring \subseteq Up /\ successor[First] \in Ring
         /\ \A m \in Ring : successor[m] \in Ring
         /\ \A S : successor[First] \in S /\ (\A k \in S \cap Up : successor[k] \in S)
                     => Ring \subseteq S
<1>1. \A k \in Up : successor[k] \in Up
  BY NodesAreIds DEF RingInv, KnownStarted, CalmInv
<1>2. Ring = Least(Up, successor, successor[First])
  <2>1. \A S \in SUBSET Up : Closed(S) <=> \A k \in S : successor[k] \in S
    BY DEF Closed, CalmInv, Up
  <2>2. QED BY <2>1 DEF Ring, Least
<1>3. QED BY <1>1, <1>2, LeastClosed

\* What a step keeps: whoever is in the ring or on the way to it goes on.
LEMMA CalmStep ==
  ASSUME TypeOK, RingInv, CalmInv, Crashers = {}, [Next]_vars
  PROVE  /\ RingInv' /\ CalmInv' /\ Up \subseteq Up'
         /\ \A k \in Up' : successor'[k] \in Up'
<1>1. RingInv' /\ CalmInv'
  BY NextRingInv, CalmStepIsCloser, CalmStepKeepsClaims DEF CalmInv
<1>2. Started = Up /\ Started' = Up'
  BY <1>1 DEF CalmInv, Started, Up
<1>3. Up \subseteq Up'
  BY <1>2, StartedGrows DEF RingInv
<1>4. QED BY <1>1, <1>2, <1>3 DEF RingInv, KnownStarted, CalmInv, Up

LEMMA RingIsLeastNext ==
  ASSUME TypeOK, RingInv, CalmInv, First \in Up, Crashers = {}, [Next]_vars
  PROVE  /\ Ring' \subseteq Up' /\ successor'[First] \in Ring'
         /\ \A m \in Ring' : successor'[m] \in Ring'
         /\ \A S : successor'[First] \in S /\ (\A k \in S \cap Up' : successor'[k] \in S)
                     => Ring' \subseteq S
<1>1. Ring' = Least(Up', successor', successor'[First])
  <2>1. \A S \in SUBSET Up' : Closed(S)' <=> \A k \in S : successor'[k] \in S
    BY CalmStep DEF Closed, CalmInv, Up
  <2>2. QED BY <2>1 DEF Ring, Least
<1>2. First \in Up' /\ \A k \in Up' : successor'[k] \in Up'
  BY CalmStep
<1>3. QED BY <1>1, <1>2, LeastClosed

\* A step that does not change the pointers of the ring does not change the ring.
LEMMA SameRing ==
  ASSUME TypeOK, RingInv, CalmInv, RingSorted, Crashers = {}, [Next]_vars,
         \A m \in Ring : successor'[m] = successor[m]
  PROVE  Ring' = Ring /\ RingSorted'
<1>1. First \in Ring /\ First \in Up
  BY DEF RingSorted, Ring
<1>2. Ring' \subseteq Ring
  BY <1>1, RingIsLeast, RingIsLeastNext
<1>3. Ring \subseteq Ring'
  <2>1. successor[First] \in Ring'
    BY <1>1, RingIsLeastNext
  <2>2. \A k \in Ring' : successor[k] \in Ring'
    BY <1>2, RingIsLeastNext, <1>1
  <2>3. QED BY <1>1, <2>1, <2>2, RingIsLeast
<1>4. Ring' = Ring
  BY <1>2, <1>3
<1>5. QED BY <1>4 DEF RingSorted, Follows

\* What lies on an arc that a ring node skips, and a detour that stays on it.
LEMMA DetourOnArc ==
  ASSUME NEW n \in Id, NEW t \in Id, NEW y \in Id, Between(n, y, t), NEW j \in Id,
         j = y \/ Between(y, j, t)
  PROVE  Between(n, j, t) /\ j # n /\ ~Between(n, j, y)
BY IntAssumption DEF Id, INT_MIN, Between

LEMMA ArcsApart ==
  ASSUME NEW n \in Id, NEW t \in Id, NEW j \in Id, NEW k \in Id, NEW u \in Id,
         k # n, Between(n, j, t), ~Between(n, k, t), ~Between(n, u, t),
         ~Between(k, n, u), ~Between(k, t, u)
  PROVE  ~Between(k, j, u)
BY IntAssumption DEF Id, INT_MIN, Between

LEMMA StepOnArc ==
  ASSUME NEW n \in Id, NEW t \in Id, NEW k \in Id, NEW u \in Id, NEW i \in Id,
         Between(n, k, t), OnWay(k, u, t), ~Between(n, i, t)
  PROVE  ~Between(k, i, u) /\ u # k
BY IntAssumption DEF Id, INT_MIN, Between, OnWay

LEMMA BetweenEnds == \A a, b \in Id : ~Between(a, a, b) /\ ~Between(a, b, b)
BY IntAssumption DEF Id, INT_MIN, Between

\* A node of the ring that adopts another one links it into the ring, with all that
\* have linked themselves before it.
LEMMA AdoptLinks ==
  ASSUME TypeOK, RingInv, CalmInv, LeadsInv, OneRing, RingSorted, Crashers = {},
         NEW n \in Ring, StabilizeAdopt(n)
  PROVE  RingSorted' /\ \E J \in SUBSET (Up \ Ring) : J # {} /\ Ring' = Ring \cup J
<1> DEFINE t == successor[n]
           y == x[n]
<1>1. /\ First \in Up /\ First \in Ring /\ Ring \subseteq Up /\ Up \subseteq Node /\ n \in Node
      /\ [Next]_vars
  BY RingIsLeast DEF RingSorted, Ring, Up, Next, Stabilize, Round
<1>2. /\ Node \subseteq Id
      /\ \A k \in Node : successor[k] \in Node
      /\ \A k \in Up : successor[k] \in Up
  BY NodesAreIds DEF RingInv, KnownStarted, CalmInv
<1>3. /\ successor'[n] = y /\ \A k \in Node \ {n} : successor'[k] = successor[k]
      /\ y \in Up /\ t \in Ring /\ Between(n, y, t) /\ Leads(successor, y, t) /\ Up' = Up
  <2>1. y \in Up
    BY <1>1, NodesAreIds DEF StabilizeAdopt, RingInv, AdoptCloser, KnownStarted
  <2>2. QED
    BY <1>1, <2>1
    DEF StabilizeAdopt, TypeOK, RingInv, AdoptCloser, LeadsInv, RingSorted, Up
<1> HIDE DEF t, y
<1>4. y # t
  BY <1>1, <1>2, <1>3, BetweenEnds
<1>5. PICK W \in SUBSET Node : Chain(W, y, t)
  <2>1. y \in Node /\ t \in Node
    BY <1>1, <1>3
  <2>2. QED BY <1>2, <1>3, <1>4, <2>1, WayIsChain
<1> DEFINE J == W \ {t}
<1>6. y \in J /\ \A k \in J : k \in Id /\ Between(n, k, t) /\ k # n /\ ~Between(n, k, y)
  BY <1>1, <1>2, <1>3, <1>4, <1>5, DetourOnArc DEF Chain
<1>7. \A k \in Ring : ~Between(n, k, t)
  <2>1. Follows(Ring, n, t)
    BY DEF RingSorted, t
  <2>2. ~Between(n, n, t)
    BY <1>1, <1>2, <1>3, BetweenEnds
  <2>3. QED BY <2>1, <2>2 DEF Follows
<1>8. J \in SUBSET (Up \ Ring)
  <2>1. \A k \in Up : successor[k] \in Up
    BY <1>2
  <2>2. W \subseteq Up
    BY <1>1, <1>3, <1>5, <2>1 DEF Chain
  <2>3. QED BY <1>6, <1>7, <2>2
<1>9. Ring' \subseteq Ring \cup J
  <2>1. \A k \in Ring \cup J : successor'[k] \in Ring \cup J
    <3>1. ASSUME NEW k \in Ring \ {n} PROVE successor'[k] \in Ring
      BY <1>1, <1>3, RingIsLeast
    <3>2. ASSUME NEW k \in J PROVE successor'[k] \in Ring \cup J
      BY <1>3, <1>5, <1>6 DEF Chain
    <3>3. QED BY <1>3, <1>6, <3>1, <3>2
  <2> HIDE DEF J
  <2>2. QED BY <1>1, <2>1, RingIsLeastNext
<1>10. Ring \cup J \subseteq Ring'
  <2>1. Ring' \subseteq Up /\ \A k \in Ring' : successor'[k] \in Ring'
    BY <1>1, <1>3, RingIsLeastNext
  <2>2. \A k \in Ring' : successor[k] \in Ring'
    BY <1>1, <2>1, AdoptKeepsOneRing
  <2>3. First \in Ring'
    <3>1. Ring' # {}
      BY <1>1, RingIsLeastNext
    <3>2. QED BY <2>1, <2>2, <3>1 DEF OneRing, Closed
  <2>4. Ring \subseteq Ring'
    BY <1>1, <2>2, <2>3, RingIsLeast
  <2>5. y \in Ring'
    BY <1>3, <2>1, <2>4
  <2>6. W \subseteq Ring'
    BY <1>1, <1>5, <2>1, <2>2, <2>5 DEF Chain
  <2>7. QED BY <2>4, <2>6
<1>11. Ring' = Ring \cup J
  BY <1>9, <1>10
<1>12. ASSUME NEW k \in Ring' PROVE successor'[k] \in Ring' /\ Follows(Ring', k, successor'[k])
  <2>1. successor'[k] \in Ring'
    BY <1>1, RingIsLeastNext
  <2>2. CASE k = n
    <3>1. \A i \in Ring : ~Between(n, i, y)
      BY <1>1, <1>2, <1>3, <1>7, BetweenTransitive
    <3>2. y # n
      BY <1>6
    <3>3. QED BY <1>3, <1>6, <1>11, <2>1, <2>2, <3>1, <3>2 DEF Follows
  <2>3. CASE k \in Ring \ {n}
    <3> DEFINE u == successor[k]
    <3>1. successor'[k] = u /\ u \in Ring /\ Follows(Ring, k, u)
      BY <1>1, <1>3, <2>3 DEF RingSorted
    <3> HIDE DEF u
    <3>2. u # k
      BY <2>3, <3>1 DEF Follows
    <3>3. \A i \in Ring : ~Between(k, i, u)
      <4>1. ~Between(k, k, u)
        BY <1>1, <1>2, <2>3, <3>1, BetweenEnds
      <4>2. QED BY <3>1, <4>1 DEF Follows
    <3>4. ASSUME NEW j \in J PROVE ~Between(k, j, u)
      <4>1. /\ n \in Id /\ t \in Id /\ j \in Id /\ k \in Id /\ u \in Id /\ k # n
            /\ Between(n, j, t) /\ ~Between(n, k, t) /\ ~Between(n, u, t)
            /\ ~Between(k, n, u) /\ ~Between(k, t, u)
        BY <1>1, <1>2, <1>3, <1>6, <1>7, <2>3, <3>1, <3>3
      <4>2. QED BY <4>1, ArcsApart
    <3>5. QED BY <1>11, <3>1, <3>2, <3>3, <3>4 DEF Follows
  <2>4. CASE k \in J
    <3> DEFINE u == successor[k]
    <3>1. /\ successor'[k] = u /\ u \in Node /\ OnWay(k, u, t)
          /\ \A i \in W : ~Between(k, i, u)
      BY <1>1, <1>2, <1>3, <1>5, <1>6, <2>4 DEF Chain
    <3> HIDE DEF u
    <3>2. ASSUME NEW i \in Ring PROVE ~Between(k, i, u) /\ u # k
      <4>1. /\ n \in Id /\ t \in Id /\ k \in Id /\ u \in Id /\ i \in Id
            /\ Between(n, k, t) /\ ~Between(n, i, t)
        BY <1>1, <1>2, <1>3, <1>6, <1>7, <2>4, <3>1
      <4>2. QED BY <3>1, <4>1, StepOnArc
    <3>3. QED BY <1>1, <1>11, <2>1, <3>1, <3>2 DEF Follows
  <2>5. QED BY <1>11, <2>2, <2>3, <2>4
<1>13. RingSorted'
  BY <1>1, <1>11, <1>12 DEF RingSorted
<1>14. QED BY <1>6, <1>8, <1>11, <1>13

\* The pointers of a ring without gaps are the abstract circle of its nodes.
LEMMA SortedIsUnique ==
  ASSUME NEW R \in SUBSET Id, NEW succ, \A n \in R : succ[n] \in R /\ Follows(R, n, succ[n])
  PROVE  [n \in R |-> succ[n]] = SR!Sorted(R)
<1>1. ASSUME NEW n \in R, NEW m \in R, NEW l \in R, Follows(R, n, m), Follows(R, n, l)
      PROVE  m = l
  <2>1. CASE m = n \/ l = n
    BY <1>1, <2>1 DEF Follows
  <2>2. CASE m # n /\ l # n
    <3>1. ~Between(n, l, m) /\ ~Between(n, m, l)
      BY <1>1, <2>2 DEF Follows
    <3>2. n \in Id /\ m \in Id /\ l \in Id
      OBVIOUS
    <3>3. QED BY <2>2, <3>1, <3>2, IntAssumption DEF Id, INT_MIN, Between
  <2>3. QED BY <2>1, <2>2
<1>2. \A n, m \in R : SR!Follows(R, n, m) <=> Follows(R, n, m)
  BY DEF SR!Follows, Follows, SR!Between, Between
<1>3. \A n \in R : succ[n] = CHOOSE m \in R : SR!Follows(R, n, m)
  BY <1>1, <1>2
<1>4. QED BY <1>3 DEF SR!Sorted

LEMMA InitSorted == Init => RingSorted /\ SR!Init
<1> SUFFICES ASSUME Init PROVE RingSorted /\ SR!Init
  OBVIOUS
<1>1. First \in Node /\ Up = {First} /\ successor[First] = First
  BY NodeAssumption DEF Init, Up
<1>2. Ring = {First}
  BY <1>1 DEF Ring, Closed
<1>3. RingSorted
  BY <1>1, <1>2 DEF RingSorted, Follows
<1>4. [k \in Ring |-> successor[k]] = SR!Sorted(Ring)
  <2>1. Ring \in SUBSET Id
    BY <1>2, NodeAssumption
  <2>2. QED BY <1>3, <2>1, SortedIsUnique DEF RingSorted
<1>5. QED BY <1>1, <1>2, <1>3, <1>4 DEF SR!Init

\* A step that changes neither the ring nor who is up is none of the circle.
LEMMA RingStutters ==
  ASSUME TypeOK, RingInv, CalmInv, RingSorted, Crashers = {}, [Next]_vars,
         \A m \in Ring : successor'[m] = successor[m]
  PROVE  [k \in Ring |-> successor[k]]' = [k \in Ring |-> successor[k]]
<1>1. Ring' = Ring
  BY SameRing
<1>2. QED BY <1>1

LEMMA CircleStep ==
  ASSUME TypeOK, RingInv, CalmInv, LeadsInv, OneRing, RingSorted, Crashers = {}, [Next]_vars
  PROVE  RingSorted' /\ [SR!Next]_(SR!vars)
<1>1. Ring \subseteq Up /\ First \in Up /\ Up = Started /\ Up \subseteq Node
  BY RingIsLeast, NodesAreIds DEF RingSorted, Ring
<1>2. ASSUME \A m \in Ring : successor'[m] = successor[m],
             Up' = Up \/ \E n \in Node \ Up : Up' = Up \cup {n}
      PROVE  RingSorted' /\ [SR!Next]_(SR!vars)
  <2>1. RingSorted' /\ [k \in Ring |-> successor[k]]' = [k \in Ring |-> successor[k]]
    BY <1>2, SameRing, RingStutters
  <2>2. CASE Up' = Up
    BY <2>1, <2>2 DEF SR!vars
  <2>3. ASSUME NEW n \in Node \ Up, Up' = Up \cup {n} PROVE SR!Next
    BY <2>1, <2>3 DEF SR!Next, SR!Start
  <2>4. QED BY <1>2, <2>1, <2>2, <2>3
<1>3. ASSUME NEW n \in Node, Join(n) PROVE RingSorted' /\ [SR!Next]_(SR!vars)
  <2>1. n \notin Ring /\ \A m \in Node \ {n} : successor'[m] = successor[m]
    BY <1>1, <1>3, JoinStep
  <2>2. n \notin Up /\ \A m \in Node \ {n} : status'[m] = status[m]
    <3>1. n \notin Started
      BY <1>3, JoinStep
    <3>2. QED BY <1>1, <1>3, <3>1, JoinPc DEF TypeOK
  <2>3. Up' = Up \/ Up' = Up \cup {n}
    BY <2>2 DEF Up
  <2>4. QED BY <1>1, <1>2, <2>1, <2>2, <2>3
<1>4. ASSUME NEW n \in Node, Stabilize(n) PROVE RingSorted' /\ [SR!Next]_(SR!vars)
  <2>1. CASE StabilizeAdopt(n)
    <3>1. /\ Up' = Up /\ \A m \in Node \ {n} : successor'[m] = successor[m]
      BY <2>1 DEF StabilizeAdopt, TypeOK, Up
    <3>2. CASE n \notin Ring
      BY <1>1, <1>2, <3>1, <3>2
    <3>3. CASE n \in Ring
      <4>1. RingSorted' /\ \E J \in SUBSET (Up \ Ring) : J # {} /\ Ring' = Ring \cup J
        BY <2>1, <3>3, AdoptLinks
      <4>2. PICK J \in SUBSET (Up \ Ring) : J # {} /\ Ring' = Ring \cup J
        BY <4>1
      <4>3. Ring' \in SUBSET Id
        BY <1>1, <4>2, NodeAssumption
      <4>4. [k \in Ring |-> successor[k]]' = SR!Sorted(Ring')
        BY <4>1, <4>3, SortedIsUnique DEF RingSorted
      <4>5. SR!Link(J)
        BY <3>1, <4>2, <4>4 DEF SR!Link, SR!ring
      <4>6. J \in SUBSET (Up \ SR!ring)
        BY <4>2 DEF SR!ring
      <4>7. QED BY <4>1, <4>5, <4>6 DEF SR!Next
    <3>4. QED BY <3>2, <3>3
  <2>2. CASE UNCHANGED <<status, successor>>
    BY <1>1, <1>2, <2>2 DEF Up
  <2>3. QED
    BY <1>4, <2>1, <2>2, CalmStabilize
    DEF StabilizeRead, StabilizeTell, NotifyCheck, NotifySet, NotifyNobody, pointers
<1>5. ASSUME NEW n \in Node, NEW e \in Up, JoinStart(n, e)
      PROVE  RingSorted' /\ [SR!Next]_(SR!vars)
  <2>1. Up' = Up /\ \A m \in Ring : successor'[m] = successor[m]
    BY <1>5 DEF JoinStart, Up, pointers, TypeOK
  <2>2. QED BY <1>2, <2>1
<1>6. CASE UNCHANGED vars
  BY <1>2, <1>6 DEF vars, pointers, Up
<1>7. QED BY <1>3, <1>4, <1>5, <1>6 DEF Next

LEMMA CircleCorrect ==
  ASSUME Crashers = {}
  PROVE  Spec => [](LeadsInv /\ OneRing /\ RingSorted)
<1>1. Init => LeadsInv /\ OneRing /\ RingSorted
  BY InitOneRing, InitSorted
<1>2. TypeOK /\ RingInv /\ CalmInv /\ LeadsInv /\ OneRing /\ RingSorted /\ [Next]_vars
        => (LeadsInv /\ OneRing /\ RingSorted)'
  BY LeadsInvNext, OneRingNext, CircleStep
<1>3. QED
  BY <1>1, <1>2, TypeCorrect, RingInvCorrect, CalmInvCorrect, PTL DEF Spec

\* While no node crashes, the nodes that the successor pointers lead to from First
\* form at every moment a circle sorted by identifier, which only grows: whatever
\* stabilize does and however joins overlap, no node drops out of the ring again.
THEOREM RingIsSorted ==
  ASSUME Crashers = {}
  PROVE  Spec => ImplementsSortedRing
<1>1. Init => SR!Init
  BY InitSorted
<1>2. TypeOK /\ RingInv /\ CalmInv /\ LeadsInv /\ OneRing /\ RingSorted /\ [Next]_vars
        => [SR!Next]_(SR!vars)
  BY CircleStep
<1>3. QED
  BY <1>1, <1>2, TypeCorrect, RingInvCorrect, CalmInvCorrect, CircleCorrect, PTL
  DEF Spec, SR!Spec, ImplementsSortedRing
=============================================================================
