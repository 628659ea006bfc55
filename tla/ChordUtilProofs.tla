--------------------------- MODULE ChordUtilProofs ---------------------------
(***************************************************************************)
(* What withinInterval means for the nodes of a ring, for ints of every    *)
(* width.                                                                  *)
(***************************************************************************)
EXTENDS ChordUtil, WellFoundedInduction, TLAPS

\* withinInterval decides membership in the arc that runs clockwise from one
\* identifier to a different one, both ends included.
THEOREM WithinIsArc ==
  ASSUME NEW a \in Id, NEW b \in Id, NEW c \in Id, a # b
  PROVE  withinInterval(c, a, b) <=> Dist(a, c) <= Dist(a, b)
BY IntAssumption DEF Id, INT_MIN, withinInterval, Dist, RingSize

\* Among nodes at least three apart, the interval of stabilize and
\* notifyPredecessor is the open arc between two nodes, ...
THEOREM CloserIsBetween ==
  ASSUME NEW S \in SUBSET Id, Spaced(S), NEW a \in S, NEW b \in S, NEW c \in S
  PROVE  closer(a, b, c) <=> Between(a, c, b)
<1> /\ a \in Id /\ b \in Id /\ c \in Id
    /\ a # b => Dist(a, b) >= 3
  BY DEF Spaced
<1>1. CASE a = b
  BY <1>1, IntAssumption DEF Id, INT_MIN, closer, withinInterval, plus1, minus1, Between
<1>2. CASE a # b
  BY <1>2, IntAssumption
  DEF Id, INT_MIN, closer, withinInterval, plus1, minus1, Between, Dist, RingSize
<1>3. QED BY <1>1, <1>2

\* ... and the interval of findPredecessor is that arc with its far end.
THEOREM CoversIsBetween ==
  ASSUME NEW S \in SUBSET Id, Spaced(S), NEW a \in S, NEW b \in S, NEW c \in S
  PROVE  covers(a, b, c) <=> Between(a, c, b) \/ c = b
<1> /\ a \in Id /\ b \in Id /\ c \in Id
    /\ a # b => Dist(a, b) >= 3
  BY DEF Spaced
<1>1. CASE a = b
  BY <1>1, IntAssumption DEF Id, INT_MIN, covers, withinInterval, plus1, Between
<1>2. CASE a # b
  BY <1>2, IntAssumption
  DEF Id, INT_MIN, covers, withinInterval, plus1, Between, Dist, RingSize
<1>3. QED BY <1>1, <1>2

\* A node closer than a closer node is closer.
LEMMA BetweenTransitive ==
  ASSUME NEW a \in Id, NEW b \in Id, NEW c \in Id, NEW d \in Id,
         Between(a, b, c), Between(a, c, d)
  PROVE  Between(a, b, d)
BY IntAssumption DEF Id, INT_MIN, Between
-----------------------------------------------------------------------------
(* Walks along the circle, measured by how far they lead. *)

LEMMA DistType ==
  ASSUME NEW a \in Id, NEW b \in Id
  PROVE  /\ Dist(a, b) \in Nat /\ Dist(a, b) < RingSize
         /\ Dist(a, b) = 0 <=> a = b
BY IntAssumption DEF Id, INT_MIN, Dist, RingSize

\* From a one comes to b and then to c, or to c and then to b.
LEMMA DistAdds ==
  ASSUME NEW a \in Id, NEW b \in Id, NEW c \in Id
  PROVE  IF Dist(a, b) <= Dist(a, c) THEN Dist(b, c) = Dist(a, c) - Dist(a, b)
                                     ELSE Dist(b, c) = RingSize - Dist(a, b) + Dist(a, c)
BY IntAssumption DEF Id, INT_MIN, Dist, RingSize

\* The node that follows a is the nearest of the others.
LEMMA FollowsIsNearest ==
  ASSUME NEW S \in SUBSET Id, NEW a \in S, NEW s \in S
  PROVE  Follows(S, a, s) <=> IF S = {a} THEN s = a
                              ELSE s # a /\ \A k \in S \ {a} : Dist(a, s) <= Dist(a, k)
<1>1. ASSUME NEW k \in S \ {a}, s # a
      PROVE  Between(a, k, s) <=> ~(Dist(a, s) <= Dist(a, k))
  BY <1>1, IntAssumption DEF Id, INT_MIN, Between, Dist, RingSize
<1>2. CASE S = {a}
  BY <1>2 DEF Follows
<1>3. CASE S # {a}
  BY <1>1, <1>3 DEF Follows
<1>4. QED BY <1>2, <1>3

\* The test of findPredecessor, for any identifier.
LEMMA CoversIsArc ==
  ASSUME NEW n \in Id, NEW s \in Id, NEW x \in Id, n # s => Dist(n, s) >= 3
  PROVE  covers(n, s, x) <=> n = s \/ (0 < Dist(n, x) /\ Dist(n, x) <= Dist(n, s))
<1>1. CASE n = s
  BY <1>1, IntAssumption DEF Id, INT_MIN, covers, withinInterval, plus1
<1>2. CASE n # s
  BY <1>2, IntAssumption DEF Id, INT_MIN, covers, withinInterval, plus1, Dist, RingSize
<1>3. QED BY <1>1, <1>2

LEMMA LeastNumber ==
  ASSUME NEW T \in SUBSET Nat, T # {}
  PROVE  \E k \in T : \A l \in T : k <= l
<1>1. PICK k \in T : \A l \in T : ~(<<l, k>> \in OpToRel(<, Nat))
  BY NatLessThanWellFounded, WFMin
<1>2. \A l \in T : ~(l < k)
  BY <1>1 DEF OpToRel
<1>3. QED BY <1>2

\* Of some identifiers one is the first that comes after a, ...
LEMMA NearestAfter ==
  ASSUME NEW T \in SUBSET Id, T # {}, NEW a \in Id
  PROVE  \E m \in T : \A k \in T : Dist(a, m) <= Dist(a, k)
<1> DEFINE far == {Dist(a, k) : k \in T}
<1>1. far \in SUBSET Nat /\ far # {}
  BY DistType
<1>2. \E d \in far : \A l \in far : d <= l
  <2> HIDE DEF far
  <2> QED BY <1>1, LeastNumber
<1>3. QED BY <1>2

\* ... and one is the last that comes before a.
LEMMA NearestBefore ==
  ASSUME NEW T \in SUBSET Id, T # {}, NEW a \in Id
  PROVE  \E m \in T : \A k \in T : Dist(m, a) <= Dist(k, a)
<1> DEFINE far == {Dist(k, a) : k \in T}
<1>1. far \in SUBSET Nat /\ far # {}
  BY DistType
<1>2. \E d \in far : \A l \in far : d <= l
  <2> HIDE DEF far
  <2> QED BY <1>1, LeastNumber
<1>3. QED BY <1>2

\* Every node of a ring has one that follows it, ...
LEMMA FollowerExists ==
  ASSUME NEW S \in SUBSET Id, NEW a \in S
  PROVE  \E s \in S : Follows(S, a, s)
<1>1. CASE S = {a}
  BY <1>1, FollowsIsNearest
<1>2. CASE S # {a}
  <2>1. PICK s \in S \ {a} : \A k \in S \ {a} : Dist(a, s) <= Dist(a, k)
    BY <1>2, NearestAfter
  <2>2. QED BY <1>2, <2>1, FollowsIsNearest
<1>3. QED BY <1>1, <1>2

\* ... and every identifier lies behind one of the nodes, up to its follower.
LEMMA CovererExists ==
  ASSUME NEW S \in SUBSET Id, S # {}, Spaced(S), NEW x \in Id
  PROVE  \E p \in S : \A s \in S : Follows(S, p, s) => covers(p, s, x)
<1>1. CASE S \ {x} = {}
  <2>1. S = {x}
    BY <1>1
  <2>2. QED BY <2>1, CoversIsArc
<1>2. CASE S \ {x} # {}
  <2>1. PICK p \in S \ {x} : \A k \in S \ {x} : Dist(p, x) <= Dist(k, x)
    BY <1>2, NearestBefore
  <2>2. ASSUME NEW s \in S, Follows(S, p, s) PROVE covers(p, s, x)
    <3>1. p = s \/ (s # p /\ Dist(p, s) >= 3)
      BY <2>2 DEF Spaced
    <3>2. CASE p = s
      BY <3>2, CoversIsArc
    <3>3. CASE p # s
      <4>1. /\ Dist(p, s) \in Nat /\ Dist(p, x) \in Nat /\ Dist(s, x) \in Nat
            /\ Dist(p, s) > 0 /\ Dist(p, x) > 0
        BY <3>3, DistType
      <4>2. Dist(p, x) <= Dist(p, s)
        <5> SUFFICES ASSUME Dist(p, s) < Dist(p, x) PROVE FALSE
          BY <4>1
        <5>1. s # x /\ Dist(s, x) = Dist(p, x) - Dist(p, s)
          BY <4>1, DistAdds
        <5>2. Dist(p, x) <= Dist(s, x)
          BY <2>1, <5>1
        <5> QED BY <4>1, <5>1, <5>2
      <4> QED BY <3>1, <3>3, <4>1, <4>2, CoversIsArc
    <3> QED BY <3>2, <3>3
  <2>3. QED BY <2>1, <2>2
<1>3. QED BY <1>1, <1>2
=============================================================================
