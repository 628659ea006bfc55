------------------------------ MODULE ChordUtil ------------------------------
(***************************************************************************)
(* The identifier circle of the Chord ring.  A shard identifier is a Java  *)
(* int, and "one further" or "one back" on the circle is the int operation *)
(* that wraps around at the ends.  Util.withinInterval decides every       *)
(* question of position: who is responsible for an identifier, whether a   *)
(* predecessor is closer, which finger to follow.                          *)
(***************************************************************************)
EXTENDS Integers

CONSTANT INT_MAX   \* Integer.MAX_VALUE; 2^31 - 1 in the code

ASSUME IntAssumption == INT_MAX \in Nat \ {0}

\* Two's complement: there is one more negative value than positive ones.
INT_MIN == -INT_MAX - 1

\* The values of a Java int, which are the identifiers of the circle.
Id == INT_MIN .. INT_MAX

RingSize == INT_MAX - INT_MIN + 1

\* id + 1 and id - 1 in int arithmetic.
plus1(id) == IF id = INT_MAX THEN INT_MIN ELSE id + 1
minus1(id) == IF id = INT_MIN THEN INT_MAX ELSE id - 1

\* Operators named ...Mistaken are plausible errors in the operator that follows;
\* PROJECT.json says which property notices each of them.
withinIntervalMistaken(identifier, intervalStart, intervalEnd) ==
  identifier >= intervalStart /\ identifier <= intervalEnd

\* Util.withinInterval.
withinInterval(identifier, intervalStart, intervalEnd) ==
  IF intervalStart < intervalEnd
  THEN identifier >= intervalStart /\ identifier <= intervalEnd
  ELSE identifier >= intervalStart \/ identifier <= intervalEnd

\* The two intervals ChordNode asks about: (n, s], the identifiers that s is
\* the successor of when s follows n, and (n, s), where a closer node lies.
covers(n, s, identifier) == withinInterval(identifier, plus1(n), s)
closerMistaken(n, s, x) == withinInterval(x, n, s)
closer(n, s, x) == withinInterval(x, plus1(n), minus1(s))

-----------------------------------------------------------------------------
(* Reference definitions, for the properties only. *)

\* How far one has to walk clockwise from a to reach b.
Dist(a, b) == IF b >= a THEN b - a ELSE b - a + RingSize

\* x lies strictly inside the arc that runs clockwise from a to b; the arc
\* from a to itself is the whole circle.
Between(a, x, b) == IF a < b THEN a < x /\ x < b ELSE x > a \/ x < b

\* Of the identifiers R, m is the first one clockwise from n.
Follows(R, n, m) == /\ m = n => R = {n}
                    /\ \A k \in R : ~Between(n, k, m) \/ k = n

\* No two identifiers of S are within two of each other on the circle.
Spaced(S) == \A a, b \in S : a # b => Dist(a, b) >= 3
=============================================================================
