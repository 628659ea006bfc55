------------------------------ MODULE SortedRing ------------------------------
(***************************************************************************)
(* What the ring promises while no node fails: a circle of nodes in the    *)
(* order of their identifiers, which nodes enter and never leave.  A node  *)
(* that has started is linked into the circle later, alone or with others. *)
(***************************************************************************)
EXTENDS ChordUtil

CONSTANTS Node, First

VARIABLES started,  \* the nodes that have come up
          next      \* the node after each node of the circle
vars == <<started, next>>

\* The nodes that are linked into the circle.
ring == DOMAIN next

\* The circle of the nodes R.
Sorted(R) == [n \in R |-> CHOOSE m \in R : Follows(R, n, m)]

Init == started = {First} /\ next = Sorted({First})

Start(n) ==
  /\ n \notin started
  /\ started' = started \cup {n}
  /\ UNCHANGED next

Link(J) ==
  /\ J # {}
  /\ next' = Sorted(ring \cup J)
  /\ UNCHANGED started

Next == \/ \E n \in Node : Start(n)
        \/ \E J \in SUBSET (started \ ring) : Link(J)

Spec == Init /\ [][Next]_vars

\* No node stays outside for ever.
AllLinked == \A n \in Node : n \in started ~> n \in ring
=============================================================================
