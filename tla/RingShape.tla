------------------------------ MODULE RingShape ------------------------------
(***************************************************************************)
(* The shape the successor pointers of ChordRing give the ring as a whole, *)
(* the abstract ring they implement, and what the stabilizers bring about. *)
(***************************************************************************)
EXTENDS ChordRing

\* The nodes on the way along successor pointers from First; First is one of
\* them only if that way is a circle.
Ring == {m \in Up : \A S \in SUBSET (Up \ {m}) : successor[First] \in S => ~Closed(S)}

SR == INSTANCE SortedRing WITH started <- Up, next <- [n \in Ring |-> successor[n]]

\* The nodes S are members, their stabilizers between two rounds, and nobody else has
\* been started.
AtRest(S) ==
  LET member(in, out) == [n \in Node |-> IF n \in S THEN in ELSE out]
  IN
  /\ status = member("up", "down")
  /\ pc = member("stabilize", "idle")
  /\ stub = [n \in Node |-> Null]
  /\ x = [n \in Node |-> Null]
  /\ entry = [n \in Node |-> Null]
  /\ want = [n \in Node |-> {}]

\* A state that joins and stabilizers come to: the nodes S form a ring, and j has
\* joined it last.  The lists are fresh but for that of the node before j, which
\* has adopted j and does not refresh its own.
Settled(S, j) ==
  LET succ == SR!Sorted(S)
      old == SR!Sorted(S \ {j})
      list(n, next) == [i \in {0, 1} |-> IF i = 0 THEN next[n]
                                        ELSE IF next[next[n]] = next[n] THEN Null
                                        ELSE next[next[n]]]
  IN
  /\ AtRest(S)
  /\ successor = [n \in Node |-> IF n \in S THEN succ[n] ELSE n]
  /\ predecessor = [n \in Node |-> IF n \in S THEN CHOOSE m \in S : succ[m] = n ELSE Null]
  /\ successorList = [n \in Node |-> IF n \notin S THEN EmptyList
                                    ELSE IF succ[n] = j THEN list(n, old) ELSE list(n, succ)]

\* The nodes S have all joined First while it was alone.  Their stabilizers have done
\* nothing since but what makes succ their successors and p the predecessor of First.
JustJoined(S, succ, p) ==
  /\ AtRest(S)
  /\ successor = [n \in Node |-> IF n \in S THEN succ[n] ELSE n]
  /\ predecessor = [n \in Node |-> IF n = First THEN p ELSE Null]
  /\ successorList = [n \in Node |-> IF n \in S THEN [EmptyList EXCEPT ![0] = First] ELSE EmptyList]

\* While no node crashes, the successor pointers that make up the ring are at
\* every moment those of a sorted circle, no lookup can be led past a member, and
\* no member ever drops out again while stabilize rewires its neighbours.
ImplementsSortedRing == SR!Spec

\* What makes it inductive: First is in the ring, and no node of the
\* ring lies between another one and its successor.
RingSorted ==
  /\ First \in Ring
  /\ \A n \in Ring : successor[n] \in Ring /\ Follows(Ring, n, successor[n])

\* Every node whose join succeeds is linked into the ring in the end: the entry
\* node finds it, and so do the lookups of all the others.
AllLinked == SR!AllLinked

\* Successors and predecessors are those of the sorted circle of all nodes.
Ideal ==
  \A n \in Up :
    /\ successor[n] = SR!Sorted(Up)[n]
    /\ predecessor[SR!Sorted(Up)[n]] = n

\* If no node ever crashes, stabilization ends: from some moment on all pointers
\* are right and stay right, predecessors too, although of two notifyPredecessor
\* calls at once the one from further away may be stored last, and the node in
\* between be forgotten until it notifies again.
Converges == <>[](Ideal \/ \E n \in Node : status[n] = "crashed")

\* A join succeeds or exits, if no other node crashes under way.  The walk along the ring
\* ends only where it meets the successor of the joining node, or the node itself; while
\* neither is linked into the ring yet, it goes round and round until the stabilizers of
\* others have done so.
JoinDecides == \A n \in Node : []<>(status[n] # "joining")

\* ChordNode.java:64 "List of successors to check in case of failure": whatever
\* crashes, in the end the successor of every live node is alive.
RingRecovers == <>[](\A n \in Up : successor[n] \in Up)
=============================================================================
