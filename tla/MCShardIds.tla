------------------------------ MODULE MCShardIds ------------------------------
(***************************************************************************)
(* The arithmetic of the identifier circle over every input of a four-bit  *)
(* int, with a long of eight bits and bytes of one.  The variables are     *)
(* inputs: a and b are picked once and c then walks around the circle, so  *)
(* that every triple of identifiers is a state.                            *)
(***************************************************************************)
EXTENDS ShardIds

VARIABLES a, b, c
vars == <<a, b, c>>

Init == a \in Id /\ b \in Id /\ c = INT_MIN
Next == c' = plus1(c) /\ UNCHANGED <<a, b>>
Spec == Init /\ [][Next]_vars

\* withinInterval decides membership in the arc that runs clockwise from one
\* identifier to a different one, both ends included, wherever the circle wraps.
IntervalIsArc ==
  a # b => (withinInterval(c, a, b) <=> Dist(a, c) <= Dist(a, b))

\* What stabilize and notifyPredecessor ask with shardid+1 and shardid-1 as the
\* ends is whether c lies strictly between two nodes, and what findPredecessor
\* asks is whether b is the first of the two at or after c: both hold only
\* because the nodes are at least three apart (or the same).
NodeIntervals ==
  (a = b \/ Dist(a, b) >= 3) =>
    /\ closer(a, b, c) <=> c # a /\ (a # b => Dist(a, c) < Dist(a, b))
    /\ covers(a, b, c) <=> a = b \/ (c # a /\ Dist(a, c) <= Dist(a, b))

\* intHash never maps two inputs to one identifier, although the product inside
\* it overflows a long: two hosts with different addresses get different shards.
IntHashOneToOne == a # b => intHash(a) # intHash(b)

\* Reading an address back from its four signed bytes loses nothing, and so
\* different addresses give different shard identifiers.
AddressBytesKept ==
  /\ ipByteArrayToInt(intToByteArray(c)) = c
  /\ intToByteArray(c) \in [1 .. 4 -> Byte]
  /\ a # c => inetAddressToShardId(intToByteArray(a)) # inetAddressToShardId(intToByteArray(c))

\* Hash prefixes that differ give identifiers that differ; the upper half of the
\* prefixes are the negative identifiers.
PrefixesKept ==
  LET digits(id) == id - INT_MIN
  IN  /\ a # b => hexStringToIdentifier(digits(a)) # hexStringToIdentifier(digits(b))
      /\ hexStringToIdentifier(digits(a)) < 0 <=> digits(a) > INT_MAX

\* A finger looks for the identifier 2^(i-1) clockwise from its node, with no
\* overflow in between.
FingerStarts ==
  \A i \in 1 .. NUM_FINGERS - 1 : Dist(a, computeIdToFind(a, i)) = 2 ^ (i - 1)
=============================================================================
