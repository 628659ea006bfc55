----------------------------- MODULE ChordLookup -----------------------------
(***************************************************************************)
(* Lookups and the fingers that shorten them.  After each round of         *)
(* stabilize the same thread corrects one finger by a lookup from its own  *)
(* node; a node that joins has its entry node look up its successor.  A    *)
(* lookup goes from node to node by remote calls, while the pointers and   *)
(* fingers it follows are changed under way.                               *)
(*                                                                         *)
(* The ring is that of ChordRing, whose JoinFind and JoinTable choose among*)
(* all nodes on a successor path; here the lookups decide.                 *)
(***************************************************************************)
EXTENDS RingShape, ShardIds

VARIABLES finger,              \* fingerTable from index 1; successor is index 0
          fingerIndexToUpdate,
          lookup               \* of each thread: where it is, what it looks for

lookupVars == <<finger, fingerIndexToUpdate, lookup>>
allVars == <<vars, lookupVars>>

FingerIndex == 1 .. NUM_FINGERS - 1

\* No lookup under way.
Idle == [pc |-> "idle", at |-> Null, id |-> 0]

Looking(t, step) == lookup[t].pc = step

\* findPredecessor runs at the entry node for a node that joins, and otherwise in
\* the stabilizer itself.
Host(t) == IF status[t] = "joining" THEN entry[t] ELSE t

\* fingerTable[i] of m.
fingerAt(m, i) == IF i = 0 THEN successor[m] ELSE finger[m][i]

fingerTable(m) == {successor[m]} \cup {finger[m][i] : i \in FingerIndex}

-----------------------------------------------------------------------------
(* findPredecessor, one remote call after another. *)

Begin(t, n, identifier) ==
  lookup' = [lookup EXCEPT ![t] = [pc |-> "test", at |-> n, id |-> identifier]]

End(t) == lookup' = [lookup EXCEPT ![t] = Idle]

\* The indices that closestPrecedingFinger(identifier) at m may return.
Preceding(m, identifier) ==
  {i \in FingerIndex : Contactable(finger[m][i]) /\ closer(m, identifier, finger[m][i])}

\* The ends of the interval are mixed up.
closestPrecedingFingerMistaken(m, identifier) ==
  LET P == {i \in FingerIndex : Contactable(finger[m][i]) /\ closer(identifier, m, finger[m][i])} IN
  IF P # {} THEN finger[m][CHOOSE i \in P : \A j \in P : i >= j]
  ELSE IF Contactable(successor[m]) /\ closer(identifier, m, successor[m]) THEN successor[m]
  ELSE m

\* The finger with the highest index that precedes the identifier and answers;
\* the node itself if there is none.
closestPrecedingFinger(m, identifier) ==
  LET P == Preceding(m, identifier) IN
  IF P # {} THEN finger[m][CHOOSE i \in P : \A j \in P : i >= j]
  ELSE IF Contactable(successor[m]) /\ closer(m, identifier, successor[m]) THEN successor[m]
  ELSE m

\* A call fails, at a dead node ...
NoAnswer(t) == ~Contactable(Host(t)) \/ ~Contactable(lookup[t].at)

\* ... or in a NullPointerException there: the scan comes to a null before a finger.
NullMet(l) ==
  \/ l.pc = "test" /\ successor[l.at] = Null
  \/ /\ l.pc = "hop"
     /\ \E i \in 0 .. NUM_FINGERS - 1 :
          fingerAt(l.at, i) = Null /\ \A j \in Preceding(l.at, l.id) : j < i

\* The ends of the interval are mixed up.
ResponsibleMistaken(l) == successor[l.at] # Null /\ covers(successor[l.at], l.at, l.id)

\* The condition of the loop.
Responsible(l) == successor[l.at] # Null /\ covers(l.at, successor[l.at], l.id)

LookupTest(t) ==
  /\ Contactable(t) /\ Looking(t, "test") /\ ~NoAnswer(t) /\ ~NullMet(lookup[t])
  /\ ~Responsible(lookup[t])
  /\ lookup' = [lookup EXCEPT ![t].pc = "hop"]
  /\ UNCHANGED <<vars, finger, fingerIndexToUpdate>>

LookupHop(t) ==
  /\ Contactable(t) /\ Looking(t, "hop") /\ ~NoAnswer(t) /\ ~NullMet(lookup[t])
  /\ Begin(t, closestPrecedingFinger(lookup[t].at, lookup[t].id), lookup[t].id)
  /\ UNCHANGED <<vars, finger, fingerIndexToUpdate>>

-----------------------------------------------------------------------------
(* fixFingers, in the stabilizer thread. *)

\* The last finger is never corrected.
nextFingerIndexMistaken(i) == IF i >= NUM_FINGERS - 2 THEN 1 ELSE i + 1

\* One finger more than there are.
nextFingerIndexPast(i) == IF i >= NUM_FINGERS THEN 1 ELSE i + 1

\* Scan 1 to NUM_FINGERS - 1; randomFingerUpdate is never set.
nextFingerIndex(i) == IF i >= NUM_FINGERS - 1 THEN 1 ELSE i + 1

\* A step of stabilize, and of fixFingers when the round is over.
StabilizeRound(n) ==
  /\ Looking(n, "idle")
  /\ Round(n)
  /\ IF pc'[n] = "stabilize" /\ Contactable(n)
     THEN LET i == nextFingerIndex(fingerIndexToUpdate[n]) IN
          /\ fingerIndexToUpdate' = [fingerIndexToUpdate EXCEPT ![n] = i]
          /\ Begin(n, n, computeIdToFind(n, i))
     ELSE UNCHANGED <<fingerIndexToUpdate, lookup>>
  /\ UNCHANGED finger

\* The predecessor is found ...
FixFound(n) ==
  /\ status[n] = "up" /\ Looking(n, "test") /\ ~NoAnswer(n)
  /\ Responsible(lookup[n])
  /\ lookup' = [lookup EXCEPT ![n].pc = "reread"]
  /\ UNCHANGED <<vars, finger, fingerIndexToUpdate>>

\* ... and asked for its successor once more.
FixSet(n) ==
  LET s == successor[lookup[n].at] IN
  /\ status[n] = "up" /\ Looking(n, "reread") /\ ~NoAnswer(n) /\ Contactable(s)
  /\ finger' = [finger EXCEPT ![n][fingerIndexToUpdate[n]] = s]
  /\ End(n)
  /\ UNCHANGED <<vars, fingerIndexToUpdate>>

\* A RemoteException is not caught.
FixFailsMistaken(n) ==
  /\ status[n] = "up" /\ ~Looking(n, "idle") /\ NoAnswer(n)
  /\ pc' = [pc EXCEPT ![n] = "dead"]
  /\ End(n)
  /\ UNCHANGED <<status, pointers, locals, finger, fingerIndexToUpdate>>

\* A RemoteException is logged.
FixFails(n) ==
  /\ status[n] = "up"
  /\ \/ ~Looking(n, "idle") /\ NoAnswer(n)
     \/ Looking(n, "reread") /\ ~NoAnswer(n) /\ ~Contactable(successor[lookup[n].at])
  /\ End(n)
  /\ UNCHANGED <<vars, finger, fingerIndexToUpdate>>

\* A NullPointerException ends the thread.
FixDies(n) ==
  /\ status[n] = "up" /\ ~Looking(n, "idle") /\ ~NoAnswer(n) /\ NullMet(lookup[n])
  /\ pc' = [pc EXCEPT ![n] = "dead"]
  /\ End(n)
  /\ UNCHANGED <<status, pointers, locals, finger, fingerIndexToUpdate>>

-----------------------------------------------------------------------------
(* The thread that joins. *)

LookupJoinStart(n, e) ==
  /\ JoinStart(n, e)
  /\ Begin(n, e, n)
  /\ UNCHANGED <<finger, fingerIndexToUpdate>>

\* findSuccessor has found a node whose successor is responsible for n.
LookupJoinFind(n) ==
  /\ status[n] = "joining" /\ Looking(n, "test") /\ ~NoAnswer(n) /\ Responsible(lookup[n])
  /\ stub' = [stub EXCEPT ![n] = lookup[n].at]
  /\ pc' = [pc EXCEPT ![n] = "reread"]
  /\ End(n)
  /\ UNCHANGED <<status, pointers, x, entry, want, finger, fingerIndexToUpdate>>

\* JoinTable, where the nodes to find are those of the successor's finger table as
\* it is now.
LookupJoinTable(n) ==
  LET s == successor[n] IN
  /\ pc[n] = "table" /\ Contactable(n)
  /\ Contactable(s) /\ successor[s] # Null
  /\ want' = [want EXCEPT ![n] = (fingerTable(s) \cup {entry[n]}) \ {s}]
  /\ stub' = [stub EXCEPT ![n] = successor[s]]
  /\ pc' = [pc EXCEPT ![n] = "walk"]
  /\ UNCHANGED <<status, pointers, x, entry, lookupVars>>

LookupJoinOn(n) ==
  /\ \/ JoinReread(n) \/ JoinWalk(n) \/ JoinRefresh(n)
     \/ pc[n] # "find" /\ JoinExit(n)
  /\ UNCHANGED lookupVars

LookupJoinFails(n) ==
  /\ status[n] = "joining" /\ ~Looking(n, "idle")
  /\ NoAnswer(n) \/ NullMet(lookup[n])
  /\ Exit(n)
  /\ End(n)
  /\ UNCHANGED <<finger, fingerIndexToUpdate>>

-----------------------------------------------------------------------------

LookupInit ==
  /\ Init
  /\ finger = [n \in Node |-> [i \in FingerIndex |-> n]]
  /\ fingerIndexToUpdate = [n \in Node |-> 0]
  /\ lookup = [n \in Node |-> Idle]

\* The member responsible for an identifier.
ResponsibleOf(S, id) == CHOOSE m \in S : \A k \in S : Dist(id, m) <= Dist(id, k)

\* A settled ring in which everyone has been through all fingers since.
LookupSettled(S, j) ==
  /\ Settled(S, j)
  /\ finger = [n \in Node |-> [i \in FingerIndex |->
                 IF n \in S THEN ResponsibleOf(S, computeIdToFind(n, i)) ELSE n]]
  /\ fingerIndexToUpdate = [n \in Node |-> IF n \in S THEN NUM_FINGERS - 1 ELSE 0]
  /\ lookup = [n \in Node |-> Idle]

Find(n) == LookupTest(n) \/ LookupHop(n)

LookupJoin(n) == \/ LookupJoinFind(n) \/ LookupJoinTable(n)
                 \/ LookupJoinOn(n) \/ LookupJoinFails(n)

Fix(n) == FixFound(n) \/ FixSet(n) \/ FixFails(n) \/ FixDies(n)

\* The one thread of a node that runs join and is its stabilizer from then on.
Thread(n) == Find(n) \/ LookupJoin(n) \/ StabilizeRound(n) \/ Fix(n)

LookupNext ==
  \/ \E n \in Node : Thread(n)
  \/ \E n \in Node, e \in Up : LookupJoinStart(n, e)
  \/ \E n \in Crashers : Crash(n) /\ UNCHANGED lookupVars

LookupSpec == LookupInit /\ [][LookupNext]_allVars

LookupFairness == \A n \in Node : WF_allVars(Thread(n))
LookupFairSpec == LookupSpec /\ LookupFairness
-----------------------------------------------------------------------------
(* Properties. *)

LookupTypeOK ==
  /\ TypeOK
  /\ finger \in [Node -> [FingerIndex -> NodeOrNull]]
  /\ fingerIndexToUpdate \in [Node -> 0 .. NUM_FINGERS - 1]
  /\ lookup \in [Node -> [pc : {"idle", "test", "hop", "reread"}, at : NodeOrNull, id : Id]]

\* What ChordRing takes a lookup and a finger table to be is what they are: the
\* node a join finds lies on the successor path of its entry node, and the nodes
\* a join must meet on that of its successor, or they have crashed.
ImplementsRing == [][Next]_vars

\* A join that gives up is forgotten by lookups too: whatever they read of others under
\* way, they are only ever at nodes that have come through their join, and so are the
\* fingers; one that has never been set is the node itself.
FingersKnown ==
  \A n \in Node :
    /\ \A i \in FingerIndex : finger[n][i] \in Started \cup {n}
    /\ ~Looking(n, "idle") => lookup[n].at \in Started

\* No hop leads away from the identifier: it ends at a node strictly between the
\* node it started from and the identifier, or leads nowhere.
HopsCloser ==
  [][\A t \in Node :
       Looking(t, "hop") /\ lookup'[t].pc = "test"
         => LET m == lookup[t].at  next == lookup'[t].at  id == lookup[t].id IN
            next = m \/ Between(m, next, id)]_allVars

\* What makes it hold: the interval of closestPrecedingFinger is the whole circle for
\* an identifier one or two after the node, and a hop never starts there.
HopsApart ==
  \A t \in Node :
    Looking(t, "hop") => /\ lookup[t].at \in Node
                         /\ lookup[t].id \notin {plus1(lookup[t].at), plus1(plus1(lookup[t].at))}

\* A process begins, and a join goes on, without a lookup under way.
LookupFits ==
  \A n \in Node : status[n] = "down" \/ (status[n] = "joining" /\ pc[n] # "find")
                  => Looking(n, "idle")

\* What makes ImplementsRing hold while no node crashes: a finger, and the node a lookup
\* is at, are never off the successor path they are supposed to shorten, although the
\* pointers change after they have been read; and a node that joins looks for itself.
OnPath ==
  \A n \in Node :
    /\ \A i \in FingerIndex :
         finger[n][i] \in IF n \in Started THEN Path(n) ELSE {n}
    /\ ~Looking(n, "idle") => /\ Host(n) \in Started
                              /\ lookup[n].at \in Path(Host(n))
                              /\ status[n] = "joining" => lookup[n].id = n

\* A thread that looks something up comes to an end of it.
LookupsEnd == \A t \in Node : lookup[t].pc # "idle" ~> lookup[t].pc = "idle"

\* Every finger of every member is the first member at or after its start.
FingersRight ==
  \A n \in Up : \A i \in FingerIndex :
    finger[n][i] = ResponsibleOf(Up, computeIdToFind(n, i))
FingersSettle == <>[]FingersRight
=============================================================================
