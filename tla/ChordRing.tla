------------------------------ MODULE ChordRing ------------------------------
(***************************************************************************)
(* How the ring of file lockers forms and is kept up: nodes join through   *)
(* an entry node, then a stabilizer thread in each of them corrects its    *)
(* successor, tells the successor about itself, and falls back on a list   *)
(* of successors when the successor is dead.  A node is a process; what it *)
(* asks of another is a remote call, and every remote call is a step of    *)
(* its own, so that the other threads run between any two of them.  The    *)
(* calls of a node run in its RMI threads, without any lock.               *)
(*                                                                         *)
(* fingerTable[0] is the successor.  The other fingers only shorten        *)
(* lookups: a lookup may stop at whatever node the successor pointers lead *)
(* to from where it starts.  refreshSuccessors is one step.                *)
(***************************************************************************)
EXTENDS ChordUtil, FiniteSets

CONSTANTS Node,      \* the hosts, named by their shard identifiers
          First,     \* the host started as its own entry node
          Crashers,  \* the hosts that may stop without a word
          Null       \* Java's null

\* Identifiers are hash values; two hosts with nearly the same one are left out,
\* because withinInterval does not tell an empty interval from the full circle.
ASSUME NodeAssumption == /\ Node \subseteq Id
                         /\ Spaced(Node)
                         /\ First \in Node
                         /\ Crashers \subseteq Node
                         /\ Null \notin Id

VARIABLES status,         \* of the process: down, joining, up or crashed
          successor,      \* fingerTable[0]
          predecessor,
          successorList,  \* REPLICATION_FACTOR entries, some may be null
          pc,             \* where the thread that joins, then stabilizes, is
          stub,           \* the node that thread is talking to
          x,              \* the candidate successor stabilize has read
          entry,          \* existingLocation, the node joined through
          want            \* nodesToFind, the nodes the walk must still meet

pointers == <<successor, predecessor, successorList>>
locals == <<stub, x, entry, want>>
vars == <<status, pc, pointers, locals>>

NodeOrNull == Node \cup {Null}

\* Naming.lookup and getLocation succeed from the constructor on; for a null
\* location getChordNode throws as it does for a dead node.
Contactable(n) == n \in Node /\ status[n] \in {"joining", "up"}

Up == {n \in Node : status[n] = "up"}

EmptyList == [i \in {0, 1} |-> Null]

-----------------------------------------------------------------------------
(* Operations that several actions call. *)

\* One entry too many.
RefreshMistaken(s0, succ, old) ==
  IF s0 = Null THEN [list |-> old, out |-> "npe"]
  ELSE [list |-> [i \in 0 .. 2 |-> IF i = 0 THEN s0 ELSE succ[s0]], out |-> "ok"]

\* What refreshSuccessors(0) leaves in a successorList that was old, when s0 is
\* the successor it starts from and succ the successors of all: the new list and
\* whether it returns, or throws a RemoteException or a NullPointerException.
\* Both nodes are contacted, the last one without need of what it answers.
Refresh(s0, succ, old) ==
  LET s1 == succ[s0]
      kept(out) == [list |-> [old EXCEPT ![0] = s0], out |-> out]
  IN  IF s0 = Null THEN [list |-> old, out |-> "npe"]
      ELSE IF ~Contactable(s0) THEN kept("remote")
      ELSE IF s1 = Null THEN kept("npe")
      ELSE IF s1 = s0 THEN [list |-> [EmptyList EXCEPT ![0] = s0], out |-> "ok"]
      ELSE [list |-> [i \in {0, 1} |-> IF i = 0 THEN s0 ELSE s1],
            out |-> IF Contactable(s1) THEN "ok" ELSE "remote"]

\* refreshSuccessors at node p, as a remote call or a local one.
RefreshAt(p) == Refresh(successor[p], successor, successorList[p])

\* Any exception ends the thread.
UpdateSuccessorMistaken(n, next) ==
  LET s == successorList[n][1]
      succ == [successor EXCEPT ![n] = s]
      r == Refresh(s, succ, successorList[n])
  IN  /\ successor' = succ
      /\ successorList' = [successorList EXCEPT ![n] = r.list]
      /\ pc' = [pc EXCEPT ![n] = IF r.out = "ok" THEN next ELSE "dead"]

\* updateSuccessor at n, whose thread then goes on at next: the only entry of the
\* list that is tried is the second one.  A NullPointerException inside it ends
\* the stabilizer thread, which catches nothing but an interrupt.
UpdateSuccessor(n, next) ==
  LET s == successorList[n][1]
      succ == [successor EXCEPT ![n] = s]
      r == Refresh(s, succ, successorList[n])
  IN  /\ successor' = succ
      /\ successorList' = [successorList EXCEPT ![n] = r.list]
      /\ pc' = [pc EXCEPT ![n] = IF r.out = "npe" THEN "dead" ELSE next]

\* The nodes the successor pointers lead to from n, n included: those in every
\* set that holds n and is closed under successor.
Closed(S) == \A m \in S : successor[m] \in S \cup {Null}
Path(n) == {m \in Node : \A S \in SUBSET Node : n \in S /\ Closed(S) => m \in S}

\* The fingers a node may hold: results of its own lookups, perhaps stale.
Fingers(n) == Path(n) \cup {m \in Node : status[m] = "crashed"}

\* System.exit(1): the process is gone, and may be started again.
Exit(n) ==
  /\ status' = [status EXCEPT ![n] = "down"]
  /\ successor' = [successor EXCEPT ![n] = n]
  /\ predecessor' = [predecessor EXCEPT ![n] = Null]
  /\ successorList' = [successorList EXCEPT ![n] = EmptyList]
  /\ pc' = [pc EXCEPT ![n] = "idle"]
  /\ stub' = [stub EXCEPT ![n] = Null]
  /\ entry' = [entry EXCEPT ![n] = Null]
  /\ want' = [want EXCEPT ![n] = {}]
  /\ UNCHANGED x
-----------------------------------------------------------------------------
(* The thread that runs join. *)

\* A new process: the constructor has filled the finger table with the node
\* itself and bound it in the RMI registry, join has its predecessor null.
JoinStart(n, e) ==
  /\ status[n] = "down"
  /\ status' = [status EXCEPT ![n] = "joining"]
  /\ pc' = [pc EXCEPT ![n] = "find"]
  /\ entry' = [entry EXCEPT ![n] = e]
  /\ UNCHANGED <<pointers, stub, x, want>>

\* findSuccessor, at the entry node: findPredecessor stops at a node p whose
\* successor p holds responsible for n.
JoinFind(n) ==
  /\ pc[n] = "find" /\ Contactable(n) /\ Contactable(entry[n])
  /\ \E p \in Path(entry[n]) :
       /\ Contactable(p) /\ successor[p] # Null
       /\ covers(p, successor[p], n)
       /\ stub' = [stub EXCEPT ![n] = p]
  /\ pc' = [pc EXCEPT ![n] = "reread"]
  /\ UNCHANGED <<status, pointers, x, entry, want>>

\* The successor is told at once, before the join is known to succeed.
JoinRereadMistaken(n) ==
  /\ pc[n] = "reread" /\ Contactable(n) /\ Contactable(entry[n])
  /\ Contactable(stub[n]) /\ Contactable(successor[stub[n]])
  /\ successor' = [successor EXCEPT ![n] = successor[stub[n]]]
  /\ predecessor' = [predecessor EXCEPT ![successor[stub[n]]] = n]
  /\ stub' = [stub EXCEPT ![n] = Null]
  /\ pc' = [pc EXCEPT ![n] = "table"]
  /\ UNCHANGED <<status, successorList, x, entry, want>>

\* ... and then asks p for its successor a second time.
JoinReread(n) ==
  /\ pc[n] = "reread" /\ Contactable(n) /\ Contactable(entry[n])
  /\ Contactable(stub[n]) /\ Contactable(successor[stub[n]])
  /\ successor' = [successor EXCEPT ![n] = successor[stub[n]]]
  /\ stub' = [stub EXCEPT ![n] = Null]
  /\ pc' = [pc EXCEPT ![n] = "table"]
  /\ UNCHANGED <<status, predecessor, successorList, x, entry, want>>

\* The entry node is not among the nodes to find.
JoinTableMistaken(n) ==
  LET s == successor[n] IN
  /\ pc[n] = "table" /\ Contactable(n)
  /\ Contactable(s) /\ successor[s] # Null
  /\ \E fingers \in SUBSET Fingers(s) :
       want' = [want EXCEPT ![n] = (fingers \cup {successor[s]}) \ {s}]
  /\ stub' = [stub EXCEPT ![n] = successor[s]]
  /\ pc' = [pc EXCEPT ![n] = "walk"]
  /\ UNCHANGED <<status, pointers, x, entry>>

\* The nodes to find are the fingers of the successor and the entry node; the
\* walk starts at the successor's successor.
JoinTable(n) ==
  LET s == successor[n] IN
  /\ pc[n] = "table" /\ Contactable(n)
  /\ Contactable(s) /\ successor[s] # Null
  /\ \E fingers \in SUBSET Fingers(s) :
       want' = [want EXCEPT ![n] = (fingers \cup {successor[s], entry[n]}) \ {s}]
  /\ stub' = [stub EXCEPT ![n] = successor[s]]
  /\ pc' = [pc EXCEPT ![n] = "walk"]
  /\ UNCHANGED <<status, pointers, x, entry>>

\* Only coming back to n ends the walk.
WalkEndsMistaken(n) == successor[stub[n]] = n

\* One round of the walk comes back to where it began, or to n itself.
WalkEnds(n) == successor[stub[n]] \in {n, successor[n]}

JoinWalk(n) ==
  /\ pc[n] = "walk" /\ Contactable(n)
  /\ Contactable(stub[n]) /\ successor[stub[n]] # Null
  /\ want' = [want EXCEPT ![n] = @ \ {stub[n]}]
  /\ IF WalkEnds(n)
     THEN /\ want[n] \subseteq {stub[n]}
          /\ stub' = [stub EXCEPT ![n] = Null]
          /\ pc' = [pc EXCEPT ![n] = "refresh"]
     ELSE /\ stub' = [stub EXCEPT ![n] = successor[stub[n]]]
          /\ UNCHANGED pc
  /\ UNCHANGED <<status, pointers, x, entry>>

\* refreshSuccessors(0); the stabilizer thread starts.
JoinRefresh(n) ==
  LET r == RefreshAt(n) IN
  /\ pc[n] = "refresh" /\ Contactable(n)
  /\ r.out = "ok"
  /\ successorList' = [successorList EXCEPT ![n] = r.list]
  /\ status' = [status EXCEPT ![n] = "up"]
  /\ pc' = [pc EXCEPT ![n] = "stabilize"]
  /\ entry' = [entry EXCEPT ![n] = Null]
  /\ UNCHANGED <<successor, predecessor, stub, x, want>>

\* A remote call of the lookup may also fail at a node it has just been led to.
LookupFails(n) ==
  \/ ~Contactable(entry[n])
  \/ \E m \in Node : status[m] = "crashed"
  \/ \E p \in Path(entry[n]) : Contactable(p) /\ successor[p] = Null

JoinFails(n) ==
  \/ pc[n] = "find" /\ LookupFails(n)
  \/ pc[n] = "reread" /\ ~(/\ Contactable(entry[n]) /\ Contactable(stub[n])
                          /\ Contactable(successor[stub[n]]))
  \/ pc[n] = "table" /\ ~(Contactable(successor[n]) /\ successor[successor[n]] # Null)
  \/ pc[n] = "walk" /\ ~(Contactable(stub[n]) /\ successor[stub[n]] # Null)
  \/ pc[n] = "walk" /\ WalkEnds(n) /\ ~(want[n] \subseteq {stub[n]})
  \/ pc[n] = "refresh" /\ RefreshAt(n).out # "ok"

JoinExit(n) == Contactable(n) /\ JoinFails(n) /\ Exit(n)
-----------------------------------------------------------------------------
(* The stabilizer thread: one round of stabilize after another. *)

\* The predecessor of the successor is adopted wherever it lies.
StabilizeReadMistaken(n) ==
  LET s == successor[n]
      p == predecessor[s]
  IN
  /\ pc[n] = "stabilize" /\ Contactable(n) /\ Contactable(s)
  /\ stub' = [stub EXCEPT ![n] = s]
  /\ IF p \notin {n, Null}
     THEN /\ x' = [x EXCEPT ![n] = p]
          /\ pc' = [pc EXCEPT ![n] = "adopt"]
     ELSE /\ pc' = [pc EXCEPT ![n] = "notify"]
          /\ UNCHANGED x
  /\ UNCHANGED <<status, pointers, entry, want>>

\* The successor answers: ask it for its predecessor, which is to be adopted if
\* it lies between n and its successor.
StabilizeRead(n) ==
  LET s == successor[n]
      p == predecessor[s]
  IN
  /\ pc[n] = "stabilize" /\ Contactable(n) /\ Contactable(s)
  /\ stub' = [stub EXCEPT ![n] = s]
  /\ IF p # Null /\ closer(n, s, p)
     THEN /\ x' = [x EXCEPT ![n] = p]
          /\ pc' = [pc EXCEPT ![n] = "adopt"]
     ELSE /\ pc' = [pc EXCEPT ![n] = "notify"]
          /\ UNCHANGED x
  /\ UNCHANGED <<status, pointers, entry, want>>

\* The successor does not answer: take the next of the list, which is then the
\* one to notify if it answers; if not, there is nobody to notify, or still the
\* old successor, when that one died after it had been looked up.
StabilizeRecover(n) ==
  /\ pc[n] = "stabilize" /\ Contactable(n) /\ ~Contactable(successor[n])
  /\ UpdateSuccessor(n, "notify")
  /\ \E s \in IF Contactable(successor'[n]) THEN {successor'[n]} ELSE {Null, successor[n]} :
       stub' = [stub EXCEPT ![n] = s]
  /\ UNCHANGED <<status, predecessor, x, entry, want>>

StabilizeAdopt(n) ==
  /\ pc[n] = "adopt" /\ Contactable(n)
  /\ successor' = [successor EXCEPT ![n] = x[n]]
  /\ x' = [x EXCEPT ![n] = Null]
  /\ pc' = [pc EXCEPT ![n] = "tell"]
  /\ UNCHANGED <<status, predecessor, successorList, stub, entry, want>>

\* After an adoption the lists of the two nodes before n are refreshed, the one
\* of n itself is not.  A RemoteException on the way is only logged.
StabilizeTell(n) ==
  LET p == predecessor[n]
      r == RefreshAt(p)
      q == predecessor[p]
      second == Contactable(p) /\ r.out = "ok" /\ Contactable(q)
      lists == IF Contactable(p) THEN [successorList EXCEPT ![p] = r.list]
               ELSE successorList
      npe == \/ Contactable(p) /\ r.out = "npe"
             \/ second /\ RefreshAt(q).out = "npe"
  IN
  /\ pc[n] = "tell" /\ Contactable(n)
  /\ successorList' = IF second THEN [lists EXCEPT ![q] = RefreshAt(q).list] ELSE lists
  /\ pc' = [pc EXCEPT ![n] = IF npe THEN "dead" ELSE "notify"]
  /\ UNCHANGED <<status, successor, predecessor, locals>>

\* The order of the ends of the interval is mixed up.
NotifyAcceptedMistaken(s, n) == predecessor[s] = Null \/ closer(s, predecessor[s], n)

\* notifyPredecessor, in an RMI thread of the node stub[n]: the check ...
NotifyAccepted(s, n) == predecessor[s] = Null \/ closer(predecessor[s], s, n)

NotifyCheck(n) ==
  /\ pc[n] = "notify" /\ Contactable(n) /\ Contactable(stub[n])
  /\ IF NotifyAccepted(stub[n], n)
     THEN /\ pc' = [pc EXCEPT ![n] = "setPredecessor"]
          /\ UNCHANGED stub
     ELSE /\ pc' = [pc EXCEPT ![n] = "stabilize"]
          /\ stub' = [stub EXCEPT ![n] = Null]
  /\ UNCHANGED <<status, pointers, x, entry, want>>

\* ... and the assignment, which happens even if the caller is dead by then.
NotifySet(n) ==
  /\ pc[n] = "setPredecessor" /\ Contactable(stub[n])
  /\ predecessor' = [predecessor EXCEPT ![stub[n]] = n]
  /\ stub' = [stub EXCEPT ![n] = Null]
  /\ pc' = [pc EXCEPT ![n] = "stabilize"]
  /\ UNCHANGED <<status, successor, successorList, x, entry, want>>

NotifyNobody(n) ==
  /\ pc[n] = "notify" /\ Contactable(n) /\ stub[n] = Null
  /\ pc' = [pc EXCEPT ![n] = "stabilize"]
  /\ UNCHANGED <<status, pointers, locals>>

NotifyFails(n) ==
  /\ pc[n] \in {"notify", "setPredecessor"} /\ Contactable(n)
  /\ stub[n] # Null /\ ~Contactable(stub[n])
  /\ UpdateSuccessor(n, "stabilize")
  /\ stub' = [stub EXCEPT ![n] = Null]
  /\ UNCHANGED <<status, predecessor, x, entry, want>>

\* fixFingers, after a round: a lookup that is led to a node without a successor
\* ends in a NullPointerException, and with it the thread.
FixFingersDies(n) ==
  /\ pc[n] = "stabilize" /\ Contactable(n)
  /\ \E p \in Node : Contactable(p) /\ successor[p] = Null /\ p \in Path(n)
  /\ pc' = [pc EXCEPT ![n] = "dead"]
  /\ UNCHANGED <<status, pointers, locals>>

-----------------------------------------------------------------------------
(* The system. *)

\* kill -9, or the machine is gone.
Crash(n) ==
  /\ Contactable(n)
  /\ status' = [status EXCEPT ![n] = "crashed"]
  /\ UNCHANGED <<pc, pointers, locals>>

\* First has run join on itself, with isFirstNode; nobody else is started.
Init ==
  /\ status = [n \in Node |-> IF n = First THEN "up" ELSE "down"]
  /\ successor = [n \in Node |-> n]
  /\ predecessor = [n \in Node |-> Null]
  /\ successorList =
       [n \in Node |-> IF n = First THEN [EmptyList EXCEPT ![0] = n] ELSE EmptyList]
  /\ pc = [n \in Node |-> IF n = First THEN "stabilize" ELSE "idle"]
  /\ stub = [n \in Node |-> Null]
  /\ x = [n \in Node |-> Null]
  /\ entry = [n \in Node |-> Null]
  /\ want = [n \in Node |-> {}]

Join(n) == \/ JoinFind(n) \/ JoinReread(n) \/ JoinTable(n)
           \/ JoinWalk(n) \/ JoinRefresh(n) \/ JoinExit(n)

Round(n) == \/ StabilizeRead(n) \/ StabilizeRecover(n)
            \/ StabilizeAdopt(n) \/ StabilizeTell(n)
            \/ NotifyCheck(n) \/ NotifySet(n) \/ NotifyNobody(n) \/ NotifyFails(n)

Stabilize(n) == Round(n) \/ FixFingersDies(n)

Next == \/ \E n \in Node : Join(n) \/ Stabilize(n)
        \/ \E n \in Node, e \in Up : JoinStart(n, e)
        \/ \E n \in Crashers : Crash(n)

Spec == Init /\ [][Next]_vars

\* Every started thread goes on: a remote call returns or fails, and the sleep
\* between two rounds ends.  Nothing makes an operator start a node.
Fairness == \A n \in Node : WF_vars(Join(n) \/ Stabilize(n))
FairSpec == Spec /\ Fairness
-----------------------------------------------------------------------------
(* Properties. *)

\* The nodes whose join has come to its end, dead or alive by now.
Started == {n \in Node : status[n] \in {"up", "crashed"}}

TypeOK ==
  /\ status \in [Node -> {"down", "joining", "up", "crashed"}]
  /\ pc \in [Node -> {"idle", "find", "reread", "table", "walk", "refresh", "stabilize",
                      "adopt", "tell", "notify", "setPredecessor", "dead"}]
  /\ successor \in [Node -> NodeOrNull]
  /\ predecessor \in [Node -> NodeOrNull]
  /\ successorList \in [Node -> [{0, 1} -> NodeOrNull]]
  /\ stub \in [Node -> NodeOrNull]
  /\ x \in [Node -> NodeOrNull]
  /\ entry \in [Node -> NodeOrNull]
  /\ want \in [Node -> SUBSET NodeOrNull]

\* A join that gives up (System.exit in the middle of join) leaves no trace: no
\* node of the ring has a pointer to, a list entry of, or a call under way at a
\* node that has not come through its own join.
OnlyStartedKnown ==
  \A n \in Started :
    {successor[n], predecessor[n], x[n], stub[n], successorList[n][0], successorList[n][1]}
      \subseteq Started \cup {Null}

\* While no node crashes, whoever s holds to be its predecessor has s as its
\* successor, or by now a node in between; the check and the assignment of
\* notifyPredecessor may be far apart, and s may have been replaced meanwhile.
PredecessorClaimed ==
  \A s \in Up : LET p == predecessor[s] IN
    p # Null => successor[p] = s \/ Between(p, successor[p], s)

\* ChordNode.java:529 "Try successor list if successor is unreachable": a node
\* gives its successor up for one that is not closer only if it is unreachable.
OnlyUnreachableReplaced ==
  [][\A n \in Up : LET s == successor[n] IN
       successor'[n] # s /\ Contactable(s)
         => successor'[n] # Null /\ Between(n, successor'[n], s)]_vars

\* What kills a stabilizer thread is a node, perhaps another one, whose successor
\* has become null and whose own stabilizer can no longer repair it.
DeadOfNullSuccessor ==
  \A n \in Node : pc[n] = "dead" => \E m \in Node : successor[m] = Null /\ pc[m] = "dead"

\* While no node crashes, every way along successor pointers comes to First: the
\* ring is one, never two that do not know of each other, however many nodes
\* join at once and whatever they have read of each other.
OneRing == \A S \in SUBSET Up : S # {} /\ Closed(S) => First \in S
-----------------------------------------------------------------------------
(* What makes these inductive. *)

JoinPC == {"find", "reread", "table", "walk", "refresh"}
StabilizePC == {"stabilize", "adopt", "tell", "notify", "setPredecessor", "dead"}

PcFitsStatus ==
  \A n \in Node :
    /\ status[n] = "down" => pc[n] = "idle"
    /\ status[n] = "joining" => pc[n] \in JoinPC
    /\ status[n] = "up" => pc[n] \in StabilizePC

\* OnlyStartedKnown, for what a joining node knows as well: until it has found a
\* successor it is its own.
KnownStarted ==
  \A n \in Node :
    /\ predecessor[n] \in Started \cup {Null}
    /\ stub[n] \in Started \cup {Null}
    /\ x[n] \in Started \cup {Null}
    /\ entry[n] \in Started \cup {Null}
    /\ successorList[n][0] \in Started \cup {Null}
    /\ successorList[n][1] \in Started \cup {Null}
    /\ successor[n] \in Started \cup {n, Null}
    /\ pc[n] \in {"table", "walk", "refresh"} => successor[n] \in Started

NullIsDead == \A n \in Node : successor[n] = Null => pc[n] = "dead"

AdoptCloser ==
  \A n \in Node : pc[n] = "adopt" => x[n] # Null /\ Between(n, x[n], successor[n])

\* The strengthening that holds whoever crashes.
RingInv == /\ PcFitsStatus
           /\ KnownStarted
           /\ NullIsDead
           /\ DeadOfNullSuccessor
           /\ AdoptCloser

\* p has s as its successor, or by now a node closer to p.
Claim(p, s) == successor[p] = s \/ Between(p, successor[p], s)

\* The notifications on their way are claims, and so is every predecessor.
Claims ==
  \A n \in Node :
    /\ pc[n] = "adopt" => stub[n] = successor[n]
    /\ pc[n] \in {"tell", "notify", "setPredecessor"} /\ stub[n] # Null
         => Claim(n, stub[n])
    /\ predecessor[n] # Null => Claim(predecessor[n], n)

\* What holds besides while no node crashes.
CalmInv == /\ \A n \in Node : status[n] # "crashed" /\ successor[n] # Null
           /\ Claims

\* t comes after k and not after s.
OnWay(k, t, s) == t = s \/ Between(k, t, s)

\* The pointers succ lead from p to s by nodes between the two, each step forward.
Leads(succ, p, s) ==
  \A S \in SUBSET Node :
    /\ p \in S
    /\ \A k \in S : (k = p \/ Between(p, k, s)) /\ OnWay(k, succ[k], s) => succ[k] \in S
    => s \in S

\* Claims, and what makes OneRing inductive: whoever gives up its successor for
\* another node still comes to it by way of that node.
LeadsInv ==
  \A n \in Node :
    /\ pc[n] = "adopt" => Leads(successor, x[n], successor[n])
    /\ pc[n] \in {"adopt", "tell", "notify", "setPredecessor"} /\ stub[n] # Null
         => Leads(successor, n, stub[n])
    /\ predecessor[n] # Null => Leads(successor, predecessor[n], n)
=============================================================================
