---------------------------- MODULE ChordRestart -----------------------------
(***************************************************************************)
(* Hosts of the ring that come back after a crash.  The identifier is made *)
(* of the address, so that the new process has the name the others may     *)
(* still hold in their pointers.  A process sleeps 20 seconds before it    *)
(* does anything, which is long enough for every call to the old one to    *)
(* have failed.                                                            *)
(***************************************************************************)
EXTENDS RingShape

CONSTANT MaxCrashes   \* bound: how many hosts may crash

ASSUME MaxCrashesAssumption == MaxCrashes \in Nat

\* Bound: a host comes back at most once.
VARIABLE restarted

restartVars == <<vars, restarted>>

\* Nobody is in a call to the process that has crashed.
Silent(n) == \A m \in Node \ {n} : Contactable(m) => stub[m] # n /\ entry[m] # n

\* The constructor, with the successor succ and the successor list list.
NewProcess(n, succ, list) ==
  /\ successor' = [successor EXCEPT ![n] = succ]
  /\ predecessor' = [predecessor EXCEPT ![n] = Null]
  /\ successorList' = [successorList EXCEPT ![n] = list]
  /\ stub' = [stub EXCEPT ![n] = Null]
  /\ x' = [x EXCEPT ![n] = Null]
  /\ entry' = [entry EXCEPT ![n] = Null]
  /\ want' = [want EXCEPT ![n] = {}]

Comeback(n) ==
  /\ status[n] = "crashed" /\ n \notin restarted /\ Silent(n)
  /\ restarted' = restarted \cup {n}

\* The host is there again, and is started, with an entry node, by JoinStart.
Restart(n) ==
  /\ n # First /\ Comeback(n)
  /\ NewProcess(n, n, EmptyList)
  /\ status' = [status EXCEPT ![n] = "down"]
  /\ pc' = [pc EXCEPT ![n] = "idle"]

\* A list that holds only what is known.
RestartFirstMistaken ==
  /\ Comeback(First)
  /\ NewProcess(First, First, [i \in {0} |-> First])
  /\ status' = [status EXCEPT ![First] = "up"]
  /\ pc' = [pc EXCEPT ![First] = "stabilize"]

\* First, configured as its own entry node, finds itself and does not look further.
RestartFirst ==
  /\ Comeback(First)
  /\ NewProcess(First, First, [EmptyList EXCEPT ![0] = First])
  /\ status' = [status EXCEPT ![First] = "up"]
  /\ pc' = [pc EXCEPT ![First] = "stabilize"]

Failed == {n \in Node : status[n] = "crashed"} \cup restarted

RestartNext ==
  \/ \E n \in Node : (Join(n) \/ Stabilize(n)) /\ UNCHANGED restarted
  \/ \E n \in Node, e \in Up : JoinStart(n, e) /\ UNCHANGED restarted
  \/ \E n \in Crashers :
       Cardinality(Failed) < MaxCrashes /\ Crash(n) /\ UNCHANGED restarted
  \/ \E n \in Crashers : Restart(n)
  \/ RestartFirst

RestartSpec == Init /\ restarted = {} /\ [][RestartNext]_restartVars

RestartInit(S, j) == Settled(S, j) /\ restarted = {}

RestartFairness ==
  \A n \in Node : WF_restartVars((Join(n) \/ Stabilize(n)) /\ UNCHANGED restarted)
-----------------------------------------------------------------------------
(* Properties. *)

\* The types of ChordRing for processes old and new; only hosts that may crash are ever
\* started again.
RestartTypeOK == TypeOK /\ Failed \subseteq Crashers

\* A host that comes back while the ring still points at it finds itself as its
\* successor; such a join never succeeds, which would leave it in a ring of its own.
JoinsOthers ==
  [][\A n \in Node :
       status[n] = "joining" /\ status'[n] = "up" => successor'[n] # n]_restartVars

\* What makes it hold: such a node starts its walk at itself, where the walk also
\* ends, without having met its entry node.
WalkMissesEntry ==
  \A n \in Node :
    /\ pc[n] \in JoinPC => entry[n] # n
    /\ pc[n] = "walk" /\ successor[n] = n => stub[n] = n /\ entry[n] \in want[n]
    /\ pc[n] = "refresh" => successor[n] # n

\* First has come back and is alone, but another node still has it as its successor.
FirstBack ==
  /\ First \in restarted /\ status[First] = "up"
  /\ successor[First] = First /\ predecessor[First] = Null
  /\ \E p \in Up \ {First} : successor[p] = First

\* First, which joins nobody when it comes back, is taken into the ring again by the
\* notifications of a node that has not noticed its absence, and its pointers and
\* those of the others become right once more, if no other node fails.
FirstFindsBack ==
  [](FirstBack => <>[](Ideal \/ Failed # {First}))
=============================================================================
