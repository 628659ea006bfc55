----------------------------- MODULE ChordLeave ------------------------------
(***************************************************************************)
(* The clean departure.  When the process of a node is told to stop, its   *)
(* shutdown hook interrupts the stabilizer, which nevertheless finishes    *)
(* the round it is in, and rewires the neighbours: the successor gets a    *)
(* new predecessor, and whoever is found to hold the node as a finger gets *)
(* the node's successor instead.  The last statement, System.exit, waits   *)
(* for the hook it is called from, so that the process never ends: it goes *)
(* on answering remote calls until it is killed.                           *)
(*                                                                         *)
(* Nobody joins meanwhile.                                                 *)
(***************************************************************************)
EXTENDS ChordLookup

CONSTANT Leavers   \* the nodes that may be told to stop

ASSUME LeaversAssumption == Leavers \subseteq Node

VARIABLE hook      \* of each node: where its shutdown hook is

leaveVars == <<allVars, hook>>

\* pc: none, tell, set, test, hop, found, remove, replace, pass, or exit;
\* at: the node the hook is talking to; x: the finger it hands over;
\* i: the finger leave is about; quiet, for the properties only: the stabilizer had
\* ended when the successor was told.
NoHook == [pc |-> "none", at |-> Null, x |-> Null, i |-> 0, quiet |-> FALSE]

Hooking(n, step) == hook[n].pc = step

\* Where leave looks for the last node whose finger i may be n.
fingerValue(n, i) == castInt(n - 2^i + 1)

\* The lookup under way in leave.
LeaveLookup(n) == [pc |-> hook[n].pc, at |-> hook[n].at, id |-> fingerValue(n, hook[n].i)]

-----------------------------------------------------------------------------
(* leave, in the shutdown hook. *)

\* One finger too many.
LeaveFingerMistaken(n, i, quiet) ==
  hook' = [hook EXCEPT ![n] =
             IF i <= NUM_FINGERS
             THEN [pc |-> "test", at |-> n, x |-> Null, i |-> i, quiet |-> quiet]
             ELSE [pc |-> "exit", at |-> Null, x |-> Null, i |-> 0, quiet |-> quiet]]

\* The loop goes on with finger i, or is over.
LeaveFinger(n, i, quiet) ==
  hook' = [hook EXCEPT ![n] =
             IF i < NUM_FINGERS
             THEN [pc |-> "test", at |-> n, x |-> Null, i |-> i, quiet |-> quiet]
             ELSE [pc |-> "exit", at |-> Null, x |-> Null, i |-> 0, quiet |-> quiet]]

NextFinger(n) == LeaveFinger(n, hook[n].i + 1, hook[n].quiet)

\* The stabilizer of a node that leaves has come to its sleep, which is interrupted.
Asleep(n) == hook[n].pc # "none" /\ pc[n] = "stabilize" /\ Looking(n, "idle")

\* The process ends, and nobody is told.
LeaveDies(n) ==
  /\ status' = [status EXCEPT ![n] = "crashed"]
  /\ hook' = [hook EXCEPT ![n] = NoHook]
  /\ UNCHANGED <<pc, pointers, locals, lookupVars>>

\* The stabilizer is interrupted.  Without a predecessor leave ends in a
\* NullPointerException; the test for a lone node never succeeds, because the
\* address it compares with comes from a remote call.
Cancel(n) ==
  /\ status[n] = "up" /\ Hooking(n, "none")
  /\ IF predecessor[n] = Null THEN LeaveDies(n)
     ELSE /\ hook' = [hook EXCEPT ![n].pc = "tell"]
          /\ UNCHANGED allVars

\* The successor is looked up, the predecessor read ...
LeaveTell(n) ==
  LET s == successor[n] IN
  /\ Contactable(n) /\ Hooking(n, "tell")
  /\ IF Contactable(s)
     THEN hook' = [hook EXCEPT ![n] = [@ EXCEPT !.pc = "set", !.at = s, !.x = predecessor[n]]]
     ELSE LeaveFinger(n, 0, FALSE)
  /\ UNCHANGED allVars

\* ... and handed over.
LeaveSet(n) ==
  LET s == hook[n].at IN
  /\ Contactable(n) /\ Hooking(n, "set")
  /\ predecessor' = IF Contactable(s) THEN [predecessor EXCEPT ![s] = hook[n].x]
                    ELSE predecessor
  /\ LeaveFinger(n, 0, Asleep(n))
  /\ UNCHANGED <<status, successor, successorList, pc, locals, lookupVars>>

\* findPredecessor(fingerValue) ...
LeaveTest(n) ==
  /\ Contactable(n) /\ Hooking(n, "test") /\ Contactable(hook[n].at)
  /\ ~NullMet(LeaveLookup(n))
  /\ hook' = [hook EXCEPT ![n].pc = IF Responsible(LeaveLookup(n)) THEN "found" ELSE "hop"]
  /\ UNCHANGED allVars

LeaveHop(n) ==
  /\ Contactable(n) /\ Hooking(n, "hop") /\ Contactable(hook[n].at)
  /\ ~NullMet(LeaveLookup(n))
  /\ hook' = [hook EXCEPT ![n] =
                [@ EXCEPT !.pc = "test",
                          !.at = closestPrecedingFinger(hook[n].at, LeaveLookup(n).id)]]
  /\ UNCHANGED allVars

\* The node hands over its predecessor.
LeaveFoundMistaken(n) ==
  /\ Contactable(n) /\ Hooking(n, "found")
  /\ hook' = [hook EXCEPT ![n] = [@ EXCEPT !.pc = "remove", !.x = predecessor[n]]]
  /\ UNCHANGED allVars

\* ... whose result is asked to take the node's successor of now instead of it.
LeaveFound(n) ==
  /\ Contactable(n) /\ Hooking(n, "found")
  /\ hook' = [hook EXCEPT ![n] = [@ EXCEPT !.pc = "remove", !.x = successor[n]]]
  /\ UNCHANGED allVars

\* removeNode at another node: the comparison ...
RemoveNode(n) ==
  LET p == hook[n].at
      held == fingerAt(p, hook[n].i)
  IN
  /\ Hooking(n, "remove") /\ Contactable(p)
  /\ held # Null
  /\ IF held = n THEN hook' = [hook EXCEPT ![n].pc = "replace"]
     ELSE NextFinger(n)
  /\ UNCHANGED allVars

\* ... the assignment ...
RemoveReplace(n) ==
  LET p == hook[n].at
      i == hook[n].i
  IN
  /\ Hooking(n, "replace") /\ Contactable(p)
  /\ IF i = 0
     THEN /\ successor' = [successor EXCEPT ![p] = hook[n].x]
          /\ UNCHANGED finger
     ELSE /\ finger' = [finger EXCEPT ![p][i] = hook[n].x]
          /\ UNCHANGED successor
  /\ hook' = [hook EXCEPT ![n].pc = "pass"]
  /\ UNCHANGED <<status, predecessor, successorList, pc, locals, fingerIndexToUpdate, lookup>>

\* ... and the same at that node's predecessor.
RemovePass(n) ==
  LET p == hook[n].at
      q == predecessor[p]
  IN
  /\ Hooking(n, "pass") /\ Contactable(p)
  /\ IF Contactable(q) THEN hook' = [hook EXCEPT ![n] = [@ EXCEPT !.pc = "remove", !.at = q]]
     ELSE NextFinger(n)
  /\ UNCHANGED allVars

\* A RemoteException is logged.
LeaveFails(n) ==
  /\ Contactable(n)
  /\ hook[n].pc \in {"test", "hop", "remove", "replace", "pass"}
  /\ ~Contactable(hook[n].at)
  /\ NextFinger(n)
  /\ UNCHANGED allVars

\* A NullPointerException at another node is thrown in the hook, too.
LeaveThrows(n) ==
  /\ Contactable(n) /\ hook[n].at # Null /\ Contactable(hook[n].at)
  /\ \/ hook[n].pc \in {"test", "hop"} /\ NullMet(LeaveLookup(n))
     \/ Hooking(n, "remove") /\ fingerAt(hook[n].at, hook[n].i) = Null
  /\ LeaveDies(n)

-----------------------------------------------------------------------------

\* The stabilizer is not told.
LeaveRoundMistaken(n) == /\ Find(n) \/ StabilizeRound(n) \/ Fix(n)
                         /\ UNCHANGED hook

\* The interrupt is noticed after the round.
LeaveRound(n) == /\ ~Asleep(n)
                 /\ Find(n) \/ StabilizeRound(n) \/ Fix(n)
                 /\ UNCHANGED hook

Leave(n) == \/ LeaveTell(n) \/ LeaveSet(n) \/ LeaveTest(n) \/ LeaveHop(n) \/ LeaveFound(n)
            \/ RemoveNode(n) \/ RemoveReplace(n) \/ RemovePass(n)
            \/ LeaveFails(n) \/ LeaveThrows(n)

LeaveNext == \/ \E n \in Node : LeaveRound(n) \/ Leave(n)
             \/ \E n \in Leavers : Cancel(n)
             \/ \E n \in Crashers : Crash(n) /\ UNCHANGED <<lookupVars, hook>>

\* Some nodes of a settled ring may be told to stop.
LeaveInit(S, j) == LookupSettled(S, j) /\ hook = [n \in Node |-> NoHook]

\* The ring is any settled one, or First whom nobody has joined.
LeaveRings == \/ \E S \in SUBSET Node : \E j \in S : S # {j} /\ LeaveInit(S, j)
              \/ LookupInit /\ hook = [n \in Node |-> NoHook]

LeaveSpec == LeaveRings /\ [][LeaveNext]_leaveVars

LeaveFairness == \A n \in Node : WF_leaveVars(LeaveRound(n)) /\ WF_leaveVars(Leave(n))
-----------------------------------------------------------------------------
(* Properties. *)

LeaveTypeOK ==
  /\ LookupTypeOK
  /\ hook \in [Node -> [pc : {"none", "tell", "set", "test", "hop", "found", "remove",
                              "replace", "pass", "exit"},
                        at : NodeOrNull, x : NodeOrNull, i : 0 .. NUM_FINGERS - 1,
                        quiet : BOOLEAN]]

AnyCrash == \E n \in Node : status[n] = "crashed"

Staying == {n \in Up : Hooking(n, "none")}

\* However a departure runs into the stabilizers, no node that stays loses its way
\* to another that stays, while no process has died.
StayingConnected ==
  ~AnyCrash =>
    \A S \in SUBSET Up : S \cap Staying # {} /\ Closed(S) => Staying \subseteq S

\* A node that is alone in leaving, and whose stabilizer has ended when its successor
\* is told, is out of the ring when its hook is through: whatever the stabilizers of
\* the others were about to do, none of them has it as its successor.
GoneIfQuiet ==
  \A n \in Node :
    /\ Hooking(n, "exit") /\ hook[n].quiet
    /\ Staying = Up \ {n} /\ ~AnyCrash
    => \A m \in Staying : successor[m] # n

\* ChordNode.java:342 "Leave Chord ring and update other nodes": in the end
\* a node that has left is nobody's successor.
LeaversForgotten ==
  \A n \in Leavers : Hooking(n, "exit") ~> [](\A m \in Staying : successor[m] # n)
-----------------------------------------------------------------------------
(* What makes StayingConnected and GoneIfQuiet inductive. *)

\* On the arc from n to t there is no node that stays, or no node of the ring at all.
NoStayingPassed(n, t) == \A m \in Staying : ~Between(n, m, t)
NobodyPassed(n, t) == \A m \in Up : ~Between(n, m, t)

\* Nobody is known but nodes of the ring, and only what is not in it does not run.
OnlyUpKnown ==
  \A n \in Node :
    /\ status[n] \in {"up", "down"}
    /\ n \notin Up => pc[n] = "idle" /\ Hooking(n, "none")
    /\ n \in Up =>
         /\ pc[n] \in StabilizePC
         /\ successor[n] \in Up
         /\ {predecessor[n], stub[n], hook[n].at} \subseteq Up \cup {Null}
         /\ pc[n] = "adopt" => x[n] \in Up
         /\ hook[n].pc \in {"set", "test", "hop", "found", "remove", "replace", "pass"}
              => hook[n].at \in Up
         /\ Hooking(n, "set") => hook[n].x \in Up \cup {Null}
         /\ hook[n].pc \in {"remove", "replace", "pass"} => hook[n].x \in Up

\* No pointer passes over a node that stays, nor does one that is about to be set.
NoDetours ==
  \A n \in Up :
    /\ NoStayingPassed(n, successor[n])
    /\ pc[n] = "adopt" => NoStayingPassed(n, x[n])
    /\ hook[n].pc \in {"remove", "replace", "pass"} => NoStayingPassed(n, hook[n].x)
    /\ Hooking(n, "replace") /\ hook[n].i = 0 => NoStayingPassed(hook[n].at, n)

\* Everybody has the next node as its successor, and nobody is about to adopt another.
Unchanged == \A n \in Up : NobodyPassed(n, successor[n]) /\ pc[n] \notin {"adopt", "tell"}

\* Until the first departing node tells its successor, predecessors and notifications
\* are what they were.
Untold ==
  (\A n \in Node : hook[n].pc \in {"none", "tell", "set"}) =>
    /\ Unchanged
    /\ \A n \in Up :
         /\ predecessor[n] # Null => successor[predecessor[n]] = n
         /\ pc[n] \in {"notify", "setPredecessor"} => stub[n] \in {successor[n], Null}
         /\ Hooking(n, "set") => /\ hook[n].at = successor[n]
                                 /\ hook[n].x = n => Up = {n}

\* n, the only one that leaves, has told its successor, and its stabilizer has ended.
Told(n) == /\ hook[n].quiet
           /\ n \in Up /\ Staying = Up \ {n} /\ Staying # {}

\* Then nobody has it from anywhere but from its own predecessor, which leave finds
\* by its lookup for the first finger.
TakenOut ==
  /\ \A n \in Node : hook[n].quiet => hook[n].pc \notin {"none", "tell", "set"}
  /\ \A n \in Node : Told(n) =>
       /\ Asleep(n)
       /\ successor[n] # n
       /\ \A m \in Up : predecessor[m] # n /\ (pc[m] = "adopt" => x[m] # n)
       /\ hook[n].pc \in {"remove", "replace", "pass"} => hook[n].x # n
       /\ \/ \A m \in Up : successor[m] # n
          \/ /\ Unchanged
             /\ hook[n].i = 0
             /\ hook[n].pc \in {"test", "hop", "found", "remove", "replace"}
             /\ hook[n].pc \in {"found", "remove", "replace"} => successor[hook[n].at] = n

LeaveInv == ~AnyCrash => OnlyUpKnown /\ NoDetours /\ Untold /\ TakenOut
=============================================================================
