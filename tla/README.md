# Verification of the Chord file locker

TLA+ models, TLC runs and TLAPS proofs for the program in `src/main/java/edu/stanford/cs244b`: file
lockers ("shards") that form a Chord ring over Java RMI, store uploaded files on the disk of the
node that receives them and keep copies on nodes chosen by the hash of the content. Paths below are
relative to the repository; `ChordNode`, `Util` and `Shard` stand for the files of that name under
`src/main/java/edu/stanford/cs244b`.

## The system

| component | state | operations | talks to |
|---|---|---|---|
| Identifier circle (`Util.withinInterval`) | none | is an identifier on an arc | called by every routing and stabilization decision |
| Identifiers (`Util`, `Shard.inetAddressToShardId`, `ChordNode.computeIdToFind`) | none | address -> shard id, hash -> file id, start of a finger | `Shard`, `ChordNode` |
| Ring (`ChordNode`) | `fingerTable[0]` (the successor), `predecessor`, `successorList` | `join`, `stabilize`, `notifyPredecessor`, `refreshSuccessors`, `updateSuccessor` | remote calls between nodes; one stabilizer thread per node, RMI threads, no locks |
| Lookup (`ChordNode`) | `fingerTable`, `fingerIndexToUpdate` | `findSuccessor`, `findPredecessor`, `closestPrecedingFinger`, `fixFingers` | remote calls hop by hop |
| Departure (`ChordNode`) | the ring's pointers and fingers | `leave`, `removeNode`, `Stabilizer.cancel` | shutdown hook; recursion along predecessors |
| File store (`Shard`) | directories data, replica, temp; key file; `fileMetadata` (memory only); `identifierAlgo` | `insertItem`, `saveFile`, `getItem`, `getItemAsByteArray`, `verifyFile`, `readOrCreateSecretKey` | HTTP in; replication out |
| Replication (`ChordNode`) | none of its own | `beginReplicatingFile`, `replicateFile`, `forwardLookup`, `getFile` | lookup for the first copy, successors for the others |
| `HMACInputStream` | a running MAC | `read`, `getDigest` | file store |
| `Server`, `ChordConfiguration` | YAML values | start-up | builds the shard |
| First prototype (`src/edu`), web page, scripts | - | - | not part of the build |

What is hard here: every remote call is a moment at which all other threads run; nothing is locked;
a node may stop at any of these moments; the same three pointers are written by the node itself, by
whoever notifies it and by whoever leaves; recovery relies on a list that other nodes have to ask a
node to refresh. `PROJECT.json` lists the hazards line by line with the property that watches each.

What makes each component correct:

* circle: the interval test agrees with clockwise distance wherever the circle wraps;
* identifiers: different addresses and prefixes stay different through overflow and sign;
* ring: one circle, in order, that nodes enter and never drop out of; pointers only to nodes whose
  join succeeded; predecessors that mean it; recovery from a failed successor; convergence;
* lookup: ends, at the node responsible; fingers that are never ahead of their start;
* departure: no pointer to the departed node remains; the process ends;
* store: what was acknowledged can be read back unchanged, also after a restart;
* replication: as many copies as promised, on different nodes, found by a lookup.

## Modules

| module | models | proofs |
|---|---|---|
| `ChordUtil` | int circle, `Util.withinInterval`, the three ways it is called | `ChordUtilProofs` |
| `ShardIds` | the conversions with their overflow, where a finger starts | `ShardIdsProofs` |
| `ChordRing` | join, stabilizer rounds, notification, successor list, crashes; lookups and fingers as loosely as possible | `ChordRingProofs`, `RingShapeProofs` |
| `SortedRing` | what the ring promises: a sorted circle into which started nodes are linked | |
| `RingShape` | the refinement mapping from `ChordRing` to `SortedRing`, settled rings, liveness | |
| `ChordLookup` | fingers, lookups hop by hop, `fixFingers`; implements `ChordRing` | `ChordLookupProofs` |
| `ChordLeave` | the shutdown hook: `leave` and `removeNode`, against all stabilizers | `ChordLeaveProofs` |
| `ChordRestart` | hosts of `ChordRing` that come back after a crash | `ChordRestartProofs` |
| `FileLocker` | upload, replication, download, verification, keys; crashes, restarts, joins, damaged disks | `FileLockerProofs` |
| `MCShardIds` | the properties of `ShardIds`, over all inputs; `ShardIdsProofs` extends it | |
| `MCChordRing`, `MCChordLookup`, `MCChordLeave`, `MCChordRestart`, `MCFileLocker` | values for TLC | |

```
ChordUtil <- ChordRing <- RingShape <- ChordLookup <- ChordLeave
                          RingShape <- ChordRestart
ChordUtil <- ShardIds <- ChordLookup
ChordUtil <- FileLocker                           (<- is extended by)
```

`ChordLookup` takes the actions of `ChordRing` for everything but the lookups, and replaces the
choices of `JoinFind`, `JoinTable` and `FixFingersDies` by what lookups find; `ImplementsRing` says
that every step of it is a step of `ChordRing` or leaves its variables alone. So what holds of
`ChordRing` for every choice holds of the ring with real fingers. `ChordLeave` adds the shutdown
hook to the stabilizers of `ChordLookup`, `ChordRestart` two actions to `ChordRing`.

### ChordRing and the code

A node is named by its shard identifier, an element of the int range. `successor` is
`fingerTable[0]`, `predecessor` and `successorList` are the fields of that name; `Null` is Java's
`null`. `status` is the state of the process: `down`, `joining` (from the constructor, which binds
the node in the registry, to the end of `join`), `up`, or `crashed`. The thread that runs `join` and
then becomes the stabilizer has its position in `pc` and its local variables in `stub` (the node it
is talking to), `x`, `entry` (`existingLocation`) and `want` (`nodesToFind`).

| action | code (`ChordNode`) |
|---|---|
| `JoinStart` | constructor, 69-103, and 163-166 |
| `JoinFind`, `JoinReread` | `findSuccessor` at the entry node: the node found at 310, its successor read again at 311 |
| `JoinTable` | 173-190: finger table of the successor, nodes to find |
| `JoinWalk` | 191-209: one round of the loop per action, and the check at its end |
| `JoinRefresh` | 212-227: successor list, stabilizer thread |
| `JoinExit` | every `System.exit(1)` of `join`, and uncaught null pointers (`Shard` 171-174) |
| `StabilizeRead` / `StabilizeRecover` | 234-246: successor reachable or not |
| `StabilizeAdopt`, `StabilizeTell` | 248, 249-254 |
| `NotifyCheck`, `NotifySet` | `notifyPredecessor` 267-268 and 271, in a thread of the notified node |
| `NotifyNobody`, `NotifyFails` | 258 with `successor == null`, 259-260 |
| `FixFingersDies` | a lookup of `fixFingers` (295) meets a node without a successor |
| `Crash` | the process disappears |

`Refresh` and `UpdateSuccessor` are `refreshSuccessors(0)` and `updateSuccessor` with their three
outcomes: return, `RemoteException` (caught, logged) and `NullPointerException` (not caught in the
stabilizer: `pc` becomes `dead`, the thread has ended while the process lives on).

The abstractions, all of which allow more than the code or are named as assumptions:

* A lookup may stop at any node on the successor path of its entry node that accepts the identifier.
  Fingers only shorten that path; `ChordLookup` has the lookups themselves, and `ImplementsRing`
  shows that this choice allows what they do.
* `refreshSuccessors` is one step, although it contacts several nodes. `REPLICATION_FACTOR` is 2.
* The finger table a joining node checks is some set of nodes on its successor's path, or crashed
  nodes; `JoinWalk` removes from `want` exactly the nodes it meets.
* Dead nodes stay dead here; `ChordRestart` has hosts that come back. A join that exits may be tried
  again by its operator.
* `entry` is a node whose join has come to its end: `README.md` asks for the "ip address of any
  server in the ring". Joining through a node that is itself joining makes two rings.
* Nodes are at least three apart on the circle (`Spaced`): `withinInterval` cannot tell an empty
  interval from the full one: with equal bounds it takes the wrap-around branch and holds of
  everything. Identifiers are hash values of 32 bits.

### ChordLookup and the code

`finger` is `fingerTable` from index 1 on (index 0 is `successor`), `fingerIndexToUpdate` the field
of that name. `lookup[t]` is the lookup the thread of t is in: where `findPredecessor` has come to
(`at`), which identifier it looks for, and whether it is about to evaluate the condition of its loop
(`test`), to ask for a closer node (`hop`) or to read the successor again (`reread`). A node that
joins has its lookup run at its entry node (`Host`), a stabilizer runs its own.

| action | code (`ChordNode`) |
|---|---|
| `LookupTest`, `LookupHop` | `findPredecessor` 318 and 319-321, with `closestPrecedingFinger` 326-340 |
| `StabilizeRound` | a step of `stabilize`; with its last one, 287-295: the next index, the lookup begins |
| `FixFound`, `FixSet` | `findSuccessor` 310; 311 and the assignment at 301 |
| `FixFails`, `FixDies` | 302-305, a `RemoteException`; a `NullPointerException`, which ends the thread |
| `LookupJoinStart`, `LookupJoinFind` | `join` 163-167 with `findSuccessor` 308-310 |
| `LookupJoinTable` | 173-190 with the finger table as it is |
| `LookupJoinOn`, `LookupJoinFails` | the rest of `join`; `System.exit(1)` at 168-171 |

One scan of `closestPrecedingFinger` is one step, although it contacts each finger that lies before
the identifier. `randomFingerUpdate` is never set, so fingers are corrected in turn.

### ChordLeave and the code

`hook[n]` is the shutdown hook of n: its position, the node it talks to, the finger it hands over
(`x`) and the index of the loop (`i`). `quiet` records for the properties whether the stabilizer had
come to an end when the successor was told.

| action | code (`ChordNode`) |
|---|---|
| `Cancel` | `Stabilizer.cancel` 571-574, `leave` 343-346 |
| `LeaveTell`, `LeaveSet` | 348-352; `setPredecessor` 150-153 at the successor |
| `LeaveTest`, `LeaveHop`, `LeaveFound` | `findPredecessor` called at 358; the arguments of `removeNode` at 359 |
| `RemoveNode`, `RemoveReplace`, `RemovePass` | `removeNode` 370-371, 372, 373-379 |
| `LeaveFails`, `LeaveThrows` | 360-362; a `NullPointerException`, which ends the hook and the process |
| `LeaveRound` | `Stabilizer.run` 556-568: the interrupt is noticed in its sleep, not in the middle of a round |

* A chain of nested `removeNode` calls is one token that goes from node to node. A node that is
  alone is its own predecessor, so that the chain goes round for ever; the code's overflows the
  stack.
* The test at 344 compares addresses that come from different objects by reference and never
  succeeds: a lone node goes through the whole of `leave`.
* `System.exit` at 366 waits for the hook it is called from. The process goes on answering remote
  calls, with its hook at `exit`.
* Nobody joins while somebody leaves: `LeaveSpec` starts from any settled ring, or from First alone,
  and has no `join`. TLC takes the three rings of `MCChordLeave`.

### ChordRestart and the code

| action | code |
|---|---|
| `Restart` | `Shard` 156-171 and the constructor of `ChordNode` 69-82: the process is there again, without a ring; it then joins by `JoinStart` |
| `RestartFirst` | `Shard` 165-168, `ChordNode` 163-167: First is its own entry node and finds itself |

`Shard` waits 20 seconds (159) before it makes its node. `Silent` says that by then every call under
way to the old process has failed; pointers to it that nobody has tried are still there, and now
lead to the new process, which has the same identifier.

### FileLocker and the code

`data`, `replica` and `key` are what a node has on disk (`DATA_DIR`, `REPLICA_DIR`, `KEY_FILE`),
`meta` is `fileMetadata`, which a restart empties. A request of `req` is a thread of the web server;
its `pc` says how far it has come, `at` is the node a remote call has led to, `left` is `nodesLeft`
or `numTries`. A file is named by its content, a SHA-256 hash by the content it is the hash of, and
a user checksum by the content and, for `hmac_sha256`, the key.

| action | code |
|---|---|
| `InsertItem`, `SaveFile`, `Acknowledge` | `Shard.insertItem` 215-217; `saveFile` 234-280; 219-226 |
| `BeginReplicatingFile` | `ChordNode` 466-475, called at `Shard` 282-284 |
| `ReplicateFile`, `ReplicateFurther`, `ReplicateFails` | `ChordNode.replicateFile` 478-488; 490-492; 493-495 and 472-474 |
| `GetItem`, `ReadOriginal`, `ForwardLookup` | `Shard.getItem` 303-308; 310-327; 330-333 |
| `Try`, `Fetch`, `NextTry` | `ChordNode.forwardLookup` 401-411; 412-421 with `getFile` and `getItemAsByteArray`; 422-445 |
| `LookupFails`, `LookupThrows` | `findPredecessor` 314-324 under a dead node: a `RemoteException`, which is caught; a `NullPointerException`, which is not and fails the request |
| `Crash`, `Start` | the process stops; the constructor of `Shard` and `readOrCreateSecretKey` 389-415 |
| `Damage`, `Link`, `Unlink` | a stored file changes or vanishes; the ring changes, as `ChordRing` makes it |

The abstractions:

* The ring is a sorted circle at every moment (what `RingIsSorted` proves without crashes). A node
  is linked into it some time, or never, after it starts; a dead node is taken out some time, or
  never, after it died. A lookup is one step on it. While a dead node is still in it a lookup may
  fail, or come to a node without a successor. A node started again finds back into the same ring;
  when First does is `ChordRestart`'s matter.
* Writing the temporary file and moving it (`ATOMIC_MOVE`) is one step, and so is reading a file.
* A request that is answered is not used again, so the number of requests is a bound.
* All algorithms verify, as `verifyFile` does, `SHA256_NOVERIFY` too. A hash never collides.
* Faults (`MaxFaults`) are crashes, damaged files, writes that fail and keys that are lost.

## Runs

| run | question | bounds | states |
|---|---|---|---|
| `ids` | do the interval test and the conversions agree with their reference definitions? | int of 4 bits, long of 8, bytes of 1; all triples of identifiers | 4 096 |
| `ring_safety` | is the ring one sorted circle while nodes join concurrently? | first node and 3 joiners, no crash | 594 029 |
| `ring_crash` | what holds whoever crashes? do all pointers become right if nobody does? | first node and 2 joiners, each may crash at every step | 122 784 |
| `lookup_live` | do lookups end, is everyone linked in, do fingers settle? | settled ring of 2, one joiner, 3 fingers besides the successor, no crash | 45 276 |
| `lookup_crash` | what holds of lookups whoever they meet? does `ChordRing` allow what they do? | the same, or settled ring of 3; one member may crash at every step | 297 630 |
| `leave` | does a departure keep the others connected? when is it complete? | settled ring of 3, or of 2 of which the other may crash, or First alone; one leaves | 853 080 |
| `restart` | can a host that comes back end in a ring of its own? is First found again? do joins end? | settled ring of 4, any one of which crashes and may come back; or 3 that have just joined and one joiner | 50 559 |
| `locker` | is one fault survived, is nothing returned but uploads, are the copies made without a fault? | 3 nodes and one joiner, 2 files, 2 requests, 1 fault | 434 959 |
| `ring_replaced` | violation: a live successor is discarded | first node, 2 joiners, each may crash | |
| `ring_recovers` | violation: a node never has a live successor again | settled ring of 3, one may crash | |
| `lookup_stuck` | violation: a lookup never ends | settled ring of 3, one may crash | |
| `leave_ghost` | violation: a node that has left comes back | settled ring of 2, one leaves | |

Bounds. Four bits keep both signs, both ends of the range, an overflowing product (a long has eight
bits) and four bytes, and give four fingers, which start 1, 2 and 4 after a node besides the
successor. In `ring_safety` four nodes are the least with which two joins can happen between two
nodes that are both not First, so that a joiner's second read (line 311) passes over another joiner
and notifications overtake each other; the identifiers are chosen so that the wrap of the int range
lies between two nodes and First is not at an end. For the lookups the nodes are three apart, the
closest the model allows, so that a finger start can lie beyond the next node, a lookup takes a hop
over a finger that is not the successor, and an identifier is one or two after a node, where
`withinInterval` takes the interval for the whole circle. The steps of a model are bounded by
nothing else: there are no counters but `MaxFaults`, `MaxCrashes` and that a host comes back once.

Where a run starts. `ids`, `ring_safety`, `ring_crash`, `ring_replaced` and `locker` begin with the
first process. The others begin with a settled ring (`Settled`, `LookupSettled`): the pointers of
the sorted circle, every stabilizer between two rounds, and the successor lists as joins leave them,
i.e. that of the node before the last joiner is stale, since `stabilize` does not refresh its own
list. Fingers are those of a node that has been through all its indices since. Joins and stabilizers
come to these states (`Converges`, `FingersSettle`); starting there leaves the steps to what the run
is about. `restart` has a second state to begin with (`Chain`, also one that `RestartSpec` comes
to): two nodes have joined First while it was alone, one of them after it has crashed and come back,
so that by the bound nobody crashes any more. First is still its own successor, one node has told it
of itself, and the other has found that one there. The place of the fourth node is between the two:
its successor may be one that nobody on the circle of First leads to, and the walk of its join goes
round First until First adopts. In `ring_crash` two nodes that have joined at once notify First at
once, and the one from further away may be stored last.

For the file lockers, two requests are an upload and the download of it, or two uploads, on any
nodes and in any order; the copies go to two of three nodes, so that the origin may or may not be
one of them, and the fourth node enters the ring anywhere in between. The requests are symmetric.

Deadlock is checked where nothing may stop: `ring_safety`, `lookup_live` and `ids`. With crashes all
nodes may be gone, and a dead stabilizer has no step left; after a departure the hook is through;
and the requests of the file lockers end.

Fairness. A process has one thread that joins and then stabilizes, and every run with a liveness
property assumes weak fairness of it: `Thread(n)` in `ChordLookup` (which has its lookups too),
`Join(n) \/ Stabilize(n)` in `ChordRing` and `ChordRestart`, and `LeaveRound(n)` and `Leave(n)` in
`ChordLeave`, which are two threads, the stabilizer and the hook. A thread that can go on does: RMI
calls return or throw, and `Thread.sleep(1000)` (line 563) ends. No fairness is assumed for
`JoinStart`, `Cancel`, `Restart` and `RestartFirst` (an operator's) or `Crash`. The other interface
threads of a process only answer calls, in the step of the caller.

What the runs show. Without crashes the ring is what Chord promises: the successor pointers
reachable from First are at every moment those of a sorted circle (`ImplementsSortedRing`), every
chain leads into it (`OneRing`), lookups and joins end, and pointers and fingers settle
(`Converges`, `FingersSettle`), although predecessors can move backwards on the way, since
`notifyPredecessor` checks and assigns without a lock. With crashes much less holds.

* A null entry of the successor list ends a stabilizer, and a stale one leads nowhere
  (`ring_recovers`): `stabilize` refreshes the lists of two predecessors and not its own, so the
  only backup, entry 1, is null or stale; `updateSuccessor` stores it before looking. Where it is
  right, the new successor still names the dead node as its predecessor, and `stabilize` adopts that
  again without asking it. What is true is that a stabilizer's death always starts from a node whose
  successor became null (`DeadOfNullSuccessor`).
* `stabilize` notifies the successor it had before adopting another; if the old one has died
  meanwhile, the new one is thrown away (`ring_replaced`).
* A hop of a lookup never leads away from its identifier (`HopsCloser`), but it may lead nowhere: a
  node none of whose fingers answers names itself, and `findPredecessor` asks it again
  (`lookup_stuck`). The thread in that loop is the one that would replace the dead successor.
* Those that stay when a node leaves remain connected (`StayingConnected`), whatever the stabilizers
  do meanwhile. If the departing node's stabilizer had ended when its successor was told, nobody has
  it as a successor when its hook is through (`GoneIfQuiet`). If it had not, its notification may
  arrive after its departure and bring it back, and its process is still there to answer
  (`leave_ghost`).
* A host that comes back before the ring has noticed may be given itself as its successor. Such a
  join never succeeds, because the walk does not meet the entry node (`JoinsOthers`). First, which
  joins nobody, is alone after a restart; a node that still has it as its successor tells it, and so
  it finds back (`FirstFindsBack`). When all have noticed, nothing does.

For the file lockers, a file whose upload was acknowledged survives one fault of any kind at any
moment with any one node joining, for as long as its uploader runs (`OneFaultTolerated`), and
nothing that was not uploaded is returned (`OnlyUploadedReturned`), which the proof shows for any
number of faults. The origin node may be one of the two that get a replica, where a comment
(`ChordNode` 60) promises two nodes in addition to it: the code does not keep that. What is true is
that all copies but one are elsewhere (`CopiesMade`). Two more weak places are listed as hazards
only: an unknown identifier ends in a `NullPointerException` (`Shard` 332) where a 404 is prepared;
and a failed lookup uses up a try (`ChordNode` 401) that a successor with the only good copy would
have needed. That one joining node is harmless is a matter of the factor 2: copies are never moved
when nodes join (the TODO at `ChordNode` 159), and after two joins around a file's place neither of
the nodes that are asked has one.

## Proofs

`tlapm` checks all of `ChordUtilProofs`, `ShardIdsProofs`, `ChordRingProofs`, `RingShapeProofs`,
`ChordLookupProofs`, `ChordLeaveProofs`, `ChordRestartProofs` and `FileLockerProofs`, for any width
of the int, any finite or infinite set of nodes that are `Spaced`, and any set of nodes that may
crash unless said otherwise. The assumptions are `IntAssumption`, `IdsAssumption`, `NodeAssumption`,
`LeaversAssumption`, `MaxCrashesAssumption`, `LockerAssumption`, and `PowersAssumption`, elementary
facts about powers, which the provers know nothing of: powers of two are positive and grow, a power
is a product, and the fourth power of the size of a byte is the size of an int. TLC evaluates them
in the runs. A module states beside its properties the invariants that the proofs strengthen them
by; these were model-checked on the bounds of the runs before they were proved.

* `WithinIsArc`, `CloserIsBetween`, `CoversIsBetween`: the interval tests mean what they should.
  Linear arithmetic by cases of the wrap.
* `IntervalsAreArcs`, `NodeIntervalsCorrect`, `HashIsOneToOne`, `AddressesAreKept`,
  `PrefixesCorrect`, `FingerStartsCorrect`: the properties of the run `ids` for any width. A cast
  keeps a number modulo the width and is the identity within it (`CastInt`, `CastCong`), also when
  the long of twice the width has overflowed before (`ModTwice`, `HashMultiplies`). That `intHash`
  is one to one then follows by cancelling the multiplier, of which the theorem assumes that it has
  an inverse, as every odd one has: for 2654435761 and 32 bits it is 244002641. The loop of
  `ipByteArrayToInt` is unrolled (`FourBytes`); after each round it has, modulo the width, the bits
  shifted in so far (`ShiftIn`), whatever the sign of the bytes (`ByteKept`).
* `TypeCorrect`: one lemma per thread (`JoinType`, `StabilizeType`), one step per action.
* `RingInvCorrect`: the inductive invariant `RingInv`. `OnlyStartedKnown` alone is not inductive: a
  joining node hands what it knows to the ring when it comes up, so `KnownStarted` says the same of
  its local variables, and `PcFitsStatus` that it has read a successor by then.
  `DeadOfNullSuccessor` needs that whoever has a null successor is dead (`NullIsDead`), or its
  stabilizer might set the pointer right and leave another's death unexplained; `AdoptCloser` says
  that what is about to be adopted lies between. Hence `JoinsLeaveNoTrace` and `DeathNeedsNull`.
* `PredecessorsMeanIt`, with `Crashers = {}`: from `CalmInv`. A predecessor is a past notification,
  so the invariant (`Claims`) follows the claim "s is my successor, or was until I found a closer
  one" from the moment `stabilize` reads its successor, through the two halves of
  `notifyPredecessor`, to the assignment. It survives because successors only get closer
  (`CalmStepIsCloser`) and being between is transitive (`BetweenTransitive`).
* `RingIsOne`, with `Crashers = {}`: that every closed set of nodes holds `First` says nothing of a
  node that replaces its successor t by a candidate x, unless x comes to t itself. `LeadsInv` says
  that it does: from whoever is held to be a predecessor, and from whatever is about to be adopted
  or notified, the successor pointers lead to the node in question by nodes between the two. Such a
  way survives an adoption anywhere on it, since the detour stays within the same arc and clear of
  the node that takes it (`DetourWithin`, `AdoptKeepsLeads`), and a join, since no node of the ring
  points to one that is still joining (`JoinKeepsLeads`). So a set that is closed after an adoption
  was closed before it (`AdoptKeepsOneRing`). The order of the nodes is not needed for it.
* `RingIsSorted`, with `Crashers = {}`: `ChordRing` implements `SortedRing`. Beside the invariants
  above it needs `RingSorted`, that the successor of a node of the circle is the next one in it. The
  circle is the least closed set of the nodes `First` leads to (`RingIsLeast`). An adoption is the
  only step that changes it: what becomes part of it is exactly the way from the adopted node to the
  old successor that `LeadsInv` provides, and that way is a chain of ever closer nodes, all of them
  on the arc that has so far been empty (`WayIsChain`, `AdoptLinks`). A sorted set has one order
  (`SortedIsUnique`), which makes the step a `Link` of `SortedRing`; a join that comes to its end is
  a `Start`, everything else a stutter (`CircleStep`).
* `LookupTypeCorrect`, `HopsGetCloser`, `LookupsLeaveNoTrace`, `LookupDeathNeedsNull`: the ring with
  its real lookups, from `LookupInvCorrect`. What it adds to `RingInv`: lookups are under way only
  where they fit the process (`LookupFits`), fingers and lookups know only nodes that came through
  their join (`FingersKnown`), and no hop starts where the identifier is one or two after the node
  (`HopsApart`). The last is the point of `HopsGetCloser`: there the interval of
  `closestPrecedingFinger` is the whole circle and a finger behind the identifier would be taken;
  but the condition of the loop has held such an identifier to be covered just before (nodes being
  three apart), and the successor may have changed since, but not the identifier and the node. No
  finger is ever null, so that `fixFingers` adds no other death of a stabilizer. The finger with the
  highest index exists by `HighestIndex`, from well-founded induction on the numbers.
* `LookupsFollowRing`, `LookupRingIsSorted`, with `Crashers = {}`: `ChordLookup` implements
  `ChordRing`, and so its ring is one and sorted as well. `ChordRing` lets a lookup end at any node
  on the successor path of its entry node. `OnPath` says that where a lookup is, and every finger of
  a node, lies on that path; it survives because what is on a path stays on it while successors are
  only replaced by closer ones that lead back (`PathGrows`). With crashes a path loses nodes, and
  the step is only model-checked.
* `LeaveTypeCorrect`: types of departures; `fingerValue` is an identifier (`FingerValueType`).
* `StayersConnected`: for any settled ring and any number of nodes that leave it at any time, until
  a process dies. The ring need not stay sorted, nor need a departure succeed. What is kept is
  `NoDetours`: no successor, and nothing a stabilizer or a hook is about to make one, passes over a
  node that stays. A hook that replaces its node n by the successor of n makes a short cut of two
  arcs without such a node and past n, which does not stay (`ShortCut`). In a closed set, the node
  nearest before a node that stays then has that node as its successor, or it would have a nearer
  one (`StepNears`). `OnlyUpKnown` adds that everybody named is still there to answer.
* `QuietLeaversGone`: `Untold` says that until the first hook tells its node's successor all
  pointers are as they were, so that the stabilizers know nothing but true neighbours. When the only
  departing node tells its successor, with its own stabilizer at an end, nobody else's stabilizer
  has its name (`TellingTakesOut`); from then on `TakenOut` holds: one node still has it as its
  successor, the one that the lookup for the first finger is about to find (`FoundBefore`,
  `OneBefore`), or none has.
* `RestartTypeCorrect`: types, and that only those that may crash are ever started again.
* `NobodyJoinsItself`: `JoinsOthers` for any number of crashes, from `WalkMissesEntry`: whoever has
  itself as its successor starts its walk at itself, where the walk also ends, with the entry node
  still to be met, and the entry node is another one because a node that joins is not up.
* `LockerTypeCorrect`, `LockerInvariant`, `DownloadsAreUploads`: for any nodes, contents, requests,
  replication factor and number of faults. `OnlyUploadedReturned` is not inductive, because a node
  answers from its disk and not from the upload. `KeptUploaded` says that a node has nothing under
  an identifier, in `data` or in `meta`, that was not uploaded there (a damaged file keeps its
  name), `Named` that an identifier determines the content, and `Phases` that a request that looks
  for copies has found its metadata. `Verified` then ties what is returned to the identifier. A step
  of one request leaves the others alone (`RequestStep`, `GoesInv`, `AnswerInv`), so the proof has
  one case per action; that uploads stay uploads (`UploadedStays`) carries the existential through
  each.
* `CopiesAreMade`: for any nodes, any number of requests and nodes that join, as long as there is no
  fault. `Calm` follows the copying of each upload: the nodes it has passed, from where its lookup
  may have started it up to where it is, hold as many copies as it has made, and every member among
  them holds one (`Copying`). A node that joins behind it changes nothing, one that joins ahead of
  it is met, and one that joins between lookup and first copy is what `StartAt` leaves open. Where
  the walk comes back to its origin the circle is smaller than `REPLICATION_FACTOR` and all members
  have a copy (`CopyingGoesOn`, `CopyingGoesFurther`). That gives `REPLICATION_FACTOR` nodes with a
  copy (`CalmCopies`), and one less when the origin is not counted.
* `OneFaultIsTolerated`: one fault of any kind at any moment, if fewer nodes join than copies are
  made; without this hypothesis the statement is false (see above). `FaultInv` is the argument:
  until the fault both the originals are good (`OriginalsGood`) and the copies will be found
  (`CopiesFound`), and one fault spoils only one of them. To be found means `Nearing`: on the way of
  a download to the first node with a copy there are fewer nodes left than tries. A client knows an
  identifier only from an acknowledged upload (`StoredDone`), whose metadata are kept as long as its
  node runs (`Remembered`), and its checksums are what it still makes of the content, since a key is
  only lost while a process is down, which takes a fault before (`KeysKept`).

Model-checked only:

* `ImplementsRing` when nodes crash: the path a lookup was on may be gone by then;
* all liveness properties (`LookupsEnd`, `JoinDecides`, `AllLinked`, `Converges`, `FingersSettle`,
  `FirstFindsBack`), which are out of reach of the prover, as is `ENABLED`.

## Plan

What is left, in this order:

1. `ImplementsRing` with crashes: that a lookup is at a node of the path of its entry node or at one
   that has crashed does not survive the repair of a pointer as it stands.
2. `FileLocker` on the pointers of `ChordRing` in place of its own sorted ring, so that replication
   and downloads meet stale successors; the state space of both together is the difficulty.
3. `refreshSuccessors` in steps, one for each node it contacts, and joins during departures.

## Not modelled

* `Server` and `ChordConfiguration`: start-up and values from a file, no state.
* `HMACInputStream` is only its digest, a one-to-one function of key and content; the reading of
  bytes is left out.
* The random choice of a finger (nothing sets `randomFingerUpdate`), file names, media types and the
  hit counter.
* The first prototype (`src/edu`), which `pom.xml` does not build.
* The web page: `assets/js/shard.js` reads a URL once and fills a table with the answer; the other
  files beside it are vendored copies of AngularJS and ng-table. The scripts set up virtual machines
  and measure.
* Two hosts with nearly the same identifier, and joining through a node that is itself still joining
  (see above).
