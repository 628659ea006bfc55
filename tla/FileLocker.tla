------------------------------ MODULE FileLocker ------------------------------
(***************************************************************************)
(* The file lockers: what a shard keeps on its disk and in its memory, how *)
(* an upload is saved, copied along the ring and acknowledged, and how a   *)
(* download looks for the original and then for the copies.  Every HTTP    *)
(* request runs in a thread of its own; every remote call it makes is a    *)
(* step.  Disks fail and their owners are not trusted, so a stored file    *)
(* may change or vanish; processes stop and are started again.             *)
(*                                                                         *)
(* The ring is taken as ChordRing makes it: sorted, entered by nodes some  *)
(* time after they start, and closed around a dead node some time, or      *)
(* never, after it died.  A hash is modelled by what it is the hash of.    *)
(***************************************************************************)
EXTENDS ChordUtil, FiniteSets

CONSTANTS Node,
          Member,              \* the nodes that make up the ring at first
          File,                \* contents of files
          Place,               \* hexStringToIdentifier of the hash of each
          Hmac,                \* the nodes with identifier: hmac_sha256
          REPLICATION_FACTOR,  \* 2 in the code
          Request,
          MaxFaults,           \* bound: how many faults may happen
          Null

\* A user checksum: a digest of the content, made with a key unless it is SHA-256.
Checksums == [key : (Node \X Nat) \cup {<<>>}, file : File]

ASSUME LockerAssumption == /\ Node \subseteq Id /\ Spaced(Node)
                           /\ Member \subseteq Node /\ Member # {} /\ Hmac \subseteq Node
                           /\ Place \in [File -> Id]
                           /\ REPLICATION_FACTOR \in Nat \ {0} /\ MaxFaults \in Nat
                           /\ Null \notin Node \cup File \cup Checksums
                           /\ Null \notin {"put", "get", "stored", "ok"}

VARIABLES ring,     \* the nodes that successor pointers lead to
          up,       \* the nodes whose process runs
          data,     \* DATA_DIR: contents by user checksum
          replica,  \* REPLICA_DIR: contents by SHA-256 hash
          meta,     \* fileMetadata: SHA-256 hash by user checksum
          key,      \* the secret key, a new one each time it has to be made
          req,      \* the requests and what has become of them
          faults    \* how many faults have happened

disks == <<data, replica, meta>>
hosts == <<ring, up, key, faults>>
vars == <<hosts, disks, req>>

\* A checksum depends on the content, and on the key of the node if it has one.
Checksum(n, c) == [key |-> IF n \in Hmac THEN <<n, key[n]>> ELSE <<>>, file |-> c]

Store(dir, name, c) == [m \in DOMAIN dir \cup {name} |-> IF m = name THEN c ELSE dir[m]]
Remove(dir, name) == [m \in DOMAIN dir \ {name} |-> dir[m]]
Empty == [m \in {} |-> Null]

\* The ring as n sees it: n's own pointer leads into it also before n is linked.
Circle(n) == ring \cup {n}
Successor(n) == CHOOSE s \in Circle(n) : Follows(Circle(n), n, s)

\* findPredecessor asks n itself first; another node does not know n until n is linked.
Predecessor(n, place) ==
  IF covers(n, Successor(n), place) THEN n
  ELSE CHOOSE p \in ring : covers(p, Successor(p), place)

\* While a dead node is still in the ring, a lookup at n that ends at p, another node,
\* may fail; if p is the dead one it fails, or goes on until p is out of the ring.
LookupFails(n, p) == p # n /\ ring \ up # {}

\* Or a node it comes to, n itself perhaps, has lost its successor together with the dead
\* one: a NullPointerException, which nobody catches and which fails the request.
LookupThrows == ring \ up # {}

NewRequest == [op |-> Null, pc |-> "idle", host |-> Null, id |-> Null, body |-> Null,
               at |-> Null, left |-> 0, answer |-> Null, known |-> FALSE]

\* r has no more to do at other nodes.
Return(r, pc) == [req[r] EXCEPT !.pc = pc, !.at = Null, !.left = 0]

Answer(r, a, c) == req' = [req EXCEPT ![r] = [Return(r, "done") EXCEPT !.answer = a, !.body = c]]

Fault == faults < MaxFaults /\ faults' = faults + 1
-----------------------------------------------------------------------------
(* Upload. *)

\* insertItem is called with a file.
InsertItem(r, n, c) ==
  /\ req[r].pc = "idle" /\ n \in up
  /\ req' = [req EXCEPT ![r] = [NewRequest EXCEPT !.op = "put", !.pc = "save",
                                                  !.host = n, !.body = c]]
  /\ UNCHANGED <<hosts, disks>>

\* saveFile: computes the checksum and moves the file into DATA_DIR, or fails.
SaveFile(r) ==
  LET n == req[r].host
      id == Checksum(n, req[r].body)
  IN  /\ req[r].pc = "save"
      /\ \/ /\ data' = [data EXCEPT ![n] = Store(@, id, req[r].body)]
            /\ req' = [req EXCEPT ![r].pc = "replicate", ![r].id = id]
            /\ UNCHANGED faults
         \/ /\ Fault /\ Answer(r, "error", req[r].body)
            /\ UNCHANGED data
      /\ UNCHANGED <<ring, up, key, replica, meta>>

\* The copying has ended, well or not; perhaps the upload itself is lost by then.
Copied(r) == Return(r, IF req[r].answer = "lost" THEN "done" ELSE "meta")

\* beginReplicatingFile: looks up where the copies start; a RemoteException is only logged.
BeginReplicatingFile(r) ==
  LET p == Predecessor(req[r].host, Place[req[r].body]) IN
  /\ req[r].pc = "replicate"
  /\ \/ /\ p \in up
        /\ req' = [req EXCEPT ![r].pc = "copy", ![r].at = p,
                              ![r].left = REPLICATION_FACTOR - 1]
     \/ /\ LookupFails(req[r].host, p)
        /\ req' = [req EXCEPT ![r] = Copied(r)]
     \/ LookupThrows /\ Answer(r, "error", req[r].body)
  /\ UNCHANGED <<hosts, disks>>

\* The number of nodes left is not counted down to zero.
ReplicateFileMistaken(r) ==
  /\ req[r].pc = "copy" /\ req[r].at \in up
  /\ replica' = [replica EXCEPT ![req[r].at] = Store(@, req[r].body, req[r].body)]
  /\ req' = [req EXCEPT ![r] = IF @.left > 1 THEN [@ EXCEPT !.pc = "pass"] ELSE Copied(r)]
  /\ UNCHANGED <<hosts, data, meta>>

\* replicateFile, at the node the copy is sent to.  The disk may refuse it, which
\* is only logged.
ReplicateFile(r) ==
  /\ req[r].pc = "copy" /\ req[r].at \in up
  /\ \/ /\ replica' = [replica EXCEPT ![req[r].at] = Store(@, req[r].body, req[r].body)]
        /\ UNCHANGED faults
     \/ Fault /\ UNCHANGED replica
  /\ req' = [req EXCEPT ![r] = IF @.left > 0 THEN [@ EXCEPT !.pc = "pass"] ELSE Copied(r)]
  /\ UNCHANGED <<ring, up, key, data, meta>>

\* ... which sends it on to its successor.
ReplicateFurther(r) ==
  LET s == Successor(req[r].at) IN
  /\ req[r].pc = "pass" /\ req[r].at \in up /\ s \in up
  /\ req' = [req EXCEPT ![r].pc = "copy", ![r].at = s, ![r].left = @ - 1]
  /\ UNCHANGED <<hosts, disks>>

\* The node to copy to is dead: the RemoteException is only logged.
ReplicateFails(r) ==
  /\ \/ req[r].pc \in {"copy", "pass"} /\ req[r].at \notin up
     \/ req[r].pc = "pass" /\ Successor(req[r].at) \notin up
  /\ req' = [req EXCEPT ![r] = Copied(r)]
  /\ UNCHANGED <<hosts, disks>>

\* The end of insertItem: remembers the file and answers.
Acknowledge(r) ==
  LET n == req[r].host IN
  /\ req[r].pc = "meta"
  /\ meta' = [meta EXCEPT ![n] = Store(@, req[r].id, req[r].body)]
  /\ Answer(r, "stored", req[r].body)
  /\ UNCHANGED <<hosts, data, replica>>
-----------------------------------------------------------------------------
(* Download. *)

\* The upload u has been acknowledged at n under the identifier.
Acknowledged(n, id) ==
  \E u \in Request : req[u].answer = "stored" /\ req[u].host = n /\ req[u].id = id

\* getItem is called with an identifier.  Whether the client can know it is noted
\* for the properties only.
GetItem(r, n, id) ==
  /\ req[r].pc = "idle" /\ n \in up
  /\ req' = [req EXCEPT ![r] = [NewRequest EXCEPT !.op = "get", !.pc = "read", !.host = n,
                                                  !.id = id, !.known = Acknowledged(n, id)]]
  /\ UNCHANGED <<hosts, disks>>

\* verifyFile: whatever the algorithm, the checksum of the content must be the one
\* asked for.
Verified(n, c, id) == Checksum(n, c) = id

\* The original is returned if it is there and verifies.
ReadOriginal(r) ==
  LET n == req[r].host
      id == req[r].id
  IN  /\ req[r].pc = "read"
      /\ IF id \in DOMAIN data[n] /\ Verified(n, data[n][id], id)
         THEN Answer(r, "ok", data[n][id])
         ELSE req' = [req EXCEPT ![r].pc = "forward"]
      /\ UNCHANGED <<hosts, disks>>

\* Otherwise the metadata tell which replica to ask for; without them there is a
\* NullPointerException.
ForwardLookup(r) ==
  /\ req[r].pc = "forward"
  /\ IF req[r].id \in DOMAIN meta[req[r].host]
     THEN req' = [req EXCEPT ![r].pc = "try", ![r].at = Null, ![r].left = REPLICATION_FACTOR]
     ELSE Answer(r, "error", Null)
  /\ UNCHANGED <<hosts, disks>>

\* The SHA-256 hash of the file r asks for.
Sha256(r) == meta[req[r].host][req[r].id]

\* Stops one try too late.
NextTryMistaken(r, left, at, a) ==
  IF left < 0 THEN Answer(r, a, Null)
  ELSE req' = [req EXCEPT ![r].pc = "try", ![r].left = left, ![r].at = at]

\* What a try that ends with no file leads to, given the answer if it was the last
\* one and the node the next one starts from.
NextTry(r, left, at, a) ==
  IF left = 0 THEN Answer(r, a, Null)
  ELSE req' = [req EXCEPT ![r].pc = "try", ![r].left = left, ![r].at = at]

\* Every try looks the file up afresh.
TryMistaken(r) ==
  LET t == Predecessor(req[r].host, Place[Sha256(r)]) IN
  /\ req[r].pc = "try"
  /\ t \in up
  /\ req' = [req EXCEPT ![r].pc = "fetch", ![r].at = t, ![r].left = @ - 1]
  /\ UNCHANGED <<hosts, disks>>

\* forwardLookup, up to getFile: the place of the file, or the successor of the node
\* tried before, must answer.
Try(r) ==
  LET fresh == req[r].at = Null
      t == IF fresh THEN Predecessor(req[r].host, Place[Sha256(r)]) ELSE Successor(req[r].at)
  IN
  /\ req[r].pc = "try"
  /\ \/ /\ t \in up /\ (fresh \/ req[r].at \in up)
        /\ req' = [req EXCEPT ![r].pc = "fetch", ![r].at = t, ![r].left = @ - 1]
     \/ /\ IF fresh THEN LookupFails(req[r].host, t) ELSE t \notin up \/ req[r].at \notin up
        /\ NextTry(r, req[r].left - 1, Null, "notFound")
     \/ fresh /\ LookupThrows /\ Answer(r, "error", Null)
  /\ UNCHANGED <<hosts, disks>>

\* The copy is trusted to be what its name says.
FetchMistaken(r) ==
  LET dir == replica[req[r].at] IN
  /\ req[r].pc = "fetch" /\ req[r].at \in up
  /\ IF Sha256(r) \notin DOMAIN dir THEN NextTry(r, req[r].left, req[r].at, "notFound")
     ELSE Answer(r, "ok", dir[Sha256(r)])
  /\ UNCHANGED <<hosts, disks>>

\* getFile at that node, and the check of what it has sent.
Fetch(r) ==
  LET n == req[r].host
      dir == replica[req[r].at]
  IN
  /\ req[r].pc = "fetch"
  /\ IF req[r].at \notin up THEN NextTry(r, req[r].left, Null, "notFound")
     ELSE IF Sha256(r) \notin DOMAIN dir THEN NextTry(r, req[r].left, req[r].at, "notFound")
     ELSE IF Verified(n, dir[Sha256(r)], req[r].id) THEN Answer(r, "ok", dir[Sha256(r)])
     ELSE NextTry(r, req[r].left, req[r].at, "gone")
  /\ UNCHANGED <<hosts, disks>>
-----------------------------------------------------------------------------
(* Processes and disks. *)

\* A stored file is changed or lost.
Damage(n) ==
  /\ Fault
  /\ \/ /\ \E id \in DOMAIN data[n] :
             \E dir \in {Store(data[n], id, c) : c \in File \ {data[n][id]}}
                        \cup {Remove(data[n], id)} :
               data' = [data EXCEPT ![n] = dir]
        /\ UNCHANGED replica
     \/ /\ \E sha \in DOMAIN replica[n] :
             \E dir \in {Store(replica[n], sha, c) : c \in File \ {replica[n][sha]}}
                        \cup {Remove(replica[n], sha)} :
               replica' = [replica EXCEPT ![n] = dir]
        /\ UNCHANGED data
  /\ UNCHANGED <<ring, up, key, meta, req>>

\* The process of n stops: its requests are lost with what it had in memory.  Copies
\* that other nodes are making for it go on.
Crash(n) ==
  /\ n \in up /\ Fault
  /\ up' = up \ {n}
  /\ meta' = [meta EXCEPT ![n] = Empty]
  /\ req' = [r \in Request |->
       IF req[r].host = n /\ req[r].pc # "done"
       THEN [(IF req[r].pc \in {"copy", "pass"} THEN req[r] ELSE Return(r, "done"))
               EXCEPT !.answer = "lost"]
       ELSE req[r]]
  /\ UNCHANGED <<ring, key, data, replica>>

\* A process starts; readOrCreateSecretKey loads the key or, when the file cannot be
\* read, overwrites it with a new one.  A key that is not used is left out.
Start(n) ==
  /\ n \notin up
  /\ up' = up \cup {n}
  /\ \/ UNCHANGED <<key, faults>>
     \/ n \in Hmac /\ Fault /\ key' = [key EXCEPT ![n] = @ + 1]
  /\ UNCHANGED <<ring, disks, req>>

\* The ring, as ChordRing makes it.
Link(n) ==
  /\ n \in up \ ring
  /\ ring' = ring \cup {n}
  /\ UNCHANGED <<up, key, faults, disks, req>>

Unlink(n) ==
  /\ n \in ring \ up /\ ring \cap up # {}
  /\ ring' = ring \ {n}
  /\ UNCHANGED <<up, key, faults, disks, req>>
-----------------------------------------------------------------------------
Init ==
  /\ ring = Member
  /\ up = Member
  /\ data = [n \in Node |-> Empty]
  /\ replica = [n \in Node |-> Empty]
  /\ meta = [n \in Node |-> Empty]
  /\ key = [n \in Node |-> 0]
  /\ req = [r \in Request |-> NewRequest]
  /\ faults = 0

Upload(r) == \/ SaveFile(r) \/ BeginReplicatingFile(r) \/ ReplicateFile(r)
             \/ ReplicateFurther(r) \/ ReplicateFails(r) \/ Acknowledge(r)

Download(r) == ReadOriginal(r) \/ ForwardLookup(r) \/ Try(r) \/ Fetch(r)

\* The identifiers a client may ask n for: those n would make of files, whether it
\* has them or not, and those that came of uploads at any node and time.
Asked(n) == {Checksum(n, c) : c \in File} \cup ({req[r].id : r \in Request} \ {Null})

Next ==
  \/ \E r \in Request : Upload(r) \/ Download(r)
  \/ \E r \in Request, n \in Node, c \in File : InsertItem(r, n, c)
  \/ \E r \in Request, n \in Node : \E id \in Asked(n) : GetItem(r, n, id)
  \/ \E n \in Node : Damage(n) \/ Crash(n) \/ Start(n) \/ Link(n) \/ Unlink(n)

Spec == Init /\ [][Next]_vars
-----------------------------------------------------------------------------
(* Properties. *)

RequestType ==
  [op : {"put", "get", Null},
   pc : {"idle", "save", "replicate", "copy", "pass", "meta",
         "read", "forward", "try", "fetch", "done"},
   host : Node \cup {Null}, id : Checksums \cup {Null}, body : File \cup {Null},
   at : Node \cup {Null}, left : Nat,
   answer : {"stored", "ok", "error", "notFound", "gone", "lost", Null},
   known : BOOLEAN]

TypeOK ==
  /\ ring \subseteq Node /\ up \subseteq Node
  /\ key \in [Node -> Nat] /\ faults \in 0 .. MaxFaults
  /\ DOMAIN data = Node /\ DOMAIN replica = Node /\ DOMAIN meta = Node
  /\ \A n \in Node :
       /\ DOMAIN data[n] \subseteq Checksums
       /\ DOMAIN replica[n] \subseteq File
       /\ DOMAIN meta[n] \subseteq Checksums
       /\ \A id \in DOMAIN data[n] : data[n][id] \in File
       /\ \A sha \in DOMAIN replica[n] : replica[n][sha] \in File
       /\ \A id \in DOMAIN meta[n] : meta[n][id] \in File
  /\ req \in [Request -> RequestType]

\* What a download returns for an identifier is what was uploaded at this node under
\* it, although neither its own disk nor the nodes with the copies are trusted.
OnlyUploadedReturned ==
  \A r \in Request : req[r].op = "get" /\ req[r].answer = "ok" =>
    \E u \in Request : /\ req[u].op = "put" /\ req[u].host = req[r].host
                       /\ req[u].id = req[r].id /\ req[u].body = req[r].body

\* One fault is never enough to keep an acknowledged file from its uploader: a
\* changed or lost file, a copy that was not made, a process that stops, at any
\* moment and whoever joins, as long as fewer nodes do than copies are made.
OneFaultTolerated ==
  \A r \in Request :
    faults <= 1 /\ req[r].known => req[r].answer \in {Null, "ok", "lost"}

\* The nodes with a good copy of c.
Holders(c) == {n \in Node : c \in DOMAIN replica[n] /\ replica[n][c] = c}

\* The nodes with a good copy of what was uploaded with r, without its origin.
OtherHolders(r) == Holders(req[r].body) \ {req[r].host}

\* Without a fault the copies of an acknowledged file are on nodes of their own, although
\* nodes enter the ring between lookup and copy, and all but perhaps one of them on others
\* than the origin.  ChordNode.java:60 promises REPLICATION_FACTOR copies besides the
\* origin; one of them may be on the origin itself, if that is where the copies go.
CopiesMade ==
  \A r \in Request : faults = 0 /\ req[r].answer = "stored" =>
    \/ Cardinality(OtherHolders(r)) >= REPLICATION_FACTOR - 1
    \/ Member \ {req[r].host} \subseteq OtherHolders(r)
-----------------------------------------------------------------------------
(* What makes OnlyUploadedReturned inductive. *)

Uploaded(n, id) ==
  \E u \in Request : req[u].op = "put" /\ req[u].host = n /\ req[u].id = id

\* Where a request is in its handler says what is known of it.
Phase(r) ==
  /\ req[r].pc = "idle" => req[r].op = Null
  /\ req[r].pc # "idle" => req[r].host \in Node
  /\ req[r].pc \in {"save", "replicate", "copy", "pass", "meta"}
       => req[r].op = "put" /\ req[r].body \in File
  /\ req[r].pc = "save" => req[r].id = Null
  /\ req[r].pc \in {"replicate", "copy", "pass", "meta"} => req[r].id \in Checksums
  /\ req[r].pc \in {"copy", "pass", "fetch"} => req[r].at \in Node
  /\ req[r].pc \in {"pass", "try"} => req[r].left > 0
  /\ req[r].pc \in {"read", "forward", "try", "fetch"}
       => req[r].op = "get" /\ req[r].id \in Checksums /\ req[r].answer = Null
  /\ req[r].pc \in {"try", "fetch"} => req[r].id \in DOMAIN meta[req[r].host]
Phases == \A r \in Request : Phase(r)

\* An identifier names the content it was made of.
Named == \A r \in Request :
           req[r].op = "put" /\ req[r].id # Null => req[r].id.file = req[r].body

\* A node has nothing under an identifier that was not uploaded there.
KeptUploaded ==
  \A n \in Node : \A id \in DOMAIN data[n] \cup DOMAIN meta[n] : Uploaded(n, id)

ReturnedUploaded ==
  \A r \in Request : req[r].op = "get" /\ req[r].answer = "ok" =>
    req[r].id \in Checksums /\ req[r].body = req[r].id.file /\ Uploaded(req[r].host, req[r].id)

LockerInv == Phases /\ Named /\ KeptUploaded /\ ReturnedUploaded
-----------------------------------------------------------------------------
(* What makes CopiesMade and OneFaultTolerated inductive. *)

\* The nodes on the way from a to b, without b and with it.
Before(a, b) == {n \in Node : Dist(a, n) < Dist(a, b)}
UpTo(a, b) == {n \in Node : Dist(a, n) <= Dist(a, b)}

\* The first k copies of c are on A, or as many as there are members.
CopiesOn(c, A, k) ==
  \/ Member \subseteq Holders(c)
  \/ Member \cap A \subseteq Holders(c) /\ Cardinality(A \cap Holders(c)) >= k

\* The copies of what n uploads as c may start at p: from p to their place there is
\* no other member.
StartAt(n, c, p) ==
  /\ p \in Circle(n)
  /\ \A m \in Member \ {p} :
       0 < Dist(p, Place[c]) /\ Dist(p, Place[c]) <= Dist(p, m)

\* The first k copies of what n uploads as c are on the way to q, or at q as well.
CopiedBefore(n, c, q, k) == \E p \in Node : StartAt(n, c, p) /\ CopiesOn(c, Before(p, q), k)
CopiedUpTo(n, c, q, k) == \E p \in Node : StartAt(n, c, p) /\ CopiesOn(c, UpTo(p, q), k)

\* How far the copying for r has come.
Copying(r) ==
  LET n == req[r].host
      c == req[r].body
      q == req[r].at
  IN  /\ req[r].pc = "copy" => CopiedBefore(n, c, q, REPLICATION_FACTOR - 1 - req[r].left)
      /\ req[r].pc = "pass" => CopiedUpTo(n, c, q, REPLICATION_FACTOR - req[r].left)
      /\ req[r].pc = "meta" \/ req[r].answer = "stored" =>
           \E last \in Node : CopiedUpTo(n, c, last, REPLICATION_FACTOR)

\* Every node of the ring runs and so does every node a request is at.
Alive ==
  /\ Member \subseteq ring /\ ring \subseteq up
  /\ \A r \in Request : /\ req[r].pc # "idle" => req[r].host \in up
                        /\ req[r].at \in up \cup {Null}

\* No copy has been changed.
Intact == \A n \in Node : \A sha \in DOMAIN replica[n] : replica[n][sha] = sha

\* Nothing has happened yet that could keep a copy from being made or found.
Calm == Alive /\ Intact /\ \A r \in Request : Copying(r)

\* Metadata name the content the identifier was made of.
MetaNamed == \A n \in Node : \A id \in DOMAIN meta[n] : meta[n][id] = id.file

\* An upload that has been acknowledged is over, and a client that knows an
\* identifier has it from such an upload.
StoredDone ==
  \A r \in Request :
    /\ req[r].answer = "stored" => /\ req[r].op = "put" /\ req[r].pc = "done"
                                   /\ req[r].id \in Checksums
    /\ req[r].known => req[r].op = "get" /\ Acknowledged(req[r].host, req[r].id)

\* The metadata of what has been acknowledged are there.
Remembered ==
  \A r \in Request : req[r].answer = "stored" => req[r].id \in DOMAIN meta[req[r].host]

\* The nodes at which r will have asked when it comes from a to m.
Ahead(a, m) == Cardinality(Before(a, m))

\* A download of an acknowledged file will come to a copy in time.
Nearing(r) ==
  req[r].known =>
    /\ req[r].pc = "try" /\ req[r].at = Null => req[r].left = REPLICATION_FACTOR
    /\ req[r].pc = "try" /\ req[r].at # Null =>
         \E m \in (Holders(req[r].id.file) \cap ring) \ {req[r].at} :
           Ahead(req[r].at, m) <= req[r].left
    /\ req[r].pc = "fetch" =>
         \E m \in Holders(req[r].id.file) \cap Circle(req[r].at) :
           Ahead(req[r].at, m) <= req[r].left

CopiesFound == Calm /\ Remembered /\ \A r \in Request : Nearing(r)

\* The original of what has been uploaded is there, and good.
OriginalsGood ==
  \A r \in Request :
    /\ req[r].op = "put" /\ req[r].id # Null =>
         /\ req[r].id \in DOMAIN data[req[r].host]
         /\ data[req[r].host][req[r].id] = req[r].id.file
    /\ req[r].known => req[r].pc \in {"read", "done"}

\* Identifiers are what their nodes still make of the content.
KeysKept ==
  \A r \in Request : req[r].op = "put" /\ req[r].id # Null =>
    req[r].id = Checksum(req[r].host, req[r].id.file)

FaultInv ==
  /\ MetaNamed /\ StoredDone
  /\ faults = 0 => OriginalsGood /\ CopiesFound
  /\ faults = 1 => OriginalsGood \/ CopiesFound
  /\ faults <= 1 => KeysKept
  /\ OneFaultTolerated
=============================================================================
