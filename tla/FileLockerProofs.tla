--------------------------- MODULE FileLockerProofs ---------------------------
(***************************************************************************)
(* The type invariant of FileLocker, and, for any nodes, contents and      *)
(* requests: that a download never returns anything but what was uploaded, *)
(* whatever the faults; that as many copies are made as promised as long   *)
(* as there is no fault; that no one fault loses a file.                   *)
(***************************************************************************)
EXTENDS FileLocker, ChordUtilProofs, FiniteSetTheorems, TLAPS

\* A directory whose names are in N and whose contents are in File.
Dir(dir, N) == DOMAIN dir \subseteq N /\ \A m \in DOMAIN dir : dir[m] \in File

LEMMA StoreDir ==
  ASSUME NEW dir, NEW N, NEW name \in N, NEW c \in File, Dir(dir, N)
  PROVE  Dir(Store(dir, name, c), N)
  BY DEF Dir, Store

LEMMA RemoveDir ==
  ASSUME NEW dir, NEW N, NEW name, Dir(dir, N)
  PROVE  Dir(Remove(dir, name), N)
  BY DEF Dir, Remove

LEMMA EmptyDir == ASSUME NEW N PROVE Dir(Empty, N)
  BY DEF Dir, Empty

LEMMA ChecksumType ==
  ASSUME key \in [Node -> Nat], NEW n \in Node, NEW c \in File
  PROVE  Checksum(n, c) \in Checksums /\ Checksum(n, c).file = c
  BY DEF Checksum, Checksums

\* TypeOK in four parts.
HostsType == /\ ring \subseteq Node /\ up \subseteq Node
             /\ key \in [Node -> Nat] /\ faults \in 0 .. MaxFaults
DisksType ==
  /\ DOMAIN data = Node /\ DOMAIN replica = Node /\ DOMAIN meta = Node
  /\ \A n \in Node :
       Dir(data[n], Checksums) /\ Dir(replica[n], File) /\ Dir(meta[n], Checksums)
ReqType == req \in [Request -> RequestType]

LEMMA TypeParts == TypeOK <=> HostsType /\ DisksType /\ ReqType
  BY DEF TypeOK, HostsType, DisksType, ReqType, Dir

LEMMA TypePartsNext == TypeOK' <=> HostsType' /\ DisksType' /\ ReqType'
  BY TypeParts, PTL

LEMMA HostsKept == HostsType /\ UNCHANGED hosts => HostsType'
  BY DEF HostsType, hosts

LEMMA DisksKept == DisksType /\ UNCHANGED disks => DisksType'
  BY DEF DisksType, disks

LEMMA NewRequestType ==
  /\ NewRequest \in RequestType
  /\ \A n \in Node, c \in File :
       [NewRequest EXCEPT !.op = "put", !.pc = "save", !.host = n, !.body = c] \in RequestType
  /\ \A n \in Node, id \in Checksums, k \in BOOLEAN :
       [NewRequest EXCEPT !.op = "get", !.pc = "read", !.host = n, !.id = id, !.known = k]
         \in RequestType
  BY DEF NewRequest, RequestType

LEMMA FaultType == HostsType /\ (UNCHANGED faults \/ Fault) => faults' \in 0 .. MaxFaults
  BY LockerAssumption DEF HostsType, Fault

\* A request that goes back to where it came from, with or without an answer.
LEMMA AnswerType ==
  ASSUME ReqType, NEW r \in Request, NEW a \in {"stored", "ok", "error", "notFound", "gone"},
         NEW c \in File \cup {Null}, Answer(r, a, c)
  PROVE  ReqType'
<1>1. req[r] \in RequestType
  BY DEF ReqType
<1>2. Return(r, "done") \in RequestType
  BY <1>1 DEF Return, RequestType
<1>3. [Return(r, "done") EXCEPT !.answer = a, !.body = c] \in RequestType
  BY <1>2 DEF RequestType
<1> QED BY <1>3 DEF ReqType, Answer

LEMMA CopiedType ==
  ASSUME ReqType, NEW r \in Request
  PROVE  Copied(r) \in RequestType
  BY DEF ReqType, Copied, Return, RequestType

LEMMA NextTryType ==
  ASSUME ReqType, NEW r \in Request, NEW left \in Nat, NEW at \in Node \cup {Null},
         NEW a \in {"notFound", "gone"}, NextTry(r, left, at, a)
  PROVE  ReqType'
<1>1. CASE left = 0
  BY <1>1, AnswerType DEF NextTry
<1>2. CASE left # 0
  BY <1>2 DEF NextTry, ReqType, RequestType
<1> QED BY <1>1, <1>2

\* The file r asks for, once the metadata have been found.
LEMMA Sha256Type ==
  ASSUME TypeOK, Phases, NEW r \in Request, req[r].pc \in {"try", "fetch"}
  PROVE  Sha256(r) \in File
  BY TypeParts DEF DisksType, Dir, Phases, Phase, Sha256

LEMMA UploadType ==
  ASSUME TypeOK, Phases, NEW r \in Request, Upload(r)
  PROVE  TypeOK'
<1> USE TypeParts, TypePartsNext
<1>1. CASE SaveFile(r)
  <2> DEFINE n == req[r].host
             id == Checksum(n, req[r].body)
  <2>1. n \in Node /\ req[r].body \in File
    BY <1>1 DEF SaveFile, Phases, Phase
  <2>2. id \in Checksums
    BY <2>1, ChecksumType DEF HostsType
  <2>3. HostsType'
    BY <1>1, FaultType DEF SaveFile, HostsType
  <2>4. CASE /\ data' = [data EXCEPT ![n] = Store(@, id, req[r].body)]
             /\ req' = [req EXCEPT ![r].pc = "replicate", ![r].id = id]
    <3>1. Dir(Store(data[n], id, req[r].body), Checksums)
      BY <2>1, <2>2, StoreDir DEF DisksType
    <3>2. DisksType'
      BY <1>1, <2>4, <3>1 DEF SaveFile, DisksType
    <3>3. [req[r] EXCEPT !.pc = "replicate", !.id = id] \in RequestType
      BY <2>2 DEF ReqType, RequestType
    <3>4. req' = [req EXCEPT ![r] = [req[r] EXCEPT !.pc = "replicate", !.id = id]]
      BY <2>4
    <3>5. ReqType'
      BY <3>3, <3>4 DEF ReqType
    <3> QED BY <2>3, <3>2, <3>5
  <2>5. CASE UNCHANGED data /\ Answer(r, "error", req[r].body)
    <3>1. DisksType'
      BY <1>1, <2>5 DEF SaveFile, DisksType
    <3> QED BY <2>1, <2>3, <2>5, <3>1, AnswerType
  <2> QED BY <1>1, <2>4, <2>5 DEF SaveFile
<1>2. CASE BeginReplicatingFile(r)
  <2>1. HostsType' /\ DisksType'
    BY <1>2, HostsKept, DisksKept DEF BeginReplicatingFile
  <2>2. CASE Answer(r, "error", req[r].body)
    BY <2>1, <2>2, AnswerType DEF ReqType, RequestType
  <2>3. CASE ~Answer(r, "error", req[r].body)
    <3>1. ReqType'
      BY <1>2, <2>3, CopiedType, LockerAssumption
      DEF BeginReplicatingFile, ReqType, RequestType, HostsType
    <3> QED BY <2>1, <3>1
  <2> QED BY <2>2, <2>3
<1>3. CASE ReplicateFile(r)
  <2> DEFINE p == req[r].at
  <2>1. p \in Node /\ req[r].body \in File
    BY <1>3 DEF ReplicateFile, Phases, Phase
  <2>2. HostsType'
    BY <1>3, FaultType DEF ReplicateFile, HostsType
  <2>3. Dir(Store(replica[p], req[r].body, req[r].body), File)
    BY <2>1, StoreDir DEF DisksType
  <2>4. DisksType'
    BY <1>3, <2>1, <2>3 DEF ReplicateFile, DisksType
  <2>5. [req[r] EXCEPT !.pc = "pass"] \in RequestType
    BY DEF ReqType, RequestType
  <2>6. ReqType'
    BY <1>3, <2>5, CopiedType DEF ReplicateFile, ReqType
  <2> QED BY <2>2, <2>4, <2>6
<1>4. CASE ReplicateFurther(r)
  <2>1. HostsType' /\ DisksType'
    BY <1>4, HostsKept, DisksKept DEF ReplicateFurther
  <2>2. req[r].left \in Nat /\ req[r].left > 0
    BY <1>4 DEF ReplicateFurther, Phases, Phase, ReqType, RequestType
  <2>3. ReqType'
    BY <1>4, <2>2 DEF ReplicateFurther, ReqType, RequestType, HostsType
  <2> QED BY <2>1, <2>3
<1>5. CASE ReplicateFails(r)
  <2>1. HostsType' /\ DisksType'
    BY <1>5, HostsKept, DisksKept DEF ReplicateFails
  <2>2. ReqType'
    BY <1>5, CopiedType DEF ReplicateFails, ReqType
  <2> QED BY <2>1, <2>2
<1>6. CASE Acknowledge(r)
  <2> DEFINE n == req[r].host
  <2>1. n \in Node /\ req[r].body \in File /\ req[r].id \in Checksums
    BY <1>6 DEF Acknowledge, Phases, Phase
  <2>2. HostsType'
    BY <1>6, HostsKept DEF Acknowledge
  <2>3. Dir(Store(meta[n], req[r].id, req[r].body), Checksums)
    BY <2>1, StoreDir DEF DisksType
  <2>4. DisksType'
    BY <1>6, <2>1, <2>3 DEF Acknowledge, DisksType
  <2>5. ReqType'
    BY <1>6, <2>1, AnswerType DEF Acknowledge
  <2> QED BY <2>2, <2>4, <2>5
<1> QED BY <1>1, <1>2, <1>3, <1>4, <1>5, <1>6 DEF Upload

LEMMA DownloadType ==
  ASSUME TypeOK, Phases, NEW r \in Request, Download(r)
  PROVE  TypeOK'
<1> USE TypeParts, TypePartsNext
<1>1. HostsType' /\ DisksType'
  BY HostsKept, DisksKept DEF Download, ReadOriginal, ForwardLookup, Try, Fetch
<1>2. req[r] \in RequestType
  BY DEF ReqType
<1>3. CASE ReadOriginal(r)
  <2>1. req[r].host \in Node
    BY <1>3 DEF ReadOriginal, Phases, Phase
  <2>2. CASE /\ req[r].id \in DOMAIN data[req[r].host]
             /\ Answer(r, "ok", data[req[r].host][req[r].id])
    BY <1>1, <2>1, <2>2, AnswerType DEF DisksType, Dir
  <2>3. CASE req' = [req EXCEPT ![r].pc = "forward"]
    BY <1>1, <1>2, <2>3 DEF ReqType, RequestType
  <2> QED BY <1>3, <2>2, <2>3 DEF ReadOriginal
<1>4. CASE ForwardLookup(r)
  <2>1. CASE Answer(r, "error", Null)
    BY <1>1, <2>1, AnswerType
  <2>2. CASE req' = [req EXCEPT ![r].pc = "try", ![r].at = Null,
                                ![r].left = REPLICATION_FACTOR]
    BY <1>1, <1>2, <2>2, LockerAssumption DEF ReqType, RequestType
  <2> QED BY <1>4, <2>1, <2>2 DEF ForwardLookup
<1>5. CASE Try(r)
  <2>1. req[r].left - 1 \in Nat
    BY <1>2, <1>5 DEF Try, Phases, Phase, RequestType
  <2>2. ASSUME NEW t \in up,
               req' = [req EXCEPT ![r].pc = "fetch", ![r].at = t, ![r].left = @ - 1]
        PROVE  TypeOK'
    BY <1>1, <1>2, <2>1, <2>2 DEF ReqType, RequestType, HostsType
  <2>3. CASE NextTry(r, req[r].left - 1, Null, "notFound")
    BY <1>1, <2>1, <2>3, NextTryType
  <2>4. CASE Answer(r, "error", Null)
    BY <1>1, <2>4, AnswerType
  <2> QED BY <1>5, <2>2, <2>3, <2>4 DEF Try
<1>6. CASE Fetch(r)
  <2>1. req[r].left \in Nat /\ req[r].at \in Node /\ Sha256(r) \in File
    BY <1>2, <1>6, Sha256Type DEF Fetch, Phases, Phase, RequestType
  <2>2. ASSUME NEW at \in Node \cup {Null}, NEW a \in {"notFound", "gone"},
               NextTry(r, req[r].left, at, a)
        PROVE  TypeOK'
    BY <1>1, <2>1, <2>2, NextTryType
  <2>3. CASE /\ Sha256(r) \in DOMAIN replica[req[r].at]
             /\ Answer(r, "ok", replica[req[r].at][Sha256(r)])
    BY <1>1, <2>1, <2>3, AnswerType DEF DisksType, Dir
  <2> QED BY <1>6, <2>1, <2>2, <2>3 DEF Fetch
<1> QED BY <1>3, <1>4, <1>5, <1>6 DEF Download

LEMMA CallType ==
  ASSUME TypeOK, NEW r \in Request, NEW n \in Node,
         \/ \E c \in File : InsertItem(r, n, c)
         \/ \E id \in Asked(n) : GetItem(r, n, id)
  PROVE  TypeOK'
<1> USE TypeParts, TypePartsNext
<1>1. HostsType' /\ DisksType'
  BY HostsKept, DisksKept DEF InsertItem, GetItem
<1>2. ASSUME NEW c \in File, InsertItem(r, n, c)
      PROVE  ReqType'
  BY <1>2, NewRequestType DEF InsertItem, ReqType
<1>3. ASSUME NEW id \in Asked(n), GetItem(r, n, id)
      PROVE  ReqType'
  <2>1. id \in Checksums
    BY ChecksumType DEF Asked, HostsType, ReqType, RequestType
  <2>2. Acknowledged(n, id) \in BOOLEAN
    BY DEF Acknowledged
  <2> QED BY <1>3, <2>1, <2>2, NewRequestType DEF GetItem, ReqType
<1> QED BY <1>1, <1>2, <1>3

LEMMA HostType ==
  ASSUME TypeOK, NEW n \in Node,
         Damage(n) \/ Crash(n) \/ Start(n) \/ Link(n) \/ Unlink(n)
  PROVE  TypeOK'
<1> USE TypeParts, TypePartsNext
<1>1. CASE Damage(n)
  <2>1. HostsType' /\ ReqType'
    BY <1>1, FaultType DEF Damage, HostsType, ReqType
  <2>2. \A m \in Node : Dir(meta'[m], Checksums)
    BY <1>1 DEF Damage, DisksType
  <2>3. ASSUME NEW id \in DOMAIN data[n],
               NEW dir \in {Store(data[n], id, c) : c \in File \ {data[n][id]}}
                           \cup {Remove(data[n], id)}
        PROVE  Dir(dir, Checksums)
    BY StoreDir, RemoveDir DEF DisksType, Dir
  <2>4. ASSUME NEW sha \in DOMAIN replica[n],
               NEW dir \in {Store(replica[n], sha, c) : c \in File \ {replica[n][sha]}}
                           \cup {Remove(replica[n], sha)}
        PROVE  Dir(dir, File)
    BY StoreDir, RemoveDir DEF DisksType, Dir
  <2>5. DisksType'
    BY <1>1, <2>2, <2>3, <2>4 DEF Damage, DisksType
  <2> QED BY <2>1, <2>5
<1>2. CASE Crash(n)
  <2>1. HostsType'
    BY <1>2, FaultType DEF Crash, HostsType
  <2>2. DisksType'
    BY <1>2, EmptyDir DEF Crash, DisksType
  <2>3. ASSUME NEW r \in Request
        PROVE  /\ [req[r] EXCEPT !.answer = "lost"] \in RequestType
               /\ [Return(r, "done") EXCEPT !.answer = "lost"] \in RequestType
    BY DEF ReqType, RequestType, Return
  <2>4. ReqType'
    BY <1>2, <2>3 DEF Crash, ReqType
  <2> QED BY <2>1, <2>2, <2>4
<1>3. CASE Start(n)
  <2>1. HostsType'
    BY <1>3, FaultType DEF Start, HostsType
  <2> QED BY <1>3, <2>1, DisksKept DEF Start, ReqType
<1>4. CASE Link(n) \/ Unlink(n)
  BY <1>4, DisksKept DEF Link, Unlink, HostsType, ReqType
<1> QED BY <1>1, <1>2, <1>3, <1>4
-----------------------------------------------------------------------------
(* The invariant. *)

Others(r) == \A q \in Request \ {r} : req'[q] = req[q]

\* r remains what it was asked for.
Identity(r) ==
  /\ req[r].pc # "idle" => req'[r].op = req[r].op /\ req'[r].host = req[r].host
  /\ req[r].pc \notin {"idle", "save"} => req'[r].id = req[r].id

\* What has been uploaded remains so.
LEMMA UploadedStays ==
  ASSUME Phases, NEW r \in Request, Others(r), Identity(r),
         NEW n, NEW id, id # Null, Uploaded(n, id)
  PROVE  Uploaded(n, id)'
<1>1. PICK u \in Request : req[u].op = "put" /\ req[u].host = n /\ req[u].id = id
  BY DEF Uploaded
<1>2. req'[u].op = "put" /\ req'[u].host = n /\ req'[u].id = id
  BY <1>1, LockerAssumption DEF Others, Identity, Phases, Phase
<1> QED BY <1>2 DEF Uploaded

\* What a step of r alone has to respect.
LEMMA RequestStep ==
  ASSUME TypeOK, LockerInv, NEW r \in Request, Others(r), Identity(r), Phase(r)',
         \A n \in Node : DOMAIN meta[n] \subseteq DOMAIN meta'[n],
         \A n \in Node : \A id \in DOMAIN data'[n] \cup DOMAIN meta'[n] :
            \/ id \in DOMAIN data[n] \cup DOMAIN meta[n]
            \/ req'[r].op = "put" /\ req'[r].host = n /\ req'[r].id = id,
         req'[r].op = "put" /\ req'[r].id # Null => req'[r].id.file = req'[r].body,
         req'[r].op = "get" /\ req'[r].answer = "ok" =>
            /\ req'[r].id \in Checksums /\ req'[r].body = req'[r].id.file
            /\ Uploaded(req'[r].host, req'[r].id)
  PROVE  LockerInv'
<1>1. Phases'
  <2> SUFFICES ASSUME NEW q \in Request, q # r PROVE Phase(q)'
    BY DEF Phases
  <2>1. Phase(q) /\ req'[q] = req[q]
    BY DEF LockerInv, Phases, Others
  <2> QED BY <2>1 DEF Phase
<1>2. Named'
  BY DEF LockerInv, Named, Others
<1>3. KeptUploaded'
  <2> SUFFICES ASSUME NEW n \in Node, NEW id \in DOMAIN data'[n] \cup DOMAIN meta'[n]
               PROVE  Uploaded(n, id)'
    BY DEF KeptUploaded
  <2>1. CASE id \in DOMAIN data[n] \cup DOMAIN meta[n]
    <3>1. Uploaded(n, id)
      BY <2>1 DEF LockerInv, KeptUploaded
    <3>2. id # Null
      BY <2>1, LockerAssumption DEF TypeOK
    <3> QED BY <3>1, <3>2, UploadedStays DEF LockerInv
  <2>2. CASE req'[r].op = "put" /\ req'[r].host = n /\ req'[r].id = id
    BY <2>2 DEF Uploaded
  <2> QED BY <2>1, <2>2
<1>4. ReturnedUploaded'
  <2> SUFFICES ASSUME NEW q \in Request, req'[q].op = "get", req'[q].answer = "ok"
               PROVE  /\ req'[q].id \in Checksums /\ req'[q].body = req'[q].id.file
                      /\ Uploaded(req[q].host, req[q].id)'
    BY DEF ReturnedUploaded
  <2>1. /\ req'[q].id \in Checksums /\ req'[q].body = req'[q].id.file
        /\ Uploaded(req'[q].host, req'[q].id)
    BY DEF LockerInv, ReturnedUploaded, Others
  <2>2. req'[q].id # Null
    BY <2>1, LockerAssumption
  <2>3. Phases
    BY DEF LockerInv
  <2>4. ASSUME NEW n, NEW id, id # Null, Uploaded(n, id) PROVE Uploaded(n, id)'
    BY <2>3, <2>4, UploadedStays
  <2>5. \E u \in Request : req'[u].op = "put" /\ req'[u].host = req'[q].host
                          /\ req'[u].id = req'[q].id
    BY <2>1, <2>2, <2>4 DEF Uploaded
  <2> QED BY <2>1, <2>5 DEF Uploaded
<1> QED BY <1>1, <1>2, <1>3, <1>4 DEF LockerInv

\* What r is like after its request has been answered.
LEMMA AnswerStep ==
  ASSUME ReqType, NEW r \in Request, NEW a, NEW c, Answer(r, a, c)
  PROVE  /\ Others(r) /\ req'[r].pc = "done" /\ req'[r].answer = a /\ req'[r].body = c
         /\ req'[r].op = req[r].op /\ req'[r].host = req[r].host /\ req'[r].id = req[r].id
  BY DEF ReqType, RequestType, Answer, Return, Others

\* An answer other than a file that is returned changes nothing that matters.
LEMMA AnswerInv ==
  ASSUME TypeOK, LockerInv, NEW r \in Request, req[r].pc # "idle", UNCHANGED <<data, meta>>,
         NEW a, NEW c, Answer(r, a, c),
         req[r].op = "put" => c = req[r].body,
         req[r].op = "get" /\ a = "ok" =>
            /\ req[r].id \in Checksums /\ c = req[r].id.file
            /\ Uploaded(req[r].host, req[r].id)
  PROVE  LockerInv'
<1>1. /\ Others(r) /\ req'[r].pc = "done" /\ req'[r].answer = a /\ req'[r].body = c
      /\ req'[r].op = req[r].op /\ req'[r].host = req[r].host /\ req'[r].id = req[r].id
  BY AnswerStep, TypeParts
<1>2. Identity(r)
  BY <1>1 DEF Identity
<1>3. Phase(r)'
  BY <1>1 DEF Phase, LockerInv, Phases
<1>4. req'[r].op = "put" /\ req'[r].id # Null => req'[r].id.file = req'[r].body
  BY <1>1 DEF LockerInv, Named
<1> QED BY <1>1, <1>2, <1>3, <1>4, RequestStep

\* A step to a new place in the handler keeps op, host, id, body and answer.
Goes(r) ==
  /\ Others(r) /\ req[r].pc # "idle"
  /\ req'[r].op = req[r].op /\ req'[r].host = req[r].host /\ req'[r].id = req[r].id
  /\ req'[r].body = req[r].body /\ req'[r].answer = req[r].answer

LEMMA GoesInv ==
  ASSUME TypeOK, LockerInv, NEW r \in Request, Goes(r), Phase(r)', UNCHANGED <<data, meta>>
  PROVE  LockerInv'
<1>1. Identity(r)
  BY DEF Goes, Identity
<1>2. req'[r].op = "put" /\ req'[r].id # Null => req'[r].id.file = req'[r].body
  BY DEF Goes, LockerInv, Named
<1>3. req'[r].op = "get" /\ req'[r].answer = "ok" =>
         /\ req'[r].id \in Checksums /\ req'[r].body = req'[r].id.file
         /\ Uploaded(req'[r].host, req'[r].id)
  BY DEF Goes, LockerInv, ReturnedUploaded
<1> QED BY <1>1, <1>2, <1>3, RequestStep DEF Goes

\* The copying ends.
LEMMA CopiedStep ==
  ASSUME TypeOK, LockerInv, NEW r \in Request,
         req[r].pc \in {"replicate", "copy", "pass"}, req' = [req EXCEPT ![r] = Copied(r)],
         UNCHANGED meta
  PROVE  Goes(r) /\ Phase(r)'
<1>1. ReqType /\ Phase(r)
  BY TypeParts DEF LockerInv, Phases
<1>2. Goes(r)
  BY <1>1 DEF ReqType, RequestType, Copied, Return, Goes, Others
<1>3. req'[r].pc \in {"done", "meta"}
  BY <1>1 DEF ReqType, RequestType, Copied, Return
<1> QED BY <1>1, <1>2, <1>3 DEF Phase, Goes

LEMMA UploadInv ==
  ASSUME TypeOK, LockerInv, NEW r \in Request, Upload(r)
  PROVE  LockerInv'
<1>1. ReqType /\ HostsType /\ DisksType /\ Phase(r)
  BY TypeParts DEF LockerInv, Phases
<1>2. CASE SaveFile(r)
  <2> DEFINE n == req[r].host
             id == Checksum(n, req[r].body)
  <2>1. n \in Node /\ req[r].body \in File /\ req[r].op = "put"
    BY <1>1, <1>2 DEF SaveFile, Phase
  <2>2. id \in Checksums /\ id.file = req[r].body
    BY <1>1, <2>1, ChecksumType DEF HostsType
  <2>3. CASE /\ data' = [data EXCEPT ![n] = Store(@, id, req[r].body)]
             /\ req' = [req EXCEPT ![r].pc = "replicate", ![r].id = id]
    <3>1. /\ Others(r) /\ req'[r].op = "put" /\ req'[r].host = n /\ req'[r].id = id
          /\ req'[r].body = req[r].body /\ req'[r].pc = "replicate"
      BY <1>1, <2>1, <2>3 DEF ReqType, RequestType, Others
    <3>2. Identity(r)
      BY <1>2, <2>1, <3>1 DEF SaveFile, Identity
    <3>3. Phase(r)'
      BY <2>1, <2>2, <3>1 DEF Phase
    <3>4. DOMAIN data'[n] = DOMAIN data[n] \cup {id}
      <4>1. data'[n] = Store(data[n], id, req[r].body)
        BY <1>1, <2>1, <2>3 DEF DisksType
      <4> QED BY <4>1 DEF Store
    <3>5. /\ \A m \in Node \ {n} : data'[m] = data[m]
          /\ UNCHANGED meta
      BY <1>1, <1>2, <2>3 DEF SaveFile, DisksType
    <3> QED BY <2>2, <3>1, <3>2, <3>3, <3>4, <3>5, RequestStep
  <2>4. CASE UNCHANGED data /\ Answer(r, "error", req[r].body)
    BY <1>2, <2>4, AnswerInv DEF SaveFile
  <2> QED BY <1>2, <2>3, <2>4 DEF SaveFile
<1>3. CASE BeginReplicatingFile(r)
  <2>1. UNCHANGED <<data, meta>>
    BY <1>3 DEF BeginReplicatingFile, disks
  <2>2. ASSUME NEW p \in up,
               req' = [req EXCEPT ![r].pc = "copy", ![r].at = p,
                                  ![r].left = REPLICATION_FACTOR - 1]
        PROVE  Goes(r) /\ Phase(r)'
    <3>1. Goes(r) /\ req'[r].pc = "copy" /\ req'[r].at = p
      BY <1>1, <1>3, <2>2 DEF BeginReplicatingFile, ReqType, RequestType, Goes, Others
    <3> QED BY <1>1, <1>3, <3>1 DEF BeginReplicatingFile, Goes, Phase, HostsType
  <2>3. CASE Answer(r, "error", req[r].body)
    <3>1. req[r].pc = "replicate" /\ req[r].op = "put"
      BY <1>1, <1>3 DEF BeginReplicatingFile, Phase
    <3> QED BY <2>1, <2>3, <3>1, AnswerInv
  <2>4. CASE ~Answer(r, "error", req[r].body)
    <3>1. Goes(r) /\ Phase(r)'
      BY <1>3, <2>1, <2>2, <2>4, CopiedStep DEF BeginReplicatingFile
    <3> QED BY <2>1, <3>1, GoesInv
  <2> QED BY <2>3, <2>4
<1>4. CASE ReplicateFile(r)
  <2>1. UNCHANGED <<data, meta>>
    BY <1>4 DEF ReplicateFile
  <2>2. CASE req[r].left > 0 /\ req' = [req EXCEPT ![r] = [req[r] EXCEPT !.pc = "pass"]]
    <3>1. Goes(r) /\ req'[r].pc = "pass" /\ req'[r].at = req[r].at /\ req'[r].left = req[r].left
      BY <1>1, <1>4, <2>2 DEF ReplicateFile, ReqType, RequestType, Goes, Others
    <3>2. Phase(r)'
      BY <1>1, <1>4, <2>2, <3>1 DEF ReplicateFile, Goes, Phase
    <3> QED BY <2>1, <3>1, <3>2, GoesInv
  <2>3. CASE req' = [req EXCEPT ![r] = Copied(r)]
    BY <1>4, <2>1, <2>3, CopiedStep, GoesInv DEF ReplicateFile
  <2> QED BY <1>4, <2>2, <2>3 DEF ReplicateFile
<1>5. CASE ReplicateFurther(r)
  <2> DEFINE s == Successor(req[r].at)
  <2>1. UNCHANGED <<data, meta>> /\ s \in Node
    BY <1>1, <1>5 DEF ReplicateFurther, disks, HostsType
  <2>2. Goes(r) /\ req'[r].pc = "copy" /\ req'[r].at = s
    BY <1>1, <1>5 DEF ReplicateFurther, ReqType, RequestType, Goes, Others
  <2>3. Phase(r)'
    BY <1>1, <1>5, <2>1, <2>2 DEF ReplicateFurther, Goes, Phase
  <2> QED BY <2>1, <2>2, <2>3, GoesInv
<1>6. CASE ReplicateFails(r)
  BY <1>6, CopiedStep, GoesInv DEF ReplicateFails, disks
<1>7. CASE Acknowledge(r)
  <2> DEFINE n == req[r].host
  <2>1. /\ n \in Node /\ req[r].op = "put" /\ req[r].pc = "meta"
        /\ req[r].id \in Checksums
    BY <1>1, <1>7 DEF Acknowledge, Phase
  <2>2. /\ Others(r) /\ req'[r].pc = "done" /\ req'[r].body = req[r].body
        /\ req'[r].op = "put" /\ req'[r].host = n /\ req'[r].id = req[r].id
    BY <1>1, <1>7, <2>1, AnswerStep DEF Acknowledge
  <2>3. Identity(r) /\ Phase(r)'
    BY <2>1, <2>2 DEF Identity, Phase
  <2>4. DOMAIN meta'[n] = DOMAIN meta[n] \cup {req[r].id}
    <3>1. meta'[n] = Store(meta[n], req[r].id, req[r].body)
      BY <1>1, <1>7, <2>1 DEF Acknowledge, DisksType
    <3> QED BY <3>1 DEF Store
  <2>5. (\A m \in Node \ {n} : meta'[m] = meta[m]) /\ UNCHANGED data
    BY <1>1, <1>7 DEF Acknowledge, DisksType
  <2>6. req[r].id.file = req[r].body
    BY <2>1, LockerAssumption DEF LockerInv, Named
  <2> QED BY <2>2, <2>3, <2>4, <2>5, <2>6, RequestStep
<1> QED BY <1>2, <1>3, <1>4, <1>5, <1>6, <1>7 DEF Upload

LEMMA DownloadInv ==
  ASSUME TypeOK, LockerInv, NEW r \in Request, Download(r)
  PROVE  LockerInv'
<1>1. ReqType /\ HostsType /\ DisksType /\ Phase(r)
  BY TypeParts DEF LockerInv, Phases
<1>2. UNCHANGED <<data, meta>>
  BY DEF Download, ReadOriginal, ForwardLookup, Try, Fetch, disks
<1>3. /\ req[r].pc \in {"read", "forward", "try", "fetch"} /\ req[r].host \in Node
      /\ req[r].op = "get" /\ req[r].id \in Checksums
  BY <1>1 DEF Download, ReadOriginal, ForwardLookup, Try, Fetch, Phase
<1>4. ASSUME NEW a \in {"error", "notFound", "gone"}, Answer(r, a, Null)
      PROVE  LockerInv'
  BY <1>2, <1>3, <1>4, AnswerInv
<1>5. ASSUME NEW c \in File, Answer(r, "ok", c), Verified(req[r].host, c, req[r].id),
             Uploaded(req[r].host, req[r].id)
      PROVE  LockerInv'
  <2>1. req[r].id.file = c
    BY <1>1, <1>3, <1>5, ChecksumType DEF Verified, HostsType
  <2> QED BY <1>2, <1>3, <1>5, <2>1, AnswerInv
<1>6. ASSUME NEW left \in Nat, NEW at \in Node \cup {Null}, NEW a \in {"notFound", "gone"},
             req[r].id \in DOMAIN meta[req[r].host], NextTry(r, left, at, a)
      PROVE  LockerInv'
  <2>1. CASE left = 0
    BY <1>4, <1>6, <2>1 DEF NextTry
  <2>2. CASE left # 0
    <3>1. Goes(r) /\ req'[r].pc = "try" /\ req'[r].left = left
      BY <1>1, <1>3, <1>6, <2>2 DEF NextTry, ReqType, RequestType, Goes, Others
    <3>2. Phase(r)'
      BY <1>1, <1>2, <1>3, <1>6, <2>2, <3>1 DEF Phase, Goes
    <3> QED BY <1>2, <3>1, <3>2, GoesInv
  <2> QED BY <2>1, <2>2
<1>7. CASE ReadOriginal(r)
  <2>1. CASE /\ req[r].id \in DOMAIN data[req[r].host]
             /\ Verified(req[r].host, data[req[r].host][req[r].id], req[r].id)
             /\ Answer(r, "ok", data[req[r].host][req[r].id])
    <3>1. Uploaded(req[r].host, req[r].id) /\ data[req[r].host][req[r].id] \in File
      BY <1>1, <1>3, <2>1 DEF LockerInv, KeptUploaded, DisksType, Dir
    <3> QED BY <1>5, <2>1, <3>1
  <2>2. CASE req' = [req EXCEPT ![r].pc = "forward"]
    <3>1. Goes(r) /\ req'[r].pc = "forward"
      BY <1>1, <1>3, <2>2 DEF ReqType, RequestType, Goes, Others
    <3>2. Phase(r)'
      BY <1>1, <1>3, <3>1 DEF Phase, Goes
    <3> QED BY <1>2, <3>1, <3>2, GoesInv
  <2> QED BY <1>7, <2>1, <2>2 DEF ReadOriginal
<1>8. CASE ForwardLookup(r)
  <2>1. CASE /\ req[r].id \in DOMAIN meta[req[r].host]
             /\ req' = [req EXCEPT ![r].pc = "try", ![r].at = Null,
                                   ![r].left = REPLICATION_FACTOR]
    <3>1. Goes(r) /\ req'[r].pc = "try" /\ req'[r].left = REPLICATION_FACTOR
      BY <1>1, <1>3, <2>1 DEF ReqType, RequestType, Goes, Others
    <3>2. Phase(r)'
      BY <1>1, <1>2, <1>3, <2>1, <3>1, LockerAssumption DEF Phase, Goes
    <3> QED BY <1>2, <3>1, <3>2, GoesInv
  <2> QED BY <1>4, <1>8, <2>1 DEF ForwardLookup
<1>9. CASE Try(r)
  <2>1. req[r].left - 1 \in Nat /\ req[r].id \in DOMAIN meta[req[r].host]
    BY <1>1, <1>9 DEF Try, Phase, ReqType, RequestType
  <2>2. ASSUME NEW t \in up,
               req' = [req EXCEPT ![r].pc = "fetch", ![r].at = t, ![r].left = @ - 1]
        PROVE  LockerInv'
    <3>1. Goes(r) /\ req'[r].pc = "fetch" /\ req'[r].at = t
      BY <1>1, <1>3, <2>2 DEF ReqType, RequestType, Goes, Others
    <3>2. Phase(r)'
      BY <1>1, <1>2, <1>3, <2>1, <3>1 DEF Phase, Goes, HostsType
    <3> QED BY <1>2, <3>1, <3>2, GoesInv
  <2> QED BY <1>4, <1>6, <1>9, <2>1, <2>2 DEF Try
<1>10. CASE Fetch(r)
  <2>1. /\ req[r].left \in Nat /\ req[r].at \in Node /\ Sha256(r) \in File
        /\ req[r].id \in DOMAIN meta[req[r].host]
    BY <1>1, <1>10, Sha256Type DEF Fetch, Phase, ReqType, RequestType, LockerInv
  <2>2. CASE /\ Sha256(r) \in DOMAIN replica[req[r].at]
             /\ Verified(req[r].host, replica[req[r].at][Sha256(r)], req[r].id)
             /\ Answer(r, "ok", replica[req[r].at][Sha256(r)])
    <3>1. Uploaded(req[r].host, req[r].id) /\ replica[req[r].at][Sha256(r)] \in File
      BY <1>1, <1>3, <2>1, <2>2 DEF LockerInv, KeptUploaded, DisksType, Dir
    <3> QED BY <1>5, <2>2, <3>1
  <2> QED BY <1>6, <1>10, <2>1, <2>2 DEF Fetch
<1> QED BY <1>7, <1>8, <1>9, <1>10 DEF Download

LEMMA CallInv ==
  ASSUME TypeOK, LockerInv, NEW r \in Request, NEW n \in Node,
         \/ \E c \in File : InsertItem(r, n, c)
         \/ \E id \in Asked(n) : GetItem(r, n, id)
  PROVE  LockerInv'
<1>1. ReqType /\ HostsType
  BY TypeParts
<1>2. req[r].pc = "idle" /\ UNCHANGED <<data, meta>>
  BY DEF InsertItem, GetItem, disks
<1>3. Identity(r)
  BY <1>2 DEF Identity
<1>4. ASSUME NEW c \in File, InsertItem(r, n, c)
      PROVE  LockerInv'
  <2>1. /\ Others(r) /\ req'[r].op = "put" /\ req'[r].pc = "save" /\ req'[r].host = n
        /\ req'[r].id = Null /\ req'[r].body = c
    BY <1>1, <1>4 DEF InsertItem, NewRequest, ReqType, Others
  <2>2. Phase(r)'
    BY <2>1 DEF Phase
  <2> QED BY <1>2, <1>3, <2>1, <2>2, RequestStep
<1>5. ASSUME NEW id \in Asked(n), GetItem(r, n, id)
      PROVE  LockerInv'
  <2>1. id \in Checksums
    BY <1>1, ChecksumType DEF Asked, HostsType, ReqType, RequestType
  <2>2. /\ Others(r) /\ req'[r].op = "get" /\ req'[r].pc = "read" /\ req'[r].host = n
        /\ req'[r].id = id /\ req'[r].answer = Null
    BY <1>1, <1>5 DEF GetItem, NewRequest, ReqType, Others
  <2>3. Phase(r)'
    BY <2>1, <2>2 DEF Phase
  <2> QED BY <1>2, <1>3, <2>2, <2>3, RequestStep, LockerAssumption
<1> QED BY <1>4, <1>5

LEMMA HostInv ==
  ASSUME TypeOK, LockerInv, NEW n \in Node,
         Damage(n) \/ Crash(n) \/ Start(n) \/ Link(n) \/ Unlink(n)
  PROVE  LockerInv'
<1>1. ReqType /\ DisksType
  BY TypeParts
<1>2. CASE Damage(n)
  <2>1. UNCHANGED <<meta, req>>
    BY <1>2 DEF Damage
  <2>2. ASSUME NEW id \in DOMAIN data[n],
               NEW dir \in {Store(data[n], id, c) : c \in File \ {data[n][id]}}
                           \cup {Remove(data[n], id)}
        PROVE  DOMAIN dir \subseteq DOMAIN data[n]
    BY DEF Store, Remove
  <2>3. \A m \in Node : DOMAIN data'[m] \subseteq DOMAIN data[m]
    BY <1>1, <1>2, <2>2 DEF Damage, DisksType
  <2>4. KeptUploaded'
    BY <2>1, <2>3 DEF LockerInv, KeptUploaded, Uploaded
  <2> QED BY <2>1, <2>4 DEF LockerInv, Phases, Phase, Named, ReturnedUploaded, Uploaded
<1>3. CASE Crash(n)
  <2>1. ASSUME NEW r \in Request
        PROVE  /\ req'[r].op = req[r].op /\ req'[r].host = req[r].host
               /\ req'[r].id = req[r].id /\ req'[r].body = req[r].body
               /\ \/ req'[r] = req[r] /\ (req[r].host # n \/ req[r].pc = "done")
                  \/ req'[r].answer = "lost"
    BY <1>1, <1>3 DEF Crash, ReqType, RequestType, Return
  <2>2. ASSUME NEW m, NEW id PROVE Uploaded(m, id) => Uploaded(m, id)'
    BY <2>1 DEF Uploaded
  <2>3. UNCHANGED data /\ \A m \in Node : DOMAIN meta'[m] \subseteq DOMAIN meta[m]
    BY <1>1, <1>3 DEF Crash, DisksType, Empty
  <2>4. Phases'
    <3> SUFFICES ASSUME NEW r \in Request PROVE Phase(r)'
      BY DEF Phases
    <3>1. Phase(r) /\ req[r] \in RequestType
      BY <1>1 DEF LockerInv, Phases, ReqType
    <3>2. CASE req[r].host = n /\ req[r].pc # "done"
      <4>1. CASE req[r].pc \in {"copy", "pass"}
        <5>1. req'[r] = [req[r] EXCEPT !.answer = "lost"]
          BY <1>3, <3>2, <4>1 DEF Crash
        <5> QED BY <3>1, <4>1, <5>1 DEF Phase, RequestType
      <4>2. CASE req[r].pc \notin {"copy", "pass"}
        <5>1. req'[r] = [Return(r, "done") EXCEPT !.answer = "lost"]
          BY <1>3, <3>2, <4>2 DEF Crash
        <5>2. req'[r].pc = "done" /\ req'[r].host = n
          BY <3>1, <3>2, <5>1 DEF RequestType, Return
        <5> QED BY <5>2 DEF Phase
      <4> QED BY <4>1, <4>2
    <3>3. CASE req[r].host # n \/ req[r].pc = "done"
      <4>1. req'[r] = req[r]
        BY <1>3, <3>3 DEF Crash
      <4>2. req[r].pc \in {"try", "fetch"} => meta'[req[r].host] = meta[req[r].host]
        BY <1>1, <1>3, <3>1, <3>3 DEF Crash, Phase, DisksType
      <4> QED BY <3>1, <4>1, <4>2 DEF Phase
    <3> QED BY <3>2, <3>3
  <2>5. Named'
    BY <2>1 DEF LockerInv, Named
  <2>6. KeptUploaded'
    BY <2>2, <2>3 DEF LockerInv, KeptUploaded
  <2>7. ReturnedUploaded'
    <3> SUFFICES ASSUME NEW r \in Request, req'[r].op = "get", req'[r].answer = "ok"
                 PROVE  /\ req'[r].id \in Checksums /\ req'[r].body = req'[r].id.file
                        /\ Uploaded(req[r].host, req[r].id)'
      BY DEF ReturnedUploaded
    <3>1. req'[r] = req[r]
      BY <2>1
    <3>2. /\ req[r].id \in Checksums /\ req[r].body = req[r].id.file
          /\ Uploaded(req[r].host, req[r].id)
      BY <3>1 DEF LockerInv, ReturnedUploaded
    <3>3. \E u \in Request : req'[u].op = "put" /\ req'[u].host = req[r].host
                            /\ req'[u].id = req[r].id
      BY <2>1, <3>2 DEF Uploaded
    <3> QED BY <3>1, <3>2, <3>3 DEF Uploaded
  <2> QED BY <2>4, <2>5, <2>6, <2>7 DEF LockerInv
<1>4. CASE Start(n) \/ Link(n) \/ Unlink(n)
  <2>1. UNCHANGED <<data, meta, req>>
    BY <1>4 DEF Start, Link, Unlink, disks
  <2> QED BY <2>1 DEF LockerInv, Phases, Phase, Named, KeptUploaded, ReturnedUploaded, Uploaded
<1> QED BY <1>2, <1>3, <1>4

LEMMA InitInv == Init => TypeOK /\ LockerInv
<1> SUFFICES ASSUME Init PROVE TypeOK /\ LockerInv
  OBVIOUS
<1> USE TypeParts
<1>1. HostsType
  BY LockerAssumption DEF Init, HostsType
<1>2. DisksType
  BY EmptyDir DEF Init, DisksType
<1>3. ReqType
  BY NewRequestType DEF Init, ReqType
<1>4. \A r \in Request : req[r].pc = "idle" /\ req[r].op = Null
  BY DEF Init, NewRequest
<1>5. Phases /\ Named /\ ReturnedUploaded
  BY <1>4, LockerAssumption DEF Phases, Phase, Named, ReturnedUploaded
<1>6. KeptUploaded
  BY DEF Init, KeptUploaded, Empty
<1> QED BY <1>1, <1>2, <1>3, <1>5, <1>6 DEF LockerInv

LEMMA StepInv == TypeOK /\ LockerInv /\ [Next]_vars => TypeOK' /\ LockerInv'
<1> SUFFICES ASSUME TypeOK, LockerInv, [Next]_vars PROVE TypeOK' /\ LockerInv'
  OBVIOUS
<1>1. Phases
  BY DEF LockerInv
<1>2. CASE \E r \in Request : Upload(r) \/ Download(r)
  BY <1>1, <1>2, UploadType, UploadInv, DownloadType, DownloadInv
<1>3. CASE \E r \in Request, n \in Node, c \in File : InsertItem(r, n, c)
  BY <1>3, CallType, CallInv
<1>4. CASE \E r \in Request, n \in Node : \E id \in Asked(n) : GetItem(r, n, id)
  BY <1>4, CallType, CallInv
<1>5. CASE \E n \in Node : Damage(n) \/ Crash(n) \/ Start(n) \/ Link(n) \/ Unlink(n)
  BY <1>5, HostType, HostInv
<1>6. CASE UNCHANGED vars
  <2>1. UNCHANGED <<hosts, data, replica, meta, req>>
    BY <1>6 DEF vars, disks
  <2>2. HostsType' /\ DisksType' /\ ReqType'
    BY <2>1, HostsKept, TypeParts DEF DisksType, ReqType
  <2> QED BY <2>1, <2>2, TypePartsNext
          DEF LockerInv, Phases, Phase, Named, KeptUploaded, ReturnedUploaded, Uploaded
<1> QED BY <1>2, <1>3, <1>4, <1>5, <1>6 DEF Next

\* Type correctness: disks, metadata and requests keep their shape, for any nodes,
\* contents, requests and faults.
THEOREM LockerTypeCorrect == Spec => []TypeOK
  BY InitInv, StepInv, PTL DEF Spec

\* What insertItem, getItem and the metadata maintain between them: a node has
\* nothing under an identifier that was not uploaded there, and a request past the
\* lookup of the metadata has an entry in them.
THEOREM LockerInvariant == Spec => []LockerInv
  BY InitInv, StepInv, PTL DEF Spec

\* getItem, forwardLookup and verifyFile: a download returns what was uploaded at
\* this node under the identifier, whatever the disks and the other nodes do.
THEOREM DownloadsAreUploads == Spec => []OnlyUploadedReturned
<1>1. LockerInv => OnlyUploadedReturned
  <2> SUFFICES ASSUME LockerInv, NEW r \in Request, req[r].op = "get", req[r].answer = "ok"
               PROVE  \E u \in Request : /\ req[u].op = "put" /\ req[u].host = req[r].host
                                         /\ req[u].id = req[r].id /\ req[u].body = req[r].body
    BY DEF OnlyUploadedReturned
  <2>1. /\ req[r].id \in Checksums /\ req[r].body = req[r].id.file
        /\ Uploaded(req[r].host, req[r].id)
    BY DEF LockerInv, ReturnedUploaded
  <2>2. PICK u \in Request : /\ req[u].op = "put" /\ req[u].host = req[r].host
                             /\ req[u].id = req[r].id
    BY <2>1 DEF Uploaded
  <2>3. req[u].body = req[r].body
    BY <2>1, <2>2, LockerAssumption DEF LockerInv, Named
  <2> QED BY <2>2, <2>3
<1> QED BY <1>1, LockerInvariant, PTL
-----------------------------------------------------------------------------
(* The ring a request walks along. *)

LEMMA NodesFinite ==
  ASSUME NEW A \in SUBSET Node
  PROVE  /\ IsFiniteSet(A) /\ Cardinality(A) \in Nat
         /\ \A B \in SUBSET A : Cardinality(B) \in Nat /\ Cardinality(B) <= Cardinality(A)
<1>1. IsFiniteSet(Id)
  BY IntAssumption, FS_Interval DEF Id, INT_MIN
<1>2. IsFiniteSet(A)
  BY <1>1, FS_Subset, LockerAssumption
<1>3. \A B \in SUBSET A : IsFiniteSet(B) /\ Cardinality(B) <= Cardinality(A)
  BY <1>2, FS_Subset
<1> QED BY <1>2, <1>3, FS_CardinalityType

LEMMA NodeDist ==
  ASSUME NEW a \in Node, NEW b \in Node
  PROVE  /\ Dist(a, b) \in Nat /\ Dist(a, b) < RingSize
         /\ Dist(a, b) = 0 <=> a = b
  BY DistType, LockerAssumption

LEMMA NodeDistAdds ==
  ASSUME NEW a \in Node, NEW b \in Node, NEW c \in Node
  PROVE  IF Dist(a, b) <= Dist(a, c) THEN Dist(b, c) = Dist(a, c) - Dist(a, b)
                                     ELSE Dist(b, c) = RingSize - Dist(a, b) + Dist(a, c)
  BY DistAdds, LockerAssumption

\* The successor of n is the nearest node of the ring as n sees it.
LEMMA SuccessorIsNearest ==
  ASSUME ring \subseteq Node, NEW n \in Node
  PROVE  /\ Successor(n) \in Circle(n)
         /\ Follows(Circle(n), n, Successor(n))
         /\ IF Circle(n) = {n} THEN Successor(n) = n
            ELSE /\ Successor(n) # n
                 /\ \A k \in Circle(n) \ {n} : Dist(n, Successor(n)) <= Dist(n, k)
<1>1. Circle(n) \in SUBSET Id /\ n \in Circle(n)
  BY LockerAssumption DEF Circle
<1>2. \E s \in Circle(n) : Follows(Circle(n), n, s)
  BY <1>1, FollowerExists
<1>3. Successor(n) \in Circle(n) /\ Follows(Circle(n), n, Successor(n))
  BY <1>2 DEF Successor
<1> QED BY <1>1, <1>3, FollowsIsNearest

\* What findPredecessor returns: of the nodes n knows of, the last one before the
\* place.
LEMMA PredecessorIsLast ==
  ASSUME ring \subseteq Node, ring # {}, NEW n \in Node, NEW place \in Id
  PROVE  /\ Predecessor(n, place) \in Circle(n)
         /\ \A k \in Circle(n) \ {Predecessor(n, place)} :
              /\ 0 < Dist(Predecessor(n, place), place)
              /\ Dist(Predecessor(n, place), place) <= Dist(Predecessor(n, place), k)
<1>1. /\ \A a \in Node : a \in Id /\ Dist(a, place) \in Nat /\ Dist(a, place) < RingSize
      /\ \A a, b \in Node : a # b => Dist(a, b) >= 3
      /\ Circle(n) \subseteq Node
  BY DistType, LockerAssumption DEF Spaced, Circle
<1>2. ASSUME NEW m \in Node
      PROVE  covers(m, Successor(m), place) <=>
               \/ Circle(m) = {m}
               \/ 0 < Dist(m, place) /\ Dist(m, place) <= Dist(m, Successor(m))
  <2>1. Successor(m) \in Node
    BY SuccessorIsNearest DEF Circle
  <2>2. m = Successor(m) <=> Circle(m) = {m}
    BY SuccessorIsNearest
  <2> QED BY <1>1, <2>1, <2>2, CoversIsArc
<1> DEFINE sn == Successor(n)
<1>3. sn \in Circle(n) /\ sn \in Node
  BY <1>1, SuccessorIsNearest
<1>4. CASE covers(n, Successor(n), place)
  <2>1. Predecessor(n, place) = n
    BY <1>4 DEF Predecessor
  <2>2. ASSUME NEW k \in Circle(n) \ {n}
        PROVE  0 < Dist(n, place) /\ Dist(n, place) <= Dist(n, k)
    <3>1. Circle(n) # {n} /\ Dist(n, sn) <= Dist(n, k)
      BY SuccessorIsNearest
    <3>2. Dist(n, sn) \in Nat /\ Dist(n, k) \in Nat
      BY <1>1, <1>3, NodeDist
    <3> QED BY <1>1, <1>2, <1>4, <3>1, <3>2
  <2> QED BY <2>1, <2>2 DEF Circle
<1>5. CASE ~covers(n, Successor(n), place)
  <2> DEFINE p == Predecessor(n, place)
             s == Successor(p)
  <2>1. \E q \in ring : covers(q, Successor(q), place)
    <3>1. ring \in SUBSET Id /\ Spaced(ring)
      BY LockerAssumption DEF Spaced
    <3>2. PICK q \in ring : \A t \in ring : Follows(ring, q, t) => covers(q, t, place)
      BY <3>1, CovererExists
    <3>3. Circle(q) = ring
      BY DEF Circle
    <3> QED BY <3>2, <3>3, SuccessorIsNearest
  <2>2. p \in ring /\ covers(p, s, place)
    BY <1>5, <2>1 DEF Predecessor
  <2>3. Circle(p) = ring /\ p \in Node /\ s \in ring /\ s \in Node
    BY <2>2, SuccessorIsNearest DEF Circle
  <2>4. ASSUME NEW k \in ring \ {p}
        PROVE  /\ s # p /\ Dist(p, s) <= Dist(p, k)
               /\ 0 < Dist(p, place) /\ Dist(p, place) <= Dist(p, s)
               /\ 0 < Dist(p, place) /\ Dist(p, place) <= Dist(p, k)
    <3>1. ring # {p} /\ s # p /\ Dist(p, s) <= Dist(p, k)
      BY <2>3, SuccessorIsNearest
    <3>2. Dist(p, s) \in Nat /\ Dist(p, k) \in Nat
      BY <2>3, NodeDist
    <3> QED BY <1>1, <1>2, <2>2, <2>3, <3>1, <3>2
  <2>5. ASSUME n \notin ring
        PROVE  0 < Dist(p, place) /\ Dist(p, place) <= Dist(p, n)
    <3>1. Circle(n) # {n} /\ sn \in ring /\ sn # n /\ p # n
      BY <2>2, <2>5, SuccessorIsNearest DEF Circle
    <3>2. ~(0 < Dist(n, place) /\ Dist(n, place) <= Dist(n, sn))
      BY <1>2, <1>5
    <3>3. /\ Dist(n, sn) \in Nat /\ Dist(n, sn) < RingSize /\ Dist(n, sn) > 0
          /\ Dist(n, p) \in Nat /\ Dist(n, p) < RingSize /\ Dist(n, p) > 0
          /\ Dist(p, n) \in Nat /\ Dist(p, n) < RingSize /\ Dist(p, n) > 0
          /\ Dist(n, place) \in Nat /\ Dist(p, place) \in Nat /\ Dist(n, n) = 0
          /\ Dist(n, place) < RingSize /\ RingSize \in Int
      BY <1>1, <1>3, <2>3, <3>1, NodeDist, IntAssumption DEF RingSize, INT_MIN
    <3>4. Dist(p, n) = RingSize - Dist(n, p)
      <4>1. IF Dist(n, p) <= Dist(n, n) THEN Dist(p, n) = Dist(n, n) - Dist(n, p)
                                        ELSE Dist(p, n) = RingSize - Dist(n, p) + Dist(n, n)
        BY <2>3, NodeDistAdds
      <4> QED BY <3>3, <4>1
    <3>5. IF Dist(n, p) <= Dist(n, place) THEN Dist(p, place) = Dist(n, place) - Dist(n, p)
                                          ELSE Dist(p, place) =
                                            RingSize - Dist(n, p) + Dist(n, place)
      BY <1>1, <2>3, DistAdds
    <3>6. Dist(n, place) = 0 \/ Dist(n, sn) < Dist(n, place)
      BY <3>2, <3>3
    <3>7. CASE ring = {p}
      <4>1. sn = p
        BY <3>1, <3>7
      <4> QED BY <3>3, <3>4, <3>5, <3>6, <4>1
    <3>8. CASE ring # {p}
      <4>1. PICK k \in ring : k # p
        BY <2>2, <3>8
      <4>2. 0 < Dist(p, place) /\ Dist(p, place) <= Dist(p, s) /\ s # p
        BY <2>4, <4>1
      <4>3. Dist(p, s) \in Nat /\ Dist(p, sn) \in Nat /\ Dist(p, s) < RingSize
        BY <1>3, <2>3, NodeDist
      <4>4. SUFFICES ASSUME Dist(p, n) < Dist(p, place) PROVE FALSE
        BY <3>3, <4>2
      <4>5. Dist(n, place) = Dist(p, place) - Dist(p, n)
        BY <3>3, <3>4, <3>5, <4>4
      <4>6. CASE sn = p
        BY <3>3, <3>4, <3>6, <4>2, <4>3, <4>4, <4>5, <4>6
      <4>7. CASE sn # p
        <5>1. Dist(p, s) <= Dist(p, sn)
          BY <2>4, <3>1, <4>7
        <5>2. Dist(p, n) <= Dist(p, sn)
          BY <3>3, <4>2, <4>3, <4>4, <5>1
        <5>3. Dist(n, sn) = Dist(p, sn) - Dist(p, n)
          BY <1>3, <2>3, <5>2, NodeDistAdds
        <5> QED BY <3>3, <3>6, <4>2, <4>3, <4>4, <4>5, <5>1, <5>3
      <4> QED BY <4>6, <4>7
    <3> QED BY <3>7, <3>8
  <2> QED BY <2>2, <2>4, <2>5 DEF Circle
<1> QED BY <1>4, <1>5
-----------------------------------------------------------------------------
(* Copies are made, as long as nothing fails. *)

\* The ring only grows, and so do the good copies.
Grows == ring \subseteq ring' /\ \A c : Holders(c) \subseteq Holders(c)'

LEMMA CopiesOnStays ==
  ASSUME Grows, NEW c, NEW A \in SUBSET Node, NEW k \in Int, CopiesOn(c, A, k)
  PROVE  CopiesOn(c, A, k)'
<1>1. Holders(c) \subseteq Holders(c)'
  BY DEF Grows
<1>2. CASE Member \subseteq Holders(c)
  BY <1>1, <1>2 DEF CopiesOn
<1>3. CASE Member \cap A \subseteq Holders(c) /\ Cardinality(A \cap Holders(c)) >= k
  <2>1. A \cap Holders(c) \in SUBSET (A \cap Holders(c)') /\ A \cap Holders(c)' \in SUBSET Node
    BY <1>1
  <2>2. /\ Cardinality(A \cap Holders(c)) \in Nat /\ Cardinality(A \cap Holders(c)') \in Nat
        /\ Cardinality(A \cap Holders(c)) <= Cardinality(A \cap Holders(c)')
    BY <2>1, NodesFinite
  <2>3. Cardinality(A \cap Holders(c)') >= k
    BY <1>3, <2>2
  <2> QED BY <1>1, <1>3, <2>3 DEF CopiesOn
<1> QED BY <1>2, <1>3 DEF CopiesOn

LEMMA CopiedStays ==
  ASSUME Grows, NEW n, NEW c, NEW q, NEW k \in Int
  PROVE  /\ CopiedBefore(n, c, q, k) => CopiedBefore(n, c, q, k)'
         /\ CopiedUpTo(n, c, q, k) => CopiedUpTo(n, c, q, k)'
<1>1. ASSUME NEW p, StartAt(n, c, p) PROVE StartAt(n, c, p)'
  BY <1>1 DEF Grows, StartAt, Circle
<1>2. ASSUME NEW p \in Node
      PROVE  /\ CopiesOn(c, Before(p, q), k) => CopiesOn(c, Before(p, q), k)'
             /\ CopiesOn(c, UpTo(p, q), k) => CopiesOn(c, UpTo(p, q), k)'
  <2>1. Before(p, q) \in SUBSET Node /\ UpTo(p, q) \in SUBSET Node
    BY DEF Before, UpTo
  <2>2. ASSUME NEW A \in SUBSET Node PROVE CopiesOn(c, A, k) => CopiesOn(c, A, k)'
    BY CopiesOnStays
  <2> QED BY <2>1, <2>2
<1> QED BY <1>1, <1>2 DEF CopiedBefore, CopiedUpTo

\* A request that stays where it is.
LEMMA CopyingStays ==
  ASSUME ReqType, Grows, NEW r \in Request, req'[r] = req[r], Copying(r)
  PROVE  Copying(r)'
<1>1. /\ REPLICATION_FACTOR - 1 - req[r].left \in Int /\ REPLICATION_FACTOR - req[r].left \in Int
      /\ REPLICATION_FACTOR \in Int
  BY LockerAssumption DEF ReqType, RequestType
<1> QED BY <1>1, CopiedStays DEF Copying

\* What a step of r alone has to respect.
LEMMA RequestCalm ==
  ASSUME ReqType, Calm, Grows, NEW r \in Request, Others(r), UNCHANGED <<ring, up>>, Intact',
         req'[r].pc # "idle" => req'[r].host \in up, req'[r].at \in up \cup {Null}, Copying(r)'
  PROVE  Calm'
<1>1. Alive'
  BY DEF Calm, Alive, Others
<1>2. ASSUME NEW q \in Request PROVE Copying(q)'
  <2>1. CASE q = r
    BY <2>1
  <2>2. CASE q # r
    BY <2>2, CopyingStays DEF Calm, Others
  <2> QED BY <2>1, <2>2
<1> QED BY <1>1, <1>2 DEF Calm

\* Steps that leave the ring, the processes and the copies alone.
LEMMA CopiesUntouched ==
  ASSUME UNCHANGED <<ring, replica>>
  PROVE  Grows /\ (Intact => Intact')
  BY DEF Grows, Holders, Intact

LEMMA CalmUntouched ==
  ASSUME ReqType, Calm, UNCHANGED <<ring, up, replica, req>>
  PROVE  Calm'
<1>1. Grows /\ Intact'
  BY CopiesUntouched DEF Calm
<1>2. \A r \in Request : Copying(r)'
  BY <1>1, CopyingStays DEF Calm
<1> QED BY <1>1, <1>2 DEF Calm, Alive

\* The copying for r starts, ...
LEMMA CopyingStarts ==
  ASSUME TypeOK, Alive, NEW n \in Node, NEW c \in File, NEW k \in Int, k <= 0
  PROVE  LET p == Predecessor(n, Place[c])
         IN  p \in Node /\ CopiedBefore(n, c, p, k)
<1> DEFINE p == Predecessor(n, Place[c])
<1>1. ring \subseteq Node /\ ring # {} /\ Place[c] \in Id /\ Member \subseteq ring
  BY LockerAssumption DEF TypeOK, Alive
<1>2. /\ p \in Circle(n)
      /\ \A j \in Circle(n) \ {p} : 0 < Dist(p, Place[c]) /\ Dist(p, Place[c]) <= Dist(p, j)
  BY <1>1, PredecessorIsLast
<1>3. p \in Node /\ StartAt(n, c, p)
  BY <1>1, <1>2 DEF StartAt, Circle
<1>4. Before(p, p) = {}
  BY <1>3, NodeDist DEF Before
<1>5. CopiesOn(c, Before(p, p), k)
  BY <1>4, FS_EmptySet DEF CopiesOn
<1> QED BY <1>3, <1>5 DEF CopiedBefore

\* ... a copy is stored at q, ...
LEMMA CopyStored ==
  ASSUME TypeOK, NEW c \in File, NEW q \in Node, UNCHANGED ring,
         replica' = [replica EXCEPT ![q] = Store(@, c, c)]
  PROVE  /\ Grows /\ q \in Holders(c)'
         /\ Intact => Intact'
<1>1. DOMAIN replica = Node
  BY DEF TypeOK
<1>2. /\ replica'[q] = Store(replica[q], c, c)
      /\ \A m \in Node \ {q} : replica'[m] = replica[m]
  BY <1>1
<1>3. /\ DOMAIN replica'[q] = DOMAIN replica[q] \cup {c} /\ replica'[q][c] = c
      /\ \A m \in DOMAIN replica[q] \ {c} : replica'[q][m] = replica[q][m]
  BY <1>2 DEF Store
<1>4. ASSUME NEW d PROVE Holders(d) \subseteq Holders(d)'
  BY <1>2, <1>3 DEF Holders
<1>5. q \in Holders(c)'
  BY <1>3 DEF Holders
<1>6. Intact => Intact'
  BY <1>2, <1>3 DEF Intact
<1> QED BY <1>4, <1>5, <1>6 DEF Grows

LEMMA CopyingGoesOn ==
  ASSUME Grows, NEW n, NEW c, NEW q \in Node, NEW k \in Int, CopiedBefore(n, c, q, k),
         q \in Holders(c)'
  PROVE  CopiedUpTo(n, c, q, k + 1)'
<1>1. PICK p \in Node : StartAt(n, c, p)' /\ CopiesOn(c, Before(p, q), k)'
  <2>1. CopiedBefore(n, c, q, k)'
    BY CopiedStays
  <2> QED BY <2>1 DEF CopiedBefore
<1> DEFINE H == Holders(c)'
<1>2. UpTo(p, q) = Before(p, q) \cup {q} /\ q \notin Before(p, q)
  <2>1. q \in UpTo(p, q) /\ q \notin Before(p, q)
    BY NodeDist DEF UpTo, Before
  <2>2. ASSUME NEW m \in Node PROVE m \in UpTo(p, q) <=> m \in Before(p, q) \cup {q}
    <3>1. Dist(p, m) \in Nat /\ Dist(p, q) \in Nat /\ (Dist(m, q) = 0 <=> m = q)
      BY NodeDist
    <3>2. Dist(p, m) <= Dist(p, q) => Dist(m, q) = Dist(p, q) - Dist(p, m)
      BY NodeDistAdds
    <3> QED BY <3>1, <3>2 DEF UpTo, Before
  <2> QED BY <2>1, <2>2 DEF UpTo, Before
<1>3. CASE Member \subseteq H
  BY <1>1, <1>3 DEF CopiedUpTo, CopiesOn
<1>4. CASE Member \cap Before(p, q) \subseteq H /\ Cardinality(Before(p, q) \cap H) >= k
  <2>1. UpTo(p, q) \cap H = (Before(p, q) \cap H) \cup {q}
    BY <1>2
  <2>2. Before(p, q) \cap H \in SUBSET Node
    BY DEF Before
  <2>3. Cardinality(UpTo(p, q) \cap H) = Cardinality(Before(p, q) \cap H) + 1
    BY <1>2, <2>1, <2>2, NodesFinite, FS_AddElement
  <2>4. Cardinality(UpTo(p, q) \cap H) >= k + 1
    BY <1>4, <2>2, <2>3, NodesFinite
  <2>5. Member \cap UpTo(p, q) \subseteq H
    BY <1>2, <1>4
  <2>6. CopiesOn(c, UpTo(p, q), k + 1)'
    BY <2>4, <2>5 DEF CopiesOn
  <2> QED BY <1>1, <2>6 DEF CopiedUpTo
<1> QED BY <1>1, <1>3, <1>4 DEF CopiesOn

\* ... and the next one is on its way to the successor, which may be where a round of
\* the whole ring has ended.
LEMMA CopyingGoesFurther ==
  ASSUME TypeOK, Alive, NEW n, NEW c, NEW q \in Node, NEW k \in Int, CopiedUpTo(n, c, q, k)
  PROVE  CopiedBefore(n, c, Successor(q), k)
<1> DEFINE s == Successor(q)
<1>1. PICK p \in Node : StartAt(n, c, p) /\ CopiesOn(c, UpTo(p, q), k)
  BY DEF CopiedUpTo
<1>2. ring \subseteq Node /\ Member \subseteq Circle(q)
  BY DEF TypeOK, Alive, Circle
<1>3. /\ s \in Node
      /\ IF Circle(q) = {q} THEN s = q
         ELSE s # q /\ \A m \in Circle(q) \ {q} : Dist(q, s) <= Dist(q, m)
  BY <1>2, SuccessorIsNearest DEF Circle
<1>4. /\ Dist(p, q) \in Nat /\ Dist(p, s) \in Nat /\ Dist(q, s) \in Nat
      /\ Dist(p, q) < RingSize /\ Dist(p, s) < RingSize /\ (Dist(q, s) = 0 <=> q = s)
  BY <1>3, NodeDist
<1>5. CASE Member \subseteq Holders(c)
  BY <1>1, <1>5 DEF CopiedBefore, CopiesOn
<1>6. CASE /\ Member \cap UpTo(p, q) \subseteq Holders(c)
           /\ Cardinality(UpTo(p, q) \cap Holders(c)) >= k
  <2>1. CASE Dist(p, q) < Dist(p, s)
    <3>1. UpTo(p, q) \subseteq Before(p, s)
      BY <1>4, <2>1, NodeDist DEF UpTo, Before
    <3>2. UpTo(p, q) \cap Holders(c) \in SUBSET (Before(p, s) \cap Holders(c))
          /\ Before(p, s) \cap Holders(c) \in SUBSET Node
      BY <3>1 DEF Before
    <3>3. /\ Cardinality(UpTo(p, q) \cap Holders(c)) \in Nat
          /\ Cardinality(Before(p, s) \cap Holders(c)) \in Nat
          /\ Cardinality(UpTo(p, q) \cap Holders(c)) <= Cardinality(Before(p, s) \cap Holders(c))
      BY <3>2, NodesFinite
    <3>4. Cardinality(Before(p, s) \cap Holders(c)) >= k
      BY <1>6, <3>3
    <3>5. ASSUME NEW m \in Member, m \in Before(p, s) PROVE m \in UpTo(p, q)
      <4>1. /\ m \in Node /\ m \in Circle(q)
            /\ Dist(p, m) \in Nat /\ Dist(p, m) < Dist(p, s) /\ Dist(q, m) \in Nat
        BY <1>2, <3>5, NodeDist, LockerAssumption DEF Before
      <4>2. SUFFICES ASSUME Dist(p, q) < Dist(p, m) PROVE FALSE
        BY <1>4, <4>1 DEF UpTo
      <4>3. m # q
        BY <4>1, <4>2
      <4>4. Dist(q, s) <= Dist(q, m)
        BY <1>3, <4>1, <4>3
      <4>5. Dist(q, m) = Dist(p, m) - Dist(p, q) /\ Dist(q, s) = Dist(p, s) - Dist(p, q)
        BY <1>3, <1>4, <2>1, <4>1, <4>2, NodeDistAdds
      <4> QED BY <1>4, <4>1, <4>4, <4>5
    <3>6. CopiesOn(c, Before(p, s), k)
      BY <1>6, <3>4, <3>5 DEF CopiesOn
    <3> QED BY <1>1, <3>6 DEF CopiedBefore
  <2>2. CASE Dist(p, s) <= Dist(p, q)
    <3>1. ASSUME NEW m \in Member PROVE m \in UpTo(p, q)
      <4>1. m \in Node /\ m \in Circle(q) /\ Dist(p, m) \in Nat /\ Dist(q, m) \in Nat
        BY <1>2, NodeDist, LockerAssumption
      <4>2. SUFFICES ASSUME Dist(p, q) < Dist(p, m) PROVE FALSE
        BY <1>4, <4>1 DEF UpTo
      <4>3. m # q
        BY <4>1, <4>2
      <4>4. s # q /\ Dist(q, s) <= Dist(q, m)
        BY <1>3, <4>1, <4>3
      <4>5. Dist(q, m) = Dist(p, m) - Dist(p, q)
        BY <1>4, <4>1, <4>2, NodeDistAdds
      <4>6. Dist(q, s) >= RingSize - Dist(p, q) + Dist(p, s)
        <5>1. Dist(p, q) # Dist(p, s)
          <6> SUFFICES ASSUME Dist(p, q) = Dist(p, s) PROVE FALSE
            OBVIOUS
          <6>1. Dist(q, s) = 0
            BY <1>3, <1>4, NodeDistAdds
          <6> QED BY <1>4, <4>4, <6>1
        <5>2. ~(Dist(p, q) <= Dist(p, s))
          BY <1>4, <2>2, <5>1
        <5>3. Dist(q, s) = RingSize - Dist(p, q) + Dist(p, s)
          BY <1>3, <5>2, NodeDistAdds
        <5> QED BY <1>4, <5>3, IntAssumption DEF RingSize, INT_MIN
      <4>7. Dist(p, m) < RingSize /\ RingSize \in Int
        BY <4>1, NodeDist, IntAssumption DEF RingSize, INT_MIN
      <4> QED BY <1>4, <4>1, <4>4, <4>5, <4>6, <4>7
    <3> QED BY <1>1, <1>6, <3>1 DEF CopiedBefore, CopiesOn
  <2> QED BY <1>4, <2>1, <2>2
<1> QED BY <1>1, <1>5, <1>6 DEF CopiesOn

\* An upload, as long as nothing fails.
LEMMA UploadCalm ==
  ASSUME TypeOK, LockerInv, Calm, NEW r \in Request, Upload(r), UNCHANGED faults
  PROVE  Calm'
<1>1. ReqType /\ HostsType /\ Phase(r) /\ req[r] \in RequestType /\ Copying(r)
  BY TypeParts DEF LockerInv, Phases, ReqType, Calm
<1> PICK n, c, q, left :
       n = req[r].host /\ c = req[r].body /\ q = req[r].at /\ left = req[r].left
  OBVIOUS
<1>2. /\ Alive /\ ring \subseteq Node /\ up \subseteq Node
      /\ Member \subseteq ring /\ ring \subseteq up
      /\ q \in up \cup {Null} /\ Null \notin Node
      /\ req[r].pc # "idle" => n \in up
      /\ left \in Nat /\ REPLICATION_FACTOR \in Nat
  BY <1>1, LockerAssumption DEF Calm, Alive, HostsType, RequestType
<1>3. ~Fault
  BY <1>1 DEF Fault, HostsType
<1>4. ASSUME NEW at \in up \cup {Null}, NEW k \in Int, Goes(r), Grows, Intact',
             UNCHANGED <<ring, up>>, req'[r].at = at, req'[r].left = k,
             req'[r].pc = "copy" => CopiedBefore(n, c, at, REPLICATION_FACTOR - 1 - k)',
             req'[r].pc = "pass" => CopiedUpTo(n, c, at, REPLICATION_FACTOR - k)',
             req'[r].pc = "meta" => \E last \in Node : CopiedUpTo(n, c, last, REPLICATION_FACTOR)'
      PROVE  Calm'
  <2>1. req'[r].host = n /\ req'[r].body = c /\ n \in up /\ Others(r)
    BY <1>2, <1>4 DEF Goes
  <2>2. req[r].answer = "stored" =>
          \E last \in Node : CopiedUpTo(n, c, last, REPLICATION_FACTOR)
    BY <1>1 DEF Copying
  <2>3. req'[r].answer = "stored" =>
          \E last \in Node : CopiedUpTo(n, c, last, REPLICATION_FACTOR)'
    BY <1>2, <1>4, <2>2, CopiedStays DEF Goes
  <2>4. Copying(r)'
    BY <1>4, <2>1, <2>3 DEF Copying
  <2> QED BY <1>1, <1>4, <2>1, <2>4, RequestCalm
<1>5. CASE SaveFile(r)
  <2> DEFINE id == Checksum(n, c)
  <2>1. UNCHANGED <<ring, up, replica>> /\ Grows /\ Intact'
    BY <1>5, CopiesUntouched DEF SaveFile, Calm
  <2>2. req' = [req EXCEPT ![r].pc = "replicate", ![r].id = id] /\ n \in up
    BY <1>2, <1>3, <1>5 DEF SaveFile
  <2>3. /\ Others(r) /\ req'[r].pc = "replicate" /\ req'[r].host = n /\ req'[r].body = c
        /\ req'[r].at = q /\ req'[r].answer = req[r].answer
    BY <1>1, <2>2 DEF ReqType, RequestType, Others
  <2>4. req[r].answer = "stored" =>
          \E last \in Node : CopiedUpTo(n, c, last, REPLICATION_FACTOR)
    BY <1>1 DEF Copying
  <2>5. req'[r].answer = "stored" =>
          \E last \in Node : CopiedUpTo(n, c, last, REPLICATION_FACTOR)'
    BY <1>2, <2>1, <2>3, <2>4, CopiedStays
  <2>6. Copying(r)'
    BY <2>3, <2>5 DEF Copying
  <2> QED BY <1>1, <1>2, <2>1, <2>2, <2>3, <2>6, RequestCalm
<1>6. CASE BeginReplicatingFile(r)
  <2> PICK p : p = Predecessor(n, Place[c])
    OBVIOUS
  <2>1. UNCHANGED <<ring, up, replica, meta>> /\ Grows /\ Intact'
    BY <1>6, CopiesUntouched DEF BeginReplicatingFile, Calm, hosts, disks
  <2>2. /\ p \in up
        /\ req' = [req EXCEPT ![r].pc = "copy", ![r].at = p, ![r].left = REPLICATION_FACTOR - 1]
    BY <1>2, <1>6 DEF BeginReplicatingFile, LookupFails, LookupThrows
  <2>3. Goes(r) /\ req'[r].pc = "copy" /\ req'[r].at = p /\ req'[r].left = REPLICATION_FACTOR - 1
    BY <1>1, <1>6, <2>2 DEF BeginReplicatingFile, ReqType, RequestType, Goes, Others
  <2>4. n \in Node /\ c \in File
    BY <1>1, <1>6 DEF BeginReplicatingFile, Phase
  <2>5. REPLICATION_FACTOR - 1 - (REPLICATION_FACTOR - 1) = 0 /\ REPLICATION_FACTOR - 1 \in Int
    BY <1>2
  <2>6. CopiedBefore(n, c, p, 0)
    BY <1>2, <2>4, CopyingStarts
  <2>7. CopiedBefore(n, c, p, 0)'
    BY <2>1, <2>6, CopiedStays
  <2>8. CopiedBefore(n, c, p, REPLICATION_FACTOR - 1 - (REPLICATION_FACTOR - 1))'
    BY <2>5, <2>7
  <2> QED BY <1>4, <2>1, <2>2, <2>3, <2>5, <2>8
<1>7. CASE ReplicateFile(r)
  <2>1. /\ UNCHANGED <<ring, up, meta>> /\ q \in Node /\ c \in File
        /\ replica' = [replica EXCEPT ![q] = Store(@, c, c)]
    BY <1>1, <1>3, <1>7 DEF ReplicateFile, Phase
  <2>2. Grows /\ q \in Holders(c)' /\ Intact'
    BY <2>1, CopyStored DEF Calm
  <2>3. CopiedBefore(n, c, q, REPLICATION_FACTOR - 1 - left)
    BY <1>1, <1>7 DEF ReplicateFile, Copying
  <2>4. /\ REPLICATION_FACTOR - 1 - left \in Int /\ REPLICATION_FACTOR - left \in Int
        /\ REPLICATION_FACTOR - 1 - left + 1 = REPLICATION_FACTOR - left
    BY <1>2
  <2>5. CopiedUpTo(n, c, q, REPLICATION_FACTOR - left)'
    <3>1. CopiedUpTo(n, c, q, REPLICATION_FACTOR - 1 - left + 1)'
      BY <2>1, <2>2, <2>3, <2>4, CopyingGoesOn
    <3> QED BY <2>4, <3>1
  <2>6. CASE left > 0 /\ req' = [req EXCEPT ![r] = [req[r] EXCEPT !.pc = "pass"]]
    <3>1. Goes(r) /\ req'[r].pc = "pass" /\ req'[r].at = q /\ req'[r].left = left
      BY <1>1, <1>7, <2>6 DEF ReplicateFile, ReqType, RequestType, Goes, Others
    <3> QED BY <1>2, <1>4, <2>1, <2>2, <2>5, <3>1
  <2>7. CASE ~(left > 0) /\ req' = [req EXCEPT ![r] = Copied(r)]
    <3>1. /\ Goes(r) /\ req'[r].pc \in {"done", "meta"} /\ req'[r].at = Null
          /\ req'[r].left = 0
      BY <1>1, <1>7, <2>7 DEF ReplicateFile, ReqType, RequestType, Copied, Return, Goes, Others
    <3>2. left = 0 /\ REPLICATION_FACTOR - left = REPLICATION_FACTOR
      BY <1>2, <2>7
    <3>3. CopiedUpTo(n, c, q, REPLICATION_FACTOR)'
      BY <2>5, <3>2
    <3> QED BY <1>2, <1>4, <2>1, <2>2, <3>1, <3>3
  <2> QED BY <1>7, <2>6, <2>7 DEF ReplicateFile
<1>8. CASE ReplicateFurther(r)
  <2> PICK s : s = Successor(q)
    OBVIOUS
  <2>1. UNCHANGED <<ring, up, replica, meta>> /\ Grows /\ Intact' /\ s \in up /\ q \in Node
    BY <1>1, <1>8, CopiesUntouched DEF ReplicateFurther, Calm, hosts, disks, Phase
  <2>2. Goes(r) /\ req'[r].pc = "copy" /\ req'[r].at = s /\ req'[r].left = left - 1
    BY <1>1, <1>8 DEF ReplicateFurther, ReqType, RequestType, Goes, Others
  <2>3. CopiedUpTo(n, c, q, REPLICATION_FACTOR - left)
    BY <1>1, <1>8 DEF ReplicateFurther, Copying
  <2>4. /\ REPLICATION_FACTOR - left \in Int /\ left - 1 \in Int
        /\ REPLICATION_FACTOR - 1 - (left - 1) = REPLICATION_FACTOR - left
    BY <1>2
  <2>5. CopiedBefore(n, c, s, REPLICATION_FACTOR - left)
    BY <1>2, <2>1, <2>3, <2>4, CopyingGoesFurther
  <2>6. CopiedBefore(n, c, s, REPLICATION_FACTOR - left)'
    BY <2>1, <2>4, <2>5, CopiedStays
  <2>7. CopiedBefore(n, c, s, REPLICATION_FACTOR - 1 - (left - 1))'
    BY <2>4, <2>6
  <2> QED BY <1>4, <2>1, <2>2, <2>4, <2>7
<1>9. CASE ReplicateFails(r)
  <2>1. q \in Node /\ q \in up
    BY <1>1, <1>2, <1>9 DEF ReplicateFails, Phase
  <2>2. Successor(q) \in up
    BY <1>2, <2>1, SuccessorIsNearest DEF Circle
  <2> QED BY <1>9, <2>1, <2>2 DEF ReplicateFails
<1>10. CASE Acknowledge(r)
  <2>1. UNCHANGED <<ring, up, replica>> /\ Grows /\ Intact'
    BY <1>10, CopiesUntouched DEF Acknowledge, Calm, hosts
  <2>2. /\ Others(r) /\ req'[r].pc = "done" /\ req'[r].body = c /\ req'[r].host = n
        /\ req'[r].at = Null /\ n \in up
    BY <1>1, <1>2, <1>10 DEF Acknowledge, ReqType, RequestType, Answer, Return, Others
  <2>3. \E last \in Node : CopiedUpTo(n, c, last, REPLICATION_FACTOR)
    BY <1>1, <1>10 DEF Acknowledge, Copying
  <2>4. \E last \in Node : CopiedUpTo(n, c, last, REPLICATION_FACTOR)'
    BY <1>2, <2>1, <2>3, CopiedStays
  <2>5. Copying(r)'
    BY <2>2, <2>4 DEF Copying
  <2> QED BY <1>1, <1>2, <2>1, <2>2, <2>5, RequestCalm
<1> QED BY <1>5, <1>6, <1>7, <1>8, <1>9, <1>10 DEF Upload

\* A download, or a call: no copies are made for it.
LEMMA OtherCalm ==
  ASSUME TypeOK, LockerInv, Calm, NEW r \in Request,
         \/ Download(r)
         \/ \E n \in Node, c \in File : InsertItem(r, n, c)
         \/ \E n \in Node : \E id \in Asked(n) : GetItem(r, n, id)
  PROVE  Calm'
<1>1. ReqType /\ HostsType /\ Phase(r) /\ req[r] \in RequestType
  BY TypeParts DEF LockerInv, Phases, ReqType
<1>2. UNCHANGED <<ring, up, replica>> /\ Grows /\ Intact'
  BY CopiesUntouched
  DEF Download, ReadOriginal, ForwardLookup, Try, Fetch, InsertItem, GetItem, hosts, disks, Calm
<1>3. /\ req[r].at \in up \cup {Null} /\ up \subseteq Node
      /\ req[r].pc # "idle" => req[r].host \in up
  BY <1>1 DEF Calm, Alive, HostsType
<1>4. ASSUME Others(r), req'[r].host \in up, req'[r].at \in up \cup {Null},
             req'[r].pc \notin {"copy", "pass", "meta"}, req'[r].answer # "stored"
      PROVE  Calm'
  <2>1. Copying(r)'
    BY <1>4 DEF Copying
  <2> QED BY <1>1, <1>2, <1>4, <2>1, RequestCalm
<1>5. ASSUME NEW n \in Node, NEW c \in File, InsertItem(r, n, c) PROVE Calm'
  BY <1>1, <1>4, <1>5, LockerAssumption DEF InsertItem, NewRequest, ReqType, Others
<1>6. ASSUME NEW n \in Node, NEW id \in Asked(n), GetItem(r, n, id) PROVE Calm'
  BY <1>1, <1>4, <1>6, LockerAssumption DEF GetItem, NewRequest, ReqType, Others
<1>7. ASSUME Download(r) PROVE Calm'
  <2>1. /\ req[r].pc \in {"read", "forward", "try", "fetch"} /\ req[r].answer = Null
        /\ req[r].host \in up /\ Null # "stored"
    BY <1>1, <1>3, <1>7, LockerAssumption
    DEF Download, ReadOriginal, ForwardLookup, Try, Fetch, Phase
  <2>2. ASSUME NEW a \in {"ok", "error", "notFound", "gone"}, NEW c, Answer(r, a, c)
        PROVE  Calm'
    BY <1>1, <1>4, <2>1, <2>2 DEF Answer, Return, ReqType, RequestType, Others
  <2>3. ASSUME NEW left, NEW at \in up \cup {Null}, NEW a \in {"notFound", "gone"},
               NextTry(r, left, at, a)
        PROVE  Calm'
    <3>1. CASE left = 0
      BY <2>2, <2>3, <3>1 DEF NextTry
    <3>2. CASE left # 0
      BY <1>1, <1>4, <2>1, <2>3, <3>2 DEF NextTry, ReqType, RequestType, Others
    <3> QED BY <3>1, <3>2
  <2>4. CASE ReadOriginal(r)
    <3>1. CASE req' = [req EXCEPT ![r].pc = "forward"]
      BY <1>1, <1>3, <1>4, <2>1, <3>1 DEF ReqType, RequestType, Others
    <3> QED BY <2>2, <2>4, <3>1 DEF ReadOriginal
  <2>5. CASE ForwardLookup(r)
    <3>1. CASE req' = [req EXCEPT ![r].pc = "try", ![r].at = Null, ![r].left = REPLICATION_FACTOR]
      BY <1>1, <1>4, <2>1, <3>1 DEF ReqType, RequestType, Others
    <3> QED BY <2>2, <2>5, <3>1 DEF ForwardLookup
  <2>6. CASE Try(r)
    <3>1. ASSUME NEW t \in up,
                 req' = [req EXCEPT ![r].pc = "fetch", ![r].at = t, ![r].left = @ - 1]
          PROVE  Calm'
      BY <1>1, <1>4, <2>1, <3>1 DEF ReqType, RequestType, Others
    <3> QED BY <2>2, <2>3, <2>6, <3>1 DEF Try
  <2>7. CASE Fetch(r)
    BY <1>3, <2>2, <2>3, <2>7 DEF Fetch
  <2> QED BY <1>7, <2>4, <2>5, <2>6, <2>7 DEF Download
<1> QED BY <1>5, <1>6, <1>7

\* Processes that start and are linked.
LEMMA HostCalm ==
  ASSUME TypeOK, Calm, NEW n \in Node,
         Damage(n) \/ Crash(n) \/ Start(n) \/ Link(n) \/ Unlink(n), UNCHANGED faults
  PROVE  Calm'
<1>1. ReqType /\ HostsType /\ ~Fault
  BY TypeParts DEF Fault, HostsType
<1>2. ring \subseteq up
  BY DEF Calm, Alive
<1>3. ASSUME UNCHANGED <<replica, req>>, ring \subseteq ring', ring' \subseteq up',
             up \subseteq up'
      PROVE  Calm'
  <2>1. Grows /\ Intact'
    BY <1>3 DEF Grows, Holders, Calm, Intact
  <2>2. Alive'
    BY <1>3 DEF Calm, Alive
  <2>3. \A r \in Request : Copying(r)'
    BY <1>1, <1>3, <2>1, CopyingStays DEF Calm
  <2> QED BY <2>1, <2>2, <2>3 DEF Calm
<1>4. CASE Start(n)
  BY <1>2, <1>3, <1>4 DEF Start, disks
<1>5. CASE Link(n)
  BY <1>2, <1>3, <1>5 DEF Link, disks
<1> QED BY <1>1, <1>2, <1>4, <1>5 DEF Damage, Crash, Unlink

LEMMA CalmStep == TypeOK /\ LockerInv /\ Calm /\ [Next]_vars /\ UNCHANGED faults => Calm'
<1> SUFFICES ASSUME TypeOK, LockerInv, Calm, [Next]_vars, UNCHANGED faults PROVE Calm'
  OBVIOUS
<1>1. CASE \E r \in Request : Upload(r) \/ Download(r)
  BY <1>1, UploadCalm, OtherCalm
<1>2. CASE \E r \in Request, n \in Node, c \in File : InsertItem(r, n, c)
  BY <1>2, OtherCalm
<1>3. CASE \E r \in Request, n \in Node : \E id \in Asked(n) : GetItem(r, n, id)
  BY <1>3, OtherCalm
<1>4. CASE \E n \in Node : Damage(n) \/ Crash(n) \/ Start(n) \/ Link(n) \/ Unlink(n)
  BY <1>4, HostCalm
<1>5. CASE UNCHANGED vars
  BY <1>5, CalmUntouched, TypeParts DEF vars, hosts, disks
<1> QED BY <1>1, <1>2, <1>3, <1>4, <1>5 DEF Next

LEMMA InitCalm == Init => Calm
<1> SUFFICES ASSUME Init PROVE Calm
  OBVIOUS
<1>1. \A r \in Request : req[r] = NewRequest
  BY DEF Init
<1>2. Alive /\ Intact
  BY <1>1 DEF Init, Alive, NewRequest, Intact, Empty
<1>3. \A r \in Request : Copying(r)
  BY <1>1, LockerAssumption DEF Copying, NewRequest
<1> QED BY <1>2, <1>3 DEF Calm

\* Faults are never taken back.
LEMMA FaultsGrow == TypeOK /\ [Next]_vars => UNCHANGED faults \/ faults' = faults + 1
  BY DEF Next, vars, hosts, disks, Upload, Download, SaveFile, BeginReplicatingFile, ReplicateFile,
         ReplicateFurther, ReplicateFails, Acknowledge, ReadOriginal, ForwardLookup, Try, Fetch,
         InsertItem, GetItem, Damage, Crash, Start, Link, Unlink, Fault

\* Until the first fault copying is never disturbed.
LEMMA CalmUnlessFault == Spec => [](faults = 0 => Calm)
<1> DEFINE I == faults = 0 => Calm
<1>1. Init => I
  BY InitCalm
<1>2. TypeOK /\ LockerInv /\ I /\ [Next]_vars => I'
  <2> SUFFICES ASSUME TypeOK, LockerInv, I, [Next]_vars, faults' = 0 PROVE Calm'
    OBVIOUS
  <2>1. faults = 0 /\ UNCHANGED faults
    BY FaultsGrow, TypeParts DEF HostsType
  <2> QED BY <2>1, CalmStep
<1> QED BY <1>1, <1>2, LockerTypeCorrect, LockerInvariant, PTL DEF Spec

\* The nodes with a copy, the origin among them or not.
LEMMA CalmCopies ==
  ASSUME Calm, NEW r \in Request, req[r].answer = "stored"
  PROVE  \/ Cardinality(Holders(req[r].body)) >= REPLICATION_FACTOR
         \/ Member \subseteq Holders(req[r].body)
<1> DEFINE H == Holders(req[r].body)
<1>1. PICK last \in Node : CopiedUpTo(req[r].host, req[r].body, last, REPLICATION_FACTOR)
  BY DEF Calm, Copying
<1>2. PICK p \in Node : CopiesOn(req[r].body, UpTo(p, last), REPLICATION_FACTOR)
  BY <1>1 DEF CopiedUpTo
<1>3. CASE Cardinality(UpTo(p, last) \cap H) >= REPLICATION_FACTOR
  <2>1. UpTo(p, last) \cap H \in SUBSET H /\ H \in SUBSET Node
    BY DEF Holders
  <2>2. /\ Cardinality(UpTo(p, last) \cap H) \in Nat /\ Cardinality(H) \in Nat
        /\ Cardinality(UpTo(p, last) \cap H) <= Cardinality(H)
    BY <2>1, NodesFinite
  <2> QED BY <1>3, <2>2, LockerAssumption
<1> QED BY <1>2, <1>3 DEF CopiesOn

\* insertItem, beginReplicatingFile and replicateFile: while nothing has failed, an
\* acknowledged file is at REPLICATION_FACTOR nodes, or at every first member, whatever
\* nodes enter the ring while it is copied.
THEOREM CopiesAreMade == Spec => []CopiesMade
<1>1. (faults = 0 => Calm) => CopiesMade
  <2> SUFFICES ASSUME Calm, NEW r \in Request, req[r].answer = "stored"
               PROVE  \/ Cardinality(OtherHolders(r)) >= REPLICATION_FACTOR - 1
                      \/ Member \ {req[r].host} \subseteq OtherHolders(r)
    BY DEF CopiesMade
  <2> DEFINE H == Holders(req[r].body)
  <2>1. CASE Cardinality(H) >= REPLICATION_FACTOR
    <3>1. IsFiniteSet(H) /\ Cardinality(H) \in Nat
      BY NodesFinite DEF Holders
    <3>2. Cardinality(OtherHolders(r)) \in {Cardinality(H) - 1, Cardinality(H)}
      BY <3>1, FS_RemoveElement DEF OtherHolders
    <3> QED BY <2>1, <3>1, <3>2, LockerAssumption
  <2>2. CASE Member \subseteq H
    BY <2>2 DEF OtherHolders
  <2> QED BY <2>1, <2>2, CalmCopies
<1> QED BY <1>1, CalmUnlessFault, PTL
-----------------------------------------------------------------------------
(* One fault is tolerated, if fewer nodes join than copies are made. *)

\* A request that is over stays as it is.
LEMMA DoneStays ==
  ASSUME TypeOK, [Next]_vars, NEW r \in Request, req[r].pc = "done"
  PROVE  req'[r] = req[r]
<1>1. ReqType
  BY TypeParts
<1>2. ASSUME NEW q \in Request, Upload(q) \/ Download(q) PROVE req'[r] = req[r]
  <2>1. q # r
    BY <1>2 DEF Upload, SaveFile, BeginReplicatingFile, ReplicateFile, ReplicateFurther,
                ReplicateFails, Acknowledge, Download, ReadOriginal, ForwardLookup, Try, Fetch
  <2>2. CASE Upload(q)
    BY <1>1, <2>1, <2>2
    DEF ReqType, Upload, SaveFile, BeginReplicatingFile, ReplicateFile, ReplicateFurther,
        ReplicateFails, Acknowledge, Answer
  <2>3. CASE Download(q)
    BY <1>1, <2>1, <2>3
    DEF ReqType, Download, ReadOriginal, ForwardLookup, Try, Fetch, Answer, NextTry
  <2> QED BY <1>2, <2>2, <2>3
<1>3. ASSUME NEW q \in Request, NEW n \in Node,
             \/ \E c \in File : InsertItem(q, n, c)
             \/ \E id \in Asked(n) : GetItem(q, n, id)
      PROVE  req'[r] = req[r]
  BY <1>1, <1>3 DEF InsertItem, GetItem, ReqType
<1>4. ASSUME NEW n \in Node, Damage(n) \/ Crash(n) \/ Start(n) \/ Link(n) \/ Unlink(n)
      PROVE  req'[r] = req[r]
  BY <1>4 DEF Damage, Crash, Start, Link, Unlink
<1> QED BY <1>2, <1>3, <1>4 DEF Next, vars

\* What the steps of a request in its handler have in common.
Moves(r) ==
  /\ Others(r) /\ req[r].pc \notin {"idle", "done"}
  /\ req'[r].op = req[r].op /\ req'[r].host = req[r].host /\ req'[r].known = req[r].known
  /\ req[r].pc = "save" \/ req'[r].id = req[r].id
  /\ \/ req'[r].answer = req[r].answer
     \/ req'[r].answer = "stored" /\ req'[r].pc = "done" /\ req[r].pc = "meta"
     \/ req'[r].answer \in {"ok", "error", "notFound", "gone"} /\ req'[r].pc = "done"

LEMMA UploadMoves ==
  ASSUME TypeOK, LockerInv, NEW r \in Request, Upload(r)
  PROVE  Moves(r) /\ req[r].op = "put"
<1>1. ReqType /\ Phase(r) /\ req[r] \in RequestType
  BY TypeParts DEF LockerInv, Phases, ReqType
<1>2. /\ req[r].pc \in {"save", "replicate", "copy", "pass", "meta"}
      /\ req[r].op = "put"
  BY <1>1 DEF Upload, SaveFile, BeginReplicatingFile, ReplicateFile, ReplicateFurther,
              ReplicateFails, Acknowledge, Phase
<1> SUFFICES Moves(r)
  BY <1>2
<1>3. ASSUME req' = [req EXCEPT ![r] = Copied(r)] PROVE Moves(r)
  BY <1>1, <1>2, <1>3 DEF ReqType, RequestType, Copied, Return, Moves, Others
<1>4. ASSUME NEW a \in {"ok", "error", "notFound", "gone"}, NEW c, Answer(r, a, c) PROVE Moves(r)
  BY <1>1, <1>2, <1>4 DEF ReqType, RequestType, Answer, Return, Moves, Others
<1>5. CASE SaveFile(r)
  BY <1>1, <1>2, <1>4, <1>5 DEF SaveFile, ReqType, RequestType, Moves, Others
<1>6. CASE BeginReplicatingFile(r)
  BY <1>1, <1>2, <1>3, <1>4, <1>6 DEF BeginReplicatingFile, ReqType, RequestType, Moves, Others
<1>7. CASE ReplicateFile(r)
  <2>1. CASE req' = [req EXCEPT ![r] = [req[r] EXCEPT !.pc = "pass"]]
    BY <1>1, <1>2, <2>1 DEF ReqType, RequestType, Moves, Others
  <2> QED BY <1>3, <1>7, <2>1 DEF ReplicateFile
<1>8. CASE ReplicateFurther(r)
  BY <1>1, <1>2, <1>8 DEF ReplicateFurther, ReqType, RequestType, Moves, Others
<1>9. CASE ReplicateFails(r)
  BY <1>3, <1>9 DEF ReplicateFails
<1>10. CASE Acknowledge(r)
  BY <1>1, <1>2, <1>10 DEF Acknowledge, ReqType, RequestType, Answer, Return, Moves, Others
<1> QED BY <1>5, <1>6, <1>7, <1>8, <1>9, <1>10 DEF Upload

LEMMA DownloadMoves ==
  ASSUME TypeOK, LockerInv, NEW r \in Request, Download(r)
  PROVE  /\ Moves(r) /\ req[r].op = "get" /\ req'[r].id = req[r].id
         /\ req[r].answer = Null /\ UNCHANGED <<hosts, disks>>
<1>1. ReqType /\ Phase(r) /\ req[r] \in RequestType
  BY TypeParts DEF LockerInv, Phases, ReqType
<1>2. /\ req[r].pc \in {"read", "forward", "try", "fetch"} /\ UNCHANGED <<hosts, disks>>
      /\ req[r].op = "get" /\ req[r].answer = Null
  BY <1>1 DEF Download, ReadOriginal, ForwardLookup, Try, Fetch, Phase
<1> SUFFICES Moves(r)
  BY <1>2 DEF Moves
<1>3. ASSUME NEW a \in {"ok", "error", "notFound", "gone"}, NEW c, Answer(r, a, c) PROVE Moves(r)
  BY <1>1, <1>2, <1>3 DEF ReqType, RequestType, Answer, Return, Moves, Others
<1>4. ASSUME NEW left, NEW at, NEW a \in {"notFound", "gone"}, NextTry(r, left, at, a)
      PROVE  Moves(r)
  <2>1. CASE left = 0
    BY <1>3, <1>4, <2>1 DEF NextTry
  <2>2. CASE left # 0
    BY <1>1, <1>2, <1>4, <2>2 DEF NextTry, ReqType, RequestType, Moves, Others
  <2> QED BY <2>1, <2>2
<1>5. CASE ReadOriginal(r)
  <2>1. CASE req' = [req EXCEPT ![r].pc = "forward"]
    BY <1>1, <1>2, <2>1 DEF ReqType, RequestType, Moves, Others
  <2> QED BY <1>3, <1>5, <2>1 DEF ReadOriginal
<1>6. CASE ForwardLookup(r)
  <2>1. CASE req' = [req EXCEPT ![r].pc = "try", ![r].at = Null, ![r].left = REPLICATION_FACTOR]
    BY <1>1, <1>2, <2>1 DEF ReqType, RequestType, Moves, Others
  <2> QED BY <1>3, <1>6, <2>1 DEF ForwardLookup
<1>7. CASE Try(r)
  <2>1. ASSUME NEW t, req' = [req EXCEPT ![r].pc = "fetch", ![r].at = t, ![r].left = @ - 1]
        PROVE  Moves(r)
    BY <1>1, <1>2, <2>1 DEF ReqType, RequestType, Moves, Others
  <2> QED BY <1>3, <1>4, <1>7, <2>1 DEF Try
<1>8. CASE Fetch(r)
  BY <1>3, <1>4, <1>8 DEF Fetch
<1> QED BY <1>5, <1>6, <1>7, <1>8 DEF Download

\* What has been acknowledged stays so.
LEMMA AcknowledgedStays ==
  ASSUME TypeOK, StoredDone, [Next]_vars, NEW n, NEW id, Acknowledged(n, id)
  PROVE  Acknowledged(n, id)'
<1>1. PICK u \in Request : req[u].answer = "stored" /\ req[u].host = n /\ req[u].id = id
  BY DEF Acknowledged
<1>2. req'[u] = req[u]
  BY <1>1, DoneStays DEF StoredDone
<1> QED BY <1>1, <1>2 DEF Acknowledged

LEMMA StoredDoneStep ==
  ASSUME TypeOK, LockerInv, StoredDone, [Next]_vars
  PROVE  StoredDone'
<1>1. ReqType /\ Null # "stored"
  BY TypeParts, LockerAssumption
<1> SUFFICES ASSUME NEW r \in Request
             PROVE  /\ req'[r].answer = "stored" => /\ req'[r].op = "put" /\ req'[r].pc = "done"
                                                    /\ req'[r].id \in Checksums
                    /\ req'[r].known =>
                         req'[r].op = "get" /\ Acknowledged(req[r].host, req[r].id)'
  BY DEF StoredDone
<1>2. /\ req[r].answer = "stored" => /\ req[r].op = "put" /\ req[r].pc = "done"
                                     /\ req[r].id \in Checksums
      /\ req[r].known => req[r].op = "get" /\ Acknowledged(req[r].host, req[r].id)
  BY DEF StoredDone
<1>3. ASSUME NEW n, NEW id, Acknowledged(n, id)
      PROVE  \E u \in Request : req'[u].answer = "stored" /\ req'[u].host = n /\ req'[u].id = id
  BY <1>3, AcknowledgedStays DEF Acknowledged
<1>4. CASE req'[r] = req[r]
  BY <1>2, <1>3, <1>4 DEF Acknowledged
<1>5. CASE /\ req[r].pc # "done"
           /\ req'[r].op = req[r].op /\ req'[r].host = req[r].host /\ req'[r].known = req[r].known
           /\ req'[r].id = req[r].id \/ req[r].op = "put"
           /\ \/ req'[r].answer = req[r].answer \/ req'[r].answer # "stored"
              \/ req'[r].pc = "done" /\ req[r].pc = "meta" /\ req'[r].id = req[r].id
  <2>1. req[r].answer # "stored"
    BY <1>2, <1>5
  <2>2. req'[r].answer = "stored" => /\ req'[r].op = "put" /\ req'[r].pc = "done"
                                     /\ req'[r].id \in Checksums
    BY <1>5, <2>1 DEF LockerInv, Phases, Phase
  <2>3. req'[r].known => req'[r].op = "get" /\ Acknowledged(req[r].host, req[r].id)'
    <3> SUFFICES ASSUME req'[r].known
                 PROVE  req'[r].op = "get" /\ Acknowledged(req[r].host, req[r].id)'
      OBVIOUS
    <3>1. req[r].known /\ req[r].op = "get" /\ req'[r].op = "get" /\ req'[r].id = req[r].id
          /\ Acknowledged(req[r].host, req[r].id)
      BY <1>2, <1>5
    <3>2. \E u \in Request : /\ req'[u].answer = "stored" /\ req'[u].host = req[r].host
                             /\ req'[u].id = req[r].id
      BY <1>3, <3>1
    <3> QED BY <1>5, <3>1, <3>2 DEF Acknowledged
  <2> QED BY <2>2, <2>3
<1>6. ASSUME NEW q \in Request, Upload(q) \/ Download(q), q = r \/ req'[r] # req[r]
      PROVE  \/ req'[r] = req[r]
             \/ /\ req[r].pc # "done"
                /\ req'[r].op = req[r].op /\ req'[r].host = req[r].host
                /\ req'[r].known = req[r].known
                /\ req'[r].id = req[r].id \/ req[r].op = "put"
                /\ \/ req'[r].answer = req[r].answer \/ req'[r].answer # "stored"
                   \/ req'[r].pc = "done" /\ req[r].pc = "meta" /\ req'[r].id = req[r].id
  BY <1>6, UploadMoves, DownloadMoves DEF Moves, Others
<1>7. ASSUME NEW q \in Request, NEW n \in Node,
             \/ \E c \in File : InsertItem(q, n, c)
             \/ \E id \in Asked(n) : GetItem(q, n, id)
      PROVE  /\ req'[r].answer = "stored" => /\ req'[r].op = "put" /\ req'[r].pc = "done"
                                             /\ req'[r].id \in Checksums
             /\ req'[r].known =>
                  req'[r].op = "get" /\ Acknowledged(req[r].host, req[r].id)'
  <2>1. CASE q # r
    BY <1>1, <1>4, <1>7, <2>1 DEF InsertItem, GetItem, ReqType
  <2>2. ASSUME NEW c \in File, InsertItem(r, n, c)
        PROVE  req'[r].answer # "stored" /\ ~req'[r].known
    BY <1>1, <2>2 DEF InsertItem, NewRequest, ReqType
  <2>3. ASSUME NEW id \in Asked(n), GetItem(r, n, id)
        PROVE  /\ req'[r].answer # "stored"
               /\ req'[r].known =>
                    req'[r].op = "get" /\ Acknowledged(req[r].host, req[r].id)'
    <3>1. /\ req'[r].answer # "stored" /\ req'[r].op = "get" /\ req'[r].host = n
          /\ req'[r].id = id /\ req'[r].known = Acknowledged(n, id)
      BY <1>1, <2>3 DEF GetItem, NewRequest, ReqType
    <3> QED BY <1>3, <3>1 DEF Acknowledged
  <2> QED BY <1>7, <2>1, <2>2, <2>3
<1>8. ASSUME NEW n \in Node, Damage(n) \/ Crash(n) \/ Start(n) \/ Link(n) \/ Unlink(n)
      PROVE  \/ req'[r] = req[r]
             \/ /\ req[r].pc # "done" /\ req'[r].answer # "stored"
                /\ req'[r].op = req[r].op /\ req'[r].host = req[r].host
                /\ req'[r].known = req[r].known
                /\ req'[r].id = req[r].id
  <2>1. CASE Crash(n)
    BY <1>1, <2>1 DEF Crash, ReqType, RequestType, Return
  <2> QED BY <1>8, <2>1 DEF Damage, Start, Link, Unlink
<1>9. CASE UNCHANGED vars
  BY <1>4, <1>9 DEF vars
<1> QED BY <1>4, <1>5, <1>6, <1>7, <1>8, <1>9 DEF Next

\* The metadata keep what they are told by Acknowledge.
LEMMA MetaNamedStep ==
  ASSUME TypeOK, LockerInv, MetaNamed, [Next]_vars
  PROVE  MetaNamed'
<1>1. DisksType
  BY TypeParts
<1>2. ASSUME NEW r \in Request, Acknowledge(r) PROVE MetaNamed'
  <2> PICK n, id, c : n = req[r].host /\ id = req[r].id /\ c = req[r].body
    OBVIOUS
  <2>1. n \in Node /\ id.file = c
    BY <1>2, LockerAssumption DEF Acknowledge, LockerInv, Phases, Phase, Named
  <2>2. meta'[n] = Store(meta[n], id, c) /\ \A m \in Node \ {n} : meta'[m] = meta[m]
    BY <1>1, <1>2, <2>1 DEF Acknowledge, DisksType
  <2> QED BY <2>1, <2>2 DEF MetaNamed, Store
<1>3. ASSUME NEW n \in Node, Crash(n) PROVE MetaNamed'
  BY <1>1, <1>3 DEF Crash, MetaNamed, DisksType, Empty
<1>4. CASE UNCHANGED meta
  BY <1>4 DEF MetaNamed
<1> QED BY <1>2, <1>3, <1>4
        DEF Next, vars, disks, Upload, Download, SaveFile, BeginReplicatingFile, ReplicateFile,
            ReplicateFurther, ReplicateFails, ReadOriginal, ForwardLookup, Try, Fetch,
            InsertItem, GetItem, Damage, Start, Link, Unlink

\* The first node asked has a copy, or the first member after it has one and all the
\* nodes before that are some of those that have joined.
LEMMA FreshStart ==
  ASSUME TypeOK, Alive, Cardinality(Node \ Member) < REPLICATION_FACTOR,
         NEW n \in Node, NEW c \in File, NEW last \in Node,
         CopiedUpTo(n, c, last, REPLICATION_FACTOR)
  PROVE  \E m \in Holders(c) \cap Circle(Predecessor(n, Place[c])) :
           Ahead(Predecessor(n, Place[c]), m) <= REPLICATION_FACTOR - 1
<1> DEFINE H == Holders(c)
           place == Place[c]
           x == Predecessor(n, place)
<1>1. /\ ring \subseteq Node /\ ring # {} /\ place \in Id /\ Member \subseteq ring
      /\ Member # {} /\ Member \subseteq Node /\ REPLICATION_FACTOR \in Nat \ {0}
  BY LockerAssumption DEF TypeOK, Alive
<1>2. /\ x \in Circle(n) /\ x \in Node
      /\ \A k \in Circle(n) \ {x} : 0 < Dist(x, place) /\ Dist(x, place) <= Dist(x, k)
  BY <1>1, PredecessorIsLast DEF Circle
<1>3. \A a \in Node : a \in Id /\ Dist(a, place) \in Nat /\ Dist(a, place) < RingSize
  BY <1>1, DistType, LockerAssumption
<1>4. PICK m \in Member : \A k \in Member : Dist(x, m) <= Dist(x, k)
  BY <1>1, <1>2, NearestAfter, LockerAssumption
<1>5. m \in Node /\ m \in Circle(x) /\ Dist(x, m) \in Nat /\ \A k \in Node : Dist(x, k) \in Nat
  BY <1>1, <1>2, NodeDist DEF Circle
<1>6. Ahead(x, m) <= REPLICATION_FACTOR - 1
  <2>1. Before(x, m) \subseteq Node \ Member
    BY <1>4, <1>5 DEF Before
  <2>2. /\ Cardinality(Before(x, m)) \in Nat /\ Cardinality(Node \ Member) \in Nat
        /\ Cardinality(Before(x, m)) <= Cardinality(Node \ Member)
    BY <2>1, NodesFinite
  <2> QED BY <1>1, <2>2 DEF Ahead
<1>7. CASE m \in H
  BY <1>5, <1>6, <1>7
<1>8. CASE x \in H
  <2>1. Before(x, x) = {}
    BY <1>2, NodeDist DEF Before
  <2>2. Ahead(x, x) = 0
    BY <2>1, FS_EmptySet DEF Ahead
  <2>3. 0 <= REPLICATION_FACTOR - 1 /\ x \in Circle(x)
    BY <1>1 DEF Circle
  <2> QED BY <1>8, <2>2, <2>3
<1>9. CASE m \notin H /\ x \notin H
  <2>1. PICK p \in Node : StartAt(n, c, p) /\ CopiesOn(c, UpTo(p, last), REPLICATION_FACTOR)
    BY DEF CopiedUpTo
  <2> DEFINE A == UpTo(p, last) \cap H
  <2>2. Member \cap UpTo(p, last) \subseteq H /\ Cardinality(A) >= REPLICATION_FACTOR
    BY <1>9, <2>1 DEF CopiesOn
  <2>3. /\ \A k \in Node : Dist(p, k) \in Nat /\ Dist(p, k) < RingSize
        /\ Dist(p, p) = 0 /\ RingSize \in Int
    BY NodeDist, IntAssumption DEF RingSize, INT_MIN
  <2>4. m # p /\ Dist(p, last) < Dist(p, m)
    <3>1. m \notin UpTo(p, last)
      BY <1>9, <2>2
    <3> QED BY <1>5, <2>3, <3>1 DEF UpTo
  <2>5. 0 < Dist(p, place) /\ Dist(p, place) <= Dist(p, m)
    BY <2>1, <2>4 DEF StartAt
  <2>6. CASE x = p
    <3>1. A \subseteq Node \ Member
      BY <1>4, <1>5, <2>3, <2>4, <2>6 DEF UpTo
    <3>2. /\ Cardinality(A) \in Nat /\ Cardinality(Node \ Member) \in Nat
          /\ Cardinality(A) <= Cardinality(Node \ Member)
      BY <3>1, NodesFinite
    <3> QED BY <1>1, <2>2, <3>2
  <2>7. CASE x # p
    <3>1. p \in Circle(n) /\ 0 < Dist(x, place) /\ Dist(x, place) <= Dist(x, p)
      BY <1>2, <2>1, <2>7 DEF StartAt
    <3>2. Dist(x, p) = RingSize - Dist(p, x)
      <4>1. IF Dist(p, x) <= Dist(p, p) THEN Dist(x, p) = Dist(p, p) - Dist(p, x)
                                        ELSE Dist(x, p) = RingSize - Dist(p, x) + Dist(p, p)
        BY <1>2, NodeDistAdds
      <4>2. Dist(p, x) # 0
        BY <1>2, <2>7, NodeDist
      <4> QED BY <1>2, <2>3, <4>1, <4>2
    <3>3. IF Dist(p, x) <= Dist(p, place) THEN Dist(x, place) = Dist(p, place) - Dist(p, x)
                                          ELSE Dist(x, place) =
                                            RingSize - Dist(p, x) + Dist(p, place)
      BY <1>1, <1>2, <1>3, DistAdds
    <3>4. Dist(p, x) < Dist(p, place)
      BY <1>2, <1>3, <2>3, <2>5, <3>1, <3>2, <3>3
    <3>5. x \notin Member
      BY <1>2, <1>3, <2>1, <2>3, <2>7, <3>4 DEF StartAt
    <3>6. ASSUME NEW k \in Member \ {p} PROVE k \notin UpTo(p, last)
      <4>1. k \in Node /\ Dist(p, place) <= Dist(p, k)
        BY <1>1, <2>1, <3>6 DEF StartAt
      <4>2. Dist(p, x) <= Dist(p, k) /\ Dist(p, x) <= Dist(p, m)
        BY <1>2, <1>3, <1>5, <2>3, <2>5, <3>4, <4>1
      <4>3. Dist(x, k) = Dist(p, k) - Dist(p, x) /\ Dist(x, m) = Dist(p, m) - Dist(p, x)
        BY <1>2, <1>5, <4>1, <4>2, NodeDistAdds
      <4>4. Dist(x, m) <= Dist(x, k)
        BY <1>4
      <4>5. Dist(p, m) <= Dist(p, k)
        BY <1>2, <1>5, <2>3, <4>1, <4>3, <4>4
      <4> QED BY <1>5, <2>3, <2>4, <4>1, <4>5 DEF UpTo
    <3> DEFINE B == (Node \ Member) \ {x}
    <3>7. A \subseteq B \cup {p} /\ B \cup {p} \in SUBSET Node /\ B \in SUBSET Node
      BY <1>9, <3>6 DEF UpTo
    <3>8. Cardinality(A) \in Nat /\ Cardinality(A) <= Cardinality(B \cup {p})
      BY <3>7, NodesFinite
    <3>9. /\ Cardinality(B) = Cardinality(Node \ Member) - 1
          /\ Cardinality(B \cup {p}) <= Cardinality(B) + 1
          /\ Cardinality(Node \ Member) \in Nat /\ Cardinality(B \cup {p}) \in Nat
      <4>1. IsFiniteSet(Node \ Member) /\ IsFiniteSet(B) /\ x \in Node \ Member
        BY <1>2, <3>5, NodesFinite
      <4>2. Cardinality(B) = Cardinality(Node \ Member) - 1
        BY <4>1, FS_RemoveElement
      <4>3. Cardinality(B \cup {p}) = IF p \in B THEN Cardinality(B) ELSE Cardinality(B) + 1
        BY <4>1, FS_AddElement
      <4>4. Cardinality(B) \in Nat /\ Cardinality(Node \ Member) \in Nat
            /\ Cardinality(B \cup {p}) \in Nat
        BY <3>7, NodesFinite
      <4> QED BY <4>2, <4>3, <4>4
    <3> QED BY <1>1, <2>2, <3>8, <3>9
  <2> QED BY <2>6, <2>7
<1> QED BY <1>7, <1>8, <1>9

\* At a node without a copy there is a step less to go than tries are left.
LEMMA NextNearer ==
  ASSUME ring \subseteq Node, NEW a \in Node, NEW m \in ring \ {a}
  PROVE  /\ Successor(a) \in Node /\ m \in Circle(Successor(a))
         /\ Ahead(a, m) \in Nat /\ Ahead(a, m) >= 1
         /\ Ahead(Successor(a), m) \in Nat
         /\ Ahead(Successor(a), m) <= Ahead(a, m) - 1
<1> DEFINE t == Successor(a)
<1>1. /\ t \in Node /\ m \in Node /\ m \in Circle(t)
      /\ t # a /\ Dist(a, t) <= Dist(a, m)
  BY SuccessorIsNearest DEF Circle
<1>2. /\ \A k \in Node : Dist(a, k) \in Nat /\ Dist(t, k) \in Nat /\ Dist(a, k) < RingSize
      /\ Dist(a, a) = 0 /\ Dist(a, t) > 0 /\ Dist(a, m) > 0
  BY <1>1, NodeDist
<1>3. Dist(t, m) = Dist(a, m) - Dist(a, t)
  BY <1>1, NodeDistAdds
<1>4. Before(t, m) \subseteq Before(a, m) \ {a} /\ a \in Before(a, m)
  <2>1. ASSUME NEW k \in Node, Dist(t, k) < Dist(t, m) PROVE Dist(a, k) < Dist(a, m) /\ k # a
    <3>1. IF Dist(a, t) <= Dist(a, k) THEN Dist(t, k) = Dist(a, k) - Dist(a, t)
                                      ELSE Dist(t, k) = RingSize - Dist(a, t) + Dist(a, k)
      BY <1>1, NodeDistAdds
    <3>2. RingSize \in Int
      BY IntAssumption DEF RingSize, INT_MIN
    <3> QED BY <1>1, <1>2, <1>3, <2>1, <3>1, <3>2
  <2> QED BY <1>2, <2>1 DEF Before
<1>5. /\ Before(a, m) \in SUBSET Node /\ Before(a, m) \ {a} \in SUBSET Node
  BY DEF Before
<1>6. /\ Cardinality(Before(a, m)) \in Nat /\ Cardinality(Before(t, m)) \in Nat
      /\ Cardinality(Before(t, m)) <= Cardinality(Before(a, m) \ {a})
      /\ Cardinality(Before(a, m) \ {a}) = Cardinality(Before(a, m)) - 1
      /\ Cardinality(Before(a, m) \ {a}) \in Nat
  BY <1>4, <1>5, NodesFinite, FS_RemoveElement
<1> QED BY <1>1, <1>6 DEF Ahead

\* What is known of the file a client asks for.
LEMMA KnownFile ==
  ASSUME TypeOK, LockerInv, StoredDone, KeysKept, NEW r \in Request, req[r].known
  PROVE  \E u \in Request :
           /\ req[u].op = "put" /\ req[u].answer = "stored" /\ req[u].pc = "done"
           /\ req[u].host = req[r].host /\ req[u].id = req[r].id /\ req[r].id # Null
           /\ req[u].body = req[r].id.file /\ req[r].id.file \in File
           /\ req[r].host \in Node /\ req[r].op = "get"
           /\ req[r].id = Checksum(req[r].host, req[r].id.file)
<1>1. req[r].op = "get" /\ Acknowledged(req[r].host, req[r].id)
  BY DEF StoredDone
<1>2. PICK u \in Request : /\ req[u].answer = "stored" /\ req[u].host = req[r].host
                           /\ req[u].id = req[r].id
  BY <1>1 DEF Acknowledged
<1>3. req[u].op = "put" /\ req[u].pc = "done" /\ req[u].id \in Checksums
  BY <1>2 DEF StoredDone
<1>4. req[u].id # Null /\ req[u].id.file = req[u].body /\ req[u].host \in Node
  BY <1>3, LockerAssumption DEF LockerInv, Named, Phases, Phase
<1>5. req[u].id.file \in File
  BY <1>3 DEF Checksums
<1>6. req[u].id = Checksum(req[u].host, req[u].id.file)
  BY <1>3, <1>4 DEF KeysKept
<1> QED BY <1>1, <1>2, <1>3, <1>4, <1>5, <1>6

LEMMA NearingStays ==
  ASSUME Grows, NEW r \in Request, req'[r] = req[r], Nearing(r)
  PROVE  Nearing(r)'
  BY DEF Grows, Nearing, Circle, Ahead, Before

\* A download of an acknowledged file comes nearer to a copy or has found one.
LEMMA DownloadNears ==
  ASSUME TypeOK, LockerInv, MetaNamed, StoredDone, KeysKept, CopiesFound,
         Cardinality(Node \ Member) < REPLICATION_FACTOR,
         NEW r \in Request, req[r].known, Download(r)
  PROVE  /\ Nearing(r)'
         /\ req'[r].answer \in {Null, "ok"}
<1>1. /\ ReqType /\ Phase(r) /\ req[r] \in RequestType /\ Nearing(r) /\ Alive /\ Intact /\ Calm
  BY TypeParts DEF LockerInv, Phases, ReqType, CopiesFound, Calm
<1>2. /\ Moves(r) /\ req'[r].id = req[r].id /\ req[r].answer = Null
      /\ UNCHANGED <<ring, up, replica, meta>>
  BY DownloadMoves DEF hosts, disks
<1>3. PICK n, id, c, a, left : /\ n = req[r].host /\ id = req[r].id /\ c = req[r].id.file
                               /\ a = req[r].at /\ left = req[r].left
  OBVIOUS
<1>4. PICK u \in Request :
           /\ req[u].op = "put" /\ req[u].answer = "stored" /\ req[u].pc = "done"
           /\ req[u].host = n /\ req[u].id = id /\ id # Null
           /\ req[u].body = c /\ c \in File
           /\ n \in Node /\ req[r].op = "get"
           /\ id = Checksum(n, c)
  BY <1>3, KnownFile
<1>5. id \in DOMAIN meta[n] /\ meta[n][id] = c
  BY <1>3, <1>4 DEF CopiesFound, Remembered, MetaNamed
<1>6. /\ ring \subseteq Node /\ up \subseteq Node /\ ring \subseteq up /\ Null \notin Node
      /\ a \in up \cup {Null} /\ n \in up /\ left \in Nat /\ REPLICATION_FACTOR \in Nat
      /\ Place[c] \in Id /\ ring # {}
  BY <1>1, <1>2, <1>3, <1>4, TypeParts, LockerAssumption
     DEF HostsType, Alive, RequestType, Moves
<1>7. Sha256(r) = c
  BY <1>3, <1>5 DEF Sha256
<1>8. req'[r].id.file = c /\ req'[r].known /\ \A d, k : /\ Holders(d)' = Holders(d)
                                                      /\ Circle(k)' = Circle(k)
  BY <1>2, <1>3 DEF Moves, Holders, Circle
<1>9. ASSUME req'[r].pc \in {"forward", "done"}, req'[r].answer \in {Null, "ok"}
      PROVE  Nearing(r)' /\ req'[r].answer \in {Null, "ok"}
  BY <1>9 DEF Nearing
<1>10. ASSUME NEW d, Answer(r, "ok", d)
       PROVE  Nearing(r)' /\ req'[r].answer \in {Null, "ok"}
  BY <1>1, <1>9, <1>10, AnswerStep
<1>11. CASE ReadOriginal(r)
  <2>1. CASE req' = [req EXCEPT ![r].pc = "forward"]
    <3>1. req'[r].pc = "forward" /\ req'[r].answer = Null
      BY <1>1, <1>2, <2>1 DEF ReqType, RequestType
    <3> QED BY <1>9, <3>1
  <2> QED BY <1>10, <1>11, <2>1 DEF ReadOriginal
<1>12. CASE ForwardLookup(r)
  <2>1. req' = [req EXCEPT ![r].pc = "try", ![r].at = Null, ![r].left = REPLICATION_FACTOR]
    BY <1>3, <1>5, <1>12 DEF ForwardLookup
  <2>2. /\ req'[r].pc = "try" /\ req'[r].at = Null /\ req'[r].left = REPLICATION_FACTOR
        /\ req'[r].answer = Null
    BY <1>1, <1>2, <2>1 DEF ReqType, RequestType
  <2> QED BY <2>2 DEF Nearing
<1>13. CASE Try(r)
  <2>1. req[r].pc = "try"
    BY <1>13 DEF Try
  <2>2. ASSUME NEW t \in Node, NEW m \in Holders(c) \cap Circle(t), Ahead(t, m) <= left - 1,
               req' = [req EXCEPT ![r].pc = "fetch", ![r].at = t, ![r].left = @ - 1]
        PROVE  Nearing(r)' /\ req'[r].answer \in {Null, "ok"}
    <3>1. /\ req'[r].pc = "fetch" /\ req'[r].at = t /\ req'[r].left = left - 1
          /\ req'[r].answer = Null
      BY <1>1, <1>2, <1>3, <2>2 DEF ReqType, RequestType
    <3>2. m \in Holders(c)' \cap Circle(t)' /\ Ahead(t, m)' <= left - 1
      BY <1>8, <2>2 DEF Ahead, Before
    <3>3. \E k \in (Holders(req[r].id.file) \cap Circle(req[r].at))' :
            Ahead(req'[r].at, k) <= req'[r].left
      BY <1>8, <3>1, <3>2 DEF Ahead, Before, Holders, Circle
    <3> QED BY <3>1, <3>3 DEF Nearing
  <2>3. CASE a = Null
    <3> PICK t : t = Predecessor(n, Place[c])
      OBVIOUS
    <3>1. t \in up /\ t \in Node
      BY <1>4, <1>6, PredecessorIsLast DEF Circle
    <3>2. left = REPLICATION_FACTOR
      BY <1>1, <1>3, <2>1, <2>3 DEF Nearing
    <3>3. \E last \in Node : CopiedUpTo(n, c, last, REPLICATION_FACTOR)
      BY <1>1, <1>4 DEF Calm, Copying
    <3>4. PICK m \in Holders(c) \cap Circle(t) : Ahead(t, m) <= REPLICATION_FACTOR - 1
      BY <1>1, <1>4, <3>3, FreshStart
    <3>5. req' = [req EXCEPT ![r].pc = "fetch", ![r].at = t, ![r].left = @ - 1]
      BY <1>3, <1>6, <1>7, <1>13, <2>3, <3>1 DEF Try, LookupFails, LookupThrows
    <3> QED BY <2>2, <3>1, <3>2, <3>4, <3>5
  <2>4. CASE a # Null
    <3> PICK t : t = Successor(a)
      OBVIOUS
    <3>1. a \in up /\ a \in Node
      BY <1>6, <2>4
    <3>2. PICK m \in (Holders(c) \cap ring) \ {a} : Ahead(a, m) <= left
      BY <1>1, <1>3, <2>1, <2>4 DEF Nearing
    <3>3. /\ t \in Node /\ m \in Circle(t) /\ Ahead(a, m) \in Nat /\ Ahead(t, m) \in Nat
          /\ Ahead(t, m) <= Ahead(a, m) - 1
      BY <1>6, <3>1, <3>2, NextNearer
    <3>4. t \in up
      BY <1>6, <3>1, SuccessorIsNearest DEF Circle
    <3>5. req' = [req EXCEPT ![r].pc = "fetch", ![r].at = t, ![r].left = @ - 1]
      BY <1>3, <1>13, <2>4, <3>1, <3>4 DEF Try
    <3>6. Ahead(t, m) <= left - 1
      BY <1>6, <3>2, <3>3
    <3> QED BY <2>2, <3>2, <3>3, <3>5, <3>6
  <2> QED BY <2>3, <2>4
<1>14. CASE Fetch(r)
  <2>1. req[r].pc = "fetch" /\ a \in Node /\ a \in up
    BY <1>1, <1>3, <1>6, <1>14 DEF Fetch, Phase
  <2>2. PICK m \in Holders(c) \cap Circle(a) : Ahead(a, m) <= left
    BY <1>1, <1>3, <2>1 DEF Nearing
  <2>3. CASE c \in DOMAIN replica[a]
    <3>1. replica[a][c] = c
      BY <1>1, <2>1, <2>3 DEF Intact
    <3>2. Verified(n, replica[a][c], id)
      BY <1>4, <3>1 DEF Verified
    <3>3. Answer(r, "ok", replica[a][c])
      BY <1>3, <1>7, <1>14, <2>1, <2>3, <3>2 DEF Fetch
    <3> QED BY <1>10, <3>3
  <2>4. CASE c \notin DOMAIN replica[a]
    <3>1. m \in (Holders(c) \cap ring) \ {a}
      BY <2>2, <2>4 DEF Holders, Circle
    <3>2. left # 0
      <4>1. Ahead(a, m) \in Nat /\ Ahead(a, m) >= 1
        BY <1>6, <2>1, <3>1, NextNearer
      <4> QED BY <1>6, <2>2, <4>1
    <3>3. req' = [req EXCEPT ![r].pc = "try", ![r].left = left, ![r].at = a]
      BY <1>3, <1>7, <1>14, <2>1, <2>4, <3>2 DEF Fetch, NextTry
    <3>4. /\ req'[r].pc = "try" /\ req'[r].at = a /\ req'[r].left = left /\ a # Null
          /\ req'[r].answer = Null
      BY <1>1, <1>2, <1>6, <2>1, <3>3 DEF ReqType, RequestType
    <3>5. \E k \in (Holders(req[r].id.file) \cap ring)' \ {req'[r].at} :
            Ahead(req'[r].at, k) <= req'[r].left
      BY <1>2, <1>8, <2>2, <3>1, <3>4 DEF Ahead, Before, Holders
    <3> QED BY <3>4, <3>5 DEF Nearing
  <2> QED BY <2>3, <2>4
<1> QED BY <1>11, <1>12, <1>13, <1>14 DEF Download

\* What a step may do to a request of a client that knows its file, besides answering
\* it.
LEMMA KnownSteps ==
  ASSUME TypeOK, LockerInv, StoredDone, [Next]_vars, NEW r \in Request, req'[r].known, ~Download(r)
  PROVE  \/ req'[r] = req[r]
         \/ req'[r].pc \in {"read", "done"} /\ req'[r].answer \in {Null, "lost"}
<1>1. ReqType /\ Phase(r) /\ req[r] \in RequestType
  BY TypeParts DEF LockerInv, Phases, ReqType
<1>2. req[r].known => req[r].op = "get"
  BY DEF StoredDone
<1>3. ASSUME NEW q \in Request, Upload(q) \/ Download(q) PROVE req'[r] = req[r]
  BY <1>2, <1>3, UploadMoves, DownloadMoves DEF Moves, Others
<1>4. ASSUME NEW q \in Request, NEW n \in Node, NEW c \in File, InsertItem(q, n, c)
      PROVE  req'[r] = req[r]
  BY <1>1, <1>4 DEF InsertItem, NewRequest, ReqType
<1>5. ASSUME NEW q \in Request, NEW n \in Node, NEW id \in Asked(n), GetItem(q, n, id)
      PROVE  req'[r] = req[r] \/ (req'[r].pc = "read" /\ req'[r].answer = Null)
  BY <1>1, <1>5 DEF GetItem, NewRequest, ReqType
<1>6. ASSUME NEW n \in Node, Crash(n)
      PROVE  req'[r] = req[r] \/ (req'[r].pc = "done" /\ req'[r].answer = "lost")
  <2>1. CASE req[r].host = n /\ req[r].pc # "done"
    <3>1. /\ req'[r].known = req[r].known
          /\ req[r].pc \notin {"copy", "pass"} => req'[r].pc = "done" /\ req'[r].answer = "lost"
      BY <1>1, <1>6, <2>1 DEF Crash, ReqType, RequestType, Return
    <3>2. req[r].pc \notin {"copy", "pass"}
      BY <1>1, <1>2, <3>1 DEF Phase
    <3> QED BY <3>1, <3>2
  <2>2. CASE ~(req[r].host = n /\ req[r].pc # "done")
    BY <1>6, <2>2 DEF Crash
  <2> QED BY <2>1, <2>2
<1>7. ASSUME NEW n \in Node, Damage(n) \/ Start(n) \/ Link(n) \/ Unlink(n)
      PROVE  req'[r] = req[r]
  BY <1>7 DEF Damage, Start, Link, Unlink
<1>8. CASE UNCHANGED vars
  BY <1>8 DEF vars
<1> QED BY <1>3, <1>4, <1>5, <1>6, <1>7, <1>8 DEF Next

\* Where the identifier of an upload comes from.
LEMMA PutSteps ==
  ASSUME TypeOK, LockerInv, [Next]_vars, NEW r \in Request,
         req'[r].op = "put", req'[r].id # Null
  PROVE  \/ req[r].op = "put" /\ req'[r].id = req[r].id /\ req'[r].host = req[r].host
         \/ /\ SaveFile(r) /\ req'[r].id = Checksum(req[r].host, req[r].body)
            /\ req'[r].host = req[r].host
            /\ data' = [data EXCEPT ![req[r].host] = Store(@, req'[r].id, req[r].body)]
<1>1. ReqType /\ Phase(r) /\ req[r] \in RequestType
  BY TypeParts DEF LockerInv, Phases, ReqType
<1> DEFINE Same == req[r].op = "put" /\ req'[r].id = req[r].id /\ req'[r].host = req[r].host
<1>2. ASSUME NEW q \in Request, Upload(q), q # r \/ req[r].pc # "save" PROVE Same
  BY <1>2, UploadMoves DEF Moves, Others
<1>3. ASSUME Upload(r), req[r].pc = "save"
      PROVE  /\ SaveFile(r) /\ req'[r].id = Checksum(req[r].host, req[r].body)
             /\ req'[r].host = req[r].host
             /\ data' = [data EXCEPT ![req[r].host] = Store(@, req'[r].id, req[r].body)]
  <2>1. SaveFile(r)
    BY <1>3 DEF Upload, BeginReplicatingFile, ReplicateFile, ReplicateFurther, ReplicateFails,
                Acknowledge
  <2>2. ASSUME NEW a, NEW c, Answer(r, a, c) PROVE FALSE
    <3>1. req'[r].id = req[r].id
      BY <1>1, <2>2, AnswerStep
    <3> QED BY <1>1, <1>3, <3>1 DEF Phase
  <2>3. /\ data' = [data EXCEPT ![req[r].host] =
                      Store(@, Checksum(req[r].host, req[r].body), req[r].body)]
        /\ req' = [req EXCEPT ![r].pc = "replicate", ![r].id = Checksum(req[r].host, req[r].body)]
    BY <2>1, <2>2 DEF SaveFile
  <2>4. /\ req'[r].id = Checksum(req[r].host, req[r].body)
        /\ req'[r].host = req[r].host
    BY <1>1, <2>3 DEF ReqType, RequestType
  <2> QED BY <2>1, <2>3, <2>4
<1>4. ASSUME NEW q \in Request, Download(q) PROVE Same
  BY <1>4, DownloadMoves DEF Moves, Others
<1>5. ASSUME NEW q \in Request, NEW n \in Node,
             \/ \E c \in File : InsertItem(q, n, c)
             \/ \E id \in Asked(n) : GetItem(q, n, id)
      PROVE  Same
  BY <1>1, <1>5 DEF InsertItem, GetItem, NewRequest, ReqType
<1>6. ASSUME NEW n \in Node, Crash(n) PROVE Same
  BY <1>1, <1>6 DEF Crash, ReqType, RequestType, Return
<1>7. ASSUME NEW n \in Node, Damage(n) \/ Start(n) \/ Link(n) \/ Unlink(n)
      PROVE  Same
  BY <1>7 DEF Damage, Start, Link, Unlink
<1>8. CASE UNCHANGED vars
  BY <1>8 DEF vars
<1> QED BY <1>2, <1>3, <1>4, <1>5, <1>6, <1>7, <1>8 DEF Next

\* Only the loss of a node's memory takes metadata away.
LEMMA RememberedStep ==
  ASSUME TypeOK, LockerInv, StoredDone, Remembered, [Next]_vars, UNCHANGED faults
  PROVE  Remembered'
<1>1. ReqType /\ HostsType /\ DisksType /\ ~Fault
  BY TypeParts DEF Fault, HostsType
<1>2. ASSUME NEW r \in Request, Acknowledge(r)
      PROVE  /\ \A n \in Node : DOMAIN meta[n] \subseteq DOMAIN meta'[n]
             /\ req[r].id \in DOMAIN meta'[req[r].host]
             /\ req'[r].host = req[r].host /\ req'[r].id = req[r].id
  <2> PICK n, id, c : n = req[r].host /\ id = req[r].id /\ c = req[r].body
    OBVIOUS
  <2>1. n \in Node
    BY <1>2 DEF Acknowledge, LockerInv, Phases, Phase
  <2>2. meta'[n] = Store(meta[n], id, c) /\ \A m \in Node \ {n} : meta'[m] = meta[m]
    BY <1>1, <1>2, <2>1 DEF Acknowledge, DisksType
  <2>3. DOMAIN meta'[n] = DOMAIN meta[n] \cup {id}
    BY <2>2 DEF Store
  <2>4. req'[r].host = req[r].host /\ req'[r].id = req[r].id
    BY <1>1, <1>2, AnswerStep DEF Acknowledge
  <2> QED BY <2>2, <2>3, <2>4
<1>3. (\E r \in Request : Acknowledge(r)) \/ UNCHANGED meta
  BY <1>1 DEF Next, vars, disks, Upload, Download, SaveFile, BeginReplicatingFile, ReplicateFile,
              ReplicateFurther, ReplicateFails, ReadOriginal, ForwardLookup, Try, Fetch,
              InsertItem, GetItem, Damage, Crash, Start, Link, Unlink
<1> SUFFICES ASSUME NEW r \in Request, req'[r].answer = "stored"
             PROVE  req'[r].id \in DOMAIN meta'[req'[r].host]
  BY DEF Remembered
<1>4. CASE req[r].answer = "stored"
  <2>1. req'[r] = req[r] /\ req[r].id \in DOMAIN meta[req[r].host] /\ req[r].host \in Node
    BY <1>4, DoneStays DEF StoredDone, Remembered, LockerInv, Phases, Phase
  <2> QED BY <1>2, <1>3, <2>1
<1>5. CASE req[r].answer # "stored"
  <2>1. Upload(r) /\ req[r].pc = "meta"
    <3>1. ASSUME NEW q \in Request, Upload(q) \/ Download(q), q # r \/ req[r].pc # "meta"
          PROVE  FALSE
      BY <1>5, <3>1, UploadMoves, DownloadMoves DEF Moves, Others
    <3>2. ASSUME Download(r) PROVE FALSE
      BY <1>5, <3>2, DownloadMoves DEF Download, ReadOriginal, ForwardLookup, Try, Fetch, Moves
    <3>3. ASSUME NEW q \in Request, NEW n \in Node,
                 \/ \E c \in File : InsertItem(q, n, c)
                 \/ \E id \in Asked(n) : GetItem(q, n, id)
          PROVE  FALSE
      BY <1>1, <1>5, <3>3, LockerAssumption DEF InsertItem, GetItem, NewRequest, ReqType
    <3>4. ASSUME NEW n \in Node, Damage(n) \/ Crash(n) \/ Start(n) \/ Link(n) \/ Unlink(n)
          PROVE  FALSE
      BY <1>1, <1>5, <3>4 DEF Damage, Crash, Start, Link, Unlink
    <3>5. CASE UNCHANGED vars
      BY <1>5, <3>5 DEF vars
    <3> QED BY <3>1, <3>2, <3>3, <3>4, <3>5 DEF Next
  <2>2. Acknowledge(r)
    BY <2>1 DEF Upload, SaveFile, BeginReplicatingFile, ReplicateFile, ReplicateFurther,
                ReplicateFails
  <2> QED BY <1>2, <2>2
<1> QED BY <1>4, <1>5

\* As long as nothing fails nothing is taken from the ring or from the replicas.
LEMMA CalmGrows ==
  ASSUME TypeOK, LockerInv, Calm, [Next]_vars, UNCHANGED faults
  PROVE  Grows
<1>1. HostsType /\ ~Fault /\ ring \subseteq up
  BY TypeParts DEF Fault, HostsType, Calm, Alive
<1>2. ASSUME NEW r \in Request, ReplicateFile(r) PROVE Grows
  <2> PICK q, c : q = req[r].at /\ c = req[r].body
    OBVIOUS
  <2>1. q \in Node /\ c \in File
    BY <1>2 DEF ReplicateFile, LockerInv, Phases, Phase
  <2>2. UNCHANGED ring /\ replica' = [replica EXCEPT ![q] = Store(@, c, c)]
    BY <1>1, <1>2 DEF ReplicateFile
  <2> QED BY <2>1, <2>2, CopyStored
<1>3. ASSUME ring \subseteq ring', UNCHANGED replica PROVE Grows
  BY <1>3 DEF Grows, Holders
<1>4. CASE \E r \in Request : Upload(r) /\ ~ReplicateFile(r)
  BY <1>3, <1>4 DEF Upload, SaveFile, BeginReplicatingFile, ReplicateFurther, ReplicateFails,
                    Acknowledge, hosts, disks
<1>5. CASE \/ \E r \in Request : Download(r)
           \/ \E r \in Request, n \in Node, c \in File : InsertItem(r, n, c)
           \/ \E r \in Request, n \in Node : \E id \in Asked(n) : GetItem(r, n, id)
  BY <1>3, <1>5 DEF Download, ReadOriginal, ForwardLookup, Try, Fetch, InsertItem, GetItem,
                    hosts, disks
<1>6. CASE \E n \in Node : Damage(n) \/ Crash(n) \/ Start(n) \/ Link(n) \/ Unlink(n)
  BY <1>1, <1>3, <1>6 DEF Damage, Crash, Start, Link, Unlink, disks
<1>7. CASE UNCHANGED vars
  BY <1>3, <1>7 DEF vars, hosts, disks
<1> QED BY <1>2, <1>4, <1>5, <1>6, <1>7 DEF Next

\* While nothing happens to the copies a download finds one of them.
LEMMA FoundStep ==
  ASSUME TypeOK, LockerInv, MetaNamed, StoredDone, KeysKept, CopiesFound, OneFaultTolerated,
         Cardinality(Node \ Member) < REPLICATION_FACTOR, [Next]_vars, UNCHANGED faults
  PROVE  CopiesFound' /\ OneFaultTolerated'
<1>1. Calm' /\ Remembered' /\ Grows
  BY CalmStep, CalmGrows, RememberedStep DEF CopiesFound
<1>2. ASSUME NEW r \in Request
      PROVE  /\ Nearing(r)'
             /\ faults <= 1 /\ req'[r].known => req'[r].answer \in {Null, "ok", "lost"}
  <2>1. CASE ~req'[r].known
    BY <2>1 DEF Nearing
  <2>2. CASE req'[r].known /\ Download(r)
    <3>1. req[r].known
      BY <2>2, DownloadMoves DEF Moves
    <3> QED BY <2>2, <3>1, DownloadNears
  <2>3. CASE req'[r].known /\ ~Download(r)
    <3>1. CASE req'[r] = req[r]
      BY <1>1, <2>3, <3>1, NearingStays DEF CopiesFound, OneFaultTolerated
    <3>2. CASE req'[r].pc \in {"read", "done"} /\ req'[r].answer \in {Null, "lost"}
      BY <3>2 DEF Nearing
    <3> QED BY <2>3, <3>1, <3>2, KnownSteps
  <2> QED BY <2>1, <2>2, <2>3
<1> QED BY <1>1, <1>2 DEF CopiesFound, OneFaultTolerated

\* While nothing happens to the originals a download returns the original.
LEMMA OriginalsStep ==
  ASSUME TypeOK, LockerInv, StoredDone, KeysKept, OriginalsGood, OneFaultTolerated, faults <= 1,
         [Next]_vars, \A n \in Node : Damage(n) => UNCHANGED data
  PROVE  OriginalsGood' /\ OneFaultTolerated'
<1>1. ReqType /\ HostsType /\ DisksType
  BY TypeParts
<1>2. ASSUME NEW r \in Request, req'[r].op = "put", req'[r].id # Null
      PROVE  /\ req'[r].id \in DOMAIN data'[req'[r].host]
             /\ data'[req'[r].host][req'[r].id] = req'[r].id.file
  <2> PICK n, id : n = req'[r].host /\ id = req'[r].id
    OBVIOUS
  <2>1. ASSUME NEW q \in Request, SaveFile(q), UNCHANGED data \/
               data' = [data EXCEPT ![req[q].host] =
                                      Store(@, Checksum(req[q].host, req[q].body), req[q].body)],
               n \in Node, id \in DOMAIN data[n], data[n][id] = id.file
        PROVE  id \in DOMAIN data'[n] /\ data'[n][id] = id.file
    <3> PICK m, c : m = req[q].host /\ c = req[q].body
      OBVIOUS
    <3>1. m \in Node /\ c \in File
      BY <2>1 DEF SaveFile, LockerInv, Phases, Phase
    <3>2. Checksum(m, c).file = c
      BY <1>1, <3>1, ChecksumType DEF HostsType
    <3>3. CASE data' = [data EXCEPT ![m] = Store(@, Checksum(m, c), c)]
      BY <1>1, <2>1, <3>1, <3>2, <3>3 DEF DisksType, Store
    <3> QED BY <2>1, <3>3
  <2>2. CASE req[r].op = "put" /\ req'[r].id = req[r].id /\ req'[r].host = req[r].host
    <3>1. id \in DOMAIN data[n] /\ data[n][id] = id.file /\ n \in Node
      BY <1>2, <2>2, LockerAssumption DEF OriginalsGood, LockerInv, Phases, Phase
    <3>2. CASE \E q \in Request : SaveFile(q)
      BY <2>1, <3>1, <3>2 DEF SaveFile
    <3>3. CASE UNCHANGED data
      BY <3>1, <3>3
    <3>4. (\E q \in Request : SaveFile(q)) \/ UNCHANGED data
      BY DEF Next, vars, disks, Upload, Download, BeginReplicatingFile, ReplicateFile,
             ReplicateFurther, ReplicateFails, Acknowledge, ReadOriginal, ForwardLookup, Try,
             Fetch, InsertItem, GetItem, Crash, Start, Link, Unlink
    <3> QED BY <3>2, <3>3, <3>4
  <2>3. CASE /\ SaveFile(r) /\ req'[r].id = Checksum(req[r].host, req[r].body)
             /\ req'[r].host = req[r].host
             /\ data' = [data EXCEPT ![req[r].host] = Store(@, req'[r].id, req[r].body)]
    <3> PICK c : c = req[r].body
      OBVIOUS
    <3>1. n \in Node /\ c \in File /\ n = req[r].host
      BY <2>3 DEF SaveFile, LockerInv, Phases, Phase
    <3>2. id.file = c
      BY <1>1, <2>3, <3>1, ChecksumType DEF HostsType
    <3>3. data'[n] = Store(data[n], id, c)
      BY <1>1, <2>3, <3>1 DEF DisksType
    <3> QED BY <3>2, <3>3 DEF Store
  <2> QED BY <1>2, <2>2, <2>3, PutSteps
<1>3. ASSUME NEW r \in Request, req'[r].known
      PROVE  req'[r].pc \in {"read", "done"} /\ req'[r].answer \in {Null, "ok", "lost"}
  <2>1. CASE Download(r)
    <3> PICK n, id, c : n = req[r].host /\ id = req[r].id /\ c = req[r].id.file
      OBVIOUS
    <3>1. req[r].known
      BY <1>3, <2>1, DownloadMoves DEF Moves
    <3>2. ReadOriginal(r)
      BY <2>1, <3>1 DEF OriginalsGood, Download, ForwardLookup, Try, Fetch
    <3>3. id = Checksum(n, c) /\ id \in DOMAIN data[n] /\ data[n][id] = c
      BY <3>1, KnownFile DEF OriginalsGood
    <3>4. Answer(r, "ok", data[n][id])
      BY <3>2, <3>3 DEF ReadOriginal, Verified
    <3> QED BY <1>1, <3>4, AnswerStep
  <2>2. CASE ~Download(r)
    BY <1>3, <2>2, KnownSteps DEF OriginalsGood, OneFaultTolerated
  <2> QED BY <2>1, <2>2
<1> QED BY <1>2, <1>3 DEF OriginalsGood, OneFaultTolerated

\* A key is only lost while its process is down, so that is the second fault at least
\* for a node that has had an upload.
LEMMA KeysStep ==
  ASSUME TypeOK, LockerInv, KeysKept, faults = 0 => Alive, [Next]_vars, faults' <= 1
  PROVE  KeysKept'
<1>1. ReqType /\ HostsType
  BY TypeParts
<1> SUFFICES ASSUME NEW r \in Request, req'[r].op = "put", req'[r].id # Null
             PROVE  req'[r].id = Checksum(req[r].host, req[r].id.file)'
  BY DEF KeysKept
<1> PICK n, id, c : n = req'[r].host /\ id = req'[r].id /\ c = id.file
  OBVIOUS
<1>2. CASE req[r].op = "put" /\ req'[r].id = req[r].id /\ req'[r].host = req[r].host
  <2>1. id = Checksum(n, c) /\ n \in Node /\ req[r].pc # "idle"
    BY <1>2, LockerAssumption DEF KeysKept, LockerInv, Phases, Phase
  <2>2. key'[n] = key[n]
    <3>1. ASSUME NEW m \in Node, Start(m) PROVE key'[n] = key[n]
      <4>1. CASE Fault /\ key' = [key EXCEPT ![m] = @ + 1]
        <5>1. faults = 0
          BY <1>1, <4>1 DEF Fault, HostsType
        <5>2. n \in up
          BY <1>2, <2>1, <5>1 DEF Alive
        <5> QED BY <1>1, <3>1, <4>1, <5>2 DEF Start, HostsType
      <4> QED BY <3>1, <4>1 DEF Start
    <3>2. CASE UNCHANGED key
      BY <3>2
    <3>3. (\E m \in Node : Start(m)) \/ UNCHANGED key
      BY DEF Next, vars, hosts, Upload, Download, SaveFile, BeginReplicatingFile, ReplicateFile,
             ReplicateFurther, ReplicateFails, Acknowledge, ReadOriginal, ForwardLookup, Try,
             Fetch, InsertItem, GetItem, Damage, Crash, Link, Unlink
    <3> QED BY <3>1, <3>2, <3>3
  <2> QED BY <2>1, <2>2 DEF Checksum
<1>3. CASE /\ SaveFile(r) /\ req'[r].id = Checksum(req[r].host, req[r].body)
           /\ req'[r].host = req[r].host
  <2> PICK d : d = req[r].body
    OBVIOUS
  <2>1. n \in Node /\ d \in File /\ n = req[r].host /\ UNCHANGED key
    BY <1>3 DEF SaveFile, LockerInv, Phases, Phase
  <2>2. id = Checksum(n, d) /\ c = d
    BY <1>1, <1>3, <2>1, ChecksumType DEF HostsType
  <2> QED BY <2>1, <2>2 DEF Checksum
<1> QED BY <1>2, <1>3, PutSteps

LEMMA FaultInvStep ==
  ASSUME TypeOK, LockerInv, FaultInv, Cardinality(Node \ Member) < REPLICATION_FACTOR, [Next]_vars
  PROVE  FaultInv'
<1>1. HostsType /\ faults \in Nat
  BY TypeParts, LockerAssumption DEF HostsType
<1>2. MetaNamed' /\ StoredDone'
  BY MetaNamedStep, StoredDoneStep DEF FaultInv
<1>3. CASE faults' > 1
  BY <1>1, <1>2, <1>3, FaultsGrow DEF FaultInv, OneFaultTolerated
<1>4. CASE faults' <= 1
  <2>1. faults <= 1 /\ (UNCHANGED faults \/ (faults = 0 /\ faults' = 1))
    BY <1>1, <1>4, FaultsGrow
  <2>2. KeysKept /\ KeysKept'
    BY <1>4, <2>1, KeysStep DEF FaultInv, CopiesFound, Calm
  <2>3. ASSUME OriginalsGood, \A n \in Node : Damage(n) => UNCHANGED data
        PROVE  OriginalsGood' /\ OneFaultTolerated'
    BY <2>1, <2>2, <2>3, OriginalsStep DEF FaultInv
  <2>4. ASSUME CopiesFound, UNCHANGED faults PROVE CopiesFound' /\ OneFaultTolerated'
    BY <2>2, <2>4, FoundStep DEF FaultInv
  <2>5. ASSUME UNCHANGED faults PROVE \A n \in Node : ~Damage(n)
    BY <1>1, <2>5 DEF Damage, Fault
  <2>6. CASE UNCHANGED faults
    BY <1>1, <1>2, <2>1, <2>2, <2>3, <2>4, <2>5, <2>6 DEF FaultInv
  <2>7. CASE faults = 0 /\ faults' = 1
    <3>1. OriginalsGood /\ CopiesFound /\ OneFaultTolerated
      BY <2>7 DEF FaultInv
    <3>2. CASE \A n \in Node : Damage(n) => UNCHANGED data
      BY <1>2, <2>2, <2>3, <2>7, <3>1, <3>2 DEF FaultInv
    <3>3. CASE \E n \in Node : Damage(n) /\ data' # data
      <4>1. UNCHANGED <<ring, up, replica, meta, req>>
        BY <3>3 DEF Damage
      <4>2. Calm'
        BY <3>1, <4>1, CalmUntouched, TypeParts DEF CopiesFound
      <4>3. Grows
        BY <4>1, CopiesUntouched
      <4>4. CopiesFound'
        BY <3>1, <4>1, <4>2, <4>3, NearingStays DEF CopiesFound, Remembered
      <4>5. OneFaultTolerated'
        BY <2>7, <3>1, <4>1 DEF OneFaultTolerated
      <4> QED BY <1>2, <2>2, <2>7, <4>4, <4>5 DEF FaultInv
    <3> QED BY <3>2, <3>3
  <2> QED BY <2>1, <2>6, <2>7
<1> QED BY <1>1, <1>3, <1>4, FaultsGrow

LEMMA InitFaultInv == Init => FaultInv
<1> SUFFICES ASSUME Init PROVE FaultInv
  OBVIOUS
<1>1. \A r \in Request : /\ req[r].op = Null /\ req[r].answer = Null /\ ~req[r].known
                         /\ req[r].pc = "idle" /\ req[r].at = Null
  BY DEF Init, NewRequest
<1>2. Null # "put" /\ Null # "stored" /\ faults = 0
  BY LockerAssumption DEF Init
<1>3. MetaNamed
  BY DEF Init, MetaNamed, Empty
<1>4. StoredDone /\ OriginalsGood /\ KeysKept /\ OneFaultTolerated /\ Remembered
      /\ \A r \in Request : Nearing(r)
  BY <1>1, <1>2 DEF StoredDone, OriginalsGood, KeysKept, OneFaultTolerated, Remembered, Nearing
<1> QED BY <1>2, <1>3, <1>4, InitCalm DEF FaultInv, CopiesFound

\* insertItem, forwardLookup and the disks: if fewer nodes join than copies are made, no
\* single fault, whatever it is and whenever it happens, keeps an acknowledged file from
\* a client that asks the node it was uploaded at.
THEOREM OneFaultIsTolerated ==
  ASSUME Cardinality(Node \ Member) < REPLICATION_FACTOR
  PROVE  Spec => []OneFaultTolerated
<1>1. TypeOK /\ LockerInv /\ FaultInv /\ [Next]_vars => FaultInv'
  BY FaultInvStep
<1>2. FaultInv => OneFaultTolerated
  BY DEF FaultInv
<1> QED BY <1>1, <1>2, InitFaultInv, LockerTypeCorrect, LockerInvariant, PTL DEF Spec
=============================================================================
