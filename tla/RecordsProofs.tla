---------------------------- MODULE RecordsProofs ----------------------------
(* Theorems about DatasetFiles, for any number of requests and any lists of *)
(* sources; about SourceFiles, for any number of sources and requests; and  *)
(* about RuntimeSettings, for any settings, models and number of requests.  *)
EXTENDS DatasetFiles, SourceFiles, RuntimeSettings, SequenceTheorems, TLAPS

-----------------------------------------------------------------------------
(* The requests that change a dataset                                      *)

RequestsAreBounded  == MaxRequests \in Nat
ListsAreSources == Lists \subseteq Seq(Source)

-----------------------------------------------------------------------------
(* What is left of a list when its first source has been gone through.      *)
LEMMA TailElements ==
  ASSUME NEW list \in Seq(Source), list # <<>>
  PROVE  /\ Head(list) \in Source /\ Tail(list) \in Seq(Source)
         /\ Elements(list) \subseteq {Head(list)} \cup Elements(Tail(list))
<1>1. /\ Head(list) \in Source /\ Tail(list) \in Seq(Source)
      /\ Len(list) \in Nat \ {0} /\ Len(Tail(list)) = Len(list) - 1 /\ Head(list) = list[1]
      /\ \A i \in 1 .. Len(Tail(list)) : Tail(list)[i] = list[i + 1]
  <2>1. /\ Head(list) \in Source /\ Tail(list) \in Seq(Source)
        /\ Len(Tail(list)) = Len(list) - 1 /\ Head(list) = list[1]
        /\ \A i \in 1 .. Len(Tail(list)) : Tail(list)[i] = list[i + 1]
    BY HeadTailProperties
  <2>2. Len(list) \in Nat \ {0}
    BY EmptySeq, LenProperties
  <2>3. QED
    BY <2>1, <2>2
<1>2. ASSUME NEW i \in 1 .. Len(list) PROVE list[i] \in {Head(list)} \cup Elements(Tail(list))
  <2>1. CASE i = 1
    BY <1>1, <2>1
  <2>2. CASE i # 1
    <3>1. i - 1 \in 1 .. Len(Tail(list)) /\ (i - 1) + 1 = i
      BY <1>1, <2>2
    <3>2. Tail(list)[i - 1] = list[i]
      BY <1>1, <3>1
    <3>3. QED
      BY <3>1, <3>2 DEF Elements
  <2>3. QED
    BY <2>1, <2>2
<1>3. QED
  BY <1>1, <1>2 DEF Elements

LEMMA EmptyElements == Elements(<<>>) = {}
  BY DEF Elements

LEMMA NewRequestOK ==
  ASSUME RequestsAreBounded
  PROVE  /\ NewRequest \in RequestRecord /\ NewRequest.pc = "new" /\ NewRequest.kind = "create"
         /\ NewRequest.put = {} /\ NewRequest.gone = {} /\ NewRequest.dirty = {}
         /\ NewRequest.list = <<>> /\ NewRequest.all = {} /\ NewRequest.locked = FALSE
  BY EmptySeq DEF RequestsAreBounded, NewRequest, RequestRecord, RequestPc, Kind, DatasetRow, Initial

LEMMA FailedOK ==
  ASSUME NEW q \in RequestRecord
  PROVE  /\ Failed(q) \in RequestRecord /\ Failed(q).pc = "failed" /\ Failed(q).kind = q.kind
         /\ Failed(q).put = {} /\ Failed(q).gone = {} /\ Failed(q).dirty = {}
         /\ Failed(q).locked = FALSE
  BY DEF Failed, RequestRecord, RequestPc

LEMMA DatasetInvInit ==
  ASSUME RequestsAreBounded, DatasetInit
  PROVE  DatasetInv
<1>1. PICK q \in RequestRecord : q = NewRequest
  BY NewRequestOK
<1>2. /\ q.pc = "new" /\ q.kind = "create" /\ q.put = {} /\ q.gone = {} /\ q.dirty = {}
      /\ q.locked = FALSE /\ request = [n \in Caller |-> q] /\ files = {} /\ received = 0 /\ dataset = Initial
  BY <1>1, NewRequestOK DEF DatasetInit
<1>3. DatasetTypeOK
  BY <1>2 DEF RequestsAreBounded, DatasetTypeOK, Initial, DatasetRow
<1>4. PutInv
  BY <1>2 DEF PutInv
<1>5. \A n \in Caller : ListInv(n) /\ DirtyInv(n) /\ LockInv(n)
  BY <1>2 DEF ListInv, DirtyInv, LockInv
<1>6. QED
  BY <1>3, <1>4, <1>5 DEF DatasetInv

(* A request that goes on, as the invariant asks of it.                     *)
LEMMA MoveStep ==
  ASSUME DatasetInv, NEW n \in Caller, NEW c \in RequestRecord,
         request' = [request EXCEPT ![n] = c],
         UNCHANGED <<dataset, files>>, received' \in 0 .. MaxRequests,
         c.put \cap files = {},
         \A m \in Caller \ {n} : c.put \cap request[m].put = {},
         c.kind = "add" /\ c.pc \in {"get", "exists", "insert", "commit"} /\ c.kept =>
           c.all \subseteq files \cup c.put \cup Elements(c.list),
         c.kind = "add" => c.pc \in {"new", "get", "exists", "insert", "commit", "failed"},
         c.kind = "add" /\ c.pc = "commit" => c.list = <<>>,
         c.pc = "insert" => c.kind = "add" /\ c.list # <<>>,
         c.pc = "exists" => c.kind = "add",
         c.gone # {} => c.kind \in {"remove", "delete"},
         c.pc # "done",
         c.dirty # {} => c.pc = "commit" /\ c.dirty \subseteq Changed(n)',
         c.locked => /\ c.pc = "commit" /\ \A m \in Caller \ {n} : ~request[m].locked
                     /\ c.kind = "update" => dataset # Absent,
         c.pc = "commit" /\ c.kind \in {"create", "update"} => c.locked,
         c.pc = "write" => c.kind \in {"create", "delete", "remove"}
  PROVE  DatasetInv' /\ \A m \in Caller : ~Commits(m)
<1>1. /\ request'[n] = c /\ \A m \in Caller : m # n => request'[m] = request[m]
      /\ request' \in [Caller -> RequestRecord]
  BY DEF DatasetInv, DatasetTypeOK
<1>2. DatasetTypeOK'
  BY <1>1 DEF DatasetInv, DatasetTypeOK
<1>3. PutInv'
  BY <1>1 DEF DatasetInv, PutInv
<1>4. ASSUME NEW m \in Caller PROVE ListInv(m)' /\ DirtyInv(m)' /\ LockInv(m)'
  <2>1. CASE m = n
    <3>1. ListInv(m)' /\ DirtyInv(m)'
      BY <1>1, <2>1 DEF ListInv, DirtyInv
    <3>2. LockInv(m)'
      BY <1>1, <2>1 DEF LockInv
    <3>3. QED
      BY <3>1, <3>2
  <2>2. CASE m # n
    <3>1. ListInv(m)' /\ DirtyInv(m)'
      BY <1>1, <2>2 DEF DatasetInv, ListInv, DirtyInv, Changed, Value
    <3>2. LockInv(m)'
      BY <1>1, <2>2 DEF DatasetInv, LockInv
    <3>3. QED
      BY <3>1, <3>2
  <2>3. QED
    BY <2>1, <2>2
<1>5. \A m \in Caller : ~Commits(m)
  BY <1>1 DEF Commits
<1>6. QED
  BY <1>2, <1>3, <1>4, <1>5 DEF DatasetInv

(* A request that fails.                                                    *)
LEMMA FailedStep ==
  ASSUME DatasetInv, NEW n \in Caller, request' = [request EXCEPT ![n] = Failed(request[n])],
         UNCHANGED <<dataset, files, received>>
  PROVE  DatasetInv' /\ \A m \in Caller : ~Commits(m)
<1>1. request[n] \in RequestRecord /\ received \in 0 .. MaxRequests
  BY DEF DatasetInv, DatasetTypeOK
<1>2. PICK c \in RequestRecord : c = Failed(request[n])
  BY <1>1, FailedOK
<1>3. c.pc = "failed" /\ c.put = {} /\ c.gone = {} /\ c.dirty = {} /\ c.locked = FALSE
  BY <1>1, <1>2, FailedOK
<1>4. request' = [request EXCEPT ![n] = c]
  BY <1>2
<1>5. QED
  BY <1>1, <1>3, <1>4, MoveStep

-----------------------------------------------------------------------------
(* The steps of a request.                                                  *)
LEMMA ReceiveStep ==
  ASSUME RequestsAreBounded, ListsAreSources, DatasetInv, NEW kind \in Kind, Receive(kind)
  PROVE  DatasetInv' /\ \A m \in Caller : ~Commits(m)
<1>1. PICK n \in Caller : n = received + 1
  BY DEF RequestsAreBounded, Receive, DatasetInv, DatasetTypeOK, Caller
<1>2. PICK p \in {"write", "get"} : p = IF kind = "create" THEN "write" ELSE "get"
  OBVIOUS
<1>3. PICK list \in Lists, given \in SUBSET Field :
        /\ kind = "remove" \/ kind = "add" \/ list = <<>>
        /\ request' = [request EXCEPT ![n] =
             [NewRequest EXCEPT !.pc = p, !.kind = kind, !.list = list, !.given = given,
                                !.all = {list[i] : i \in DOMAIN list}]]
  BY <1>1, <1>2 DEF Receive
<1>4. list \in Seq(Source) /\ {list[i] : i \in DOMAIN list} = Elements(list)
      /\ Elements(list) \subseteq Source
  BY DEF ListsAreSources, Elements
<1>5. PICK q \in RequestRecord : q = NewRequest
  BY NewRequestOK
<1>6. PICK c : c = [q EXCEPT !.pc = p, !.kind = kind, !.list = list, !.given = given,
                             !.all = Elements(list)]
  OBVIOUS
<1>7. /\ c \in RequestRecord /\ c.pc = p /\ c.kind = kind /\ c.list = list /\ c.all = Elements(list)
      /\ c.put = q.put /\ c.gone = q.gone /\ c.dirty = q.dirty /\ c.locked = q.locked
  BY <1>2, <1>4, <1>6 DEF RequestRecord, RequestPc
<1>8. c.put = {} /\ c.gone = {} /\ c.dirty = {} /\ c.locked = FALSE
  BY <1>5, <1>7, NewRequestOK
<1>9. request' = [request EXCEPT ![n] = c]
  BY <1>3, <1>4, <1>5, <1>6
<1>10. UNCHANGED <<dataset, files>> /\ received' \in 0 .. MaxRequests
  BY <1>1 DEF Receive, Caller, RequestsAreBounded, DatasetInv, DatasetTypeOK
<1>11. QED
  BY <1>2, <1>7, <1>8, <1>9, <1>10, MoveStep

LEMMA GetStep ==
  ASSUME DatasetInv, NEW n \in Caller, Get(n)
  PROVE  DatasetInv' /\ \A m \in Caller : ~Commits(m)
<1>1. /\ ListInv(n) /\ DirtyInv(n) /\ LockInv(n) /\ PutInv /\ received \in 0 .. MaxRequests
      /\ dataset \in DatasetRow \cup {Absent} /\ UNCHANGED <<dataset, files, received>>
  BY DEF DatasetInv, DatasetTypeOK, Get
<1>2. PICK q \in RequestRecord : q = request[n] /\ q.pc = "get"
  BY DEF DatasetInv, DatasetTypeOK, Get
<1>3. CASE dataset = Absent \/ (q.kind = "add" /\ q.list = <<>>)
  BY <1>1, <1>2, <1>3, FailedStep DEF Get
<1>4. CASE ~(dataset = Absent \/ (q.kind = "add" /\ q.list = <<>>))
  <2>1. PICK p \in {"exists", "reread", "write"} :
          p = CASE q.kind = "add"    -> "exists"
                [] q.kind = "update" -> "reread"
                [] OTHER             -> "write"
    OBVIOUS
  <2>2. /\ p = "exists" <=> q.kind = "add"
        /\ p = "write" => q.kind \in {"create", "delete", "remove"}
    BY <2>1 DEF RequestRecord, Kind
  <2>3. PICK c : c = [q EXCEPT !.first = dataset, !.pc = p]
    OBVIOUS
  <2>4. request' = [request EXCEPT ![n] = c]
    BY <1>2, <1>4, <2>1, <2>3 DEF Get
  <2>5. dataset \in DatasetRow
    BY <1>1, <1>4
  <2>6. /\ c \in RequestRecord /\ c.pc = p /\ c.kind = q.kind /\ c.list = q.list /\ c.all = q.all
        /\ c.put = q.put /\ c.gone = q.gone /\ c.dirty = q.dirty /\ c.kept = q.kept
        /\ c.locked = q.locked
    BY <2>1, <2>3, <2>5 DEF RequestRecord, RequestPc
  <2>7. q.dirty = {} /\ ~q.locked
    BY <1>1, <1>2 DEF DirtyInv, LockInv
  <2>8. /\ q.kind = "add" /\ q.kept => q.all \subseteq files \cup q.put \cup Elements(q.list)
        /\ q.gone # {} => q.kind \in {"remove", "delete"}
    BY <1>1, <1>2 DEF ListInv
  <2>9. q.put \cap files = {} /\ \A m \in Caller \ {n} : q.put \cap request[m].put = {}
    BY <1>1, <1>2 DEF PutInv
  <2>10. QED
    BY <1>1, <2>2, <2>4, <2>6, <2>7, <2>8, <2>9, MoveStep
<1>5. QED
  BY <1>3, <1>4

LEMMA ExistsStep ==
  ASSUME DatasetInv, NEW n \in Caller, Exists(n)
  PROVE  DatasetInv' /\ \A m \in Caller : ~Commits(m)
<1>1. /\ ListInv(n) /\ DirtyInv(n) /\ LockInv(n) /\ PutInv /\ received \in 0 .. MaxRequests
      /\ UNCHANGED <<dataset, files, received>>
  BY DEF DatasetInv, DatasetTypeOK, Exists
<1>2. PICK q \in RequestRecord : q = request[n] /\ q.pc = "exists"
  BY DEF DatasetInv, DatasetTypeOK, Exists
<1>3. /\ q.kind = "add" /\ q.dirty = {} /\ q.gone = {} /\ ~q.locked /\ q.list \in Seq(Source)
      /\ q.kept => q.all \subseteq files \cup q.put \cup Elements(q.list)
      /\ q.put \cap files = {} /\ \A m \in Caller \ {n} : q.put \cap request[m].put = {}
  BY <1>1, <1>2 DEF ListInv, DirtyInv, LockInv, PutInv, RequestRecord
<1>4. CASE q.list = <<>>
  <2>1. PICK c : c = [q EXCEPT !.pc = "commit"]
    OBVIOUS
  <2>2. request' = [request EXCEPT ![n] = c]
    BY <1>2, <1>4, <2>1 DEF Exists
  <2>3. /\ c \in RequestRecord /\ c.pc = "commit" /\ c.kind = q.kind /\ c.list = q.list /\ c.all = q.all
        /\ c.put = q.put /\ c.gone = q.gone /\ c.dirty = q.dirty /\ c.kept = q.kept
        /\ c.locked = q.locked
    BY <2>1 DEF RequestRecord, RequestPc
  <2>4. QED
    BY <1>1, <1>3, <1>4, <2>2, <2>3, MoveStep
<1>5. CASE q.list # <<>> /\ Head(q.list) \in files \cup q.put
  <2>1. Tail(q.list) \in Seq(Source) /\ Elements(q.list) \subseteq {Head(q.list)} \cup Elements(Tail(q.list))
    BY <1>3, <1>5, TailElements
  <2>2. PICK c : c = [q EXCEPT !.list = Tail(q.list)]
    OBVIOUS
  <2>3. request' = [request EXCEPT ![n] = c]
    <3>1. request' = [request EXCEPT ![n] = [request[n] EXCEPT !.list = Tail(@)]]
      BY <1>2, <1>5 DEF Exists
    <3>2. QED
      BY <1>2, <2>2, <3>1
  <2>4. /\ c \in RequestRecord /\ c.pc = "exists" /\ c.kind = q.kind /\ c.list = Tail(q.list) /\ c.all = q.all
        /\ c.put = q.put /\ c.gone = q.gone /\ c.dirty = q.dirty /\ c.kept = q.kept
        /\ c.locked = q.locked
    BY <1>2, <2>1, <2>2 DEF RequestRecord
  <2>5. c.kept => c.all \subseteq files \cup c.put \cup Elements(c.list)
    BY <1>3, <1>5, <2>1, <2>4
  <2>6. QED
    BY <1>1, <1>3, <2>3, <2>4, <2>5, MoveStep
<1>6. CASE q.list # <<>> /\ Head(q.list) \notin files \cup q.put
  <2>1. PICK c : c = [q EXCEPT !.pc = "insert"]
    OBVIOUS
  <2>2. request' = [request EXCEPT ![n] = c]
    BY <1>2, <1>6, <2>1 DEF Exists
  <2>3. /\ c \in RequestRecord /\ c.pc = "insert" /\ c.kind = q.kind /\ c.list = q.list /\ c.all = q.all
        /\ c.put = q.put /\ c.gone = q.gone /\ c.dirty = q.dirty /\ c.kept = q.kept
        /\ c.locked = q.locked
    BY <2>1 DEF RequestRecord, RequestPc
  <2>4. QED
    BY <1>1, <1>3, <1>6, <2>2, <2>3, MoveStep
<1>7. QED
  BY <1>4, <1>5, <1>6

LEMMA InsertStep ==
  ASSUME DatasetInv, NEW n \in Caller, Insert(n)
  PROVE  DatasetInv' /\ \A m \in Caller : ~Commits(m)
<1>1. /\ ListInv(n) /\ DirtyInv(n) /\ LockInv(n) /\ PutInv /\ received \in 0 .. MaxRequests
      /\ UNCHANGED <<dataset, files, received>>
  BY DEF DatasetInv, DatasetTypeOK, Insert
<1>2. PICK q \in RequestRecord : q = request[n] /\ q.pc = "insert"
  BY DEF DatasetInv, DatasetTypeOK, Insert
<1>3. /\ q.kind = "add" /\ q.dirty = {} /\ q.gone = {} /\ ~q.locked /\ q.list \in Seq(Source) /\ q.list # <<>>
      /\ q.kept => q.all \subseteq files \cup q.put \cup Elements(q.list)
      /\ q.put \cap files = {} /\ \A m \in Caller \ {n} : q.put \cap request[m].put = {}
  BY <1>1, <1>2 DEF ListInv, DirtyInv, LockInv, PutInv, RequestRecord
<1>4. CASE Refused(n)
  BY <1>1, <1>4, FailedStep DEF Insert
<1>5. CASE ~Refused(n)
  <2>1. PICK s \in Source : s = Head(q.list)
    BY <1>3, TailElements
  <2>2. /\ Tail(q.list) \in Seq(Source)
        /\ Elements(q.list) \subseteq {s} \cup Elements(Tail(q.list))
    BY <1>3, <2>1, TailElements
  <2>3. PICK c : c = [q EXCEPT !.put = q.put \cup {s}, !.list = Tail(q.list), !.pc = "exists"]
    OBVIOUS
  <2>4. request' = [request EXCEPT ![n] = c]
    <3>1. request' = [request EXCEPT ![n] =
            [request[n] EXCEPT !.put = @ \cup {Head(request[n].list)}, !.list = Tail(@), !.pc = "exists"]]
      BY <1>5 DEF Insert
    <3>2. QED
      BY <1>2, <2>1, <2>3, <3>1
  <2>5. q.put \cup {s} \subseteq Source
    BY DEF RequestRecord
  <2>6. /\ c \in RequestRecord /\ c.pc = "exists" /\ c.kind = q.kind /\ c.list = Tail(q.list) /\ c.all = q.all
        /\ c.put = q.put \cup {s} /\ c.gone = q.gone /\ c.dirty = q.dirty /\ c.kept = q.kept
        /\ c.locked = q.locked
    BY <2>2, <2>3, <2>5 DEF RequestRecord, RequestPc
  <2>7. s \notin files
    BY <1>2, <1>5, <2>1 DEF Refused
  (* Who has put it, or removed it, would have to be waited for. *)
  <2>8. \A m \in Caller \ {n} : s \notin request[m].put
    <3>1. Blockers(n) = {} /\ request[n].pc = "insert"
      BY DEF Insert
    <3>2. Blockers(n) = (Caller \ {n}) \cap
            ({m \in Caller : s \in request[m].put \cup request[m].gone} \cup
             {m \in Locking : request[m].kind # "update"})
      BY <1>2, <2>1, <3>1 DEF Blockers
    <3>3. QED
      BY <3>1, <3>2
  <2>9. c.kept => c.all \subseteq files \cup c.put \cup Elements(c.list)
    BY <1>3, <2>2, <2>6
  <2>10. c.put \cap files = {} /\ \A m \in Caller \ {n} : c.put \cap request[m].put = {}
    BY <1>3, <2>6, <2>7, <2>8
  <2>11. QED
    BY <1>1, <1>3, <2>4, <2>6, <2>9, <2>10, MoveStep
<1>6. QED
  BY <1>4, <1>5

LEMMA RereadStep ==
  ASSUME DatasetInv, NEW n \in Caller, Reread(n)
  PROVE  DatasetInv' /\ \A m \in Caller : ~Commits(m)
<1>1. /\ ListInv(n) /\ DirtyInv(n) /\ LockInv(n) /\ PutInv /\ received \in 0 .. MaxRequests
      /\ dataset \in DatasetRow \cup {Absent} /\ UNCHANGED <<dataset, files, received>>
  BY DEF DatasetInv, DatasetTypeOK, Reread
<1>2. PICK q \in RequestRecord : q = request[n] /\ q.pc = "reread"
  BY DEF DatasetInv, DatasetTypeOK, Reread
<1>3. CASE dataset = Absent
  BY <1>1, <1>3, FailedStep DEF Reread
<1>4. CASE dataset # Absent
  <2>1. PICK c : c = [q EXCEPT !.second = dataset, !.pc = "flush"]
    OBVIOUS
  <2>2. request' = [request EXCEPT ![n] = c]
    BY <1>2, <1>4, <2>1 DEF Reread
  <2>3. dataset \in DatasetRow
    BY <1>1, <1>4
  <2>4. /\ c \in RequestRecord /\ c.pc = "flush" /\ c.kind = q.kind
        /\ c.put = q.put /\ c.gone = q.gone /\ c.dirty = q.dirty /\ c.locked = q.locked
    BY <2>1, <2>3 DEF RequestRecord, RequestPc
  <2>5. /\ q.kind # "add" /\ q.dirty = {} /\ ~q.locked
        /\ q.gone # {} => q.kind \in {"remove", "delete"}
    BY <1>1, <1>2 DEF ListInv, DirtyInv, LockInv
  <2>6. q.put \cap files = {} /\ \A m \in Caller \ {n} : q.put \cap request[m].put = {}
    BY <1>1, <1>2 DEF PutInv
  <2>7. QED
    BY <1>1, <2>2, <2>4, <2>5, <2>6, MoveStep
<1>5. QED
  BY <1>3, <1>4

LEMMA FlushStep ==
  ASSUME DatasetInv, NEW n \in Caller, Flush(n)
  PROVE  DatasetInv' /\ \A m \in Caller : ~Commits(m)
<1>1. /\ ListInv(n) /\ DirtyInv(n) /\ LockInv(n) /\ PutInv /\ received \in 0 .. MaxRequests
      /\ UNCHANGED <<dataset, files, received>> /\ request \in [Caller -> RequestRecord]
  BY DEF DatasetInv, DatasetTypeOK, Flush
<1>2. PICK q \in RequestRecord : q = request[n] /\ q.pc = "flush"
  BY DEF DatasetInv, DatasetTypeOK, Flush
<1>3. CASE dataset = Absent
  BY <1>1, <1>3, FailedStep DEF Flush
<1>4. CASE dataset # Absent
  <2>1. PICK d \in SUBSET Field : d = Changed(n)
    BY DEF Changed
  <2>2. PICK c : c = [q EXCEPT !.dirty = d, !.locked = TRUE, !.pc = "commit"]
    OBVIOUS
  <2>3. request' = [request EXCEPT ![n] = c]
    BY <1>2, <1>4, <2>1, <2>2 DEF Flush
  <2>4. /\ c \in RequestRecord /\ c.pc = "commit" /\ c.kind = q.kind /\ c.dirty = d /\ c.locked
        /\ c.put = q.put /\ c.gone = q.gone /\ c.given = q.given /\ c.first = q.first
        /\ c.second = q.second
    BY <2>2 DEF RequestRecord, RequestPc
  <2>5. d \subseteq Changed(n)'
    <3>1. request'[n] = c
      BY <1>1, <2>3
    <3>2. QED
      BY <1>2, <2>1, <2>4, <3>1 DEF Changed, Value
  <2>6. q.kind # "add" /\ (q.gone # {} => q.kind \in {"remove", "delete"})
    BY <1>1, <1>2 DEF ListInv
  <2>7. q.put \cap files = {} /\ \A m \in Caller \ {n} : q.put \cap request[m].put = {}
    BY <1>1, <1>2 DEF PutInv
  <2>8. \A m \in Caller \ {n} : ~request[m].locked
    BY <1>2 DEF Flush, Blockers, Locking
  <2>9. QED
    BY <1>1, <1>4, <2>3, <2>4, <2>5, <2>6, <2>7, <2>8, MoveStep
<1>5. QED
  BY <1>3, <1>4

LEMMA WriteStep ==
  ASSUME DatasetInv, NEW n \in Caller, Write(n)
  PROVE  DatasetInv' /\ \A m \in Caller : ~Commits(m)
<1>1. /\ ListInv(n) /\ DirtyInv(n) /\ LockInv(n) /\ PutInv /\ received \in 0 .. MaxRequests
      /\ UNCHANGED <<dataset, files, received>> /\ files \subseteq Source
  BY DEF DatasetInv, DatasetTypeOK, Write
<1>2. PICK q \in RequestRecord : q = request[n] /\ q.pc = "write"
  BY DEF DatasetInv, DatasetTypeOK, Write
<1>3. PICK ok \in BOOLEAN : ok = CASE q.kind = "create" -> dataset = Absent
                                   [] q.kind = "remove" -> q.all \subseteq files
                                   [] OTHER             -> dataset # Absent
  OBVIOUS
<1>4. CASE ~ok /\ q.kind # "delete"
  BY <1>1, <1>2, <1>3, <1>4, FailedStep DEF Write
<1>5. CASE ~(~ok /\ q.kind # "delete")
  <2>1. PICK g \in SUBSET Source : g = CASE q.kind = "remove" -> q.all
                                         [] q.kind = "delete" -> files
                                         [] OTHER             -> {}
    BY <1>1 DEF RequestRecord
  <2>2. g # {} => q.kind \in {"remove", "delete"}
    BY <2>1
  <2>3. PICK b \in BOOLEAN : b = (ok /\ q.kind # "remove")
    OBVIOUS
  <2>4. PICK c : c = [q EXCEPT !.pc = "commit", !.locked = b, !.gone = g]
    OBVIOUS
  <2>5. request' = [request EXCEPT ![n] = c]
    BY <1>2, <1>3, <1>5, <2>1, <2>3, <2>4 DEF Write
  <2>6. /\ c \in RequestRecord /\ c.pc = "commit" /\ c.kind = q.kind
        /\ c.put = q.put /\ c.gone = g /\ c.dirty = q.dirty /\ c.locked = b
    BY <2>4 DEF RequestRecord, RequestPc
  <2>7. q.kind # "add" /\ q.dirty = {}
    BY <1>1, <1>2 DEF ListInv, DirtyInv
  <2>8. q.put \cap files = {} /\ \A m \in Caller \ {n} : q.put \cap request[m].put = {}
    BY <1>1, <1>2 DEF PutInv
  <2>9. q.kind # "update" /\ (q.kind = "create" => b) /\ (b => \A m \in Caller \ {n} : ~request[m].locked)
    <3>1. q.kind \in {"create", "delete", "remove"}
      BY <1>1, <1>2 DEF LockInv
    <3>2. b => q.kind \in {"create", "delete"}
      BY <2>3, <3>1
    <3>3. Blockers(n) = {}
      BY DEF Write
    <3>4. QED
      BY <1>2, <1>5, <2>3, <3>1, <3>2, <3>3 DEF Blockers, Locking
  <2>10. QED
    BY <1>1, <2>2, <2>5, <2>6, <2>7, <2>8, <2>9, MoveStep
<1>6. QED
  BY <1>4, <1>5

LEMMA CommitStep ==
  ASSUME RequestsAreBounded, DatasetInv, NEW n \in Caller, Commit(n)
  PROVE  /\ DatasetInv'
         /\ \A m \in Caller : Commits(m) => m = n
<1>1. /\ ListInv(n) /\ DirtyInv(n) /\ LockInv(n) /\ PutInv /\ received \in 0 .. MaxRequests
      /\ dataset \in DatasetRow \cup {Absent} /\ files \subseteq Source /\ received' = received
      /\ request \in [Caller -> RequestRecord]
  BY DEF DatasetInv, DatasetTypeOK, Commit
<1>2. PICK q \in RequestRecord : q = request[n] /\ q.pc = "commit"
  BY DEF DatasetInv, DatasetTypeOK, Commit
<1>3. PICK c : c = [q EXCEPT !.pc = "done", !.put = {}, !.gone = {}, !.dirty = {}, !.locked = FALSE]
  OBVIOUS
<1>4. /\ c \in RequestRecord /\ c.pc = "done" /\ c.kind = q.kind
      /\ c.put = {} /\ c.gone = {} /\ c.dirty = {} /\ c.locked = FALSE
  BY <1>3 DEF RequestRecord, RequestPc
<1>5. request' = [m \in Caller |->
        IF m = n THEN c
        ELSE IF q.kind \in {"remove", "delete"} THEN [request[m] EXCEPT !.kept = FALSE] ELSE request[m]]
  BY <1>2, <1>3 DEF Commit
<1>6. \A r \in RequestRecord : LET s == [r EXCEPT !.kept = FALSE] IN
        /\ s \in RequestRecord /\ s.kept = FALSE /\ s.pc = r.pc /\ s.kind = r.kind /\ s.list = r.list
        /\ s.all = r.all /\ s.given = r.given /\ s.first = r.first /\ s.second = r.second
        /\ s.put = r.put /\ s.gone = r.gone /\ s.dirty = r.dirty /\ s.locked = r.locked
  BY DEF RequestRecord
<1>7. \A m \in Caller \ {n} : LET r == request[m] s == request'[m] IN
        /\ s \in RequestRecord /\ s.pc = r.pc /\ s.kind = r.kind /\ s.list = r.list
        /\ s.all = r.all /\ s.given = r.given /\ s.first = r.first /\ s.second = r.second
        /\ s.put = r.put /\ s.gone = r.gone /\ s.dirty = r.dirty /\ s.locked = r.locked
        /\ s.kept => r.kept /\ q.kind \notin {"remove", "delete"}
  <2>1. SUFFICES ASSUME NEW m \in Caller \ {n}
                 PROVE  LET r == request[m] s == request'[m] IN
                   /\ s \in RequestRecord /\ s.pc = r.pc /\ s.kind = r.kind /\ s.list = r.list
                   /\ s.all = r.all /\ s.given = r.given /\ s.first = r.first /\ s.second = r.second
                   /\ s.put = r.put /\ s.gone = r.gone /\ s.dirty = r.dirty /\ s.locked = r.locked
                   /\ s.kept => r.kept /\ q.kind \notin {"remove", "delete"}
    OBVIOUS
  <2>2. request[m] \in RequestRecord
    BY <1>1
  <2>3. CASE q.kind \in {"remove", "delete"}
    <3>1. request'[m] = [request[m] EXCEPT !.kept = FALSE]
      BY <1>5, <2>3
    <3>2. QED
      BY <1>6, <2>2, <3>1
  <2>4. CASE q.kind \notin {"remove", "delete"}
    BY <1>5, <2>2, <2>4
  <2>5. QED
    BY <2>3, <2>4
<1>8. request'[n] = c /\ files' = (files \cup q.put) \ q.gone
  BY <1>2, <1>5 DEF Commit
<1>9. dataset' \in DatasetRow \cup {Absent}
  <2>1. n \in 0 .. MaxRequests
    BY DEF Caller, RequestsAreBounded
  <2>2. \A f \in Field : Value(n, f) \in 0 .. MaxRequests
    BY <1>2, <2>1 DEF Value, RequestRecord, DatasetRow
  <2>3. q.kind = "update" => dataset \in DatasetRow
    BY <1>1, <1>2 DEF LockInv
  <2>4. dataset' = CASE q.kind = "delete" /\ q.locked -> Absent
                     [] q.kind = "create" -> [f \in Field |-> n]
                     [] q.kind = "update" -> [f \in Field |-> IF f \in q.dirty THEN Value(n, f) ELSE dataset[f]]
                     [] OTHER -> dataset
    BY <1>2 DEF Commit
  <2>5. CASE q.kind = "update"
    <3>1. dataset' = [f \in Field |-> IF f \in q.dirty THEN Value(n, f) ELSE dataset[f]]
      BY <2>4, <2>5
    <3>2. QED
      BY <2>2, <2>3, <2>5, <3>1 DEF DatasetRow
  <2>6. CASE q.kind # "update"
    BY <1>1, <2>1, <2>4, <2>6 DEF DatasetRow
  <2>7. QED
    BY <2>5, <2>6
<1>10. DatasetTypeOK'
  <2>1. \A m \in Caller : request'[m] \in RequestRecord
    BY <1>4, <1>7, <1>8
  <2>2. request' \in [Caller -> RequestRecord]
    BY <1>5, <2>1
  <2>3. files' \subseteq Source
    BY <1>1, <1>8 DEF RequestRecord
  <2>4. QED
    BY <1>1, <1>9, <2>2, <2>3 DEF DatasetTypeOK
<1>11. PutInv'
  <2>1. \A m \in Caller \ {n} : request[m].put \cap (files \cup q.put) = {}
    BY <1>1, <1>2 DEF PutInv
  <2>2. \A m \in Caller : request'[m].put \cap files' = {}
    BY <1>4, <1>7, <1>8, <2>1
  <2>3. \A m \in Caller : \A k \in Caller \ {m} : request'[m].put \cap request'[k].put = {}
    BY <1>1, <1>4, <1>7, <1>8 DEF PutInv
  <2>4. QED
    BY <2>2, <2>3 DEF PutInv
<1>12. ASSUME NEW m \in Caller PROVE ListInv(m)' /\ DirtyInv(m)' /\ LockInv(m)'
  <2>1. CASE m = n
    BY <1>4, <1>8, <2>1 DEF ListInv, DirtyInv, LockInv
  <2>2. CASE m # n
    <3>1. ListInv(m) /\ DirtyInv(m) /\ LockInv(m)
      BY DEF DatasetInv
    <3>2. request'[m].kept => request[m].kept /\ files \subseteq files'
      BY <1>1, <1>2, <1>7, <1>8, <2>2 DEF ListInv
    <3>3. ListInv(m)'
      BY <1>7, <2>2, <3>1, <3>2 DEF ListInv
    <3>4. DirtyInv(m)'
      BY <1>7, <2>2, <3>1 DEF DirtyInv, Changed, Value
    <3>5. LockInv(m)'
      <4>1. request[m].locked => (dataset # Absent => dataset' # Absent)
        <5>1. SUFFICES ASSUME request[m].locked, dataset # Absent PROVE dataset' # Absent
          OBVIOUS
        <5>2. ~q.locked
          BY <1>2, <2>2, <3>1, <5>1 DEF LockInv
        <5>3. q.kind \notin {"create", "update"}
          BY <1>1, <1>2, <5>2 DEF LockInv
        <5>4. QED
          BY <1>2, <5>1, <5>2, <5>3 DEF Commit
      <4>2. \A k \in Caller \ {m} : request'[k].locked => request[k].locked
        BY <1>4, <1>7, <1>8
      <4>3. QED
        BY <1>7, <2>2, <3>1, <4>1, <4>2 DEF LockInv
    <3>6. QED
      BY <3>3, <3>4, <3>5
  <2>3. QED
    BY <2>1, <2>2
<1>13. \A m \in Caller : Commits(m) => m = n
  BY <1>7 DEF Commits
<1>14. QED
  BY <1>10, <1>11, <1>12, <1>13 DEF DatasetInv

LEMMA DatasetStep ==
  ASSUME RequestsAreBounded, ListsAreSources, DatasetInv, [DatasetNext]_datasetVars
  PROVE  /\ DatasetInv'
         /\ \A m \in Caller : Commits(m) => Commit(m)
<1>1. ASSUME NEW kind \in Kind, Receive(kind) PROVE DatasetInv' /\ \A m \in Caller : ~Commits(m)
  BY <1>1, ReceiveStep
<1>2. ASSUME NEW n \in Caller, Get(n) \/ Exists(n) \/ Insert(n) \/ Reread(n) \/ Flush(n) \/ Write(n)
      PROVE  DatasetInv' /\ \A m \in Caller : ~Commits(m)
  BY <1>2, GetStep, ExistsStep, InsertStep, RereadStep, FlushStep, WriteStep
<1>3. ASSUME NEW n \in Caller, Commit(n) PROVE DatasetInv' /\ \A m \in Caller : Commits(m) => Commit(m)
  BY <1>3, CommitStep
<1>4. ASSUME NEW n \in Caller, RollBack(n) PROVE DatasetInv' /\ \A m \in Caller : ~Commits(m)
  BY <1>4, FailedStep DEF RollBack
<1>5. ASSUME UNCHANGED datasetVars PROVE DatasetInv' /\ \A m \in Caller : ~Commits(m)
  <2>1. DatasetInv'
    BY <1>5 DEF datasetVars, DatasetInv, DatasetTypeOK, PutInv, ListInv, DirtyInv, LockInv, Changed, Value
  <2>2. QED
    BY <1>5, <2>1 DEF datasetVars, Commits
<1>6. QED
  BY <1>1, <1>2, <1>3, <1>4, <1>5 DEF DatasetNext

(* The datasets of DatasetFiles are as declared, no two transactions put    *)
(* the same source and one at most has changed the row.                     *)
THEOREM DatasetInvariant ==
  ASSUME RequestsAreBounded, ListsAreSources
  PROVE  DatasetSpec => []DatasetInv
<1>1. DatasetInit => DatasetInv
  BY DatasetInvInit
<1>2. DatasetInv /\ [DatasetNext]_datasetVars => DatasetInv'
  BY DatasetStep
<1>3. QED
  BY <1>1, <1>2, PTL DEF DatasetSpec

(* A request to add sources that commits leaves all of its list in the      *)
(* dataset, however the lists of others overlap with it.                    *)
THEOREM AddsAreAlwaysComplete ==
  ASSUME RequestsAreBounded, ListsAreSources
  PROVE  DatasetSpec => AddsAreComplete
<1>1. DatasetInv /\ [DatasetNext]_datasetVars =>
        [\A n \in Caller : Commits(n) /\ request[n].kind = "add" =>
           /\ request[n].kept => request[n].all \subseteq files'
           /\ request[n].put \cap files = {}]_datasetVars
  <2>1. SUFFICES ASSUME DatasetInv, [DatasetNext]_datasetVars, NEW n \in Caller,
                        Commits(n), request[n].kind = "add"
                 PROVE  /\ request[n].kept => request[n].all \subseteq files'
                        /\ request[n].put \cap files = {}
    OBVIOUS
  <2>2. Commit(n)
    BY <2>1, DatasetStep
  <2>3. ListInv(n) /\ PutInv /\ request[n].pc = "commit"
    BY <2>1, <2>2 DEF DatasetInv, Commit
  <2>4. /\ request[n].gone = {} /\ request[n].list = <<>>
        /\ request[n].kept => request[n].all \subseteq files \cup request[n].put
    BY <2>1, <2>3, EmptyElements DEF ListInv
  <2>5. files' = files \cup request[n].put
    BY <2>2, <2>4 DEF Commit
  <2>6. QED
    BY <2>3, <2>4, <2>5 DEF PutInv
<1>2. QED
  BY <1>1, DatasetInvariant, PTL DEF DatasetSpec, AddsAreComplete

(* An update changes a field it was not given only if an update committed   *)
(* between its own two readings.                                            *)
THEOREM UpdatesAlwaysKeepOtherFields ==
  ASSUME RequestsAreBounded, ListsAreSources
  PROVE  DatasetSpec => UpdatesKeepOtherFields
<1>1. DatasetInv /\ [DatasetNext]_datasetVars =>
        [\A n \in Caller : Commits(n) /\ request[n].kind = "update" =>
           \A f \in Field \ request[n].given :
             dataset'[f] # dataset[f] => request[n].first[f] # request[n].second[f]]_datasetVars
  <2>1. SUFFICES ASSUME DatasetInv, [DatasetNext]_datasetVars, NEW n \in Caller,
                        Commits(n), request[n].kind = "update",
                        NEW f \in Field \ request[n].given, dataset'[f] # dataset[f]
                 PROVE  request[n].first[f] # request[n].second[f]
    OBVIOUS
  <2>2. Commit(n) /\ DirtyInv(n)
    BY <2>1, DatasetStep DEF DatasetInv
  <2>3. dataset' = [g \in Field |-> IF g \in request[n].dirty THEN Value(n, g) ELSE dataset[g]]
    BY <2>1, <2>2 DEF Commit
  <2>4. f \in request[n].dirty
    BY <2>1, <2>3
  <2>5. Value(n, f) # request[n].second[f] /\ Value(n, f) = request[n].first[f]
    BY <2>1, <2>2, <2>4 DEF DirtyInv, Changed, Value
  <2>6. QED
    BY <2>5
<1>2. QED
  BY <1>1, DatasetInvariant, PTL DEF DatasetSpec, UpdatesKeepOtherFields

-----------------------------------------------------------------------------
(* Uploaded files and their rows                                            *)

StorageIsBounded == MaxOps \in Nat /\ MaxFailures \in Nat

-----------------------------------------------------------------------------
(* Types. *)

LEMMA InitStorage ==
  ASSUME StorageIsBounded, Id # {}, StorageInit
  PROVE  StorageInv
<1>1. (CHOOSE i \in Id : TRUE) \in Id
  OBVIOUS
<1>2. \A n \in Op : op[n].pc = "new" /\ n > ops
  BY DEF StorageInit, Op
<1>3. StorageTypeOK
  BY <1>1 DEF StorageIsBounded, StorageInit, StorageTypeOK, OpRecord, OpPc, OpTask
<1>4. OpInv
  BY <1>2 DEF OpInv
<1>5. UploadInv /\ CleanInv
  BY <1>2 DEF StorageInit, UploadInv, OneUpload, PendingInv, FileInv, CleanInv, Removing
<1>6. QED
  BY <1>3, <1>4, <1>5 DEF StorageInv

(* A request goes on to another step. *)
LEMMA GoesFacts ==
  ASSUME StorageTypeOK, NEW n \in Op, NEW p \in OpPc, Goes(n, p)
  PROVE  /\ op' \in [Op -> OpRecord]
         /\ \A m \in Op : op'[m].task = op[m].task /\ op'[m].id = op[m].id
         /\ op'[n].pc = p
         /\ \A m \in Op : m # n => op'[m] = op[m]
         /\ op[n].id \in Id
BY DEF StorageTypeOK, Goes, OpRecord

LEMMA DoneFacts ==
  ASSUME NEW n, Done(n)
  PROVE  Goes(n, "done")
BY DEF Done, Goes

(* The steps that change neither rows nor files, of a request that was not  *)
(* about to.                                                                *)
LEMMA QuietStep ==
  ASSUME StorageIsBounded, StorageInv, NEW n \in Op, NEW p \in {"delete", "write", "done"}, Goes(n, p),
         UNCHANGED <<row, disk, artifacts, ops, crossed>>,
         failures' \in Nat, failures' = 0 => failures = 0,
         op[n].pc \notin {"new", "done"},
         op[n].pc \in {"insert", "file", "artifacts"} => failures' # 0,
         p # "done" => op[n].task # "upload",
         p = "write" => row[op[n].id] # 0
  PROVE  StorageInv'
<1>1. p \in OpPc /\ p # "new" /\ StorageTypeOK
  BY DEF OpPc, StorageInv
<1>2. /\ op' \in [Op -> OpRecord]
      /\ \A m \in Op : op'[m].task = op[m].task /\ op'[m].id = op[m].id
      /\ op'[n].pc = p
      /\ \A m \in Op : m # n => op'[m] = op[m]
  BY <1>1, GoesFacts
<1>3. StorageTypeOK'
  BY <1>1, <1>2 DEF StorageTypeOK
<1>4. OpInv'
  BY <1>1, <1>2 DEF StorageInv, OpInv
<1>5. \A i \in Id : Removing(i)' \subseteq Removing(i)
  BY <1>1, <1>2 DEF Removing
<1>6. \A i \in Id : i \in Used => i \in Used'
  BY <1>1, <1>2 DEF Used
<1>7. ASSUME Fresh PROVE UploadInv'
  <2>1. \A m \in Op, i \in Id : Uploads(m, i)' <=> Uploads(m, i)
    BY <1>2 DEF Uploads
  <2>2. \A m \in Op : op'[m].pc # "new" => op[m].pc # "new"
    BY <1>2
  <2>3. \A m \in Op : op'[m].pc \in {"save", "insert"} => m # n /\ op'[m] = op[m]
    BY <1>2
  <2>4. UploadInv
    BY <1>7 DEF StorageInv
  <2>5. \A i \in Id : row[i] # 0 => row[i] \in Op
    BY <1>1 DEF StorageTypeOK, Op, StorageIsBounded
  <2>6. \A m \in Op : op[m].id \in Id
    BY <1>1 DEF StorageTypeOK, OpRecord
  <2>7. OneUpload'
    BY <1>2, <2>1, <2>2, <2>4, <2>6 DEF UploadInv, OneUpload
  <2>8. ASSUME NEW m \in Op PROVE PendingInv(m)'
    BY <1>2, <1>5, <2>3, <2>4, <2>6 DEF UploadInv, PendingInv
  <2>9. ASSUME NEW i \in Id PROVE FileInv(i)'
    <3>1. row[i] # 0 => op'[row[i]].pc = "done"
      BY <1>2, <2>4, <2>5 DEF UploadInv, FileInv
    <3>2. FileInv(i)
      BY <2>4 DEF UploadInv
    <3>3. QED
      BY <1>5, <1>6, <2>1, <2>5, <3>1, <3>2 DEF FileInv
  <2>10. QED
    BY <2>7, <2>8, <2>9 DEF UploadInv
<1>8. ASSUME Fresh, failures' = 0 PROVE CleanInv'
  <2>1. CleanInv /\ op[n].pc \notin {"insert", "file", "artifacts"}
    BY <1>8 DEF StorageInv
  <2>2. \A m \in Op : op[m].pc \in {"insert", "file", "artifacts"} => op'[m] = op[m]
    BY <1>2, <2>1
  <2>3. \A i \in Id : Removing(i) \subseteq Removing(i)'
    BY <2>2 DEF Removing
  <2>4. QED
    BY <2>1, <2>2, <2>3 DEF CleanInv
<1>9. QED
  BY <1>3, <1>4, <1>7, <1>8 DEF StorageInv

-----------------------------------------------------------------------------
(* One step per action. *)

LEMMA ReceiveOpStep ==
  ASSUME StorageIsBounded, StorageInv, NEW task \in OpTask, NEW i \in Id, ReceiveOp(task, i)
  PROVE  StorageInv'
<1> DEFINE n == ops + 1
<1>0. PICK r \in OpRecord : /\ r = [pc |-> IF task = "upload" THEN "save" ELSE "read",
                                   task |-> task, id |-> i]
                           /\ op' = [op EXCEPT ![n] = r]
  <2>1. (IF task = "upload" THEN "save" ELSE "read") \in OpPc
    BY DEF OpPc
  <2>2. [pc |-> IF task = "upload" THEN "save" ELSE "read", task |-> task, id |-> i] \in OpRecord
    BY <2>1 DEF OpRecord
  <2>3. QED
    BY <2>2 DEF ReceiveOp
<1>1. /\ n \in Op /\ ops' = n /\ ops \in Nat /\ StorageTypeOK /\ OpInv
      /\ UNCHANGED <<row, disk, artifacts, failures, crossed>>
  BY DEF ReceiveOp, StorageInv, StorageTypeOK, StorageIsBounded, Op
<1> HIDE DEF n
<1>2. op'[n] = r /\ op[n].pc = "new" /\ \A m \in Op : m # n => op'[m] = op[m]
  BY <1>0, <1>1 DEF StorageTypeOK, OpInv, n
<1>3. StorageTypeOK'
  BY <1>0, <1>1 DEF StorageTypeOK, Op, StorageIsBounded
<1>4. OpInv'
  <2>1. ASSUME NEW m \in Op
        PROVE  /\ m > ops' <=> op'[m].pc = "new"
               /\ op'[m].pc \in {"save", "insert"} => op'[m].task = "upload"
               /\ op'[m].pc \in {"read", "delete", "file", "artifacts", "write"} =>
                    op'[m].task # "upload"
               /\ op'[m].pc = "write" => row'[op'[m].id] # 0 \/ op'[m].id \in crossed'
    <3>1. m \in Nat /\ (m > n <=> m > ops /\ m # n)
      BY <1>1 DEF n, Op, StorageIsBounded
    <3>2. CASE m = n
      BY <1>0, <1>1, <1>2, <3>1, <3>2 DEF OpTask
    <3>3. CASE m # n
      BY <1>1, <1>2, <3>1, <3>3 DEF OpInv
    <3>4. QED
      BY <3>2, <3>3
  <2>2. QED
    BY <2>1 DEF OpInv
<1>5. \A j \in Id : Removing(j)' = Removing(j)
  BY <1>0, <1>1, <1>2 DEF Removing
<1>6. \A m \in Op : m # n => \A j \in Id : Uploads(m, j)' <=> Uploads(m, j)
  BY <1>2 DEF Uploads
<1>7. ASSUME Fresh PROVE UploadInv'
  <2>1. UploadInv
    BY <1>7 DEF StorageInv
  <2>2. task = "upload" => i \notin Used
    BY <1>7 DEF ReceiveOp
  <2>3. OneUpload'
    <3>1. ASSUME NEW k \in Op, NEW m \in Op, op'[k].pc # "new", op'[m].pc # "new",
                 op'[k].task = "upload", op'[m].task = "upload", op'[m].id = op'[k].id, k # m
          PROVE  FALSE
      <4>1. CASE k # n /\ m # n
        BY <1>2, <2>1, <3>1, <4>1 DEF UploadInv, OneUpload, Uploads
      <4>2. CASE k = n
        <5>1. task = "upload" /\ op[m].task = "upload" /\ op[m].id = i /\ op[m].pc # "new"
          BY <1>0, <1>2, <3>1, <4>2
        <5>2. QED
          BY <2>2, <5>1 DEF Used
      <4>3. CASE m = n
        <5>1. task = "upload" /\ op[k].task = "upload" /\ op[k].id = i /\ op[k].pc # "new"
          BY <1>0, <1>2, <3>1, <4>3
        <5>2. QED
          BY <2>2, <5>1 DEF Used
      <4>4. QED
        BY <4>1, <4>2, <4>3
    <3>2. QED
      BY <3>1 DEF OneUpload, Uploads
  <2>4. \A j \in Id : row[j] # 0 => row[j] \in Op /\ j \in Used
    <3>1. ASSUME NEW j \in Id, row[j] # 0 PROVE row[j] \in Op /\ j \in Used
      <4>1. row[j] \in Op
        BY <1>1, <3>1 DEF StorageTypeOK, Op, StorageIsBounded
      <4>2. Uploads(row[j], j) /\ op[row[j]].pc = "done"
        BY <2>1, <3>1 DEF UploadInv, FileInv
      <4>3. QED
        BY <4>1, <4>2 DEF Used, Uploads
    <3>2. QED
      BY <3>1
  <2>5. ASSUME NEW m \in Op PROVE PendingInv(m)'
    <3>1. CASE m = n
      <4>1. op'[m] = r /\ r.id = i
        BY <1>0, <1>2, <3>1
      <4>2. r.pc \in {"save", "insert"} => r.pc = "save" /\ i \notin Used
        BY <1>0, <2>2
      <4>3. i \notin Used => row[i] = 0 /\ Removing(i) = {}
        BY <2>1, <2>4 DEF UploadInv, FileInv
      <4>4. QED
        BY <1>1, <1>5, <4>1, <4>2, <4>3 DEF PendingInv
    <3>2. CASE m # n
      <4>1. op'[m] = op[m] /\ op[m].id \in Id /\ PendingInv(m)
        BY <1>1, <1>2, <2>1, <3>2 DEF UploadInv, StorageTypeOK, OpRecord
      <4>2. QED
        BY <1>1, <1>5, <4>1 DEF PendingInv
    <3>3. QED
      BY <3>1, <3>2
  <2>6. ASSUME NEW j \in Id PROVE FileInv(j)'
    <3>1. FileInv(j)
      BY <2>1 DEF UploadInv
    <3>2. j \in Used => j \in Used'
      <4>1. ASSUME NEW m \in Op, op[m].pc # "new", op[m].task = "upload", op[m].id = j
            PROVE  op'[m].pc # "new" /\ op'[m].task = "upload" /\ op'[m].id = j
        BY <1>2, <4>1
      <4>2. QED
        BY <4>1 DEF Used
    <3>3. row[j] # 0 => op'[row[j]] = op[row[j]]
      BY <1>2, <2>4, <3>1 DEF FileInv
    <3>4. QED
      BY <1>1, <1>5, <3>1, <3>2, <3>3 DEF FileInv, Uploads
  <2>7. QED
    BY <2>3, <2>5, <2>6 DEF UploadInv
<1>8. ASSUME Fresh, failures' = 0 PROVE CleanInv'
  <2>1. CleanInv
    BY <1>1, <1>8 DEF StorageInv
  <2>2. ASSUME NEW j \in Id, NEW m \in Op, op[m].id = j, op[m].pc \in {"insert", "file"}
        PROVE  op'[m] = op[m]
    BY <1>2, <2>2
  <2>3. QED
    BY <1>1, <1>5, <2>1, <2>2 DEF CleanInv
<1>9. QED
  BY <1>3, <1>4, <1>7, <1>8 DEF StorageInv

LEMMA ReadStep ==
  ASSUME StorageIsBounded, StorageInv, NEW n \in Op, Read(n) \/ Fail(n)
  PROVE  StorageInv'
<1>1. CASE Read(n)
  <2>1. PICK p \in {"delete", "write", "done"} :
          /\ Goes(n, p)
          /\ p # "done" => row[op[n].id] # 0
    BY <1>1 DEF Read, After
  <2>2. /\ op[n].pc = "read" /\ op[n].task # "upload"
        /\ UNCHANGED <<row, disk, artifacts, ops, failures, crossed>>
        /\ failures \in Nat
    BY <1>1 DEF Read, StorageInv, OpInv, StorageTypeOK
  <2>3. QED
    BY <2>1, <2>2, QuietStep
<1>2. CASE Fail(n)
  <2>1. /\ Goes(n, "done") /\ op[n].pc \notin {"new", "done"}
        /\ UNCHANGED <<row, disk, artifacts, ops, crossed>>
        /\ failures \in Nat /\ failures' = failures + 1
    BY <1>2, DoneFacts DEF Fail, StorageInv, StorageTypeOK
  <2>2. failures' \in Nat /\ failures' # 0
    BY <2>1
  <2>3. QED
    BY <2>1, <2>2, QuietStep
<1>3. QED
  BY <1>1, <1>2

(* A file is written before anything refers to the source. *)
LEMMA SaveStep ==
  ASSUME StorageIsBounded, StorageInv, NEW n \in Op, Save(n)
  PROVE  StorageInv'
<1>1. /\ op[n].pc = "save" /\ op[n].task = "upload" /\ StorageTypeOK
      /\ UNCHANGED <<row, artifacts, ops, failures, crossed>>
      /\ failures \in Nat
  BY DEF Save, StorageInv, OpInv, StorageTypeOK
<1>2. CASE UNCHANGED disk /\ Done(n)
  BY <1>1, <1>2, DoneFacts, QuietStep
<1>3. CASE disk' = [disk EXCEPT ![op[n].id] = n] /\ Goes(n, "insert")
  <2>1. /\ op' \in [Op -> OpRecord]
        /\ \A m \in Op : op'[m].task = op[m].task /\ op'[m].id = op[m].id
        /\ op'[n].pc = "insert"
        /\ \A m \in Op : m # n => op'[m] = op[m]
        /\ op[n].id \in Id
    BY <1>1, <1>3, GoesFacts DEF OpPc
  <2>2. StorageTypeOK'
    BY <1>1, <1>3, <2>1 DEF StorageTypeOK, Op
  <2>3. OpInv'
    BY <1>1, <2>1 DEF StorageInv, OpInv
  <2>4. \A i \in Id : Removing(i)' = Removing(i)
    BY <1>1, <2>1 DEF Removing
  <2>5. \A i \in Id : i \in Used => i \in Used'
    BY <1>1, <2>1 DEF Used
  <2>6. /\ disk'[op[n].id] = n
        /\ \A i \in Id : i # op[n].id => disk'[i] = disk[i]
    BY <1>1, <1>3, <2>1 DEF StorageTypeOK
  <2>7. ASSUME Fresh PROVE UploadInv'
    <3>1. UploadInv
      BY <2>7 DEF StorageInv
    <3>2. OneUpload'
      BY <1>1, <2>1, <3>1 DEF UploadInv, OneUpload, Uploads
    <3>3. ASSUME NEW m \in Op PROVE PendingInv(m)'
      <4>1. op[m].id \in Id /\ PendingInv(m) /\ PendingInv(n)
        BY <1>1, <3>1 DEF StorageTypeOK, OpRecord, UploadInv
      <4>2. CASE m = n
        BY <1>1, <2>1, <2>4, <2>6, <4>1, <4>2 DEF PendingInv
      <4>3. CASE m # n
        <5>1. op[m].pc = "insert" => op[m].id # op[n].id
          BY <1>1, <3>1, <4>3 DEF UploadInv, OneUpload, Uploads, StorageInv, OpInv
        <5>2. QED
          BY <1>1, <2>1, <2>4, <2>6, <4>1, <4>3, <5>1 DEF PendingInv
      <4>4. QED
        BY <4>2, <4>3
    <3>4. ASSUME NEW i \in Id PROVE FileInv(i)'
      <4>1. FileInv(i) /\ (row[i] # 0 => i # op[n].id)
        BY <1>1, <3>1 DEF UploadInv, PendingInv
      <4>2. row[i] # 0 => row[i] \in Op /\ row[i] # n
        BY <1>1, <4>1 DEF FileInv, StorageTypeOK, Op, StorageIsBounded
      <4>3. QED
        BY <1>1, <2>1, <2>4, <2>5, <2>6, <4>1, <4>2 DEF FileInv, Uploads
    <3>5. QED
      BY <3>2, <3>3, <3>4 DEF UploadInv
  <2>8. ASSUME Fresh, failures' = 0 PROVE CleanInv'
    <3>1. CleanInv
      BY <1>1, <2>8 DEF StorageInv
    <3>2. \A m \in Op : op[m].pc \in {"insert", "file"} => op'[m] = op[m]
      BY <1>1, <2>1
    <3>3. QED
      BY <1>1, <2>1, <2>4, <2>6, <3>1, <3>2 DEF CleanInv
  <2>9. QED
    BY <2>2, <2>3, <2>7, <2>8 DEF StorageInv
<1>4. QED
  BY <1>2, <1>3 DEF Save

(* The row is for the file that was written; with a new id nobody has one.  *)
LEMMA InsertSourceStep ==
  ASSUME StorageIsBounded, StorageInv, NEW n \in Op, InsertRow(n)
  PROVE  StorageInv'
<1>1. /\ op[n].pc = "insert" /\ op[n].task = "upload" /\ StorageTypeOK
      /\ UNCHANGED <<disk, artifacts, ops, failures, crossed>>
      /\ Goes(n, "done") /\ n # 0
      /\ row' = [row EXCEPT ![op[n].id] = IF row[op[n].id] = 0 THEN n ELSE row[op[n].id]]
  BY DoneFacts DEF InsertRow, StorageInv, OpInv, Op
<1>2. /\ op' \in [Op -> OpRecord]
      /\ \A m \in Op : op'[m].task = op[m].task /\ op'[m].id = op[m].id
      /\ op'[n].pc = "done"
      /\ \A m \in Op : m # n => op'[m] = op[m]
      /\ op[n].id \in Id
  BY <1>1, GoesFacts DEF OpPc
<1>3. /\ row' \in [Id -> 0 .. MaxOps]
      /\ row'[op[n].id] # 0
      /\ \A i \in Id : (i # op[n].id \/ row[i] # 0) => row'[i] = row[i]
      /\ row[op[n].id] = 0 => row'[op[n].id] = n
  BY <1>1, <1>2 DEF StorageTypeOK, Op, StorageIsBounded
<1>4. StorageTypeOK'
  BY <1>1, <1>2, <1>3 DEF StorageTypeOK
<1>5. OpInv'
  <2>1. \A m \in Op : op[m].id \in Id
    BY <1>1 DEF StorageTypeOK, OpRecord
  <2>2. QED
    BY <1>1, <1>2, <1>3, <2>1 DEF StorageInv, OpInv
<1>6. \A i \in Id : Removing(i)' = Removing(i)
  BY <1>1, <1>2 DEF Removing
<1>7. \A i \in Id : i \in Used => i \in Used'
  BY <1>1, <1>2 DEF Used
<1>8. ASSUME Fresh PROVE UploadInv'
  <2>1. UploadInv
    BY <1>8 DEF StorageInv
  <2>2. OneUpload'
    BY <1>1, <1>2, <2>1 DEF UploadInv, OneUpload, Uploads
  <2>3. ASSUME NEW m \in Op PROVE PendingInv(m)'
    <3>1. op[m].id \in Id /\ PendingInv(m)
      BY <1>1, <2>1 DEF StorageTypeOK, OpRecord, UploadInv
    <3>2. op'[m].pc \in {"save", "insert"} => op[m].id # op[n].id /\ op'[m] = op[m]
      BY <1>1, <1>2, <2>1 DEF UploadInv, OneUpload, Uploads, StorageInv, OpInv
    <3>3. QED
      BY <1>1, <1>2, <1>3, <1>6, <3>1, <3>2 DEF PendingInv
  <2>4. ASSUME NEW i \in Id PROVE FileInv(i)'
    <3>1. FileInv(i)
      BY <2>1 DEF UploadInv
    <3>2. CASE i = op[n].id
      <4>1. row[i] = 0 /\ Removing(i) = {} /\ disk[i] = n
        BY <1>1, <2>1, <3>2 DEF UploadInv, PendingInv
      <4>2. row'[i] = n /\ Uploads(n, i)'
        BY <1>1, <1>2, <1>3, <3>2, <4>1 DEF Uploads
      <4>3. QED
        BY <1>1, <1>2, <1>6, <4>1, <4>2 DEF FileInv
    <3>3. CASE i # op[n].id
      <4>1. row'[i] = row[i]
        BY <1>3, <3>3
      <4>2. row[i] # 0 => row[i] \in Op /\ row[i] # n
        BY <1>1, <3>1, <3>3 DEF FileInv, StorageTypeOK, Op, StorageIsBounded
      <4>3. QED
        BY <1>1, <1>2, <1>6, <1>7, <3>1, <4>1, <4>2 DEF FileInv, Uploads
    <3>4. QED
      BY <3>2, <3>3
  <2>5. QED
    BY <2>2, <2>3, <2>4 DEF UploadInv
<1>9. ASSUME Fresh, failures' = 0 PROVE CleanInv'
  <2>1. CleanInv
    BY <1>1, <1>9 DEF StorageInv
  <2>2. ASSUME NEW i \in Id, row'[i] = 0
        PROVE  /\ row[i] = 0
               /\ \A m \in Op : op[m].id = i /\ op[m].pc \in {"insert", "file"} => op'[m] = op[m]
    BY <1>2, <1>3, <2>2
  <2>3. QED
    BY <1>1, <1>6, <2>1, <2>2 DEF CleanInv
<1>10. QED
  BY <1>4, <1>5, <1>8, <1>9 DEF StorageInv

LEMMA WriteArtifactStep ==
  ASSUME StorageIsBounded, StorageInv, NEW n \in Op, WriteArtifact(n)
  PROVE  StorageInv'
<1>1. /\ op[n].pc = "write" /\ StorageTypeOK
      /\ UNCHANGED <<row, disk, ops, failures, crossed>>
      /\ Goes(n, "done")
      /\ artifacts' = artifacts \cup {op[n].id}
      /\ row[op[n].id] # 0 \/ op[n].id \in crossed
  BY DoneFacts DEF WriteArtifact, StorageInv, OpInv
<1>2. /\ op' \in [Op -> OpRecord]
      /\ \A m \in Op : op'[m].task = op[m].task /\ op'[m].id = op[m].id
      /\ op'[n].pc = "done"
      /\ \A m \in Op : m # n => op'[m] = op[m]
      /\ op[n].id \in Id
  BY <1>1, GoesFacts DEF OpPc
<1>3. StorageTypeOK'
  BY <1>1, <1>2 DEF StorageTypeOK
<1>4. OpInv'
  BY <1>1, <1>2 DEF StorageInv, OpInv
<1>5. \A i \in Id : Removing(i)' = Removing(i)
  BY <1>1, <1>2 DEF Removing
<1>6. \A i \in Id : i \in Used => i \in Used'
  BY <1>1, <1>2 DEF Used
<1>7. ASSUME Fresh PROVE UploadInv'
  <2>1. UploadInv
    BY <1>7 DEF StorageInv
  <2>2. OneUpload'
    BY <1>1, <1>2, <2>1 DEF UploadInv, OneUpload, Uploads
  <2>3. ASSUME NEW m \in Op PROVE PendingInv(m)'
    <3>1. op[m].id \in Id /\ PendingInv(m)
      BY <1>1, <2>1 DEF StorageTypeOK, OpRecord, UploadInv
    <3>2. QED
      BY <1>1, <1>2, <1>5, <3>1 DEF PendingInv
  <2>4. ASSUME NEW i \in Id PROVE FileInv(i)'
    <3>1. FileInv(i)
      BY <2>1 DEF UploadInv
    <3>2. row[i] # 0 => row[i] \in Op /\ row[i] # n
      BY <1>1, <3>1 DEF FileInv, StorageTypeOK, Op, StorageIsBounded
    <3>3. QED
      BY <1>1, <1>2, <1>5, <1>6, <3>1, <3>2 DEF FileInv, Uploads
  <2>5. QED
    BY <2>2, <2>3, <2>4 DEF UploadInv
<1>8. ASSUME Fresh, failures' = 0 PROVE CleanInv'
  <2>1. CleanInv
    BY <1>1, <1>8 DEF StorageInv
  <2>2. \A m \in Op : op[m].pc \in {"insert", "file"} => op'[m] = op[m]
    BY <1>1, <1>2
  <2>3. QED
    BY <1>1, <1>2, <1>5, <2>1, <2>2 DEF CleanInv
<1>9. QED
  BY <1>3, <1>4, <1>7, <1>8 DEF StorageInv

(* Only a row that is there takes its files along. *)
LEMMA DeleteRowStep ==
  ASSUME StorageIsBounded, StorageInv, NEW n \in Op, DeleteRow(n)
  PROVE  StorageInv'
<1> DEFINE met == {m \in Op : op[m].pc = "write" /\ op[m].id = op[n].id}
<1>1. /\ op[n].pc = "delete" /\ op[n].task # "upload" /\ StorageTypeOK
      /\ UNCHANGED <<disk, artifacts, ops, failures>>
      /\ row' = [row EXCEPT ![op[n].id] = 0]
      /\ crossed' = crossed \cup {op[m].id : m \in met}
      /\ Goes(n, IF row[op[n].id] = 0 THEN "done" ELSE "file")
  BY DEF DeleteRow, After, StorageInv, OpInv
<1>2. PICK p \in {"done", "file"} :
        Goes(n, p) /\ (p = "done" <=> row[op[n].id] = 0)
  BY <1>1
<1>3. /\ op' \in [Op -> OpRecord]
      /\ \A m \in Op : op'[m].task = op[m].task /\ op'[m].id = op[m].id
      /\ op'[n].pc = p
      /\ \A m \in Op : m # n => op'[m] = op[m]
      /\ op[n].id \in Id
  BY <1>1, <1>2, GoesFacts DEF OpPc
<1>4. /\ row' \in [Id -> 0 .. MaxOps]
      /\ row'[op[n].id] = 0
      /\ \A i \in Id : i # op[n].id => row'[i] = row[i]
  BY <1>1, <1>3 DEF StorageTypeOK, StorageIsBounded
<1>5. /\ \A m \in Op : op[m].pc = "write" /\ op[m].id = op[n].id => op[m].id \in crossed'
      /\ crossed \subseteq crossed'
      /\ crossed' \subseteq Id
  BY <1>1, <1>3 DEF StorageTypeOK, OpRecord
<1> HIDE DEF met
<1>6. StorageTypeOK'
  BY <1>1, <1>3, <1>4, <1>5 DEF StorageTypeOK
<1>7. OpInv'
  <2>1. \A m \in Op : op[m].id \in Id
    BY <1>1 DEF StorageTypeOK, OpRecord
  <2>2. QED
    BY <1>1, <1>2, <1>3, <1>4, <1>5, <2>1 DEF StorageInv, OpInv
<1>8. \A i \in Id : i # op[n].id => Removing(i)' = Removing(i)
  BY <1>1, <1>3 DEF Removing
<1>9. \A i \in Id : i \in Used => i \in Used'
  BY <1>1, <1>3 DEF Used
<1>10. ASSUME Fresh PROVE UploadInv'
  <2>1. UploadInv
    BY <1>10 DEF StorageInv
  <2>2. OneUpload'
    BY <1>1, <1>3, <2>1 DEF UploadInv, OneUpload, Uploads
  <2>3. ASSUME NEW m \in Op PROVE PendingInv(m)'
    <3>1. op[m].id \in Id /\ PendingInv(m)
      BY <1>1, <2>1 DEF StorageTypeOK, OpRecord, UploadInv
    <3>2. CASE op[m].id # op[n].id
      BY <1>1, <1>2, <1>3, <1>4, <1>8, <3>1, <3>2 DEF PendingInv
    <3>3. CASE op[m].id = op[n].id /\ op'[m].pc \in {"save", "insert"}
      <4>1. op'[m] = op[m] /\ row[op[n].id] = 0 /\ Removing(op[n].id) = {}
        BY <1>2, <1>3, <3>1, <3>3 DEF PendingInv
      <4>2. Removing(op[n].id)' = {}
        BY <1>2, <1>3, <4>1 DEF Removing
      <4>3. QED
        BY <1>1, <1>3, <1>4, <3>1, <3>3, <4>1, <4>2 DEF PendingInv
    <3>4. QED
      BY <3>2, <3>3 DEF PendingInv
  <2>4. ASSUME NEW i \in Id PROVE FileInv(i)'
    <3>1. FileInv(i) /\ (row[i] # 0 => row[i] \in Op)
      BY <1>1, <2>1 DEF UploadInv, StorageTypeOK, Op, StorageIsBounded
    <3>2. row[i] # 0 => i \in Used
      BY <3>1 DEF FileInv, Used, Uploads
    <3>3. CASE i = op[n].id
      <4>1. Removing(i)' # {} => Removing(i) # {} \/ row[i] # 0
        BY <1>1, <1>2, <1>3, <3>3 DEF Removing
      <4>2. QED
        BY <1>4, <1>9, <3>1, <3>2, <3>3, <4>1 DEF FileInv
    <3>4. CASE i # op[n].id
      <4>1. row[i] # 0 => row[i] # n
        BY <1>1, <3>1 DEF FileInv
      <4>2. QED
        BY <1>1, <1>3, <1>4, <1>8, <1>9, <3>1, <3>4, <4>1 DEF FileInv, Uploads
    <3>5. QED
      BY <3>3, <3>4
  <2>5. QED
    BY <2>2, <2>3, <2>4 DEF UploadInv
<1>11. ASSUME Fresh, failures' = 0 PROVE CleanInv'
  <2>1. CleanInv /\ UploadInv
    BY <1>1, <1>11 DEF StorageInv
  <2>2. \A m \in Op : op[m].pc \in {"insert", "file", "artifacts"} => op'[m] = op[m]
    BY <1>1, <1>3
  <2>3. \A i \in Id : Removing(i) \subseteq Removing(i)'
    BY <2>2 DEF Removing
  <2>4. ASSUME NEW i \in Id, row'[i] = 0
        PROVE  /\ disk[i] # 0 => \E m \in Op : op'[m].id = i /\ op'[m].pc \in {"insert", "file"}
               /\ i \in artifacts => i \in crossed' \/ Removing(i)' # {}
    <3>1. CASE row[i] = 0
      BY <1>5, <2>1, <2>2, <2>3, <3>1 DEF CleanInv
    <3>2. CASE row[i] # 0
      <4>1. i = op[n].id /\ op'[n].pc = "file" /\ op'[n].id = i
        BY <1>2, <1>3, <1>4, <2>4, <3>2
      <4>2. n \in Removing(i)'
        BY <4>1 DEF Removing
      <4>3. QED
        BY <4>1, <4>2
    <3>3. QED
      BY <3>1, <3>2
  <2>5. QED
    BY <1>1, <2>4 DEF CleanInv
<1>12. QED
  BY <1>6, <1>7, <1>10, <1>11 DEF StorageInv

LEMMA DeleteFileStep ==
  ASSUME StorageIsBounded, StorageInv, NEW n \in Op, DeleteFile(n)
  PROVE  StorageInv'
<1>1. /\ op[n].pc = "file" /\ op[n].task # "upload" /\ StorageTypeOK
      /\ UNCHANGED <<row, artifacts, ops, crossed>>
      /\ Goes(n, "artifacts")
      /\ \/ disk' = [disk EXCEPT ![op[n].id] = 0] /\ failures' = failures
         \/ disk' = disk /\ failures' = failures + 1
      /\ failures \in Nat
  BY DEF DeleteFile, After, StorageInv, OpInv, StorageTypeOK
<1>2. /\ op' \in [Op -> OpRecord]
      /\ \A m \in Op : op'[m].task = op[m].task /\ op'[m].id = op[m].id
      /\ op'[n].pc = "artifacts"
      /\ \A m \in Op : m # n => op'[m] = op[m]
      /\ op[n].id \in Id
  BY <1>1, GoesFacts DEF OpPc
<1>3. /\ disk' \in [Id -> 0 .. MaxOps]
      /\ \A i \in Id : i # op[n].id => disk'[i] = disk[i]
      /\ failures' = 0 => disk'[op[n].id] = 0
  BY <1>1, <1>2 DEF StorageTypeOK, StorageIsBounded
<1>4. StorageTypeOK'
  BY <1>1, <1>2, <1>3 DEF StorageTypeOK
<1>5. OpInv'
  BY <1>1, <1>2 DEF StorageInv, OpInv
<1>6. \A i \in Id : Removing(i)' = Removing(i)
  BY <1>1, <1>2 DEF Removing
<1>7. \A i \in Id : i \in Used => i \in Used'
  BY <1>1, <1>2 DEF Used
<1>8. n \in Removing(op[n].id)
  BY <1>1 DEF Removing
<1>9. ASSUME Fresh PROVE UploadInv'
  <2>1. UploadInv
    BY <1>9 DEF StorageInv
  <2>2. OneUpload'
    BY <1>1, <1>2, <2>1 DEF UploadInv, OneUpload, Uploads
  <2>3. ASSUME NEW m \in Op PROVE PendingInv(m)'
    <3>1. op[m].id \in Id /\ PendingInv(m)
      BY <1>1, <2>1 DEF StorageTypeOK, OpRecord, UploadInv
    <3>2. op'[m].pc \in {"save", "insert"} => op'[m] = op[m] /\ op[m].id # op[n].id
      BY <1>2, <1>8, <3>1 DEF PendingInv
    <3>3. QED
      BY <1>1, <1>2, <1>3, <1>6, <3>1, <3>2 DEF PendingInv
  <2>4. ASSUME NEW i \in Id PROVE FileInv(i)'
    <3>1. FileInv(i) /\ (row[i] # 0 => row[i] \in Op)
      BY <1>1, <2>1 DEF UploadInv, StorageTypeOK, Op, StorageIsBounded
    <3>2. row[i] # 0 => row[i] # n /\ i # op[n].id
      BY <1>1, <1>8, <3>1 DEF FileInv
    <3>3. QED
      BY <1>1, <1>2, <1>3, <1>6, <1>7, <3>1, <3>2 DEF FileInv, Uploads
  <2>5. QED
    BY <2>2, <2>3, <2>4 DEF UploadInv
<1>10. ASSUME Fresh, failures' = 0 PROVE CleanInv'
  <2>1. CleanInv
    BY <1>1, <1>10 DEF StorageInv
  <2>2. ASSUME NEW i \in Id, row[i] = 0, disk'[i] # 0
        PROVE  \E m \in Op : op'[m].id = i /\ op'[m].pc \in {"insert", "file"}
    <3>1. i # op[n].id /\ disk[i] # 0
      BY <1>3, <1>10, <2>2
    <3>2. PICK m \in Op : op[m].id = i /\ op[m].pc \in {"insert", "file"}
      BY <2>1, <2>2, <3>1 DEF CleanInv
    <3>3. QED
      BY <1>2, <3>1, <3>2
  <2>3. QED
    BY <1>1, <1>6, <2>1, <2>2 DEF CleanInv
<1>11. QED
  BY <1>4, <1>5, <1>9, <1>10 DEF StorageInv

LEMMA DeleteArtifactsStep ==
  ASSUME StorageIsBounded, StorageInv, NEW n \in Op, DeleteArtifacts(n)
  PROVE  StorageInv'
<1>1. /\ op[n].pc = "artifacts" /\ op[n].task # "upload" /\ StorageTypeOK
      /\ UNCHANGED <<row, disk, ops, crossed>>
      /\ Goes(n, "done")
      /\ \/ artifacts' = artifacts \ {op[n].id} /\ failures' = failures
         \/ artifacts' = artifacts /\ failures' = failures + 1
      /\ failures \in Nat
  BY DEF DeleteArtifacts, After, StorageInv, OpInv, StorageTypeOK
<1>2. /\ op' \in [Op -> OpRecord]
      /\ \A m \in Op : op'[m].task = op[m].task /\ op'[m].id = op[m].id
      /\ op'[n].pc = "done"
      /\ \A m \in Op : m # n => op'[m] = op[m]
      /\ op[n].id \in Id
  BY <1>1, GoesFacts DEF OpPc
<1>3. StorageTypeOK'
  BY <1>1, <1>2 DEF StorageTypeOK
<1>4. OpInv'
  BY <1>1, <1>2 DEF StorageInv, OpInv
<1>5. /\ \A i \in Id : Removing(i)' \subseteq Removing(i)
      /\ \A i \in Id : i # op[n].id => Removing(i)' = Removing(i)
  BY <1>1, <1>2 DEF Removing
<1>6. \A i \in Id : i \in Used => i \in Used'
  BY <1>1, <1>2 DEF Used
<1>7. ASSUME Fresh PROVE UploadInv'
  <2>1. UploadInv
    BY <1>7 DEF StorageInv
  <2>2. OneUpload'
    BY <1>1, <1>2, <2>1 DEF UploadInv, OneUpload, Uploads
  <2>3. ASSUME NEW m \in Op PROVE PendingInv(m)'
    <3>1. op[m].id \in Id /\ PendingInv(m)
      BY <1>1, <2>1 DEF StorageTypeOK, OpRecord, UploadInv
    <3>2. QED
      BY <1>1, <1>2, <1>5, <3>1 DEF PendingInv
  <2>4. ASSUME NEW i \in Id PROVE FileInv(i)'
    <3>1. FileInv(i) /\ (row[i] # 0 => row[i] \in Op)
      BY <1>1, <2>1 DEF UploadInv, StorageTypeOK, Op, StorageIsBounded
    <3>2. row[i] # 0 => row[i] # n
      BY <1>1, <3>1 DEF FileInv
    <3>3. QED
      BY <1>1, <1>2, <1>5, <1>6, <3>1, <3>2 DEF FileInv, Uploads
  <2>5. QED
    BY <2>2, <2>3, <2>4 DEF UploadInv
<1>8. ASSUME Fresh, failures' = 0 PROVE CleanInv'
  <2>1. CleanInv /\ artifacts' = artifacts \ {op[n].id}
    BY <1>1, <1>8 DEF StorageInv
  <2>2. \A m \in Op : op[m].pc \in {"insert", "file"} => op'[m] = op[m]
    BY <1>1, <1>2
  <2>3. QED
    BY <1>1, <1>2, <1>5, <2>1, <2>2 DEF CleanInv
<1>9. QED
  BY <1>3, <1>4, <1>7, <1>8 DEF StorageInv

-----------------------------------------------------------------------------
(* Theorems. *)

LEMMA StorageStep ==
  ASSUME StorageIsBounded, StorageInv, [StorageNext]_storageVars
  PROVE  StorageInv'
<1>1. CASE UNCHANGED storageVars
  <2>1. UNCHANGED <<row, disk, artifacts, op, ops, failures, crossed>>
    BY <1>1 DEF storageVars
  <2>2. StorageTypeOK' /\ OpInv'
    BY <2>1 DEF StorageInv, StorageTypeOK, OpInv
  <2>3. UploadInv => UploadInv'
    BY <2>1 DEF UploadInv, OneUpload, PendingInv, FileInv, Uploads, Removing, Used
  <2>4. CleanInv => CleanInv'
    BY <2>1 DEF CleanInv, Removing
  <2>5. QED
    BY <2>1, <2>2, <2>3, <2>4 DEF StorageInv
<1>2. CASE StorageNext
  BY <1>2, ReceiveOpStep, SaveStep, InsertSourceStep, ReadStep, WriteArtifactStep, DeleteRowStep,
     DeleteFileStep, DeleteArtifactsStep DEF StorageNext
<1>3. QED
  BY <1>1, <1>2

(* In every behaviour an id has one upload, whose file is there from before *)
(* its row until after it.                                                  *)
THEOREM StorageInvariant ==
  ASSUME StorageIsBounded, Id # {}
  PROVE  StorageSpec => []StorageInv
<1>1. StorageInit => StorageInv
  BY InitStorage
<1>2. StorageInv /\ [StorageNext]_storageVars => StorageInv'
  BY StorageStep
<1>3. QED
  BY <1>1, <1>2, PTL DEF StorageSpec

(* A source that has a row has its file, with the content of the upload the *)
(* row describes, whatever fails and however uploads and removals interleave.*)
THEOREM RowsHaveTheirFiles ==
  ASSUME StorageIsBounded, Id # {}
  PROVE  StorageSpec => []RowHasItsFile
<1>1. StorageInv => RowHasItsFile
  BY DEF StorageInv, UploadInv, FileInv, RowHasItsFile
<1>2. QED
  BY <1>1, StorageInvariant, PTL

(* Without failures, when no request is under way, there are files and      *)
(* artifacts of existing sources only, but for those that were written by a *)
(* request whose source was removed meanwhile.                              *)
THEOREM NothingIsLeftBehind ==
  ASSUME StorageIsBounded, Id # {}
  PROVE  StorageSpec => []NothingLeftBehind
<1>1. ASSUME StorageInv PROVE NothingLeftBehind
  <2>1. SUFFICES ASSUME Fresh, failures = 0, \A n \in Op : op[n].pc \in {"new", "done"},
                        NEW i \in Id, row[i] = 0
                 PROVE  disk[i] = 0 /\ (i \in artifacts => i \in crossed)
    BY DEF NothingLeftBehind
  <2>2. CleanInv
    BY <1>1, <2>1 DEF StorageInv
  <2>3. QED
    BY <2>1, <2>2 DEF CleanInv, Removing
<1>2. QED
  BY <1>1, StorageInvariant, PTL

-----------------------------------------------------------------------------
(* Settings, providers and models                                          *)

ChangesAreBounded == MaxChanges \in Nat

-----------------------------------------------------------------------------
(* Requests as they begin and end.                                          *)
LEMMA NewChangeOK ==
  ASSUME ChangesAreBounded
  PROVE  NewChange \in ChangeRecord
<1>1. Empty \in Row /\ Nothing \in [Setting -> Choice \cup {Unset, Left}]
  BY DEF Empty, Nothing, Row
<1>2. [t \in Task |-> Unbound] \in [Task -> Model \cup {Unbound}] /\ "embedding" \in Task
  BY DEF Task
<1>3. QED
  BY <1>1, <1>2 DEF NewChange, ChangeRecord, ChangePc

LEMMA FinishedOK ==
  ASSUME ChangesAreBounded, NEW r \in ChangeRecord
  PROVE  Finished(r) \in ChangeRecord
<1>1. PICK q \in ChangeRecord : q = NewChange
  BY NewChangeOK
<1>2. PICK k : k = r.kind /\ k \in {"configure", "bind", "resolve"}
  BY DEF ChangeRecord
<1>3. [q EXCEPT !.pc = "done", !.kind = k] \in ChangeRecord
  BY <1>2 DEF ChangeRecord, ChangePc
<1>4. QED
  BY <1>1, <1>2, <1>3 DEF Finished

LEMMA SettingsInvInit ==
  ASSUME ChangesAreBounded, SettingsInit
  PROVE  SettingsInv
<1>1. change \in [Change -> ChangeRecord]
  <2>1. PICK q \in ChangeRecord : q = NewChange
    BY NewChangeOK
  <2>2. QED
    BY <2>1 DEF SettingsInit
<1>2. Gone \in [exists : BOOLEAN, enabled : BOOLEAN, type : AiType]
  BY DEF Gone, AiType
<1>3. model \in [Model -> [exists : BOOLEAN, enabled : BOOLEAN, type : AiType]]
  BY <1>2 DEF SettingsInit
<1>4. provider \in [exists : BOOLEAN, enabled : BOOLEAN, type : ProviderType] /\ provider.exists
  BY DEF SettingsInit, ProviderType
<1>5. SettingsTypeOK
  BY <1>1, <1>3, <1>4 DEF ChangesAreBounded, SettingsInit, SettingsTypeOK, NoRow
<1>6. ASSUME NEW m \in Model
      PROVE  (model[m].enabled => model[m].exists) /\ (model[m].exists => provider.exists)
  <2>1. model[m] = Gone \/ model[m] \in [exists : {TRUE}, enabled : {TRUE}, type : AiType]
    BY DEF SettingsInit
  <2>2. Gone.enabled = FALSE /\ Gone.exists = FALSE
    BY DEF Gone
  <2>3. CASE model[m] = Gone
    BY <2>2, <2>3
  <2>4. CASE model[m] \in [exists : {TRUE}, enabled : {TRUE}, type : AiType]
    <3>1. model[m].exists = TRUE
      BY <2>4
    <3>2. QED
      BY <1>4, <3>1
  <2>5. QED
    BY <2>1, <2>3, <2>4
<1>7. QED
  BY <1>5, <1>6 DEF SettingsInv, ModelsInv

(* A step of one request that leaves the provider and its models alone.     *)
LEMMA RequestStep ==
  ASSUME SettingsInv, NEW n \in Change, NEW c \in ChangeRecord, change' = [change EXCEPT ![n] = c],
         UNCHANGED <<provider, model, changes>>, saves' \in Nat,
         config' \in Row \cup {NoRow}, binding' \in [Task -> Model \cup {Unbound}]
  PROVE  SettingsInv' /\ change'[n] = c /\ \A m \in Change : m # n => change'[m] = change[m]
  BY DEF SettingsInv, SettingsTypeOK, ModelsInv

(* A step that starts a request or none.                                    *)
LEMMA StartStep ==
  ASSUME ChangesAreBounded, SettingsInv, NEW c \in ChangeRecord, c.pc = "read", Start(c)
  PROVE  /\ SettingsInv'
         /\ \A n \in Change : change'[n] # change[n] => change'[n].pc = "read"
<1>1. PICK n \in Change : n = changes + 1
  BY DEF ChangesAreBounded, SettingsInv, SettingsTypeOK, Start, Count, Change
<1>2. /\ change' = [change EXCEPT ![n] = c] /\ changes' = n
      /\ UNCHANGED <<config, provider, model, binding, saves>>
  BY <1>1 DEF Start, Count
<1>3. changes' \in 0 .. MaxChanges
  BY <1>2 DEF ChangesAreBounded, Change
<1>4. QED
  BY <1>2, <1>3 DEF SettingsInv, SettingsTypeOK, ModelsInv

-----------------------------------------------------------------------------
(* A step in which no request ends that has a row to commit or bindings to  *)
(* apply.                                                                   *)
NoneApplied == \A n \in Change : change[n].pc \in {"commit", "bindings"} => change'[n].pc # "done"

LEMMA StartedStep ==
  ASSUME ChangesAreBounded, SettingsInv, Configure \/ Bind \/ Resolve
  PROVE  SettingsInv' /\ NoneApplied
<1>1. PICK q \in ChangeRecord : q = NewChange
  BY NewChangeOK
<1>2. ASSUME NEW c \in ChangeRecord, c.pc = "read", Start(c)
      PROVE  SettingsInv' /\ NoneApplied
  <2>1. SettingsInv' /\ \A n \in Change : change'[n] # change[n] => change'[n].pc = "read"
    BY <1>2, StartStep
  <2>2. QED
    BY <2>1 DEF NoneApplied
<1>3. ASSUME Configure PROVE SettingsInv' /\ NoneApplied
  <2>1. PICK values \in [Setting -> Choice \cup {Unset, Left}] :
          Start([NewChange EXCEPT !.pc = "read", !.kind = "configure", !.values = values])
    BY <1>3 DEF Configure
  <2>2. PICK c : c = [q EXCEPT !.pc = "read", !.kind = "configure", !.values = values]
    OBVIOUS
  <2>3. c \in ChangeRecord /\ c.pc = "read"
    BY <2>2 DEF ChangeRecord, ChangePc
  <2>4. QED
    BY <1>1, <1>2, <2>1, <2>2, <2>3
<1>4. ASSUME Bind PROVE SettingsInv' /\ NoneApplied
  <2>1. PICK t \in Task, m \in Model \cup {Unbound} :
          Start([NewChange EXCEPT !.pc = "read", !.kind = "bind", !.task = t, !.to = m])
    BY <1>4 DEF Bind
  <2>2. PICK c : c = [q EXCEPT !.pc = "read", !.kind = "bind", !.task = t, !.to = m]
    OBVIOUS
  <2>3. c \in ChangeRecord /\ c.pc = "read"
    BY <2>2 DEF ChangeRecord, ChangePc
  <2>4. QED
    BY <1>1, <1>2, <2>1, <2>2, <2>3
<1>5. ASSUME Resolve PROVE SettingsInv' /\ NoneApplied
  <2>1. PICK c : c = [q EXCEPT !.pc = "read"]
    OBVIOUS
  <2>2. c \in ChangeRecord /\ c.pc = "read" /\ Start(c)
    BY <1>1, <1>5, <2>1 DEF ChangeRecord, ChangePc, Resolve
  <2>3. QED
    BY <1>2, <2>2
<1>6. QED
  BY <1>3, <1>4, <1>5

(* The first steps of a configuration: what was read, then the lock.        *)
LEMMA ConfigStep ==
  ASSUME ChangesAreBounded, SettingsInv, NEW n \in Change,
         ReadConfig(n) \/ RejectConfig(n) \/ WriteConfig(n)
  PROVE  SettingsInv' /\ NoneApplied
<1>1. PICK q \in ChangeRecord : q = change[n] /\ q.pc \in {"read", "write"}
  BY DEF SettingsInv, SettingsTypeOK, ReadConfig, RejectConfig, WriteConfig
<1>2. /\ UNCHANGED <<config, provider, model, binding, changes, saves>>
      /\ config \in Row \cup {NoRow} /\ binding \in [Task -> Model \cup {Unbound}] /\ saves \in Nat
  BY DEF SettingsInv, SettingsTypeOK, ReadConfig, RejectConfig, WriteConfig
<1>3. \E c \in ChangeRecord : change' = [change EXCEPT ![n] = c]
  <2>1. CASE ReadConfig(n)
    <3>1. [q EXCEPT !.before = config, !.since = saves, !.pc = "write"] \in ChangeRecord
      BY <1>2 DEF ChangeRecord, ChangePc
    <3>2. QED
      BY <1>1, <2>1, <3>1 DEF ReadConfig
  <2>2. CASE WriteConfig(n)
    <3>1. Finished(q) \in ChangeRecord
      BY FinishedOK
    <3>2. [q EXCEPT !.pc = "commit", !.locked = TRUE] \in ChangeRecord
      BY DEF ChangeRecord, ChangePc
    <3>3. QED
      BY <1>1, <2>2, <3>1, <3>2 DEF WriteConfig
  <2>3. CASE RejectConfig(n)
    BY <1>1, <2>3, FinishedOK DEF RejectConfig
  <2>4. QED
    BY <2>1, <2>2, <2>3
<1>4. PICK c \in ChangeRecord : change' = [change EXCEPT ![n] = c]
  BY <1>3
<1>5. SettingsInv' /\ \A m \in Change : m # n => change'[m] = change[m]
  BY <1>2, <1>4, RequestStep
<1>6. QED
  BY <1>1, <1>5 DEF NoneApplied

(* Its last: the keys of the request, and whatever else the row holds.      *)
LEMMA CommitChangeStep ==
  ASSUME ChangesAreBounded, SettingsInv, NEW n \in Change, CommitConfig(n)
  PROVE  SettingsInv' /\ \A m \in Change : m # n => change'[m] = change[m]
<1>1. /\ config' = Written(n) /\ UNCHANGED <<provider, model, binding, changes>>
      /\ binding \in [Task -> Model \cup {Unbound}] /\ saves \in Nat /\ saves' \in Nat
  BY DEF SettingsInv, SettingsTypeOK, CommitConfig
<1>2. PICK r \in ChangeRecord : r = change[n]
  BY DEF SettingsInv, SettingsTypeOK
<1>3. Written(n) \in Row
  <2>1. RowOf(config) \in Row
    BY DEF SettingsInv, SettingsTypeOK, RowOf, Empty, Row
  <2>2. r.values \in [Setting -> Choice \cup {Unset, Left}]
    BY DEF ChangeRecord
  <2>3. \A k \in Setting : Differs(n, k) => r.values[k] \in Choice \cup {Unset}
    BY <1>2, <2>2 DEF Differs
  <2>4. QED
    BY <1>2, <2>1, <2>3 DEF Written, Row
<1>4. PICK c \in ChangeRecord : change' = [change EXCEPT ![n] = c]
  <2>1. PICK f \in ChangeRecord : f = Finished(r)
    BY FinishedOK
  <2>2. r.values \in [Setting -> Choice \cup {Unset, Left}] /\ r.since \in Nat /\ saves + 1 \in Nat
    BY <1>1 DEF ChangeRecord
  <2>3. [f EXCEPT !.values = r.values, !.since = r.since, !.saved = saves + 1] \in ChangeRecord
    BY <2>2 DEF ChangeRecord
  <2>4. QED
    BY <1>2, <2>1, <2>3 DEF CommitConfig
<1>5. QED
  BY <1>1, <1>3, <1>4, RequestStep

LEMMA BindingStep ==
  ASSUME ChangesAreBounded, SettingsInv, NEW n \in Change, ReadBinding(n) \/ WriteBinding(n)
  PROVE  SettingsInv' /\ NoneApplied
<1>1. PICK q \in ChangeRecord : q = change[n] /\ q.pc \in {"read", "write"}
  BY DEF SettingsInv, SettingsTypeOK, ReadBinding, WriteBinding
<1>2. /\ UNCHANGED <<config, provider, model, changes, saves>>
      /\ config \in Row \cup {NoRow} /\ binding \in [Task -> Model \cup {Unbound}] /\ saves \in Nat
  BY DEF SettingsInv, SettingsTypeOK, ReadBinding, WriteBinding
<1>3. Finished(q) \in ChangeRecord
  BY FinishedOK
<1>4. /\ binding' \in [Task -> Model \cup {Unbound}]
      /\ \E c \in ChangeRecord : change' = [change EXCEPT ![n] = c]
  <2>1. CASE ReadBinding(n)
    <3>1. q.task \in Task
      BY DEF ChangeRecord
    <3>2. [q EXCEPT !.bound = binding[q.task], !.pc = "write"] \in ChangeRecord
      BY <1>2, <3>1 DEF ChangeRecord, ChangePc
    <3>3. QED
      BY <1>1, <1>2, <1>3, <2>1, <3>2 DEF ReadBinding
  <2>2. CASE WriteBinding(n)
    <3>1. q.task \in Task /\ q.to \in Model \cup {Unbound}
      BY DEF ChangeRecord
    <3>2. [binding EXCEPT ![q.task] = q.to] \in [Task -> Model \cup {Unbound}]
      BY <1>2, <3>1
    <3>3. QED
      BY <1>1, <1>2, <1>3, <2>2, <3>2 DEF WriteBinding
  <2>3. QED
    BY <2>1, <2>2
<1>5. PICK c \in ChangeRecord : change' = [change EXCEPT ![n] = c]
  BY <1>4
<1>6. SettingsInv' /\ \A m \in Change : m # n => change'[m] = change[m]
  BY <1>2, <1>4, <1>5, RequestStep
<1>7. QED
  BY <1>1, <1>6 DEF NoneApplied

(* Resolving: the row, then the bindings that apply.                        *)
LEMMA ResolveConfigStep ==
  ASSUME ChangesAreBounded, SettingsInv, NEW n \in Change, ResolveConfig(n)
  PROVE  SettingsInv' /\ NoneApplied
<1>1. PICK q \in ChangeRecord : q = change[n] /\ q.pc = "read"
  BY DEF SettingsInv, SettingsTypeOK, ResolveConfig
<1>2. /\ UNCHANGED <<config, provider, model, binding, changes, saves>>
      /\ config \in Row \cup {NoRow} /\ binding \in [Task -> Model \cup {Unbound}] /\ saves \in Nat
  BY DEF SettingsInv, SettingsTypeOK, ResolveConfig
<1>3. PICK o \in Row : o = RowOf(config)
  BY <1>2 DEF RowOf, Empty, Row
<1>4. PICK c : c = [q EXCEPT !.found = o, !.pc = "bindings"]
  OBVIOUS
<1>5. c \in ChangeRecord /\ change' = [change EXCEPT ![n] = c]
  <2>1. c \in ChangeRecord
    BY <1>4 DEF ChangeRecord, ChangePc
  <2>2. QED
    BY <1>1, <1>3, <1>4, <2>1 DEF ResolveConfig
<1>6. SettingsInv' /\ \A m \in Change : m # n => change'[m] = change[m]
  BY <1>2, <1>5, RequestStep
<1>7. QED
  BY <1>1, <1>6 DEF NoneApplied

LEMMA ResolveBindingsStep ==
  ASSUME ChangesAreBounded, SettingsInv, NEW n \in Change, ResolveBindings(n)
  PROVE  /\ SettingsInv' /\ \A m \in Change : m # n => change'[m] = change[m]
         /\ change'[n].effective =
              [t \in Task |-> IF binding[t] # Unbound /\ Applied(t, binding[t])
                              THEN binding[t] ELSE Unbound]
<1>1. PICK q \in ChangeRecord : q = change[n]
  BY DEF SettingsInv, SettingsTypeOK
<1>2. /\ UNCHANGED <<config, provider, model, binding, changes, saves>>
      /\ config \in Row \cup {NoRow} /\ binding \in [Task -> Model \cup {Unbound}] /\ saves \in Nat
  BY DEF SettingsInv, SettingsTypeOK, ResolveBindings
<1>3. PICK e \in [Task -> Model \cup {Unbound}] :
        e = [t \in Task |-> IF binding[t] # Unbound /\ Applied(t, binding[t])
                            THEN binding[t] ELSE Unbound]
  BY <1>2
<1>4. PICK c : c = [q EXCEPT !.pc = "done", !.effective = e]
  OBVIOUS
<1>5. c \in ChangeRecord /\ c.effective = e
  BY <1>4 DEF ChangeRecord, ChangePc
<1>6. change' = [change EXCEPT ![n] = c]
  BY <1>1, <1>3, <1>4 DEF ResolveBindings
<1>7. QED
  BY <1>2, <1>3, <1>5, <1>6, RequestStep

(* Every step keeps the invariant, and the requests that end with a row to  *)
(* commit or bindings to apply are those that commit or apply them.         *)
LEMMA SettingsStep ==
  ASSUME ChangesAreBounded, SettingsInv, [SettingsNext]_settingVars
  PROVE  /\ SettingsInv'
         /\ \A n \in Change : change[n].pc = "commit" /\ change'[n].pc = "done" => CommitConfig(n)
         /\ \A n \in Change : change[n].pc = "bindings" /\ change'[n].pc = "done" => ResolveBindings(n)
<1>1. SUFFICES \/ SettingsInv' /\ NoneApplied
               \/ \E n \in Change :
                    /\ SettingsInv' /\ \A m \in Change : m # n => change'[m] = change[m]
                    /\ \/ CommitConfig(n) /\ change[n].pc = "commit"
                       \/ ResolveBindings(n) /\ change[n].pc = "bindings"
  BY DEF NoneApplied
<1>2. CASE Configure \/ Bind \/ Resolve
  BY <1>2, StartedStep
<1>3. CASE \E n \in Change : \/ ReadConfig(n) \/ RejectConfig(n) \/ WriteConfig(n)
                             \/ ReadBinding(n) \/ WriteBinding(n) \/ ResolveConfig(n)
  BY <1>3, ConfigStep, BindingStep, ResolveConfigStep
<1>4. CASE \E n \in Change : CommitConfig(n)
  <2>1. PICK n \in Change : CommitConfig(n)
    BY <1>4
  <2>2. SettingsInv' /\ \A m \in Change : m # n => change'[m] = change[m]
    BY <2>1, CommitChangeStep
  <2>3. change[n].pc = "commit"
    BY <2>1 DEF CommitConfig
  <2>4. QED
    BY <2>1, <2>2, <2>3
<1>5. CASE \E n \in Change : ResolveBindings(n)
  <2>1. PICK n \in Change : ResolveBindings(n)
    BY <1>5
  <2>2. SettingsInv' /\ \A m \in Change : m # n => change'[m] = change[m]
    BY <2>1, ResolveBindingsStep
  <2>3. change[n].pc = "bindings"
    BY <2>1 DEF ResolveBindings
  <2>4. QED
    BY <2>1, <2>2, <2>3
<1>6. CASE UNCHANGED change /\ SettingsInv'
  BY <1>6 DEF SettingsInv, SettingsTypeOK, NoneApplied
<1>7. ASSUME Count PROVE changes' \in 0 .. MaxChanges
  BY <1>7 DEF SettingsInv, SettingsTypeOK, Count, ChangesAreBounded
<1>8. CASE ChangeProvider
  <2>1. PICK type \in ProviderType, enabled \in BOOLEAN :
          provider' = [provider EXCEPT !.type = type, !.enabled = enabled]
    BY <1>8 DEF ChangeProvider
  <2>2. provider \in [exists : BOOLEAN, enabled : BOOLEAN, type : ProviderType]
    BY DEF SettingsInv, SettingsTypeOK
  <2>3. /\ provider' \in [exists : BOOLEAN, enabled : BOOLEAN, type : ProviderType]
        /\ provider'.exists = provider.exists
    BY <2>1, <2>2
  <2>4. UNCHANGED <<config, model, binding, change, saves>> /\ changes' \in 0 .. MaxChanges
    BY <1>7, <1>8 DEF ChangeProvider
  <2>5. SettingsInv'
    BY <2>3, <2>4 DEF SettingsInv, SettingsTypeOK, ModelsInv
  <2>6. QED
    BY <1>6, <2>4, <2>5
<1>9. Gone \in [exists : BOOLEAN, enabled : BOOLEAN, type : AiType] /\ ~Gone.exists /\ ~Gone.enabled
  BY DEF Gone, AiType
<1>10. CASE DeleteProvider
  <2>1. /\ provider' = [provider EXCEPT !.exists = FALSE]
        /\ model' = [m \in Model |-> Gone] /\ binding' = [t \in Task |-> Unbound]
        /\ UNCHANGED <<config, change, saves>> /\ changes' \in 0 .. MaxChanges
    BY <1>7, <1>10 DEF DeleteProvider
  <2>2. provider' \in [exists : BOOLEAN, enabled : BOOLEAN, type : ProviderType]
    BY <2>1 DEF SettingsInv, SettingsTypeOK
  <2>3. model' \in [Model -> [exists : BOOLEAN, enabled : BOOLEAN, type : AiType]]
    BY <1>9, <2>1
  <2>4. SettingsTypeOK'
    BY <2>1, <2>2, <2>3 DEF SettingsInv, SettingsTypeOK
  <2>5. ModelsInv'
    BY <1>9, <2>1 DEF ModelsInv
  <2>6. QED
    BY <1>6, <2>1, <2>4, <2>5 DEF SettingsInv
<1>11. CASE \E m \in Model : ChangeModel(m)
  <2>1. PICK m \in Model : ChangeModel(m)
    BY <1>11
  <2>2. PICK type \in AiType, enabled \in BOOLEAN :
          model' = [model EXCEPT ![m] = [exists |-> TRUE, enabled |-> enabled, type |-> type]]
    BY <2>1 DEF ChangeModel
  <2>3. /\ UNCHANGED <<config, provider, binding, change, saves>> /\ provider.exists
        /\ changes' \in 0 .. MaxChanges
    BY <1>7, <2>1 DEF ChangeModel
  <2>4. SettingsTypeOK'
    BY <2>2, <2>3 DEF SettingsInv, SettingsTypeOK
  <2>5. ModelsInv'
    BY <2>2, <2>3 DEF SettingsInv, SettingsTypeOK, ModelsInv
  <2>6. QED
    BY <1>6, <2>3, <2>4, <2>5 DEF SettingsInv
<1>12. CASE \E m \in Model : DeleteModel(m)
  <2>1. PICK m \in Model : DeleteModel(m)
    BY <1>12
  <2>2. /\ model' = [model EXCEPT ![m] = Gone]
        /\ binding' = [t \in Task |-> IF binding[t] = m THEN Unbound ELSE binding[t]]
        /\ UNCHANGED <<config, provider, change, saves>> /\ changes' \in 0 .. MaxChanges
    BY <1>7, <2>1 DEF DeleteModel
  <2>3. SettingsTypeOK'
    BY <1>9, <2>2 DEF SettingsInv, SettingsTypeOK
  <2>4. ModelsInv'
    BY <1>9, <2>2 DEF SettingsInv, SettingsTypeOK, ModelsInv
  <2>5. QED
    BY <1>6, <2>2, <2>3, <2>4 DEF SettingsInv
<1>13. CASE UNCHANGED settingVars
  BY <1>6, <1>13 DEF SettingsInv, SettingsTypeOK, ModelsInv, settingVars
<1>14. QED
  BY <1>2, <1>3, <1>4, <1>5, <1>8, <1>10, <1>11, <1>12, <1>13 DEF SettingsNext

-----------------------------------------------------------------------------
(* The tables and the requests stay well-formed, an enabled model exists    *)
(* and so does the provider of every model that does.                       *)
THEOREM SettingsInvariant ==
  ASSUME ChangesAreBounded
  PROVE  SettingsSpec => []SettingsInv
<1>1. SettingsInit => SettingsInv
  BY SettingsInvInit
<1>2. SettingsInv /\ [SettingsNext]_settingVars => SettingsInv'
  BY SettingsStep
<1>3. QED
  BY <1>1, <1>2, PTL DEF SettingsSpec

(* A step that commits no row: a request keeps what it read, or it was not   *)
(* committed and is not, and what it has read is what is there.             *)
Calm(n) ==
  \/ change'[n] = change[n]
  \/ /\ change[n].saved = 0 /\ change'[n].saved = 0
     /\ change'[n].since <= saves
     /\ n > changes' => change'[n].pc = "new"
     /\ Writing(n)' => \/ change'[n].before = config
                       \/ /\ Writing(n) /\ change'[n].before = change[n].before
                          /\ change'[n].since = change[n].since

LEMMA CalmStep ==
  ASSUME SettingsInv, LastWordInv, config' = config, saves' = saves,
         changes' \in Nat, changes' >= changes, \A n \in Change : Calm(n)
  PROVE  LastWordInv'
<1>1. change \in [Change -> ChangeRecord] /\ saves \in Nat /\ changes \in Nat /\ Change \subseteq Nat
  BY DEF SettingsInv, SettingsTypeOK, Change
<1>2. \A n \in Change, k \in Setting :
        Gave(n, k)' = Gave(n, k) /\ (Gave(n, k) => change'[n] = change[n])
  BY DEF Calm, Gave
<1>3. \A n \in Change, k \in Setting : LastWord(n, k)' = LastWord(n, k)
  BY <1>2 DEF LastWord, RowOf, Empty
<1>4. ASSUME NEW k \in Setting PROVE KeyInv(k)'
  <2>1. KeyInv(k)
    BY DEF LastWordInv
  <2>2. (\E n \in Change : LastWord(n, k))' \/ (RowOf(config)[k] = Unset /\ \A n \in Change : ~Gave(n, k))'
    BY <1>2, <1>3, <2>1 DEF KeyInv, RowOf, Empty
  <2>3. ASSUME NEW n \in Change, Writing(n)' PROVE UpToDate(n, k)'
    <3>1. CASE change'[n].before = config
      BY <3>1 DEF UpToDate, RowOf, Empty
    <3>2. CASE /\ Writing(n) /\ change'[n].before = change[n].before
               /\ change'[n].since = change[n].since
      <4>1. UpToDate(n, k)
        BY <2>1, <3>2 DEF KeyInv
      <4>2. \A m \in Change : LastWord(m, k) => change'[m] = change[m]
        BY <1>2 DEF LastWord
      <4>. QED
        BY <1>3, <3>2, <4>1, <4>2 DEF UpToDate, RowOf, Empty
    <3>. QED
      BY <2>3, <3>1, <3>2 DEF Calm, Writing
  <2>. QED
    BY <2>2, <2>3 DEF KeyInv
<1>5. ASSUME NEW n \in Change PROVE SavedInv(n)'
  <2>1. n \in Nat /\ SavedInv(n) /\ Calm(n)
    BY <1>1 DEF LastWordInv
  <2>. QED
    BY <1>1, <2>1 DEF SavedInv, Calm
<1>. QED
  BY <1>4, <1>5 DEF LastWordInv

(* What a commit does to one key, which the request was not given, changes, *)
(* or was given with the value that it had read.                            *)
LEMMA KeyCommitted ==
  ASSUME ChangesAreBounded, SettingsInv, SettingsInv', LastWordInv, NEW n \in Change, CommitConfig(n),
         \A m \in Change : m # n => change'[m] = change[m],
         NEW k \in Setting
  PROVE  KeyInv(k)'
<1>1. /\ change \in [Change -> ChangeRecord] /\ saves \in Nat /\ KeyInv(k)
      /\ \A m \in Change : change[m].since \in Nat /\ change[m].saved \in Nat
  BY DEF SettingsInv, SettingsTypeOK, LastWordInv, ChangeRecord
<1>2. PICK r \in ChangeRecord : r = change[n]
  BY <1>1
<1>3. /\ change'[n].pc = "done" /\ change'[n].values = r.values /\ change'[n].since = r.since
      /\ change'[n].saved = saves + 1 /\ saves' = saves + 1
  <2>1. PICK f \in ChangeRecord : f = Finished(r)
    BY FinishedOK
  <2>2. change' = [change EXCEPT ![n] =
          [f EXCEPT !.values = r.values, !.since = r.since, !.saved = saves + 1]] /\ saves' = saves + 1
    BY <1>2, <2>1 DEF CommitConfig
  <2>3. f.pc = "done"
    BY <2>1 DEF Finished, NewChange
  <2>. QED
    BY <1>1, <2>2, <2>3 DEF ChangeRecord
<1>4. /\ r.saved = 0 /\ Writing(n) /\ r.since <= saves
      /\ \A m \in Change : change[m].since <= saves
  <2>1. SavedInv(n) /\ r.pc = "commit" /\ r.kind = "configure" /\ r.saved \in Nat
    BY <1>1, <1>2 DEF LastWordInv, CommitConfig
  <2>. QED
    BY <1>2, <2>1 DEF SavedInv, LastWordInv, Writing
<1>5. PICK old : old = RowOf(config)[k]
  OBVIOUS
<1>6. RowOf(config)[k]' = IF Differs(n, k) THEN r.values[k] ELSE old
  <2>1. config' = Written(n) /\ DOMAIN Written(n) = Setting
    BY DEF CommitConfig, Written
  <2>2. config' # NoRow
    <3>1. DOMAIN NoRow = {}
      BY DEF NoRow
    <3>. QED
      BY <2>1, <3>1
  <2>. QED
    BY <1>2, <1>5, <2>1, <2>2 DEF RowOf, Written
<1>7. ~Gave(n, k) /\ (Gave(n, k)' <=> r.values[k] # Left)
  BY <1>1, <1>2, <1>3, <1>4 DEF Gave
<1>8. \A m \in Change \ {n} : Gave(m, k)' = Gave(m, k) /\ change'[m] = change[m] /\ (Writing(m)' => Writing(m))
  BY DEF Gave, Writing
<1>9. ~Writing(n)'
  BY <1>3 DEF Writing
<1>10. \A m \in Change : LastWord(m, k) => m # n /\ RowOf(config)[k] = change[m].values[k]
  BY <1>7 DEF LastWord
<1>11. CASE r.values[k] = Left
  <2>1. RowOf(config)[k]' = old /\ ~Gave(n, k)'
    BY <1>2, <1>6, <1>7, <1>11 DEF Differs
  <2>2. ASSUME NEW m \in Change, LastWord(m, k) PROVE LastWord(m, k)' /\ change'[m] = change[m]
    BY <1>5, <1>8, <1>10, <2>1, <2>2 DEF LastWord
  <2>3. ASSUME NEW m \in Change, Writing(m)' PROVE UpToDate(m, k)'
    <3>1. m # n /\ change'[m] = change[m] /\ UpToDate(m, k)
      BY <1>1, <1>8, <1>9, <2>3 DEF KeyInv
    <3>. QED
      BY <1>5, <2>1, <2>2, <3>1 DEF UpToDate, RowOf, Empty
  <2>. QED
    BY <1>1, <1>5, <1>8, <2>1, <2>2, <2>3 DEF KeyInv
<1>12. CASE r.values[k] # Left /\ RowOf(config)[k]' = r.values[k]
  <2>1. LastWord(n, k)'
    <3>1. ASSUME NEW m \in Change PROVE change'[m].since < saves + 1
      <4>1. change'[m].since <= saves /\ change'[m].since \in Nat
        BY <1>1, <1>2, <1>3, <1>4
      <4>. QED
        BY <1>1, <4>1
    <3>. QED
      BY <1>3, <1>7, <1>12, <3>1 DEF LastWord
  <2>2. ASSUME NEW m \in Change, Writing(m)' PROVE UpToDate(m, k)'
    <3>1. change'[m].since < change'[n].saved
      BY <1>1, <1>3, <1>4, <1>8, <1>9, <2>2
    <3>. QED
      BY <2>1, <3>1 DEF UpToDate
  <2>. QED
    BY <2>1, <2>2 DEF KeyInv
<1>13. CASE r.values[k] # Left /\ RowOf(config)[k]' # r.values[k]
  <2>1. RowOf(config)[k]' = old /\ r.values[k] = RowOf(r.before)[k]
    BY <1>2, <1>6, <1>13 DEF Differs
  <2>2. PICK w \in Change : LastWord(w, k) /\ r.since < change[w].saved
    <3>1. UpToDate(n, k)
      BY <1>1, <1>4 DEF KeyInv
    <3>. QED
      BY <1>2, <1>5, <1>13, <2>1, <3>1 DEF UpToDate
  <2>3. ASSUME NEW m \in Change, LastWord(m, k), r.since < change[m].saved
        PROVE  LastWord(m, k)' /\ change'[m] = change[m]
    <3>1. m # n /\ change'[m] = change[m]
      BY <1>8, <1>10, <2>3
    <3>2. ASSUME NEW x \in Change, Gave(x, k)' PROVE change'[x].since < change'[m].saved
      BY <1>3, <1>8, <2>3, <3>1, <3>2 DEF LastWord
    <3>. QED
      BY <1>5, <1>8, <2>1, <2>3, <3>1, <3>2 DEF LastWord
  <2>4. ASSUME NEW m \in Change, Writing(m)' PROVE UpToDate(m, k)'
    <3>1. m # n /\ change'[m] = change[m] /\ UpToDate(m, k)
      BY <1>1, <1>8, <1>9, <2>4 DEF KeyInv
    <3>2. CASE RowOf(config)[k] = RowOf(change[m].before)[k]
      BY <1>5, <2>1, <3>1, <3>2 DEF UpToDate, RowOf, Empty
    <3>3. CASE \E x \in Change : LastWord(x, k) /\ change[m].since < change[x].saved
      <4>1. PICK x \in Change : LastWord(x, k) /\ change[m].since < change[x].saved
        BY <3>3
      <4>2. \E y \in Change : LastWord(y, k) /\ r.since < change[y].saved /\ change[m].since < change[y].saved
        <5>1. CASE r.since < change[x].saved
          BY <4>1, <5>1
        <5>2. CASE ~(r.since < change[x].saved)
          <6>1. change[m].since < change[w].saved
            BY <1>1, <1>2, <2>2, <4>1, <5>2
          <6>. QED
            BY <2>2, <6>1
        <5>. QED
          BY <5>1, <5>2
      <4>. QED
        BY <2>3, <3>1, <4>2 DEF UpToDate
    <3>. QED
      BY <3>1, <3>2, <3>3 DEF UpToDate
  <2>. QED
    BY <2>2, <2>3, <2>4 DEF KeyInv
<1>. QED
  BY <1>11, <1>12, <1>13

(* The step of one request that is not committed.                           *)
Quiet(n, c) ==
  /\ change' = [change EXCEPT ![n] = c] /\ config' = config /\ saves' = saves
  /\ changes' >= changes /\ n <= changes'
  /\ c.saved = 0 /\ change[n].saved = 0 /\ c.since <= saves
  /\ c.pc \in {"write", "commit"} /\ c.kind = "configure" =>
       \/ c.before = config
       \/ Writing(n) /\ c.before = change[n].before /\ c.since = change[n].since

LEMMA LastWordStep ==
  ASSUME ChangesAreBounded, SettingsInv, LastWordInv, [SettingsNext]_settingVars
  PROVE  LastWordInv'
<1>1. /\ SettingsInv' /\ change \in [Change -> ChangeRecord] /\ saves \in Nat /\ changes \in Nat
      /\ changes' \in Nat /\ Change \subseteq Nat
  BY SettingsStep DEF SettingsInv, SettingsTypeOK, Change
<1>2. ASSUME NEW n \in Change PROVE SavedInv(n) /\ (change[n].pc # "done" => change[n].saved = 0)
  <2>1. SavedInv(n) /\ change[n].saved \in Nat
    BY <1>1 DEF LastWordInv, ChangeRecord
  <2>. QED
    BY <2>1 DEF SavedInv
<1>3. CASE \E n \in Change : CommitConfig(n)
  <2>1. PICK n \in Change : CommitConfig(n)
    BY <1>3
  <2>2. \A m \in Change : m # n => change'[m] = change[m]
    BY <2>1, CommitChangeStep
  <2>3. \A k \in Setting : KeyInv(k)'
    BY <1>1, <2>1, <2>2, KeyCommitted
  <2>4. ASSUME NEW m \in Change PROVE SavedInv(m)'
    <3>1. saves' = saves + 1 /\ changes' = changes
      BY <2>1 DEF CommitConfig
    <3>2. CASE m # n
      <4>1. change'[m] = change[m] /\ SavedInv(m) /\ change[m].saved \in Nat /\ change[m].since \in Nat
        BY <1>1, <1>2, <2>2, <3>2 DEF ChangeRecord
      <4>. QED
        BY <1>1, <3>1, <4>1 DEF SavedInv
    <3>3. CASE m = n
      <4>1. PICK r \in ChangeRecord : r = change[n] /\ r.pc = "commit" /\ r.since \in Nat
        BY <1>1, <2>1 DEF CommitConfig, ChangeRecord
      <4>2. PICK f \in ChangeRecord : f = Finished(r) /\ f.pc = "done"
        BY FinishedOK DEF Finished, NewChange, ChangeRecord
      <4>3. PICK c : c = [f EXCEPT !.values = r.values, !.since = r.since, !.saved = saves + 1]
        OBVIOUS
      <4>4. c.pc = "done" /\ c.since = r.since /\ c.saved = saves + 1
        BY <4>2, <4>3 DEF ChangeRecord
      <4>5. change'[n] = c
        BY <1>1, <2>1, <4>1, <4>2, <4>3 DEF CommitConfig
      <4>6. ~(n > changes) /\ r.since <= saves
        BY <1>2, <4>1 DEF SavedInv
      <4>. QED
        BY <1>1, <3>1, <3>3, <4>1, <4>4, <4>5, <4>6 DEF SavedInv
    <3>. QED
      BY <3>2, <3>3
  <2>. QED
    BY <2>3, <2>4 DEF LastWordInv
<1>4. ASSUME NEW n \in Change, NEW c, Quiet(n, c) PROVE LastWordInv'
  <2>1. change'[n] = c /\ \A m \in Change : m # n => change'[m] = change[m]
    BY <1>1, <1>4 DEF Quiet
  <2>2. ~(n > changes')
    BY <1>1, <1>4 DEF Quiet
  <2>3. \A m \in Change : Calm(m)
    BY <1>4, <2>1, <2>2 DEF Calm, Writing, Quiet
  <2>. QED
    BY <1>1, <1>4, <2>3, CalmStep DEF Quiet
<1>5. ASSUME UNCHANGED <<config, change, saves>>, changes' >= changes PROVE LastWordInv'
  <2>1. \A m \in Change : Calm(m)
    BY <1>5 DEF Calm
  <2>. QED
    BY <1>1, <1>5, <2>1, CalmStep
<1>6. PICK q \in ChangeRecord : q = NewChange
  BY NewChangeOK
<1>7. q.saved = 0 /\ q.since = 0
  BY <1>6 DEF NewChange
<1>8. ASSUME NEW c \in ChangeRecord, c.pc = "read", c.saved = 0, c.since = 0, Start(c)
      PROVE  LastWordInv'
  <2>1. PICK n \in Change : n = changes + 1
    BY <1>1, <1>8 DEF ChangesAreBounded, Start, Count, Change
  <2>2. /\ change' = [change EXCEPT ![n] = c] /\ changes' = n /\ UNCHANGED <<config, saves>>
    BY <1>8, <2>1 DEF Start, Count
  <2>3. change[n].pc = "new" /\ change[n].saved = 0
    BY <1>1, <1>2, <2>1 DEF SavedInv
  <2>4. Quiet(n, c)
    BY <1>1, <1>8, <2>1, <2>2, <2>3 DEF Quiet
  <2>. QED
    BY <1>4, <2>4
<1>9. CASE Configure \/ Bind \/ Resolve
  <2>1. PICK c : Start(c) /\ \/ c = [q EXCEPT !.pc = "read"]
                             \/ \E values \in [Setting -> Choice \cup {Unset, Left}] :
                                  c = [q EXCEPT !.pc = "read", !.kind = "configure", !.values = values]
                             \/ \E t \in Task, m \in Model \cup {Unbound} :
                                  c = [q EXCEPT !.pc = "read", !.kind = "bind", !.task = t, !.to = m]
    BY <1>6, <1>9 DEF Configure, Bind, Resolve
  <2>2. c \in ChangeRecord /\ c.pc = "read" /\ c.saved = 0 /\ c.since = 0
    BY <1>7, <2>1, ZenonT(30) DEF ChangeRecord, ChangePc
  <2>. QED
    BY <1>8, <2>1, <2>2
<1>10. ASSUME NEW n \in Change, change[n].pc \in {"read", "write", "bindings"}
       PROVE  /\ change[n].saved = 0 /\ n <= changes /\ change[n].since <= saves
              /\ Finished(change[n]) \in ChangeRecord /\ Finished(change[n]).pc = "done"
              /\ Finished(change[n]).saved = 0 /\ Finished(change[n]).since = 0
  <2>1. n \in Nat /\ SavedInv(n) /\ change[n].saved = 0
    BY <1>1, <1>2, <1>10
  <2>2. PICK f \in ChangeRecord : f = Finished(change[n])
    BY <1>1, FinishedOK
  <2>3. f.pc = "done" /\ f.saved = 0 /\ f.since = 0
    BY <2>2 DEF Finished, NewChange
  <2>. QED
    BY <1>1, <1>10, <2>1, <2>2, <2>3 DEF SavedInv
<1>11. ASSUME NEW n \in Change, ReadConfig(n) PROVE LastWordInv'
  <2>1. PICK r \in ChangeRecord : r = change[n] /\ r.pc = "read" /\ r.saved = 0
    BY <1>1, <1>10, <1>11 DEF ReadConfig
  <2>2. PICK c : c = [r EXCEPT !.before = config, !.since = saves, !.pc = "write"]
    OBVIOUS
  <2>3. c \in ChangeRecord /\ c.before = config /\ c.since = saves /\ c.saved = 0
    BY <1>1, <2>1, <2>2 DEF ChangeRecord, ChangePc, SettingsInv, SettingsTypeOK
  <2>4. change' = [change EXCEPT ![n] = c] /\ UNCHANGED <<config, saves, changes>>
    BY <1>11, <2>1, <2>2 DEF ReadConfig
  <2>5. Quiet(n, c)
    BY <1>1, <1>10, <2>1, <2>3, <2>4 DEF Quiet
  <2>. QED
    BY <1>4, <2>5
<1>12. ASSUME NEW n \in Change, RejectConfig(n) \/ WriteConfig(n) PROVE LastWordInv'
  <2>1. PICK r \in ChangeRecord : r = change[n] /\ r.pc = "write" /\ r.kind = "configure" /\ r.saved = 0
    BY <1>1, <1>10, <1>12 DEF RejectConfig, WriteConfig
  <2>2. UNCHANGED <<config, saves, changes>>
    BY <1>12 DEF RejectConfig, WriteConfig
  <2>3. \/ change' = [change EXCEPT ![n] = Finished(r)]
        \/ change' = [change EXCEPT ![n] = [r EXCEPT !.pc = "commit", !.locked = TRUE]]
    BY <1>12, <2>1 DEF RejectConfig, WriteConfig
  <2>4. CASE change' = [change EXCEPT ![n] = Finished(r)]
    <3>1. Quiet(n, Finished(r))
      BY <1>1, <1>10, <2>1, <2>2, <2>4 DEF Quiet
    <3>. QED
      BY <1>4, <3>1
  <2>5. CASE change' = [change EXCEPT ![n] = [r EXCEPT !.pc = "commit", !.locked = TRUE]]
    <3>1. PICK c : c = [r EXCEPT !.pc = "commit", !.locked = TRUE]
      OBVIOUS
    <3>2. c \in ChangeRecord /\ c.before = r.before /\ c.since = r.since /\ c.saved = 0
      BY <2>1, <3>1 DEF ChangeRecord, ChangePc
    <3>3. Writing(n)
      BY <2>1 DEF Writing
    <3>4. Quiet(n, c)
      BY <1>1, <1>10, <2>1, <2>2, <2>5, <3>1, <3>2, <3>3 DEF Quiet
    <3>. QED
      BY <1>4, <3>4
  <2>. QED
    BY <2>3, <2>4, <2>5
<1>13. ASSUME NEW n \in Change, ReadBinding(n) \/ WriteBinding(n) \/ ResolveConfig(n) \/ ResolveBindings(n)
       PROVE  LastWordInv'
  <2>1. PICK r \in ChangeRecord : r = change[n] /\ r.pc \in {"read", "write", "bindings"} /\ r.saved = 0
    BY <1>1, <1>10, <1>13 DEF ReadBinding, WriteBinding, ResolveConfig, ResolveBindings
  <2>2. UNCHANGED <<config, saves, changes>> /\ change'[n] \in ChangeRecord
    BY <1>1, <1>13 DEF ReadBinding, WriteBinding, ResolveConfig, ResolveBindings, SettingsInv, SettingsTypeOK
  <2>3. PICK c : c = change'[n] /\ change' = [change EXCEPT ![n] = c]
    BY <1>1, <1>13, <2>1 DEF ReadBinding, WriteBinding, ResolveConfig, ResolveBindings
  <2>4. \/ c = Finished(r)
        \/ r.kind = "bind" /\ c = [r EXCEPT !.bound = binding[r.task], !.pc = "write"]
        \/ c = [r EXCEPT !.found = RowOf(config), !.pc = "bindings"]
        \/ \E e : c = [r EXCEPT !.pc = "done", !.effective = e]
    BY <1>1, <1>13, <2>1, <2>3 DEF ReadBinding, WriteBinding, ResolveConfig, ResolveBindings
  <2>5. CASE c = Finished(r)
    <3>1. Quiet(n, c)
      BY <1>1, <1>10, <2>1, <2>2, <2>3, <2>5 DEF Quiet
    <3>. QED
      BY <1>4, <3>1
  <2>6. CASE c # Finished(r)
    <3>1. c.since = r.since /\ c.saved = 0 /\ (c.pc = "write" => c.kind = "bind") /\ c.pc # "commit"
      BY <2>1, <2>4, <2>6 DEF ChangeRecord
    <3>2. Quiet(n, c)
      BY <1>1, <1>10, <2>1, <2>2, <2>3, <3>1 DEF Quiet
    <3>. QED
      BY <1>4, <3>2
  <2>. QED
    BY <2>5, <2>6
<1>14. CASE ChangeProvider \/ DeleteProvider \/ \E m \in Model : ChangeModel(m) \/ DeleteModel(m)
  <2>1. UNCHANGED <<config, change, saves>> /\ changes' = changes + 1
    BY <1>14 DEF ChangeProvider, DeleteProvider, ChangeModel, DeleteModel, Count
  <2>. QED
    BY <1>1, <1>5, <2>1
<1>15. CASE UNCHANGED settingVars
  BY <1>1, <1>5, <1>15 DEF settingVars
<1>. QED
  BY <1>3, <1>9, <1>11, <1>12, <1>13, <1>14, <1>15 DEF SettingsNext

(* Users who change different keys keep each other's changes, whoever       *)
(* commits last; of two who change the same one, the later reader's stays,  *)
(* also if it sent the value that it had read.                              *)
THEOREM KeysAlwaysKeepTheLastWord ==
  ASSUME ChangesAreBounded
  PROVE  SettingsSpec => []KeysKeepTheLastWord
<1>1. SettingsInit => LastWordInv
  <2>1. SUFFICES ASSUME SettingsInit PROVE LastWordInv
    OBVIOUS
  <2>2. \A n \in Change : change[n].saved = 0 /\ change[n].since = 0 /\ change[n].pc = "new"
    BY <2>1 DEF SettingsInit, NewChange
  <2>3. \A n \in Change : SavedInv(n)
    BY <2>1, <2>2 DEF SavedInv, SettingsInit
  <2>4. \A k \in Setting : RowOf(config)[k] = Unset
    BY <2>1 DEF SettingsInit, RowOf, Empty
  <2>5. \A k \in Setting : KeyInv(k)
    BY <2>2, <2>4 DEF KeyInv, Gave, Writing
  <2>. QED
    BY <2>3, <2>5 DEF LastWordInv
<1>2. SettingsInv /\ LastWordInv /\ [SettingsNext]_settingVars => LastWordInv'
  BY LastWordStep
<1>3. LastWordInv => KeysKeepTheLastWord
  BY DEF LastWordInv, KeyInv, KeysKeepTheLastWord
<1>. QED
  BY <1>1, <1>2, <1>3, SettingsInvariant, PTL DEF SettingsSpec

(* A task is given to a model that exists, is enabled and has the type of   *)
(* the task, whatever changed between the check of the binding and its use. *)
THEOREM TasksAlwaysGetFittingModels ==
  ASSUME ChangesAreBounded
  PROVE  SettingsSpec => TasksGetFittingModels
<1>1. SettingsInv /\ [SettingsNext]_settingVars =>
        [\A n \in Change : change[n].pc = "bindings" /\ change'[n].pc = "done" =>
           \A t \in Task : LET m == change'[n].effective[t] IN
             m # Unbound => /\ model[m].exists /\ model[m].enabled /\ provider.exists
                            /\ model[m].type = Expected(t)]_settingVars
  <2>1. SUFFICES ASSUME SettingsInv, [SettingsNext]_settingVars, NEW n \in Change,
                        change[n].pc = "bindings", change'[n].pc = "done", NEW t \in Task,
                        NEW m, m = change'[n].effective[t], m # Unbound
                 PROVE  /\ model[m].exists /\ model[m].enabled /\ provider.exists
                        /\ model[m].type = Expected(t)
    OBVIOUS
  <2>2. ResolveBindings(n)
    BY <2>1, SettingsStep
  <2>3. change'[n].effective =
          [u \in Task |-> IF binding[u] # Unbound /\ Applied(u, binding[u])
                          THEN binding[u] ELSE Unbound]
    BY <2>1, <2>2, ResolveBindingsStep
  <2>4. m = binding[t] /\ Applied(t, m)
    BY <2>1, <2>3
  <2>5. m \in Model
    BY <2>1, <2>4 DEF SettingsInv, SettingsTypeOK
  <2>6. QED
    BY <2>1, <2>4, <2>5 DEF Applied, SettingsInv, ModelsInv
<1>2. QED
  BY <1>1, SettingsInvariant, PTL DEF SettingsSpec, TasksGetFittingModels
=============================================================================
