---------------------------- MODULE DatasetFiles ----------------------------
(***************************************************************************)
(* One dataset: its row, the sources it lists, and the requests to         *)
(* /datasets that change them.  A request works in one transaction under   *)
(* READ COMMITTED, which get_dataset_service commits after the handler has *)
(* returned and its answer has been sent.                                  *)
(***************************************************************************)
EXTENDS Integers, Sequences, FiniteSets

CONSTANTS
  Source,         (* The sources that can be added.                         *)
  Lists,          (* The lists of sources that requests come with.          *)
  Field,          (* The fields of a dataset that an update may set.        *)
  MaxRequests     (* Bound: requests received in a behaviour.               *)

VARIABLES
  dataset,        (* The committed row: per field who wrote it, or Absent.  *)
  files,          (* The committed dataset_files rows.                      *)
  request,        (* The requests.                                          *)
  received        (* Requests received so far.                              *)

datasetVars == <<dataset, files, request, received>>

-----------------------------------------------------------------------------
Caller  == 1 .. MaxRequests
Kind    == {"create", "update", "delete", "add", "remove"}
DatasetRow     == [Field -> 0 .. MaxRequests]
Initial == [f \in Field |-> 0]
Absent  == <<>>

(* pc is the next statement: get (the dataset is read), exists and insert   *)
(* (of the file list[1]), reread and flush (of an update), write (the one   *)
(* statement of a create, delete or remove), commit.                        *)
RequestPc == {"new", "get", "exists", "insert", "reread", "flush", "write", "commit", "failed", "done"}

(* list are the files still to go through, all those that were asked for;   *)
(* put, gone and dirty are what the open transaction has changed; kept says *)
(* that nothing was removed since it began.                                 *)
NewRequest ==
  [pc |-> "new", kind |-> "create", list |-> <<>>, all |-> {}, given |-> {}, first |-> Initial,
   second |-> Initial, put |-> {}, gone |-> {}, dirty |-> {}, locked |-> FALSE, kept |-> TRUE]

Failed(r) == [r EXCEPT !.pc = "failed", !.put = {}, !.gone = {}, !.dirty = {}, !.locked = FALSE]

(* Requests whose transaction has changed, inserted or deleted the dataset, *)
(* or shares it through the foreign key of a row it inserted.               *)
Locking == {n \in Caller : request[n].locked}
Sharing == {n \in Caller : request[n].put # {}}

(* The requests the next statement of n has to wait for.                    *)
Blockers(n) ==
  LET r == request[n]
      Using(s) == {m \in Caller : s \in request[m].put \cup request[m].gone}
      others == Caller \ {n}
  IN  CASE r.pc = "insert" -> others \cap (Using(Head(r.list)) \cup
                                           {m \in Locking : request[m].kind # "update"})
        [] r.pc = "flush"  -> others \cap Locking
        [] r.pc = "write" /\ r.kind = "remove" -> others \cap UNION {Using(s) : s \in r.all \cap files}
        [] r.pc = "write" /\ r.kind = "delete" ->
             others \cap (Locking \cup Sharing \cup UNION {Using(s) : s \in files})
        [] r.pc = "write" /\ r.kind = "create" -> others \cap Locking
        [] OTHER -> {}

-----------------------------------------------------------------------------
DatasetInit ==
  /\ dataset = Initial
  /\ files = {}
  /\ request = [n \in Caller |-> NewRequest]
  /\ received = 0

Receive(kind) ==
  /\ received < MaxRequests
  /\ received' = received + 1
  /\ \E list \in Lists, given \in SUBSET Field :
       /\ kind \notin {"add", "remove"} => list = <<>>
       /\ kind = "remove" => Len(list) = 1
       /\ (given = {}) = (kind # "update")
       /\ request' = [request EXCEPT ![received + 1] =
            [NewRequest EXCEPT !.pc = IF kind = "create" THEN "write" ELSE "get",
                               !.kind = kind, !.list = list, !.given = given,
                               !.all = {list[i] : i \in DOMAIN list}]]
  /\ UNCHANGED <<dataset, files>>

(* get_dataset; adding nothing is an invalid request.                       *)
Get(n) ==
  LET r == request[n] IN
  /\ r.pc = "get"
  /\ request' = [request EXCEPT ![n] =
       IF dataset = Absent \/ (r.kind = "add" /\ r.list = <<>>) THEN Failed(r)
       ELSE [r EXCEPT !.first = dataset,
                      !.pc = CASE r.kind = "add"    -> "exists"
                               [] r.kind = "update" -> "reread"
                               [] OTHER             -> "write"]]
  /\ UNCHANGED <<dataset, files, received>>

ExistsStopping(n) ==
  LET r == request[n] IN
  /\ r.pc = "exists"
  /\ request' = [request EXCEPT ![n] =
       IF r.list = <<>> \/ Head(r.list) \in files \cup r.put THEN [r EXCEPT !.pc = "commit"]
                                                             ELSE [r EXCEPT !.pc = "insert"]]
  /\ UNCHANGED <<dataset, files, received>>

(* add_files skips a source that is listed already, *)
Exists(n) ==
  LET r == request[n] IN
  /\ r.pc = "exists"
  /\ request' = [request EXCEPT ![n] =
       CASE r.list = <<>> -> [r EXCEPT !.pc = "commit"]
         [] r.list # <<>> /\ Head(r.list) \in files \cup r.put -> [r EXCEPT !.list = Tail(@)]
         [] OTHER -> [r EXCEPT !.pc = "insert"]]
  /\ UNCHANGED <<dataset, files, received>>

(* and inserts the others one by one, unless the row has been committed in  *)
(* between or the dataset is gone.                                          *)
Refused(n) == Head(request[n].list) \in files \/ dataset = Absent

Insert(n) ==
  LET r == request[n] IN
  /\ r.pc = "insert"
  /\ Blockers(n) = {}
  /\ request' = [request EXCEPT ![n] =
       IF Refused(n) THEN Failed(r)
       ELSE [r EXCEPT !.put = @ \cup {Head(r.list)}, !.list = Tail(@), !.pc = "exists"]]
  /\ UNCHANGED <<dataset, files, received>>

(* The repository's update reads the row again, the first object is gone,   *)
Reread(n) ==
  LET r == request[n] IN
  /\ r.pc = "reread"
  /\ request' = [request EXCEPT ![n] =
       IF dataset = Absent THEN Failed(r) ELSE [r EXCEPT !.second = dataset, !.pc = "flush"]]
  /\ UNCHANGED <<dataset, files, received>>

(* The value of a field that was not given is the one first read.           *)
Value(n, f) == IF f \in request[n].given THEN n ELSE request[n].first[f]

ChangedEvery(n) == Field

(* and the session writes the columns that differ from that second reading. *)
Changed(n) == {f \in Field : Value(n, f) # request[n].second[f]}

Flush(n) ==
  LET r == request[n] IN
  /\ r.pc = "flush"
  /\ Blockers(n) = {}
  /\ request' = [request EXCEPT ![n] =
       IF dataset = Absent THEN Failed(r)
       ELSE [r EXCEPT !.dirty = Changed(n), !.locked = TRUE, !.pc = "commit"]]
  /\ UNCHANGED <<dataset, files, received>>

(* A dataset is created under an id that is not in use, a file is removed   *)
(* that is listed, and a dataset is deleted with its files.                 *)
Write(n) ==
  LET r == request[n]
      ok == CASE r.kind = "create" -> dataset = Absent
              [] r.kind = "remove" -> r.all \subseteq files
              [] OTHER             -> dataset # Absent
  IN
  /\ r.pc = "write"
  /\ Blockers(n) = {}
  /\ request' = [request EXCEPT ![n] =
       IF ~ok /\ r.kind # "delete" THEN Failed(r)
       ELSE [r EXCEPT !.pc = "commit", !.locked = ok /\ r.kind # "remove",
                      !.gone = CASE r.kind = "remove" -> r.all
                                 [] r.kind = "delete" -> files
                                 [] OTHER             -> {}]]
  /\ UNCHANGED <<dataset, files, received>>

(* The session is committed when the answer is out.                         *)
Commit(n) ==
  LET r == request[n] IN
  /\ r.pc = "commit"
  /\ files' = (files \cup r.put) \ r.gone
  /\ dataset' = CASE r.kind = "delete" /\ r.locked -> Absent
                  [] r.kind = "create" -> [f \in Field |-> n]
                  [] r.kind = "update" -> [f \in Field |-> IF f \in r.dirty THEN Value(n, f) ELSE dataset[f]]
                  [] OTHER -> dataset
  /\ request' = [m \in Caller |->
       IF m = n THEN [r EXCEPT !.pc = "done", !.put = {}, !.gone = {}, !.dirty = {}, !.locked = FALSE]
       ELSE IF r.kind \in {"remove", "delete"} THEN [request[m] EXCEPT !.kept = FALSE] ELSE request[m]]
  /\ UNCHANGED received

(* An exception rolls the transaction back; so does the database, for one   *)
(* of two requests that wait for each other, and a server that dies.        *)
RollBack(n) ==
  /\ request[n].pc \notin {"new", "failed", "done"}
  /\ request' = [request EXCEPT ![n] = Failed(@)]
  /\ UNCHANGED <<dataset, files, received>>

DatasetNext ==
  \/ \E kind \in Kind : Receive(kind)
  \/ \E n \in Caller :
       \/ Get(n)
       \/ Exists(n)
       \/ Insert(n)
       \/ Reread(n)
       \/ Flush(n)
       \/ Write(n)
       \/ Commit(n)
       \/ RollBack(n)

DatasetSpec == DatasetInit /\ [][DatasetNext]_datasetVars

-----------------------------------------------------------------------------
Commits(n) == request[n].pc = "commit" /\ request'[n].pc = "done"

(* However requests that add overlapping lists interleave, one that commits *)
(* leaves every source of its list in the dataset, if nothing was removed   *)
(* meanwhile, and each of them was put there by one of the requests only.   *)
AddsAreComplete ==
  [][\A n \in Caller : Commits(n) /\ request[n].kind = "add" =>
       /\ request[n].kept => request[n].all \subseteq files'
       /\ request[n].put \cap files = {}]_datasetVars

(* An update leaves the fields it was not given alone, whatever commits     *)
(* meanwhile, except that it takes back an update which committed between   *)
(* its own two readings of the row.                                         *)
UpdatesKeepOtherFields ==
  [][\A n \in Caller : Commits(n) /\ request[n].kind = "update" =>
       \A f \in Field \ request[n].given :
         dataset'[f] # dataset[f] => request[n].first[f] # request[n].second[f]]_datasetVars

-----------------------------------------------------------------------------
(* Inductive invariant. *)

RequestRecord == [pc : RequestPc, kind : Kind, list : Seq(Source), all : SUBSET Source, given : SUBSET Field,
            first : DatasetRow, second : DatasetRow, put : SUBSET Source, gone : SUBSET Source,
            dirty : SUBSET Field, locked : BOOLEAN, kept : BOOLEAN]

DatasetTypeOK ==
  /\ dataset \in DatasetRow \cup {Absent}
  /\ files \subseteq Source
  /\ request \in [Caller -> RequestRecord]
  /\ received \in 0 .. MaxRequests

Elements(list) == {list[i] : i \in 1 .. Len(list)}

(* The sources a request has gone through are in the dataset or put there   *)
(* by itself, if nothing was removed; no two requests put the same one, nor *)
(* does one put what is in the dataset.                                     *)
ListInv(n) ==
  LET r == request[n] IN
  /\ r.kind = "add" /\ r.pc \in {"get", "exists", "insert", "commit"} /\ r.kept =>
       r.all \subseteq files \cup r.put \cup Elements(r.list)
  /\ r.kind = "add" => r.pc \in {"new", "get", "exists", "insert", "commit", "failed", "done"}
  /\ r.kind = "add" /\ r.pc = "commit" => r.list = <<>>
  /\ r.pc = "insert" => r.kind = "add" /\ r.list # <<>>
  /\ r.pc = "exists" => r.kind = "add"
  /\ r.gone # {} => r.kind \in {"remove", "delete"}

PutInv ==
  \A n \in Caller :
    /\ request[n].put \cap files = {}
    /\ \A m \in Caller \ {n} : request[n].put \cap request[m].put = {}

(* An update writes what it would change in the row as it read it last.     *)
DirtyInv(n) == /\ request[n].dirty \subseteq Changed(n)
               /\ request[n].dirty # {} => request[n].pc = "commit"

(* One transaction at most has changed the row; an update's is still there  *)
(* when it commits.                                                         *)
LockInv(n) ==
  LET r == request[n] IN
  /\ r.locked => /\ r.pc = "commit"
                 /\ \A m \in Caller \ {n} : ~request[m].locked
                 /\ r.kind = "update" => dataset # Absent
  /\ r.pc = "commit" /\ r.kind \in {"create", "update"} => r.locked
  /\ r.pc = "write" => r.kind \in {"create", "delete", "remove"}

DatasetInv ==
  /\ DatasetTypeOK
  /\ PutInv
  /\ \A n \in Caller : ListInv(n) /\ DirtyInv(n) /\ LockInv(n)
=============================================================================
