---------------------------- MODULE SourceFiles ----------------------------
(***************************************************************************)
(* Uploaded sources: the file of a source on the local disk, its directory *)
(* of indexing artifacts, and its sources row.  A file is on the disk      *)
(* before there is a row and stays until the row is gone; neither is part  *)
(* of a transaction.                                                       *)
(***************************************************************************)
EXTENDS Integers, FiniteSets

CONSTANTS
  Id,             (* The source ids an upload may name or be given.         *)
  Fresh,          (* TRUE: an upload has an id that none had before, which  *)
                  (* is what it gets when it names none.                    *)
  MaxOps,         (* Bound: requests received in a behaviour.               *)
  MaxFailures     (* Bound: failures of the disk, the database or a server. *)

VARIABLES
  row,            (* Per source, the upload its row describes, 0 for none.  *)
  disk,           (* Per source, the upload whose content the file has, 0   *)
                  (* if there is no file.                                   *)
  artifacts,      (* The sources with a directory of artifacts.             *)
  op,             (* The requests.                                          *)
  ops,            (* Requests received so far.                              *)
  failures,       (* Failures so far.                                       *)
  crossed         (* History: the sources that were removed while a request *)
                  (* was about to write artifacts of theirs.                *)

storageVars == <<row, disk, artifacts, op, ops, failures, crossed>>

-----------------------------------------------------------------------------
Op   == 1 .. MaxOps
OpTask == {"upload", "remove", "capture"}

(* pc is what is done next:                                                 *)
(*   save insert            an upload's file and row                        *)
(*   read write             a capture reads the row and writes an artifact  *)
(*   read delete file artifacts   a removal, in this order                  *)
OpPc == {"new", "save", "insert", "read", "delete", "file", "artifacts", "write", "done"}

OpRecord == [pc : OpPc, task : OpTask, id : Id]
Done(n) == op' = [op EXCEPT ![n].pc = "done"]
Goes(n, step) == op' = [op EXCEPT ![n].pc = step]
Used    == {i \in Id : \E n \in Op : op[n].pc # "new" /\ op[n].task = "upload" /\ op[n].id = i}

StorageInit ==
  /\ row = [i \in Id |-> 0]
  /\ disk = [i \in Id |-> 0]
  /\ artifacts = {}
  /\ op = [n \in Op |-> [pc |-> "new", task |-> "upload", id |-> CHOOSE i \in Id : TRUE]]
  /\ ops = 0
  /\ failures = 0
  /\ crossed = {}

ReceiveOp(task, i) ==
  /\ ops < MaxOps
  /\ task = "upload" /\ Fresh => i \notin Used
  /\ ops' = ops + 1
  /\ op' = [op EXCEPT ![ops + 1] = [pc |-> IF task = "upload" THEN "save" ELSE "read",
                                    task |-> task, id |-> i]]
  /\ UNCHANGED <<row, disk, artifacts, failures, crossed>>

(* save_upload writes the file, over one of that name, unless it is empty   *)
(* or too large.                                                            *)
Save(n) ==
  /\ op[n].pc = "save"
  /\ \/ /\ disk' = [disk EXCEPT ![op[n].id] = n]
        /\ Goes(n, "insert")
     \/ /\ UNCHANGED disk
        /\ Done(n)
  /\ UNCHANGED <<row, artifacts, ops, failures, crossed>>

(* create_source: an id that is in use is refused, the file stays.          *)
InsertRow(n) ==
  /\ op[n].pc = "insert"
  /\ row' = [row EXCEPT ![op[n].id] = IF @ = 0 THEN n ELSE @]
  /\ Done(n)
  /\ UNCHANGED <<disk, artifacts, ops, failures, crossed>>

FilesBeforeRow(step) == CASE step = "read" -> "file" [] step = "file" -> "artifacts"
                          [] step = "artifacts" -> "delete" [] OTHER -> "done"

KeepingArtifacts(step) == CASE step = "read" -> "delete" [] step = "delete" -> "file"
                            [] OTHER -> "done"

(* The steps of delete_source, after the index of the source is cleared.    *)
After(step) == CASE step = "read" -> "delete" [] step = "delete" -> "file"
                 [] step = "file" -> "artifacts" [] OTHER -> "done"

(* _get_source_or_raise, of a removal or of a request that will write       *)
(* artifacts.                                                               *)
Read(n) ==
  /\ op[n].pc = "read"
  /\ Goes(n, IF row[op[n].id] = 0 THEN "done"
             ELSE IF op[n].task = "capture" THEN "write" ELSE After("read"))
  /\ UNCHANGED <<row, disk, artifacts, ops, failures, crossed>>

(* write_json and write_jsonl make the directories they need.               *)
WriteArtifact(n) ==
  /\ op[n].pc = "write"
  /\ artifacts' = artifacts \cup {op[n].id}
  /\ Done(n)
  /\ UNCHANGED <<row, disk, ops, failures, crossed>>

(* The files are only deleted if a row was.                                 *)
DeleteRow(n) ==
  /\ op[n].pc = "delete"
  /\ row' = [row EXCEPT ![op[n].id] = 0]
  /\ Goes(n, IF row[op[n].id] = 0 THEN "done" ELSE After("delete"))
  /\ crossed' = crossed \cup {op[m].id : m \in {m \in Op : op[m].pc = "write" /\ op[m].id = op[n].id}}
  /\ UNCHANGED <<disk, artifacts, ops, failures>>

(* A failure to delete files is logged and the removal goes on.             *)
DeleteFile(n) ==
  /\ op[n].pc = "file"
  /\ \/ disk' = [disk EXCEPT ![op[n].id] = 0] /\ UNCHANGED failures
     \/ failures < MaxFailures /\ failures' = failures + 1 /\ UNCHANGED disk
  /\ Goes(n, After("file"))
  /\ UNCHANGED <<row, artifacts, ops, crossed>>

DeleteArtifacts(n) ==
  /\ op[n].pc = "artifacts"
  /\ \/ artifacts' = artifacts \ {op[n].id} /\ UNCHANGED failures
     \/ failures < MaxFailures /\ failures' = failures + 1 /\ UNCHANGED artifacts
  /\ Goes(n, After("artifacts"))
  /\ UNCHANGED <<row, disk, ops, crossed>>

(* The server dies or the transaction is refused.                           *)
Fail(n) ==
  /\ failures < MaxFailures
  /\ op[n].pc \notin {"new", "done"}
  /\ failures' = failures + 1
  /\ Done(n)
  /\ UNCHANGED <<row, disk, artifacts, ops, crossed>>

StorageNext ==
  \/ \E task \in OpTask, i \in Id : ReceiveOp(task, i)
  \/ \E n \in Op :
       \/ Save(n)
       \/ InsertRow(n)
       \/ Read(n)
       \/ WriteArtifact(n)
       \/ DeleteRow(n)
       \/ DeleteFile(n)
       \/ DeleteArtifacts(n)
       \/ Fail(n)

StorageSpec == StorageInit /\ [][StorageNext]_storageVars

-----------------------------------------------------------------------------
(* A source that can be indexed has its file, with the content its hash was *)
(* taken of, whatever is lost between the steps of uploads and removals: as *)
(* long as no id is used twice.                                             *)
RowHasItsFile ==
  Fresh => \A i \in Id : row[i] # 0 => disk[i] = row[i]

(* After uploads and removals that were not disturbed by failures, quiet    *)
(* means clean: files and artifacts of existing sources only, unless a      *)
(* request was still writing artifacts when its source was removed.         *)
NothingLeftBehind ==
  /\ Fresh
  /\ failures = 0
  /\ \A n \in Op : op[n].pc \in {"new", "done"}
  => \A i \in Id : row[i] = 0 =>
       /\ disk[i] = 0
       /\ i \in artifacts => i \in crossed

-----------------------------------------------------------------------------
(* Inductive invariant. *)

StorageTypeOK ==
  /\ row \in [Id -> 0 .. MaxOps]
  /\ disk \in [Id -> 0 .. MaxOps]
  /\ artifacts \subseteq Id
  /\ op \in [Op -> OpRecord]
  /\ ops \in 0 .. MaxOps
  /\ failures \in Nat
  /\ crossed \subseteq Id

Uploads(n, i)  == op[n].task = "upload" /\ op[n].id = i
Removing(i)    == {n \in Op : op[n].id = i /\ op[n].pc \in {"file", "artifacts"}}

(* What the requests are at; those that have not come are new.              *)
OpInv ==
  \A n \in Op :
    /\ n > ops <=> op[n].pc = "new"
    /\ op[n].pc \in {"save", "insert"} => op[n].task = "upload"
    /\ op[n].pc \in {"read", "delete", "file", "artifacts", "write"} => op[n].task # "upload"
    /\ op[n].pc = "write" => row[op[n].id] # 0 \/ op[n].id \in crossed

(* As long as no id is used twice, a source has one upload,                 *)
OneUpload ==
  \A m, n \in Op : op[m].pc # "new" /\ op[n].pc # "new" /\ op[m].task = "upload"
                   /\ Uploads(n, op[m].id) => m = n

(* its file comes before its row                                            *)
PendingInv(n) ==
  /\ op[n].pc \in {"save", "insert"} => row[op[n].id] = 0 /\ Removing(op[n].id) = {}
  /\ op[n].pc = "insert" => disk[op[n].id] = n

(* and goes after it.                                                       *)
FileInv(i) ==
  /\ row[i] # 0 => /\ disk[i] = row[i] /\ Removing(i) = {}
                   /\ Uploads(row[i], i) /\ op[row[i]].pc = "done"
  /\ Removing(i) # {} => i \in Used

UploadInv ==
  /\ OneUpload
  /\ \A n \in Op : PendingInv(n)
  /\ \A i \in Id : FileInv(i)

(* Without a failure, somebody is about to give a file without a row its    *)
(* row, or to delete what is left of a source.                              *)
CleanInv ==
  \A i \in Id : row[i] = 0 =>
    /\ disk[i] # 0 => \E n \in Op : op[n].id = i /\ op[n].pc \in {"insert", "file"}
    /\ i \in artifacts => i \in crossed \/ Removing(i) # {}

StorageInv ==
  /\ StorageTypeOK
  /\ OpInv
  /\ Fresh => UploadInv
  /\ Fresh /\ failures = 0 => CleanInv
=============================================================================
