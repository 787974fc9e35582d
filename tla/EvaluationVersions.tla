-------------------------- MODULE EvaluationVersions --------------------------
(***************************************************************************)
(* The versions of one evaluation dataset: a version is created, or copied *)
(* from another with new ids for its test cases; cases are added, edited   *)
(* and deleted; two versions are compared by the ids.                      *)
(***************************************************************************)
EXTENDS Integers, Sequences, FiniteSets

CONSTANTS
  Part,           (* What ids are made of: "x_v2_v3" is <<x, 2, 3>>.        *)
  Given,          (* The ids that clients give to new cases.                *)
  CaseText,       (* Their questions and answers.                           *)
  MaxVersion,     (* Bound: versions, named 1 and up.                       *)
  MaxOps          (* Bound: operations.                                     *)

ASSUME GivenAssumption == Given \subseteq Seq(Part) \ {<<>>}

VARIABLES
  versions,       (* The versions that exist.                               *)
  cases,          (* Rows of eval_test_cases: the version and the text of   *)
                  (* an id.                                                 *)
  origin,         (* History: the new case that a row comes from, which is  *)
                  (* the id that it got and the operation that gave it.     *)
  report,         (* The last comparison, if nothing changed since.         *)
  ops

versionVars == <<versions, cases, origin, report, ops>>

-----------------------------------------------------------------------------
Version == 1 .. MaxVersion

Ids == DOMAIN cases

CasesOf(v) == {id \in Ids : cases[id].version = v}

(* get_base_id: the part before the first "_v".                             *)
BaseIdOfCopy(id) == IF Len(id) > 1 THEN SubSeq(id, 1, Len(id) - 1) ELSE id
BaseId(id)       == SubSeq(id, 1, 1)

NoReport == [added |-> 0, removed |-> 0, modified |-> 0, unchanged |-> 0, a |-> 0, b |-> 0]

VersionsInit ==
  /\ versions = {} /\ cases = <<>> /\ origin = <<>>
  /\ report = NoReport /\ ops = 0

Changes(newCases, newOrigin) ==
  /\ ops < MaxOps
  /\ ops' = ops + 1
  /\ cases' = newCases /\ origin' = newOrigin
  /\ report' = NoReport

With(f, new) == [x \in DOMAIN f \cup DOMAIN new |-> IF x \in DOMAIN new THEN new[x] ELSE f[x]]
Without(f, gone) == [x \in DOMAIN f \ gone |-> f[x]]

(* A name and version that exists is refused by the table's constraint, an  *)
(* id that exists by its primary key: nothing changes then.                 *)
Inserted(v, new) ==
  /\ DOMAIN new \cap Ids = {}
  /\ Changes(With(cases, [id \in DOMAIN new |-> [version |-> v, text |-> new[id]]]),
             With(origin, [id \in DOMAIN new |-> <<id, ops>>]))

Create(v, new) ==
  /\ v \notin versions
  /\ Inserted(v, new)
  /\ versions' = versions \cup {v}

CreateNewVersion(from, v) ==
  LET Copied(id) == SubSeq(id, 1, Len(id) - 1)
      copies     == {Append(id, v) : id \in CasesOf(from)}
  IN  /\ from \in versions /\ v \notin versions
      /\ copies \cap Ids = {}
      /\ Changes(With(cases, [id \in copies |-> [version |-> v, text |-> cases[Copied(id)].text]]),
                 With(origin, [id \in copies |-> origin[Copied(id)]]))
      /\ versions' = versions \cup {v}

AddTestCase(v, id, t) ==
  /\ v \in versions
  /\ Inserted(v, [x \in {id} |-> t])
  /\ UNCHANGED versions

UpdateTestCase(id, t) ==
  /\ Changes([cases EXCEPT ![id].text = t], origin)
  /\ UNCHANGED versions

DeleteTestCase(id) ==
  /\ Changes(Without(cases, {id}), Without(origin, {id}))
  /\ UNCHANGED versions

DeleteDataset(v) ==
  /\ v \in versions
  /\ Changes(Without(cases, CasesOf(v)), Without(origin, CasesOf(v)))
  /\ versions' = versions \ {v}

(* compare_dataset_versions: the cases of either version by their base id;  *)
(* of several with the same one is the last, and the rows have no order.    *)
ByBaseId(v) ==
  {by \in [{BaseId(id) : id \in CasesOf(v)} -> CasesOf(v)] : \A base \in DOMAIN by : BaseId(by[base]) = base}

Compared(a, b, inA, inB) ==
  LET common == DOMAIN inA \cap DOMAIN inB
      edited == {base \in common : cases[inA[base]].text # cases[inB[base]].text}
  IN  /\ a \in versions /\ b \in versions
      /\ report' = [added |-> Cardinality(DOMAIN inB \ DOMAIN inA),
                    removed |-> Cardinality(DOMAIN inA \ DOMAIN inB),
                    modified |-> Cardinality(edited),
                    unchanged |-> Cardinality(common) - Cardinality(edited), a |-> a, b |-> b]
      /\ UNCHANGED <<versions, cases, origin, ops>>

Compare(a, b) == \E inA \in ByBaseId(a), inB \in ByBaseId(b) : Compared(a, b, inA, inB)

VersionsNext ==
  \/ \E v \in Version, ids \in SUBSET Given :
       IsFiniteSet(ids) /\ \E new \in [ids -> CaseText] : Create(v, new)
  \/ \E v, w \in Version : CreateNewVersion(v, w)
  \/ \E v \in Version, id \in Given, t \in CaseText : AddTestCase(v, id, t)
  \/ \E id \in Ids : \/ \E t \in CaseText : UpdateTestCase(id, t)
                     \/ DeleteTestCase(id)
  \/ \E v \in Version : DeleteDataset(v)
  \/ \E a, b \in Version : Compare(a, b)

VersionsSpec == VersionsInit /\ [][VersionsNext]_versionVars

-----------------------------------------------------------------------------
(* A comparison says of each case of the two versions what happened to it   *)
(* between them: cases are the same if one new case is where both come from. *)
Same(v, id) == {other \in CasesOf(v) : origin[other] = origin[id]}

ComparisonCountsEachCase ==
  report # NoReport =>
    LET a == CasesOf(report.a)
        b == CasesOf(report.b)
        kept == {k \in a \X b : origin[k[1]] = origin[k[2]]}
    IN  /\ report.added = Cardinality({j \in b : Same(report.a, j) = {}})
        /\ report.removed = Cardinality({i \in a : Same(report.b, i) = {}})
        /\ report.modified = Cardinality({k \in kept : cases[k[1]].text # cases[k[2]].text})
        /\ report.unchanged = Cardinality({k \in kept : cases[k[1]].text = cases[k[2]].text})

(* It does so over any chain of copies of copies, whatever was deleted in   *)
(* between and given again, if the cases that the two versions come from    *)
(* were given ids with different base ids.                                  *)
GivenApart(rows) ==
  \A i, j \in rows : origin[i] # origin[j] => BaseId(origin[i][1]) # BaseId(origin[j][1])

ComparisonIsRight ==
  GivenApart(CasesOf(report.a) \cup CasesOf(report.b)) => ComparisonCountsEachCase

-----------------------------------------------------------------------------
(* What the proof rests on: a row keeps the base id of the new case that it *)
(* comes from, and a version has one row at most of each.                   *)
Case == [version : Version, text : CaseText]

VersionsInv ==
  /\ cases \in [Ids -> Case] /\ IsFiniteSet(Ids) /\ DOMAIN origin = Ids
  /\ ops \in Nat
  /\ \A id \in Ids : /\ id \in Seq(Part \cup Version) /\ id # <<>>
                     /\ BaseId(id) = BaseId(origin[id][1])
                     /\ origin[id][2] \in 0 .. ops - 1
                     /\ cases[id].version \in versions
  /\ \A i, j \in Ids : cases[i].version = cases[j].version /\ origin[i] = origin[j] => i = j
=============================================================================
