----------------------------- MODULE MCRecords -----------------------------
(***************************************************************************)
(* The small state machines around the database's records, each on its own *)
(* and all in one run: part names the one a behaviour is about.            *)
(***************************************************************************)
EXTENDS RefreshSessions, DatasetFiles, SourceFiles, RuntimeSettings

CONSTANTS b1, sA, sB, k1, k2, m1, v1

VARIABLES part

SomeLists == {<<>>, <<sA>>, <<sA, sB>>, <<sB, sA>>}

vars == <<authVars, datasetVars, storageVars, settingVars, part>>

Init ==
  /\ part \in {"auth", "datasets", "storage", "settings"}
  /\ AuthInit
  /\ DatasetInit
  /\ StorageInit
  /\ SettingsInit

Next ==
  \/ /\ part = "auth" /\ AuthNext
     /\ UNCHANGED <<datasetVars, storageVars, settingVars, part>>
  \/ /\ part = "datasets" /\ DatasetNext
     /\ UNCHANGED <<authVars, storageVars, settingVars, part>>
  \/ /\ part = "storage" /\ StorageNext
     /\ UNCHANGED <<authVars, datasetVars, settingVars, part>>
  \/ /\ part = "settings" /\ SettingsNext
     /\ UNCHANGED <<authVars, datasetVars, storageVars, part>>

Spec == Init /\ [][Next]_vars
=============================================================================
