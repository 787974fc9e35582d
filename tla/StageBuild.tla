----------------------------- MODULE StageBuild -----------------------------
(***************************************************************************)
(* What an indexing pipeline promises of the results it calls fresh: it is *)
(* an incremental build over ordered stages.  A stage is built only on     *)
(* fresh earlier stages, starting it makes its own result and every later  *)
(* one out of date, and the build is complete only when the last stage has *)
(* been built on fresh results of all the others.                          *)
(***************************************************************************)
EXTENDS Integers

CONSTANT Last       (* The last stage; stages are 1 .. Last.                 *)

VARIABLES
  fresh,            (* Stages whose result is up to date.                    *)
  building,         (* The stage being built, 0 for none.                    *)
  complete          (* The whole build is done.                              *)

buildVars == <<fresh, building, complete>>

BuildInit ==
  /\ fresh = {}
  /\ building = 0
  /\ complete = FALSE

Earlier(s) == 1 .. s - 1

Start(s) ==
  /\ building = 0
  /\ Earlier(s) \subseteq fresh
  /\ building' = s
  /\ fresh' = fresh \cap Earlier(s)
  /\ complete' = FALSE

Succeed ==
  /\ building # 0
  /\ fresh' = fresh \cup {building}
  /\ complete' = (building = Last)
  /\ building' = 0

(* The attempt fails or is lost. *)
GiveUp ==
  /\ building # 0
  /\ building' = 0
  /\ UNCHANGED <<fresh, complete>>

(* The whole build is declared failed between two stages. *)
Declare ==
  /\ building = 0
  /\ complete' = FALSE
  /\ UNCHANGED <<fresh, building>>

BuildNext ==
  \/ \E s \in 1 .. Last : Start(s)
  \/ Succeed
  \/ GiveUp
  \/ Declare

BuildSpec == BuildInit /\ [][BuildNext]_buildVars
=============================================================================
