----------------------------- MODULE ModelLoading -----------------------------
(***************************************************************************)
(* The cross encoder of the fine reranking: every request has its own      *)
(* reranker, which loads the model in a thread through a cache without a   *)
(* lock; predictions of a model take turns by a lock per model's key.      *)
(***************************************************************************)
EXTENDS Integers, FiniteSets

CONSTANTS
  Request,        (* Requests at the same time.                             *)
  ModelKey,       (* Models, by name, device and length.                    *)
  None,
  MaxFailures     (* Bound: loads and predictions that fail.                *)

VARIABLES
  key,            (* The model that a request's settings name.              *)
  pc,             (* Where a request is.                                    *)
  cached,         (* The keys whose model is in the cache.                  *)
  guard,          (* The request that holds _MODEL_LOCK_GUARD.              *)
  locks,          (* _MODEL_PREDICT_LOCKS: a key's lock, by who made it.    *)
  lock,           (* The lock that a request has got,                       *)
  holder,         (* and who holds a lock.                                  *)
  mistakes

loadVars == <<key, pc, cached, guard, locks, lock, holder, mistakes>>

-----------------------------------------------------------------------------
LoadInit ==
  /\ key \in [Request -> ModelKey]
  /\ pc = [r \in Request |-> "asked"]
  /\ cached = {}
  /\ guard = None
  /\ locks = [k \in ModelKey |-> None]
  /\ lock = [r \in Request |-> None]
  /\ holder = [r \in Request |-> None]
  /\ mistakes = 0

Goes(r, from, to) == pc[r] = from /\ pc' = [pc EXCEPT ![r] = to]

(* _cached_cross_encoder: requests that find no model all load one.         *)
LookUp(r) ==
  /\ Goes(r, "asked", IF key[r] \in cached THEN "loaded" ELSE "loading")
  /\ UNCHANGED <<key, cached, guard, locks, lock, holder, mistakes>>

Load(r) ==
  /\ Goes(r, "loading", "loaded")
  /\ cached' = cached \cup {key[r]}
  /\ UNCHANGED <<key, guard, locks, lock, holder, mistakes>>

(* _predict_lock_for                                                        *)
EnterUnguarded(r) ==
  /\ Goes(r, "loaded", "guarded")
  /\ UNCHANGED <<key, cached, guard, locks, lock, holder, mistakes>>

Enter(r) ==
  /\ guard = None
  /\ Goes(r, "loaded", "guarded")
  /\ guard' = r
  /\ UNCHANGED <<key, cached, locks, lock, holder, mistakes>>

FindLock(r) ==
  /\ Goes(r, "guarded", IF locks[key[r]] = None THEN "make" ELSE "leave")
  /\ lock' = [lock EXCEPT ![r] = locks[key[r]]]
  /\ UNCHANGED <<key, cached, guard, locks, holder, mistakes>>

MakeLock(r) ==
  /\ Goes(r, "make", "leave")
  /\ locks' = [locks EXCEPT ![key[r]] = r]
  /\ lock' = [lock EXCEPT ![r] = r]
  /\ UNCHANGED <<key, cached, guard, holder, mistakes>>

Leave(r) ==
  /\ Goes(r, "leave", "turn")
  /\ guard' = None
  /\ UNCHANGED <<key, cached, locks, lock, holder, mistakes>>

Acquire(r) ==
  /\ Goes(r, "turn", "predicting")
  /\ holder[lock[r]] = None
  /\ holder' = [holder EXCEPT ![lock[r]] = r]
  /\ UNCHANGED <<key, cached, guard, locks, lock, mistakes>>

(* The prediction ends, or raises: the lock is given back in both cases.    *)
Release(r, outcome) ==
  /\ outcome = "failed" => mistakes < MaxFailures
  /\ Goes(r, "predicting", outcome)
  /\ holder' = [holder EXCEPT ![lock[r]] = None]
  /\ mistakes' = IF outcome = "failed" THEN mistakes + 1 ELSE mistakes
  /\ UNCHANGED <<key, cached, guard, locks, lock>>

LoadFails(r) ==
  /\ mistakes < MaxFailures
  /\ Goes(r, "loading", "failed")
  /\ mistakes' = mistakes + 1
  /\ UNCHANGED <<key, cached, guard, locks, lock, holder>>

LoadNext ==
  \E r \in Request :
    \/ LookUp(r)
    \/ Load(r)
    \/ Enter(r)
    \/ FindLock(r)
    \/ MakeLock(r)
    \/ Leave(r)
    \/ Acquire(r)
    \/ \E outcome \in {"ranked", "failed"} : Release(r, outcome)
    \/ LoadFails(r)

LoadSpec == LoadInit /\ [][LoadNext]_loadVars

-----------------------------------------------------------------------------
(* A model makes one prediction at a time, also if the requests loaded it   *)
(* at the same time, before any lock for it existed; and requests wait only *)
(* while another one is predicting: the locks never leave all waiting.      *)
PredictsOneAtATime ==
  /\ \A q, r \in Request :
       q # r /\ pc[q] = "predicting" /\ pc[r] = "predicting" => key[q] # key[r]
  /\ \A r \in Request :
       pc[r] = "turn" /\ holder[lock[r]] # None =>
         \E q \in Request : q # r /\ pc[q] = "predicting" /\ key[q] = key[r]

-----------------------------------------------------------------------------
(* Inductive invariant. *)

PC == {"asked", "loading", "loaded", "guarded", "make", "leave", "turn", "predicting",
       "ranked", "failed"}

LoadTypeOK ==
  /\ key \in [Request -> ModelKey]
  /\ pc \in [Request -> PC]
  /\ cached \subseteq ModelKey
  /\ guard \in Request \cup {None}
  /\ locks \in [ModelKey -> Request \cup {None}]
  /\ lock \in [Request -> Request \cup {None}]
  /\ holder \in [Request -> Request \cup {None}]

(* The guard lets one request at a time look for the lock of its model, so  *)
(* that a lock is made once: all who have one have the one that is listed.  *)
GuardInv ==
  \A r \in Request :
    /\ pc[r] \in {"guarded", "make", "leave"} => guard = r
    /\ pc[r] = "make" => locks[key[r]] = None
    /\ pc[r] \in {"leave", "turn", "predicting"} => lock[r] # None /\ lock[r] = locks[key[r]]

(* Models have different locks, and who holds a lock is predicting.         *)
HolderInv ==
  /\ \A k \in ModelKey : locks[k] # None => key[locks[k]] = k
  /\ \A r \in Request :
       /\ pc[r] = "predicting" => holder[lock[r]] = r
       /\ holder[r] # None => pc[holder[r]] = "predicting" /\ lock[holder[r]] = r

LoadInv == LoadTypeOK /\ GuardInv /\ HolderInv
==============================================================================
