-------------------------- MODULE RuntimeSettings --------------------------
(***************************************************************************)
(* Settings that users change at run time: the single row of               *)
(* configuration values, a provider with its models, and the models that   *)
(* are bound to the tasks of the service.  Every request to the service    *)
(* resolves its settings from these tables and the environment.  The       *)
(* transactions run under READ COMMITTED.                                  *)
(***************************************************************************)
EXTENDS Integers, FiniteSets

CONSTANTS
  Setting,        (* The keys of the configuration row.                     *)
  Choice,         (* The values that users give them.                       *)
  Model,          (* The models of the provider.                            *)
  MaxChanges      (* Bound: requests received in a behaviour.               *)

VARIABLES
  config,         (* The row: per key a value or Unset; or NoRow.           *)
  provider,       (* The provider's row.                                    *)
  model,          (* The provider_models rows.                              *)
  binding,        (* The model_default_bindings rows: Unbound or a model.   *)
  change,         (* The requests.                                          *)
  changes,        (* Requests received so far.                              *)
  saves           (* History: commits of the row so far.                    *)

settingVars == <<config, provider, model, binding, change, changes, saves>>

-----------------------------------------------------------------------------
Change  == 1 .. MaxChanges
NoRow   == <<>>
Unbound == "unbound"
Unset   == "unset"
Left    == "left"         (* Of a request: the key is not in it.            *)

(* The tasks of a model; a model of another type cannot be bound to it.     *)
Task         == {"answer_llm", "query_llm", "embedding", "rerank"}
AiType       == {"llm", "embedding", "rerank"}
Expected(t)  == IF t \in {"answer_llm", "query_llm"} THEN "llm" ELSE t
ProviderType == {"openai_compatible", "local_hash", "local_bge"}

(* What a provider of a type is used for by the service.                    *)
Serves(type) == CASE type = "openai_compatible" -> {"answer_llm", "query_llm", "embedding"}
                  [] type = "local_hash"        -> {"embedding"}
                  [] OTHER                      -> {"rerank"}

Nothing == [k \in Setting |-> Left]
Empty   == [k \in Setting |-> Unset]
Gone  == [exists |-> FALSE, enabled |-> FALSE, type |-> "llm"]

ChangePc == {"new", "read", "write", "commit", "bindings", "done"}

(* A configure gives keys new values, or unsets them; a bind gives the task *)
(* the model to, or none.  before and bound are what it has read.  What a   *)
(* resolve finds is found and effective.  History: since is how many        *)
(* commits the row had when it was read, saved the request's own one.       *)
NewChange ==
  [pc |-> "new", kind |-> "resolve", values |-> Nothing, before |-> NoRow,
   task |-> "embedding", to |-> Unbound, bound |-> Unbound, locked |-> FALSE,
   found |-> Empty, since |-> 0, saved |-> 0,
   effective |-> [t \in Task |-> Unbound]]

Finished(r) == [NewChange EXCEPT !.pc = "done", !.kind = r.kind]

-----------------------------------------------------------------------------
SettingsInit ==
  /\ config = NoRow
  /\ provider = [exists |-> TRUE, enabled |-> TRUE, type |-> "openai_compatible"]
  /\ model \in [Model -> {Gone} \cup [exists : {TRUE}, enabled : {TRUE}, type : AiType]]
  /\ binding = [t \in Task |-> Unbound]
  /\ change = [n \in Change |-> NewChange]
  /\ changes = 0 /\ saves = 0

Count == changes < MaxChanges /\ changes' = changes + 1

(* The requests that take more than one step.                               *)
Start(r) ==
  /\ Count
  /\ change' = [change EXCEPT ![changes + 1] = r]
  /\ UNCHANGED <<config, provider, model, binding, saves>>

Configure ==
  \E values \in [Setting -> Choice \cup {Unset, Left}] \ {Nothing} :
    Start([NewChange EXCEPT !.pc = "read", !.kind = "configure", !.values = values])

Bind ==
  \E t \in Task, m \in Model \cup {Unbound} :
    Start([NewChange EXCEPT !.pc = "read", !.kind = "bind", !.task = t, !.to = m])

Resolve == Start([NewChange EXCEPT !.pc = "read"])

(* ensure_runtime_configuration reads the row.                              *)
ReadConfig(n) ==
  LET r == change[n] IN
  /\ r.pc = "read" /\ r.kind = "configure"
  /\ change' = [change EXCEPT ![n] =
       [r EXCEPT !.before = config, !.since = saves, !.pc = "write"]]
  /\ UNCHANGED <<config, provider, model, binding, changes, saves>>

(* update_runtime_configuration: a value that cannot be coerced, or a key   *)
(* that there is not, rejects the whole request.                            *)
RejectConfig(n) ==
  /\ change[n].pc = "write" /\ change[n].kind = "configure"
  /\ change' = [change EXCEPT ![n] = Finished(@)]
  /\ UNCHANGED <<config, provider, model, binding, changes, saves>>

Holding(n) == \E m \in Change \ {n} : change[m].locked

(* The INSERT of the row, or the UPDATE, which waits for another one.       *)
WriteConfig(n) ==
  LET r == change[n] IN
  /\ r.pc = "write" /\ r.kind = "configure"
  /\ ~Holding(n)
  /\ change' = [change EXCEPT ![n] =
       IF r.before = NoRow /\ config # NoRow THEN Finished(r)
       ELSE [r EXCEPT !.pc = "commit", !.locked = TRUE]]
  /\ UNCHANGED <<config, provider, model, binding, changes, saves>>

RowOf(row) == IF row = NoRow THEN Empty ELSE row

(* The keys of the request are assigned to the object as it was read, and   *)
(* the session writes the columns that differ from that reading: a key that *)
(* is sent with the value it had is not among them.                         *)
Differs(n, k) == change[n].values[k] \notin {Left, RowOf(change[n].before)[k]}

WrittenAll(n) ==
  [k \in Setting |-> IF change[n].values[k] # Left THEN change[n].values[k] ELSE RowOf(change[n].before)[k]]

Written(n) == [k \in Setting |-> IF Differs(n, k) THEN change[n].values[k] ELSE RowOf(config)[k]]

CommitConfig(n) ==
  LET r == change[n] IN
  /\ r.pc = "commit" /\ r.kind = "configure"
  /\ config' = Written(n)
  /\ saves' = saves + 1
  /\ change' = [change EXCEPT ![n] =
       [Finished(r) EXCEPT !.values = r.values, !.since = r.since, !.saved = saves + 1]]
  /\ UNCHANGED <<provider, model, binding, changes>>

(* update_default_bindings: the model and its type are checked and the      *)
(* binding is read,                                                         *)
ReadBinding(n) ==
  LET r == change[n] IN
  /\ r.pc = "read" /\ r.kind = "bind"
  /\ change' = [change EXCEPT ![n] =
       IF r.to # Unbound /\ ~(model[r.to].exists /\ model[r.to].type = Expected(r.task))
       THEN Finished(r)
       ELSE [r EXCEPT !.bound = binding[r.task], !.pc = "write"]]
  /\ UNCHANGED <<config, provider, model, binding, changes, saves>>

(* then written and committed, which is an error if the row that was read   *)
(* is gone, a first one is there by now or the model is deleted.            *)
Writable(r) ==
  r.to # Unbound => model[r.to].exists /\ (r.bound = Unbound <=> binding[r.task] = Unbound)

WriteBinding(n) ==
  LET r == change[n] IN
  /\ r.pc = "write" /\ r.kind = "bind"
  /\ binding' = IF Writable(r) THEN [binding EXCEPT ![r.task] = r.to] ELSE binding
  /\ change' = [change EXCEPT ![n] = Finished(r)]
  /\ UNCHANGED <<config, provider, model, changes, saves>>

(* One statement each, on rows that exist: update_model_provider,           *)
ChangeProvider ==
  /\ Count
  /\ provider.exists
  /\ \E type \in ProviderType, enabled \in BOOLEAN :
       provider' = [provider EXCEPT !.type = type, !.enabled = enabled]
  /\ UNCHANGED <<config, model, binding, change, saves>>

(* delete_model_provider, whose models and bindings go with it,             *)
DeleteProvider ==
  /\ Count
  /\ provider.exists
  /\ provider' = [provider EXCEPT !.exists = FALSE]
  /\ model' = [m \in Model |-> Gone]
  /\ binding' = [t \in Task |-> Unbound]
  /\ UNCHANGED <<config, change, saves>>

(* create_provider_model, update_provider_model                             *)
ChangeModel(m) ==
  /\ Count
  /\ provider.exists
  /\ \E type \in AiType, enabled \in BOOLEAN :
       model' = [model EXCEPT ![m] = [exists |-> TRUE, enabled |-> enabled, type |-> type]]
  /\ UNCHANGED <<config, provider, binding, change, saves>>

(* and delete_provider_model.                                               *)
DeleteModel(m) ==
  /\ Count
  /\ model[m].exists
  /\ model' = [model EXCEPT ![m] = Gone]
  /\ binding' = [t \in Task |-> IF binding[t] = m THEN Unbound ELSE binding[t]]
  /\ UNCHANGED <<config, provider, change, saves>>

-----------------------------------------------------------------------------
(* resolve_effective_settings *)

(* What is unset comes from the environment.                                *)
ResolveConfig(n) ==
  /\ change[n].pc = "read" /\ change[n].kind = "resolve"
  /\ change' = [change EXCEPT ![n] = [@ EXCEPT !.found = RowOf(config), !.pc = "bindings"]]
  /\ UNCHANGED <<config, provider, model, binding, changes, saves>>

AppliedAsBound(t, m) == model[m].exists /\ provider.enabled /\ model[m].enabled /\ t \in Serves(provider.type)

(* _apply_model_binding: the binding of a model that is disabled or of      *)
(* another type by now, or of a provider that is not used for this, has no  *)
(* effect.                                                                  *)
Applied(t, m) ==
  /\ provider.enabled /\ model[m].enabled
  /\ model[m].type = Expected(t)
  /\ t \in Serves(provider.type)

(* list_default_binding_details is one statement.                           *)
ResolveBindings(n) ==
  /\ change[n].pc = "bindings"
  /\ change' = [change EXCEPT ![n] = [@ EXCEPT !.pc = "done",
       !.effective = [t \in Task |-> IF binding[t] # Unbound /\ Applied(t, binding[t])
                                     THEN binding[t] ELSE Unbound]]]
  /\ UNCHANGED <<config, provider, model, binding, changes, saves>>

SettingsNext ==
  \/ Configure
  \/ Bind
  \/ Resolve
  \/ \E n \in Change :
       \/ ReadConfig(n)
       \/ RejectConfig(n)
       \/ WriteConfig(n)
       \/ CommitConfig(n)
       \/ ReadBinding(n)
       \/ WriteBinding(n)
       \/ ResolveConfig(n)
       \/ ResolveBindings(n)
  \/ ChangeProvider
  \/ DeleteProvider
  \/ \E m \in Model : ChangeModel(m) \/ DeleteModel(m)

SettingsSpec == SettingsInit /\ [][SettingsNext]_settingVars

-----------------------------------------------------------------------------
(* However requests with some keys in common interleave, the first two ever *)
(* among them: a key has a value that a committed request gave it, and no   *)
(* request that read the row after that one was committed, and is committed *)
(* itself, gave the key.  Nobody's value is undone by a request that was    *)
(* not given the key, and none is lost but to a request beside it.          *)
Gave(n, k) == change[n].saved > 0 /\ change[n].values[k] # Left

LastWord(n, k) ==
  /\ Gave(n, k) /\ RowOf(config)[k] = change[n].values[k]
  /\ \A m \in Change : Gave(m, k) => change[m].since < change[n].saved

KeysKeepTheLastWord ==
  \A k \in Setting : \/ \E n \in Change : LastWord(n, k)
                     \/ RowOf(config)[k] = Unset /\ \A n \in Change : ~Gave(n, k)

(* Whatever is renamed, disabled, deleted or given another type between the *)
(* check of a binding and its use: a task is given to a model that exists,  *)
(* is enabled and of the type the task needs.                               *)
TasksGetFittingModels ==
  [][\A n \in Change : change[n].pc = "bindings" /\ change'[n].pc = "done" =>
       \A t \in Task : LET m == change'[n].effective[t] IN
         m # Unbound => /\ model[m].exists /\ model[m].enabled /\ provider.exists
                        /\ model[m].type = Expected(t)]_settingVars

-----------------------------------------------------------------------------
(* Inductive invariant: what the tables and the requests hold; a model that *)
(* is enabled exists, and one that exists has its provider.                 *)
Row     == [Setting -> Choice \cup {Unset}]
ChangeRecord == [pc : ChangePc, kind : {"configure", "bind", "resolve"},
            values : [Setting -> Choice \cup {Unset, Left}],
            before : Row \cup {NoRow}, task : Task, to : Model \cup {Unbound},
            bound : Model \cup {Unbound}, locked : BOOLEAN, found : Row, since : Nat, saved : Nat,
            effective : [Task -> Model \cup {Unbound}]]

SettingsTypeOK ==
  /\ config \in Row \cup {NoRow}
  /\ provider \in [exists : BOOLEAN, enabled : BOOLEAN, type : ProviderType]
  /\ model \in [Model -> [exists : BOOLEAN, enabled : BOOLEAN, type : AiType]]
  /\ binding \in [Task -> Model \cup {Unbound}]
  /\ change \in [Change -> ChangeRecord]
  /\ changes \in 0 .. MaxChanges /\ saves \in Nat

ModelsInv == \A m \in Model : /\ model[m].enabled => model[m].exists
                              /\ model[m].exists => provider.exists

SettingsInv == SettingsTypeOK /\ ModelsInv

(* What a request has read is still there, or somebody has the last word    *)
(* who was committed after that.                                            *)
Writing(n) == change[n].pc \in {"write", "commit"} /\ change[n].kind = "configure"

UpToDate(n, k) ==
  \/ RowOf(config)[k] = RowOf(change[n].before)[k]
  \/ \E m \in Change : LastWord(m, k) /\ change[n].since < change[m].saved

KeyInv(k) ==
  /\ \/ \E n \in Change : LastWord(n, k)
     \/ RowOf(config)[k] = Unset /\ \A n \in Change : ~Gave(n, k)
  /\ \A n \in Change : Writing(n) => UpToDate(n, k)

SavedInv(n) ==
  /\ change[n].saved > 0 => change[n].pc = "done" /\ change[n].saved <= saves
  /\ change[n].since <= saves
  /\ n > changes => change[n].pc = "new"

LastWordInv == /\ \A k \in Setting : KeyInv(k)
               /\ \A n \in Change : SavedInv(n)
=============================================================================
