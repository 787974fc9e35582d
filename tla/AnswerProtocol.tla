--------------------------- MODULE AnswerProtocol ---------------------------
(***************************************************************************)
(* What the client of a streamed answer is promised: the stages in their   *)
(* order, the contexts before the first words, citations of these contexts *)
(* only, and one end, after which nothing comes.                           *)
(***************************************************************************)
EXTENDS Integers

CONSTANT MaxContexts

VARIABLES
  stage,          (* The last thing the stream said.                        *)
  shown,          (* How many contexts it has shown.                        *)
  cited           (* The contexts that the finished answer cites.           *)

protocolVars == <<stage, shown, cited>>

-----------------------------------------------------------------------------
(* refused and accepted are the answers before the stream begins; broken is *)
(* a stream that is cut off.                                                *)
Stage == {"asked", "refused", "accepted", "searching", "reranking", "contexts",
          "generating", "done", "error", "broken"}
Ends  == {"refused", "done", "error", "broken"}

Follows == [asked |-> {"refused", "accepted"},
            accepted |-> {"searching"}, searching |-> {"reranking"},
            reranking |-> {"contexts"}, contexts |-> {"generating"},
            generating |-> {}]

ProtocolInit == stage = "asked" /\ shown = 0 /\ cited = <<>>

Say(s) ==
  /\ stage \notin Ends
  /\ s \in Follows[stage]
  /\ stage' = s
  /\ IF s = "contexts" THEN shown' \in 0 .. MaxContexts ELSE UNCHANGED shown
  /\ UNCHANGED cited

(* Some of the contexts, in an order, each once.                            *)
Selections(n) ==
  {s \in UNION {[1 .. k -> 1 .. n] : k \in 0 .. n} :
     \A i, j \in DOMAIN s : s[i] = s[j] => i = j}

Finish ==
  /\ stage = "generating"
  /\ stage' = "done"
  /\ cited' \in Selections(shown)
  /\ UNCHANGED shown

Stop(s) ==
  /\ stage \notin Ends \cup {"asked"}
  /\ stage' = s
  /\ UNCHANGED <<shown, cited>>

ProtocolNext ==
  \/ \E s \in Stage : Say(s)
  \/ Finish
  \/ \E s \in {"error", "broken"} : Stop(s)

ProtocolSpec == ProtocolInit /\ [][ProtocolNext]_protocolVars
=============================================================================
