------------------------------ MODULE MineruTask ------------------------------
(***************************************************************************)
(* A document parsed by the MinerU service: the file is submitted as a     *)
(* task, the task polled until it is done or the time is over, its result  *)
(* downloaded and made into blocks.  Time passes in ticks.                 *)
(***************************************************************************)
EXTENDS Integers, Sequences

CONSTANTS
  Contents,       (* The results: sequences of items, see Item.             *)
  Timeout, Interval,  (* Of the polling.                                    *)
  Slow,           (* The longest that a request takes.                      *)
  MaxClock        (* Bound.                                                 *)

ASSUME TimesAssumption == {Timeout, Interval, Slow} \subseteq Nat

VARIABLES
  clock,
  task,           (* The service's task, and when it was done.              *)
  doneAt,
  parser,         (* Where the parser is; when it was called,               *)
  called,         (* when the polling started, and when its request or      *)
  begun,          (* sleep is over.                                         *)
  due,
  seen,           (* The state that the service puts into its answer.       *)
  content,        (* The items of the result.                               *)
  parsed          (* What they are made into.                               *)

mineruVars == <<clock, task, doneAt, parser, called, begun, due, seen, content, parsed>>

-----------------------------------------------------------------------------
(* A text with a level above 0 is a heading; filled: it has a text, or the  *)
(* image a path.                                                            *)
Item == [type : {"text", "image", "table", "equation", "code"}, level : Nat, filled : BOOLEAN]

ASSUME ContentsAssumption == Contents \subseteq Seq(Item)

Becomes(item) == item.type \in {"table", "equation"} \/ (item.type \in {"text", "image"} /\ item.filled)

Section(path, level, n) == Append(SubSeq(path, 1, IF level - 1 < Len(path) THEN level - 1 ELSE Len(path)), n)

(* One round of the loop of _content_list_to_blocks, with the path of       *)
(* headings so far.                                                         *)
Added(made, item, n) ==
  LET path == IF item.type = "text" /\ item.level > 0 THEN Section(made.path, item.level, n) ELSE made.path
  IN  IF ~Becomes(item) THEN made
      ELSE [path |-> path, blocks |-> Append(made.blocks, [item |-> n, hint |-> path])]

Made(items) ==
  LET made[n \in 0 .. Len(items)] ==
        IF n = 0 THEN [path |-> <<>>, blocks |-> <<>>] ELSE Added(made[n - 1], items[n], n)
  IN  made

BlocksOf(items) == Made(items)[Len(items)].blocks

-----------------------------------------------------------------------------
ParseInit ==
  /\ clock = 0 /\ task = "none" /\ doneAt = 0
  /\ parser = "submit" /\ called = 0 /\ begun = 0 /\ due = Slow
  /\ seen = "none" /\ content \in Contents /\ parsed = <<>>

Over == parser \in {"parsed", "failed", "timeout"}

Tick ==
  /\ clock < MaxClock /\ ~Over
  /\ parser \in {"submit", "asked", "sleep"} => clock < due
  /\ parser # "poll"
  /\ clock' = clock + 1
  /\ UNCHANGED <<task, doneAt, parser, called, begun, due, seen, content, parsed>>

(* The service works on the task in its own time.                           *)
Work(state) ==
  /\ task \in {"pending", "running"} /\ state # "pending" /\ state # task
  /\ task' = state
  /\ doneAt' = IF state = "done" THEN clock ELSE doneAt
  /\ UNCHANGED <<clock, parser, called, begun, due, seen, content, parsed>>

(* The service makes the task when it handles the upload; the parser knows  *)
(* of it when the response arrives.                                         *)
Accept ==
  /\ parser = "submit" /\ task = "none"
  /\ task' = "pending"
  /\ UNCHANGED <<clock, doneAt, parser, called, begun, due, seen, content, parsed>>

Submit ==
  /\ parser = "submit" /\ task # "none"
  /\ parser' = "poll" /\ begun' = clock
  /\ UNCHANGED <<clock, task, doneAt, called, due, seen, content, parsed>>

InTimeSinceCall == clock - called < Timeout
InTime          == clock - begun < Timeout

Poll ==
  /\ parser = "poll"
  /\ IF InTime THEN parser' = "asked" /\ due' = clock + Slow ELSE parser' = "timeout" /\ UNCHANGED due
  /\ UNCHANGED <<clock, task, doneAt, called, begun, seen, content, parsed>>

(* The answer has the state that the task has when the service handles the  *)
(* request, and may take its time.                                          *)
Serve ==
  /\ parser = "asked" /\ seen = "none"
  /\ seen' = task
  /\ UNCHANGED <<clock, task, doneAt, parser, called, begun, due, content, parsed>>

Answered ==
  /\ parser = "asked" /\ seen # "none"
  /\ CASE seen = "done" -> parser' = "download" /\ UNCHANGED due
       [] seen \in {"pending", "running"} -> parser' = "sleep" /\ due' = clock + Interval
       [] OTHER -> parser' = "failed" /\ UNCHANGED due
  /\ seen' = "none"
  /\ UNCHANGED <<clock, task, doneAt, called, begun, content, parsed>>

Wake ==
  /\ parser = "sleep" /\ clock = due
  /\ parser' = "poll"
  /\ UNCHANGED <<clock, task, doneAt, called, begun, due, seen, content, parsed>>

(* A single request that fails or takes too long ends the parsing, whatever *)
(* the task comes to.                                                       *)
ResponseFails ==
  /\ parser \in {"submit", "asked", "download"}
  /\ parser' = "failed"
  /\ UNCHANGED <<clock, task, doneAt, called, begun, due, seen, content, parsed>>

(* The archive is extracted and its content converted.                      *)
Download ==
  /\ parser = "download"
  /\ parsed' = BlocksOf(content)
  /\ parser' = IF parsed' = <<>> THEN "failed" ELSE "parsed"
  /\ UNCHANGED <<clock, task, doneAt, called, begun, due, seen, content>>

ParseNext ==
  \/ Tick
  \/ \E state \in {"running", "done", "failed"} : Work(state)
  \/ Accept
  \/ Submit
  \/ Poll
  \/ Serve
  \/ Answered
  \/ Wake
  \/ ResponseFails
  \/ Download

-----------------------------------------------------------------------------
(* The last heading up to an item is the last of its block's path.          *)
Titles(n) == {m \in 1 .. n : content[m].type = "text" /\ content[m].level > 0 /\ content[m].filled}

UnderItsTitle(block) ==
  LET last == block.hint[Len(block.hint)] IN
  IF Titles(block.item) = {} THEN block.hint = <<>>
  ELSE last \in Titles(block.item) /\ \A m \in Titles(block.item) : m <= last

UnderTheirTitles == \A n \in DOMAIN parsed : UnderItsTitle(parsed[n])

(* A task that is done in time is not given up: at a timeout it was not     *)
(* done when an answer was made that took no longer than a slow request and *)
(* came one interval before the end, whatever time the upload took; the     *)
(* polling ends, at the latest a slow request and a sleep after the         *)
(* timeout; and what comes of it stands under the heading before it.        *)
DoneTaskIsTaken ==
  /\ parser = "timeout" /\ task = "done" => doneAt >= begun + Timeout - Interval - Slow
  /\ parser \in {"poll", "asked", "sleep"} => clock - begun <= Timeout + Slow + Interval
  /\ parser = "parsed" => UnderTheirTitles

-----------------------------------------------------------------------------
ParseSpec == ParseInit /\ [][ParseNext]_mineruVars

(* What the proof rests on: a request is sent in time and ends in time, and *)
(* a task that an answer or a sleeping parser does not know to be done was  *)
(* not done when the request was sent.                                      *)
NotDoneBefore(t) == task = "done" => doneAt >= t

ParseInv ==
  /\ {clock, doneAt, begun, due} \subseteq Nat /\ content \in Contents
  /\ begun <= clock /\ begun <= Slow /\ (task = "done" => doneAt <= clock)
  /\ parser = "submit" => clock <= due /\ due = Slow
  /\ parser \in {"submit", "poll", "sleep"} => seen = "none"
  /\ parser = "asked" => /\ due - Slow <= clock /\ clock <= due /\ due <= begun + Timeout + Slow
                         /\ seen \in {"pending", "running"} => NotDoneBefore(due - Slow)
  /\ parser = "sleep" => /\ clock <= due /\ due <= begun + Timeout + Slow + Interval
                         /\ due - Interval <= clock
                         /\ NotDoneBefore(due - Interval - Slow)
  /\ parser = "poll" => /\ clock <= begun + Timeout + Slow + Interval
                        /\ NotDoneBefore(clock - Interval - Slow)
  /\ parser = "timeout" => clock >= begun + Timeout
  /\ DoneTaskIsTaken
=============================================================================
