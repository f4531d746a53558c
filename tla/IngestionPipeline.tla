-------------------------- MODULE IngestionPipeline --------------------------
(***************************************************************************)
(* The restartable pipeline that takes one paper from its two files to     *)
(* tagged questions (ingestion_pipeline.py).                               *)
(*                                                                         *)
(* The runner keeps its state in a file beside the database.  Before every *)
(* change of the database it writes the exact request to the file, and     *)
(* after it the result, so that a runner that dies in between repeats the  *)
(* request when it is started again.  Teachers edit the same questions     *)
(* meanwhile, and anything unexpected stops the run until someone resumes  *)
(* it: the requests on file are then still the old ones.                   *)
(*                                                                         *)
(* A document is named by the revision that wrote it: `body' for the whole *)
(* document, `text' for the part of it that comes from the paper.          *)
(***************************************************************************)
EXTENDS Naturals, FiniteSets

CONSTANTS Items,      \* questions of the paper
          Sampled,    \* those the watchdog looks at
          Figured,    \* those whose figures a person must have seen
          Choices,    \* tags a question can get
          MaxTroubles \* bound: edits, troubles of the runner and resumptions together

\* A paper without expected numbers is refused (create_run),
\* and the sample is drawn from them.
PipelineAssumption ==
    /\ Items # {} /\ "whole" \notin Items
    /\ Sampled \subseteq Items
    /\ MaxTroubles \in Nat

VARIABLES stage,      \* file: the stage of the run
          actions,    \* file: operation -> its request and its result
          reviews,    \* file: review -> what it was asked about and its verdict
          checked,    \* file: reviewed_paper and reviewed_answers
          watched,    \* file: watchdog_content_done and watchdog_tags_done
          proposal,   \* file: tag_proposals
          rejected,   \* file: items whose tags an audit refused
          deferred,   \* file: deferred_items
          receipt,    \* file: visual receipts
          stopped,    \* STOP.json: "" or why
          runner,     \* the process: what it is about to do
          task,       \* database: the two conversion tasks
          item,       \* database: parsed_question_items
          confirmed,  \* database: confirmed snapshots of the paper
          keys,       \* database: operations remembered under their request key
          question,   \* database: what was published
          audited,    \* history: what the watchdog saw when it passed an item
          edits,      \* history: edits by teachers
          troubles    \* edits, deaths and resumptions so far

fileVars == <<stage, actions, reviews, checked, watched, proposal, rejected, deferred, receipt>>
dbVars   == <<task, item, confirmed, keys, question>>
ipVars   == <<fileVars, stopped, runner, dbVars, audited, edits, troubles>>

Stages == <<"upload_paper", "wait_paper", "review_paper", "confirm_paper",
            "upload_answers", "wait_answers", "attach_answers", "review_answers",
            "watchdog_content", "publish", "generate_tags", "watchdog_tags",
            "adopt_tags", "verify", "complete">>
After(s) == LET n == CHOOSE k \in 1..14 : Stages[k] = s IN Stages[n + 1]

Whole    == "whole"
Names    == ({"paper", "answers", "defer"} \X Items)
               \cup ({"confirm", "reconfirm", "attach", "publish", "adopt"} \X {Whole})
Audits   == {"paper", "answers", "content", "tags"} \X Items
NoTags   == "none"
Nothing  == [i \in Items |-> 0]
NoAction == [expected |-> Nothing, sent |-> FALSE, result |-> FALSE]
NoReview == [body |-> 0, tags |-> NoTags, verdict |-> "none"]
NoTagsYet == [tags |-> NoTags, version |-> 0]
Off      == [pc |-> "off", name |-> <<"confirm", Whole>>, seen |-> Nothing,
             body |-> 0, tags |-> NoTags]
Ready    == [Off EXCEPT !.pc = "ready"]

ActiveItems == {i \in Items : item[i].active}
Revisions   == [i \in Items |-> IF item[i].active THEN item[i].rev ELSE 0]
Snapshot    == [i \in Items |-> IF item[i].active THEN item[i].text ELSE 0]
Running(pc) == runner.pc = pc

PipelineInit ==
    /\ stage = "upload_paper"
    /\ actions = [n \in Names |-> NoAction]
    /\ reviews = [a \in Audits |-> NoReview]
    /\ checked = [p \in {"paper", "answers"} |-> Nothing]
    /\ watched = [w \in {"content", "tags"} |-> {}]
    /\ proposal = [i \in Items |-> NoTagsYet]
    /\ rejected = {} /\ deferred = {}
    /\ receipt = Nothing
    /\ stopped = ""
    /\ runner = Off
    /\ task = [r \in {"paper", "answers"} |-> "absent"]
    /\ item = [i \in Items |-> [rev |-> 1, body |-> 1, text |-> 1, active |-> TRUE]]
    /\ confirmed = {}
    /\ keys = [n \in Names |-> Nothing]
    /\ question = [i \in Items |-> [body |-> 0, version |-> 0, revision |-> 0, tags |-> NoTags]]
    /\ audited = [content |-> Nothing, tags |-> [i \in Items |-> NoTags]]
    /\ edits = 0 /\ troubles = 0

----------------------------------------------------------------------------
(* The process: started under the lock, stopped, killed, resumed.          *)

Start ==
    /\ Running("off") /\ stopped = ""
    /\ runner' = Ready
    /\ UNCHANGED <<fileVars, stopped, dbVars, audited, edits, troubles>>

\* It has done the steps it was asked for.
Leave ==
    /\ Running("ready") /\ runner' = Off
    /\ UNCHANGED <<fileVars, stopped, dbVars, audited, edits, troubles>>

Die ==
    /\ ~Running("off") /\ troubles < MaxTroubles
    /\ troubles' = troubles + 1
    /\ runner' = Off
    /\ UNCHANGED <<fileVars, stopped, dbVars, audited, edits>>

\* A step that fails writes the stop file, unless there is one, and ends the process.
Halt(why) ==
    /\ stopped' = IF stopped = "" THEN why ELSE stopped
    /\ runner' = Off
    /\ UNCHANGED <<fileVars, dbVars, audited, edits, troubles>>

\* Between two steps the runner looks for the stop file.
NoticeStop ==
    /\ \/ Running("ready") \/ Running("asking") \/ Running("want") \/ Running("send")
       \/ Running("saved") /\ runner.name[2] = Whole
    /\ stopped # ""
    /\ Halt("watchdog")

\* The separate watchdog finds the run stale or its publication changed.
Monitor ==
    /\ stopped = "" /\ stage # "complete"
    /\ stopped' = "watchdog"
    /\ UNCHANGED <<fileVars, runner, dbVars, audited, edits, troubles>>

\* The audits of a stage, which are asked for again after a stop.
AuditsOf(s) ==
    CASE s = "review_paper"     -> {"paper"}
      [] s = "review_answers"   -> {"answers"}
      [] s = "watchdog_content" -> {"content"}
      [] s = "watchdog_tags"    -> {"tags"}
      [] OTHER                  -> {}

Resume ==
    /\ Running("off") /\ stopped # "" /\ troubles < MaxTroubles
    /\ troubles' = troubles + 1
    /\ stopped' = ""
    /\ reviews' = [a \in Audits |->
          IF reviews[a].verdict = "blocked" \/ a[1] \in AuditsOf(stage) THEN NoReview ELSE reviews[a]]
    /\ rejected' = rejected \cup {i \in Items : reviews[<<"tags", i>>].verdict = "blocked"}
    /\ UNCHANGED <<stage, actions, checked, watched, proposal, deferred, receipt, runner, dbVars,
                   audited, edits>>

\* The next stage is on file.
Advance ==
    /\ stage' = After(stage)
    /\ runner' = Ready

----------------------------------------------------------------------------
(* The operations of the database, under a request key.                    *)

\* Saving a reviewed candidate, or leaving it for later: the revision that was seen.
MaySave(i, expected) == item[i].active /\ question[i].body = 0 /\ item[i].rev = expected[i]
Saved(n) ==
    LET new == item[n[2]].rev + 1
    IN  [item EXCEPT ![n[2]].rev = new, ![n[2]].body = new,
                     ![n[2]].text = IF n[1] = "paper" THEN new ELSE @]

PaperConfirmed == Snapshot \in confirmed

\* The answers of every question of the paper are added to its document.
Attached == [i \in Items |-> IF item[i].active
               THEN [item[i] EXCEPT !.rev = @ + 1, !.body = item[i].rev + 1] ELSE item[i]]

Published == [i \in Items |-> IF item[i].active
                THEN [body |-> item[i].body, version |-> 1, revision |-> 0, tags |-> NoTags]
                ELSE question[i]]

\* Mutated form: only the content of the question is compared.
SameVersion(i) == question[i].version = proposal[i].version

\* A proposal was made for this version of the question and of its tags.
TagsAsProposed(i) == question[i].version = proposal[i].version /\ question[i].revision = 0

Tagged == [i \in Items |-> IF item[i].active
             THEN [question[i] EXCEPT !.revision = @ + 1, !.tags = proposal[i].tags] ELSE question[i]]

MayCommit(n, expected) ==
    CASE n[1] \in {"paper", "answers", "defer"} -> MaySave(n[2], expected)
      [] n[1] \in {"confirm", "reconfirm"}      -> Revisions = expected
      [] n[1] = "attach"                        -> PaperConfirmed /\ Revisions = expected
      [] n[1] = "publish"                       -> Revisions = expected
      [] n[1] = "adopt"                         -> \A i \in ActiveItems : TagsAsProposed(i)

Apply(n) ==
    /\ item' = CASE n[1] \in {"paper", "answers"} -> Saved(n)
                 [] n[1] = "defer"  -> [item EXCEPT ![n[2]].active = FALSE]
                 [] n[1] = "attach" -> Attached
                 [] OTHER -> item
    /\ confirmed' = IF n[1] \in {"confirm", "reconfirm"} THEN confirmed \cup {Snapshot} ELSE confirmed
    /\ question' = CASE n[1] = "publish" -> Published [] n[1] = "adopt" -> Tagged [] OTHER -> question
    /\ keys' = IF n[1] = "adopt" THEN keys ELSE [keys EXCEPT ![n] = actions[n].expected]
    /\ UNCHANGED task

\* Tags have no request key: the labels tell whether they were adopted before.
Adopted ==
    \A i \in ActiveItems :
       /\ question[i].version = proposal[i].version
       /\ question[i].revision = 1 /\ question[i].tags = proposal[i].tags

----------------------------------------------------------------------------
(* An operation: the request is on file before the database is changed.    *)

\* The runner is about to ask for operation n with what it read.
Want(n, seen) == [Off EXCEPT !.pc = "want", !.name = n, !.seen = seen]

\* A request that is on file stays what it is; the confirmation of a paper with
\* deferred items has another name when the paper has changed.
OnFile(n) ==
    IF actions[n].sent /\ (n[1] # "reconfirm" \/ actions[n].expected = runner.seen)
    THEN actions[n] ELSE [NoAction EXCEPT !.expected = runner.seen, !.sent = TRUE]

Persist ==
    LET n == runner.name
    IN  /\ Running("want") /\ stopped = ""
        /\ actions' = [actions EXCEPT ![n] = OnFile(n)]
        /\ runner' = [runner EXCEPT !.pc = IF OnFile(n).result THEN "saved" ELSE "send"]
        /\ UNCHANGED <<stage, reviews, checked, watched, proposal, rejected, deferred, receipt,
                       stopped, dbVars, audited, edits, troubles>>

\* Mutated form: only operations under a request key are recognised.
RecoversKeyed(n) == n[1] # "adopt" /\ keys[n] = actions[n].expected

\* Mutated form: tags are recognised, requests are not.
RecoversTags(n) == n[1] = "adopt" /\ Adopted

\* Whether the operation was carried out by a runner that died.
Recovers(n) == IF n[1] = "adopt" THEN Adopted ELSE keys[n] = actions[n].expected

Commit ==
    LET n == runner.name
    IN  /\ Running("send") /\ stopped = ""
        /\ IF Recovers(n) THEN UNCHANGED dbVars
           ELSE MayCommit(n, actions[n].expected) /\ Apply(n)
        /\ runner' = [runner EXCEPT !.pc = "sent"]
        /\ UNCHANGED <<fileVars, stopped, audited, edits, troubles>>

CommitFails ==
    LET n == runner.name
    IN  /\ Running("send") /\ stopped = ""
        /\ ~Recovers(n) /\ ~MayCommit(n, actions[n].expected)
        /\ Halt("conflict")

SaveResult ==
    /\ Running("sent")
    /\ actions' = [actions EXCEPT ![runner.name].result = TRUE]
    /\ runner' = [runner EXCEPT !.pc = "saved"]
    /\ UNCHANGED <<stage, reviews, checked, watched, proposal, rejected, deferred, receipt, stopped, dbVars,
                   audited, edits, troubles>>

\* The document a save left behind: its request names the revision before.
SavedBody(n) == actions[n].expected[n[2]] + 1

\* What follows the save of one item: it is noted as reviewed, or as deferred,
\* which takes a paper with answers to attach back to its confirmation.
NoteItem ==
    LET n == runner.name
    IN  /\ Running("saved") /\ n[2] # Whole
        /\ runner' = Ready
        /\ IF n[1] = "defer"
           THEN /\ deferred' = deferred \cup {n[2]}
                /\ checked' = [checked EXCEPT !["paper"][n[2]] = 0]
                /\ stage' = IF stage = "attach_answers" THEN "confirm_paper" ELSE stage
           ELSE /\ checked' = [checked EXCEPT ![n[1]][n[2]] = SavedBody(n)]
                /\ UNCHANGED <<deferred, stage>>
        /\ UNCHANGED <<actions, reviews, watched, proposal, rejected, receipt, stopped, dbVars,
                       audited, edits, troubles>>

\* What follows an operation on the whole paper: the stage ends.  Answers change
\* every document, so the reviews of the paper are forgotten.
EndStage ==
    LET n == runner.name
    IN  /\ Running("saved") /\ n[2] = Whole /\ stopped = ""
        /\ checked' = IF n[1] = "attach" THEN [checked EXCEPT !["paper"] = Nothing] ELSE checked
        /\ Advance
        /\ UNCHANGED <<actions, reviews, watched, proposal, rejected, deferred, receipt, stopped,
                       dbVars, audited, edits, troubles>>

----------------------------------------------------------------------------
(* Uploading and waiting.                                                  *)

Upload(role) ==
    /\ Running("ready") /\ stopped = "" /\ stage = IF role = "paper" THEN "upload_paper" ELSE "upload_answers"
    /\ task' = [task EXCEPT ![role] = IF @ = "absent" THEN "queued" ELSE @]
    /\ Advance
    /\ UNCHANGED <<actions, reviews, checked, watched, proposal, rejected, deferred, receipt, stopped, item,
                   confirmed, keys, question, audited, edits, troubles>>

\* The worker converts the file or gives up.
Convert(role) ==
    /\ task[role] = "queued"
    /\ \E s \in {"parsed", "failed"} : task' = [task EXCEPT ![role] = s]
    /\ UNCHANGED <<fileVars, stopped, runner, item, confirmed, keys, question, audited,
                   edits, troubles>>

Wait(role) ==
    /\ Running("ready") /\ stopped = "" /\ stage = IF role = "paper" THEN "wait_paper" ELSE "wait_answers"
    /\ \/ /\ task[role] = "parsed" /\ Advance
          /\ UNCHANGED <<actions, reviews, checked, watched, proposal, rejected, deferred, receipt, stopped, dbVars,
                         audited, edits, troubles>>
       \/ task[role] # "parsed" /\ Halt("conversion")

----------------------------------------------------------------------------
(* Reviews of one item by a model or by an agent with a visual receipt.    *)

\* Mutated form: the documents that were reviewed are not compared again.
OnlyPublished == \A i \in ActiveItems : question[i].body # 0 => question[i].body = item[i].body

\* Every reviewed document is the one that was reviewed, and every published
\* question has the content of its item.
InventoryValid ==
    /\ \A p \in {"paper", "answers"}, i \in ActiveItems :
          checked[p][i] # 0 => checked[p][i] = item[i].body
    /\ \A i \in ActiveItems : question[i].body # 0 => question[i].body = item[i].body

\* The items that are not deferred are those of the paper.
NumbersMatch == ActiveItems = Items \ deferred

\* The runner stands at a stage that begins with the inventory.
Inventoried == {"review_paper", "confirm_paper", "review_answers", "watchdog_content",
                "publish", "watchdog_tags", "verify"}
At(s) == Running("ready") /\ stopped = "" /\ stage = s
Inspecting(s) == At(s) /\ NumbersMatch /\ InventoryValid

InventoryFails ==
    /\ \E s \in Inventoried : At(s)
    /\ ~(NumbersMatch /\ InventoryValid)
    /\ Halt("changed")

\* The evidence of an audit: the document, and the tags if they are its subject.
Body(a) == item[a[2]].body
TagsIn(a) == IF a[1] = "tags" THEN proposal[a[2]].tags ELSE NoTags
OneOf(i) == [j \in Items |-> IF j = i THEN item[i].rev ELSE 0]

Ask(a) ==
    /\ reviews[a].verdict = "none"
    /\ runner' = [pc |-> "asking", name |-> a, seen |-> OneOf(a[2]), body |-> Body(a), tags |-> TagsIn(a)]
    /\ UNCHANGED <<fileVars, stopped, dbVars, audited, edits, troubles>>

\* A verdict on file that blocks, or that is about something else.
Unusable(a) ==
    /\ reviews[a].verdict # "none"
    /\ \/ reviews[a].verdict = "blocked"
       \/ reviews[a].body # Body(a) \/ reviews[a].tags # TagsIn(a)
    /\ Halt("quality")

\* A verdict on file that passes what is there now.
Usable(a) == reviews[a] = [body |-> Body(a), tags |-> TagsIn(a), verdict |-> "pass"]

\* The answer is kept, and a verdict that passes is used for what was read
\* before it was asked for.
Answer(verdict) ==
    LET a == runner.name
    IN  /\ Running("asking") /\ stopped = ""
        /\ reviews' = [reviews EXCEPT ![a] =
                          [body |-> runner.body, tags |-> runner.tags, verdict |-> verdict]]
        /\ runner' = IF verdict = "blocked" THEN Ready
                     ELSE IF a[1] \in {"paper", "answers"} THEN Want(a, runner.seen)
                     ELSE [runner EXCEPT !.pc = "passed"]
        /\ UNCHANGED <<stage, actions, checked, watched, proposal, rejected, deferred, receipt,
                       stopped, dbVars, audited, edits, troubles>>

ReviewStage(p) == IF p = "paper" THEN "review_paper" ELSE "review_answers"
ToReview(p, i) == Inspecting(ReviewStage(p)) /\ i \in ActiveItems /\ checked[p][i] = 0

\* A request on file is repeated without a new review; a usable verdict is used.
ReviewAgain(p, i) ==
    /\ ToReview(p, i)
    /\ actions[<<p, i>>].sent \/ Usable(<<p, i>>)
    /\ runner' = Want(<<p, i>>, OneOf(i))
    /\ UNCHANGED <<fileVars, stopped, dbVars, audited, edits, troubles>>

ReviewOne(p, i) ==
    /\ ToReview(p, i) /\ ~actions[<<p, i>>].sent
    /\ Ask(<<p, i>>) \/ Unusable(<<p, i>>)

\* An agent's receipt about the document as it is takes the place of the model.
AgentPaperReview(i) ==
    /\ Running("off") /\ stopped = "" /\ stage = "review_paper"
    /\ i \in ActiveItems /\ checked["paper"][i] = 0
    /\ runner' = Want(<<"paper", i>>, OneOf(i))
    /\ UNCHANGED <<fileVars, stopped, dbVars, audited, edits, troubles>>

\* With the answers in view the inventory is checked first, and the receipt is kept
\* as a look at the document that will be saved.
AgentAnswerReview(i) ==
    /\ Running("off") /\ stopped = "" /\ stage = "review_answers"
    /\ i \in ActiveItems /\ checked["answers"][i] = 0 /\ NumbersMatch /\ InventoryValid
    /\ runner' = Want(<<"answers", i>>, OneOf(i))
    /\ receipt' = [receipt EXCEPT ![i] = item[i].rev + 1]
    /\ UNCHANGED <<stage, actions, reviews, checked, watched, proposal, rejected, deferred, stopped,
                   dbVars, audited, edits, troubles>>

\* An operator leaves an item for later, at least one remains.
Defer(i) ==
    /\ Running("off") /\ stopped = ""
    /\ \/ stage = "review_paper"
       \/ stage = "attach_answers" /\ ~actions[<<"attach", Whole>>].sent
    /\ \/ actions[<<"defer", i>>].sent /\ i \notin deferred
       \/ i \in ActiveItems /\ Cardinality(ActiveItems) >= 2
    /\ runner' = Want(<<"defer", i>>, OneOf(i))
    /\ UNCHANGED <<fileVars, stopped, dbVars, audited, edits, troubles>>

\* A stage whose items are all done ends.
AllReviewed(p) ==
    /\ Inspecting(ReviewStage(p)) /\ \A i \in ActiveItems : checked[p][i] # 0
    /\ Advance
    /\ UNCHANGED <<actions, reviews, checked, watched, proposal, rejected, deferred, receipt, stopped,
                   dbVars, audited, edits, troubles>>

----------------------------------------------------------------------------
(* Operations on the whole paper.                                          *)

Request(n) ==
    /\ runner' = Want(<<n, Whole>>, Revisions)
    /\ UNCHANGED <<fileVars, stopped, dbVars, audited, edits, troubles>>

ConfirmPaper ==
    /\ Inspecting("confirm_paper")
    /\ Request(IF deferred = {} THEN "confirm" ELSE "reconfirm")

\* The matches are previewed, unless the request is on file.
AttachAnswers ==
    /\ At("attach_answers")
    /\ IF actions[<<"attach", Whole>>].sent \/ PaperConfirmed THEN Request("attach")
       ELSE Halt("conflict")

Publish ==
    /\ Inspecting("publish")
    /\ IF watched["content"] = Sampled \cap ActiveItems THEN Request("publish") ELSE Halt("quality")

AdoptTags == At("adopt_tags") /\ Request("adopt")

----------------------------------------------------------------------------
(* The watchdog's audits and the tags.                                     *)

WatchStage(w) == IF w = "content" THEN "watchdog_content" ELSE "watchdog_tags"
ToWatch(w, i) == Inspecting(WatchStage(w)) /\ i \in (Sampled \cap ActiveItems) \ watched[w]

\* Figures must have been seen in this very document.
SeenByAPerson(i) == i \in Figured => receipt[i] = item[i].body

\* A person's receipt, between two runs.
VisualReceipt(i) ==
    /\ Running("off") /\ i \in Figured \cap ActiveItems /\ receipt[i] # item[i].body
    /\ receipt' = [receipt EXCEPT ![i] = item[i].body]
    /\ UNCHANGED <<stage, actions, reviews, checked, watched, proposal, rejected, deferred, stopped,
                   runner, dbVars, audited, edits, troubles>>

WatchOne(w, i) ==
    /\ ToWatch(w, i)
    /\ IF SeenByAPerson(i) THEN Ask(<<w, i>>) \/ Unusable(<<w, i>>) ELSE Halt("visual")

WatchAgain(w, i) ==
    /\ ToWatch(w, i) /\ SeenByAPerson(i) /\ Usable(<<w, i>>)
    /\ runner' = [pc |-> "passed", name |-> <<w, i>>, seen |-> Nothing,
                  body |-> Body(<<w, i>>), tags |-> TagsIn(<<w, i>>)]
    /\ UNCHANGED <<fileVars, stopped, dbVars, audited, edits, troubles>>

NotePass ==
    LET w == runner.name[1]
        i == runner.name[2]
    IN  /\ Running("passed")
        /\ watched' = [watched EXCEPT ![w] = @ \cup {i}]
        /\ audited' = [audited EXCEPT ![w][i] = IF w = "content" THEN runner.body ELSE runner.tags]
        /\ runner' = Ready
        /\ UNCHANGED <<stage, actions, reviews, checked, proposal, rejected, deferred, receipt,
                       stopped, dbVars, edits, troubles>>

AllWatched(w) ==
    /\ Inspecting(WatchStage(w)) /\ Sampled \cap ActiveItems \subseteq watched[w]
    /\ Advance
    /\ UNCHANGED <<actions, reviews, checked, watched, proposal, rejected, deferred, receipt, stopped,
                   dbVars, audited, edits, troubles>>

\* A model proposes tags for a question nobody has tagged.
Propose(i) ==
    /\ At("generate_tags") /\ i \in ActiveItems /\ proposal[i] = NoTagsYet
    /\ IF question[i].revision # 0 THEN Halt("changed")
       ELSE /\ \E t \in Choices :
                  proposal' = [proposal EXCEPT ![i] = [tags |-> t, version |-> question[i].version]]
            /\ UNCHANGED <<stage, actions, reviews, checked, watched, rejected, deferred, receipt,
                           stopped, runner, dbVars, audited, edits, troubles>>

AllProposed ==
    /\ At("generate_tags") /\ \A i \in ActiveItems : proposal[i] # NoTagsYet
    /\ Advance
    /\ UNCHANGED <<actions, reviews, checked, watched, proposal, rejected, deferred, receipt, stopped,
                   dbVars, audited, edits, troubles>>

\* Tags may be corrected after an audit refused them.
MayCorrect(i) ==
    /\ proposal[i].version = question[i].version /\ question[i].revision = 0
    /\ reviews[<<"tags", i>>].verdict # "pass"
    /\ reviews[<<"tags", i>>].verdict = "blocked" \/ i \in rejected

AgentTagReview(i) ==
    /\ Running("off") /\ stage = "watchdog_tags" /\ i \in ActiveItems /\ MayCorrect(i)
    /\ \E t \in Choices \ {proposal[i].tags} : proposal' = [proposal EXCEPT ![i].tags = t]
    /\ reviews' = [reviews EXCEPT ![<<"tags", i>>] = NoReview]
    /\ rejected' = rejected \cup {i}
    /\ watched' = [watched EXCEPT !["tags"] = @ \ {i}]
    /\ UNCHANGED <<stage, actions, checked, deferred, receipt, stopped, runner, dbVars, audited,
                   edits, troubles>>

Verify ==
    /\ Inspecting("verify")
    /\ IF Adopted
       THEN /\ Advance
            /\ UNCHANGED <<actions, reviews, checked, watched, proposal, rejected, deferred, receipt,
                           stopped, dbVars, audited, edits, troubles>>
       ELSE Halt("changed")

----------------------------------------------------------------------------
(* Teachers at work on the same questions.                                 *)

\* A candidate is saved at the review page: unchanged, with other answers, or
\* with another text.
EditCandidate(i) ==
    /\ troubles < MaxTroubles /\ task["paper"] = "parsed" /\ item[i].active /\ question[i].body = 0
    /\ LET new == item[i].rev + 1
       IN  \E row \in {[item[i] EXCEPT !.rev = new], [item[i] EXCEPT !.rev = new, !.body = new],
                        [item[i] EXCEPT !.rev = new, !.body = new, !.text = new]} :
              item' = [item EXCEPT ![i] = row]
    /\ edits' = edits + 1 /\ troubles' = troubles + 1
    /\ UNCHANGED <<fileVars, stopped, runner, task, confirmed, keys, question, audited>>

\* A published question gets other content, or other tags.
EditedBody == 99
EditQuestion(i) ==
    /\ troubles < MaxTroubles /\ question[i].body # 0
    /\ \/ question' = [question EXCEPT ![i].body = EditedBody, ![i].version = @ + 1]
       \/ \E t \in Choices : question' = [question EXCEPT ![i].revision = @ + 1, ![i].tags = t]
    /\ edits' = edits + 1 /\ troubles' = troubles + 1
    /\ UNCHANGED <<fileVars, stopped, runner, task, item, confirmed, keys, audited>>

----------------------------------------------------------------------------
Uploads   == \E r \in {"paper", "answers"} : Upload(r)
Converts  == \E r \in {"paper", "answers"} : Convert(r)
Waits     == \E r \in {"paper", "answers"} : Wait(r)
Answers   == \E v \in {"pass", "blocked"} : Answer(v)
Reviewing == \E p \in {"paper", "answers"}, i \in Items : ReviewOne(p, i)
Repeating == \E p \in {"paper", "answers"}, i \in Items : ReviewAgain(p, i)
ByAgents  == \E i \in Items : AgentPaperReview(i) \/ AgentAnswerReview(i)
Reviewed  == \E p \in {"paper", "answers"} : AllReviewed(p)
Deferring == \E i \in Items : Defer(i)
Watching  == \E w \in {"content", "tags"}, i \in Items : WatchOne(w, i)
Rewatching == \E w \in {"content", "tags"}, i \in Items : WatchAgain(w, i)
Watched   == \E w \in {"content", "tags"} : AllWatched(w)
Looking   == \E i \in Items : VisualReceipt(i)
Proposing == \E i \in Items : Propose(i)
Correcting == \E i \in Items : AgentTagReview(i)
Editing   == \E i \in Items : EditCandidate(i) \/ EditQuestion(i)

PipelineNext ==
    \/ Start \/ Leave \/ Die \/ NoticeStop \/ Monitor \/ Resume
    \/ Persist \/ Commit \/ CommitFails \/ SaveResult \/ NoteItem \/ EndStage
    \/ Uploads \/ Converts \/ Waits
    \/ InventoryFails \/ Reviewing \/ Repeating \/ Answers \/ ByAgents \/ Reviewed \/ Deferring
    \/ ConfirmPaper \/ AttachAnswers \/ Publish \/ AdoptTags
    \/ Watching \/ Rewatching \/ NotePass \/ Watched \/ Looking
    \/ Proposing \/ AllProposed \/ Correcting \/ Verify
    \/ Editing

PipelineSpec == PipelineInit /\ [][PipelineNext]_ipVars

----------------------------------------------------------------------------
(* Properties.                                                             *)

PipelineTypeOK ==
    /\ \E k \in 1..15 : stage = Stages[k]
    /\ \A n \in Names : actions[n].result => actions[n].sent
    /\ stopped \in {"", "watchdog", "conversion", "conflict", "changed", "quality", "visual"}
    /\ deferred \subseteq Items /\ watched["content"] \subseteq Sampled
    /\ \A i \in Items : item[i].body <= item[i].rev /\ item[i].text <= item[i].body

\* Some item was to be left for later.
DeferralAsked == \E i \in Items : actions[<<"defer", i>>].sent

\* A crash is never taken for somebody's edit: a run in which nobody edited stops
\* neither for a conflict nor because something changed, wherever the runner died
\* between a change of the database and its result on file.  Deferrals are the
\* exception: one that died half-way leaves the numbers wrong until it is asked
\* for again, and one that died before it was carried out keeps the revision it
\* saw, which the review of the item replaces (operation, adopt, defer_item).
CrashesAreHarmless ==
    stopped \in {"conflict", "changed"} => edits > 0 \/ DeferralAsked

\* What the run publishes is the document whose answers were reviewed, and the
\* watchdog passed that very document if the item is in its sample, in spite of
\* edits, repeated requests and audits asked for again.
PublishedAsReviewed ==
    [][\A i \in Items : question[i].body = 0 /\ question'[i].body # 0 =>
          /\ question'[i].body = checked["answers"][i]
          /\ i \in Sampled => question'[i].body = audited["content"][i]]_ipVars

\* The tags the run adopts are the tags the audit passed, on questions nobody
\* else has tagged.
AdoptedAsAudited ==
    [][(Running("send") /\ runner.name[1] = "adopt" /\ question' # question /\ edits' = edits) =>
          \A i \in ActiveItems :
             /\ question[i].revision = 0
             /\ i \in Sampled => question'[i].tags = audited["tags"][i]]_ipVars
=============================================================================
