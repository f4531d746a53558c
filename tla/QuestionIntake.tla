---------------------------- MODULE QuestionIntake ----------------------------
(***************************************************************************)
(* Questions from pasted text: a parse task, its runs and the questions    *)
(* saved from it (create_parse_task, run_parse_task, save_parsed_question  *)
(* of repository.py, parsing.py).                                          *)
(*                                                                         *)
(* A run commits that it has begun, parses outside any transaction, and    *)
(* replaces the items in another.  Nothing keeps a task from being run by  *)
(* two teachers at once, or again after its questions were saved; saving   *)
(* creates the question in one transaction and marks the item in the next. *)
(***************************************************************************)
EXTENDS Naturals, FiniteSets, Sequences

CONSTANTS Teachers,
          Outputs,     \* what a parser may return: sequences of raw items
          ByText,      \* what the built-in parser makes of the same text
          Fallback,    \* the task allows the built-in parser instead of an adapter
          MaxRuns, MaxSaves  \* bounds

VARIABLES status,      \* of the task and its batch: "none", "queued", "running", "parsed", "failed"
          items,       \* parsed_question_items
          output,      \* output_json of the task: the run and what it returned
          itemCount,   \* item_count of the batch
          savedCount,  \* saved_count of the batch
          questions,   \* questions made from items
          teacher,     \* the request each teacher is waiting for
          runs         \* runs so far

intakeVars == <<status, items, output, itemCount, savedCount, questions, teacher, runs>>

NoItem  == <<0, 0>>
Nobody  == [pc |-> "idle", run |-> 0, item |-> NoItem, question |-> 0]
Warnings == {"missing_answer", "short_stem", "low_confidence", "missing_stem", "duplicate_question_number"}

IntakeInit ==
    /\ status = "none" /\ items = {} /\ output = [run |-> 0, raw |-> <<>>]
    /\ itemCount = 0 /\ savedCount = 0 /\ questions = {}
    /\ teacher = [t \in Teachers |-> Nobody]
    /\ runs = 0

----------------------------------------------------------------------------
(* What the parsers return is brought into one form.                       *)

\* An item without a number is numbered by its place.
Number(raw, k) == IF raw[k].number = 0 THEN k ELSE raw[k].number

\* The warnings of the parser, and those for what is missing or doubtful.
Warned(raw, k) ==
    raw[k].warnings
      \cup (IF raw[k].sure THEN {} ELSE {"low_confidence"})
      \cup (IF raw[k].stem THEN {} ELSE {"missing_stem"})

Repeated(raw, k) == \E j \in DOMAIN raw \ {k} : Number(raw, j) = Number(raw, k)

\* Mutated form: the same number twice is only noted.
ReadyAlone(raw, k) == raw[k].sure /\ Warned(raw, k) = {}

\* Ready for use: sure, without warnings, and the only one with its number.
ReadyItem(raw, k) == raw[k].sure /\ Warned(raw, k) = {} /\ ~Repeated(raw, k)

Normalized(run, raw) ==
    {[id |-> <<run, k>>, number |-> Number(raw, k), saved |-> 0,
      warnings |-> Warned(raw, k) \cup (IF Repeated(raw, k) THEN {"duplicate_question_number"} ELSE {}),
      review |-> IF ReadyItem(raw, k) THEN "ready" ELSE "needs_review"] : k \in DOMAIN raw}

----------------------------------------------------------------------------
CreateTask ==
    /\ status = "none" /\ status' = "queued"
    /\ UNCHANGED <<items, output, itemCount, savedCount, questions, teacher, runs>>

\* A run begins whatever the task is doing.
BeginRun(t) ==
    /\ teacher[t].pc = "idle" /\ status # "none" /\ runs < MaxRuns
    /\ runs' = runs + 1
    /\ status' = "running"
    /\ teacher' = [teacher EXCEPT ![t] = [Nobody EXCEPT !.pc = "parsing", !.run = runs + 1]]
    /\ UNCHANGED <<items, output, itemCount, savedCount, questions>>

\* The parser of the task, or the built-in one when an adapter fails and the task allows it.
Parsed == Outputs \cup (IF Fallback THEN {ByText} ELSE {})

\* What is assumed of the parsers, and the bounds are numbers.
IntakeAssumption ==
    /\ \A raw \in Parsed :
          raw \in Seq([number : Nat, sure : BOOLEAN, stem : BOOLEAN, warnings : SUBSET Warnings])
    /\ MaxRuns \in Nat /\ MaxSaves \in Nat

\* Mutated form: the items of earlier runs are not removed.
AddedTo(old, new) == old \cup new

\* The items of a run take the place of all earlier ones, saved or not.
Replaced(old, new) == new

\* Items, task and batch change in one transaction.
FinishRun(t) ==
    LET run == teacher[t].run
    IN  /\ teacher[t].pc = "parsing"
        /\ \E raw \in Parsed :
              /\ items' = Replaced(items, Normalized(run, raw))
              /\ output' = [run |-> run, raw |-> raw]
              /\ itemCount' = Len(raw)
              /\ status' = IF raw = <<>> THEN "failed" ELSE "parsed"
        /\ teacher' = [teacher EXCEPT ![t] = Nobody]
        /\ UNCHANGED <<savedCount, questions, runs>>

\* The provider's budget or the adapter refuses: the task has failed, its items stay.
RunFails(t) ==
    /\ teacher[t].pc = "parsing"
    /\ status' = "failed"
    /\ teacher' = [teacher EXCEPT ![t] = Nobody]
    /\ UNCHANGED <<items, output, itemCount, savedCount, questions, runs>>

\* Any other error leaves the task running until it is run again.
RunDies(t) ==
    /\ teacher[t].pc = "parsing"
    /\ teacher' = [teacher EXCEPT ![t] = Nobody]
    /\ UNCHANGED <<status, items, output, itemCount, savedCount, questions, runs>>

----------------------------------------------------------------------------
\* The question is created and committed ...
CreateQuestion(t, item) ==
    /\ teacher[t].pc = "idle" /\ item \in items /\ Cardinality(questions) < MaxSaves
    /\ LET q == Cardinality(questions) + 1
       IN  /\ questions' = questions \cup {[id |-> q, item |-> item.id]}
           /\ teacher' = [teacher EXCEPT ![t] = [Nobody EXCEPT !.pc = "marking", !.item = item.id, !.question = q]]
    /\ UNCHANGED <<status, items, output, itemCount, savedCount, runs>>

\* ... and then its item is marked, if there still is one, and the batch is counted.
MarkSaved(t) ==
    /\ teacher[t].pc = "marking"
    /\ items' = {IF i.id = teacher[t].item THEN [i EXCEPT !.saved = teacher[t].question, !.review = "saved"]
                 ELSE i : i \in items}
    /\ savedCount' = Cardinality({i \in items' : i.review = "saved"})
    /\ teacher' = [teacher EXCEPT ![t] = Nobody]
    /\ UNCHANGED <<status, output, itemCount, questions, runs>>

\* The request dies between the two.
SaveDies(t) ==
    /\ teacher[t].pc = "marking"
    /\ teacher' = [teacher EXCEPT ![t] = Nobody]
    /\ UNCHANGED <<status, items, output, itemCount, savedCount, questions, runs>>

----------------------------------------------------------------------------
BeginRuns == \E t \in Teachers : BeginRun(t)
FinishRuns == \E t \in Teachers : FinishRun(t)
RunsFail  == \E t \in Teachers : RunFails(t)
RunsDie   == \E t \in Teachers : RunDies(t)
Creating  == \E t \in Teachers, i \in items : CreateQuestion(t, i)
Marking   == \E t \in Teachers : MarkSaved(t)
SavesDie  == \E t \in Teachers : SaveDies(t)

IntakeNext == CreateTask \/ BeginRuns \/ FinishRuns \/ RunsFail \/ RunsDie \/ Creating \/ Marking \/ SavesDie
IntakeSpec == IntakeInit /\ [][IntakeNext]_intakeVars

----------------------------------------------------------------------------
(* Properties.                                                             *)

\* Rows are what their tables hold, and an item that is ready gives no warning.
IntakeTypeOK ==
    /\ status \in {"none", "queued", "running", "parsed", "failed"}
    /\ \A i \in items : /\ i.review \in {"ready", "needs_review", "saved"}
                        /\ i.warnings \subseteq (IF i.review = "ready" THEN {} ELSE Warnings)
    /\ itemCount \in Nat /\ savedCount \in Nat /\ runs \in 0..MaxRuns

\* A parsed task shows the output of one run and nothing of another, however runs
\* and saves overlap: the items are those of the output on file, the batch counts
\* them, and two items that are ready have different numbers (run_parse_task,
\* normalize_parser_output).
ParsedIsWhole ==
    /\ status = "parsed" =>
          /\ {i.id : i \in items} = {<<output.run, k>> : k \in DOMAIN output.raw}
          /\ itemCount = Cardinality(items) /\ items # {}
    /\ \A i, j \in items : i.review = "ready" /\ j.review = "ready" /\ i.number = j.number => i = j

\* A saved item has a question that was made from it, and the batch never counts more
\* saved items than there are questions.
SavedHasQuestion ==
    /\ \A i \in items : i.review = "saved" => [id |-> i.saved, item |-> i.id] \in questions
    /\ savedCount <= Cardinality(questions)
=============================================================================
