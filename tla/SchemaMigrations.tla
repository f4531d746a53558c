--------------------------- MODULE SchemaMigrations ---------------------------
(* How a program brings the database file up to its own schema when it starts: *)
(* initialize_database of db.py, which every program runs (the web server, the *)
(* document worker, the diagnosis and graph commands), and learning.migrate,   *)
(* which the web server runs after it.  Several programs start at once on one  *)
(* file (the updater starts the server and the worker together), any of them   *)
(* may die at any point, and people use a program that is up while another is  *)
(* still starting.  A step that is one transaction is one action: nobody sees  *)
(* the inside of it, and an error inside it rolls the whole of it back.        *)
EXTENDS Naturals, Sequences, FiniteSets

CONSTANTS Programs,     \* the processes that start on the file
          Servers,      \* those that are the web server
          MaxStarts     \* bound: starts of programs

SchemaAssumption == MaxStarts \in Nat

NoVersion == "unset"

\* A step: what it is called in app_schema_migrations, and
\*   atomic   one transaction, or statement by statement and perhaps left half
\*            done (each statement then is "if not exists" or looks first);
\*   looks    its version is read before it, and a recorded step is skipped;
\*   rechecks the version is read again inside the transaction;
\*   repeats  applying it to a file that has it does not fail;
\*   needs    the step whose tables its statements are built on.
Script(name, looks, needs) ==
  [name |-> name, atomic |-> FALSE, looks |-> looks, rechecks |-> FALSE,
   repeats |-> TRUE, needs |-> needs]
Transaction(name, looks, rechecks, repeats, needs) ==
  [name |-> name, atomic |-> TRUE, looks |-> looks, rechecks |-> rechecks,
   repeats |-> repeats, needs |-> needs]

\* The steps of initialize_database.
Core == Script("core", TRUE, "none")
DocumentIngestion ==
  Transaction("document_ingestion", TRUE, FALSE, TRUE, "core")
TaggingQueue == Transaction("automatic_tagging_queue", TRUE, FALSE, TRUE,
                            "document_ingestion")
QuestionBank == Transaction("question_bank", TRUE, FALSE, TRUE, "none")

\* Adds the column bank_type and derives it for every question.
BankFilters == Transaction("question_bank_filters", TRUE, FALSE, TRUE, "none")

FirstWrongDiagnosis == Script("first_wrong_diagnosis", FALSE, "none")

\* Mutated form: skipped once its version is there, which it writes before it
\* adds its columns.
GraphSkipped ==
  Script("connected_learning_graph", TRUE, "first_wrong_diagnosis")

LearningGraph ==
  Script("connected_learning_graph", FALSE, "first_wrong_diagnosis")

ReasoningDiagnosis == Script("reasoning_diagnosis", FALSE, "none")
WrongCauses == Script("student_wrong_causes", FALSE, "none")
AdaptiveDiagnosis == Script("adaptive_diagnosis", FALSE, "none")
SharedGoals == Transaction("shared_learning_goals", FALSE, TRUE, TRUE, "none")
ExamReview == Transaction("exam_review", TRUE, FALSE, TRUE, "none")

\* The steps of learning.migrate.  A second copy of the first fails ("add
\* column"), a second row of exam_workflow's version fails.
Outcomes == Transaction("learning_state", TRUE, FALSE, FALSE, "core")

\* Mutated form: the legacy evidence is made without looking again.
EvidenceUnchecked ==
  Transaction("response_evidence", TRUE, FALSE, TRUE, "learning_state")

ResponseEvidence ==
  Transaction("response_evidence", TRUE, TRUE, TRUE, "learning_state")

ExamWorkflow == Transaction("exam_workflow", TRUE, FALSE, FALSE, "none")
ScanProgress ==
  Transaction("response_scan_progress", FALSE, TRUE, TRUE, "exam_workflow")
UnmatchedCards ==
  Transaction("unmatched_answer_cards", TRUE, TRUE, TRUE, "none")
ChoiceStatistics == Transaction("choice_statistics", TRUE, TRUE, TRUE, "none")
StudentLearning == Script("student_learning", FALSE, "none")

CommonSteps ==
  <<Core, DocumentIngestion, TaggingQueue, QuestionBank, BankFilters,
    FirstWrongDiagnosis, LearningGraph, ReasoningDiagnosis, WrongCauses,
    AdaptiveDiagnosis, SharedGoals, ExamReview>>
ServerSteps == <<Outcomes, ResponseEvidence, ExamWorkflow, ScanProgress,
                 UnmatchedCards, ChoiceStatistics, StudentLearning>>
AllSteps == {(CommonSteps \o ServerSteps)[i].name : i \in 1..19}

VARIABLES recorded,     \* steps whose version is on file
          whole,        \* steps whose tables and columns are all there
          times,        \* step -> how often its rows were made (2 for more)
          at,           \* program -> index of the step it is at
          phase,        \* program -> what it is doing there
          bankType,     \* the type a question is filed under in the bank
          starts        \* programs started

schemaVars == <<recorded, whole, times, at, phase, bankType, starts>>

Steps(p) == IF p \in Servers THEN CommonSteps \o ServerSteps ELSE CommonSteps
Here(p) == Steps(p)[at[p]]

\* A file that has the first n steps.
FileWith(n) ==
  LET done == {CommonSteps[i].name : i \in 1..n}
  IN /\ recorded = done /\ whole = done
     /\ times = [s \in AllSteps |-> IF s \in done THEN 1 ELSE 0]
     /\ bankType = IF n >= 5 THEN "derived" ELSE NoVersion

\* A new file, one of core version 11, and one before the bank's filters.
SchemaInit == /\ \E n \in {0, 1, 4} : FileWith(n)
              /\ at = [p \in Programs |-> 1]
              /\ phase = [p \in Programs |-> "off"]
              /\ starts = 0

Start(p) == /\ phase[p] = "off" /\ starts < MaxStarts
            /\ at' = [at EXCEPT ![p] = 1]
            /\ phase' = [phase EXCEPT ![p] = "look"]
            /\ starts' = starts + 1
            /\ UNCHANGED <<recorded, whole, times, bankType>>

\* The program goes on with the step after this one, or is up.
Onward(p) == /\ at' = [at EXCEPT ![p] = @ + 1]
             /\ phase' = [phase EXCEPT ![p] = IF at[p] = Len(Steps(p))
                                              THEN "up" ELSE "look"]

\* The version of the step is read, outside any transaction.
Done(p) == Here(p).looks /\ Here(p).name \in recorded

Skip(p) == /\ phase[p] = "look" /\ Done(p)
           /\ Onward(p)
           /\ UNCHANGED <<recorded, whole, times, bankType, starts>>

Look(p) == /\ phase[p] = "look" /\ ~Done(p)
           /\ phase' = [phase EXCEPT ![p] = "apply"]
           /\ UNCHANGED <<recorded, whole, times, at, bankType, starts>>

\* The first statements of a script; the graph's version is one of them.
ScriptBegins(p) ==
  /\ phase[p] = "apply" /\ ~Here(p).atomic
  /\ phase' = [phase EXCEPT ![p] = "half"]
  /\ recorded' = recorded \cup ({Here(p).name} \cap {LearningGraph.name})
  /\ UNCHANGED <<whole, times, at, bankType, starts>>

ScriptEnds(p) ==
  /\ phase[p] = "half"
  /\ recorded' = recorded \cup {Here(p).name}
  /\ whole' = whole \cup {Here(p).name}
  /\ Onward(p)
  /\ UNCHANGED <<times, bankType, starts>>

\* The step in one transaction.  With nothing left to do it commits nothing.
Commits(p) ==
  LET s == Here(p)
      again == s.name \in recorded
  IN /\ phase[p] = "apply" /\ s.atomic
     /\ s.needs \in whole \cup {"none"}
     /\ again => s.repeats
     /\ IF again /\ s.rechecks
        THEN UNCHANGED <<recorded, whole, times, bankType>>
        ELSE /\ recorded' = recorded \cup {s.name}
             /\ whole' = whole \cup {s.name}
             /\ times' = [times EXCEPT ![s.name] = IF @ = 2 THEN 2 ELSE @ + 1]
             /\ bankType' = IF s = BankFilters THEN "derived" ELSE bankType
     /\ Onward(p)
     /\ UNCHANGED starts

\* An error inside the transaction: rolled back, and the program does not start.
RollsBack(p) ==
  /\ phase[p] = "apply" /\ Here(p).atomic
  /\ phase' = [phase EXCEPT ![p] = "off"]
  /\ UNCHANGED <<recorded, whole, times, at, bankType, starts>>

\* The process dies, at whatever point; what is committed stays.
Dies(p) == /\ phase[p] # "off"
           /\ phase' = [phase EXCEPT ![p] = "off"]
           /\ UNCHANGED <<recorded, whole, times, at, bankType, starts>>

\* A teacher files a question under another type.
SaveType(p) == /\ phase[p] = "up" /\ p \in Servers
               /\ bankType' = "chosen"
               /\ UNCHANGED <<recorded, whole, times, at, phase, starts>>

SchemaNext == \/ \E p \in Programs : Start(p)
              \/ \E p \in Programs : Skip(p)
              \/ \E p \in Programs : Look(p)
              \/ \E p \in Programs : ScriptBegins(p)
              \/ \E p \in Programs : ScriptEnds(p)
              \/ \E p \in Programs : Commits(p)
              \/ \E p \in Programs : RollsBack(p)
              \/ \E p \in Programs : Dies(p)
              \/ \E p \in Programs : SaveType(p)

SchemaSpec == SchemaInit /\ [][SchemaNext]_schemaVars

-----------------------------------------------------------------------------
SchemaTypeOK == /\ recorded \subseteq AllSteps /\ whole \subseteq AllSteps
                /\ times \in [AllSteps -> 0..2]
                /\ at \in [Programs -> 1..20]
                /\ phase \in [Programs -> {"off", "look", "apply", "half", "up"}]
                /\ bankType \in {NoVersion, "derived", "chosen"}
                /\ starts \in 0..MaxStarts

\* Wherever programs died and whoever started beside them, a program that is up
\* finds every table and column of its own schema (initialize_database and
\* learning.migrate repair what a start left half done).
UpMeansMigrated ==
  \A p \in Programs : phase[p] = "up" =>
    \A i \in 1..Len(Steps(p)) : Steps(p)[i].name \in whole

\* The rows a step derives from the students' answers (a first evidence and
\* decision of every old response, the audited correction of the statistics,
\* the outcomes) are made once, whatever programs start together or die.
AnswersMigratedOnce ==
  \A s \in {Outcomes, ResponseEvidence, ChoiceStatistics} :
    times[s.name] < 2 /\ (times[s.name] = 1 <=> s.name \in whole)

\* A type a teacher chose for a question is not derived again, however the
\* programs start.
ChoiceIsKept == [][bankType = "chosen" => bankType' = "chosen"]_schemaVars
=============================================================================
