# HighSchoolPhysics: TLA+ models, TLC runs and proofs

HighSchoolPhysics is a single-server web application (Python standard library,
SQLite) for physics teachers.  It imports papers, splits them into questions that
a teacher reviews and publishes, keeps a question bank whose questions a language
model tags, reads answer cards, grades answers, leads students through diagnosis and
practice, and reports mastery.  One threaded HTTP server and one
or more worker processes share one SQLite file and one storage directory; nothing
else coordinates them.  What is hard in this code is therefore what happens when
several processes, threads or browser pages meet on the same rows: leases that
run out under a slow call, checks made before the transaction that relies on
them, files stored before they are recorded, requests sent twice.

This directory holds TLA+ models of those parts, the TLC configurations that
check them on small instances, and theorems about them that TLAPS proves for any
number of rows, workers, requests and pages.  `PROJECT.json` lists the components, the
runs, for every definition the lines of the source it stands for, the hazards of
the code with the properties that watch them, and the theorems.

Contents: [Inventory](#inventory) ·
[How code becomes actions](#how-code-becomes-actions) ·
[The modules](#the-modules) · [Runs](#runs) · [Bounds](#bounds) ·
[Fairness](#fairness) · [Proofs](#proofs) · [Finding and observations](#finding-and-observations) ·
[What is left out](#what-is-left-out) · [Plan](#plan)

## Inventory

Paths are under `src/highschoolphysics/` unless they say otherwise.

| Component | State it keeps | Operations | Interacts with | What is hard; what must hold | Module |
|---|---|---|---|---|---|
| Document conversion queue (`document_worker.py`, `document_ingestion.py`) | `document_parse_tasks`, `question_import_batches`, `document_conversions` | claim, heartbeat, recover, final transaction, failure, cancel, retry, publish mark, delete | an upload creates the task, candidate review publishes its items | leases that run out under a live worker, crashes, cancel against completion; one conversion per document, every task ends | `DocumentTasks` |
| Resumable uploads (`document_ingestion.py`) | `document_uploads`, `document_upload_parts`, part files | create, store part, complete (three phases), cancel, expire | object store, collector, conversion queue | two completions, crash between file and row, the collector meanwhile; a document exists exactly for a completed upload and its original is intact | `UploadAssembly` |
| Object store and orphan collection (`document_store.py`, `document_maintenance.py`, `src/scripts/hsp_document_gc.py`) | content-addressed files, staging and work directories | atomic write, remove, collect | uploads, worker, deletion | removal against a concurrent store of the same bytes; nothing referenced is removed | `AssetStore`, `UploadAssembly` |
| Candidate review (`document_ingestion.py`, `document_restructure.py`, `document_views.py`) | `parsed_question_items`, `import_item_publications`, `content_operation_keys`, whole-paper reviews | save, confirm, confirm paper, attach answers, assign blocks, reorder, split, merge, defer, delete | question bank, tag queue | stale pages, checks before the transaction, repeated requests; nothing is published that its teacher did not see | `CandidateReview` |
| Question splitting (`question_splitter.py`) | none: blocks to candidates | take a block, hand a picture on, divide | conversion, candidate review | numbers and words that look alike; no word or picture of the paper is lost or changes its question | `QuestionSplitter` |
| Parsed text (`repository.py`, `parsing.py`) | parse tasks, items, batches | create, run, save a question | question bank | two runs of one task, a run after saving; items of one output | `QuestionIntake` |
| Ingestion pipeline (`ingestion_pipeline.py`) | state file, receipts, STOP file, lock | start, stages, reviews, watchdog, resume | upload API, candidate review, tagging | crash between an operation's commit and its receipt, teachers who edit meanwhile; a replay is no conflict, what is published was reviewed | `IngestionPipeline` |
| Question tag jobs (`document_worker.py`, `repository.py`, `question_bank.py`) | `question_tag_jobs`, tags and tag revisions, candidates | queue, claim, run, retry, recover, save, confirm, approve | language model, question bank | leases without heartbeat, a model call of a minute between read and write; a person's decision is never replaced | `TagJobs` |
| Suggested tags, providers and budget (`repository.py`, `llm.py`, `providers.py`) | `question_tag_candidates`, `provider_configs`, daily and monthly usage | read, look up, check the budget, call, store | every generation | limit read before and counted after a call, a cache that outlives what it was made from | `CandidateTags`, `ScanJobs` |
| Taxonomy (`taxonomy.py`, `repository.py`) | ontology versions, tags, tags of questions | draft, publish, create, enable, install the default | tagging | merges beside open pages and half-done confirmations; a replaced tag returns only by one that is late | `Taxonomy` |
| Exam review packages (`exam_review.py`, `exam_review_worker.py`) | `exam_review_packages`, `exam_review_items` | create, copy, save, arrange, retry, claim, generate, finish | language model, assessments | generation beside an editing teacher; a ticked item shows what was ticked | `ReviewItems` |
| Worker process (`document_worker.py`) | none of its own | the turns of `run_once`: conversions, scans, tag jobs, review items, diagnosis | all queues | one process serves every queue in a fixed order; no queue waits for ever | `WorkerLoop` |
| Assessments, grading, redo (`repository.py`, `grading.py`, `mastery.py`, `exam_import.py`) | assessments, frozen questions, responses, wrong questions, redo attempts, mastery rows | create, import, resolve, grade, publish, revise, bundle, redo, review | learning views | several handlers that must each recompute; mastery and wrong questions agree with the scores | `Assessments` |
| Response decisions (`response_workflow.py`, `outcomes.py`, `content_corrections.py`) | import batches, evidence and decisions, publications, corrections, unmatched cards | preview, save, review, correct, confirm missing, reassign, publish, assign a card | scans, learning views | a preview confirmed after what it was computed from changed; publication, decisions and wrong questions agree | `ResponseWorkflow`, `AnswerCards` |
| Response scans (`response_scans.py`, `document_worker.py`) | `response_scan_jobs`, page images | upload, claim, read, charge, match, preview | providers, response decisions | jobs without leases, failed by any worker that starts; calls stay bounded | `ScanJobs` |
| Diagnosis (`diagnosis.py`, `diagnosis_adaptive.py`, `diagnosis_reasoning.py`) | sessions and their events, cards and card jobs | start, probe, locate, hint, finish, revise, practise, verify; claim and generate a card | learning graph, language model | two pages on one session; a conclusion rests on what was done alone | `Diagnosis`, `ReasoningDiagnosis`, `LearningGraph` |
| Learning graph, goals and regions (`learning_graph.py`, `learning_goals.py`, `learning_regions.py`) | releases of the graph, bindings | review edges, card and binding, add a candidate; compute the map | diagnosis | two review pages and a worker; no cycle, no decision of another teacher lost | `LearningGraph`, `LearningRegions` |
| Practice (`learning.py`, `student_learning.py`) | redo attempts, personal errors and redos | submit a page, review, correct, mark as mastered | assessments, diagnosis | resubmitted pages, late reviews; mastery is spaced and earned on days not marked as helping | `PracticeLoop` |
| Schema and migrations (`db.py` and each component's `migrate`) | `app_schema_migrations`, `user_version` | apply each step | every program that starts | programs that start together or die half-way; a program that is up finds its schema | `SchemaMigrations` |
| Backup (`backup.py`) | a JSON file | export, restore | administrators | no snapshot, a fixed list of tables | `Backup` |
| Answer recovery, statistics, accounts (`answer_recovery.py`, `exam_statistics.py`, `auth.py`, `sso.py`, `security.py`) | proposals; none; sessions and one-time states | propose; compute; log in and out | server | see [What is left out](#what-is-left-out) | - |
| HTTP server, views, exports, deployment | - | routing, rendering | all | read only, or run with the server stopped | - |

## How code becomes actions

* **One SQLite transaction is one action.**  Writes run under `BEGIN IMMEDIATE`,
  so transactions are serial; what a handler reads *before* that statement is an
  action of its own, whose result the request carries along and uses later.  The
  known weak spots of this code are exactly such reads.
* **A file operation is an action of its own** where a crash or another process
  can come between it and the row (uploads, the collector).
* **Real time is events.**  A lease runs out, a back-off ends, an upload's time to
  live passes.  They may happen as soon as the code allows them, so a worker may
  be outrun by its lease at every point.
* **A crash** forgets a worker's or a request's local state and nothing else.
  Every request of the HTTP server may be lost together with its answer.
* **Identifiers drawn at random** (`uuid4`) are counters or a finite set from
  which a value in nobody's hands is drawn.
* **Data** are model values: a text is one of a few texts, a file is absent, good or
  bad, a candidate's content is its row.  Formatting, wording and layout never
  appear.
* **History variables** (`applied`, `seen`, `basis`, `at`, `approved`, `editor`,
  `paper`, `audited`, `before`, `told`, `late`, the `shown` of an event and others,
  marked in their modules) are written and never read by an action: they let a property speak of
  what a person saw or of how often something happened.
* **Mutated forms.**  An operator whose comment starts "Mutated form" is an operator of
  the code with one plausible mistake (a missing check, a swapped order).  The
  modules do not use them; substituted for the operator they vary, they show that
  the property named with them notices the mistake.

## The modules

| Module | Models | State, and the code it stands for |
|---|---|---|
| `DocumentTasks` | the conversion queue | `task`: a row of `document_parse_tasks` joined with its batch; `conversions`: `document_conversions`; `cancels`: a cancel request between its read and its write; `retryOf`: `content_operation_keys` of retries; `worker`: what each process holds |
| `ConversionJob` | what the queue promises (abstract) | `phase` and `result` of each task; nothing of workers, leases or batches |
| `UploadAssembly` | resumable uploads and the collector | `upload`: a row with its part rows; `disk`: its part files, assembled file and original; `documents`; `request`: where each HTTP request is; `gc`: what a collection has seen and when |
| `CandidateReview` | review of one parsed paper | `rows`: `parsed_question_items`; `order`: reading order of the active ones; `pub`: `import_item_publications`; `reviews`: whole-paper fingerprints; `recorded`: `content_operation_keys`; `batch`: its counters and status; `req`: requests with the page their client saw |
| `TagJobs` | the tag queue and everyone who tags | `question`: version, tag revision, tags and who decided them; `candidates`; `job`: `question_tag_jobs`; `run`: what workers and HTTP threads hold; `page`: what editors have on screen |
| `ReviewItems` | exam review packages | `package`, `item`: the two tables; `worker`: the call each process has under way; `page`: what each browser page shows |
| `WorkerLoop` | the turns of one worker process over two queues | the state of `TagJobs` and `ReviewItems` (both instantiated) and `turn`, the queue each process is at |
| `AssetStore` | images and conversions on disk against their rows | `task`, `row`, `conv`, `convRow`, `refs`: the tables; `file`, `unlinking`: the disk and what a deletion has yet to unlink; `worker`: lease and what a conversion stored so far |
| `QuestionSplitter` | `split_document_ir` | the blocks of a paper as sequences of marks, how far the loop is, the segments and the candidates made of them |
| `QuestionIntake` | parse tasks of pasted text | status, items, last output and counters of one task, the questions made, where each teacher's request is |
| `IngestionPipeline` | the supervised run of one paper | the state file (stage, requests with results, reviews, receipts), the runner in memory, and the rows of the database it works on |
| `CandidateTags` | suggested tags within a budget | question, enabled tags, settings, stored candidates, usage, and each thread's run |
| `Taxonomy` | ontology versions and tags | versions, tags with parent, level and status, the tags of questions, open pages, `request`: what a confirmation has checked and not yet written |
| `Assessments` | the score-based workflow of one exam | bank, roster, exam, frozen questions, responses, wrong questions, redo attempts, mastery rows |
| `ResponseWorkflow` | the evidence workflow of one exam | `response`: the row a student has for a question, with its id, first answer and decision; batches, publications, corrections, what is on each teacher's screen |
| `AnswerCards` | cards without a student, beside `ResponseWorkflow`, which it extends | `card`, and `assign`: how far each assignment is |
| `ScanJobs` | reading of scanned cards | `job`: `response_scan_jobs`; `worker`; `calls`, `today`: usage; images kept |
| `Diagnosis` | sessions of the present protocol | the session, its events, what each page shows, a clock of half days |
| `ReasoningDiagnosis` | sessions of the two earlier protocols | the same |
| `LearningGraph` | card jobs and releases of the graph | `job`, `card`, `graph` (the last release), `runs`: the token each worker holds, `pages`: the release each shows |
| `LearningRegions` | what the map concludes | bindings, sessions with their events, publications; all conclusions are operators over them |
| `PracticeLoop` | what a student practises again | the day, the log of attempts and errors, `assisted`: the day a diagnosis is marked with, pages; progress is an operator over the log |
| `SchemaMigrations` | start-up of programs on one file | steps recorded, steps whole, how often each derived rows, where each program is |
| `Backup` | export beside people at work, restore | tables as sets of rows with references, the copy and how far it is |
| `MC*` | instances for TLC | a variable `load` or `part` chosen at the start, see [Bounds](#bounds) |
| `*Proofs` | theorems and their proofs | extend the module they are named after and TLAPS; `ContentProofs`, `MarkingProofs` and `LearningProofs` extend the composite modules `MCContent`, `MCMarking` and `MCLearning` and prove all their parts |

### DocumentTasks and ConversionJob

`run_once` is `RecoverExpired`, then `ClaimTask` or `ClaimNothing`, then the
conversion: the converter ends (`ConvertDone`), raises (`ConvertFailed`) or is
told to stop (`ConvertCancelled`), and the final transaction stores
(`SaveConversion`) or rolls back (`DiscardStaleOutput`); a failure is reported by
`WriteFailure`.  The heartbeat thread is `Heartbeat`; it may take no turn at all,
which covers the thread that died silently because it could not open the database.
`issued + 1` is a fresh lease token.  The handlers are `SubmitTask`,
`CancelRead`/`CancelWrite` (two actions, because `task_cancel` reads the status
outside a transaction), `RetryTask`, `ConfirmCandidates` and `DeleteTask`.
`ConfirmCandidates` keeps only what the queue must know of a publication; the
review itself is `CandidateReview`.

`ConversionJob` says what a teacher may rely on: a document is converted at most
once, a task is reopened only while it has no conversion, a delivered conversion
is never replaced, a task with published items is never removed.  `PhaseOf`
computes the abstract phase from task row, batch and conversion, and `KeepsPromise`
states that the queue implements `ConversionJob` under that mapping.

### UploadAssembly

A part is accepted (`AcceptPart`), its file linked (`LinkPart`) and its row written
(`RecordPart`).  A completion takes the assembly lease (`ClaimAssembly`, after
`RecoverAssembly` of an expired one), reads and joins the parts (`ReadParts`,
`LinkAssembled`), compares the hash (`CheckAssembled`), links the original
(`StoreOriginal`), records document, task and state in one transaction (`Finish`)
and removes the parts (`CleanUp`); every failure goes through `Raise` and `Revert`.
`Die` ends a request anywhere.  A cancel is `CancelRead`, `CancelMark`,
`CancelRemove`.  The collector (run by hand) is `GcExpire`, which ends
the uploads whose time is up, and `GcCollect`, which removes files: both judge with
the time at which the first one started, so what the collector takes for active may
be older than the rows it reads.  Which of the files nobody protects are old enough,
and which removals fail, is left open.

### CandidateReview

Every operation of the review page is a request with a key, the page its client saw
and a form.  `Send` and `Resend` put it on its way, `Check` is what the handler
tests before `BEGIN IMMEDIATE` (for those that do: `Prechecked`), the operation's
own action is its transaction, and `Rollback` is the transaction that finds its
conditions no longer met or its key taken.  A client that lost the answer may send
the same request again, even while the first is under way.  An operation is
recorded under its key in the same transaction (`Record`); a key already recorded
only returns the recorded answer.  Which test is made where matters and is kept:
`save_candidate`, `attach_answers`, `confirm_candidates` and
`confirm_paper_review` look for a publication or a confirmation before the
transaction, `assign_source_spans`, `reorder` and `restructure` inside it.

`save_candidate` stores the form's source spans as they come: that a block is never
lost (`NoBlockLost`) is said of assigning, splitting and merging, and of forms that
leave the spans alone.

Texts stand for number, kind, stem, options and children together.  Numbers are
taken as present and distinct; reuse of an existing question, the availability of
assets and the tag job a publication queues are left to the other modules.

### TagJobs

A job row is queued by a publication (`QueueImportJob`: tag the question) or by the
question bank (`QueueBankJob`: suggest tags for the version on the teacher's page),
recovered, claimed and run by a worker; `StartAutoTag` is the same run made by an HTTP
thread without a row.  A run reads the question (`ReadQuestion`, `ReadForModel`),
asks the model, stores what it answered (`StoreCandidate`), and then checks a
suggestion (`CheckSuggestion`) or writes the tags (`ApplyTags`) in a transaction that
compares version and tag revision and looks whether a person has decided
(`Unchanged`, `KeptByPerson`).  Job rows have a lease of 180 seconds without a
heartbeat, so a run may be outrun by another; `StoreResult` and `StoreFailure` are
fenced by id, status and token, the writes to the question are not.  Editors are
teachers and agents: `SaveTags` (several questions in one compare-and-set
transaction), `ConfirmTags`, `ApproveCandidate`, `EditQuestion`.

### ReviewItems

`Create` freezes the questions of an assessment; `Fork` copies a package for a class,
taking over the arrangement and, where the question is still the same, the texts.
`SaveItem` compares the item's revision, `Arrange` the package's; `RetryItem`
compares nothing.  A worker recovers expired items and claims the first queued one
when no item is running (`RecoverOnly`, `ClaimItem`), calls the model outside any
transaction, and stores texts and outcome if the row still carries its lease
(`Finish`).  A tick survives a generation only if no text shown under it changed
(`Finished`).

### WorkerLoop

`document_worker.run_once` serves its queues in a fixed order and does one thing at
a time.  `TagTurn` is a turn at the tag queue, `NoTagJob` the claim that found none,
after which `ReviewTurn` looks at the review items; then the loop starts again.  The
actions are those of `TagJobs` and `ReviewItems`, instantiated with the same
`Workers`; document conversions and scans, which come first in the code, are taken to
be finished.

### AssetStore

A worker stores files while it converts (`StoreAsset`, `WriteConversion`) and rows only in
its last transaction (`Record`), if it still holds its lease; `GiveUp` removes nothing.
`DeleteTask` takes the rows of images nobody else refers to, and `Unlink` their files
after the commit.  `Collect` runs under the write lock, and not while any worker holds a
lease; which objects are old enough (`Age`) is left open.

### QuestionSplitter and QuestionIntake

A block is what the regular expressions find in it: numbers, children's numbers, option
letters, pictures, line ends and words, each with its place, so that "nothing is lost"
can be said of places.  The number of a list before an option's letter belongs to the
list, as in the code (`Unnumbered`).  `TakeBlock` follows the loop of the code branch by branch
(`TakePlain`, `TakeWithoutPrefix`, `TakeNumbered`), `HandOver` passes a picture at the end of one
question to the next, and `Finish` divides each segment (`Children`, the option runs
`Labelled`, `WordRow`, `OptionParts`).  `QuestionIntake` is the older way in: a run commits that it
began (`BeginRun`), parses without a transaction, and replaces the items (`FinishRun`);
`CreateQuestion` and `MarkSaved` are two transactions with a possible death in between.

### IngestionPipeline

`Persist` writes the exact request into the state file, `Commit` applies it to the
database, `SaveResult` writes the result; `Die` is possible between any two of them and
`Start` repeats what has no result.  `Recovers` says when the database takes a repeated
request for the one it already has (a request key, or tags that are as asked).  The
reviewing model's verdict is left open (`Answer`); a verdict that cannot be used is asked for
again or halts the run (`Halt`), and `Resume` goes on from the stage on file.  Teachers edit candidates and
questions at any time.

### CandidateTags, ScanJobs: calls within a budget

`ReadQuestionRow`, `ReadRest`, `CheckBudget`, `Answered` and `StoreCandidate` are statements
of one request that see the database of their own moment; `RecordUsage` counts a call
after it returned.  In `ScanJobs` the same accounting guards the calls for a page; a worker
that starts fails every running job (`Start`), and the worker that was reading it goes
on until it notices.

### Taxonomy

`InstallDefaultTaxonomy` is one transaction: tags are added or enabled, replaced ones
switched off and the questions that carry them moved (`Moved`: a carried tag becomes its
replacement, or is kept as switched off where the question has the replacement already).
There are two ways to tag a question.  A page of the question bank checks its tags and
replaces the rows in one transaction, if the revision it read is still the question's
(`SaveTags`, `question_bank.py:235`).  A direct confirmation (`server.py:3566`, `:3433`) names no
revision, and `confirm_question_tags` checks one family of tags after the other before
its transaction begins with the first row it deletes (`repository.py:2467-2473`): `CheckTags`, three
times, and `WriteTags`, with an installation possible between any two of them.

### Assessments, ResponseWorkflow, AnswerCards

Each handler is one transaction and one action; what a teacher has on screen
is kept in `page` or in the batch of a preview.  In `Assessments` every handler that changes a
published score recomputes the mastery rows of the students concerned
(`RefreshAssessment`); `MasteryAgrees` compares them with a recomputation from scratch.  In
`ResponseWorkflow` a decision carries the number of the transaction that made it, so the
properties can ask what its author had seen.  A row keeps its id when it is given to another student
(`ReassignStudentAnswers`), and what the code compares is by id: the context of a preview
(`ContextHash`) holds ids, decisions, outcomes and texts of the rows and not whose they are, and a
correction names the row and the decision the page showed (`MayDecide`).  The row a save
replaces is the one its student has at that moment.  An assignment of a card is four steps
(`AssignRead`, `AssignPreview`, `AssignSave`, `AssignMark`).

### Diagnosis, ReasoningDiagnosis, LearningGraph, LearningRegions, PracticeLoop

The next question of a diagnosis is computed from the stored events (`Route`, `Summarize`;
`Current`, `Strength` in the earlier protocols), as in the code; an event is stored if
the page's cursor is the session's.  The card is made by a job whose lease of 180
seconds has no heartbeat (`Claim`, `LeaseEnds`, `Generated`, `GenerationFailed`), unless a reviewed card is installed
meanwhile (`Backfill`).  A release of the graph is made at a page that shows the latest one
(`Current`); the page holds the whole release it read, so the properties can compare.
`LearningRegions` and `PracticeLoop` compute their conclusions (`GoalState`, `StudentRegion`, `Progress`) when they are read; their properties compare these folds with
direct definitions over the same events (`Alone`, `Spaced`).

Help in a diagnosis leaves one mark, a day.  A cue or the explanations of the result keep the day of
the first help (`Assist`, the `coalesce` of `diagnosis_adaptive.py:243`); an exercise after a check, the
second check, an end on request and a hint of an older card write the present day (`Exercise`).  A redo
submitted on the marked day is stored as `learn`, on any other as `verify` (`Purpose`).

### SchemaMigrations and Backup

A step of the schema is a transaction or a script (`atomic`), looks whether it is
recorded before it begins or not (`looks`, `rechecks`), and may or may not be applied
twice (`repeats`); the steps of the code are such records in their order.  `Backup` has one row per
upload, exam and student in the tables that refer to each other; the export reads
a table per step.

## Runs

| Run | Module | Expect | Question and answer |
|---|---|---|---|
| `doc_queue` | `MCDocumentTasks` | pass | Do leases, recoveries, cancels, retries and deletions, in every order, keep the conversion slot single, generations unique and attempts bounded (`ClaimsAreSound`), the one conversion that of the row's generation and the three tables in agreement (`ResultIsCurrent`), and a live lease with its worker (`LiveLeaseIsKept`)?  Does the queue implement `ConversionJob` (`KeepsPromise`)?  Yes. |
| `doc_liveness` | `DocumentTasks` | pass | Does every run end and is every queued document served that nobody cancels, although workers crash and hang?  Yes (`RunningEnds`, `QueuedIsServed`). |
| `upload_race` | `MCUploadAssembly` | pass | Five requests, the clock and the collector race for one upload: a document exists exactly for a completed upload and its original is on disk with the right bytes (`DocumentsAreWhole`). |
| `content` | `MCContent` | pass | A paper on its way into the bank, in six parts: images in use keep row and file against workers, deletion and collector (`ImagesAreKept`); splitter and intake lose nothing and mix nothing (`QuestionsAreWhole`); the pipeline publishes what was reviewed and adopts the tags that were audited (`PublishedAsReviewed`); a pipeline that died, programs that start together on an old file, a database from a backup come back as they should (`RestartsAreHarmless`). |
| `content_files` | `AssetStore` | violation | Do published questions have the files of their images?  Not always: see the finding. |
| `review_one` | `MCCandidateReview` | pass | One candidate edited, answered, confirmed, published, split, merged, deferred, deleted by overlapping and repeated requests: requests apply once (`AppliedOnce`), published rows stay, order and counters agree with the rows (`RowsAgree`), nobody publishes (`PublishedAsSeen`) or replaces what they did not see and retired rows stay retired (`RowsChangeAsSeen`). |
| `review_two` | `MCCandidateReview` | pass | A paper of two: open issues are published only under a confirmation of the whole paper as it stands (`PublishedReviewed`), and moving source blocks loses none (`NoBlockLost`). |
| `tag_jobs` | `MCTagJobs` | pass | Runs that are outrun by their leases, teachers, agents and edits on one question: a person's decision is never replaced by a run (`PersonsDecide`), tags and suggestions fit the content and the tags they were made against (`TagsAreCurrent`), late runs change no row (`LateRunsAreFenced`). |
| `exam_review` | `MCReviewItems` | pass | Two pages and two workers on one item, an item and its copy, two items being arranged: a ticked item shows what was ticked (`ReviewedAsSeen`), nothing a teacher wrote is replaced unseen (`NothingIsLost`), late generations change nothing (`LateRunsAreFenced`). |
| `worker_loop` | `MCWorkerLoop` | pass | Does every tag job and every review item end, although both wait for the same processes and tag jobs always go first (`JobsEnd`, `ItemsEnd`)?  Yes, for finitely many tag jobs. |
| `marking` | `MCMarking` | pass | Exams, in five parts: mastery rows, wrong questions and publications agree with scores and decisions, suggested tags with the question and the budget (`ResultsAgree`); a decision replaces only one its author saw, imported, by hand or from a card, though perhaps under the student it belonged to then, and leaves a published exam's first answers alone (`DecidedAsSeen`); a page of a scan is charged twice at most and the daily limit is passed only by calls under way together (`CallsAreBounded`). |
| `learning` | `MCLearning` | pass | Learning, in six parts: a part is consolidated by spaced answers on days not marked as helping, a goal proven by checks given alone, and a redo counts after help of its day only if there was help on an earlier day already (`MasteryIsEarned`); a diagnosis remembers what help was given and concludes from the rest (`DiagnosisIsHonest`); students see the card of the run that had the job, prerequisites have no cycle (`GraphIsSound`); what teachers decided of the graph is changed only at a page that shows it, a replaced tag returns only by a confirmation that an installation overtook (`DecisionsStay`). |

The three composite runs put components side by side that share no rows in these
instances: a behaviour chooses one part at its start and works in it, the others rest in
their initial state.  Each part's own specification is what is explored, with every interleaving of its
actors; nothing is claimed of two parts together.  A property of such a run is a
conjunction of the parts' properties, each defined in the part's own module and
guarded by `part` where it is an invariant.

Deadlock is checked except in the upload, candidate review and composite runs: there
the requests are handled once, bounds end the days, edits and starts, or people may stop,
and the system may stop with them.

## Bounds

| Bound | Where | Why it is enough |
|---|---|---|
| `MaxAttempts = 2` (three in the code) | queues | one attempt that is requeued and one that is the last; the code distinguishes no other attempts |
| two workers | queues | one whose lease ran out and one that took over; a third run needs the second to be outrun too, which meets the same fences |
| two tasks, one slot | `doc_queue` | one document that holds the slot and one that waits |
| two retry keys | `doc_queue` | a retry, and a retry after it |
| two parts, five requests | `upload_race` | two requests that must store the parts and three that interfere: two completions and a cancel, or a late part |
| `MaxPending = 2` | uploads | limit of open uploads, not reached with one upload |
| two requests in flight, two or three keys | reviews | one that has passed its checks and one that changes what it checked; the third key lets a client confirm what the first two left |
| `MaxRev = 2`, four item ids | reviews | a candidate and what replaces it (a split uses two ids, the merge of its halves one more) |
| one question, `MaxVersion = 2`, `MaxRevision = 2` | tag jobs | content edited once and tags decided twice while a run is under way |
| `MaxRevision = 4` | review items | creation, and three saves or generations on one item |
| two lease tokens | review items | one that a worker still holds and a fresh one |
| two tasks, two workers, two runs, two images | `AssetStore` | an image shared by a task that is deleted and one that is converted, and one that is not shared |
| four blocks after each other, of sixteen kinds; three papers with pictures | splitter | every branch of the loop before and after every other, a question that is continued twice |
| three runs, two teachers, two saves | intake | two that overlap and one after a save |
| two items, one trouble (a death or an edit) | pipeline | the item in the sample and one beside it; every place where the trouble may fall |
| two servers' starts beside each other | schema | one that is killed in a step and one that goes on |
| one id | backup | a chain of references from student to document; a second id would repeat it |
| two questions, one student, two redo attempts | assessments | an older attempt reviewed after a newer, beside an edit or a revision |
| two teachers, two students, one card, `MaxMoves = 1` | decisions | two pages on one answer; a card assigned to either; answers given to the other student between a preview and its confirmation |
| two scans of one and two pages, two workers, three starts | scans | one job failed by the start of a worker while another reads it, and a queue behind it |
| two threads, one model setting, two versions | suggestions | a request that read before an edit or a new setting and one after it |
| five school days between day 1 and day 12, four events | practice | answers too early, in time and late for the spacing; the third right answer; help on a day and on a later one (`MaxHelped = 1`: one part helped) |
| two pages, four half days (`MaxClock = 3`), four events | diagnosis | a page that is behind, help before and after, a second check a day later |
| three claims, four releases (`MaxReleases = 3` after the first), two objectives | graph | a run outrun twice; a cycle of two and reviews of it |
| two sessions, two goals, two papers' tasks | regions | a task and its part, a paper and practice; a binding reviewed between two sessions |
| one own tag, one direct confirmation, two saves, two versions | tags | pages and a confirmation before, during and after an installation; the confirmation names `SentTags`, while no own tag exists |

In the modules every bound is a constant: nobody edits a question of version
`MaxVersion`, and so on.  The theorems hold for any value of it.

Most runs add a *load* (variable `load` of the `MC*` modules): a choice made at the
start that limits which parts of the environment are active together, for example
"two workers and a teacher" or "one worker, a teacher's own run and an agent".  All
loads of a run are explored by the same run; a load only leaves steps out, it never
changes one, so every behaviour explored is a behaviour of the module.  Workers, keys,
requests, pages and tokens are interchangeable, and TLC uses the symmetry in runs
without liveness properties.

## Fairness

Liveness is claimed of the queues, `DocumentTasks` and `WorkerLoop`; the other modules
state safety only, since people drive them.

* **Workers go on** (`WF` on recovering, claiming and ending a run):
  `run_forever` polls for ever, systemd restarts it, a conversion is killed after
  `MAX_CONVERSION_SECONDS` and a model call has a timeout.
* **Requests that have started finish** (`WF` on the write of a cancel).
* **Time passes** (`WF` on the end of a back-off and of a lease).  In
  `DocumentTasks` a lease is obliged to run out only while no living worker holds
  it, and then strongly (`SF`): heartbeats of a live worker may renew it any number
  of times.
* **Nothing else**: no worker survives, no heartbeat arrives, no teacher acts, no
  call succeeds.  `ItemsEnd` adds that teachers do not retry one item for ever, and
  the number of tag jobs is finite because `Jobs` is.

## Proofs

The theorems hold for any number of tasks, uploads, parts, candidates, questions,
students, jobs, workers, requests, pages and keys, and for any value of the bounds.  They
rest on the named assumptions of the modules (`...Assumption`) and nothing else:
identifiers are comparable natural numbers where the code orders by creation, "none" is not
an identifier, the paper's reading order lists each of its candidates once, the
number of attempts is positive, limits and bounds are natural numbers, sets that are counted are
finite, a diagnosis card has the form its validation enforces, and the tags of the
defaults, of the demonstration data and of teachers are apart.  TLC evaluates every
assumption on the instance it checks.

Every property of a passing run is stated by a theorem, except the liveness
properties and what is said of the splitter.

**DocumentTasksProofs.**  `TypeCorrect`; then two strengthenings.  `JobInv`: the job a
worker holds carries a token and a generation its row has issued, no two
workers hold the same token, and a *queued* row has moved to a later generation than
every job in flight; this is what recovery's `generation + 1` is for, and what makes
`GenerationClaimedOnce` inductive.  `RowInv`: task, batch and conversion of one row
agree, deleted rows have no conversion, attempts are below the limit while a row is
queued.  From these follow `GenerationsAreUnique`, `OneCurrentConversion`,
`ResultsAgree`, `AttemptsAreBounded`, `OneSlot`, from them the properties of the run
(`SoundClaims`, `CurrentResults`), `LeaseIsKept`, and step by step the refinement `QueueKeepsPromise`: a recovery maps to `Close` of a set of tasks,
every other step to one step of `ConversionJob` or a stutter.

**UploadAssemblyProofs.**  `CompletedIsIntact` is not inductive: the last transaction
does not look at the disk.  The invariant adds that an original on disk always has
the declared bytes (`OriginalsAreGood`), that a request which still owns its upload
after storing the original finds it there (`StoredIsKept`), and that the clock the
collector read is not ahead of the rows (`CollectorClock`): an upload under
assembly whose time the collector saw run out had a live lease at that moment, so the
collector takes it for active.  Theorems: `TypeCorrect`, `DocumentsAreCompleted`,
`OriginalsStay`, together `DocumentsStayWhole`; `FinalStays`.

**CandidateReviewProofs.**  The invariant adds to the checked properties that a
request under way has a key not used by another commit (`KeysCount`, hence
`KeysApplyOnce`), that forms have the shape of their operation, and that a page is the
past of the rows: an equal revision means equal content (`PagesArePast`).  The
reading order under split, merge and deferral needs facts about splicing a sequence
(`Splice`, `SpliceSet`, `ReplacedOrder`), proved from the definitions of `SubSeq` and
concatenation.  `NoBlockLost` is proved separately through "every block is held by a
row" (`EveryBlockIsHeld`).  Theorems: one for each property the two runs check
(`KeysApplyOnce`, `RowsAlwaysAgree`, `PublicationsWereSeen`, `RowsChangeOnlyAsSeen`,
`OpenIssuesWereReviewed`, `BlocksAreKept`) and for the parts they are made of.

**TagJobsProofs.**  `RowFits` and `RunOfRow` tie a run to its row (a token equal
to the row's latest means the same attempt), `RunVersions` says that the versions a
run remembers lie between what it read first and the question's present one; so when
the last transaction finds version and revision unchanged, the text the model saw is
the present text.  `DecisionsCount` says that every person's decision has spent a
revision, which is why a run that read revision 0 may write.  Theorems:
`TypeCorrect`, `AttemptsAreBounded`, `SuggestionsFit` and `TagsFit`, together
`TagsStayCurrent`; `PersonsHaveTheLastWord`, `LateRunsFenced`.

**ReviewItemsProofs.**  `ReviewedAsSeen` is made inductive by "a page shows the past":
a copy of an item on an open page has at most the item's revision, and at the
same revision shows the same content (`PageIsPast`), likewise for the order and the
package's revision.  So a tick sent from a page with the present revision approves the
present content (`SaveKeeps`), and everything else that touches a row either shows the
same or takes the tick away (`RowMoves`).  What texts laid over texts show is
proved once (`OverOver`, `OverSame`).  Theorems: `TypeCorrect`, `TickedAsSeen`,
`WordsAreKept`, `LateRunsFenced`.

**ContentProofs.**  Each part of `MCContent` has an invariant of its own; a step of one
part leaves the variables of the others alone, so `ContentInv`, their conjunction, holds of
the composition.

* *Store* (`StoreInv`).  `ImagesAreKept` needs the lease: a claim has a number of its own
  (`RunsAreUnique`), so a worker that lost its lease never holds it again; what a worker with
  its lease has stored is on disk unless a deletion took it (`HeldIsOnDisk`), because the
  collector touches nothing while a lease is held; and a conversion that is recorded or
  being removed belongs to a run that is over (`RecordedIsOver`, `OneOwner`), so nobody
  writes it again.
* *Intake* (`IntakeInv`).  A parsed task shows its output whole because the items on file
  are at any time those of the output on file (`ItemsOfOutput`: same run, each item once, no
  two ready items of one number), whatever runs overlap and whatever was saved; a question is
  made before its item is marked (`QuestionFirst`), which is the order of the two
  transactions of a save.
* *Pipeline* (`PipeInv`).  That a publication is of reviewed and audited texts rests on a chain
  through the state file.  Operations are asked for only at their stage (`RunnerFits`,
  `RequestsInTime`), all answers are reviewed when theirs ends (`AnswersReviewed`), an audit
  passes the text that was reviewed (`ContentAudited`), and a revision that is asked to be
  published, if the item still has it, belongs to that text (`PublicationExplained`): a
  teacher's edit moves the revision and the publication is refused.  `TagsAudited` is the same
  for tags.  That a restart does no harm (`CrashesAreHarmless`) is a statement about runs
  in which nobody edited and no deferral was asked for; there `Calm` holds: each request on file
  either has been carried out, and its key says so, or meets the revisions it asks for
  (`SavesStand`, `PaperStands`), and what the file calls done is done
  (`DoneIsRemembered`, `InventoryStands`, `TagsStand`).
* *Schema* (`SchemaInv`).  A step that is recorded is whole, except the one of the learning graph,
  which is recorded first and always applied again (`RecordedIsWhole`); every program has
  the steps behind it (`BehindIsWhole`); only a script is ever half done (`HalfIsScript`), and rows
  that are derived were derived once (`DerivedOnce`), because each of these steps is one
  transaction that looks again whether it is recorded, or may be repeated.
* *Backup* (`BackupInv`).  Rows are changed and added, never removed, so every table that
  has been read holds all that was there when the export began (`ReadSince`), and the
  database of that moment is consistent: a reference that leads nowhere in the copy
  comes from a row that was changed since, or leads to the table that is not exported.

Theorems: `ImagesStay`, `TablesAndFilesTyped`, `ParsedTasksAreWhole`, `RestartsStayHarmless`
and the step property `PublishedIsReviewed`.  `TablesAndFilesTyped` and `ParsedTasksAreWhole` are
stated for every part but the splitter, see below.

**MarkingProofs.**  `MarkingInv` likewise consists of the invariants of the parts.

* *Scans* (`ScanInv`).  The invariant counts calls under way with those that have returned
  (`WithinBudget`), and gives a worker at each place of its page loop what it may have
  spent by then (`Quota`, `InOrder`).  A job is read by one worker at most
  (`OneWorkerEach`), since a claim takes queued jobs and nothing queues one again, also
  when another worker's start has failed it meanwhile.
* *Decisions and cards* (`CardInv`).  A stored answer is of a student who is present and
  carries a decision already taken (`StoredIsDecided`, `PublicationsAreDecided`), the context a
  preview keeps says the same of the answers as the decisions it shows (`SeenInContext`), and
  what a publication needs is there when the exam is published (`PublishedIsWhole`).  Ids are not reused:
  each was drawn with a decision already taken, no two rows have the same, and two rows of one
  id and one decision, then and now, differ at most in whose they are (`Remembered`).  So a preview
  whose context is still that of the database replaces what its author saw, under the same student or
  under one it was moved from; the assignment of a card carries its preview through its four
  steps (`AssignFits`).
* *Assessments* (`AssessInv`).  The agreement of the mastery rows is inductive once
  every answer belongs to a present student (`RowsOfPresent`); the proof compares the counts
  before and after a handler through `MetricsAre`, which says what a row is computed from.
* *Suggested tags* (`SuggestInv`).  A run's three readings are of versions in order
  (`InSequence`), a suggestion's key names what it was made from (`FromOneReading`,
  `OnePerKey`), and calls under way count against the limits (`WithinLimit`).

Theorems: `TablesStayTyped`, `ResultsStayAgreed`, `CallsStayBounded`, `DecisionsAsSeen`.

**LearningProofs.**  `LearningInv` consists of six invariants.

* *Practice* (`PracticeInv`).  The log is in the order of its days (`InOrder`), its request
  keys identify pages (`Keyed`).  Progress is a fold over the log; it is written as a recursive
  function, shown to exist by `FoldExists` (a least length without one leads to a
  contradiction), and then compared with the
  direct definition place by place: `Counted` says for every prefix of the log that the
  count is the largest number of right answers that can be chosen with the spacing the code
  asks, and that the day on which the next is due is the earliest such a choice
  allows.  The second half is what makes the greedy count of the code right.  That a part helped
  today carries a day (`Marked`) gives what holds of help and redoes (`RedoesCounted`).
* *Diagnosis* (`DiagInv`).  A page that is up to date shows the node the stored events lead to
  (`PagesShowRoute`), so an answer stored is the one that was asked; what helps leaves its mark
  (`HelpMarks`) and the mark stays for later checks (`HelpStays`).  That no conclusion rests on
  help needs, in addition, that the basic knowledge is asked for after every
  check of the first difficulty (`FoundationLast`).
* *Earlier protocols* (`ReasonInv`).  An event carries the number of hints before it
  (`HintsCounted`) and in protocol 2 the question about the first attempt precedes every hint
  (`LocateFirst`).  A plan that is made again lists each step once and keeps those answered
  (`ListedWhole`, `ReplannedWhole`).
* *Graph* (`GraphInv`).  A card's claim says nothing by itself; the invariant adds that a job
  which is running carries the newest token (`RunningIsLatest`), so a run that may store
  is the last one claimed.  A page's release is of the latest version only if it is the latest
  release (`Seen`), since versions only grow: so the version the code compares stands for all that
  was decided.  That approved prerequisites stay without a cycle restates the check each
  release makes; the substance of `GraphIsSound` is the card.
* *Regions* (`RegionsInv`).  That a goal is passed or failed by unaided checks is a fact about the
  operators (`GoalState` and the first checks of each task); the invariant supplies the
  types and the finiteness that counting needs.
* *Tags* (`TagsInv`).  A tag's level is that of its parent and one (`Planted`), which excludes
  cycles; what an installation replaces is switched off in the same transaction, and a question that
  carries it all the same was written by a confirmation that had checked before
  (`ReplacedReturnsLate`; what was checked and not overtaken is not replaced, `Unspoiled`), since the tags of the demonstration data never
  disappear (`LegacyStay`) and the defaults come all at once (`DefaultsTogether`).

Theorems: `RowsStayTyped`, `MasteryStaysEarned`, `DiagnosisStaysHonest`, `GraphStaysSound` and
the step property `DecisionsAreKept`.

What the instances add is part of these theorems: an assessment behaves as
`Assessing` says ("redo" with two redo attempts, "assessment" with one and edits), practice takes
place on `SchoolDays`, and teachers add `MaxOwn` tags; cards, stages, bindings,
papers, parser outputs and manifests are constants restricted by the assumptions alone.

Only model-checked:

* The liveness properties (`RunningEnds`, `QueuedIsServed`, `JobsEnd`, `ItemsEnd`) and with
  them `WorkerLoop`, since leads-to under fairness needs `ENABLED`, which is out of the prover's
  reach.
* The splitter's half of `QuestionsAreWhole` and of `ContentTypeOK`.  The model divides a
  paper by folds and selections of sequences; what the library's operators return for
  every sequence needs induction with an operator as parameter, which this prover cannot
  instantiate.  (The log of `PracticeLoop` is folded by a recursive function of its own,
  about which facts can be shown by the least counterexample.)
* What the code does not keep: the finding and the definitions of the next section.

## Finding and observations

The finding (`content_files`, `document_ingestion.py:1783`).  `delete_task` commits the
removal of image rows nobody refers to and unlinks their files after the commit.  A
conversion that found such a file on disk, and therefore did not write it again, may
record the row anew in between; the unlink then takes the file, and a question published
from that conversion has an image without a file.
`docs/superpowers/plans/2026-09-28-document-ingestion-acceptance.md:105` (ST-01) asks that
no published content refers to a missing file.

The modules state further promises of the repository, or what a reader would expect, that
the code does not keep; they are definitions one can name in a `.cfg` (for a module of a
composite run, through its instance).  TLC refutes each of them:

| Definition | What happens | Source |
|---|---|---|
| `DocumentTasks!CancelReachesTerminal` | A running task is asked to stop, its worker dies before the next heartbeat, and recovery requeues it still asked to stop: no claim takes it, retry and delete refuse a queued task.  The acceptance list (`acceptance.md:129`) asks for a definite final state. | `document_worker.py:403` |
| `DocumentTasks!ParsedIsNotCancelled` | `task_cancel` reads the status outside its transaction; a task parsed in between becomes cancelled and keeps its conversion. | `document_ingestion.py:1634` |
| `UploadAssembly!CancelledMeansNoDocument` | `cancel_upload` answers "cancelled" without looking whether its update changed a row; a completion that claimed the upload first makes a document of it. | `document_ingestion.py:538` |
| `CandidateReview!PublishedImmutable` | `save_candidate` looks for a publication before its transaction; a candidate published meanwhile is edited behind its publication. | `document_ingestion.py:1146` |
| `ReasoningDiagnosis!StepAsShown` | Asking for the deep mode, or choosing the mode again, on another page changes the steps to come and not the cursor, so the answer to the step shown is stored for another. | `diagnosis.py:232`, `diagnosis_reasoning.py:162` |
| `AnswerCards!CardsOverwriteNothing` | Assigning a card looks for answers the student has before it makes its preview; an answer imported in between is seen by the preview and replaced. | `response_workflow.py:685` |
| `AnswerCards!PreviewShowsWhatItReplaces` | The context of a preview does not say whose the answers are.  If the answers of one student are given to another between an import's preview and its confirmation, the hash is the same and the import replaces, for the second student, an answer the preview showed under the first. | `response_workflow.py:169`, `:772` |
| `Assessments!PublishedAnswersAreFixed` | The import refuses a published exam and sends its author to a revision (`repository.py:706`); settling an answer that asks for a review changes it whatever the status of the exam. | `repository.py:2565` |
| `PracticeLoop!HelpedRedoesAreLearning` | A session helped on an earlier day keeps that day when a cue is served anew, so a redo of the same day is stored as `verify`; the comments at `diagnosis_adaptive.py:166` and `:241` speak of the day a page with the explanation is viewed. | `diagnosis_adaptive.py:243` |
| `Taxonomy!ReplacedIsUnused` | A direct confirmation checks its tags before its transaction; the default taxonomy installed in between leaves the question with a tag that is replaced and switched off. | `repository.py:2467` |
| `SchemaMigrations!ChoiceIsKept` | A program that began the step of the bank filters beside another derives the question types again, over a type a teacher chose meanwhile. | `db.py:250` |
| `Backup!RestoredPassesCheck` | The list of tables leaves out conversions their tasks refer to, and rows written during an export may come without those they refer to, so `consistency_check` fails on a restored database (`README.md:177`). | `backup.py:91` |

Observations that no property states, in the order of the components:

* Conversion queue: a running task that was asked to stop does not occupy the slot, so a
  second conversion may start beside the one being stopped (`SingleSlot` says what is
  kept).
* Uploads: a part file left by a request that died before it wrote the row blocks other
  bytes for that part until the upload expires; `cancel_upload` refuses while an upload
  is being assembled even when the assembler's lease is out.
* Splitter: text before "(2)" that continues child (1) in a later block goes to the stem.
* Intake: running a parse task again deletes saved items and leaves `saved_count` as it was;
  overlapping runs can leave status `failed` with items; saving an item twice makes two
  questions; a run whose process dies stays `running`.
* Pipeline: a request that sets aside an item, on file before a crash, keeps its old revision and
  conflicts after a review of the item; a request on file with a stale revision can never succeed
  after a teacher's edit; a review noted on file whose item is then edited stops the run for good;
  one that died between commit and file leaves its counters wrong until repeated.
* Tags: `/api/teacher/question-tags/confirm` (`server.py:3566`) and `approve_candidate_tags`
  (`repository.py:2538`) compare neither content version nor tag revision, so a person
  may overwrite another person's decision unseen (`TagsFitTheQuestion` therefore
  speaks of runs and agents only).  The first also tests the tags outside its transaction, see
  `Taxonomy!ReplacedIsUnused` above.
* Suggested tags: cached candidates are not keyed by the enabled tags, so one that names a tag
  switched off since makes the tag job fail until it is forced; a wrong provider address
  counts against the daily limit.
* Taxonomy: an edit fills what it was not given from a row read outside its transaction and
  can undo another editor's change; `submit_ontology_for_review` can leave no active
  version; an installation may move a tag to a replacement that is switched off; an installation
  that publishes does not re-point existing rows.
* Review packages: a copy for a class labels texts it did not take over as generated
  when the item was ready.
* Worker: a stream of new tag jobs without end keeps it from the review items.
* Assessments: deleting a wrong question with redo attempts is refused by a foreign key;
  reviewing an older redo attempt hides a newer one that waits.
* Cards: two teachers who assign one unmatched card at once import it for two students;
  reassigning leaves the evidence images with the old student; a preview made again in another tab
  under the same key renews the context that the first tab's token confirms.
* Scans: a job failed by another worker's start may become completed afterwards.
* Diagnosis: `RecallUninfluenced` speaks of hints; a recollection asked for after steps were
  answered may have seen their feedback.  A card run that fails after a reviewed card completed the
  job puts the job back into the queue.
* Schema: a second server that starts beside the first can fail on a duplicate column; feature
  versions newer than the program knows are accepted.
* Accounts: `set_teacher_classes` reads outside its write transaction.
* Backup: some thirty tables are not listed, and restoring into a used database leaves them as
  they are.

## What is left out

* Contents of files, converters, the reading of files into blocks, what models and OCR
  answer, prompts, wording, HTML and layout: data without influence on the control the
  properties speak of, or left open.
* Inside `WorkerLoop`, the conversion, scan and card queues; they are checked on their own
  (`DocumentTasks`, `ScanJobs`, `LearningGraph`).
* What two parts of a composite run do to each other: the parts share no rows there.
* In `DocumentTasks` the expiry of the worker's own process (`MAX_CONVERSION_SECONDS`)
  is one of the failures `ConvertFailed` stands for.
* The command that adds a manifest's objectives to the graph (`learning_graph.py:52-111`,
  `:349`); an administrator runs it.
* `answer_recovery.py`: it proposes texts a teacher reviews by operations the models have.
* `exam_statistics.py`: pure functions over rows; no state and no order of calls.
* `auth.py`, `sso.py`, `security.py`: sessions and one-time states; every modelled operation
  takes an authenticated user for granted.
* `server.py`: routing; a request is a sequence of actions of the models.  Views, exports,
  presentations and deployment scripts: they read, or run with the server stopped.
* SQLite itself: transactions are atomic, and a commit that returned is durable.

`PROJECT.json` gives the status of each component and what is missing of a partly modelled
one.

## Plan

Done: every module of the table above, checked; and every safety property of the runs
proved, but for the splitter.  What could follow, most useful first:

1. The splitter as an invariant over the blocks taken so far, with its folds replaced by
   functions on prefixes, as `PracticeLoop` does for the log.
2. `WorkerLoop` with all five queues, for the order in which they are served.
3. A composition of `AssetStore` with `UploadAssembly`: one collector over both kinds of
   objects.
4. Sessions and one-time states of the sign-on (`auth.py`, `sso.py`), with concurrent
   call-backs.
5. Exam statistics as operators against a reference definition over small classes.
6. `answer_recovery.py` beside a teacher who edits the question it reads.
