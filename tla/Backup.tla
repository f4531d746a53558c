-------------------------------- MODULE Backup --------------------------------
(***************************************************************************)
(* The backup an administrator downloads and what becomes of it when it is *)
(* restored (backup.py; export_backup of repository.py).  The export reads *)
(* one table after the other, each in a statement of its own, while people *)
(* go on working; it reads the tables of a fixed list, in which the tables *)
(* of the newer components are missing.  A row is its id and the tables in *)
(* which rows of that id are referenced.                                   *)
(***************************************************************************)
EXTENDS Naturals, Sequences

CONSTANT Ids     \* an upload, its question, exam and student have one id

VARIABLES db,        \* [Tables -> rows]: the database in use
          position,  \* tables the export has read, Len(BackupTables) + 1 before one
          copy,      \* [Tables -> rows]: what it has read of them
          before,    \* history: the database when the export began
          restored   \* [Tables -> rows]: a database the backup was restored into

backupVars == <<db, position, copy, before, restored>>

\* Mutated form: a table that was forgotten.
BackupTables_NoSnapshots ==
    <<"users", "question_import_batches", "questions", "assessment_sessions",
      "student_responses", "document_parse_tasks", "parsed_question_items">>

\* BACKUP_TABLES, those of an exam and of an upload.
BackupTables ==
    <<"users", "question_import_batches", "questions", "assessment_sessions",
      "question_version_snapshots", "student_responses", "document_parse_tasks",
      "parsed_question_items">>

Listed == {BackupTables[n] : n \in DOMAIN BackupTables}

\* The tables of the database, the last of them not in the list.
Tables == {"users", "question_import_batches", "questions", "assessment_sessions",
           "question_version_snapshots", "student_responses", "document_parse_tasks",
           "parsed_question_items", "document_conversions"}

Row(k, refs) == [id |-> k, refs |-> refs]
Empty == [t \in Tables |-> {}]
Has(t, k) == \E r \in db[t] : r.id = k
NotExporting == Len(BackupTables) + 1

-----------------------------------------------------------------------------
(* What people do meanwhile: each is one transaction.                      *)

\* rows is a function from some tables to a row that is new there, or replaces the
\* one of its id.
Write(rows) ==
    /\ db' = [t \in Tables |->
                 IF t \in DOMAIN rows THEN {r \in db[t] : r.id # rows[t].id} \cup {rows[t]} ELSE db[t]]
    /\ UNCHANGED <<position, copy, before, restored>>

ImportUser(k) ==
    /\ ~Has("users", k)
    /\ Write([t \in {"users"} |-> Row(k, {})])

CreateTask(k) ==
    /\ ~Has("document_parse_tasks", k)
    /\ Write([t \in {"question_import_batches", "document_parse_tasks"} |->
                 Row(k, IF t = "document_parse_tasks" THEN {"question_import_batches"} ELSE {})])

\* The conversion ends: it is stored with its candidates, and the task names it.
ConvertTask(k) ==
    /\ Has("document_parse_tasks", k) /\ ~Has("document_conversions", k)
    /\ Write([t \in {"document_conversions", "document_parse_tasks", "parsed_question_items"} |->
                 Row(k, CASE t = "document_conversions"  -> {"document_parse_tasks"}
                          [] t = "document_parse_tasks"  ->
                                {"question_import_batches", "document_conversions"}
                          [] t = "parsed_question_items" ->
                                {"question_import_batches", "document_parse_tasks",
                                 "document_conversions"})])

CreateQuestion(k) ==
    /\ ~Has("questions", k)
    /\ Write([t \in {"questions"} |-> Row(k, {})])

\* An exam freezes its questions when it is created.
CreateAssessment(k) ==
    /\ Has("questions", k) /\ ~Has("assessment_sessions", k)
    /\ Write([t \in {"assessment_sessions", "question_version_snapshots"} |->
                 Row(k, IF t = "assessment_sessions" THEN {} ELSE {"assessment_sessions", "questions"})])

ImportResponse(k) ==
    /\ Has("users", k) /\ Has("assessment_sessions", k) /\ ~Has("student_responses", k)
    /\ Write([t \in {"student_responses"} |->
                 Row(k, {"users", "assessment_sessions", "questions", "question_version_snapshots"})])

-----------------------------------------------------------------------------
(* Export and restore.                                                     *)

BeginExport ==
    /\ position = NotExporting
    /\ position' = 0 /\ copy' = Empty /\ before' = db
    /\ UNCHANGED <<db, restored>>

\* The next table is read as it is now.
ExportTable ==
    /\ position < Len(BackupTables)
    /\ position' = position + 1
    /\ copy' = [copy EXCEPT ![BackupTables[position + 1]] = db[BackupTables[position + 1]]]
    /\ UNCHANGED <<db, before, restored>>

\* In one transaction, with references unchecked, the listed tables are emptied and
\* filled from the backup; the others stay.  The database is a new one or the one in
\* use.
Restore ==
    /\ position = Len(BackupTables) /\ restored = Empty
    /\ \E target \in {Empty, db} :
          restored' = [t \in Tables |-> IF t \in Listed THEN copy[t] ELSE target[t]]
    /\ UNCHANGED <<db, position, copy, before>>

-----------------------------------------------------------------------------
BackupInit ==
    /\ db = Empty /\ copy = Empty /\ before = Empty /\ restored = Empty
    /\ position = NotExporting

BackupNext ==
    \/ \E k \in Ids : ImportUser(k)
    \/ \E k \in Ids : CreateTask(k)
    \/ \E k \in Ids : ConvertTask(k)
    \/ \E k \in Ids : CreateQuestion(k)
    \/ \E k \in Ids : CreateAssessment(k)
    \/ \E k \in Ids : ImportResponse(k)
    \/ BeginExport \/ ExportTable \/ Restore

BackupSpec == BackupInit /\ [][BackupNext]_backupVars

-----------------------------------------------------------------------------
\* The references of a table without their row, as foreign_key_check lists them.
DanglingIn(d, t) ==
    {x \in d[t] \X Tables : x[2] \in x[1].refs /\ \A s \in d[x[2]] : s.id # x[1].id}

Consistent(d) == \A t \in Tables : DanglingIn(d, t) = {}

Rows == [id : Ids, refs : SUBSET Tables]

\* The database in use never has a reference without its row; an export has read
\* nothing it has not come to.
BackupTypeOK ==
    /\ \A t \in Tables : db[t] \subseteq Rows /\ copy[t] \subseteq Rows
    /\ position \in 0..NotExporting
    /\ Consistent(db)

\* A restored backup holds every row that was there when the export began, and what
\* it refers to in vain is explained: the table is not in the list, or the row was
\* written while the export was under way (BACKUP_TABLES, export_tables).
RestoredIsExplained ==
    restored # Empty =>
       /\ \A t \in Tables \ {"document_conversions"} : \A r \in before[t] :
             \E s \in restored[t] : s.id = r.id
       /\ \A t \in Tables : \A x \in DanglingIn(restored, t) :
             "document_conversions" \in {t, x[2]} \/ x[1] \notin before[t]

\* What README.md says of a backup: restored into a new database it passes the check
\* of references.  It does not: a converted document refers to its conversion, and
\* rows written while the export reads may come without those they refer to.
RestoredPassesCheck == Consistent(restored)
=============================================================================
