------------------------------ MODULE MCContent ------------------------------
(***************************************************************************)
(* The way of a paper into the bank for TLC: images and conversions on     *)
(* disk, the division of a paper into questions, the older intake of       *)
(* parsed text, the supervised pipeline, the schema all of them rest on    *)
(* and the backup that is made of them.  A behaviour exercises one of      *)
(* them, named by "part"; the others rest in their initial state, since    *)
(* in these instances they share no rows.  AssetStore is extended, the     *)
(* others are instances with variables of their own.                       *)
(***************************************************************************)
EXTENDS AssetStore, Sequences, TLC

VARIABLE part

AllParts == {"store", "splitter", "intake", "pipeline", "schema", "backup"}

-----------------------------------------------------------------------------
\* The splitter: papers of blocks whose marks stand for words, numbers, pictures,
\* line ends, children and options.
CONSTANT Papers
VARIABLES blocks, at, leading, segments, waiting, handed, questions
splitterVars == <<blocks, at, leading, segments, waiting, handed, questions>>

Block(type, title, marks) ==
    [type |-> type, title |-> title, layout |-> <<>>, aligned |-> FALSE, marks |-> marks]
Text(marks) == Block("text", "", marks)

N(n) == [is |-> "number", n |-> n]
W    == [is |-> "text"]
See  == [is |-> "see"]
Img  == [is |-> "image"]
Nl   == [is |-> "line"]
Sub  == [is |-> "child"]
Opt(key)  == [is |-> "option", key |-> key, dotted |-> TRUE]
Bare(key) == [is |-> "option", key |-> key, dotted |-> FALSE]

\* Blocks as papers have them, in any order after one of the first blocks.
Usual ==
    { Text(<<W>>), Block("header", "", <<W>>), Block("text", "section", <<W, Img>>),
      Block("text", "printed", <<W>>), Block("text", "answers", <<W>>),
      Text(<<N(1), W>>), Text(<<W, N(2), See>>), Text(<<Img, N(3), See, Nl, Sub, W>>),
      Text(<<N(1), W, Nl, N(2), See>>), Block("figure", "", <<Img>>),
      [Text(<<W, Img>>) EXCEPT !.layout = <<"anchor">>], Text(<<W, Sub, W, Sub, See>>),
      Text(<<Opt("A"), W, Opt("B"), W>>), Text(<<Opt("C"), W, Bare("D"), W, Nl, W>>),
      Text(<<See, Opt("A"), W, Opt("B"), W, Opt("C"), W, Opt("D"), W>>),
      Block("list", "", <<N(4), Opt("A"), W, Nl, Opt("B")>>) }

First == { Text(<<W>>), Text(<<N(1), W>>), Block("text", "section", <<W, Img>>), Text(<<N(1), See, Img>>) }

\* Pictures for the options: aligned with their letters, or in a row before them.
Row   == [Text(<<Img, Img, Img, Img, Img>>) EXCEPT
              !.layout = <<"anchor", "inline", "inline", "inline", "inline">>]
Bares == Text(<<Opt("A"), Opt("B"), Opt("C"), Opt("D")>>)
Listed == Block("list", "", <<N(1)>> \o Bares.marks)
Figure      == [Block("figure", "", <<Img>>) EXCEPT !.aligned = TRUE]
Letter(key) == [Text(<<Bare(key)>>) EXCEPT !.aligned = TRUE]

Pictured ==
    { <<Text(<<N(1), See>>), Figure, Letter("A"), Figure, Letter("B"), Figure, Letter("C"),
        Figure, Letter("D")>>,
      <<Text(<<N(1), See>>), Row, Bares, Text(<<N(2), W>>)>>,
      <<Text(<<N(1), See>>), Text(<<Sub, W>>), Row, Listed>> }

\* Papers of four blocks.
FourBlocks == { <<x>> \o y : x \in First, y \in [1..3 -> Usual] } \cup Pictured

Q == INSTANCE QuestionSplitter

-----------------------------------------------------------------------------
\* Intake: parsers that return nothing, one item, items of one number, items
\* without a number or a stem.
CONSTANTS Teachers, Outputs, ByText, Fallback, MaxParses, MaxSaves
VARIABLES status, items, output, itemCount, savedCount, made, teacher, parses
intakeVars == <<status, items, output, itemCount, savedCount, made, teacher, parses>>

Raw(number, sure, stem, warnings) ==
    [number |-> number, sure |-> sure, stem |-> stem, warnings |-> warnings]
Good == Raw(1, TRUE, TRUE, {})
ParserOutputs ==
    { <<>>, <<Good>>, <<Good, Good>>, <<Raw(0, FALSE, TRUE, {}), Raw(0, TRUE, FALSE, {})>>,
      <<Raw(2, TRUE, TRUE, {}), Raw(0, TRUE, TRUE, {})>> }
BuiltIn == <<Raw(1, FALSE, TRUE, {"missing_answer"}), Good>>

I == INSTANCE QuestionIntake WITH MaxRuns <- MaxParses, questions <- made, runs <- parses

-----------------------------------------------------------------------------
\* The pipeline.
CONSTANTS Items, Sampled, Figured, Choices, MaxTroubles
VARIABLES stage, actions, reviews, checked, watched, proposal, rejected, deferred, receipt,
          stopped, runner, conversion, item, confirmed, keys, question, audited, edits, troubles
pipelineVars == <<stage, actions, reviews, checked, watched, proposal, rejected, deferred, receipt,
                  stopped, runner, conversion, item, confirmed, keys, question, audited, edits,
                  troubles>>

L == INSTANCE IngestionPipeline WITH task <- conversion

-----------------------------------------------------------------------------
\* The schema: a server and the one that is started in its place.
CONSTANTS Programs, Servers, MaxStarts
VARIABLES recorded, whole, times, index, phase, bankType, starts
schemaVars == <<recorded, whole, times, index, phase, bankType, starts>>

S == INSTANCE SchemaMigrations WITH at <- index

-----------------------------------------------------------------------------
\* The backup: what has one upload, one exam and one student.
CONSTANT Ids
VARIABLES db, position, copy, before, restored
backupVars == <<db, position, copy, before, restored>>

B == INSTANCE Backup

-----------------------------------------------------------------------------
ASSUME ContentAssumption == I!IntakeAssumption /\ L!PipelineAssumption /\ S!SchemaAssumption

-----------------------------------------------------------------------------
\* The paper is chosen for the splitter alone, the age of the file for the schema.
ContentInit ==
    /\ part \in AllParts
    /\ StoreInit /\ I!IntakeInit /\ L!PipelineInit /\ B!BackupInit
    /\ S!SchemaInit /\ (part # "schema" => S!FileWith(0))
    /\ IF part = "splitter" THEN Q!SplitInit
       ELSE blocks = <<>> /\ at = 0 /\ leading = <<>> /\ segments = <<>> /\ waiting = <<>>
            /\ handed = 0 /\ questions = <<>>

Keeping ==
    /\ part = "store" /\ StoreNext
    /\ UNCHANGED <<part, splitterVars, intakeVars, pipelineVars, schemaVars, backupVars>>

Splitting ==
    /\ part = "splitter" /\ Q!SplitNext
    /\ UNCHANGED <<part, storeVars, intakeVars, pipelineVars, schemaVars, backupVars>>

Parsing ==
    /\ part = "intake" /\ I!IntakeNext
    /\ UNCHANGED <<part, storeVars, splitterVars, pipelineVars, schemaVars, backupVars>>

Supervising ==
    /\ part = "pipeline" /\ L!PipelineNext
    /\ UNCHANGED <<part, storeVars, splitterVars, intakeVars, schemaVars, backupVars>>

Migrating ==
    /\ part = "schema" /\ S!SchemaNext
    /\ UNCHANGED <<part, storeVars, splitterVars, intakeVars, pipelineVars, backupVars>>

BackingUp ==
    /\ part = "backup" /\ B!BackupNext
    /\ UNCHANGED <<part, storeVars, splitterVars, intakeVars, pipelineVars, schemaVars>>

ContentNext == Keeping \/ Splitting \/ Parsing \/ Supervising \/ Migrating \/ BackingUp

ContentSpec ==
    ContentInit /\ [][ContentNext]_<<part, storeVars, splitterVars, intakeVars, pipelineVars,
                                     schemaVars, backupVars>>

\* Worker processes are interchangeable.
Symmetry == Permutations(Workers)

-----------------------------------------------------------------------------
\* The variables of the component at work are what its tables and files can hold.
ContentTypeOK ==
    /\ part \in AllParts
    /\ part = "store" => StoreTypeOK
    /\ part = "splitter" => Q!SplitTypeOK
    /\ part = "intake" => I!IntakeTypeOK
    /\ part = "pipeline" => L!PipelineTypeOK
    /\ part = "schema" => S!SchemaTypeOK
    /\ part = "backup" => B!BackupTypeOK

\* Between the file and the bank no question loses a part: all words and pictures
\* of a paper are in the question they follow or left for review, and a parsed
\* task shows one run's output whole (QuestionSplitter, QuestionIntake).
QuestionsAreWhole ==
    /\ part = "splitter" => Q!NothingIsLost /\ Q!WordsStayWithTheirNumber
    /\ part = "intake" => I!ParsedIsWhole /\ I!SavedHasQuestion

\* A runner that dies and is started again is never taken for an editor, a server
\* that died half-way through a step of the schema is repaired by the next, and a
\* database started again from a backup lacks nothing the backup could know
\* (IngestionPipeline, SchemaMigrations, Backup).
RestartsAreHarmless ==
    /\ part = "pipeline" => L!CrashesAreHarmless
    /\ part = "schema" => S!UpMeansMigrated /\ S!AnswersMigratedOnce
    /\ part = "backup" => B!RestoredIsExplained

\* What the pipeline publishes and adopts is what was reviewed and audited.
PublishedAsReviewed == L!PublishedAsReviewed /\ L!AdoptedAsAudited
=============================================================================
