------------------------------ MODULE AnswerCards ------------------------------
(***************************************************************************)
(* Answer cards whose student is not known yet (unmatched_cards of         *)
(* response_workflow.py), beside the evidence workflow they write into.    *)
(*                                                                         *)
(* Assigning a card is not one transaction: the handler reads the card and *)
(* the student's answers, previews an import, saves it, and only then      *)
(* marks the card.  Between the steps anything else may happen.            *)
(***************************************************************************)
EXTENDS ResponseWorkflow

CONSTANTS Cards,      \* cards saved without a student
          CardLines   \* card -> question -> what the card says of the answer

Nobody == "nobody"

CardAssumption ==
    /\ \A c \in Cards : CardLines[c] \in [Questions -> Line]
    /\ Nobody \notin Students

VARIABLES card,     \* card -> where it stands and whose it is
          assign    \* teacher -> assignment of a card under way

cardVars == <<card, assign>>
allVars  == <<rwVars, cardVars>>

Idle == [at |-> "idle"]

\* The lines an assignment imports for a student.
LinesFor(c, st) == [p \in {st} \X Questions |-> CardLines[c][p[2]]]

\* A batch of cards is stored with its images; the same key and contents
\* again are acknowledged.
SaveCard(c) ==
    /\ grading = "open"
    /\ card[c] = [state |-> "unsaved", student |-> Nobody]
    /\ card' = [card EXCEPT ![c].state = "awaiting"]
    /\ UNCHANGED <<rwVars, assign>>

\* A card that came with its student only links its images to answers that
\* are there.
LinkCard(c, st) ==
    /\ grading = "open"
    /\ card[c] = [state |-> "unsaved", student |-> Nobody]
    /\ st \in Present
    /\ \E q \in Questions : <<st, q>> \in Stored
    /\ card' = [card EXCEPT ![c] = [state |-> "assigned", student |-> st]]
    /\ UNCHANGED <<rwVars, assign>>

DeleteCard(c) ==
    /\ card[c].state = "awaiting"
    /\ card' = [card EXCEPT ![c].state = "deleted"]
    /\ UNCHANGED <<rwVars, assign>>

\* Mutated form: the student's answers are not looked at.
MayAssignAnyone(st) == st \in Present

\* No answer of the student may be on the exam already.
MayAssign(st) == st \in Present /\ \A q \in Questions : <<st, q>> \notin Stored

\* The card and the student are read without a transaction.
AssignRead(t, c, st) ==
    /\ assign[t] = Idle
    /\ card[c].state = "awaiting"
    /\ MayAssign(st)
    /\ previews < MaxPreviews /\ previews' = previews + 1
    /\ assign' = [assign EXCEPT ![t] = [at |-> "checked", card |-> c, student |-> st]]
    /\ UNCHANGED <<grading, status, content, response, pending, batch, wrong,
                   publications, decisions, page, correction, card>>

\* The key of the import is the card's, but batches belong to a teacher: the
\* batches of cards are kept apart from those of the pages.
CardBatch(t, c, st) == [lines |-> LinesFor(c, st), context |-> ContextHash,
                        records |-> Prepare(LinesFor(c, st)), seen |-> Shown]

AssignPreview(t) ==
    LET a == assign[t]
    IN  /\ a.at = "checked"
        /\ grading = "open"
        /\ Preparable(LinesFor(a.card, a.student))
        /\ assign' = [assign EXCEPT ![t] = [at |-> "previewed", card |-> a.card,
                         student |-> a.student, batch |-> CardBatch(t, a.card, a.student)]]
        /\ UNCHANGED <<rwVars, card>>

AssignSave(t) ==
    LET a == assign[t]
    IN  /\ a.at = "previewed"
        /\ grading = "open"
        /\ a.batch.context = ContextHash
        /\ a.batch.records = Prepare(a.batch.lines)
        /\ SaveRecords(t, a.batch.records)
        /\ assign' = [assign EXCEPT ![t] = [at |-> "saved", card |-> a.card,
                                             student |-> a.student]]
        /\ UNCHANGED <<grading, status, content, batch, wrong, publications, page,
                       correction, previews, card>>

\* Mutated form: the student is noted on a card that was deleted, too.
MarkedAnyway(a) ==
    [card EXCEPT ![a.card] = [state |-> IF @.state = "awaiting" THEN "assigned" ELSE @.state,
                              student |-> a.student]]

\* A card that is no longer waiting keeps what it says.
Marked(a) ==
    IF card[a.card].state = "awaiting"
    THEN [card EXCEPT ![a.card] = [state |-> "assigned", student |-> a.student]]
    ELSE card

AssignMark(t) ==
    LET a == assign[t]
    IN  /\ a.at = "saved"
        /\ card' = Marked(a)
        /\ assign' = [assign EXCEPT ![t] = Idle]
        /\ UNCHANGED rwVars

\* A step refuses, or the server stops: what was committed stays.
AssignStops(t) ==
    /\ assign[t].at \in {"checked", "previewed", "saved"}
    /\ assign' = [assign EXCEPT ![t] = Idle]
    /\ UNCHANGED <<rwVars, card>>

\* The cards of a student follow the answers.
ReassignWithCards(t, from, to) ==
    /\ ReassignStudentAnswers(t, from, to)
    /\ card' = [c \in Cards |-> IF card[c] = [state |-> "assigned", student |-> from]
                                THEN [card[c] EXCEPT !.student = to] ELSE card[c]]
    /\ UNCHANGED assign

----------------------------------------------------------------------------
CardInit == /\ RWInit
            /\ card = [c \in Cards |-> [state |-> "unsaved", student |-> Nobody]]
            /\ assign = [t \in Teachers |-> Idle]

SaveCards    == \E c \in Cards : SaveCard(c)
LinkCards    == \E c \in Cards, st \in Students : LinkCard(c, st)
DeleteCards  == \E c \in Cards : DeleteCard(c)
AssignReads  == \E t \in Teachers, c \in Cards, st \in Students : AssignRead(t, c, st)
AssignPreviews == \E t \in Teachers : AssignPreview(t)
AssignSaves  == \E t \in Teachers : AssignSave(t)
AssignMarks  == \E t \in Teachers : AssignMark(t)
AssignStopped == \E t \in Teachers : AssignStops(t)
CardReassigns == \E t \in Teachers, from, to \in Students : ReassignWithCards(t, from, to)

CardNext ==
    \/ SaveCards \/ LinkCards \/ DeleteCards
    \/ AssignReads \/ AssignPreviews \/ AssignSaves \/ AssignMarks \/ AssignStopped
    \/ CardReassigns
    \/ ImportPreviews /\ UNCHANGED cardVars
    \/ ImportSaves /\ UNCHANGED cardVars
    \/ Confirms /\ UNCHANGED cardVars
    \/ Publish /\ UNCHANGED cardVars
    \/ OpenPages /\ UNCHANGED cardVars
    \/ Reviews /\ UNCHANGED cardVars
    \/ Corrects /\ UNCHANGED cardVars
    \/ PreviewCorrections /\ UNCHANGED cardVars
    \/ ApplyCorrection /\ UNCHANGED cardVars
    \/ RollbackCorrections /\ UNCHANGED cardVars

CardSpec == CardInit /\ [][CardNext]_allVars

----------------------------------------------------------------------------
\* Every card and every assignment has the shape its row or handler gives it.
CardTypeOK ==
    /\ card \in [Cards -> [state : {"unsaved", "awaiting", "assigned", "deleted"},
                           student : Students \cup {Nobody}]]
    /\ \A c \in Cards : card[c].state = "assigned" <=> card[c].student # Nobody
    /\ \A t \in Teachers : assign[t].at \in {"idle", "checked", "previewed", "saved"}

\* A teacher's new decision on a row, imported, by hand or from a card, replaces
\* only a decision that the teacher's page or preview was built from, so nothing
\* that was decided since is lost: import_answers compares the context of the
\* preview and review_or_correct the decision of the row.  Where the row stood
\* under another student then, it has been given to this one since.
DecidedAsSeen ==
    [][\A p \in Stored : response'[p].decision > decisions =>
          LET t == response'[p].by
          IN  \/ SeenOnPage(t, p)
              \/ SeenInBatch(t, p)
              \/ assign[t].at = "previewed" /\ SeenBefore(assign[t].batch.seen, p)
      ]_allVars

\* What a teacher would expect of the preview of an import (import_answers): the
\* answer of a student that it replaces is the one it was shown for this student.
PreviewShowsWhatItReplaces ==
    [][\A t \in Teachers, k \in RequestKeys :
          batch[<<t, k>>].state = "preview" /\ batch'[<<t, k>>].state = "saved" =>
              \A p \in Stored \cap DOMAIN batch[<<t, k>>].lines :
                  batch[<<t, k>>].seen[p].id = response[p].id]_allVars

\* The refusal of unmatched_cards (response_workflow.py): the answers a student
\* has already are not overwritten when a card is assigned.
CardsOverwriteNothing ==
    [][\A t \in Teachers : assign[t].at = "previewed" /\ assign'[t].at = "saved" =>
          \A q \in Questions : <<assign[t].student, q>> \notin Stored]_allVars
=============================================================================
