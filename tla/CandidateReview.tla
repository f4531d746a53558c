-------------------------- MODULE CandidateReview --------------------------
(***************************************************************************)
(* The review of one converted paper (document_ingestion.py and            *)
(* document_restructure.py): teachers edit, reorder, split, merge and      *)
(* publish the candidate questions of a task from pages loaded earlier.    *)
(* A handler that checks before BEGIN IMMEDIATE is two actions, Check and  *)
(* its transaction; one that checks inside it is one.  A request keeps the *)
(* rows its page showed: the code uses their revision (expected_revision)  *)
(* and what the page sends back of their content.                          *)
(***************************************************************************)
EXTENDS Naturals, Sequences, FiniteSets, Functions

CONSTANTS
    Items,        \* ids of parsed_question_items rows, most of them unused at first
    FirstOrder,   \* the ids the conversion produced, in reading order
    Texts,        \* wordings of a question: number, kind, stem, options, children
    Text0,        \* the wording the conversion produced
    Requests,     \* requests that may be in flight together
    Keys, NoKey,  \* request keys
    Ops,          \* the operations clients use, a subset of AllOps
    MaxRev        \* bound: clients start no edit of a row that has this revision

ASSUME ItemsAssumption == IsFiniteSet(Items)
ASSUME FirstOrderAssumption == FirstOrder \in Seq(Items) /\ IsInjective(FirstOrder)
ASSUME Text0Assumption == Text0 \in Texts
ASSUME NoKeyAssumption == NoKey \notin Keys

AllOps == {"save", "confirm_paper", "confirm", "attach", "assign", "reorder",
           "split", "merge", "defer", "delete"}

\* Those that read before their transaction begins.
Prechecked == {"save", "confirm_paper", "confirm", "attach", "defer", "delete"}

Edits == {"save", "attach", "assign"}

VARIABLES
    rows,         \* [Items -> Row]: parsed_question_items
    order,        \* the active ids by item_index
    pub,          \* [Items -> Publication]: import_item_publications
    reviews,      \* fingerprints of the papers teachers have confirmed
    recorded,     \* keys that have a row in content_operation_keys
    batch,        \* saved_count, item_count and status of question_import_batches
    req,          \* [Requests -> Request]
    applied       \* history, [Keys -> Nat]: transactions committed under each key

vars == <<rows, order, pub, reviews, recorded, batch, req, applied>>

-----------------------------------------------------------------------------
\* Each source block is named after the candidate the converter cut it for.
Blocks == Range(FirstOrder)
Answers == {"missing", "needs_review"}

\* open: the document has unresolved issues.
Row == [disp : {"none", "active", "superseded", "deferred"}, rev : Nat, text : Texts,
        blocks : SUBSET Blocks, answer : Answers, open : BOOLEAN]

Row0 == [disp |-> "none", rev |-> 0, text |-> Text0,
         blocks |-> {}, answer |-> "missing", open |-> FALSE]

\* rev 0: not published.  unresolved: it had issues that reviewed=true resolved.
\* paper is history: the fingerprint of the paper when the candidate was published.
Publication == [rev : Nat, text : Texts, answer : Answers, unresolved : BOOLEAN,
                paper : Seq(Items \X Texts)]

Unpublished == [rev |-> 0, text |-> Text0, answer |-> "missing", unresolved |-> FALSE,
                paper |-> <<>>]

Batch == [saved : Nat, count : Nat, status : {"needs_review", "partially_saved", "saved"}]

\* What a request asks: the rows it names in its order, the wording and the issues a
\* save sends, the blocks an assignment takes from the first row and those it gives
\* to the second, and the reviewed flag of a publication.
Form == [op : AllOps, items : Seq(Items), text : Texts, open : BOOLEAN,
         taken : SUBSET Blocks, given : SUBSET Blocks, reviewed : BOOLEAN]

\* seen and shown: the named rows and the order of the page it was sent from.
Request == [pc : {"idle", "sent", "checked", "done"}, key : Keys \cup {NoKey}, form : Form,
            seen : [Items -> Row], shown : Seq(Items)]

Plain(op, items) == [op |-> op, items |-> items, text |-> Text0, open |-> FALSE,
                     taken |-> {}, given |-> {}, reviewed |-> FALSE]

Nobody == [i \in Items |-> Row0]
Idle == [pc |-> "idle", key |-> NoKey, form |-> Plain("delete", <<>>),
         seen |-> Nobody, shown |-> <<>>]

At(r, pc) == req[r].pc = pc
Move(r, pc) == req' = [req EXCEPT ![r].pc = pc]
Asked(r) == req[r].form
Named(r) == Range(Asked(r).items)
Target(r) == Asked(r).items[1]

Active(i) == rows[i].disp = "active"
Published(i) == pub[i].rev > 0
ActiveItems == {i \in Items : Active(i)}
PublishedItems == {i \in Items : Published(i)}

Init ==
    /\ \E open \in [Items -> BOOLEAN] :
         rows = [i \in Items |->
                   IF i \in Blocks
                   THEN [disp |-> "active", rev |-> 1, text |-> Text0, blocks |-> {i},
                         answer |-> "missing", open |-> open[i]]
                   ELSE Row0]
    /\ order = FirstOrder
    /\ pub = [i \in Items |-> Unpublished]
    /\ reviews = {} /\ recorded = {}
    /\ batch = [saved |-> 0, count |-> Len(FirstOrder), status |-> "needs_review"]
    /\ req = [r \in Requests |-> Idle]
    /\ applied = [k \in Keys |-> 0]

(***************************************************************************)
(* Clients.  A form is filled from the page as it is now and sent, maybe   *)
(* much later and maybe twice (a double click, a retry), under one key.    *)
(***************************************************************************)
Lists(n, S) == {s \in [1..n -> S] : IsInjective(s)}
Singles == Lists(1, ActiveItems)
Pairs == Lists(2, ActiveItems)
Orders == Lists(Len(order), ActiveItems)

\* The page lists the ticked candidates from the top.
FromTheTop(s) ==
    \A a, b \in DOMAIN s : \A m, n \in DOMAIN order :
        (a < b /\ s[a] = order[m] /\ s[b] = order[n]) => m < n
Selections == {s \in UNION {Lists(n, ActiveItems) : n \in 1..Len(order)} : FromTheTop(s)}

SaveForm(s, text, open) == [Plain("save", s) EXCEPT !.text = text, !.open = open]
ConfirmForm(s, reviewed) == [Plain("confirm", s) EXCEPT !.reviewed = reviewed]

\* The block leaves the first row; kept: it also goes to the second.
AssignForm(s, block, kept) ==
    [Plain("assign", s) EXCEPT !.taken = {block}, !.given = IF kept THEN {block} ELSE {}]

Forms ==
    {SaveForm(s, t, open) : s \in Singles, t \in Texts, open \in BOOLEAN}
    \cup {ConfirmForm(s, reviewed) : s \in Selections, reviewed \in BOOLEAN}
    \cup {AssignForm(s, b, kept) : s \in Pairs, b \in Blocks, kept \in BOOLEAN}
    \cup {Plain(op, s) : op \in {"attach", "split", "defer"}, s \in Singles}
    \cup {Plain("merge", s) : s \in Pairs}
    \cup {Plain("reorder", s) : s \in Orders}
    \cup {Plain("confirm_paper", order), Plain("delete", <<>>)}

FreeKeys == {k \in Keys : \A r \in Requests : At(r, "idle") \/ req[r].key # k}

\* The rows of the page that the form names.
Page(items) == [i \in Items |-> IF i \in Range(items) THEN rows[i] ELSE Row0]

Send(r, key, form) ==
    /\ At(r, "idle")
    /\ order # <<>> /\ form.op \in Ops
    /\ form.op \in Edits => \A i \in Range(form.items) : rows[i].rev < MaxRev
    /\ req' = [req EXCEPT ![r] = [pc |-> "sent", key |-> key, form |-> form,
                                  seen |-> Page(form.items), shown |-> order]]
    /\ UNCHANGED <<rows, order, pub, reviews, recorded, batch, applied>>

Again(request) == [request EXCEPT !.pc = "sent"]

Resend(r, q) ==
    /\ At(r, "idle") /\ ~At(q, "idle")
    /\ req' = [req EXCEPT ![r] = Again(req[q])]
    /\ UNCHANGED <<rows, order, pub, reviews, recorded, batch, applied>>

\* The client has its answer.  A key nobody will send again is as good as free.
Forget(r) ==
    LET last == {k \in Keys : k = req[r].key
                     /\ \A q \in Requests \ {r} : At(q, "idle") \/ req[q].key # k}
    IN  /\ At(r, "done")
        /\ req' = [req EXCEPT ![r] = Idle]
        /\ recorded' = recorded \ last
        /\ applied' = [k \in Keys |-> IF k \in last THEN 0 ELSE applied[k]]
        /\ UNCHANGED <<rows, order, pub, reviews, batch>>

(***************************************************************************)
(* What the handlers read before their transaction.                        *)
(***************************************************************************)
\* _paper_review_snapshot hashes the wording of the active rows in their order;
\* answers and issues are not in it.
Fingerprint == [n \in DOMAIN order |-> <<order[n], rows[order[n]].text>>]
PaperConfirmed == order # <<>> /\ Fingerprint \in reviews

\* Mutated form: a key used before is not refused.
KeyFree_Ignored(r) == req[r].key \in Keys

KeyFree(r) == req[r].key \notin recorded
SameRevision(r, i) == rows[i].rev = req[r].seen[i].rev
NothingPublished == \A i \in ActiveItems : ~Published(i)

PassesSave(r) ==
    /\ Asked(r).op = "save" /\ KeyFree(r)
    /\ SameRevision(r, Target(r)) /\ ~Published(Target(r))

\* confirm_candidates looks for the review before it looks for its key.
PassesConfirm(r) ==
    /\ Asked(r).op = "confirm" /\ KeyFree(r)
    /\ Asked(r).reviewed => PaperConfirmed

\* attach_answers makes its proposals again and compares the request with them.
PassesAttach(r) ==
    /\ Asked(r).op = "attach" /\ KeyFree(r) /\ PaperConfirmed
    /\ Active(Target(r)) /\ SameRevision(r, Target(r)) /\ ~Published(Target(r))
    /\ rows[Target(r)].answer = "missing"

Passes(r) ==
    \/ PassesSave(r) \/ PassesConfirm(r) \/ PassesAttach(r)
    \/ Asked(r).op \in {"confirm_paper", "defer"} /\ KeyFree(r)
    \/ Asked(r).op = "delete" /\ PublishedItems = {}

Check(r) ==
    /\ At(r, "sent") /\ Asked(r).op \in Prechecked
    /\ Move(r, IF Passes(r) THEN "checked" ELSE "done")
    /\ UNCHANGED <<rows, order, pub, reviews, recorded, batch, applied>>

(***************************************************************************)
(* The transactions.  MayX is what the code requires inside the one of X;  *)
(* a transaction whose requirement fails is rolled back.                   *)
(***************************************************************************)
Ready(r) == At(r, IF Asked(r).op \in Prechecked THEN "checked" ELSE "sent")

\* The last insert of a transaction; its primary key refuses a key used before.
Record(r) ==
    /\ recorded' = recorded \cup {req[r].key}
    /\ applied' = [applied EXCEPT ![req[r].key] = @ + 1]
    /\ Move(r, "done")

\* Mutated form: the update does not compare review_revision.
Current_NoRevision(r) == \A i \in Named(r) : Active(i)

Current(r) == \A i \in Named(r) : Active(i) /\ SameRevision(r, i)

\* Mutated form: the update does not require disposition='active'.
MaySave_AnyRow(r) == \A i \in Named(r) : SameRevision(r, i)

MaySave(r) == Current(r)

Saved(row, r) ==
    LET page == req[r].seen[Target(r)]
    IN  [row EXCEPT !.rev = @ + 1, !.text = Asked(r).text, !.open = Asked(r).open,
                    !.blocks = page.blocks, !.answer = page.answer]

SaveCandidate(r) ==
    /\ Asked(r).op = "save" /\ Ready(r) /\ KeyFree(r) /\ MaySave(r)
    /\ rows' = [rows EXCEPT ![Target(r)] = Saved(@, r)]
    /\ Record(r)
    /\ UNCHANGED <<order, pub, reviews, batch>>

\* Question numbers, which must be there and differ, are taken to be in order.
MayConfirmPaper(r) == Asked(r).items = order /\ Current(r) /\ order # <<>>

ConfirmPaperReview(r) ==
    /\ Asked(r).op = "confirm_paper" /\ Ready(r) /\ KeyFree(r) /\ MayConfirmPaper(r)
    /\ reviews' = reviews \cup {Fingerprint}
    /\ Record(r)
    /\ UNCHANGED <<rows, order, pub, batch>>

\* Mutated form: the revision is compared for published candidates only.
MayPublish_NoRevision(r, i) ==
    /\ Active(i)
    /\ IF Published(i) THEN pub[i].rev = req[r].seen[i].rev
       ELSE rows[i].open => Asked(r).reviewed

\* A row published before is answered from its publication, if the revisions agree.
MayPublish(r, i) ==
    /\ Active(i)
    /\ IF Published(i) THEN pub[i].rev = req[r].seen[i].rev
       ELSE SameRevision(r, i) /\ (rows[i].open => Asked(r).reviewed)

\* Mutated form: the confirmation read before the transaction is trusted.
MayConfirm_NoRecheck(r) == \A i \in Named(r) : MayPublish(r, i)

MayConfirm(r) ==
    /\ Asked(r).reviewed => PaperConfirmed
    /\ \A i \in Named(r) : MayPublish(r, i)

PublicationOf(row) ==
    [rev |-> row.rev, text |-> row.text, answer |-> row.answer, unresolved |-> row.open,
     paper |-> Fingerprint]

\* Issues that reviewed=true resolves do not change the revision.
Resolved(row) == [row EXCEPT !.open = FALSE]

\* Mutated form: saved_count counts the questions of this request only.
SavedCount_Request(new) == Cardinality(new)

SavedCount(new) == Cardinality(PublishedItems \cup new)

ConfirmCandidates(r) ==
    LET new == {i \in Named(r) : ~Published(i)}
        total == SavedCount(new)
    IN  /\ Asked(r).op = "confirm" /\ Ready(r) /\ KeyFree(r) /\ MayConfirm(r)
        /\ pub' = [i \in Items |-> IF i \in new THEN PublicationOf(rows[i]) ELSE pub[i]]
        /\ rows' = [i \in Items |-> IF i \in new THEN Resolved(rows[i]) ELSE rows[i]]
        /\ batch' = [batch EXCEPT !.saved = total,
                        !.status = IF total >= batch.count THEN "saved"
                                   ELSE "partially_saved"]
        /\ Record(r)
        /\ UNCHANGED <<order, reviews>>

\* The paper's confirmation is not read again.
MayAttach(r) ==
    /\ Current(r) /\ ~Published(Target(r))
    /\ rows[Target(r)].answer = "missing"

\* Mutated form: an answer state the schema does not know.
Attached_State(row) == [row EXCEPT !.rev = @ + 1, !.answer = "attached", !.open = TRUE]

Attached(row) == [row EXCEPT !.rev = @ + 1, !.answer = "needs_review", !.open = TRUE]

AttachAnswers(r) ==
    /\ Asked(r).op = "attach" /\ Ready(r) /\ KeyFree(r) /\ MayAttach(r)
    /\ rows' = [rows EXCEPT ![Target(r)] = Attached(@)]
    /\ Record(r)
    /\ UNCHANGED <<order, pub, reviews, batch>>

\* A row holds a block once, so equal counts are equal bags of blocks.
Reassigned(r) ==
    LET page == req[r].seen
    IN  [i \in Items |->
           IF i = Target(r) THEN page[i].blocks \ Asked(r).taken
           ELSE IF i \in Named(r) THEN page[i].blocks \cup Asked(r).given
           ELSE rows[i].blocks]

\* Mutated form: every block a request sends is known, but nobody counts them.
Conserves_Known(r) == Asked(r).given \subseteq UNION {rows[i].blocks : i \in ActiveItems}

Conserves(r) ==
    \A b \in Blocks : Cardinality({i \in ActiveItems : b \in rows[i].blocks})
                        = Cardinality({i \in ActiveItems : b \in Reassigned(r)[i]})

MayAssign(r) == Current(r) /\ Conserves(r) /\ \A i \in Named(r) : ~Published(i)

Respanned(row, blocks) == [row EXCEPT !.rev = @ + 1, !.blocks = blocks]

AssignSourceSpans(r) ==
    /\ Asked(r).op = "assign" /\ Ready(r) /\ KeyFree(r) /\ MayAssign(r)
    /\ rows' = [i \in Items |-> IF i \in Named(r) THEN Respanned(rows[i], Reassigned(r)[i])
                                ELSE rows[i]]
    /\ Record(r)
    /\ UNCHANGED <<order, pub, reviews, batch>>

MayReorder(r) == order = req[r].shown /\ Current(r) /\ NothingPublished

ReorderCandidates(r) ==
    /\ Asked(r).op = "reorder" /\ Ready(r) /\ KeyFree(r) /\ MayReorder(r)
    /\ order' = Asked(r).items
    /\ Record(r)
    /\ UNCHANGED <<rows, pub, reviews, batch>>

\* Fresh ids are uuids; the pool of Items is a bound, and an empty pool refuses.
Unused == {i \in Items : rows[i].disp = "none"}
Fresh(r) == Lists(IF Asked(r).op = "split" THEN 2 ELSE 1, Unused)

Adjacent(r) == \E n \in 1..(Len(order) - 1) : Asked(r).items = SubSeq(order, n, n + 1)

MayRestructure(r) ==
    /\ NothingPublished /\ Current(r) /\ Fresh(r) # {}
    /\ Asked(r).op = "merge" => Adjacent(r)

\* Both halves of a split keep the blocks and the answer of their source.
Half(row) == [row EXCEPT !.rev = 1, !.open = TRUE]

Merged(r) ==
    [disp |-> "active", rev |-> 1, text |-> rows[Target(r)].text,
     blocks |-> UNION {rows[i].blocks : i \in Named(r)},
     answer |-> IF \A i \in Named(r) : rows[i].answer = "missing"
                THEN "missing" ELSE "needs_review",
     open |-> TRUE]

Replacement(r) == IF Asked(r).op = "split" THEN Half(rows[Target(r)]) ELSE Merged(r)

Superseded(row) == [row EXCEPT !.disp = "superseded", !.rev = @ + 1]

\* s with f in the place of its k elements from p on.
Spliced(s, p, k, f) == SubSeq(s, 1, p - 1) \o f \o SubSeq(s, p + k, Len(s))

Place(r) == CHOOSE n \in DOMAIN order : order[n] = Target(r)

\* Mutated form: the last source keeps its place.
Replaced_OffByOne(r, fresh) == Spliced(order, Place(r), Len(Asked(r).items) - 1, fresh)

\* The replacements stand where the first of their sources stood.
Replaced(r, fresh) == Spliced(order, Place(r), Len(Asked(r).items), fresh)

RestructureCandidates(r) ==
    /\ Asked(r).op \in {"split", "merge"} /\ Ready(r) /\ KeyFree(r) /\ MayRestructure(r)
    /\ \E fresh \in Fresh(r) :
         /\ rows' = [i \in Items |->
                       IF i \in Named(r) THEN Superseded(rows[i])
                       ELSE IF i \in Range(fresh) THEN Replacement(r) ELSE rows[i]]
         /\ order' = Replaced(r, fresh)
         /\ batch' = [batch EXCEPT !.count =
                        Cardinality((ActiveItems \ Named(r)) \cup Range(fresh))]
    /\ Record(r)
    /\ UNCHANGED <<pub, reviews>>

\* Mutated form: a published candidate may be deferred.
MayDefer_Published(r) == Current(r) /\ rows[Target(r)] = req[r].seen[Target(r)]

\* The pipeline also compares the hash of the document it read.
MayDefer(r) == Current(r) /\ rows[Target(r)] = req[r].seen[Target(r)] /\ ~Published(Target(r))

Deferred(row) == [row EXCEPT !.disp = "deferred"]

DeferItem(r) ==
    /\ Asked(r).op = "defer" /\ Ready(r) /\ KeyFree(r) /\ MayDefer(r)
    /\ rows' = [rows EXCEPT ![Target(r)] = Deferred(@)]
    /\ order' = Replaced(r, <<>>)
    /\ batch' = [batch EXCEPT !.count = Cardinality(ActiveItems \ {Target(r)})]
    /\ Record(r)
    /\ UNCHANGED <<pub, reviews>>

\* delete_task takes no request key.
MayDelete == PublishedItems = {}

DeleteTask(r) ==
    /\ Asked(r).op = "delete" /\ Ready(r) /\ MayDelete
    /\ rows' = Nobody /\ order' = <<>>
    /\ batch' = [saved |-> 0, count |-> 0, status |-> "needs_review"]
    /\ Move(r, "done")
    /\ UNCHANGED <<pub, reviews, recorded, applied>>

Allowed(r) ==
    \/ Asked(r).op = "delete" /\ MayDelete
    \/ /\ KeyFree(r)
       /\ \/ Asked(r).op = "save" /\ MaySave(r)
          \/ Asked(r).op = "confirm_paper" /\ MayConfirmPaper(r)
          \/ Asked(r).op = "confirm" /\ MayConfirm(r)
          \/ Asked(r).op = "attach" /\ MayAttach(r)
          \/ Asked(r).op = "assign" /\ MayAssign(r)
          \/ Asked(r).op = "reorder" /\ MayReorder(r)
          \/ Asked(r).op \in {"split", "merge"} /\ MayRestructure(r)
          \/ Asked(r).op = "defer" /\ MayDefer(r)

Rollback(r) ==
    /\ Ready(r) /\ ~Allowed(r)
    /\ Move(r, "done")
    /\ UNCHANGED <<rows, order, pub, reviews, recorded, batch, applied>>

ClientStep(r) ==
    \/ \E key \in FreeKeys, form \in Forms : Send(r, key, form)
    \/ \E q \in Requests : Resend(r, q)
    \/ Forget(r)

EditStep(r) ==
    \/ SaveCandidate(r) \/ AttachAnswers(r) \/ AssignSourceSpans(r)

StructureStep(r) ==
    \/ ReorderCandidates(r) \/ RestructureCandidates(r) \/ DeferItem(r) \/ DeleteTask(r)

ReviewStep(r) == ConfirmPaperReview(r) \/ ConfirmCandidates(r)

Next == \E r \in Requests :
    \/ ClientStep(r) \/ Check(r) \/ Rollback(r)
    \/ EditStep(r) \/ StructureStep(r) \/ ReviewStep(r)

Spec == Init /\ [][Next]_vars

-----------------------------------------------------------------------------
TypeOK ==
    /\ rows \in [Items -> Row]
    /\ order \in Seq(Items)
    /\ pub \in [Items -> Publication]
    /\ recorded \subseteq Keys
    /\ batch \in Batch
    /\ req \in [Requests -> Request]
    /\ applied \in [Keys -> Nat]

\* A question with open issues nobody resolved one by one is published only while the
\* whole paper, every wording and the order, is one that some teacher confirmed
\* (confirm_candidates reads the confirmation again inside its transaction).
PublishedReviewed ==
    \A i \in Items : pub[i].unresolved => pub[i].paper \in reviews

\* A published candidate is never superseded, deferred or deleted: its publication
\* always has the row it came from.
PublishedStaysActive == \A i \in Items : Published(i) => Active(i)

\* The reading order lists every active candidate once and nothing else.
OrderIsActive == Range(order) = ActiveItems /\ IsInjective(order)

\* The counters of the batch are those of its rows, and a batch shown as saved has no
\* candidate left to publish, whatever was split, merged or deferred in between.
BatchCounts ==
    /\ batch.saved = Cardinality(PublishedItems)
    /\ batch.count = Cardinality(ActiveItems)
    /\ batch.status = "saved" => ActiveItems \subseteq PublishedItems

\* Rows, reading order, publications and counters of a paper tell one story.
RowsAgree == PublishedStaysActive /\ OrderIsActive /\ BatchCounts

\* Unless the task was deleted, no block of the paper is lost: each is in a candidate
\* still active or deferred, though edits, splits, merges and assignments overlap.
NoBlockLost ==
    order # <<>> =>
        Blocks \subseteq UNION {rows[i].blocks : i \in
                                  {j \in Items : rows[j].disp \in {"active", "deferred"}}}

\* However often a request is sent under one key, its transaction commits once.
AppliedOnce == \A k \in Keys : applied[k] <= 1

\* A published question is immutable, says save_candidate: its candidate keeps the
\* published wording.  A publication between its check and its transaction breaks it.
PublishedImmutable == \A i \in Items : Published(i) => rows[i].text = pub[i].text

Content(row) == <<row.disp, row.rev, row.text, row.blocks, row.answer>>
Answered(r) == ~At(r, "done") /\ req'[r].pc = "done"

\* No lost update: a request that changes an active candidate was sent from a page
\* that showed the very content it replaces.
NoLostUpdate == [][
    \A i \in Items : (Active(i) /\ Content(rows'[i]) # Content(rows[i])) =>
        \E r \in Requests :
            /\ Answered(r)
            /\ \/ Asked(r).op = "delete"
               \/ i \in Named(r) /\ Content(req[r].seen[i]) = Content(rows[i])]_vars

\* What is published is what the teacher who selected it had on the page.
PublishedAsSeen == [][
    \A i \in Items : pub'[i] # pub[i] =>
        \E r \in Requests :
            /\ Answered(r) /\ Asked(r).op = "confirm" /\ i \in Named(r)
            /\ req[r].seen[i].text = pub'[i].text
            /\ req[r].seen[i].answer = pub'[i].answer]_vars

\* A superseded or deferred row is evidence: until the task is deleted it never
\* changes again, though requests checked before are still on their way.
RetiredIsFinal == [][
    \A i \in Items : rows[i].disp \in {"superseded", "deferred"} =>
        rows'[i] = rows[i] \/ rows' = Nobody]_vars

\* Rows change as a teacher saw them, or not at all once they are evidence.
RowsChangeAsSeen == NoLostUpdate /\ RetiredIsFinal
=============================================================================
