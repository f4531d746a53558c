---------------------------- MODULE ReviewItems ----------------------------
(***************************************************************************)
(* Exam review packages: teachers create packages, copy one for a class,   *)
(* edit, arrange and retry their items (exam_review.py) while worker       *)
(* processes generate the texts, one item at a time under a lease without  *)
(* a heartbeat (exam_review_worker.py).  Every SQLite transaction is one   *)
(* action; the model is called between the two transactions of run_once.   *)
(* Statistics, settings, included, emphasis and error texts are left out.  *)
(***************************************************************************)
EXTENDS Naturals

CONSTANTS
    Packages,       \* exam_review_packages, numbered in the order of created_at
    SnapshotCount,  \* questions of the assessment
    Sources,        \* the contents of a question a package may freeze
    Verified,       \* those whose answer_state is verified
    Fields,         \* CONTENT_FIELDS
    AIFields,       \* AI_FIELDS
    Copied,         \* the fields a package takes over from its template
    Texts,
    Reference,      \* the text _reference_content gives a field
    Workers,
    Tokens, NoToken,  \* lease tokens, more than workers can hold at a time
    Pages, NoPage,  \* browser pages
    MaxAttempts,    \* three in the code
    MaxRevision     \* bound: nobody saves, arranges or retries from this revision on

ASSUME PackagesAssumption == Packages \subseteq Nat /\ Packages # {}
ASSUME CountAssumption == SnapshotCount \in Nat \ {0}
ASSUME SourcesAssumption == Verified \subseteq Sources /\ Sources # {}
ASSUME FieldsAssumption == Copied \subseteq AIFields /\ AIFields \subseteq Fields
ASSUME TextsAssumption == Reference \in Texts
ASSUME TokensAssumption ==
    /\ NoToken \notin Tokens /\ NoPage \notin Pages
    /\ \A w \in Workers : \A f \in [Workers \ {w} -> Tokens \cup {NoToken}] :
          \E t \in Tokens : \A v \in Workers \ {w} : f[v] # t
ASSUME BoundsAssumption == MaxAttempts \in Nat \ {0} /\ MaxRevision \in Nat

VARIABLES
    package,  \* [Packages -> PackageRow]
    item,     \* [Packages -> [Snapshots -> ItemRow]]: exam_review_items
    worker,   \* [Workers -> Run]: the call each worker process has under way
    page      \* [Pages -> Page]: what each page shows

vars == <<package, item, worker, page>>

-----------------------------------------------------------------------------
Snapshots == 1..SnapshotCount

Contents == [Fields -> Texts]
Overrides == UNION {[D -> Texts] : D \in SUBSET Fields}

\* The dict {**g, **f}.
Over(f, g) == [x \in DOMAIN f \cup DOMAIN g |-> IF x \in DOMAIN f THEN f[x] ELSE g[x]]

\* approved and editor are history: the content a
\* teacher marked as reviewed, and the page that saved last.
ItemRow ==
    [status : {"absent", "queued", "running", "ready", "failed", "reference_only"},
     source : Sources, generated : Contents, overrides : Overrides, revision : Nat,
     reviewed : BOOLEAN, position : Snapshots, attempts : Nat, lease : Tokens \cup {NoToken}, expired : BOOLEAN,
     approved : Contents, editor : Pages \cup {NoPage}]

PackageRow == [created : BOOLEAN, revision : Nat, editor : Pages \cup {NoPage}]

Run == [calling : BOOLEAN, package : Packages, snapshot : Snapshots, token : Tokens \cup {NoToken}]

Copy == [revision : Nat, position : Snapshots, content : Contents]
Page == [open : BOOLEAN, package : Packages, revision : Nat, item : [Snapshots -> Copy]]

\* item_payload's content: what pages, presentations and exports show.
Content(row) == Over(row.overrides, row.generated)

Orders == {f \in [Snapshots -> Snapshots] : \A s, t \in Snapshots : f[s] = f[t] => s = t}

\* What identifier('lease') may draw.
FreshTokens == {t \in Tokens : \A w \in Workers : worker[w].token # t}

-----------------------------------------------------------------------------
Blank == [f \in Fields |-> Reference]
AnyPackage == CHOOSE p \in Packages : TRUE

Absent(s) ==
    [status |-> "absent", source |-> CHOOSE x \in Sources : TRUE, generated |-> Blank,
     overrides |-> [f \in {} |-> Reference], revision |-> 0, reviewed |-> FALSE, position |-> s,
     attempts |-> 0, lease |-> NoToken, expired |-> FALSE, approved |-> Blank, editor |-> NoPage]

Idle == [calling |-> FALSE, package |-> AnyPackage, snapshot |-> 1, token |-> NoToken]

Closed ==
    [open |-> FALSE, package |-> AnyPackage, revision |-> 0,
     item |-> [s \in Snapshots |-> [revision |-> 0, position |-> s, content |-> Blank]]]

Init ==
    /\ package = [p \in Packages |-> [created |-> FALSE, revision |-> 0, editor |-> NoPage]]
    /\ item = [p \in Packages |-> [s \in Snapshots |-> Absent(s)]]
    /\ worker = [w \in Workers |-> Idle]
    /\ page = [g \in Pages |-> Closed]

-----------------------------------------------------------------------------
(***************************************************************************)
(* Packages.  create freezes the questions as they are now; a copy starts  *)
(* from its template, whose items may be edited or generated meanwhile.    *)
(***************************************************************************)
CreatedPackages == {p \in Packages : package[p].created}

\* A provider is configured or not.
FirstStatus(source, provider) ==
    IF provider /\ source \in Verified THEN "queued" ELSE "reference_only"

NewItem(s, source, provider) ==
    [Absent(s) EXCEPT !.status = FirstStatus(source, provider), !.source = source, !.revision = 1]

\* Mutated form: the copied texts replace all generated texts instead of joining them.
CopiedItem_TextsReplaced(old, new) ==
    LET edited == DOMAIN old.overrides
        moved == [new EXCEPT !.position = old.position]
    IN  IF old.source # new.source THEN moved
        ELSE [moved EXCEPT
                 !.overrides = [f \in Copied \cap edited |-> old.overrides[f]],
                 !.generated = [f \in Copied \ edited |-> old.generated[f]],
                 !.status = IF old.status = "ready" THEN "ready" ELSE @]

\* The arrangement is copied, and the texts of an unchanged question.
CopiedItem(old, new) ==
    LET edited == DOMAIN old.overrides
        moved == [new EXCEPT !.position = old.position]
    IN  IF old.source # new.source THEN moved
        ELSE [moved EXCEPT
                 !.overrides = [f \in Copied \cap edited |-> old.overrides[f]],
                 !.generated = Over([f \in Copied \ edited |-> old.generated[f]], @),
                 !.status = IF old.status = "ready" THEN "ready" ELSE @]

NextPackage(p) ==
    /\ ~package[p].created
    /\ \A q \in Packages : q < p => package[q].created

StorePackage(p, rows) ==
    /\ package' = [package EXCEPT ![p].created = TRUE, ![p].revision = 1]
    /\ item' = [item EXCEPT ![p] = rows]
    /\ UNCHANGED <<worker, page>>

Create(p, sources, provider) ==
    /\ NextPackage(p)
    /\ StorePackage(p, [s \in Snapshots |-> NewItem(s, sources[s], provider)])

Fork(p, template, sources, provider) ==
    /\ NextPackage(p) /\ template \in CreatedPackages
    /\ StorePackage(p, [s \in Snapshots |->
           CopiedItem(item[template][s], NewItem(s, sources[s], provider))])

-----------------------------------------------------------------------------
(***************************************************************************)
(* Pages.  A page shows a package as it was; save_item compares the        *)
(* revision of the item, arrange the revision of the package.              *)
(***************************************************************************)
CopyOf(row) == [revision |-> row.revision, position |-> row.position, content |-> Content(row)]

OpenPage(g, p) ==
    /\ package[p].created
    /\ page' = [page EXCEPT ![g] = [open |-> TRUE, package |-> p, revision |-> package[p].revision,
                                    item |-> [s \in Snapshots |-> CopyOf(item[p][s])]]]
    /\ UNCHANGED <<package, item, worker>>

\* texts holds the fields the teacher typed into, reviewed the tick beside them.
SavedItem(row, g, texts, reviewed, seen) ==
    [row EXCEPT !.overrides = Over(texts, @), !.reviewed = reviewed, !.revision = @ + 1,
                !.approved = IF reviewed THEN Over(texts, seen) ELSE @, !.editor = g]

\* Mutated form: without comparing the item's revision.
SaveItem_AnyRevision(g, s, texts, reviewed) ==
    LET p == page[g].package
        seen == page[g].item[s]
        saved == SavedItem(item[p][s], g, texts, reviewed, seen.content)
    IN  /\ page[g].open /\ seen.revision < MaxRevision
        /\ item' = [item EXCEPT ![p][s] = saved]
        /\ page' = [page EXCEPT ![g].item[s] =
               [@ EXCEPT !.revision = saved.revision, !.content = Content(saved)]]
        /\ UNCHANGED <<package, worker>>

SaveItem(g, s, texts, reviewed) ==
    LET p == page[g].package
        seen == page[g].item[s]
        saved == SavedItem(item[p][s], g, texts, reviewed, seen.content)
    IN  /\ page[g].open /\ seen.revision < MaxRevision
        /\ item[p][s].revision = seen.revision
        /\ item' = [item EXCEPT ![p][s] = saved]
        /\ page' = [page EXCEPT ![g].item[s] =
               [@ EXCEPT !.revision = saved.revision, !.content = Content(saved)]]
        /\ UNCHANGED <<package, worker>>

RetryItem(p, s) ==
    /\ item[p][s].status \in {"failed", "reference_only"} /\ item[p][s].source \in Verified
    /\ item[p][s].revision < MaxRevision
    /\ item' = [item EXCEPT ![p][s].status = "queued", ![p][s].attempts = 0]
    /\ UNCHANGED <<package, worker, page>>

Arrange(g, order) ==
    LET p == page[g].package
    IN  /\ page[g].open /\ page[g].revision < MaxRevision
        /\ package[p].revision = page[g].revision
        /\ package' = [package EXCEPT ![p].revision = @ + 1, ![p].editor = g]
        /\ item' = [item EXCEPT ![p] = [s \in Snapshots |-> [@[s] EXCEPT !.position = order[s]]]]
        /\ page' = [page EXCEPT ![g].revision = @ + 1,
                                ![g].item = [s \in Snapshots |-> [@[s] EXCEPT !.position = order[s]]]]
        /\ UNCHANGED worker

-----------------------------------------------------------------------------
(***************************************************************************)
(* The worker: run_once, split where it calls the model.                   *)
(***************************************************************************)
\* The update that starts every run_once.
Recovered(row) ==
    IF row.status = "running" /\ row.expired
    THEN [row EXCEPT !.status = IF row.attempts >= MaxAttempts THEN "failed" ELSE "queued",
                     !.lease = NoToken, !.expired = FALSE]
    ELSE row

RecoveredItems == [p \in Packages |-> [s \in Snapshots |-> Recovered(item[p][s])]]

Rows == Packages \X Snapshots

\* order by p.created_at, i.position
Before(i, j, items) ==
    i[1] < j[1] \/ (i[1] = j[1] /\ items[i[1]][i[2]].position < items[j[1]][j[2]].position)

FirstQueued(i, items) ==
    /\ items[i[1]][i[2]].status = "queued"
    /\ \A j \in Rows : Before(j, i, items) => items[j[1]][j[2]].status # "queued"

\* Mutated form: a claim that is not counted.
Claimed_NotCounted(row, token) ==
    [row EXCEPT !.status = "running", !.lease = token, !.expired = FALSE]

Claimed(row, token) ==
    [row EXCEPT !.status = "running", !.attempts = @ + 1, !.lease = token, !.expired = FALSE]

AnyRunning(items) == \E i \in Rows : items[i[1]][i[2]].status = "running"

\* Another item is running, or nothing is queued: run_once returns None.
RecoverOnly(w) ==
    /\ ~worker[w].calling
    /\ \/ AnyRunning(RecoveredItems)
       \/ \A i \in Rows : RecoveredItems[i[1]][i[2]].status # "queued"
    /\ item' = RecoveredItems
    /\ UNCHANGED <<package, worker, page>>

ClaimItem(w, p, s, token) ==
    /\ ~worker[w].calling /\ token \in FreshTokens
    /\ ~AnyRunning(RecoveredItems)
    /\ FirstQueued(<<p, s>>, RecoveredItems)
    /\ item' = [RecoveredItems EXCEPT ![p][s] = Claimed(@, token)]
    /\ worker' = [worker EXCEPT ![w] =
           [calling |-> TRUE, package |-> p, snapshot |-> s, token |-> token]]
    /\ UNCHANGED <<package, page>>

\* Mutated form: the tick stays although a text changed under it.
Finished_KeepsTheTick(row, status, new) ==
    [row EXCEPT !.status = status, !.generated = Over(new, @), !.lease = NoToken, !.expired = FALSE,
                !.revision = @ + 1]

\* The last transaction.  new holds the texts of the AI fields, or is empty: no
\* provider, no active author, a refused budget or a failed call.
Finished(row, status, new) ==
    [row EXCEPT !.status = status, !.generated = Over(new, @), !.lease = NoToken, !.expired = FALSE,
                !.revision = @ + 1,
                !.reviewed = @ /\ \A f \in DOMAIN new \ DOMAIN row.overrides : row.generated[f] = new[f]]

\* Mutated form: the item must be running, under whatever lease.
Finish_AnyLease(w, status, new) ==
    LET p == worker[w].package
        s == worker[w].snapshot
        row == item[p][s]
    IN  /\ worker[w].calling
        /\ item' = IF row.status = "running"
                   THEN [item EXCEPT ![p][s] = Finished(row, status, new)]
                   ELSE item
        /\ worker' = [worker EXCEPT ![w] = Idle]
        /\ UNCHANGED <<package, page>>

Finish(w, status, new) ==
    LET p == worker[w].package
        s == worker[w].snapshot
        row == item[p][s]
    IN  /\ worker[w].calling
        /\ item' = IF row.status = "running" /\ row.lease = worker[w].token
                   THEN [item EXCEPT ![p][s] = Finished(row, status, new)]
                   ELSE item
        /\ worker' = [worker EXCEPT ![w] = Idle]
        /\ UNCHANGED <<package, page>>

CallSucceeds(w) == \E new \in [AIFields -> Texts] : Finish(w, "ready", new)
CallFails(w) == Finish(w, "failed", [f \in {} |-> Reference])

Crash(w) ==
    /\ worker[w].calling
    /\ worker' = [worker EXCEPT ![w] = Idle]
    /\ UNCHANGED <<package, item, page>>

\* 120 seconds have passed since the claim.
LeaseExpires(p, s) ==
    /\ item[p][s].status = "running" /\ ~item[p][s].expired
    /\ item' = [item EXCEPT ![p][s].expired = TRUE]
    /\ UNCHANGED <<package, worker, page>>

-----------------------------------------------------------------------------
WorkerStep(w) ==
    \/ RecoverOnly(w)
    \/ \E p \in Packages, s \in Snapshots, token \in Tokens : ClaimItem(w, p, s, token)
    \/ CallSucceeds(w)
    \/ CallFails(w)

PackageStep(p) ==
    \E sources \in [Snapshots -> Sources], provider \in BOOLEAN :
        \/ Create(p, sources, provider)
        \/ \E template \in Packages : Fork(p, template, sources, provider)

PageStep(g) ==
    \/ \E p \in Packages : OpenPage(g, p)
    \/ \E s \in Snapshots, texts \in Overrides, reviewed \in BOOLEAN : SaveItem(g, s, texts, reviewed)
    \/ \E order \in Orders : Arrange(g, order)

Next ==
    \/ \E w \in Workers : WorkerStep(w) \/ Crash(w)
    \/ \E p \in Packages : PackageStep(p)
    \/ \E g \in Pages : PageStep(g)
    \/ \E p \in Packages, s \in Snapshots : RetryItem(p, s) \/ LeaseExpires(p, s)

Spec == Init /\ [][Next]_vars

-----------------------------------------------------------------------------
\* The variables hold values the tables, the workers and the pages can hold.
TypeOK ==
    /\ package \in [Packages -> PackageRow]
    /\ item \in [Packages -> [Snapshots -> ItemRow]]
    /\ worker \in [Workers -> Run]
    /\ page \in [Pages -> Page]

\* An item marked as reviewed shows exactly the content its teacher marked: no
\* generation, retry or save from another page changes it under the mark.
ReviewedAsSeen ==
    \A p \in Packages, s \in Snapshots :
        item[p][s].reviewed => Content(item[p][s]) = item[p][s].approved

\* What a teacher wrote into a field is replaced only by a save, never by the
\* worker, and only from a page that showed it; an order likewise is replaced only
\* from a page that showed that order.
NothingIsLost ==
    [][/\ \A p \in Packages, s \in Snapshots : \A f \in DOMAIN item[p][s].overrides :
             Content(item'[p][s])[f] # Content(item[p][s])[f] =>
                 LET seen == page[item'[p][s].editor]
                 IN  /\ item'[p][s].status = item[p][s].status
                     /\ seen.package = p /\ seen.item[s].content = Content(item[p][s])
       /\ \A p \in CreatedPackages : \A s \in Snapshots :
             item'[p][s].position # item[p][s].position =>
                 LET seen == page[package'[p].editor]
                 IN  seen.package = p /\ \A t \in Snapshots : seen.item[t].position = item[p][t].position
      ]_vars

\* A run that was outrun by its lease changes nothing, whatever happened to the
\* item since: texts and outcomes come from the worker that holds the lease, or
\* from the recovery of one that spent its last attempt.
LateRunsAreFenced ==
    [][\A p \in CreatedPackages, s \in Snapshots :
          LET old == item[p][s]
              new == item'[p][s]
          IN  (new.generated # old.generated
                  \/ (new.status # old.status /\ new.status \in {"ready", "failed"})) =>
              /\ old.status = "running"
              /\ \/ \E w \in Workers : /\ worker[w] # worker'[w] /\ worker[w].token = old.lease
                                       /\ worker[w].package = p /\ worker[w].snapshot = s
                 \/ old.expired /\ old.attempts >= MaxAttempts /\ new.generated = old.generated
      ]_vars

\* Unless a teacher retries items for ever, every queued item is generated or fails,
\* though every run of it may crash or outlast its lease (WorkerLoop states the fairness).
ItemsEnd ==
    <>[][\A p \in Packages, s \in Snapshots : ~RetryItem(p, s)]_vars =>
        \A p \in Packages, s \in Snapshots :
            item[p][s].status = "queued" ~> item[p][s].status \in {"ready", "failed"}
=============================================================================
