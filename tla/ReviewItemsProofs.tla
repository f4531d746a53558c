------------------------- MODULE ReviewItemsProofs -------------------------
(***************************************************************************)
(* Theorems about ReviewItems, for any number of packages, questions,      *)
(* workers, tokens and pages.                                              *)
(***************************************************************************)
EXTENDS ReviewItems, TLAPS

-----------------------------------------------------------------------------
(***************************************************************************)
(* Laying one set of texts over another.                                   *)
(***************************************************************************)
LEMMA OverridesAre ==
    \A o : o \in Overrides <=> DOMAIN o \subseteq Fields /\ o \in [DOMAIN o -> Texts]
<1>1. ASSUME NEW o, o \in Overrides PROVE DOMAIN o \subseteq Fields /\ o \in [DOMAIN o -> Texts]
    BY <1>1 DEF Overrides
<1>2. ASSUME NEW o, DOMAIN o \subseteq Fields, o \in [DOMAIN o -> Texts] PROVE o \in Overrides
    <2>1. DOMAIN o \in SUBSET Fields
        BY <1>2
    <2> QED
        BY <1>2, <2>1 DEF Overrides
<1> QED
    BY <1>1, <1>2

LEMMA OverFields ==
    ASSUME NEW f, NEW g
    PROVE  /\ DOMAIN Over(f, g) = DOMAIN f \cup DOMAIN g
           /\ \A x \in DOMAIN f : Over(f, g)[x] = f[x]
           /\ \A x \in DOMAIN g \ DOMAIN f : Over(f, g)[x] = g[x]
    BY DEF Over

LEMMA OverOverrides ==
    ASSUME NEW f \in Overrides, NEW g \in Overrides
    PROVE  Over(f, g) \in Overrides
<1>1. /\ DOMAIN f \subseteq Fields /\ f \in [DOMAIN f -> Texts]
      /\ DOMAIN g \subseteq Fields /\ g \in [DOMAIN g -> Texts]
    BY OverridesAre
<1>2. DOMAIN Over(f, g) = DOMAIN f \cup DOMAIN g
    BY OverFields
<1>3. Over(f, g) \in [DOMAIN f \cup DOMAIN g -> Texts]
    BY <1>1 DEF Over
<1> QED
    BY <1>1, <1>2, <1>3, OverridesAre

LEMMA OverContents ==
    ASSUME NEW f \in Overrides, NEW g \in Contents
    PROVE  Over(f, g) \in Contents
<1>1. DOMAIN f \subseteq Fields /\ f \in [DOMAIN f -> Texts] /\ g \in [Fields -> Texts]
    BY OverridesAre DEF Contents
<1>2. DOMAIN f \cup DOMAIN g = Fields
    BY <1>1
<1> QED
    BY <1>1, <1>2 DEF Over, Contents

\* Writing over what is shown, or over what was written, shows the same.
LEMMA OverOver ==
    ASSUME NEW f \in Overrides, NEW g \in Overrides, NEW c \in Contents
    PROVE  Over(f, Over(g, c)) = Over(Over(f, g), c)
<1>1. /\ DOMAIN f \subseteq Fields /\ DOMAIN g \subseteq Fields /\ DOMAIN c = Fields
    BY OverridesAre DEF Contents
<1>2. /\ DOMAIN Over(f, Over(g, c)) = Fields /\ DOMAIN Over(Over(f, g), c) = Fields
    BY <1>1 DEF Over
<1>3. \A x \in Fields : Over(f, Over(g, c))[x] = Over(Over(f, g), c)[x]
    BY <1>1 DEF Over
<1> QED
    BY <1>2, <1>3 DEF Over

\* Texts that change nothing shown under the overrides leave what is shown.
LEMMA OverSame ==
    ASSUME NEW f \in Overrides, NEW n \in Overrides, NEW c \in Contents,
           \A x \in DOMAIN n \ DOMAIN f : c[x] = n[x]
    PROVE  Over(f, Over(n, c)) = Over(f, c)
<1>1. /\ DOMAIN f \subseteq Fields /\ DOMAIN n \subseteq Fields /\ DOMAIN c = Fields
    BY OverridesAre DEF Contents
<1>2. \A x \in Fields : Over(f, Over(n, c))[x] = Over(f, c)[x]
    BY <1>1 DEF Over
<1> QED
    BY <1>1, <1>2 DEF Over

-----------------------------------------------------------------------------
(***************************************************************************)
(* What the operators make of a row.                                       *)
(***************************************************************************)
LEMMA BlankType == Blank \in Contents /\ [x \in {} |-> Reference] \in Overrides
<1>1. Blank \in Contents
    BY TextsAssumption DEF Blank, Contents
<1>2. [x \in {} |-> Reference] \in Overrides
    BY OverridesAre
<1> QED
    BY <1>1, <1>2

LEMMA ContentType ==
    ASSUME NEW row \in ItemRow
    PROVE  Content(row) \in Contents
<1>1. row.overrides \in Overrides /\ row.generated \in Contents
    BY DEF ItemRow
<1> QED
    BY <1>1, OverContents DEF Content

\* What shows of a row depends on two of its fields.
LEMMA SameContent ==
    ASSUME NEW row, NEW new, new.overrides = row.overrides, new.generated = row.generated
    PROVE  Content(new) = Content(row)
    BY DEF Content

LEMMA RecoveredRow ==
    ASSUME NEW row \in ItemRow
    PROVE  LET new == Recovered(row)
           IN  /\ new \in ItemRow
               /\ new.overrides = row.overrides /\ new.generated = row.generated
               /\ new.revision = row.revision /\ new.position = row.position
               /\ new.reviewed = row.reviewed /\ new.approved = row.approved
               /\ new.status = row.status \/
                     (/\ row.status = "running" /\ row.expired
                      /\ new.status \in {"queued", "failed"}
                      /\ new.status = "failed" => row.attempts >= MaxAttempts)
    BY DEF ItemRow, Recovered

LEMMA ClaimedRow ==
    ASSUME NEW row \in ItemRow, NEW token \in Tokens
    PROVE  LET new == Claimed(row, token)
           IN  /\ new \in ItemRow
               /\ new.overrides = row.overrides /\ new.generated = row.generated
               /\ new.revision = row.revision /\ new.position = row.position
               /\ new.reviewed = row.reviewed /\ new.approved = row.approved
               /\ new.status = "running"
<1>1. row.attempts + 1 \in Nat
    BY DEF ItemRow
<1>2. Claimed(row, token) \in ItemRow
    BY <1>1 DEF ItemRow, Claimed
<1> QED
    BY <1>2 DEF ItemRow, Claimed

LEMMA FinishedRow ==
    ASSUME NEW row \in ItemRow, NEW status \in {"ready", "failed"}, NEW new \in Overrides
    PROVE  LET done == Finished(row, status, new)
           IN  /\ done \in ItemRow
               /\ done.overrides = row.overrides /\ done.revision = row.revision + 1
               /\ done.position = row.position /\ done.approved = row.approved
               /\ done.status = status
               /\ done.reviewed => row.reviewed /\ Content(done) = Content(row)
<1>1. row.generated \in Contents /\ row.overrides \in Overrides
    BY DEF ItemRow
<1>2. Over(new, row.generated) \in Contents
    BY <1>1, OverContents
<1> DEFINE done == Finished(row, status, new)
<1>3. /\ done.generated = Over(new, row.generated) /\ done.overrides = row.overrides
      /\ done.revision = row.revision + 1 /\ done.position = row.position
      /\ done.approved = row.approved /\ done.status = status
    BY DEF ItemRow, Finished
<1>4. done.reviewed <=> row.reviewed /\ \A f \in DOMAIN new \ DOMAIN row.overrides : row.generated[f] = new[f]
    BY DEF ItemRow, Finished
<1>5. done \in ItemRow
    <2>1. row.revision + 1 \in Nat /\ done.reviewed \in BOOLEAN
        BY DEF ItemRow, Finished
    <2> QED
        BY <1>2, <2>1 DEF ItemRow, Finished
<1> HIDE DEF done
<1>6. ASSUME done.reviewed PROVE row.reviewed /\ Content(done) = Content(row)
    <2>1. Over(row.overrides, Over(new, row.generated)) = Over(row.overrides, row.generated)
        BY <1>1, <1>4, <1>6, OverSame
    <2> QED
        BY <1>3, <1>4, <1>6, <2>1 DEF Content
<1> QED
    BY <1>3, <1>5, <1>6 DEF done

LEMMA SavedRow ==
    ASSUME NEW row \in ItemRow, NEW g \in Pages, NEW texts \in Overrides,
           NEW reviewed \in BOOLEAN, NEW seen \in Contents
    PROVE  LET new == SavedItem(row, g, texts, reviewed, seen)
           IN  /\ new \in ItemRow
               /\ new.generated = row.generated /\ new.revision = row.revision + 1
               /\ new.position = row.position /\ new.status = row.status
               /\ new.editor = g
               /\ Content(new) = Over(texts, Content(row))
               /\ new.reviewed => new.approved = Over(texts, seen)
<1>1. row.generated \in Contents /\ row.overrides \in Overrides
    BY DEF ItemRow
<1>2. Over(texts, row.overrides) \in Overrides /\ Over(texts, seen) \in Contents
    BY <1>1, OverOverrides, OverContents
<1> DEFINE new == SavedItem(row, g, texts, reviewed, seen)
<1>3. /\ new.generated = row.generated /\ new.revision = row.revision + 1
      /\ new.position = row.position /\ new.status = row.status /\ new.editor = g
      /\ new.overrides = Over(texts, row.overrides)
    BY DEF ItemRow, SavedItem
<1>4. new.reviewed => new.approved = Over(texts, seen)
    BY DEF ItemRow, SavedItem
<1>5. new \in ItemRow
    <2>1. row.revision + 1 \in Nat /\ new.approved \in Contents
        BY <1>2 DEF ItemRow, SavedItem
    <2> QED
        BY <1>2, <2>1 DEF ItemRow, SavedItem
<1> HIDE DEF new
<1>6. Content(new) = Over(texts, Content(row))
    BY <1>1, <1>3, OverOver DEF Content
<1> QED
    BY <1>3, <1>4, <1>5, <1>6 DEF new

LEMMA AbsentRow ==
    ASSUME NEW s \in Snapshots
    PROVE  Absent(s) \in ItemRow /\ Absent(s).reviewed = FALSE
<1>1. (CHOOSE x \in Sources : TRUE) \in Sources
    BY SourcesAssumption
<1>2. NoPage \in Pages \cup {NoPage} /\ NoToken \in Tokens \cup {NoToken} /\ 0 \in Nat
    OBVIOUS
<1> QED
    BY <1>1, <1>2, BlankType DEF ItemRow, Absent

LEMMA NewRow ==
    ASSUME NEW s \in Snapshots, NEW source \in Sources, NEW provider \in BOOLEAN
    PROVE  LET new == NewItem(s, source, provider)
           IN  /\ new \in ItemRow /\ ~new.reviewed /\ new.source = source
               /\ new.status \in {"queued", "reference_only"}
<1> DEFINE absent == Absent(s)
<1>1. absent \in ItemRow /\ absent.reviewed = FALSE
    BY AbsentRow
<1>2. NewItem(s, source, provider) =
        [absent EXCEPT !.status = FirstStatus(source, provider), !.source = source, !.revision = 1]
    BY DEF NewItem
<1>3. FirstStatus(source, provider) \in {"queued", "reference_only"}
    BY DEF FirstStatus
<1> HIDE DEF absent
<1>4. ASSUME NEW status \in {"queued", "reference_only"}
      PROVE  LET new == [absent EXCEPT !.status = status, !.source = source, !.revision = 1]
             IN  /\ new \in ItemRow /\ new.reviewed = FALSE /\ new.source = source
                 /\ new.status = status
    BY <1>1 DEF ItemRow
<1> QED
    BY <1>2, <1>3, <1>4

LEMMA CopiedRow ==
    ASSUME NEW old \in ItemRow, NEW new \in ItemRow, ~new.reviewed
    PROVE  CopiedItem(old, new) \in ItemRow /\ ~CopiedItem(old, new).reviewed
<1> DEFINE edited == DOMAIN old.overrides
           moved == [new EXCEPT !.position = old.position]
           written == [f \in Copied \cap edited |-> old.overrides[f]]
           made == [f \in Copied \ edited |-> old.generated[f]]
<1>1. old.overrides \in Overrides /\ old.generated \in Contents /\ new.generated \in Contents
    BY DEF ItemRow
<1>2. moved \in ItemRow /\ ~moved.reviewed /\ moved.generated = new.generated
    BY DEF ItemRow
<1>3. written \in Overrides
    <2>1. edited \subseteq Fields /\ old.overrides \in [edited -> Texts]
        BY <1>1, OverridesAre
    <2>2. DOMAIN written \subseteq Fields /\ written \in [DOMAIN written -> Texts]
        BY <2>1
    <2> QED
        BY <2>2, OverridesAre
<1>4. made \in Overrides
    <2>1. old.generated \in [Fields -> Texts] /\ Copied \subseteq Fields
        BY <1>1, FieldsAssumption DEF Contents
    <2>2. DOMAIN made \subseteq Fields /\ made \in [DOMAIN made -> Texts]
        BY <2>1
    <2> QED
        BY <2>2, OverridesAre
<1>5. Over(made, new.generated) \in Contents
    BY <1>1, <1>4, OverContents
<1>6. CopiedItem(old, new) =
        IF old.source # new.source THEN moved
        ELSE [moved EXCEPT !.overrides = written,
                           !.generated = Over(made, moved.generated),
                           !.status = IF old.status = "ready" THEN "ready" ELSE moved.status]
    BY DEF CopiedItem
<1> HIDE DEF moved, written, made
<1>7. ASSUME NEW texts \in Overrides, NEW shown \in Contents,
             NEW status \in {"absent", "queued", "running", "ready", "failed", "reference_only"}
      PROVE  LET copied == [moved EXCEPT !.overrides = texts, !.generated = shown, !.status = status]
             IN  copied \in ItemRow /\ copied.reviewed = moved.reviewed
    BY <1>2 DEF ItemRow
<1>8. moved.status \in {"absent", "queued", "running", "ready", "failed", "reference_only"}
    BY <1>2 DEF ItemRow
<1>9. CASE old.source = new.source
    <2> DEFINE status == IF old.status = "ready" THEN "ready" ELSE moved.status
               copied == [moved EXCEPT !.overrides = written, !.generated = Over(made, moved.generated),
                                       !.status = status]
    <2>1. status \in {"absent", "queued", "running", "ready", "failed", "reference_only"}
        BY <1>8
    <2>2. CopiedItem(old, new) = copied
        BY <1>6, <1>9
    <2>3. Over(made, moved.generated) \in Contents
        BY <1>2, <1>5
    <2> HIDE DEF status
    <2>4. copied \in ItemRow /\ copied.reviewed = moved.reviewed
        BY <1>3, <1>7, <2>1, <2>3
    <2> QED
        BY <1>2, <2>2, <2>4
<1> QED
    BY <1>2, <1>6, <1>9

-----------------------------------------------------------------------------
(***************************************************************************)
(* The inductive invariant.  A page shows the past of its package: an      *)
(* equal revision means that it shows what the row shows now.  A package   *)
(* that has not been created holds no text of a teacher.                   *)
(***************************************************************************)
NothingBefore ==
    \A p \in Packages : ~package[p].created =>
        \A s \in Snapshots : DOMAIN item[p][s].overrides = {}

CopyIsPast(copy, row) ==
    /\ copy.revision <= row.revision
    /\ copy.revision = row.revision => copy.content = Content(row)

PageIsPast(g) ==
    LET p == page[g].package
    IN  page[g].open =>
            /\ package[p].created
            /\ page[g].revision <= package[p].revision
            /\ page[g].revision = package[p].revision =>
                  \A s \in Snapshots : page[g].item[s].position = item[p][s].position
            /\ \A s \in Snapshots : CopyIsPast(page[g].item[s], item[p][s])

PagesArePast == \A g \in Pages : PageIsPast(g)

Inv ==
    /\ TypeOK
    /\ NothingBefore
    /\ PagesArePast
    /\ ReviewedAsSeen

\* What the workers, the clock and a retry may do to a row.
RowMoves(old, new) ==
    /\ new.overrides = old.overrides /\ new.position = old.position
    /\ \/ new.revision = old.revision /\ Content(new) = Content(old)
       \/ new.revision > old.revision
    /\ new.reviewed => old.reviewed /\ new.approved = old.approved /\ Content(new) = Content(old)

Items == [Packages -> [Snapshots -> ItemRow]]

\* A step of a worker, of the clock or of a retry.
QuietStep ==
    /\ item' \in Items /\ worker' \in [Workers -> Run]
    /\ UNCHANGED <<package, page>>
    /\ \A p \in Packages, s \in Snapshots : RowMoves(item[p][s], item'[p][s])

LEMMA IdleType == Idle \in Run
<1>1. 1 \in Snapshots /\ AnyPackage \in Packages
    BY CountAssumption, PackagesAssumption DEF Snapshots, AnyPackage
<1> QED
    BY <1>1 DEF Idle, Run

LEMMA InitInv == Init => Inv
<1> SUFFICES ASSUME Init PROVE Inv
    OBVIOUS
<1>1. 1 \in Snapshots /\ AnyPackage \in Packages
    BY CountAssumption, PackagesAssumption DEF Snapshots, AnyPackage
<1>2. \A s \in Snapshots : Absent(s) \in ItemRow
    BY AbsentRow
<1>3. Idle \in Run
    BY IdleType
<1>4. Closed \in Page
    <2>1. \A s \in Snapshots : [revision |-> 0, position |-> s, content |-> Blank] \in Copy
        BY BlankType DEF Copy
    <2> QED
        BY <1>1, <2>1 DEF Closed, Page
<1>5. TypeOK
    <2>1. item \in Items
        BY <1>2 DEF Init, Items
    <2>2. package \in [Packages -> PackageRow]
        BY DEF Init, PackageRow
    <2>3. worker \in [Workers -> Run] /\ page \in [Pages -> Page]
        BY <1>3, <1>4 DEF Init
    <2> QED
        BY <2>1, <2>2, <2>3 DEF TypeOK, Items
<1>6. NothingBefore
    BY DEF Init, NothingBefore, Absent
<1>7. PagesArePast
    BY DEF Init, PagesArePast, PageIsPast, Closed
<1>8. ReviewedAsSeen
    BY DEF Init, ReviewedAsSeen, Absent
<1> QED
    BY <1>5, <1>6, <1>7, <1>8 DEF Inv

LEMMA QuietKeeps ==
    ASSUME Inv, QuietStep
    PROVE  Inv'
<1>0. /\ item' \in Items /\ worker' \in [Workers -> Run] /\ UNCHANGED <<package, page>>
      /\ \A p \in Packages, s \in Snapshots : RowMoves(item[p][s], item'[p][s])
    BY DEF QuietStep
<1>1. TypeOK'
    BY <1>0 DEF Inv, TypeOK, Items
<1>2. NothingBefore'
    BY <1>0 DEF Inv, NothingBefore, RowMoves
<1>3. ReviewedAsSeen'
    BY <1>0 DEF Inv, ReviewedAsSeen, RowMoves
<1>4. ASSUME NEW g \in Pages PROVE PageIsPast(g)'
    <2> DEFINE p == page[g].package
    <2>1. PageIsPast(g) /\ p \in Packages /\ page'[g] = page[g] /\ package'[p] = package[p]
        BY <1>0 DEF Inv, PagesArePast, TypeOK, Page
    <2>2. ASSUME NEW s \in Snapshots, CopyIsPast(page[g].item[s], item[p][s])
          PROVE  CopyIsPast(page[g].item[s], item'[p][s]) /\ item'[p][s].position = item[p][s].position
        <3>1. RowMoves(item[p][s], item'[p][s])
            BY <1>0, <2>1
        <3>2. /\ page[g].item[s].revision \in Nat /\ item[p][s].revision \in Nat
              /\ item'[p][s].revision \in Nat
            BY <1>0, <2>1 DEF Inv, TypeOK, Page, Copy, Items, ItemRow
        <3> QED
            BY <2>2, <3>1, <3>2 DEF RowMoves, CopyIsPast
    <2> HIDE DEF p
    <2> QED
        BY <2>1, <2>2 DEF PageIsPast, p
<1> QED
    BY <1>1, <1>2, <1>3, <1>4 DEF Inv, PagesArePast

-----------------------------------------------------------------------------
(***************************************************************************)
(* Every action preserves the invariant.                                   *)
(***************************************************************************)
\* A row that keeps what it shows, its place and its mark.
SameFace(old, new) ==
    /\ new.overrides = old.overrides /\ new.generated = old.generated
    /\ new.revision = old.revision /\ new.position = old.position
    /\ new.reviewed = old.reviewed /\ new.approved = old.approved

LEMMA SameFaceMoves ==
    ASSUME NEW old \in ItemRow, NEW new \in ItemRow, SameFace(old, new)
    PROVE  RowMoves(old, new)
    BY SameContent DEF SameFace, RowMoves

\* One row is replaced.
LEMMA OneRow ==
    ASSUME item \in Items, NEW p \in Packages, NEW s \in Snapshots, NEW row \in ItemRow,
           item' = [item EXCEPT ![p][s] = row]
    PROVE  /\ item' \in Items /\ item'[p][s] = row
           /\ \A q \in Packages, t \in Snapshots : q # p \/ t # s => item'[q][t] = item[q][t]
    BY DEF Items

LEMMA OneRowMoves ==
    ASSUME item \in Items, NEW p \in Packages, NEW s \in Snapshots, NEW row \in ItemRow,
           item' = [item EXCEPT ![p][s] = row], RowMoves(item[p][s], row)
    PROVE  /\ item' \in Items
           /\ \A q \in Packages, t \in Snapshots : RowMoves(item[q][t], item'[q][t])
<1>1. /\ item' \in Items /\ item'[p][s] = row
      /\ \A q \in Packages, t \in Snapshots : q # p \/ t # s => item'[q][t] = item[q][t]
    BY OneRow
<1>2. ASSUME NEW q \in Packages, NEW t \in Snapshots PROVE RowMoves(item[q][t], item'[q][t])
    <2>1. CASE q = p /\ t = s
        BY <1>1, <2>1
    <2>2. CASE q # p \/ t # s
        BY <1>1, <2>2 DEF RowMoves
    <2> QED
        BY <2>1, <2>2
<1> QED
    BY <1>1, <1>2

\* The recovery that starts a turn.
LEMMA RecoveredRows ==
    ASSUME item \in Items
    PROVE  /\ RecoveredItems \in Items
           /\ \A p \in Packages, s \in Snapshots :
                 /\ RecoveredItems[p][s] = Recovered(item[p][s])
                 /\ SameFace(item[p][s], RecoveredItems[p][s])
<1>1. \A p \in Packages, s \in Snapshots : RecoveredItems[p][s] = Recovered(item[p][s])
    BY DEF RecoveredItems
<1>2. \A p \in Packages, s \in Snapshots : item[p][s] \in ItemRow
    BY DEF Items
<1>3. \A p \in Packages, s \in Snapshots : Recovered(item[p][s]) \in ItemRow
    BY <1>2, RecoveredRow
<1>4. \A p \in Packages, s \in Snapshots : SameFace(item[p][s], Recovered(item[p][s]))
    BY <1>2, RecoveredRow DEF SameFace
<1>5. RecoveredItems \in Items
    BY <1>3 DEF RecoveredItems, Items
<1> QED
    BY <1>1, <1>4, <1>5

LEMMA RecoverOnlyIsQuiet ==
    ASSUME Inv, NEW w \in Workers, RecoverOnly(w)
    PROVE  QuietStep
<1>1. item \in Items /\ worker' \in [Workers -> Run] /\ UNCHANGED <<package, page>> /\ item' = RecoveredItems
    BY DEF Inv, TypeOK, Items, RecoverOnly
<1>2. item' \in Items /\ \A p \in Packages, s \in Snapshots : SameFace(item[p][s], item'[p][s])
    BY <1>1, RecoveredRows
<1>3. \A p \in Packages, s \in Snapshots : RowMoves(item[p][s], item'[p][s])
    BY <1>1, <1>2, SameFaceMoves DEF Items
<1> QED
    BY <1>1, <1>2, <1>3 DEF QuietStep

LEMMA ClaimIsQuiet ==
    ASSUME Inv, NEW w \in Workers, NEW p \in Packages, NEW s \in Snapshots, NEW token \in Tokens,
           ClaimItem(w, p, s, token)
    PROVE  QuietStep
<1>1. /\ item \in Items /\ worker \in [Workers -> Run] /\ UNCHANGED <<package, page>>
      /\ item' = [RecoveredItems EXCEPT ![p][s] = Claimed(RecoveredItems[p][s], token)]
      /\ worker' = [worker EXCEPT ![w] =
             [calling |-> TRUE, package |-> p, snapshot |-> s, token |-> token]]
    BY DEF Inv, TypeOK, Items, ClaimItem
<1>2. RecoveredItems \in Items /\ \A q \in Packages, t \in Snapshots : SameFace(item[q][t], RecoveredItems[q][t])
    BY <1>1, RecoveredRows
<1>3. RecoveredItems[p][s] \in ItemRow
    BY <1>2 DEF Items
<1>4. /\ Claimed(RecoveredItems[p][s], token) \in ItemRow
      /\ SameFace(RecoveredItems[p][s], Claimed(RecoveredItems[p][s], token))
    BY <1>3, ClaimedRow DEF SameFace
<1>5. item' \in Items /\ \A q \in Packages, t \in Snapshots : SameFace(RecoveredItems[q][t], item'[q][t])
    BY <1>1, <1>2, <1>4 DEF Items, SameFace
<1>6. \A q \in Packages, t \in Snapshots : SameFace(item[q][t], item'[q][t])
    BY <1>2, <1>5 DEF SameFace
<1>7. \A q \in Packages, t \in Snapshots : RowMoves(item[q][t], item'[q][t])
    BY <1>1, <1>5, <1>6, SameFaceMoves DEF Items
<1>8. worker' \in [Workers -> Run]
    BY <1>1 DEF Run
<1> QED
    BY <1>1, <1>5, <1>7, <1>8 DEF QuietStep

LEMMA FinishIsQuiet ==
    ASSUME Inv, NEW w \in Workers, NEW status \in {"ready", "failed"}, NEW new \in Overrides,
           Finish(w, status, new)
    PROVE  QuietStep
<1> DEFINE p == worker[w].package
           s == worker[w].snapshot
           done == Finished(item[p][s], status, new)
<1>1. /\ item \in Items /\ worker \in [Workers -> Run] /\ p \in Packages /\ s \in Snapshots
      /\ item[p][s] \in ItemRow
    BY DEF Inv, TypeOK, Items, Run
<1>2. done \in ItemRow /\ RowMoves(item[p][s], done)
    <2>1. item[p][s].revision \in Nat
        BY <1>1 DEF ItemRow
    <2> QED
        BY <1>1, <2>1, FinishedRow DEF RowMoves
<1>3. Idle \in Run
    BY IdleType
<1>4. worker' \in [Workers -> Run] /\ UNCHANGED <<package, page>>
    BY <1>1, <1>3 DEF Finish
<1>5. item' = item \/ item' = [item EXCEPT ![p][s] = done]
    BY DEF Finish
<1> HIDE DEF done, p, s
<1>6. CASE item' = item
    <2>1. \A q \in Packages, t \in Snapshots : RowMoves(item[q][t], item'[q][t])
        BY <1>6 DEF RowMoves
    <2> QED
        BY <1>1, <1>4, <1>6, <2>1 DEF QuietStep
<1>7. CASE item' = [item EXCEPT ![p][s] = done]
    BY <1>1, <1>2, <1>4, <1>7, OneRowMoves DEF QuietStep
<1> QED
    BY <1>5, <1>6, <1>7

LEMMA CrashIsQuiet ==
    ASSUME Inv, NEW w \in Workers, Crash(w)
    PROVE  QuietStep
<1>1. item' = item /\ item' \in Items /\ UNCHANGED <<package, page>>
    BY DEF Inv, TypeOK, Items, Crash
<1>2. worker' \in [Workers -> Run]
    BY IdleType DEF Inv, TypeOK, Crash
<1>3. \A p \in Packages, s \in Snapshots : RowMoves(item[p][s], item'[p][s])
    BY <1>1 DEF RowMoves
<1> QED
    BY <1>1, <1>2, <1>3 DEF QuietStep

LEMMA TickIsQuiet ==
    ASSUME Inv, NEW p \in Packages, NEW s \in Snapshots, RetryItem(p, s) \/ LeaseExpires(p, s)
    PROVE  QuietStep
<1>1. /\ item \in Items /\ item[p][s] \in ItemRow
      /\ worker' \in [Workers -> Run] /\ UNCHANGED <<package, page>>
    BY DEF Inv, TypeOK, Items, RetryItem, LeaseExpires
<1>2. CASE RetryItem(p, s)
    <2> DEFINE row == [item[p][s] EXCEPT !.status = "queued", !.attempts = 0]
    <2>1. item' = [item EXCEPT ![p][s] = row]
        BY <1>1, <1>2 DEF RetryItem, Items, ItemRow
    <2>2. row \in ItemRow /\ SameFace(item[p][s], row)
        BY <1>1 DEF ItemRow, SameFace
    <2> HIDE DEF row
    <2>3. RowMoves(item[p][s], row)
        BY <1>1, <2>2, SameFaceMoves
    <2> QED
        BY <1>1, <2>1, <2>2, <2>3, OneRowMoves DEF QuietStep
<1>3. CASE LeaseExpires(p, s)
    <2> DEFINE row == [item[p][s] EXCEPT !.expired = TRUE]
    <2>1. item' = [item EXCEPT ![p][s] = row]
        BY <1>1, <1>3 DEF LeaseExpires, Items, ItemRow
    <2>2. row \in ItemRow /\ SameFace(item[p][s], row)
        BY <1>1 DEF ItemRow, SameFace
    <2> HIDE DEF row
    <2>3. RowMoves(item[p][s], row)
        BY <1>1, <2>2, SameFaceMoves
    <2> QED
        BY <1>1, <2>1, <2>2, <2>3, OneRowMoves DEF QuietStep
<1> QED
    BY <1>2, <1>3

LEMMA StoreKeeps ==
    ASSUME Inv, NEW p \in Packages, ~package[p].created,
           NEW rows \in [Snapshots -> ItemRow], \A s \in Snapshots : ~rows[s].reviewed,
           StorePackage(p, rows)
    PROVE  Inv'
<1>1. /\ package' = [package EXCEPT ![p].created = TRUE, ![p].revision = 1]
      /\ item' = [item EXCEPT ![p] = rows] /\ UNCHANGED <<worker, page>>
    BY DEF StorePackage
<1>2. package \in [Packages -> PackageRow] /\ item \in Items
    BY DEF Inv, TypeOK, Items
<1>3. TypeOK'
    BY <1>1, <1>2 DEF Inv, TypeOK, PackageRow, Items
<1>4. /\ package'[p].created /\ item'[p] = rows
      /\ \A q \in Packages \ {p} : package'[q] = package[q] /\ item'[q] = item[q]
    BY <1>1, <1>2 DEF PackageRow, Items
<1>5. NothingBefore'
    BY <1>4 DEF Inv, NothingBefore
<1>6. ReviewedAsSeen'
    BY <1>4 DEF Inv, ReviewedAsSeen
<1>7. ASSUME NEW g \in Pages PROVE PageIsPast(g)'
    <2>1. PageIsPast(g) /\ page' = page /\ page[g].package \in Packages
        BY <1>1 DEF Inv, PagesArePast, TypeOK, Page
    <2> QED
        BY <1>4, <2>1 DEF PageIsPast
<1> QED
    BY <1>3, <1>5, <1>6, <1>7 DEF Inv, PagesArePast

LEMMA PackageKeeps ==
    ASSUME Inv, NEW p \in Packages, PackageStep(p)
    PROVE  Inv'
<1> PICK sources \in [Snapshots -> Sources], provider \in BOOLEAN :
        Create(p, sources, provider) \/ \E template \in Packages : Fork(p, template, sources, provider)
    BY DEF PackageStep
<1> DEFINE fresh == [s \in Snapshots |-> NewItem(s, sources[s], provider)]
<1>1. \A s \in Snapshots : fresh[s] = NewItem(s, sources[s], provider) /\ fresh[s] \in ItemRow /\ ~fresh[s].reviewed
    <2>1. \A s \in Snapshots : sources[s] \in Sources
        OBVIOUS
    <2> QED
        BY <2>1, NewRow
<1>2. CASE Create(p, sources, provider)
    <2>1. ~package[p].created /\ StorePackage(p, fresh)
        BY <1>2 DEF Create, NextPackage
    <2>2. fresh \in [Snapshots -> ItemRow]
        BY <1>1
    <2> QED
        BY <1>1, <2>1, <2>2, StoreKeeps
<1>3. ASSUME NEW template \in Packages, Fork(p, template, sources, provider) PROVE Inv'
    <2> DEFINE copied == [s \in Snapshots |-> CopiedItem(item[template][s], NewItem(s, sources[s], provider))]
    <2>1. ~package[p].created /\ StorePackage(p, copied)
        BY <1>3 DEF Fork, NextPackage
    <2>2. \A s \in Snapshots : item[template][s] \in ItemRow
        BY DEF Inv, TypeOK
    <2>3. \A s \in Snapshots : copied[s] \in ItemRow /\ ~copied[s].reviewed
        BY <1>1, <2>2, CopiedRow
    <2>4. copied \in [Snapshots -> ItemRow]
        BY <2>3
    <2> QED
        BY <2>1, <2>3, <2>4, StoreKeeps
<1> QED
    BY <1>2, <1>3

LEMMA OpenKeeps ==
    ASSUME Inv, NEW g \in Pages, NEW p \in Packages, OpenPage(g, p)
    PROVE  Inv'
<1> DEFINE copies == [s \in Snapshots |-> CopyOf(item[p][s])]
           opened == [open |-> TRUE, package |-> p, revision |-> package[p].revision, item |-> copies]
<1>1. /\ package[p].created /\ page' = [page EXCEPT ![g] = opened]
      /\ UNCHANGED <<package, item, worker>>
    BY DEF OpenPage
<1>2. /\ package[p] \in PackageRow /\ page \in [Pages -> Page]
      /\ \A s \in Snapshots : item[p][s] \in ItemRow
    BY DEF Inv, TypeOK
<1>3. \A s \in Snapshots : CopyOf(item[p][s]) \in Copy
    <2>1. \A s \in Snapshots : Content(item[p][s]) \in Contents
        BY <1>2, ContentType
    <2> QED
        BY <1>2, <2>1 DEF CopyOf, Copy, ItemRow
<1>4. opened \in Page
    BY <1>2, <1>3 DEF Page, PackageRow
<1>5. TypeOK' /\ NothingBefore' /\ ReviewedAsSeen'
    <2>1. TypeOK'
        BY <1>1, <1>4 DEF Inv, TypeOK
    <2>2. NothingBefore' /\ ReviewedAsSeen'
        BY <1>1 DEF Inv, NothingBefore, ReviewedAsSeen
    <2> QED
        BY <2>1, <2>2
<1>6. ASSUME NEW h \in Pages PROVE PageIsPast(h)'
    <2>1. CASE h = g
        <3>1. page'[h] = opened /\ package' = package /\ item' = item
            BY <1>1, <1>2, <2>1
        <3>2. \A s \in Snapshots : /\ copies[s].position = item[p][s].position
                                   /\ copies[s].revision = item[p][s].revision
                                   /\ copies[s].content = Content(item[p][s])
            BY DEF CopyOf
        <3>3. package[p].revision \in Nat /\ \A s \in Snapshots : item[p][s].revision \in Nat
            BY <1>2 DEF PackageRow, ItemRow
        <3>4. \A s \in Snapshots : CopyIsPast(copies[s], item[p][s])
            BY <3>2, <3>3 DEF CopyIsPast
        <3> QED
            BY <1>1, <3>1, <3>2, <3>3, <3>4 DEF PageIsPast
    <2>2. CASE h # g
        <3>1. page'[h] = page[h] /\ package' = package /\ item' = item /\ PageIsPast(h)
            BY <1>1, <1>2, <2>2 DEF Inv, PagesArePast
        <3> QED
            BY <3>1 DEF PageIsPast
    <2> QED
        BY <2>1, <2>2
<1> QED
    BY <1>5, <1>6 DEF Inv, PagesArePast

LEMMA SaveKeeps ==
    ASSUME Inv, NEW g \in Pages, NEW s \in Snapshots, NEW texts \in Overrides,
           NEW reviewed \in BOOLEAN, SaveItem(g, s, texts, reviewed)
    PROVE  Inv'
<1> DEFINE p == page[g].package
           row == item[p][s]
           seen == page[g].item[s]
           saved == SavedItem(row, g, texts, reviewed, seen.content)
           copy == [seen EXCEPT !.revision = saved.revision, !.content = Content(saved)]
<1>1. /\ page[g].open /\ row.revision = seen.revision
      /\ item' = [item EXCEPT ![p][s] = saved]
      /\ UNCHANGED <<package, worker>>
    BY DEF SaveItem
<1>2. /\ p \in Packages /\ item \in Items /\ page \in [Pages -> Page] /\ row \in ItemRow
      /\ seen \in Copy /\ page[g].item \in [Snapshots -> Copy] /\ package \in [Packages -> PackageRow]
    BY DEF Inv, TypeOK, Items, Page
<1>3. page' = [page EXCEPT ![g].item[s] = copy]
    BY <1>2 DEF SaveItem, Page, Copy
<1>4. seen.content = Content(row) /\ package[p].created
    BY <1>1 DEF Inv, PagesArePast, PageIsPast, CopyIsPast
<1>5. /\ saved \in ItemRow /\ saved.revision = row.revision + 1 /\ saved.position = row.position
      /\ Content(saved) = Over(texts, Content(row))
      /\ saved.reviewed => saved.approved = Over(texts, seen.content)
    <2>1. seen.content \in Contents
        BY <1>2 DEF Copy
    <2> QED
        BY <1>2, <2>1, SavedRow
<1>6. copy \in Copy /\ copy.revision = saved.revision /\ copy.content = Content(saved)
      /\ copy.position = seen.position
    <2>1. Content(saved) \in Contents /\ saved.revision \in Nat
        BY <1>5, ContentType DEF ItemRow
    <2> QED
        BY <1>2, <2>1 DEF Copy
<1> HIDE DEF saved, copy
<1>7. /\ item' \in Items /\ item'[p][s] = saved
      /\ \A q \in Packages, t \in Snapshots : q # p \/ t # s => item'[q][t] = item[q][t]
    BY <1>1, <1>2, <1>5, OneRow
<1>8. /\ page' \in [Pages -> Page]
      /\ \A h \in Pages \ {g} : page'[h] = page[h]
      /\ page'[g].open = page[g].open /\ page'[g].package = p /\ page'[g].revision = page[g].revision
      /\ page'[g].item[s] = copy
      /\ \A t \in Snapshots : t # s => page'[g].item[t] = page[g].item[t]
    <2>1. page' \in [Pages -> Page]
        BY <1>2, <1>3, <1>6 DEF Page
    <2> QED
        BY <1>2, <1>3, <1>6, <2>1 DEF Page
<1>9. TypeOK'
    BY <1>1, <1>7, <1>8 DEF Inv, TypeOK, Items
<1>10. NothingBefore'
    BY <1>1, <1>4, <1>7 DEF Inv, NothingBefore
<1>11. ReviewedAsSeen'
    BY <1>4, <1>5, <1>7 DEF Inv, ReviewedAsSeen
<1>12. item'[p][s].position = row.position /\ item'[p][s].revision = row.revision + 1 /\ row.revision \in Nat
    BY <1>2, <1>5, <1>7 DEF ItemRow
<1>13. ASSUME NEW h \in Pages \ {g} PROVE PageIsPast(h)'
    <2> DEFINE q == page[h].package
    <2>1. page'[h] = page[h] /\ package' = package /\ PageIsPast(h) /\ q \in Packages
        BY <1>1, <1>2, <1>8 DEF Inv, PagesArePast, Page
    <2>2. ASSUME NEW t \in Snapshots, page[h].open
          PROVE  CopyIsPast(page[h].item[t], item'[q][t]) /\ item'[q][t].position = item[q][t].position
        <3>1. CopyIsPast(page[h].item[t], item[q][t])
            BY <2>1, <2>2 DEF PageIsPast
        <3>2. CASE q = p /\ t = s
            <4>1. page[h].item[s].revision \in Nat /\ page[h].item[s].revision <= row.revision
                BY <1>2, <3>1, <3>2 DEF Page, Copy, CopyIsPast
            <4> QED
                BY <1>12, <3>2, <4>1 DEF CopyIsPast
        <3>3. CASE q # p \/ t # s
            <4>1. item'[q][t] = item[q][t]
                BY <1>7, <2>1, <3>3
            <4> QED
                BY <3>1, <4>1
        <3> QED
            BY <3>2, <3>3
    <2> HIDE DEF q
    <2> QED
        BY <2>1, <2>2 DEF PageIsPast, q
<1>14. PageIsPast(g)'
    <2>1. PageIsPast(g)
        BY DEF Inv, PagesArePast
    <2>2. ASSUME NEW t \in Snapshots
          PROVE  /\ CopyIsPast(page'[g].item[t], item'[p][t])
                 /\ item'[p][t].position = item[p][t].position
                 /\ page'[g].item[t].position = page[g].item[t].position
        <3>1. CopyIsPast(page[g].item[t], item[p][t])
            BY <1>1, <2>1 DEF PageIsPast
        <3>2. CASE t = s
            BY <1>6, <1>7, <1>8, <1>12, <3>2 DEF CopyIsPast
        <3>3. CASE t # s
            BY <1>2, <1>7, <1>8, <3>1, <3>3
        <3> QED
            BY <3>2, <3>3
    <2> HIDE DEF p
    <2> QED
        BY <1>1, <1>8, <2>1, <2>2 DEF PageIsPast, p
<1> QED
    BY <1>9, <1>10, <1>11, <1>13, <1>14 DEF Inv, PagesArePast

LEMMA ArrangeKeeps ==
    ASSUME Inv, NEW g \in Pages, NEW to \in Orders, Arrange(g, to)
    PROVE  Inv'
<1> DEFINE p == page[g].package
           rows == [s \in Snapshots |-> [item[p][s] EXCEPT !.position = to[s]]]
           copies == [s \in Snapshots |-> [page[g].item[s] EXCEPT !.position = to[s]]]
           shown == [page[g] EXCEPT !.revision = page[g].revision + 1, !.item = copies]
           pack == [package[p] EXCEPT !.revision = package[p].revision + 1, !.editor = g]
<1>1. /\ p \in Packages /\ item \in Items /\ page \in [Pages -> Page]
      /\ package \in [Packages -> PackageRow] /\ to \in [Snapshots -> Snapshots]
    BY DEF Inv, TypeOK, Items, Page, Orders
<1>2. /\ page[g].open /\ package[p].revision = page[g].revision /\ worker' = worker
      /\ item' = [item EXCEPT ![p] = rows]
    BY DEF Arrange
<1>3. package' = [package EXCEPT ![p] = pack]
    BY <1>1 DEF Arrange, PackageRow
<1>4. page' = [page EXCEPT ![g] = shown]
    BY <1>1 DEF Arrange, Page
<1>5. \A s \in Snapshots : item[p][s] \in ItemRow /\ page[g].item[s] \in Copy
    BY <1>1 DEF Items, Page
<1>6. \A s \in Snapshots :
        /\ rows[s] \in ItemRow /\ rows[s].position = to[s]
        /\ rows[s].revision = item[p][s].revision /\ rows[s].overrides = item[p][s].overrides
        /\ rows[s].generated = item[p][s].generated
        /\ rows[s].reviewed = item[p][s].reviewed /\ rows[s].approved = item[p][s].approved
    BY <1>1, <1>5 DEF ItemRow
<1>7. \A s \in Snapshots : Content(rows[s]) = Content(item[p][s])
    BY <1>6, SameContent
<1>8. \A s \in Snapshots :
        /\ copies[s] \in Copy /\ copies[s].position = to[s]
        /\ copies[s].revision = page[g].item[s].revision
        /\ copies[s].content = page[g].item[s].content
    BY <1>1, <1>5 DEF Copy
<1>9. /\ pack \in PackageRow /\ pack.created = package[p].created
      /\ pack.revision = package[p].revision + 1 /\ package[p].revision \in Nat
    <2>1. package[p] \in PackageRow /\ g \in Pages \cup {NoPage}
        BY <1>1
    <2>2. package[p].revision \in Nat /\ package[p].revision + 1 \in Nat
        BY <2>1 DEF PackageRow
    <2>3. \A n \in Nat :
             LET new == [package[p] EXCEPT !.revision = n, !.editor = g]
             IN  new \in PackageRow /\ new.created = package[p].created /\ new.revision = n
        BY <2>1 DEF PackageRow
    <2> QED
        BY <2>2, <2>3
<1>10. /\ shown \in Page /\ shown.open = page[g].open /\ shown.package = p
       /\ shown.revision = page[g].revision + 1 /\ shown.item = copies
    <2>1. copies \in [Snapshots -> Copy]
        BY <1>8
    <2>2. page[g] \in Page /\ page[g].revision \in Nat /\ page[g].revision + 1 \in Nat
        BY <1>1 DEF Page
    <2> HIDE DEF copies, p
    <2>3. \A n \in Nat :
             LET new == [page[g] EXCEPT !.revision = n, !.item = copies]
             IN  /\ new \in Page /\ new.open = page[g].open /\ new.package = page[g].package
                 /\ new.revision = n /\ new.item = copies
        BY <2>1, <2>2 DEF Page
    <2> QED
        BY <2>2, <2>3 DEF p
<1>11. rows \in [Snapshots -> ItemRow]
    BY <1>6
<1> HIDE DEF rows, copies, shown, pack
<1>12. /\ item' \in Items /\ item'[p] = rows /\ \A q \in Packages \ {p} : item'[q] = item[q]
    BY <1>1, <1>2, <1>11 DEF Items
<1>13. /\ package' \in [Packages -> PackageRow] /\ package'[p] = pack
       /\ \A q \in Packages \ {p} : package'[q] = package[q]
    BY <1>1, <1>3, <1>9
<1>14. /\ page' \in [Pages -> Page] /\ page'[g] = shown
       /\ \A h \in Pages \ {g} : page'[h] = page[h]
    BY <1>1, <1>4, <1>10
<1>15. TypeOK'
    BY <1>2, <1>12, <1>13, <1>14 DEF Inv, TypeOK, Items
<1>16. NothingBefore'
    BY <1>6, <1>9, <1>12, <1>13 DEF Inv, NothingBefore
<1>17. ReviewedAsSeen'
    BY <1>6, <1>7, <1>12 DEF Inv, ReviewedAsSeen
<1>18. \A q \in Packages, s \in Snapshots :
          item'[q][s].revision = item[q][s].revision /\ Content(item'[q][s]) = Content(item[q][s])
    <2>1. ASSUME NEW q \in Packages, NEW s \in Snapshots
          PROVE  item'[q][s].revision = item[q][s].revision /\ Content(item'[q][s]) = Content(item[q][s])
        <3>1. CASE q = p
            BY <1>6, <1>7, <1>12, <3>1
        <3>2. CASE q # p
            BY <1>12, <3>2
        <3> QED
            BY <3>1, <3>2
    <2> QED
        BY <2>1
<1>19. ASSUME NEW h \in Pages \ {g} PROVE PageIsPast(h)'
    <2> DEFINE q == page[h].package
    <2>1. page'[h] = page[h] /\ PageIsPast(h) /\ q \in Packages /\ page[h].revision \in Nat
        BY <1>1, <1>14 DEF Inv, PagesArePast, Page
    <2>2. page[h].open => \A s \in Snapshots : CopyIsPast(page[h].item[s], item'[q][s])
        BY <1>18, <2>1 DEF PageIsPast, CopyIsPast
    <2>3. CASE q = p
        <3>1. page[h].open => page[h].revision <= package[p].revision /\ package[p].created
            BY <2>1, <2>3 DEF PageIsPast
        <3>2. page[h].open => page[h].revision < package'[p].revision /\ package'[p].created
            BY <1>9, <1>13, <2>1, <3>1
        <3>3. page[h].revision < package'[p].revision =>
                page[h].revision <= package'[p].revision /\ page[h].revision # package'[p].revision
            BY <1>9, <1>13, <2>1
        <3> QED
            BY <2>1, <2>2, <2>3, <3>2, <3>3 DEF PageIsPast
    <2>4. CASE q # p
        <3>1. package'[q] = package[q] /\ item'[q] = item[q]
            BY <1>12, <1>13, <2>1, <2>4
        <3> QED
            BY <2>1, <2>2, <3>1 DEF PageIsPast
    <2> QED
        BY <2>3, <2>4
<1>20. PageIsPast(g)'
    <2>1. PageIsPast(g)
        BY DEF Inv, PagesArePast
    <2>2. \A s \in Snapshots : CopyIsPast(copies[s], item'[p][s])
        BY <1>1, <1>2, <1>8, <1>18, <2>1 DEF PageIsPast, CopyIsPast
    <2>3. \A s \in Snapshots : copies[s].position = item'[p][s].position
        BY <1>6, <1>8, <1>12
    <2>4. package'[p].created /\ shown.revision = package'[p].revision /\ package'[p].revision \in Nat
        BY <1>2, <1>9, <1>10, <1>13, <2>1 DEF PageIsPast
    <2> HIDE DEF p
    <2> QED
        BY <1>10, <1>14, <2>2, <2>3, <2>4 DEF PageIsPast
<1> QED
    BY <1>15, <1>16, <1>17, <1>19, <1>20 DEF Inv, PagesArePast

LEMMA QuietActions ==
    ASSUME Inv,
           \/ \E w \in Workers : WorkerStep(w) \/ Crash(w)
           \/ \E p \in Packages, s \in Snapshots : RetryItem(p, s) \/ LeaseExpires(p, s)
    PROVE  QuietStep
<1>1. ASSUME NEW w \in Workers, CallSucceeds(w) PROVE QuietStep
    <2>1. PICK new \in [AIFields -> Texts] : Finish(w, "ready", new)
        BY <1>1 DEF CallSucceeds
    <2>2. new \in Overrides
        BY FieldsAssumption DEF Overrides
    <2> QED
        BY <2>1, <2>2, FinishIsQuiet
<1>2. ASSUME NEW w \in Workers, CallFails(w) PROVE QuietStep
    BY <1>2, BlankType, FinishIsQuiet DEF CallFails
<1>3. ASSUME NEW w \in Workers, WorkerStep(w) PROVE QuietStep
    BY <1>1, <1>2, <1>3, RecoverOnlyIsQuiet, ClaimIsQuiet DEF WorkerStep
<1> QED
    BY <1>3, CrashIsQuiet, TickIsQuiet

LEMMA StepInv == Inv /\ [Next]_vars => Inv'
<1> SUFFICES ASSUME Inv, [Next]_vars PROVE Inv'
    OBVIOUS
<1>1. CASE \/ \E w \in Workers : WorkerStep(w) \/ Crash(w)
           \/ \E p \in Packages, s \in Snapshots : RetryItem(p, s) \/ LeaseExpires(p, s)
    BY <1>1, QuietActions, QuietKeeps
<1>2. ASSUME NEW g \in Pages, PageStep(g) PROVE Inv'
    BY <1>2, OpenKeeps, SaveKeeps, ArrangeKeeps DEF PageStep
<1>3. CASE UNCHANGED vars
    <2>1. item' = item /\ package' = package /\ worker' = worker /\ page' = page
        BY <1>3 DEF vars
    <2>2. TypeOK' /\ NothingBefore' /\ ReviewedAsSeen'
        BY <2>1 DEF Inv, TypeOK, NothingBefore, ReviewedAsSeen
    <2>3. PagesArePast'
        BY <2>1 DEF Inv, PagesArePast, PageIsPast
    <2> QED
        BY <2>2, <2>3 DEF Inv
<1> QED
    BY <1>1, <1>2, <1>3, PackageKeeps DEF Next

LEMMA Invariance == Spec => []Inv
<1> QED
    BY InitInv, StepInv, PTL DEF Spec

-----------------------------------------------------------------------------
\* Every reachable state is well typed (the tables, the workers, the pages).
THEOREM TypeCorrect == Spec => []TypeOK
<1>1. Inv => TypeOK
    BY DEF Inv
<1> QED
    BY <1>1, Invariance, PTL

\* An item a teacher ticked shows what the teacher ticked, whatever generations,
\* recoveries, retries, copies and saves of other pages happen meanwhile.
THEOREM TickedAsSeen == Spec => []ReviewedAsSeen
<1>1. Inv => ReviewedAsSeen
    BY DEF Inv
<1> QED
    BY <1>1, Invariance, PTL

-----------------------------------------------------------------------------
(***************************************************************************)
(* What a step may not do.                                                 *)
(***************************************************************************)
\* A save touches one row, of the page's package, and shows the page's texts over
\* what the page showed.
LEMMA SaveMoves ==
    ASSUME Inv, NEW g \in Pages, NEW s \in Snapshots, NEW texts \in Overrides,
           NEW reviewed \in BOOLEAN, SaveItem(g, s, texts, reviewed)
    PROVE  LET p == page[g].package
           IN  /\ p \in Packages /\ page[g].item[s].content = Content(item[p][s])
               /\ item'[p][s].generated = item[p][s].generated
               /\ item'[p][s].status = item[p][s].status
               /\ item'[p][s].position = item[p][s].position
               /\ item'[p][s].editor = g
               /\ \A q \in Packages, t \in Snapshots : q # p \/ t # s => item'[q][t] = item[q][t]
<1> DEFINE p == page[g].package
           seen == page[g].item[s]
           saved == SavedItem(item[p][s], g, texts, reviewed, seen.content)
<1>1. /\ page[g].open /\ item[p][s].revision = seen.revision
      /\ item' = [item EXCEPT ![p][s] = saved]
    BY DEF SaveItem
<1>2. p \in Packages /\ item \in Items /\ item[p][s] \in ItemRow /\ seen.content \in Contents
    BY DEF Inv, TypeOK, Items, Page, Copy
<1>3. seen.content = Content(item[p][s])
    BY <1>1 DEF Inv, PagesArePast, PageIsPast, CopyIsPast
<1>4. /\ saved \in ItemRow /\ saved.generated = item[p][s].generated
      /\ saved.status = item[p][s].status /\ saved.position = item[p][s].position
      /\ saved.editor = g
    BY <1>2, SavedRow
<1> HIDE DEF saved
<1> QED
    <2>1. /\ item'[p][s] = saved
          /\ \A q \in Packages, t \in Snapshots : q # p \/ t # s => item'[q][t] = item[q][t]
        BY <1>1, <1>2 DEF Items
    <2> HIDE DEF p
    <2> QED
        BY <1>2, <1>3, <1>4, <2>1 DEF p

\* Arranging touches positions only, from a page that showed the present ones.
LEMMA ArrangeMoves ==
    ASSUME Inv, NEW g \in Pages, NEW to \in Orders, Arrange(g, to)
    PROVE  LET p == page[g].package
           IN  /\ p \in Packages /\ package'[p].editor = g
               /\ \A s \in Snapshots : page[g].item[s].position = item[p][s].position
               /\ \A q \in Packages, s \in Snapshots :
                     /\ item'[q][s].overrides = item[q][s].overrides
                     /\ item'[q][s].generated = item[q][s].generated
                     /\ item'[q][s].status = item[q][s].status
                     /\ q # p => item'[q][s].position = item[q][s].position
<1> DEFINE p == page[g].package
           rows == [s \in Snapshots |-> [item[p][s] EXCEPT !.position = to[s]]]
<1>1. /\ p \in Packages /\ item \in Items /\ package \in [Packages -> PackageRow]
      /\ to \in [Snapshots -> Snapshots]
    BY DEF Inv, TypeOK, Items, Page, Orders
<1>2. /\ page[g].open /\ package[p].revision = page[g].revision
      /\ item' = [item EXCEPT ![p] = rows]
    BY DEF Arrange
<1>3. package'[p].editor = g
    BY <1>1 DEF Arrange, PackageRow
<1>4. \A s \in Snapshots : page[g].item[s].position = item[p][s].position
    BY <1>2 DEF Inv, PagesArePast, PageIsPast
<1>5. \A s \in Snapshots : item[p][s] \in ItemRow
    BY <1>1 DEF Items
<1>6. \A s \in Snapshots : /\ rows[s].overrides = item[p][s].overrides
                           /\ rows[s].generated = item[p][s].generated
                           /\ rows[s].status = item[p][s].status
    BY <1>1, <1>5 DEF ItemRow
<1> HIDE DEF rows
<1>7. item'[p] = rows /\ \A q \in Packages \ {p} : item'[q] = item[q]
    BY <1>1, <1>2 DEF Items
<1>8. ASSUME NEW q \in Packages, NEW s \in Snapshots
      PROVE  /\ item'[q][s].overrides = item[q][s].overrides
             /\ item'[q][s].generated = item[q][s].generated
             /\ item'[q][s].status = item[q][s].status
             /\ q # p => item'[q][s].position = item[q][s].position
    <2>1. CASE q = p
        BY <1>6, <1>7, <2>1
    <2>2. CASE q # p
        BY <1>7, <2>2
    <2> QED
        BY <2>1, <2>2
<1> QED
    BY <1>1, <1>3, <1>4, <1>8

\* A new package leaves those there are alone.
LEMMA StoreMoves ==
    ASSUME Inv, NEW p \in Packages, PackageStep(p)
    PROVE  ~package[p].created /\ \A q \in Packages \ {p} : item'[q] = item[q]
<1>1. ~package[p].created /\ \E rows : item' = [item EXCEPT ![p] = rows]
    BY DEF PackageStep, Create, Fork, NextPackage, StorePackage
<1> QED
    BY <1>1 DEF Inv, TypeOK

\* Where a teacher has written, the rest of a row does not show.
LEMMA WrittenShows ==
    ASSUME NEW old, NEW new, new.overrides = old.overrides, NEW f \in DOMAIN old.overrides
    PROVE  Content(new)[f] = Content(old)[f]
<1>1. Content(old)[f] = old.overrides[f]
    BY DEF Content, Over
<1>2. Content(new)[f] = new.overrides[f]
    BY DEF Content, Over
<1> QED
    BY <1>1, <1>2

\* A teacher's words and order give way only to a save, or an arrangement, from a
\* page that showed them: no worker, retry, copy or stale page replaces them.
THEOREM WordsAreKept == Spec => NothingIsLost
<1> DEFINE Words ==
             \A p \in Packages, s \in Snapshots : \A f \in DOMAIN item[p][s].overrides :
                 Content(item'[p][s])[f] # Content(item[p][s])[f] =>
                     LET seen == page[item'[p][s].editor]
                     IN  /\ item'[p][s].status = item[p][s].status
                         /\ seen.package = p /\ seen.item[s].content = Content(item[p][s])
           Places ==
             \A p \in CreatedPackages : \A s \in Snapshots :
                 item'[p][s].position # item[p][s].position =>
                     LET seen == page[package'[p].editor]
                     IN  seen.package = p /\ \A t \in Snapshots : seen.item[t].position = item[p][t].position
<1>1. ASSUME Inv, [Next]_vars PROVE [Words /\ Places]_vars
    <2>0. CASE UNCHANGED vars
        BY <2>0
    <2>1. ASSUME \A p \in Packages, s \in Snapshots :
                    /\ item'[p][s].overrides = item[p][s].overrides
                    /\ item'[p][s].position = item[p][s].position
          PROVE  Words /\ Places
        <3>1. Words
            BY <2>1, WrittenShows
        <3>2. Places
            BY <2>1 DEF CreatedPackages
        <3> QED
            BY <3>1, <3>2
    <2>2. CASE \/ \E w \in Workers : WorkerStep(w) \/ Crash(w)
               \/ \E p \in Packages, s \in Snapshots : RetryItem(p, s) \/ LeaseExpires(p, s)
        <3>1. QuietStep
            BY <1>1, <2>2, QuietActions
        <3> QED
            BY <2>1, <3>1 DEF QuietStep, RowMoves
    <2>3. ASSUME NEW p \in Packages, PackageStep(p) PROVE Words /\ Places
        <3>1. ~package[p].created /\ \A q \in Packages \ {p} : item'[q] = item[q]
            BY <1>1, <2>3, StoreMoves
        <3>2. \A s \in Snapshots : DOMAIN item[p][s].overrides = {}
            BY <1>1, <3>1 DEF Inv, NothingBefore
        <3>3. Words
            BY <3>1, <3>2
        <3>4. Places
            BY <3>1 DEF CreatedPackages
        <3> QED
            BY <3>3, <3>4
    <2>4. ASSUME NEW g \in Pages, NEW p \in Packages, OpenPage(g, p) PROVE Words /\ Places
        BY <2>1, <2>4 DEF OpenPage
    <2>5. ASSUME NEW g \in Pages, NEW s \in Snapshots, NEW texts \in Overrides,
                 NEW reviewed \in BOOLEAN, SaveItem(g, s, texts, reviewed)
          PROVE  Words /\ Places
        <3> DEFINE p == page[g].package
        <3>1. /\ p \in Packages /\ page[g].item[s].content = Content(item[p][s])
              /\ item'[p][s].status = item[p][s].status
              /\ item'[p][s].position = item[p][s].position
              /\ item'[p][s].editor = g
              /\ \A q \in Packages, t \in Snapshots : q # p \/ t # s => item'[q][t] = item[q][t]
            BY <1>1, <2>5, SaveMoves
        <3>2. ASSUME NEW q \in Packages, NEW t \in Snapshots
              PROVE  /\ item'[q][t].position = item[q][t].position
                     /\ item'[q][t] = item[q][t] \/ (q = p /\ t = s)
            BY <3>1
        <3>3. Words
            BY <3>1, <3>2
        <3>4. Places
            BY <3>2 DEF CreatedPackages
        <3> QED
            BY <3>3, <3>4
    <2>6. ASSUME NEW g \in Pages, NEW to \in Orders, Arrange(g, to) PROVE Words /\ Places
        <3> DEFINE p == page[g].package
        <3>1. /\ p \in Packages /\ package'[p].editor = g
              /\ \A s \in Snapshots : page[g].item[s].position = item[p][s].position
              /\ \A q \in Packages, s \in Snapshots :
                    /\ item'[q][s].overrides = item[q][s].overrides
                    /\ q # p => item'[q][s].position = item[q][s].position
            BY <1>1, <2>6, ArrangeMoves
        <3>2. Words
            BY <3>1, WrittenShows
        <3>3. Places
            BY <3>1 DEF CreatedPackages
        <3> QED
            BY <3>2, <3>3
    <2>7. ASSUME NEW g \in Pages, PageStep(g) PROVE Words /\ Places
        BY <2>4, <2>5, <2>6, <2>7 DEF PageStep
    <2> QED
        BY <1>1, <2>0, <2>2, <2>3, <2>7 DEF Next
<1> QED
    BY <1>1, Invariance, PTL DEF Spec, NothingIsLost

\* A worker that was outrun by its lease changes no text and no outcome.
THEOREM LateRunsFenced == Spec => LateRunsAreFenced
<1> DEFINE Fenced(p, s) ==
             LET old == item[p][s]
                 new == item'[p][s]
             IN  (new.generated # old.generated
                     \/ (new.status # old.status /\ new.status \in {"ready", "failed"})) =>
                 /\ old.status = "running"
                 /\ \/ \E w \in Workers : /\ worker[w] # worker'[w] /\ worker[w].token = old.lease
                                          /\ worker[w].package = p /\ worker[w].snapshot = s
                    \/ old.expired /\ old.attempts >= MaxAttempts /\ new.generated = old.generated
<1>1. ASSUME Inv, [Next]_vars PROVE [\A p \in CreatedPackages, s \in Snapshots : Fenced(p, s)]_vars
    <2>0. CASE UNCHANGED vars
        BY <2>0
    <2>t. item \in Items /\ \A p \in Packages, s \in Snapshots : item[p][s] \in ItemRow
        BY <1>1 DEF Inv, TypeOK, Items
    <2>c. CreatedPackages \subseteq Packages
        BY DEF CreatedPackages
    <2>1. ASSUME NEW p \in Packages, NEW s \in Snapshots,
                 item'[p][s].generated = item[p][s].generated,
                 item'[p][s].status = item[p][s].status \/ item'[p][s].status \notin {"ready", "failed"}
          PROVE  Fenced(p, s)
        BY <2>1
    <2>2. ASSUME NEW p \in Packages, NEW s \in Snapshots, item'[p][s] = Recovered(item[p][s])
          PROVE  Fenced(p, s)
        BY <2>t, <2>2, RecoveredRow
    <2>3. ASSUME NEW w \in Workers, RecoverOnly(w) PROVE \A p \in Packages, s \in Snapshots : Fenced(p, s)
        <3>1. \A p \in Packages, s \in Snapshots : item'[p][s] = Recovered(item[p][s])
            BY <2>3, <2>t, RecoveredRows DEF RecoverOnly
        <3> QED
            BY <2>2, <3>1
    <2>4. ASSUME NEW w \in Workers, NEW p \in Packages, NEW s \in Snapshots, NEW token \in Tokens,
                 ClaimItem(w, p, s, token)
          PROVE  \A q \in Packages, t \in Snapshots : Fenced(q, t)
        <3>1. /\ RecoveredItems \in Items
              /\ \A q \in Packages, t \in Snapshots : RecoveredItems[q][t] = Recovered(item[q][t])
            BY <2>t, RecoveredRows
        <3>2. item' = [RecoveredItems EXCEPT ![p][s] = Claimed(RecoveredItems[p][s], token)]
            BY <2>4 DEF ClaimItem
        <3>3. /\ item'[p][s] = Claimed(Recovered(item[p][s]), token)
              /\ \A q \in Packages, t \in Snapshots : q # p \/ t # s => item'[q][t] = Recovered(item[q][t])
            BY <3>1, <3>2 DEF Items
        <3>4. item'[p][s].generated = item[p][s].generated /\ item'[p][s].status = "running"
            <4>1. Recovered(item[p][s]) \in ItemRow /\ Recovered(item[p][s]).generated = item[p][s].generated
                BY <2>t, RecoveredRow
            <4> QED
                BY <3>3, <4>1, ClaimedRow
        <3>5. Fenced(p, s)
            BY <2>1, <3>4
        <3> QED
            BY <2>2, <3>3, <3>5
    <2>5. ASSUME NEW w \in Workers, NEW status, NEW new, Finish(w, status, new)
          PROVE  \A q \in Packages, t \in Snapshots : Fenced(q, t)
        <3> DEFINE p == worker[w].package
                   s == worker[w].snapshot
        <3>1. p \in Packages /\ s \in Snapshots /\ worker \in [Workers -> Run] /\ worker[w].calling
            BY <1>1, <2>5 DEF Inv, TypeOK, Run, Finish
        <3>2. worker'[w] # worker[w]
            <4>1. worker'[w] = Idle
                BY <2>5, <3>1 DEF Finish
            <4> QED
                BY <3>1, <4>1 DEF Idle
        <3>3. CASE item' = item
            BY <2>1, <3>3
        <3>4. CASE item' # item
            <4>1. /\ item[p][s].status = "running" /\ item[p][s].lease = worker[w].token
                  /\ item' = [item EXCEPT ![p][s] = Finished(item[p][s], status, new)]
                BY <2>5, <3>4 DEF Finish
            <4>2. \A q \in Packages, t \in Snapshots : q # p \/ t # s => item'[q][t] = item[q][t]
                BY <2>t, <4>1 DEF Items
            <4>3. Fenced(p, s)
                BY <3>1, <3>2, <4>1
            <4> QED
                BY <2>1, <4>2, <4>3
        <3> QED
            BY <3>3, <3>4
    <2>6. ASSUME NEW w \in Workers, WorkerStep(w) PROVE \A q \in Packages, t \in Snapshots : Fenced(q, t)
        BY <2>3, <2>4, <2>5, <2>6 DEF WorkerStep, CallSucceeds, CallFails
    <2>7. ASSUME NEW w \in Workers, Crash(w) PROVE \A q \in Packages, t \in Snapshots : Fenced(q, t)
        BY <2>1, <2>7 DEF Crash
    <2>8. ASSUME NEW p \in Packages, NEW s \in Snapshots, RetryItem(p, s) \/ LeaseExpires(p, s)
          PROVE  \A q \in Packages, t \in Snapshots : Fenced(q, t)
        <3>1. \A q \in Packages, t \in Snapshots :
                 /\ item'[q][t].generated = item[q][t].generated
                 /\ item'[q][t].status = item[q][t].status \/ item'[q][t].status = "queued"
            <4>1. CASE RetryItem(p, s)
                <5>1. item' = [item EXCEPT ![p][s] = [item[p][s] EXCEPT !.status = "queued", !.attempts = 0]]
                    BY <2>t, <4>1 DEF RetryItem, Items, ItemRow
                <5>2. item[p][s] \in ItemRow
                    BY <2>t
                <5> QED
                    BY <2>t, <5>1, <5>2 DEF Items, ItemRow
            <4>2. CASE LeaseExpires(p, s)
                <5>1. item' = [item EXCEPT ![p][s] = [item[p][s] EXCEPT !.expired = TRUE]]
                    BY <2>t, <4>2 DEF LeaseExpires, Items, ItemRow
                <5>2. item[p][s] \in ItemRow
                    BY <2>t
                <5> QED
                    BY <2>t, <5>1, <5>2 DEF Items, ItemRow
            <4> QED
                BY <2>8, <4>1, <4>2
        <3> QED
            BY <2>1, <3>1
    <2>9. ASSUME NEW p \in Packages, PackageStep(p) PROVE \A q \in CreatedPackages, t \in Snapshots : Fenced(q, t)
        <3>1. \A q \in CreatedPackages : item'[q] = item[q]
            BY <1>1, <2>9, StoreMoves DEF CreatedPackages
        <3> QED
            BY <2>1, <2>c, <3>1
    <2>10. ASSUME NEW g \in Pages, PageStep(g) PROVE \A q \in Packages, t \in Snapshots : Fenced(q, t)
        <3>1. ASSUME NEW p \in Packages, OpenPage(g, p) PROVE \A q \in Packages, t \in Snapshots : Fenced(q, t)
            BY <2>1, <3>1 DEF OpenPage
        <3>2. ASSUME NEW s \in Snapshots, NEW texts \in Overrides, NEW reviewed \in BOOLEAN,
                     SaveItem(g, s, texts, reviewed)
              PROVE  \A q \in Packages, t \in Snapshots : Fenced(q, t)
            <4>1. \A q \in Packages, t \in Snapshots :
                     item'[q][t].generated = item[q][t].generated /\ item'[q][t].status = item[q][t].status
                BY <1>1, <3>2, SaveMoves
            <4> QED
                BY <2>1, <4>1
        <3>3. ASSUME NEW to \in Orders, Arrange(g, to) PROVE \A q \in Packages, t \in Snapshots : Fenced(q, t)
            <4>1. \A q \in Packages, t \in Snapshots :
                     item'[q][t].generated = item[q][t].generated /\ item'[q][t].status = item[q][t].status
                BY <1>1, <3>3, ArrangeMoves
            <4> QED
                BY <2>1, <4>1
        <3> QED
            BY <2>10, <3>1, <3>2, <3>3 DEF PageStep
    <2> HIDE DEF Fenced
    <2> QED
        BY <1>1, <2>0, <2>6, <2>7, <2>8, <2>9, <2>10, <2>c DEF Next
<1> QED
    BY <1>1, Invariance, PTL DEF Spec, LateRunsAreFenced
=============================================================================
