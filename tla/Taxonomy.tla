------------------------------ MODULE Taxonomy ------------------------------
(***************************************************************************)
(* The school's tags and their published versions (taxonomy.py and the     *)
(* ontology part of repository.py).                                        *)
(*                                                                         *)
(* An administrator may install the default taxonomy at any time, and      *)
(* again: tags it brings are added, tags of the demonstration data it      *)
(* replaces are switched off and the questions that carry them are moved   *)
(* to the replacement.  Meanwhile teachers add tags, switch them on and    *)
(* off, and save the tags of a question from a page that may be older than *)
(* the last installation: no revision of the question records a merge.     *)
(***************************************************************************)
EXTENDS Naturals, FiniteSets

CONSTANTS Defaults,       \* tags of the default taxonomy
          Legacy,         \* tags of the demonstration data
          Own,            \* tags teachers may add
          ReplacedBy,     \* legacy tag -> the default tag that replaces it, one each
          Manifests,      \* the files an installation may read: default -> its record
          Abilities,      \* the tags that are abilities
          Literacies,     \* the tags that are literacies; the others are knowledge
          Questions, Pages,
          Requests,       \* confirmations sent without a page's revision
          Versions,       \* ontology versions
          DefaultVersion, \* the one the installation brings
          TagLimit        \* tags of each family a question may carry

Tags    == Defaults \cup Legacy \cup Own
NoTag   == "none"

\* Three kinds of tag apart from each other; in every file a tag without a parent is
\* of the first level.
TaxonomyAssumption ==
    /\ Defaults \cap Legacy = {} /\ Own \cap (Defaults \cup Legacy) = {} /\ NoTag \notin Tags
    /\ ReplacedBy \in [Legacy -> Defaults]
    /\ \A m \in Manifests, t \in Defaults : m[t].parent = NoTag => m[t].level = 1
    /\ Abilities \subseteq Tags /\ Literacies \subseteq Tags /\ Abilities \cap Literacies = {}
    /\ DefaultVersion \in Versions

VARIABLES version,    \* ontology version -> its status
          tag,        \* tag -> its row
          label,      \* question -> tag -> the row of question_tags
          revision,   \* question -> its tag revision
          page,       \* page -> the question and revision it shows
          request,    \* confirmation -> the tags it has checked and not yet written
          merged,     \* legacy tags switched off by an installation
          late        \* history: questions last written by a confirmation that an
                      \* installation overtook

taxVars == <<version, tag, label, revision, page, request, merged, late>>

Absent  == [status |-> "absent", parent |-> NoTag, level |-> 0]
NoPage  == [question |-> NoTag, revision |-> 0]
Idle    == [question |-> NoTag, tags |-> {}, checked |-> 0, overtaken |-> FALSE]

\* The families of tags, in the order in which a confirmation checks them.
Families == <<Tags \ (Abilities \cup Literacies), Abilities, Literacies>>

Exists(t) == tag[t].status # "absent"
Active(t) == tag[t].status = "enabled"

\* The version new rows belong to: the one that is active.
HasActiveVersion == \E v \in Versions : version[v] = "active"

TaxonomyInit ==
    /\ \E v \in Versions \ {DefaultVersion} :
          version = [x \in Versions |-> IF x = v THEN "active" ELSE "absent"]
    /\ tag = [t \in Tags |-> IF t \in Legacy
                             THEN [status |-> "enabled", parent |-> NoTag, level |-> 1]
                             ELSE Absent]
    /\ label = [q \in Questions |-> [t \in Tags |-> "none"]]
    /\ revision = [q \in Questions |-> 0]
    /\ page = [p \in Pages |-> NoPage]
    /\ request = [r \in Requests |-> Idle]
    /\ merged = {} /\ late = {}

----------------------------------------------------------------------------
(* Ontology versions.                                                      *)

CreateDraft(v) ==
    /\ version[v] = "absent" /\ v # DefaultVersion
    /\ version' = [version EXCEPT ![v] = "draft"]
    /\ UNCHANGED <<tag, label, revision, page, request, merged, late>>

SubmitForReview(v) ==
    /\ version[v] # "absent"
    /\ version' = [version EXCEPT ![v] = "review"]
    /\ UNCHANGED <<tag, label, revision, page, request, merged, late>>

\* Mutated form: the version that was active stays so.
PromotedBeside(v) == [version EXCEPT ![v] = "active"]

\* The versions after v is published: the active one makes way.
Promoted(v) ==
    [x \in Versions |-> IF x = v THEN "active"
                        ELSE IF version[x] = "active" THEN "archived" ELSE version[x]]

PublishVersion(v) ==
    /\ version[v] # "absent"
    /\ version' = Promoted(v)
    /\ UNCHANGED <<tag, label, revision, page, request, merged, late>>

----------------------------------------------------------------------------
(* Tags that teachers add and switch.                                      *)

\* A new tag, switched on or off, below its parent.
Created(t, parent) ==
    \E on \in {"enabled", "disabled"} :
        tag' = [tag EXCEPT ![t] = [status |-> on, parent |-> parent,
                   level |-> IF parent = NoTag THEN 1 ELSE tag[parent].level + 1]]

CreateKnowledge(t, parent) ==
    /\ t \notin Literacies \cup Abilities
    /\ ~Exists(t) /\ HasActiveVersion
    /\ parent # NoTag => Exists(parent) /\ parent \notin Literacies \cup Abilities
    /\ Created(t, parent)
    /\ UNCHANGED <<version, label, revision, page, request, merged, late>>

CreateAbility(t) ==
    /\ t \in Abilities
    /\ ~Exists(t) /\ HasActiveVersion
    /\ Created(t, NoTag)
    /\ UNCHANGED <<version, label, revision, page, request, merged, late>>

\* A literacy may only hang below a dimension.
IsDimension(parent) == Exists(parent) /\ parent \in Literacies /\ tag[parent].level = 1

CreateLiteracy(t, parent) ==
    /\ t \in Literacies
    /\ ~Exists(t) /\ HasActiveVersion
    /\ parent # NoTag => IsDimension(parent)
    /\ Created(t, parent)
    /\ UNCHANGED <<version, label, revision, page, request, merged, late>>

SetEnabled(t, on) ==
    /\ Exists(t)
    /\ tag' = [tag EXCEPT ![t].status = IF on THEN "enabled" ELSE "disabled"]
    /\ merged' = IF on THEN merged \ {t} ELSE merged
    /\ UNCHANGED <<version, label, revision, page, request, late>>

----------------------------------------------------------------------------
(* Installing the default taxonomy: one savepoint.                         *)

\* Every parent is in the manifest and one level above.
LevelsAgree(m) ==
    \A t \in DOMAIN m : m[t].parent # NoTag =>
        /\ m[t].parent \in DOMAIN m
        /\ m[t].level = m[m[t].parent].level + 1

\* Nobody is its own ancestor.
NoParentCycle(m) ==
    \A S \in SUBSET DOMAIN m : S # {} => \E t \in S : m[t].parent \notin S

\* Three levels of knowledge and two of literacies.
LevelsKnown(m) == \A t \in DOMAIN m : m[t].level \in 1..(IF t \in Literacies THEN 2 ELSE 3)

ValidBundle(m) == DOMAIN m = Defaults /\ LevelsAgree(m) /\ NoParentCycle(m) /\ LevelsKnown(m)

\* Rows are added where there is none; a row that exists stays as it is.
Added(m) ==
    [t \in Tags |->
        IF t \in Defaults /\ ~Exists(t)
        THEN [status |-> "enabled", parent |-> m[t].parent, level |-> m[t].level] ELSE tag[t]]

\* What the demonstration data brought is switched off.
Replaced(rows) ==
    [t \in Tags |-> IF t \in Legacy THEN [rows[t] EXCEPT !.status = "disabled"] ELSE rows[t]]

\* Mutated form: a tag that is moved is not looked for under its new name.
MovedWithoutMerging(row) ==
    [t \in Tags |-> IF t \in Legacy /\ row[t] = "on" THEN "off" ELSE row[t]]

\* The tags of a question after the merge: a replaced tag takes the name of its
\* replacement, unless the question carries that already.
Moved(row) ==
    [t \in Tags |->
        IF t \in Legacy
        THEN IF row[t] = "on" THEN IF row[ReplacedBy[t]] = "on" THEN "off" ELSE "none" ELSE row[t]
        ELSE IF \E old \in Legacy : ReplacedBy[old] = t /\ row[old] = "on" THEN "on" ELSE row[t]]

InstallDefaultTaxonomy(m, publish) ==
    /\ ValidBundle(m)
    /\ version' = IF publish THEN Promoted(DefaultVersion)
                  ELSE [version EXCEPT ![DefaultVersion] = IF @ = "absent" THEN "draft" ELSE @]
    /\ tag' = Replaced(Added(m))
    /\ label' = [q \in Questions |-> Moved(label[q])]
    /\ merged' = Legacy /\ late' = {}
    /\ request' = [r \in Requests |-> [request[r] EXCEPT !.overtaken = request[r].checked > 0]]
    /\ UNCHANGED <<revision, page>>

----------------------------------------------------------------------------
(* Tags of a question.                                                     *)

\* The tags a page lists: the row and the tag are both switched on.
Shown(q) == {t \in Tags : label[q][t] = "on" /\ Active(t)}

OpenPage(p, q) ==
    /\ page' = [page EXCEPT ![p] = [question |-> q, revision |-> revision[q]]]
    /\ UNCHANGED <<version, tag, label, revision, request, merged, late>>

\* Mutated form: the tags were checked when the page was opened.
CheckedBefore(S) == \A t \in S : Exists(t)

\* At most so many of each family, each of them switched on.
MayConfirm(S) ==
    /\ \A t \in S : Active(t)
    /\ \A n \in 1..3 : Cardinality(S \cap Families[n]) <= TagLimit

\* A teacher's choice replaces every row of the question.
Written(q, S) ==
    /\ label' = [label EXCEPT ![q] = [t \in Tags |-> IF t \in S THEN "on" ELSE "none"]]
    /\ revision' = [revision EXCEPT ![q] = @ + 1]

\* A page of the question bank saves in one transaction: what it shows is the
\* latest, the tags are checked and the rows replaced.
SaveTags(p, S) ==
    LET q == page[p].question
    IN  /\ page[p] # NoPage
        /\ page[p].revision = revision[q]
        /\ MayConfirm(S) /\ HasActiveVersion
        /\ Written(q, S)
        /\ page' = [page EXCEPT ![p] = NoPage]
        /\ late' = late \ {q}
        /\ UNCHANGED <<version, tag, request, merged>>

\* A confirmation of its own names no revision; it checks one family of its tags
\* after the other (one that fails leaves nothing) ...
CheckTags(r, q, S) ==
    LET was == request[r]
        n   == was.checked
    IN  /\ n < 3 /\ (n > 0 => q = was.question)
        /\ S \subseteq Families[n + 1]
        /\ MayConfirm(S) /\ (n = 2 => HasActiveVersion)
        /\ request' = [request EXCEPT ![r] =
              [was EXCEPT !.question = q, !.tags = was.tags \cup S, !.checked = n + 1]]
        /\ UNCHANGED <<version, tag, label, revision, page, merged, late>>

\* ... and writes them in a transaction that begins with the first row it removes.
WriteTags(r) ==
    LET q == request[r].question
    IN  /\ request[r].checked = 3
        /\ Written(q, request[r].tags)
        /\ request' = [request EXCEPT ![r] = Idle]
        /\ late' = IF request[r].overtaken THEN late \cup {q} ELSE late \ {q}
        /\ UNCHANGED <<version, tag, page, merged>>

----------------------------------------------------------------------------
Drafting   == \E v \in Versions : CreateDraft(v)
Submitting == \E v \in Versions : SubmitForReview(v)
Publishing == \E v \in Versions : PublishVersion(v)
AddingKnowledge == \E t \in Own, parent \in Tags \cup {NoTag} : CreateKnowledge(t, parent)
AddingAbility   == \E t \in Own : CreateAbility(t)
AddingLiteracy  == \E t \in Own, parent \in Tags \cup {NoTag} : CreateLiteracy(t, parent)
Switching  == \E t \in Tags, on \in BOOLEAN : SetEnabled(t, on)
Installing == \E m \in Manifests, publish \in BOOLEAN : InstallDefaultTaxonomy(m, publish)
Opening    == \E p \in Pages, q \in Questions : OpenPage(p, q)
Tagging(limit) ==
    \E p \in Pages, S \in SUBSET Tags :
        page[p] # NoPage /\ revision[page[p].question] < limit /\ SaveTags(p, S)
Checking ==
    \E r \in Requests, q \in Questions :
        request[r].checked < 3
        /\ \E S \in SUBSET Families[request[r].checked + 1] : CheckTags(r, q, S)
Writing(limit) ==
    \E r \in Requests :
        request[r].checked = 3 /\ revision[request[r].question] < limit /\ WriteTags(r)

TaxonomyNext(limit) ==
    \/ Drafting \/ Submitting \/ Publishing
    \/ AddingKnowledge \/ AddingAbility \/ AddingLiteracy \/ Switching
    \/ Installing
    \/ Opening \/ Tagging(limit) \/ Checking \/ Writing(limit)

----------------------------------------------------------------------------
(* Properties.                                                             *)

TaxonomyTypeOK ==
    /\ version \in [Versions -> {"absent", "draft", "review", "active", "archived"}]
    /\ tag \in [Tags -> [status : {"absent", "enabled", "disabled"},
                         parent : Tags \cup {NoTag}, level : Nat]]
    /\ label \in [Questions -> [Tags -> {"none", "on", "off"}]]
    /\ request \in [Requests -> [question : Questions \cup {NoTag}, tags : SUBSET Tags,
                                 checked : 0..3, overtaken : BOOLEAN]]
    /\ merged \subseteq Legacy /\ late \subseteq Questions

\* What a question is about, whatever name it has today.
Meaning(row) ==
    {t \in Defaults \cup Own : row[t] = "on"}
       \cup {ReplacedBy[t] : t \in {x \in Legacy : row[x] = "on"}}

\* An installation moves the tags of every question to their new names and loses
\* and adds none, wherever it was between two saves of a page
\* (_migrate_question_tag).
MeaningSurvives ==
    [][revision' = revision => \A q \in Questions : Meaning(label[q])' = Meaning(label[q])]_taxVars

\* No question carries a tag an installation replaced.  TLC refutes this: a
\* confirmation that checked its tags before the installation writes them after it.
ReplacedIsUnused == \A t \in merged, q \in Questions : label[q][t] # "on"

\* What holds: once an installation has switched a replaced tag off, no question
\* carries it until someone restores the tag, not even by a page opened before the
\* installation; only a confirmation it overtook brings one back, until the
\* question is tagged or the taxonomy installed again (_apply_replacement_group,
\* _assert_active_tags).
ReplacedReturnsLate ==
    \A t \in merged : ~Active(t) /\ \A q \in Questions \ late : label[q][t] # "on"

\* The tags form a forest whose levels count the ancestors, literacies two at
\* most, and at most one version of it is the school's.
OneForest ==
    /\ \A t \in Tags : Exists(t) =>
          IF tag[t].parent = NoTag THEN tag[t].level = 1
          ELSE Exists(tag[t].parent) /\ tag[t].level = tag[tag[t].parent].level + 1
    /\ \A t \in Literacies : tag[t].level <= 2
    /\ Cardinality({v \in Versions : version[v] = "active"}) <= 1
=============================================================================
