---------------------------- MODULE LearningProofs ----------------------------
(***************************************************************************)
(* What students are shown to have learned, proved for any number of       *)
(* parts, pages, days, events, goals, questions and tags: mastery is       *)
(* earned, diagnoses are honest, the graph is sound, and what teachers     *)
(* decided stays.  Each part of MCLearning has its inductive invariant,    *)
(* named in its section; the last section puts them together.              *)
(***************************************************************************)
EXTENDS MCLearning, FiniteSetTheorems, FunctionTheorems, SequenceTheorems,
        WellFoundedInduction, TLAPS

-----------------------------------------------------------------------------
(* Numbers, sets and sequences.                                             *)

\* The natural numbers below one another.
Less == {p \in Nat \X Nat : p[1] < p[2]}

LEMMA LessIsWellFounded == IsWellFoundedOn(Less, Nat)
<1>1. Less = OpToRel(<, Nat)
    BY DEF Less, OpToRel
<1> QED
    BY <1>1, NatLessThanWellFounded, Zenon

LEMMA Smallest ==
    ASSUME NEW S \in SUBSET Nat, S # {}
    PROVE  \E m \in S : \A n \in S : m <= n
<1>1. PICK x \in S : \A y \in S : ~ (<<y, x>> \in Less)
    BY LessIsWellFounded, WFMin
<1>2. ASSUME NEW y \in S PROVE x <= y
    <2>1. x \in Nat /\ y \in Nat
        OBVIOUS
    <2>2. y < x => <<y, x>> \in Less
        BY <2>1 DEF Less
    <2> QED
        BY <1>1, <2>1, <2>2
<1> QED
    BY <1>2

LEMMA Largest ==
    ASSUME NEW S \in SUBSET Nat, S # {}, NEW b \in Nat, \A n \in S : n <= b
    PROVE  \E m \in S : \A n \in S : n <= m
<1> DEFINE Below == {n \in Nat : \E s \in S : n = b - s}
<1>1. PICK x \in S : TRUE
    OBVIOUS
<1>2. b - x \in Below
    OBVIOUS
<1>3. Below \in SUBSET Nat /\ Below # {}
    BY <1>2
<1>4. PICK m \in Below : \A n \in Below : m <= n
    BY <1>3, Smallest
<1>5. PICK s \in S : m = b - s
    BY <1>4
<1>6. ASSUME NEW n \in S PROVE n <= s
    <2>1. b - n \in Below
        OBVIOUS
    <2> QED
        BY <1>4, <1>5, <2>1
<1> QED
    BY <1>6

\* What a function makes of a finite set is finite.
LEMMA FiniteImage ==
    ASSUME NEW S, IsFiniteSet(S), NEW f, DOMAIN f = S, f = [x \in S |-> f[x]]
    PROVE  IsFiniteSet({f[x] : x \in S})
<1>1. f \in Surjection(S, {f[x] : x \in S})
    BY DEF Surjection
<1> QED
    BY <1>1, FS_Surjection

LEMMA OneAtMost ==
    ASSUME NEW S, \A x, y \in S : x = y
    PROVE  Cardinality(S) <= 1
<1>1. CASE S = {}
    BY <1>1, FS_EmptySet
<1>2. CASE S # {}
  <2>1. PICK x \in S : TRUE
      BY <1>2
  <2>2. S = {x}
      BY <2>1
  <2> QED
      BY <2>2, FS_Singleton
<1> QED
    BY <1>1, <1>2

LEMMA TwoAtLeast ==
    ASSUME NEW S, IsFiniteSet(S), NEW x \in S, NEW y \in S, x # y
    PROVE  Cardinality(S) >= 2
<1>1. IsFiniteSet({x}) /\ Cardinality({x}) = 1
    BY FS_Singleton
<1>2. IsFiniteSet({x} \cup {y}) /\ Cardinality({x} \cup {y}) = 2
  <2>1. y \notin {x}
      OBVIOUS
  <2>2. IsFiniteSet({x} \cup {y}) /\ Cardinality({x} \cup {y}) = Cardinality({x}) + 1
      BY <1>1, <2>1, FS_AddElement
  <2> QED
      BY <1>1, <2>2
<1>3. {x} \cup {y} \in SUBSET S
    OBVIOUS
<1>4. Cardinality({x} \cup {y}) <= Cardinality(S) /\ Cardinality(S) \in Nat
    BY <1>3, FS_Subset, FS_CardinalityType
<1> QED
    BY <1>2, <1>4

-----------------------------------------------------------------------------
(***************************************************************************)
(* The tags. What an installation replaces is off before its installation  *)
(* ends and stays off every question, but for those that a confirmation    *)
(* it overtook writes: one that was not overtaken has checked no replaced  *)
(* tag. The levels of the tags count their ancestors.                      *)
(***************************************************************************)
\* What an installation brings it brings at once.
DefaultsTogether ==
    (\A d \in Defaults : T!Exists(d)) \/ (\A d \in Defaults : ~T!Exists(d))

\* One version at most is in use.
OneVersion == \A v, w \in Versions : version[v] = "active" /\ version[w] = "active" => v = w

TagRow == [status : {"absent", "enabled", "disabled"}, parent : T!Tags \cup {T!NoTag}, level : Nat]

\* The tags form a forest, and literacies are two levels deep.
Planted(rows, t) ==
    IF rows[t].parent = T!NoTag THEN rows[t].level = 1
    ELSE /\ rows[rows[t].parent].status # "absent"
         /\ rows[t].level = rows[rows[t].parent].level + 1

Forest == \A t \in T!Tags : T!Exists(t) => Planted(tag, t)

Shallow == \A t \in Literacies : tag[t].level <= 2

TagsTyped ==
    /\ version \in [Versions -> {"absent", "draft", "review", "active", "archived"}]
    /\ tag \in [T!Tags -> TagRow]
    /\ label \in [Questions -> [T!Tags -> {"none", "on", "off"}]]
    /\ merged \subseteq Legacy
    /\ revision \in [Questions -> Nat]
    /\ form \in [Forms -> {T!NoPage} \cup [question : Questions, revision : Nat]]

\* A confirmation under way is of a question.
RequestRow == [question : Questions \cup {T!NoTag}, tags : SUBSET T!Tags, checked : 0..3,
               overtaken : BOOLEAN]

RequestsFit ==
    /\ request \in [Requests -> RequestRow] /\ late \subseteq Questions
    /\ \A r \in Requests : IF request[r].checked > 0 THEN request[r].question \in Questions
                           ELSE request[r].tags = {}

\* What a confirmation has checked since the last installation was not replaced.
Unspoiled == \A r \in Requests : request[r].overtaken \/ request[r].tags \cap merged = {}

\* The tags of the demonstration data are switched off, never removed.
LegacyStay == \A t \in Legacy : tag[t].status # "absent"

TagsInv ==
    /\ TagsTyped /\ OneVersion /\ LegacyStay /\ DefaultsTogether
    /\ Forest /\ Shallow /\ RequestsFit /\ Unspoiled /\ T!ReplacedReturnsLate

-----------------------------------------------------------------------------
LEMMA TagsAssumed ==
    /\ Defaults \cap Legacy = {} /\ Own \cap (Defaults \cup Legacy) = {}
    /\ T!NoTag \notin T!Tags
    /\ ReplacedBy \in [Legacy -> Defaults]
    /\ \A m \in Manifests, t \in Defaults : m[t].parent = T!NoTag => m[t].level = 1
    /\ Abilities \subseteq T!Tags /\ Literacies \subseteq T!Tags /\ DefaultVersion \in Versions
BY LearningAssumption DEF LearningAssumption, T!TaxonomyAssumption

LEMMA OvertakenRow ==
    ASSUME NEW row \in RequestRow, NEW over \in BOOLEAN
    PROVE  LET new == [row EXCEPT !.overtaken = over]
           IN  /\ new \in RequestRow /\ new.checked = row.checked
               /\ new.question = row.question /\ new.tags = row.tags
               /\ new.overtaken = over
BY DEF RequestRow

LEMMA KindsOfTag ==
    T!Tags = Defaults \cup Legacy \cup Own
BY DEF T!Tags

LEMMA TagsStart == T!TaxonomyInit => TagsInv
<1> SUFFICES ASSUME T!TaxonomyInit PROVE TagsInv
    OBVIOUS
<1> USE DEF T!TaxonomyInit
<1>1. TagsTyped
  <2>1. T!Absent \in TagRow
      BY DEF T!Absent, TagRow
  <2>2. [status |-> "enabled", parent |-> T!NoTag, level |-> 1] \in TagRow
      BY DEF TagRow
  <2>3. tag \in [T!Tags -> TagRow]
      BY <2>1, <2>2
  <2> QED
      BY <2>3 DEF TagsTyped
<1>2. OneVersion
    BY DEF OneVersion
<1>3. DefaultsTogether
    BY TagsAssumed, KindsOfTag DEF DefaultsTogether, T!Exists, T!Absent
<1>4. Forest
    BY DEF Forest, Planted, T!Exists, T!Absent
<1>5. Shallow
    BY TagsAssumed DEF Shallow, T!Absent
<1>6. T!ReplacedReturnsLate
    BY DEF T!ReplacedReturnsLate
<1>7. LegacyStay
    BY KindsOfTag DEF LegacyStay
<1>8. RequestsFit /\ Unspoiled
    BY DEF RequestsFit, RequestRow, Unspoiled, T!Idle
<1> QED
    BY <1>1, <1>2, <1>3, <1>4, <1>5, <1>6, <1>7, <1>8 DEF TagsInv

LEMMA TagsRest == TagsInv /\ UNCHANGED tagVars => TagsInv'
<1> SUFFICES ASSUME TagsInv, UNCHANGED tagVars PROVE TagsInv'
    OBVIOUS
<1>1. /\ version' = version /\ tag' = tag /\ label' = label /\ merged' = merged
      /\ revision' = revision /\ form' = form /\ request' = request /\ late' = late
    BY DEF tagVars
<1> QED
    BY <1>1 DEF TagsInv, TagsTyped, RequestsFit, Unspoiled, OneVersion, DefaultsTogether, Forest, Planted, Shallow,
                T!ReplacedReturnsLate, LegacyStay, T!Exists, T!Active

\* Publishing leaves one version in use.
LEMMA OnePromoted ==
    ASSUME TagsTyped, OneVersion, NEW v \in Versions
    PROVE  /\ T!Promoted(v) \in [Versions -> {"absent", "draft", "review", "active", "archived"}]
           /\ \A x \in Versions : T!Promoted(v)[x] = "active" => x = v
BY DEF T!Promoted, TagsTyped

LEMMA VersionSteps ==
    ASSUME TagsInv, T!Drafting \/ T!Submitting \/ T!Publishing
    PROVE  TagsInv'
<1>1. /\ tag' = tag /\ label' = label /\ merged' = merged
      /\ revision' = revision /\ form' = form /\ request' = request /\ late' = late
    BY DEF T!Drafting, T!Submitting, T!Publishing, T!CreateDraft, T!SubmitForReview,
           T!PublishVersion
<1>2. PICK v \in Versions : T!CreateDraft(v) \/ T!SubmitForReview(v) \/ T!PublishVersion(v)
    BY DEF T!Drafting, T!Submitting, T!Publishing
<1>3. /\ version' \in [Versions -> {"absent", "draft", "review", "active", "archived"}]
      /\ OneVersion'
  <2>1. CASE T!PublishVersion(v)
      BY <2>1, OnePromoted DEF T!PublishVersion, TagsInv, OneVersion
  <2>2. CASE T!CreateDraft(v) \/ T!SubmitForReview(v)
      BY <2>2 DEF T!CreateDraft, T!SubmitForReview, TagsInv, TagsTyped, OneVersion
  <2> QED
      BY <1>2, <2>1, <2>2
<1> QED
    BY <1>1, <1>3 DEF TagsInv, TagsTyped, DefaultsTogether, Forest, Planted, Shallow,
                      RequestsFit, Unspoiled,
                      T!ReplacedReturnsLate, LegacyStay, T!Exists, T!Active

\* A new tag hangs below one that exists.
LEMMA CreateStep ==
    ASSUME TagsInv, NEW t \in Own, NEW parent \in T!Tags \cup {T!NoTag},
           ~T!Exists(t), parent # T!NoTag => T!Exists(parent),
           t \in Literacies => parent = T!NoTag \/ tag[parent].level = 1,
           T!Created(t, parent),
           UNCHANGED <<version, label, revision, form, request, merged, late>>
    PROVE  TagsInv'
<1> DEFINE level == IF parent = T!NoTag THEN 1 ELSE tag[parent].level + 1
<1>1. PICK on \in {"enabled", "disabled"} :
         tag' = [tag EXCEPT ![t] = [status |-> on, parent |-> parent, level |-> level]]
    BY DEF T!Created
<1>2. t \in T!Tags /\ t \notin Legacy /\ t \notin Defaults
    BY TagsAssumed, KindsOfTag
<1>3. tag \in [T!Tags -> TagRow] /\ level \in Nat
    BY DEF TagsInv, TagsTyped, TagRow
<1>4. level = 1 \/ (parent # T!NoTag /\ level = tag[parent].level + 1)
    OBVIOUS
<1>5. t \in Literacies => level <= 2
    OBVIOUS
<1>6. parent = T!NoTag => level = 1
    OBVIOUS
<1>7. parent # T!NoTag => level = tag[parent].level + 1
    OBVIOUS
<1> HIDE DEF level
<1>8. [status |-> on, parent |-> parent, level |-> level] \in TagRow
    BY <1>3 DEF TagRow
<1>9. tag' \in [T!Tags -> TagRow]
    BY <1>1, <1>3, <1>8
<1>10. /\ tag'[t] = [status |-> on, parent |-> parent, level |-> level]
       /\ \A u \in T!Tags : u # t => tag'[u] = tag[u]
    BY <1>1, <1>2, <1>3
<1>11. TagsTyped'
    BY <1>9 DEF TagsInv, TagsTyped
<1>12. DefaultsTogether'
    BY <1>2, <1>10, KindsOfTag DEF TagsInv, DefaultsTogether, T!Exists
<1>13. Forest'
  <2> SUFFICES ASSUME NEW u \in T!Tags, tag'[u].status # "absent" PROVE Planted(tag', u)
      BY DEF Forest, T!Exists
  <2>1. CASE u = t
    <3>1. tag'[u].parent = parent /\ tag'[u].level = level
        BY <2>1, <1>10
    <3>2. CASE parent = T!NoTag
        BY <3>1, <3>2, <1>6 DEF Planted
    <3>3. CASE parent # T!NoTag
      <4>1. parent \in T!Tags /\ parent # t /\ tag[parent].status # "absent"
          BY <3>3 DEF T!Exists
      <4>2. tag'[parent] = tag[parent]
          BY <4>1, <1>10
      <4> QED
          BY <3>1, <3>3, <4>1, <4>2, <1>7 DEF Planted
    <3> QED
        BY <3>2, <3>3
  <2>2. CASE u # t
    <3>1. tag'[u] = tag[u] /\ Planted(tag, u)
        BY <2>2, <1>10 DEF TagsInv, Forest, T!Exists
    <3>2. tag[u].parent # T!NoTag => tag[u].parent \in T!Tags /\ tag[u].parent # t
        BY <3>1, <1>3 DEF Planted, TagRow, T!Exists
    <3> QED
        BY <3>1, <3>2, <1>10 DEF Planted
  <2> QED
      BY <2>1, <2>2
<1>14. Shallow'
    BY <1>5, <1>10, TagsAssumed DEF TagsInv, Shallow
<1>15. T!ReplacedReturnsLate'
    BY <1>2, <1>10, TagsAssumed, KindsOfTag DEF TagsInv, TagsTyped, T!ReplacedReturnsLate, T!Active
<1>16. LegacyStay'
    BY <1>2, <1>10, KindsOfTag DEF TagsInv, LegacyStay
<1>17. RequestsFit' /\ Unspoiled'
    BY DEF TagsInv, RequestsFit, Unspoiled
<1> QED
    BY <1>11, <1>12, <1>13, <1>14, <1>15, <1>16, <1>17 DEF TagsInv, OneVersion

LEMMA CreateSteps ==
    ASSUME TagsInv, T!AddingKnowledge \/ T!AddingAbility \/ T!AddingLiteracy
    PROVE  TagsInv'
<1>1. CASE T!AddingKnowledge
  <2>1. PICK t \in Own, parent \in T!Tags \cup {T!NoTag} : T!CreateKnowledge(t, parent)
      BY <1>1 DEF T!AddingKnowledge
  <2> QED
      BY <2>1, CreateStep DEF T!CreateKnowledge
<1>2. CASE T!AddingAbility
  <2>1. PICK t \in Own : T!CreateAbility(t)
      BY <1>2 DEF T!AddingAbility
  <2> QED
      BY <2>1, CreateStep DEF T!CreateAbility
<1>3. CASE T!AddingLiteracy
  <2>1. PICK t \in Own, parent \in T!Tags \cup {T!NoTag} : T!CreateLiteracy(t, parent)
      BY <1>3 DEF T!AddingLiteracy
  <2> QED
      BY <2>1, CreateStep DEF T!CreateLiteracy, T!IsDimension
<1> QED
    BY <1>1, <1>2, <1>3

LEMMA SwitchStep ==
    ASSUME TagsInv, T!Switching PROVE TagsInv'
<1>1. PICK t \in T!Tags, on \in BOOLEAN : T!SetEnabled(t, on)
    BY DEF T!Switching
<1> DEFINE s == IF on THEN "enabled" ELSE "disabled"
<1>2. /\ tag' = [tag EXCEPT ![t].status = s] /\ tag[t].status # "absent"
      /\ merged' = IF on THEN merged \ {t} ELSE merged
      /\ version' = version /\ label' = label /\ revision' = revision /\ form' = form
      /\ request' = request /\ late' = late
    BY <1>1 DEF T!SetEnabled, T!Exists
<1>3. s \in {"enabled", "disabled"} /\ (~on => s = "disabled")
    OBVIOUS
<1> HIDE DEF s
<1>4. tag \in [T!Tags -> TagRow]
    BY DEF TagsInv, TagsTyped
<1>5. tag' \in [T!Tags -> TagRow]
    BY <1>2, <1>3, <1>4 DEF TagRow
<1>6. /\ tag'[t].status = s
      /\ \A u \in T!Tags : /\ tag'[u].parent = tag[u].parent /\ tag'[u].level = tag[u].level
                           /\ tag'[u].status = "absent" <=> tag[u].status = "absent"
      /\ \A u \in T!Tags : u # t => tag'[u] = tag[u]
    BY <1>2, <1>3, <1>4 DEF TagRow
<1>7. Forest'
  <2> SUFFICES ASSUME NEW u \in T!Tags, tag'[u].status # "absent" PROVE Planted(tag', u)
      BY DEF Forest, T!Exists
  <2>1. Planted(tag, u)
      BY <1>6 DEF TagsInv, Forest, T!Exists
  <2>2. tag[u].parent # T!NoTag => tag[u].parent \in T!Tags
      BY <1>4 DEF TagRow
  <2> QED
      BY <1>6, <2>1, <2>2 DEF Planted
<1>8. T!ReplacedReturnsLate'
  <2>1. merged' \subseteq merged /\ (on => t \notin merged')
      BY <1>2
  <2>2. merged \subseteq T!Tags
      BY KindsOfTag DEF TagsInv, TagsTyped
  <2> QED
      BY <1>2, <1>3, <1>6, <2>1, <2>2 DEF TagsInv, T!ReplacedReturnsLate, T!Active
<1>9. DefaultsTogether' /\ Shallow' /\ LegacyStay'
    BY <1>6, TagsAssumed, KindsOfTag
    DEF TagsInv, DefaultsTogether, Shallow, LegacyStay, T!Exists
<1>10. TagsTyped' /\ OneVersion'
    BY <1>2, <1>5 DEF TagsInv, TagsTyped, OneVersion
<1>11. RequestsFit' /\ Unspoiled'
  <2>1. merged' \subseteq merged
      BY <1>2
  <2> QED
      BY <1>2, <2>1 DEF TagsInv, RequestsFit, Unspoiled
<1> QED
    BY <1>7, <1>8, <1>9, <1>10, <1>11 DEF TagsInv

LEMMA InstallStep ==
    ASSUME TagsInv, T!Installing PROVE TagsInv'
<1>1. PICK m \in Manifests, publish \in BOOLEAN : T!InstallDefaultTaxonomy(m, publish)
    BY DEF T!Installing
<1>2. /\ DOMAIN m = Defaults
      /\ T!LevelsAgree(m) /\ T!LevelsKnown(m)
      /\ tag' = T!Replaced(T!Added(m)) /\ merged' = Legacy /\ late' = {}
      /\ request' = [r \in Requests |-> [request[r] EXCEPT !.overtaken = request[r].checked > 0]]
      /\ label' = [q \in Questions |-> T!Moved(label[q])]
      /\ revision' = revision /\ form' = form
    BY <1>1 DEF T!InstallDefaultTaxonomy, T!ValidBundle
<1>3. tag \in [T!Tags -> TagRow]
    BY DEF TagsInv, TagsTyped
<1>4. /\ \A u \in Defaults :
            /\ tag[u].status # "absent" => tag'[u] = tag[u]
            /\ tag[u].status = "absent" =>
                 tag'[u] = [status |-> "enabled", parent |-> m[u].parent, level |-> m[u].level]
      /\ \A u \in Legacy : tag'[u] = [tag[u] EXCEPT !.status = "disabled"]
      /\ \A u \in Own : tag'[u] = tag[u]
      /\ DOMAIN tag' = T!Tags
    BY <1>2, TagsAssumed, KindsOfTag DEF T!Replaced, T!Added, T!Exists
<1>5. \A u \in Defaults : tag[u].status = "absent" =>
         tag'[u].status = "enabled" /\ tag'[u].parent = m[u].parent /\ tag'[u].level = m[u].level
  <2> SUFFICES ASSUME NEW u \in Defaults, tag[u].status = "absent"
               PROVE  tag'[u].status = "enabled" /\ tag'[u].parent = m[u].parent
                      /\ tag'[u].level = m[u].level
      OBVIOUS
  <2>1. tag'[u] = [status |-> "enabled", parent |-> m[u].parent, level |-> m[u].level]
      BY <1>4
  <2> QED
      BY <2>1
<1>6. \A u \in Defaults : /\ m[u].parent \in Defaults \cup {T!NoTag}
                          /\ m[u].level \in Nat
                          /\ u \in Literacies => m[u].level <= 2
    BY <1>2 DEF T!LevelsAgree, T!LevelsKnown
<1>7. \A u \in T!Tags : tag'[u] \in TagRow
  <2>1. ASSUME NEW u \in Defaults PROVE tag'[u] \in TagRow
    <3>1. [status |-> "enabled", parent |-> m[u].parent, level |-> m[u].level] \in TagRow
        BY <1>6, KindsOfTag DEF TagRow
    <3> QED
        BY <1>3, <1>4, <3>1, KindsOfTag
  <2>2. ASSUME NEW u \in Legacy PROVE tag'[u] \in TagRow
      BY <1>3, <1>4, KindsOfTag DEF TagRow
  <2>3. ASSUME NEW u \in Own PROVE tag'[u] \in TagRow
      BY <1>3, <1>4, KindsOfTag
  <2> QED
      BY <2>1, <2>2, <2>3, KindsOfTag
<1>8. tag' = [u \in T!Tags |-> tag'[u]]
    BY <1>2 DEF T!Replaced
<1>9. tag' \in [T!Tags -> TagRow]
    BY <1>7, <1>8
\* The parents and levels of what exists stay.
<1>10. \A u \in T!Tags : tag[u].status # "absent" =>
          /\ tag'[u].parent = tag[u].parent /\ tag'[u].level = tag[u].level
          /\ tag'[u].status # "absent"
  <2>1. ASSUME NEW u \in Legacy
        PROVE  /\ tag'[u].parent = tag[u].parent /\ tag'[u].level = tag[u].level
               /\ tag'[u].status = "disabled"
      BY <1>3, <1>4, KindsOfTag DEF TagRow
  <2> QED
      BY <1>4, <2>1, KindsOfTag
<1>11. \A u \in Defaults : tag'[u].status # "absent"
    BY <1>5, <1>4
<1>12. Forest'
  <2> SUFFICES ASSUME NEW u \in T!Tags, tag'[u].status # "absent" PROVE Planted(tag', u)
      BY DEF Forest, T!Exists
  <2>1. CASE tag[u].status # "absent"
    <3>1. Planted(tag, u)
        BY <2>1 DEF TagsInv, Forest, T!Exists
    <3>2. tag[u].parent # T!NoTag => tag[u].parent \in T!Tags
        BY <1>3 DEF TagRow
    <3> QED
        BY <2>1, <1>10, <3>1, <3>2 DEF Planted
  <2>2. CASE tag[u].status = "absent" /\ u \in Defaults
    <3>1. \A d \in Defaults : tag[d].status = "absent"
        BY <2>2 DEF TagsInv, DefaultsTogether, T!Exists
    <3>2. \A d \in Defaults : tag'[d].parent = m[d].parent /\ tag'[d].level = m[d].level
        BY <1>5, <3>1
    <3>3. CASE m[u].parent = T!NoTag
        BY <3>2, <3>3, <2>2, TagsAssumed DEF Planted
    <3>4. CASE m[u].parent # T!NoTag
      <4>1. m[u].parent \in Defaults /\ m[u].level = m[m[u].parent].level + 1
          BY <3>4, <1>2, <2>2 DEF T!LevelsAgree
      <4> QED
          BY <4>1, <3>2, <3>4, <2>2, <1>11 DEF Planted
    <3> QED
        BY <3>3, <3>4
  <2>3. CASE tag[u].status = "absent" /\ u \notin Defaults
    <3>1. u \in Legacy
        BY <2>3, <1>4, KindsOfTag
    <3> QED
        BY <2>3, <3>1 DEF TagsInv, LegacyStay
  <2> QED
      BY <2>1, <2>2, <2>3
<1>13. Shallow'
  <2> SUFFICES ASSUME NEW u \in Literacies PROVE tag'[u].level <= 2
      BY DEF Shallow
  <2>1. u \in T!Tags /\ tag[u].level <= 2
      BY TagsAssumed DEF TagsInv, Shallow
  <2>2. CASE u \in Defaults
    <3>1. m[u].level <= 2
        BY <2>2, <1>6
    <3> QED
        BY <2>1, <2>2, <3>1, <1>5, <1>4
  <2>3. CASE u \in Legacy
    <3>1. tag[u].status # "absent"
        BY <2>3 DEF TagsInv, LegacyStay
    <3>2. tag'[u].level = tag[u].level
        BY <3>1, <1>10, <2>1
    <3> QED
        BY <3>2, <2>1
  <2>4. CASE u \in Own
      BY <2>1, <2>4, <1>4
  <2> QED
      BY <2>1, <2>2, <2>3, <2>4, KindsOfTag
<1>14. label' \in [Questions -> [T!Tags -> {"none", "on", "off"}]]
  <2> SUFFICES ASSUME NEW q \in Questions
               PROVE  T!Moved(label[q]) \in [T!Tags -> {"none", "on", "off"}]
      BY <1>2
  <2>1. label[q] \in [T!Tags -> {"none", "on", "off"}]
      BY DEF TagsInv, TagsTyped
  <2> QED
      BY <2>1 DEF T!Moved
<1>15. T!ReplacedReturnsLate'
  <2>1. \A u \in Legacy : tag'[u].status = "disabled"
      BY <1>3, <1>4, KindsOfTag DEF TagRow
  <2>2. \A u \in Legacy, q \in Questions : label'[q][u] # "on"
      BY <1>2, KindsOfTag DEF T!Moved
  <2> QED
      BY <1>2, <2>1, <2>2 DEF T!ReplacedReturnsLate, T!Active
<1>16. version' \in [Versions -> {"absent", "draft", "review", "active", "archived"}] /\ OneVersion'
  <2>1. CASE publish
      BY <1>1, <2>1, OnePromoted, TagsAssumed DEF T!InstallDefaultTaxonomy, TagsInv, OneVersion
  <2>2. CASE ~publish
      BY <1>1, <2>2, TagsAssumed DEF T!InstallDefaultTaxonomy, TagsInv, TagsTyped, OneVersion
  <2> QED
      BY <2>1, <2>2
<1>17. DefaultsTogether'
    BY <1>11 DEF DefaultsTogether, T!Exists
<1>18. LegacyStay'
  <2>1. \A u \in Legacy : u \in T!Tags /\ tag[u].status # "absent"
      BY KindsOfTag DEF TagsInv, LegacyStay
  <2> QED
      BY <2>1, <1>10 DEF LegacyStay
\* What was checked and not written is overtaken.
<1>19. RequestsFit' /\ Unspoiled'
  <2>1. ASSUME NEW r \in Requests
        PROVE  /\ request'[r] \in RequestRow
               /\ IF request'[r].checked > 0 THEN request'[r].question \in Questions
                  ELSE request'[r].tags = {}
               /\ request'[r].overtaken \/ request'[r].tags \cap merged' = {}
    <3>1. request[r] \in RequestRow /\ (request[r].checked > 0 => request[r].question \in Questions)
          /\ (request[r].checked = 0 => request[r].tags = {})
        BY DEF TagsInv, RequestsFit
    <3>2. request'[r] = [request[r] EXCEPT !.overtaken = request[r].checked > 0]
        BY <1>2
    <3> DEFINE over == request[r].checked > 0
    <3>3. over \in BOOLEAN
        OBVIOUS
    <3>4. over \/ request[r].checked = 0
        BY <3>1 DEF RequestRow
    <3>5. request'[r] = [request[r] EXCEPT !.overtaken = over]
        BY <3>2
    <3> HIDE DEF over
    <3>6. /\ request'[r] \in RequestRow /\ request'[r].checked = request[r].checked
          /\ request'[r].question = request[r].question /\ request'[r].tags = request[r].tags
          /\ request'[r].overtaken = over
        BY <3>1, <3>3, <3>5, OvertakenRow
    <3>7. IF request'[r].checked > 0 THEN request'[r].question \in Questions
          ELSE request'[r].tags = {}
        BY <3>1, <3>4, <3>6 DEF over
    <3>8. request'[r].overtaken \/ request'[r].tags \cap merged' = {}
        BY <3>1, <3>4, <3>6
    <3> QED
        BY <3>6, <3>7, <3>8
  <2>2. request' = [r \in Requests |-> request'[r]]
      BY <1>2
  <2>3. late' \subseteq Questions /\ request' \in [Requests -> RequestRow]
      BY <1>2, <2>1, <2>2
  <2> QED
      BY <2>1, <2>3 DEF RequestsFit, Unspoiled
<1> QED
    BY <1>2, <1>9, <1>12, <1>13, <1>14, <1>15, <1>16, <1>17, <1>18, <1>19 DEF TagsInv, TagsTyped

\* A question is written as one that was overtaken, or with tags nobody replaced.
LEMMA WrittenStep ==
    ASSUME TagsInv, NEW q \in Questions, NEW S \in SUBSET T!Tags, T!Written(q, S),
           UNCHANGED <<version, tag, merged>>,
           \/ late' = late \cup {q}
           \/ late' = late \ {q} /\ S \cap merged = {},
           form' \in [Forms -> {T!NoPage} \cup [question : Questions, revision : Nat]],
           RequestsFit', Unspoiled'
    PROVE  TagsInv'
<1> DEFINE row == [t \in T!Tags |-> IF t \in S THEN "on" ELSE "none"]
<1>1. /\ label' = [label EXCEPT ![q] = row]
      /\ revision' = [revision EXCEPT ![q] = @ + 1]
    BY DEF T!Written
<1>2. row \in [T!Tags -> {"none", "on", "off"}]
    OBVIOUS
<1>3. label' \in [Questions -> [T!Tags -> {"none", "on", "off"}]]
    BY <1>1, <1>2 DEF TagsInv, TagsTyped
<1>4. T!ReplacedReturnsLate'
  <2> SUFFICES ASSUME NEW t \in merged
               PROVE  ~T!Active(t) /\ \A x \in Questions \ late' : label'[x][t] # "on"
      BY DEF T!ReplacedReturnsLate, T!Active
  <2>1. ~T!Active(t) /\ t \in T!Tags
      BY KindsOfTag DEF TagsInv, TagsTyped, T!ReplacedReturnsLate
  <2> SUFFICES ASSUME NEW x \in Questions, x \notin late' PROVE label'[x][t] # "on"
      BY <2>1
  <2>2. CASE x = q
    <3>1. row[t] = "none"
        BY <2>1, <2>2
    <3> QED
        BY <1>1, <2>2, <3>1 DEF TagsInv, TagsTyped
  <2>3. CASE x # q
    <3>1. label'[x] = label[x] /\ x \notin late
        BY <1>1, <2>3 DEF TagsInv, TagsTyped
    <3> QED
        BY <3>1 DEF TagsInv, T!ReplacedReturnsLate
  <2> QED
      BY <2>2, <2>3
<1>5. revision' \in [Questions -> Nat]
    BY <1>1 DEF TagsInv, TagsTyped
<1>6. TagsTyped'
    BY <1>3, <1>5 DEF TagsInv, TagsTyped
<1> QED
    BY <1>4, <1>6 DEF TagsInv, OneVersion, DefaultsTogether, Forest, Planted, Shallow, LegacyStay,
                      T!Exists

\* Only tags that are switched on are saved.
LEMMA TaggingStep ==
    ASSUME TagsInv, NEW p \in Forms, NEW S \in SUBSET T!Tags, T!SaveTags(p, S) PROVE TagsInv'
<1>1. /\ T!Written(form[p].question, S) /\ T!MayConfirm(S) /\ form[p] # T!NoPage
      /\ late' = late \ {form[p].question} /\ form' = [form EXCEPT ![p] = T!NoPage]
      /\ UNCHANGED <<version, tag, request, merged>>
    BY DEF T!SaveTags
<1>2. form[p].question \in Questions
    BY <1>1 DEF TagsInv, TagsTyped
<1>3. S \cap merged = {}
    BY <1>1 DEF T!MayConfirm, TagsInv, T!ReplacedReturnsLate
<1>4. form' \in [Forms -> {T!NoPage} \cup [question : Questions, revision : Nat]]
    BY <1>1 DEF TagsInv, TagsTyped
<1>5. RequestsFit' /\ Unspoiled'
    BY <1>1, <1>2 DEF TagsInv, RequestsFit, Unspoiled
<1> QED
    BY <1>1, <1>2, <1>3, <1>4, <1>5, WrittenStep

\* The families consist of tags.
LEMMA FamiliesOfTags == \A n \in 0..2 : T!Families[n + 1] \subseteq T!Tags
<1>1. /\ T!Families[1] = T!Tags \ (Abilities \cup Literacies)
      /\ T!Families[2] = Abilities /\ T!Families[3] = Literacies
    BY DEF T!Families
<1>2. Abilities \subseteq T!Tags /\ Literacies \subseteq T!Tags
    BY TagsAssumed
<1>3. \A n \in 0..2 : n = 0 \/ n = 1 \/ n = 2
    OBVIOUS
<1> QED
    BY <1>1, <1>2, <1>3

\* A confirmation checks tags that are switched on.
LEMMA CheckingStep ==
    ASSUME TagsInv, T!Checking PROVE TagsInv'
<1>1. PICK r \in Requests, q \in Questions :
         request[r].checked < 3
         /\ \E S \in SUBSET T!Families[request[r].checked + 1] : T!CheckTags(r, q, S)
    BY DEF T!Checking
<1>2. PICK S \in SUBSET T!Families[request[r].checked + 1] : T!CheckTags(r, q, S)
    BY <1>1
<1> DEFINE n   == request[r].checked
           new == [request[r] EXCEPT !.question = q, !.tags = request[r].tags \cup S,
                                     !.checked = n + 1]
<1>3. /\ T!MayConfirm(S) /\ request' = [request EXCEPT ![r] = new]
      /\ UNCHANGED <<version, tag, label, revision, form, merged, late>>
  <2>1. T!MayConfirm(S) /\ UNCHANGED <<version, tag, label, revision, form, merged, late>>
      BY <1>2, Zenon DEF T!CheckTags
  <2>2. request' = [request EXCEPT ![r] = new]
      BY <1>2, Zenon DEF T!CheckTags
  <2> QED
      BY <2>1, <2>2
<1>4. request \in [Requests -> RequestRow] /\ late \subseteq Questions
    BY DEF TagsInv, RequestsFit
<1>5. request[r] \in RequestRow /\ n \in 0..2 /\ n + 1 \in 0..3
    BY <1>1, <1>4 DEF RequestRow
<1>6. /\ new \in RequestRow /\ new.question = q /\ new.tags = request[r].tags \cup S
      /\ new.checked = n + 1 /\ new.overtaken = request[r].overtaken
  <2>1. S \in SUBSET T!Tags
      BY <1>2, <1>5, FamiliesOfTags
  <2> HIDE DEF n
  <2> QED
      BY <1>5, <2>1 DEF RequestRow
<1>7. new.checked > 0
    BY <1>5, <1>6 DEF RequestRow
<1> HIDE DEF new
<1>8. /\ request' \in [Requests -> RequestRow] /\ request'[r] = new
      /\ \A x \in Requests : x # r => request'[x] = request[x]
    BY <1>3, <1>4, <1>6
<1>9. RequestsFit'
    BY <1>3, <1>6, <1>7, <1>8 DEF TagsInv, RequestsFit
<1>10. S \cap merged = {}
    BY <1>3 DEF T!MayConfirm, TagsInv, T!ReplacedReturnsLate
<1>11. Unspoiled'
  <2> SUFFICES ASSUME NEW x \in Requests
               PROVE  request'[x].overtaken \/ request'[x].tags \cap merged = {}
      BY <1>3 DEF Unspoiled
  <2>1. request[x].overtaken \/ request[x].tags \cap merged = {}
      BY DEF TagsInv, Unspoiled
  <2>2. CASE x = r
      BY <1>6, <1>8, <1>10, <2>1, <2>2
  <2>3. CASE x # r
      BY <1>8, <2>1, <2>3
  <2> QED
      BY <2>2, <2>3
<1> QED
    BY <1>3, <1>9, <1>11 DEF TagsInv, TagsTyped, OneVersion, DefaultsTogether, Forest, Planted,
                            Shallow, T!ReplacedReturnsLate, LegacyStay, T!Exists, T!Active

\* A confirmation that is written was overtaken, or brings no replaced tag.
LEMMA WritingStep ==
    ASSUME TagsInv, NEW r \in Requests, T!WriteTags(r) PROVE TagsInv'
<1> DEFINE q == request[r].question
           S == request[r].tags
<1>1. /\ request[r].checked = 3 /\ T!Written(q, S)
      /\ request' = [request EXCEPT ![r] = T!Idle]
      /\ late' = IF request[r].overtaken THEN late \cup {q} ELSE late \ {q}
      /\ UNCHANGED <<version, tag, form, merged>>
    BY DEF T!WriteTags
<1>2. request \in [Requests -> RequestRow] /\ q \in Questions /\ S \in SUBSET T!Tags
    BY <1>1 DEF TagsInv, RequestsFit, RequestRow
<1>3. request[r].overtaken \/ S \cap merged = {}
    BY DEF TagsInv, Unspoiled
<1>4. T!Idle \in RequestRow /\ T!Idle.checked = 0 /\ T!Idle.tags = {}
    BY DEF T!Idle, RequestRow
<1> HIDE DEF q, S
<1>5. /\ request' \in [Requests -> RequestRow] /\ request'[r] = T!Idle
      /\ \A x \in Requests : x # r => request'[x] = request[x]
    BY <1>1, <1>2, <1>4
<1>6. late' = late \cup {q} \/ (late' = late \ {q} /\ S \cap merged = {})
    BY <1>1, <1>3
<1>7. RequestsFit'
  <2>1. late' \subseteq Questions
      BY <1>2, <1>6 DEF TagsInv, RequestsFit
  <2> QED
      BY <1>4, <1>5, <2>1 DEF TagsInv, RequestsFit
<1>8. Unspoiled'
    BY <1>1, <1>4, <1>5 DEF TagsInv, Unspoiled
<1>9. form' \in [Forms -> {T!NoPage} \cup [question : Questions, revision : Nat]]
    BY <1>1 DEF TagsInv, TagsTyped
<1> QED
    BY <1>1, <1>2, <1>6, <1>7, <1>8, <1>9, WrittenStep

LEMMA TagsStep == ASSUME TagsInv, T!TaxonomyNext(MaxSaves) PROVE TagsInv'
<1>1. CASE T!Drafting \/ T!Submitting \/ T!Publishing
    BY <1>1, VersionSteps
<1>2. CASE T!AddingKnowledge \/ T!AddingAbility \/ T!AddingLiteracy
    BY <1>2, CreateSteps
<1>3. CASE T!Switching
    BY <1>3, SwitchStep
<1>4. CASE T!Installing
    BY <1>4, InstallStep
<1>5. CASE T!Opening
  <2>1. /\ version' = version /\ tag' = tag /\ label' = label /\ merged' = merged
        /\ revision' = revision /\ request' = request /\ late' = late
      BY <1>5 DEF T!Opening, T!OpenPage
  <2>2. form' \in [Forms -> {T!NoPage} \cup [question : Questions, revision : Nat]]
    <3>1. PICK p \in Forms, q \in Questions : T!OpenPage(p, q)
        BY <1>5 DEF T!Opening
    <3>2. [question |-> q, revision |-> revision[q]] \in [question : Questions, revision : Nat]
        BY DEF TagsInv, TagsTyped
    <3> QED
        BY <3>1, <3>2 DEF T!OpenPage, TagsInv, TagsTyped
  <2> QED
      BY <2>1, <2>2 DEF TagsInv, TagsTyped, OneVersion, DefaultsTogether, Forest, Planted, Shallow,
                  RequestsFit, Unspoiled, T!ReplacedReturnsLate, LegacyStay, T!Exists, T!Active
<1>6. CASE T!Tagging(MaxSaves)
    BY <1>6, TaggingStep DEF T!Tagging
<1>7. CASE T!Checking
    BY <1>7, CheckingStep
<1>8. CASE T!Writing(MaxSaves)
    BY <1>8, WritingStep DEF T!Writing
<1> QED
    BY <1>1, <1>2, <1>3, <1>4, <1>5, <1>6, <1>7, <1>8 DEF T!TaxonomyNext

-----------------------------------------------------------------------------
LEMMA SameSizeOfTags == \A s : T!Cardinality(s) = Cardinality(s)
BY Zenon DEF T!Cardinality, Cardinality

LEMMA TagsHold == TagsInv => T!TaxonomyTypeOK /\ T!OneForest /\ T!ReplacedReturnsLate
<1> SUFFICES ASSUME TagsInv PROVE T!TaxonomyTypeOK /\ T!OneForest
    BY DEF TagsInv
<1>1. T!TaxonomyTypeOK
    BY DEF TagsInv, TagsTyped, TagRow, RequestsFit, RequestRow, T!TaxonomyTypeOK
<1>2. T!Cardinality({v \in Versions : version[v] = "active"}) <= 1
    BY OneAtMost, SameSizeOfTags DEF TagsInv, OneVersion
<1>3. \A t \in T!Tags : T!Exists(t) =>
          IF tag[t].parent = T!NoTag THEN tag[t].level = 1
          ELSE T!Exists(tag[t].parent) /\ tag[t].level = tag[tag[t].parent].level + 1
    BY DEF TagsInv, Forest, Planted, T!Exists
<1> QED
    BY <1>1, <1>2, <1>3 DEF TagsInv, Shallow, T!OneForest

\* A step that saves nothing of a question keeps what it is about.
LEMMA MeaningKept ==
    ASSUME TagsInv, T!TaxonomyNext(MaxSaves), revision' = revision, NEW q \in Questions
    PROVE  T!Meaning(label'[q]) = T!Meaning(label[q])
<1> DEFINE row == label[q]
<1>1. row \in [T!Tags -> {"none", "on", "off"}]
    BY DEF TagsInv, TagsTyped
<1>2. CASE T!Installing
  <2>1. label'[q] = T!Moved(row)
      BY <1>2 DEF T!Installing, T!InstallDefaultTaxonomy
  <2> HIDE DEF row
  <2>2. \A t \in Legacy : T!Moved(row)[t] # "on"
      BY KindsOfTag DEF T!Moved
  <2>3. \A t \in Defaults \cup Own : T!Moved(row)[t] = "on" <=>
           row[t] = "on" \/ \E old \in Legacy : ReplacedBy[old] = t /\ row[old] = "on"
      BY TagsAssumed, KindsOfTag DEF T!Moved
  <2>4. \A old \in Legacy : ReplacedBy[old] \in Defaults
      BY TagsAssumed
  <2>5. ASSUME NEW x PROVE x \in T!Meaning(T!Moved(row)) <=> x \in T!Meaning(row)
      BY <2>2, <2>3, <2>4 DEF T!Meaning
  <2> QED
      BY <2>1, <2>5 DEF row
<1>3. CASE ~T!Installing
  <2>1. CASE T!Tagging(MaxSaves)
    <3>1. PICK p \in Forms, S \in SUBSET T!Tags : form[p] # T!NoPage /\ T!SaveTags(p, S)
        BY <2>1 DEF T!Tagging
    <3>2. form[p].question \in Questions
        BY <3>1 DEF TagsInv, TagsTyped
    <3>3. revision' = [revision EXCEPT ![form[p].question] = @ + 1]
        BY <3>1 DEF T!SaveTags, T!Written
    <3>4. revision'[form[p].question] = revision[form[p].question] + 1
          /\ revision[form[p].question] \in Nat
        BY <3>2, <3>3 DEF TagsInv, TagsTyped
    <3> QED
        BY <3>4
  <2>3. CASE T!Writing(MaxSaves)
    <3>1. PICK r \in Requests : T!WriteTags(r)
        BY <2>3 DEF T!Writing
    <3>2. request[r].checked = 3 /\ revision' = [revision EXCEPT ![request[r].question] = @ + 1]
        BY <3>1 DEF T!WriteTags, T!Written
    <3>3. request[r].question \in Questions
        BY <3>2 DEF TagsInv, RequestsFit
    <3>4. revision'[request[r].question] = revision[request[r].question] + 1
          /\ revision[request[r].question] \in Nat
        BY <3>2, <3>3 DEF TagsInv, TagsTyped
    <3> QED
        BY <3>4
  <2>2. CASE ~T!Tagging(MaxSaves) /\ ~T!Writing(MaxSaves)
    <3>1. label' = label
        BY <1>3, <2>2 DEF T!Checking, T!CheckTags, T!TaxonomyNext, T!Drafting, T!Submitting, T!Publishing, T!CreateDraft,
             T!SubmitForReview, T!PublishVersion, T!AddingKnowledge, T!AddingAbility,
             T!AddingLiteracy, T!CreateKnowledge, T!CreateAbility, T!CreateLiteracy,
             T!Switching, T!SetEnabled, T!Opening, T!OpenPage
    <3> QED
        BY <3>1
  <2> QED
      BY <2>1, <2>2, <2>3
<1> QED
    BY <1>2, <1>3

-----------------------------------------------------------------------------
(***************************************************************************)
(* The regions. The events of a session are at the places of a card each,  *)
(* so counting them bounds them, and a goal is proven by the session it is *)
(* proven in.                                                              *)
(***************************************************************************)
Bound == [L!Actions -> [goal : Goals, verifies : Goals \cup {"none"}, approved : BOOLEAN]]

Event == [act : {"probe", "practice", "verify"}, action : Nat, passed : {"yes", "no", "unknown"},
          assisted : BOOLEAN, at : 1..MaxAnswers]

Visit == [student : Students, task : Tasks, paper : {SetBy[t] : t \in Tasks},
          binds : Bound, events : Seq(Event)]

\* The places of the events stored.
Places == UNION {{n} \X DOMAIN sessions[n].events : n \in DOMAIN sessions}

RegionsInv ==
    /\ bindings \in Bound
    /\ sessions \in Seq(Visit) /\ Len(sessions) <= MaxSessions
    /\ IsFiniteSet(Places) /\ Cardinality(Places) <= MaxAnswers

-----------------------------------------------------------------------------
LEMMA RegionsAssumed ==
    /\ IsFiniteSet(Tasks)
    /\ FirstBindings \in Bound /\ L!Actions \subseteq Nat
    /\ MaxSessions \in Nat /\ MaxAnswers \in Nat
<1>1. L!RegionAssumption
    BY LearningAssumption DEF LearningAssumption
<1>2. \A s : L!IsFiniteSet(s) <=> IsFiniteSet(s)
    BY DEF L!IsFiniteSet, IsFiniteSet
<1> QED
    BY <1>1, <1>2 DEF L!RegionAssumption, Bound, L!Actions

LEMMA SameSizeOfRegions == \A s : L!Cardinality(s) = Cardinality(s)
BY Zenon DEF L!Cardinality, Cardinality

LEMMA EventsCounted == L!EventCount = Cardinality(Places)
BY SameSizeOfRegions DEF L!EventCount, Places

LEMMA RegionsStart == L!RegionInit => RegionsInv
<1> SUFFICES ASSUME L!RegionInit PROVE RegionsInv
    OBVIOUS
<1>1. sessions = <<>> /\ bindings = FirstBindings
    BY DEF L!RegionInit
<1>2. Places = {}
    BY <1>1 DEF Places
<1> QED
    BY <1>1, <1>2, RegionsAssumed, FS_EmptySet DEF RegionsInv

LEMMA RegionsRest == RegionsInv /\ UNCHANGED regionVars => RegionsInv'
BY DEF regionVars, RegionsInv, Places

\* An event is stored at the next place of its session.
LEMMA EventStored ==
    ASSUME RegionsInv, NEW n \in DOMAIN sessions,
           NEW act \in {"probe", "practice", "verify"}, NEW i \in Nat,
           NEW passed \in {"yes", "no", "unknown"}, NEW helped \in BOOLEAN,
           L!AddEvent(n, L!Event(act, i, passed, helped))
    PROVE  RegionsInv'
<1> DEFINE e == L!Event(act, i, passed, helped)
           last == Len(sessions[n].events) + 1
<1>1. Cardinality(Places) < MaxAnswers /\ Cardinality(Places) \in Nat
    BY EventsCounted, FS_CardinalityType DEF L!AddEvent, RegionsInv
<1>2. e \in Event
  <2>1. L!EventCount + 1 \in 1..MaxAnswers
      BY <1>1, EventsCounted, RegionsAssumed
  <2> QED
      BY <2>1 DEF L!Event, Event
<1>3. sessions' = [sessions EXCEPT ![n].events = Append(@, e)] /\ bindings' = bindings
    BY DEF L!AddEvent
<1> HIDE DEF e
<1>4. /\ sessions \in [1..Len(sessions) -> Visit] /\ n \in 1..Len(sessions)
      /\ sessions[n] \in Visit /\ sessions[n].events \in Seq(Event)
  <2>1. sessions \in [1..Len(sessions) -> Visit] /\ n \in 1..Len(sessions)
      BY DEF RegionsInv
  <2> QED
      BY <2>1 DEF Visit
<1>5. Append(sessions[n].events, e) \in Seq(Event)
      /\ DOMAIN Append(sessions[n].events, e) = DOMAIN sessions[n].events \cup {last}
      /\ last \notin DOMAIN sessions[n].events
    BY <1>2, <1>4
<1>6. [sessions[n] EXCEPT !.events = Append(@, e)] \in Visit
    BY <1>4, <1>5 DEF Visit
<1>7. /\ sessions' \in [1..Len(sessions) -> Visit]
      /\ sessions'[n].events = Append(sessions[n].events, e)
      /\ \A m \in 1..Len(sessions) : m # n => sessions'[m] = sessions[m]
    BY <1>3, <1>4, <1>6 DEF Visit
<1>8. /\ sessions' \in Seq(Visit) /\ Len(sessions') = Len(sessions)
      /\ DOMAIN sessions' = DOMAIN sessions
  <2>1. Len(sessions) \in Nat
      BY DEF RegionsInv
  <2> QED
      BY <1>7, <2>1
<1>9. Places' = Places \cup {<<n, last>>}
  <2>1. DOMAIN sessions = 1..Len(sessions)
      BY DEF RegionsInv
  <2>2. \A m \in DOMAIN sessions :
           DOMAIN sessions'[m].events = IF m = n THEN DOMAIN sessions[n].events \cup {last}
                                        ELSE DOMAIN sessions[m].events
      BY <1>5, <1>7, <2>1
  <2>3. Places' = UNION {{m} \X DOMAIN sessions'[m].events : m \in DOMAIN sessions}
      BY <1>8 DEF Places
  <2> HIDE DEF last
  <2>4. ASSUME NEW x PROVE x \in Places' <=> x \in Places \cup {<<n, last>>}
    <3>1. x \in Places' <=> \E m \in DOMAIN sessions : x \in {m} \X DOMAIN sessions'[m].events
        BY <2>3
    <3>2. x \in Places <=> \E m \in DOMAIN sessions : x \in {m} \X DOMAIN sessions[m].events
        BY DEF Places
    <3>3. \A m \in DOMAIN sessions : m # n =>
             (x \in {m} \X DOMAIN sessions'[m].events <=> x \in {m} \X DOMAIN sessions[m].events)
        BY <2>2
    <3>4. x \in {n} \X DOMAIN sessions'[n].events <=>
             x \in {n} \X DOMAIN sessions[n].events \/ x = <<n, last>>
        BY <2>2
    <3> QED
        BY <3>1, <3>2, <3>3, <3>4
  <2> QED
      BY <2>4
<1>10. IsFiniteSet(Places') /\ Cardinality(Places') <= MaxAnswers
  <2>1. /\ IsFiniteSet(Places \cup {<<n, last>>})
        /\ Cardinality(Places \cup {<<n, last>>}) \in {Cardinality(Places), Cardinality(Places) + 1}
      BY FS_AddElement DEF RegionsInv
  <2> QED
      BY <1>1, <1>9, <2>1, RegionsAssumed
<1> QED
    BY <1>3, <1>8, <1>10 DEF RegionsInv

\* A session begins without events.
LEMMA SessionStarted ==
    ASSUME RegionsInv, NEW s \in Students, NEW t \in Tasks, L!StartSession(s, t)
    PROVE  RegionsInv'
<1> DEFINE new == [student |-> s, task |-> t, paper |-> SetBy[t], binds |-> bindings,
                   events |-> <<>>]
<1>1. /\ Len(sessions) < MaxSessions /\ sessions' = Append(sessions, new)
      /\ bindings' = bindings
    BY DEF L!StartSession
<1>2. new \in Visit
  <2>1. <<>> \in Seq(Event)
      OBVIOUS
  <2> QED
      BY <2>1 DEF Visit, RegionsInv
<1>3. new.events = <<>>
    OBVIOUS
<1> HIDE DEF new
<1>4. /\ sessions' \in Seq(Visit) /\ Len(sessions') = Len(sessions) + 1
      /\ DOMAIN sessions' = DOMAIN sessions \cup {Len(sessions) + 1}
      /\ sessions'[Len(sessions) + 1] = new
      /\ \A m \in DOMAIN sessions : sessions'[m] = sessions[m]
    BY <1>1, <1>2 DEF RegionsInv
<1>5. Places' = Places
  <2>1. DOMAIN new.events = {}
      BY <1>3
  <2>2. ASSUME NEW x PROVE x \in Places' <=> x \in Places
    <3>1. x \in Places' <=> \E m \in DOMAIN sessions' : x \in {m} \X DOMAIN sessions'[m].events
        BY DEF Places
    <3>2. x \in Places <=> \E m \in DOMAIN sessions : x \in {m} \X DOMAIN sessions[m].events
        BY DEF Places
    <3> QED
        BY <1>4, <2>1, <3>1, <3>2
  <2> QED
      BY <2>2
<1> QED
    BY <1>1, <1>4, <1>5, RegionsAssumed DEF RegionsInv

LEMMA RegionsStep == ASSUME RegionsInv, L!RegionNext PROVE RegionsInv'
<1>1. CASE L!Sessions
    BY <1>1, SessionStarted DEF L!Sessions
<1>2. CASE L!Probes
  <2>1. PICK n \in DOMAIN sessions, i \in L!Actions : L!Probe(n, i)
      BY <1>2 DEF L!Probes
  <2>2. i \in Nat
      BY RegionsAssumed
  <2> QED
      BY <2>1, <2>2, EventStored DEF L!Probe
<1>3. CASE L!Practices
  <2>1. PICK n \in DOMAIN sessions : L!Practice(n)
      BY <1>3 DEF L!Practices
  <2> QED
      BY <2>1, EventStored DEF L!Practice
<1>4. CASE L!Verifies
  <2>1. PICK n \in DOMAIN sessions : L!Verify(n)
      BY <1>4 DEF L!Verifies
  <2> QED
      BY <2>1, EventStored DEF L!Verify
<1>5. CASE L!Reviews
  <2>1. PICK i \in L!Actions : L!Review(i)
      BY <1>5 DEF L!Reviews
  <2>2. PICK g \in Goals, checked \in BOOLEAN, approved \in BOOLEAN :
           bindings' = [bindings EXCEPT ![i] =
                         [goal |-> g, verifies |-> IF checked THEN g ELSE "none",
                          approved |-> approved]]
      BY <2>1 DEF L!Review
  <2>3. [goal |-> g, verifies |-> IF checked THEN g ELSE "none", approved |-> approved]
           \in [goal : Goals, verifies : Goals \cup {"none"}, approved : BOOLEAN]
      OBVIOUS
  <2>4. bindings' \in Bound
      BY <2>2, <2>3 DEF RegionsInv, Bound
  <2>5. sessions' = sessions
      BY <2>1 DEF L!Review
  <2> QED
      BY <2>4, <2>5 DEF RegionsInv, Places
<1>6. CASE L!Publishes \/ L!Absences
  <2>1. sessions' = sessions /\ bindings' = bindings
      BY <1>6 DEF L!Publishes, L!Absences, L!Publish, L!MarkAbsent
  <2> QED
      BY <2>1 DEF RegionsInv, Places
<1> QED
    BY <1>1, <1>2, <1>3, <1>4, <1>5, <1>6 DEF L!RegionNext

-----------------------------------------------------------------------------
(* What the evidence says.                                                  *)

Evidence(S) == \A e \in S : e.at \in 1..MaxAnswers

\* Among events there is a first and a last.
LEMMA FirstOfThem ==
    ASSUME NEW S, Evidence(S), S # {} PROVE L!First(S) \in S
<1> DEFINE Times == {e.at : e \in S}
<1>1. Times \in SUBSET Nat /\ Times # {}
    BY DEF Evidence
<1>2. PICK t \in Times : \A u \in Times : t <= u
    BY <1>1, Smallest
<1>3. \E e \in S : \A f \in S : e.at <= f.at
    BY <1>2
<1> QED
    BY <1>3 DEF L!First

LEMMA LastOfThem ==
    ASSUME NEW S, Evidence(S), S # {} PROVE L!Final(S) \in S
<1> DEFINE Times == {e.at : e \in S}
<1>1. Times \in SUBSET Nat /\ Times # {} /\ MaxAnswers \in Nat /\ \A t \in Times : t <= MaxAnswers
    BY RegionsAssumed DEF Evidence
<1>2. PICK t \in Times : \A u \in Times : u <= t
    BY <1>1, Largest
<1>3. \E e \in S : \A f \in S : f.at <= e.at
    BY <1>2
<1> QED
    BY <1>3 DEF L!Final

\* The first check of every task that was answered alone: one of each.
LEMMA FirstChecks ==
    ASSUME NEW S, Evidence(S)
    PROVE  /\ L!Direct(S) \subseteq L!Unhelped(S)
           /\ \A d, e \in L!Direct(S) : d.task = e.task => d = e
<1> DEFINE Same(e) == {f \in L!Unhelped(S) : f.task = e.task}
<1>1. L!Direct(S) = {L!First(Same(e)) : e \in L!Unhelped(S)}
    BY DEF L!Direct
<1>2. \A e \in L!Unhelped(S) : L!First(Same(e)) \in Same(e)
  <2> SUFFICES ASSUME NEW e \in L!Unhelped(S) PROVE L!First(Same(e)) \in Same(e)
      OBVIOUS
  <2>1. e \in Same(e) /\ Same(e) \subseteq S
      BY DEF L!Unhelped, L!Usable
  <2>2. Evidence(Same(e))
      BY <2>1 DEF Evidence
  <2> QED
      BY <2>1, <2>2, FirstOfThem
<1>3. ASSUME NEW d \in L!Direct(S), NEW e \in L!Direct(S), d.task = e.task PROVE d = e
  <2>1. PICK x \in L!Unhelped(S) : d = L!First(Same(x))
      BY <1>1
  <2>2. PICK y \in L!Unhelped(S) : e = L!First(Same(y))
      BY <1>1
  <2>3. x.task = y.task
      BY <1>2, <1>3, <2>1, <2>2
  <2>4. Same(x) = Same(y)
      BY <2>3
  <2> QED
      BY <2>1, <2>2, <2>4
<1>4. ASSUME NEW d \in L!Direct(S) PROVE d \in L!Unhelped(S)
  <2>1. PICK x \in L!Unhelped(S) : d = L!First(Same(x))
      BY <1>1
  <2>2. d \in Same(x)
      BY <1>2, <2>1
  <2> QED
      BY <2>2
<1> QED
    BY <1>3, <1>4

\* A state that says something of a goal rests on such checks.
LEMMA StatesRestOnChecks ==
    ASSUME NEW S, Evidence(S)
    PROVE  /\ L!GoalState(S) \in {"passed", "mixed"} => \E d \in L!Direct(S) : d.passed = "yes"
           /\ L!GoalState(S) = "mixed" => \E d \in L!Direct(S) : d.passed = "no"
           /\ L!GoalState(S) = "repeated" =>
                 L!Cardinality({e \in L!Direct(S) : e.passed = "no"}) >= 2
<1> DEFINE direct == L!Direct(S)
           failures == {e \in direct : e.passed = "no"}
           passes == {e \in direct : e.passed = "yes"}
           practice == /\ L!Practised(S) # {}
                       /\ direct = {} \/ L!Final(L!Practised(S)).at > L!Final(direct).at
<1>1. L!GoalState(S) =
          IF practice THEN "practice"
          ELSE IF direct # {} /\ L!Final(direct).source = "verify" /\ L!Final(direct).passed = "yes"
          THEN "passed"
          ELSE IF failures # {} /\ passes # {} THEN "mixed"
          ELSE IF L!Cardinality(failures) >= 2 THEN "repeated"
          ELSE IF failures # {} THEN "check"
          ELSE IF passes # {} THEN "passed"
          ELSE "unobserved"
    BY Zenon DEF L!GoalState
<1>2. direct # {} => L!Final(direct) \in direct
  <2>1. Evidence(direct)
      BY FirstChecks DEF L!Unhelped, L!Usable, Evidence
  <2> QED
      BY <2>1, LastOfThem
<1> HIDE DEF practice, direct
<1>3. L!GoalState(S) = "mixed" => failures # {} /\ passes # {}
    BY <1>1
<1>4. L!GoalState(S) = "repeated" => L!Cardinality(failures) >= 2
    BY <1>1
<1>5. L!GoalState(S) = "passed" =>
         passes # {} \/ (direct # {} /\ L!Final(direct).passed = "yes")
    BY <1>1
<1> QED
    BY <1>2, <1>3, <1>4, <1>5 DEF direct

LEMMA Observed ==
    ASSUME RegionsInv, NEW s \in Students, NEW own \in BOOLEAN,
           NEW e \in L!Observations(s, own)
    PROVE  \E k \in DOMAIN sessions : \E n \in DOMAIN sessions[k].events :
              /\ e = L!Observation(sessions[k], n)
              /\ sessions[k].student = s /\ L!Visible(sessions[k], own)
              /\ sessions[k] \in Visit /\ sessions[k].events[n] \in Event
<1>1. PICK t \in L!Range(sessions) :
         /\ t.student = s /\ L!Visible(t, own)
         /\ \E n \in DOMAIN t.events : e = L!Observation(t, n)
    BY DEF L!Observations
<1>2. PICK k \in DOMAIN sessions : t = sessions[k]
    BY DEF L!Range
<1>3. sessions[k] \in Visit
    BY DEF RegionsInv
<1>4. sessions[k].events \in Seq(Event)
    BY <1>3 DEF Visit
<1>5. \A n \in DOMAIN sessions[k].events : sessions[k].events[n] \in Event
    BY <1>4
<1> QED
    BY <1>1, <1>2, <1>3, <1>5

LEMMA ObservedAt ==
    ASSUME RegionsInv, NEW s \in Students, NEW own \in BOOLEAN
    PROVE  Evidence(L!Observations(s, own))
<1> SUFFICES ASSUME NEW e \in L!Observations(s, own) PROVE e.at \in 1..MaxAnswers
    BY DEF Evidence
<1>1. PICK k \in DOMAIN sessions : \E n \in DOMAIN sessions[k].events :
              e = L!Observation(sessions[k], n) /\ sessions[k].events[n] \in Event
    BY Observed
<1>2. PICK n \in DOMAIN sessions[k].events :
              e = L!Observation(sessions[k], n) /\ sessions[k].events[n] \in Event
    BY <1>1
<1>3. e.at = sessions[k].events[n].at
    BY <1>2 DEF L!Observation
<1> QED
    BY <1>2, <1>3 DEF Event

\* What was answered alone is among the checks answered alone, under its task.
LEMMA AnsweredAlone ==
    ASSUME RegionsInv, NEW s \in Students, NEW own \in BOOLEAN,
           NEW e \in L!Observations(s, own), ~e.assisted
    PROVE  e.task \in L!Alone(s, e.passed)
<1>1. PICK k \in DOMAIN sessions : \E n \in DOMAIN sessions[k].events :
              e = L!Observation(sessions[k], n) /\ sessions[k].student = s
    BY Observed
<1>2. PICK n \in DOMAIN sessions[k].events : e = L!Observation(sessions[k], n)
    BY <1>1
<1> DEFINE t == sessions[k]
<1>3. t \in L!Range(sessions) /\ t.student = s
    BY <1>1 DEF L!Range
<1>4. /\ e.task = IF t.events[n].act = "verify" THEN <<"verify", t.task>>
                  ELSE <<"task", Family[t.task]>>
      /\ e.passed = t.events[n].passed
      /\ e.assisted = (t.events[n].assisted \/ t.events[n].act = "practice")
    BY <1>2 DEF L!Observation
<1>5. t.events[n].act # "practice" /\ ~t.events[n].assisted
    BY <1>4
<1> DEFINE Items(x) == {IF x.events[m].act = "verify" THEN <<"verify", x.task>>
                        ELSE <<"task", Family[x.task]>> :
                          m \in {i \in DOMAIN x.events : /\ x.events[i].act # "practice"
                                                         /\ ~x.events[i].assisted
                                                         /\ x.events[i].passed = e.passed}}
<1>6. e.task \in Items(t)
    BY <1>4, <1>5
<1>7. L!Alone(s, e.passed) = UNION {Items(x) : x \in {y \in L!Range(sessions) : y.student = s}}
    BY DEF L!Alone
<1> HIDE DEF t, Items
<1> QED
    BY <1>3, <1>6, <1>7

LEMMA WaysAreFinite == IsFiniteSet({Family[t] : t \in Tasks})
<1>1. [t \in Tasks |-> Family[t]] = [x \in Tasks |-> [t \in Tasks |-> Family[t]][x]]
    OBVIOUS
<1>2. IsFiniteSet({[t \in Tasks |-> Family[t]][x] : x \in Tasks})
    BY <1>1, RegionsAssumed, FiniteImage
<1>3. {[t \in Tasks |-> Family[t]][x] : x \in Tasks} = {Family[t] : t \in Tasks}
    OBVIOUS
<1> QED
    BY <1>2, <1>3

LEMMA AloneIsFinite ==
    ASSUME RegionsInv, NEW s \in Students, NEW passed PROVE IsFiniteSet(L!Alone(s, passed))
<1> DEFINE All == {"verify", "task"} \X (Tasks \cup {Family[t] : t \in Tasks})
<1>1. IsFiniteSet({"verify", "task"})
  <2>1. IsFiniteSet({"verify"} \cup {"task"})
      BY FS_Singleton, FS_AddElement
  <2>2. {"verify"} \cup {"task"} = {"verify", "task"}
      OBVIOUS
  <2> QED
      BY <2>1, <2>2
<1>2. IsFiniteSet(Tasks \cup {Family[t] : t \in Tasks})
    BY WaysAreFinite, RegionsAssumed, FS_Union
<1>3. IsFiniteSet(All)
    BY <1>1, <1>2, FS_Product
<1>4. \A t \in L!Range(sessions) : t.task \in Tasks
  <2>1. \A k \in DOMAIN sessions : sessions[k] \in Visit
      BY DEF RegionsInv
  <2> QED
      BY <2>1 DEF Visit, L!Range
<1>5. L!Alone(s, passed) \subseteq All
    BY <1>4 DEF L!Alone
<1> QED
    BY <1>3, <1>5, FS_Subset

LEMMA HelpProvesNothing == RegionsInv => L!ProvenAlone
<1> SUFFICES ASSUME RegionsInv, NEW s \in Students, NEW g \in Goals PROVE
        LET state == L!GoalState({e \in L!Observations(s, FALSE) : e.goal = g})
        IN  /\ state = "passed" => L!Alone(s, "yes") # {}
            /\ state = "mixed" => L!Alone(s, "yes") # {} /\ L!Alone(s, "no") # {}
            /\ state = "repeated" => L!Cardinality(L!Alone(s, "no")) >= 2
    BY DEF L!ProvenAlone
<1> DEFINE S == {e \in L!Observations(s, FALSE) : e.goal = g}
<1>1. Evidence(S)
    BY ObservedAt DEF Evidence
<1>2. \A d \in L!Direct(S) : d.task \in L!Alone(s, d.passed)
  <2>1. \A d \in L!Direct(S) : d \in L!Observations(s, FALSE) /\ ~d.assisted
      BY <1>1, FirstChecks DEF L!Unhelped, L!Usable
  <2> QED
      BY <2>1, AnsweredAlone
<1> HIDE DEF S
<1>3. ASSUME L!GoalState(S) = "repeated" PROVE Cardinality(L!Alone(s, "no")) >= 2
  <2> DEFINE failures == {e \in L!Direct(S) : e.passed = "no"}
  <2>1. Cardinality(failures) >= 2
      BY <1>1, <1>3, StatesRestOnChecks, SameSizeOfRegions
  <2>2. ~(\A x, y \in failures : x = y)
    <3>1. CASE \A x, y \in failures : x = y
      <4>1. Cardinality(failures) <= 1
          BY <3>1, OneAtMost
      <4>2. failures = {} \/ \E x : failures = {x}
          BY <3>1
      <4>3. IsFiniteSet(failures)
          BY <4>2, FS_EmptySet, FS_Singleton
      <4>4. Cardinality(failures) \in Nat
          BY <4>3, FS_CardinalityType
      <4> QED
          BY <2>1, <4>1, <4>4
    <3> QED
        BY <3>1
  <2>3. PICK x \in failures, y \in failures : x # y
      BY <2>2
  <2>4. x.task # y.task /\ x.task \in L!Alone(s, "no") /\ y.task \in L!Alone(s, "no")
      BY <1>1, <1>2, <2>3, FirstChecks
  <2> QED
      BY <2>4, AloneIsFinite, TwoAtLeast
<1>4. L!GoalState(S) \in {"passed", "mixed"} => L!Alone(s, "yes") # {}
    BY <1>1, <1>2, StatesRestOnChecks
<1>5. L!GoalState(S) = "mixed" => L!Alone(s, "no") # {}
    BY <1>1, <1>2, StatesRestOnChecks
<1>6. L!GoalState(S) = "repeated" => L!Cardinality(L!Alone(s, "no")) >= 2
    BY <1>3, SameSizeOfRegions
<1> QED
    BY <1>4, <1>5, <1>6 DEF S

LEMMA ClassSeesSchool == RegionsInv => L!ClassSeesSchoolWork
<1> SUFFICES ASSUME RegionsInv, NEW s \in Students, NEW e \in L!Observations(s, TRUE) PROVE
       \E n \in DOMAIN sessions :
          /\ sessions[n].student = s /\ sessions[n].paper \in published
          /\ <<s, sessions[n].paper>> \in present
          /\ \E m \in DOMAIN sessions[n].events : sessions[n].events[m].at = e.at
    BY DEF L!ClassSeesSchoolWork
<1>1. PICK k \in DOMAIN sessions : \E n \in DOMAIN sessions[k].events :
              /\ e = L!Observation(sessions[k], n)
              /\ sessions[k].student = s /\ L!Visible(sessions[k], TRUE)
  <2>1. PICK own \in BOOLEAN : own = TRUE
      OBVIOUS
  <2>2. e \in L!Observations(s, own)
      BY <2>1
  <2>3. \E k \in DOMAIN sessions : \E n \in DOMAIN sessions[k].events :
              /\ e = L!Observation(sessions[k], n)
              /\ sessions[k].student = s /\ L!Visible(sessions[k], own)
      BY <2>2, Observed
  <2> QED
      BY <2>1, <2>3, Zenon
<1>2. PICK n \in DOMAIN sessions[k].events : e = L!Observation(sessions[k], n)
    BY <1>1
<1>3. e.at = sessions[k].events[n].at
    BY <1>2 DEF L!Observation
<1> QED
    BY <1>1, <1>3 DEF L!Visible

-----------------------------------------------------------------------------
(* The rows and the cells.                                                  *)

LEMMA AnsweredIsFinite ==
    ASSUME NEW s, NEW results PROVE IsFiniteSet(L!Answered(s, results))
<1>1. L!Answered(s, results) \subseteq {Family[t] : t \in Tasks}
    BY DEF L!Answered
<1> QED
    BY <1>1, WaysAreFinite, FS_Subset

LEMMA TroubledAreObserved == L!Troubled \subseteq L!Observed
<1> SUFFICES ASSUME NEW s \in Students, L!Cardinality(L!Answered(s, {"wrong"})) >= 2
             PROVE  L!Cardinality(L!Answered(s, {"correct", "wrong"})) >= 2
    BY DEF L!Troubled, L!Observed
<1>1. L!Answered(s, {"wrong"}) \subseteq L!Answered(s, {"correct", "wrong"})
    BY DEF L!Answered
<1>2. /\ Cardinality(L!Answered(s, {"wrong"})) <= Cardinality(L!Answered(s, {"correct", "wrong"}))
      /\ Cardinality(L!Answered(s, {"wrong"})) \in Nat
      /\ Cardinality(L!Answered(s, {"correct", "wrong"})) \in Nat
    BY <1>1, AnsweredIsFinite, FS_Subset, FS_CardinalityType
<1> QED
    BY <1>2, SameSizeOfRegions

LEMMA ObservationsAreFinite ==
    ASSUME RegionsInv, NEW s, NEW own PROVE IsFiniteSet(L!Observations(s, own))
<1> DEFINE All == {L!Observation(sessions[x[1]], x[2]) : x \in Places}
           f == [x \in Places |-> L!Observation(sessions[x[1]], x[2])]
<1>1. {f[x] : x \in Places} = All
    OBVIOUS
<1>2. DOMAIN f = Places /\ f = [x \in Places |-> f[x]]
    OBVIOUS
<1> HIDE DEF f
<1>3. IsFiniteSet({f[x] : x \in Places})
    BY <1>2, FiniteImage DEF RegionsInv
<1>4. L!Observations(s, own) \subseteq All
  <2> SUFFICES ASSUME NEW e \in L!Observations(s, own) PROVE e \in All
      OBVIOUS
  <2>1. PICK t \in L!Range(sessions) : \E n \in DOMAIN t.events : e = L!Observation(t, n)
      BY DEF L!Observations
  <2>2. PICK n \in DOMAIN t.events : e = L!Observation(t, n)
      BY <2>1
  <2>3. PICK k \in DOMAIN sessions : t = sessions[k]
      BY DEF L!Range
  <2>4. <<k, n>> \in Places
      BY <2>2, <2>3 DEF Places
  <2> QED
      BY <2>2, <2>3, <2>4
<1> QED
    BY <1>1, <1>3, <1>4, FS_Subset

LEMMA ChecksAreFinite ==
    ASSUME RegionsInv, NEW s \in Students, NEW g, NEW stage
    PROVE  L!Cardinality(L!Direct(L!AtStage(s, g, stage))) \in Nat
<1> DEFINE S == L!AtStage(s, g, stage)
<1>1. S \subseteq L!Observations(s, TRUE)
    BY DEF L!AtStage
<1>2. Evidence(S)
    BY <1>1, ObservedAt DEF Evidence
<1> HIDE DEF S
<1>3. L!Direct(S) \subseteq L!Observations(s, TRUE)
    BY <1>1, <1>2, FirstChecks DEF L!Unhelped, L!Usable
<1>4. IsFiniteSet(L!Direct(S))
    BY <1>3, ObservationsAreFinite, FS_Subset
<1> QED
    BY <1>4, FS_CardinalityType, SameSizeOfRegions DEF S

LEMMA CellsAreNested ==
    ASSUME RegionsInv, NEW stage
    PROVE  /\ L!Cell(stage).repeated \subseteq L!Cell(stage).sufficient
           /\ L!Cell(stage).sufficient \subseteq L!Cell(stage).observed
<1> DEFINE Two(s, g) == L!Cardinality(L!Direct(L!AtStage(s, g, stage)))
           Say(s, g) == L!GoalState(L!AtStage(s, g, stage))
           repeated == {s \in Students : \E g \in Goals : Say(s, g) = "repeated" /\ Two(s, g) >= 2}
           sufficient == {s \in Students : \E g \in Goals : Two(s, g) >= 2}
           observed == {s \in Students : \E g \in Goals : Two(s, g) >= 1}
<1>1. L!Cell(stage) = [repeated |-> repeated, sufficient |-> sufficient, observed |-> observed]
    BY DEF L!Cell
<1>2. \A s \in Students, g \in Goals : Two(s, g) \in Nat
    BY ChecksAreFinite
<1> HIDE DEF Two, Say
<1>3. repeated \subseteq sufficient
    OBVIOUS
<1>4. sufficient \subseteq observed
    BY <1>2
<1> HIDE DEF repeated, sufficient, observed
<1> QED
    BY <1>1, <1>3, <1>4

LEMMA RegionsHold == RegionsInv => L!RegionTypeOK /\ L!ProvenAlone /\ L!ClassSeesSchoolWork
<1> SUFFICES ASSUME RegionsInv PROVE L!RegionTypeOK
    BY HelpProvesNothing, ClassSeesSchool
<1>1. Len(sessions) <= MaxSessions /\ L!EventCount <= MaxAnswers
    BY EventsCounted DEF RegionsInv
<1>2. \A s \in Students : L!StudentRegion(s) \in
          {"unobserved", "check", "repeated", "practice", "passed", "mixed"}
    BY Zenon DEF L!StudentRegion
<1> QED
    BY <1>1, <1>2, CellsAreNested, TroubledAreObserved DEF L!RegionTypeOK

\* A review leaves sessions, papers and presence alone.
LEMMA ReviewChangesNoSession ==
    ASSUME L!Reviews, NEW s \in Students, NEW own \in BOOLEAN
    PROVE  L!Observations(s, own)' = L!Observations(s, own)
<1>1. sessions' = sessions /\ published' = published /\ present' = present
    BY DEF L!Reviews, L!Review
<1> QED
    BY <1>1 DEF L!Observations, L!Observation, L!Counts, L!Visible, L!Stuck, L!Binding, L!Range

-----------------------------------------------------------------------------
(***************************************************************************)
(* The graph. The claim a card carries says nothing by itself: what makes  *)
(* it the last one is that a job which is running carries the newest       *)
(* token. That part is what the induction adds to the property.            *)
(***************************************************************************)
Statuses == {"none", "approved", "rejected"}

Bindings == [content : Nat, status : {"none", "approved"}]
Releases == [version : Nat, edges : [Possible -> Statuses],
             card : {"none", "draft", "approved"}, content : Nat, bound : Bindings]
JobRow   == [status : JobStatuses, attempts : Nat, token : Nat, late : BOOLEAN]
CardRow  == [source : {"none", "model", "reviewed"}, run : Nat, last : Nat]

Rows ==
    /\ job \in JobRow
    /\ card \in CardRow
    /\ claims \in Nat
    /\ runs \in [Workers -> Nat]
    /\ graph \in Releases

\* A job that is running carries the token of the latest claim.
RunningIsLatest == job.status = "running" => job.token = claims

GraphRowsInv == Rows /\ RunningIsLatest /\ GraphIsSound

-----------------------------------------------------------------------------
(* The card and its job.                                                   *)

\* Storing a card, completing and recovering a job keep the rows what they are.
LEMMA CardRows ==
    ASSUME Rows, NEW s \in {"none", "model", "reviewed"}, NEW r \in Nat
    PROVE  Stored(s, r) \in CardRow
BY DEF Stored, Rows, CardRow

LEMMA JobRows ==
    ASSUME Rows
    PROVE  /\ Done(job) \in JobRow
           /\ Recovered \in JobRow
           /\ Done(job).status # "running"
              \/ Done(job) = job
           /\ Recovered.status = "running" => Recovered = job
BY DEF Done, Recovered, AfterFailure, NoToken, Rows, JobRow, JobStatuses

\* A release is replaced by one that differs in one field and has the next number.
LEMMA NextRelease ==
    ASSUME NEW g \in Releases
    PROVE  Published(g) \in Releases /\ Published(g).edges = g.edges
<1>1. Published(g) = [version |-> g.version + 1, edges |-> g.edges, card |-> g.card,
                      content |-> g.content, bound |-> g.bound]
    BY DEF Published, Releases
<1> QED
    BY <1>1 DEF Releases

LEMMA OneChange ==
    ASSUME NEW g \in Releases
    PROVE  /\ \A edges \in [Possible -> Statuses] :
                 [g EXCEPT !.edges = edges] \in Releases /\ [g EXCEPT !.edges = edges].edges = edges
           /\ [g EXCEPT !.card = "draft"] \in Releases
           /\ [g EXCEPT !.card = "approved", !.content = 1] \in Releases
           /\ \A b \in Bindings : [g EXCEPT !.bound = b] \in Releases
           /\ [g EXCEPT !.card = "draft"].edges = g.edges
           /\ [g EXCEPT !.card = "approved", !.content = 1].edges = g.edges
           /\ \A b \in Bindings : [g EXCEPT !.bound = b].edges = g.edges
BY DEF Releases

\* A candidate enters the graph without touching what teachers decided.
LEMMA CandidateKeepsEdges ==
    ASSUME Rows PROVE Candidate \in Releases /\ Candidate.edges = graph.edges
<1>1. graph \in Releases
    BY DEF Rows
<1>2. /\ [graph EXCEPT !.card = "draft"] \in Releases
      /\ [graph EXCEPT !.card = "draft"].edges = graph.edges
    BY <1>1, OneChange
<1> QED
    BY <1>1, <1>2, NextRelease DEF Candidate

-----------------------------------------------------------------------------
(* One lemma for each group of actions.                                    *)

\* Everything but the review leaves the edges alone.
LEMMA JobActions ==
    ASSUME GraphRowsInv, Enqueue \/ SaveConfig \/ LeaseEnds \/ Backfill PROVE GraphRowsInv'
<1> USE DEF GraphRowsInv, GraphIsSound, NoCycles
<1>1. UNCHANGED graph /\ UNCHANGED claims /\ UNCHANGED runs
    BY DEF Enqueue, SaveConfig, LeaseEnds, Backfill
<1>2. CASE Enqueue \/ SaveConfig \/ LeaseEnds
    <2>1. card' = card
        BY <1>2 DEF Enqueue, SaveConfig, LeaseEnds
    <2>2. job' \in JobRow
        <3>1. \A s \in JobStatuses :
                 /\ [job EXCEPT !.status = s] \in JobRow
                 /\ [job EXCEPT !.status = s, !.attempts = 0] \in JobRow
                 /\ [job EXCEPT !.late = TRUE] \in JobRow
            BY DEF Rows, JobRow
        <3>2. \/ job' = job
              \/ job' = [job EXCEPT !.late = TRUE]
              \/ \E s \in JobStatuses : job' = [job EXCEPT !.status = s]
              \/ \E s \in JobStatuses : job' = [job EXCEPT !.status = s, !.attempts = 0]
            BY <1>2 DEF Enqueue, SaveConfig, LeaseEnds, JobStatuses
        <3>3. job \in JobRow
            BY DEF Rows
        <3>4. "queued" \in JobStatuses
            BY DEF JobStatuses
        <3> QED
            BY <3>1, <3>2, <3>3, <3>4
    <2>3. RunningIsLatest'
        BY <1>1, <1>2 DEF Enqueue, SaveConfig, LeaseEnds, RunningIsLatest, Rows, JobRow
    <2> QED
        BY <1>1, <2>1, <2>2, <2>3 DEF Rows, CardOfTheLastRun
<1>3. CASE Backfill
    <2>1. card' = Stored("reviewed", NoRun) /\ job' = Done(job)
        BY <1>3 DEF Backfill
    <2>2. card' \in CardRow
        BY <2>1, CardRows DEF NoRun
    <2>3. CardOfTheLastRun'
        BY <2>1 DEF Stored, CardOfTheLastRun
    <2>4. RunningIsLatest'
        BY <1>1, <2>1, JobRows DEF RunningIsLatest
    <2> QED
        BY <1>1, <2>1, <2>2, <2>3, <2>4, JobRows DEF Rows
<1> QED
    BY <1>2, <1>3

\* A claim gives the job the next token, which is then the latest.
LEMMA ClaimStep ==
    ASSUME GraphRowsInv, NEW w \in Workers, Claim(w) PROVE GraphRowsInv'
<1> USE DEF GraphRowsInv, GraphIsSound, NoCycles
<1>1. UNCHANGED graph /\ UNCHANGED card
    BY DEF Claim
<1>2. CASE Recovered.status = "queued" /\ configs > 0
    <2>1. /\ claims' = claims + 1
          /\ runs' = [runs EXCEPT ![w] = claims + 1]
          /\ job' = [Recovered EXCEPT !.status = "running", !.attempts = @ + 1,
                                      !.token = claims + 1, !.late = FALSE]
        BY <1>2 DEF Claim
    <2>2. job' \in JobRow
          /\ job'.token = claims + 1
        <3>1. Recovered \in JobRow /\ claims + 1 \in Nat
            BY JobRows DEF Rows
        <3>2. job' = [status |-> "running", attempts |-> Recovered.attempts + 1,
                      token |-> claims + 1, late |-> FALSE]
            BY <2>1, <3>1 DEF JobRow
        <3> QED
            BY <3>1, <3>2 DEF JobRow, JobStatuses
    <2>3. claims' \in Nat /\ runs' \in [Workers -> Nat]
        BY <2>1 DEF Rows
    <2> QED
        BY <1>1, <2>1, <2>2, <2>3 DEF Rows, RunningIsLatest, CardOfTheLastRun
<1>3. CASE ~(Recovered.status = "queued" /\ configs > 0)
    <2>1. job' = Recovered /\ claims' = claims /\ runs' = runs
        BY <1>3 DEF Claim
    <2>2. RunningIsLatest'
        BY <2>1, JobRows DEF RunningIsLatest
    <2> QED
        BY <1>1, <2>1, <2>2, JobRows DEF Rows, CardOfTheLastRun
<1> QED
    BY <1>2, <1>3

\* A run that is over: its card is stored only if the token it holds is the job's,
\* hence the latest.
LEMMA RunEnds ==
    ASSUME GraphRowsInv, NEW w \in Workers, Generated(w) \/ GenerationFailed(w) \/ WorkerDies(w)
    PROVE  GraphRowsInv'
<1> USE DEF GraphRowsInv, GraphIsSound, NoCycles
<1>1. UNCHANGED claims /\ runs' \in [Workers -> Nat] /\ runs[w] \in Nat
    BY DEF Generated, GenerationFailed, WorkerDies, Rows, NoRun
<1>2. CASE Generated(w) /\ Claimed(w)
    <2>1. card' = Stored("model", runs[w]) /\ job' = Done(job) /\ graph' = Candidate
        BY <1>2 DEF Generated
    <2>2. runs[w] = claims
        BY <1>2 DEF Claimed, RunningIsLatest
    <2>3. CardOfTheLastRun'
        BY <2>1, <2>2 DEF Stored, CardOfTheLastRun
    <2>4. card' \in CardRow
        BY <1>1, <2>1, CardRows
    <2>5. RunningIsLatest'
        BY <1>1, <2>1, JobRows DEF RunningIsLatest
    <2>6. Acyclic(graph'.edges)
        BY <2>1, CandidateKeepsEdges
    <2> QED
        BY <1>1, <2>1, <2>3, <2>4, <2>5, <2>6, JobRows, CandidateKeepsEdges DEF Rows
<1>3. CASE GenerationFailed(w)
    <2>1. card' = card /\ graph' = graph
        BY <1>3 DEF GenerationFailed
    <2>2. job' \in JobRow
          /\ (job'.status = "running" => job' = job)
        BY <1>3 DEF GenerationFailed, AfterFailure, Rows, JobRow, JobStatuses
    <2> QED
        BY <1>1, <2>1, <2>2 DEF Rows, RunningIsLatest, CardOfTheLastRun
<1>4. CASE WorkerDies(w) \/ (Generated(w) /\ ~Claimed(w))
    <2>1. UNCHANGED <<job, card, graph>>
        BY <1>4 DEF WorkerDies, Generated
    <2> QED
        BY <1>1, <2>1 DEF Rows, RunningIsLatest, CardOfTheLastRun
<1> QED
    BY <1>2, <1>3, <1>4

\* What several relations become when they are confirmed or ruled out together.
LEMMA ReviewIsAcyclic ==
    ASSUME Rows, NoCycles, NEW marked, NEW s \in {"approved", "rejected"}
    PROVE  Reviewed(marked, s) \in [Possible -> Statuses] /\ Acyclic(Reviewed(marked, s))
<1> DEFINE edges == [e \in Possible |-> IF e \in marked THEN s ELSE graph.edges[e]]
<1>1. edges \in [Possible -> Statuses] /\ graph.edges \in [Possible -> Statuses]
    BY DEF Rows, Releases, Statuses
<1>2. Reviewed(marked, s) = IF Acyclic(edges) THEN edges ELSE graph.edges
    BY DEF Reviewed
<1> HIDE DEF edges
<1> QED
    BY <1>1, <1>2 DEF NoCycles

\* A teacher's change leads from a release without cycles to one.
LEMMA ReviewStep ==
    ASSUME GraphRowsInv, NEW p \in Pages,
           OpenReview(p) \/ SaveEdge(p) \/ ReviewEdges(p) \/ SaveCard(p) \/ SaveBinding(p)
    PROVE  GraphRowsInv'
<1> USE DEF GraphRowsInv, GraphIsSound
<1>1. UNCHANGED <<job, card, runs, claims>>
    BY DEF OpenReview, SaveEdge, ReviewEdges, SaveCard, SaveBinding, Publish
<1>2. graph' \in Releases
      /\ Acyclic(graph'.edges)
    <2>1. graph \in Releases
        BY DEF Rows
    <2>2. CASE OpenReview(p)
        BY <2>2 DEF OpenReview, Rows, NoCycles
    <2>3. CASE SaveEdge(p)
        <3>1. PICK new \in Possible,
                   old \in {{}} \cup {{e} : e \in {d \in Possible : graph.edges[d] # "none"}} :
                 LET edges == [e \in Possible |-> IF e = new THEN "approved"
                                        ELSE IF e \in old THEN "none" ELSE graph.edges[e]]
                 IN  Acyclic(edges) /\ Publish(p, [graph EXCEPT !.edges = edges])
            BY <2>3 DEF SaveEdge
        <3> DEFINE edges == [e \in Possible |-> IF e = new THEN "approved"
                                        ELSE IF e \in old THEN "none" ELSE graph.edges[e]]
        <3>2. edges \in [Possible -> Statuses]
            BY DEF Rows, Releases, Statuses
        <3>3. Acyclic(edges) /\ Publish(p, [graph EXCEPT !.edges = edges])
            BY <3>1
        <3> HIDE DEF edges
        <3>4. graph' = Published([graph EXCEPT !.edges = edges])
            BY <3>3 DEF Publish
        <3> QED
            BY <3>2, <3>3, <3>4, <2>1, OneChange, NextRelease
    <2>4. CASE ReviewEdges(p)
        <3>1. PICK marked \in SUBSET Possible, s \in {"approved", "rejected"} :
                 Publish(p, [graph EXCEPT !.edges = Reviewed(marked, s)])
            BY <2>4 DEF ReviewEdges
        <3>2. graph' = Published([graph EXCEPT !.edges = Reviewed(marked, s)])
            BY <3>1 DEF Publish
        <3>3. Reviewed(marked, s) \in [Possible -> Statuses] /\ Acyclic(Reviewed(marked, s))
            BY ReviewIsAcyclic
        <3> QED
            BY <3>2, <3>3, <2>1, OneChange, NextRelease
    <2>5. CASE SaveCard(p) \/ SaveBinding(p)
        <3>1. graph' = Published([graph EXCEPT !.card = "approved", !.content = 1])
              \/ graph' = Published([graph EXCEPT !.bound =
                            [content |-> graph.content, status |-> "approved"]])
            BY <2>5 DEF SaveCard, SaveBinding, Publish
        <3>2. [content |-> graph.content, status |-> "approved"] \in Bindings
            BY <2>1 DEF Releases, Bindings
        <3> QED
            BY <3>1, <3>2, <2>1, OneChange, NextRelease DEF NoCycles
    <2> QED
        BY <2>2, <2>3, <2>4, <2>5
<1> QED
    BY <1>1, <1>2 DEF Rows, NoCycles, RunningIsLatest, CardOfTheLastRun

-----------------------------------------------------------------------------
LEMMA GraphStarts == GraphInit => GraphRowsInv
<1> SUFFICES ASSUME GraphInit PROVE GraphRowsInv
    OBVIOUS
<1>1. NoEdges \in [Possible -> Statuses] /\ Acyclic(NoEdges)
    BY DEF NoEdges, Statuses, Acyclic
<1>2. Rows
    BY <1>1
    DEF GraphInit, Rows, NoCard, NoRun, NoToken, JobStatuses, JobRow, CardRow, Releases,
        Bindings
<1> QED
    BY <1>1, <1>2 DEF GraphInit, GraphRowsInv, RunningIsLatest, GraphIsSound, CardOfTheLastRun,
                      NoCycles, NoCard

LEMMA GraphSteps == GraphRowsInv /\ [GraphNext]_lgVars => GraphRowsInv'
<1> SUFFICES ASSUME GraphRowsInv, [GraphNext]_lgVars PROVE GraphRowsInv'
    OBVIOUS
<1>1. CASE Enqueue \/ SaveConfig \/ LeaseEnds \/ Backfill
    BY <1>1, JobActions
<1>2. CASE Claiming
    BY <1>2, ClaimStep DEF Claiming
<1>3. CASE Generates \/ Failures \/ Deaths
    BY <1>3, RunEnds DEF Generates, Failures, Deaths
<1>4. CASE OpensReview \/ SavesEdge \/ ReviewsEdges \/ SavesCard \/ SavesBinding
    BY <1>4, ReviewStep DEF OpensReview, SavesEdge, ReviewsEdges, SavesCard, SavesBinding
<1>5. CASE UNCHANGED lgVars
    BY <1>5
    DEF lgVars, GraphRowsInv, Rows, RunningIsLatest, GraphIsSound, CardOfTheLastRun, NoCycles
<1> QED
    BY <1>1, <1>2, <1>3, <1>4, <1>5 DEF GraphNext


\* Claims are numbered, and what a job, a run or a card says of them is not ahead.
Numbered ==
    /\ claims <= MaxClaims /\ job.token <= claims /\ job.attempts <= claims
    /\ \A w \in Workers : runs[w] <= claims
    /\ card.run <= claims /\ card.last <= claims
    /\ graph.version <= MaxReleases

\* A job that is done has its card.
DoneHasCard == job.status = "completed" => card # NoCard

\* A page shows a release of then: the latest one, if it has its number.
Seen ==
    /\ pages \in [Pages -> Releases]
    /\ \A p \in Pages : /\ pages[p].version <= graph.version
                        /\ pages[p].version = graph.version => pages[p] = graph

GraphInv == GraphRowsInv /\ Numbered /\ DoneHasCard /\ Seen

LEMMA GraphStart == GraphInit => GraphInv
<1> SUFFICES ASSUME GraphInit PROVE GraphInv
    OBVIOUS
<1>1. GraphAssumption
    BY LearningAssumption DEF LearningAssumption
<1>2. Numbered /\ DoneHasCard
    BY <1>1 DEF GraphInit, Numbered, DoneHasCard, GraphAssumption, NoCard, NoRun, NoToken
<1>3. Seen
    BY GraphStarts DEF GraphInit, Seen, GraphRowsInv, Rows, Releases
<1> QED
    BY <1>2, <1>3, GraphStarts DEF GraphInv

LEMMA GraphRest == GraphInv /\ UNCHANGED lgVars => GraphInv'
<1> SUFFICES ASSUME GraphInv, UNCHANGED lgVars PROVE GraphInv'
    OBVIOUS
<1>1. GraphRowsInv'
    BY GraphSteps DEF GraphInv
<1>2. /\ job' = job /\ card' = card /\ runs' = runs /\ claims' = claims /\ graph' = graph
      /\ pages' = pages
    BY DEF lgVars
<1> QED
    BY <1>1, <1>2 DEF GraphInv, Numbered, DoneHasCard, Seen

\* A change of a page is of the release it shows, and is the next one.
LEMMA PublicationIsNext ==
    ASSUME Rows, SavesEdge \/ ReviewsEdges \/ SavesCard \/ SavesBinding
    PROVE  /\ graph.version < MaxReleases
           /\ graph'.version = graph.version + 1
           /\ pages' = pages
<1>1. PICK p \in Pages : SaveEdge(p) \/ ReviewEdges(p) \/ SaveCard(p) \/ SaveBinding(p)
    BY DEF SavesEdge, ReviewsEdges, SavesCard, SavesBinding
<1>2. /\ pages' = pages /\ graph.version < MaxReleases
      /\ \E g : graph' = Published(g) /\ (\/ \E x : g = [graph EXCEPT !.edges = x]
                                        \/ g = [graph EXCEPT !.card = "approved", !.content = 1]
                                        \/ \E x : g = [graph EXCEPT !.bound = x])
  <2>1. CASE SaveEdge(p)
      BY <2>1 DEF SaveEdge, Publish, Current
  <2>2. CASE ReviewEdges(p)
      BY <2>2 DEF ReviewEdges, Publish, Current
  <2>3. CASE SaveCard(p) \/ SaveBinding(p)
      BY <2>3 DEF SaveCard, SaveBinding, Publish, Current
  <2> QED
      BY <1>1, <2>1, <2>2, <2>3
<1>3. graph'.version = graph.version + 1
  <2>1. PICK g : /\ graph' = Published(g)
                 /\ \/ \E x : g = [graph EXCEPT !.edges = x]
                    \/ g = [graph EXCEPT !.card = "approved", !.content = 1]
                    \/ \E x : g = [graph EXCEPT !.bound = x]
      BY <1>2
  <2>2. graph \in Releases
      BY DEF Rows
  <2>3. g.version = graph.version /\ "version" \in DOMAIN g
      BY <2>1, <2>2 DEF Releases
  <2> QED
      BY <2>1, <2>3 DEF Published
<1> QED
    BY <1>2, <1>3

LEMMA NumberedStep ==
    ASSUME GraphInv, GraphNext PROVE Numbered'
<1>1. Rows /\ Numbered
    BY DEF GraphInv, GraphRowsInv
<1>2. /\ job.status \in JobStatuses /\ job.token \in Nat /\ job.attempts \in Nat
      /\ claims \in Nat /\ MaxClaims \in Nat /\ MaxReleases \in Nat
      /\ \A w \in Workers : runs[w] \in Nat
      /\ card.run \in Nat /\ card.last \in Nat /\ graph.version \in Nat
  <2>1. GraphAssumption
      BY LearningAssumption DEF LearningAssumption
  <2> QED
      BY <1>1, <2>1 DEF Rows, JobRow, CardRow, Releases, GraphAssumption
<1>3. /\ Recovered.token <= claims /\ Recovered.attempts <= claims
      /\ Recovered.token \in Nat /\ Recovered.attempts \in Nat
      /\ Done(job).token = job.token /\ Done(job).attempts = job.attempts
  <2>1. job \in JobRow
      BY <1>1 DEF Rows
  <2> QED
      BY <1>1, <1>2, <2>1 DEF Recovered, Done, Numbered, JobRow, NoToken
<1>4. CASE Enqueue \/ SaveConfig \/ LeaseEnds
  <2>1. UNCHANGED <<card, runs, claims, graph>>
      BY <1>4 DEF Enqueue, SaveConfig, LeaseEnds
  <2>2. job' = job \/ (job'.token = job.token /\ job'.attempts \in {0, job.attempts})
      BY <1>1, <1>4 DEF Enqueue, SaveConfig, LeaseEnds, Rows, JobRow
  <2> QED
      BY <1>1, <1>2, <2>1, <2>2 DEF Numbered
<1>5. CASE Backfill
  <2>1. job' = Done(job) /\ UNCHANGED <<runs, claims, graph>>
      BY <1>5 DEF Backfill
  <2>2. card'.run <= claims /\ card'.last <= claims
      BY <1>1, <1>2, <1>5 DEF Backfill, Stored, Numbered, NoRun
  <2> QED
      BY <1>1, <1>3, <2>1, <2>2 DEF Numbered
<1>6. CASE Claiming
  <2>1. PICK w \in Workers : Claim(w)
      BY <1>6 DEF Claiming
  <2>2. UNCHANGED <<card, graph>>
      BY <2>1 DEF Claim
  <2>3. CASE Recovered.status = "queued" /\ configs > 0
    <3>1. /\ claims < MaxClaims /\ claims' = claims + 1
          /\ runs' = [runs EXCEPT ![w] = claims + 1]
          /\ job' = [Recovered EXCEPT !.status = "running", !.attempts = @ + 1,
                                      !.token = claims + 1, !.late = FALSE]
        BY <2>1, <2>3 DEF Claim
    <3>2. job'.token = claims + 1 /\ job'.attempts = Recovered.attempts + 1
        BY <3>1, JobRows, <1>1 DEF JobRow
    <3>3. claims' <= MaxClaims /\ job'.token <= claims' /\ job'.attempts <= claims'
        BY <1>2, <1>3, <3>1, <3>2
    <3>4. \A v \in Workers : runs'[v] <= claims'
        BY <1>1, <1>2, <3>1 DEF Rows, Numbered
    <3> QED
        BY <1>1, <1>2, <2>2, <3>1, <3>3, <3>4 DEF Numbered
  <2>4. CASE ~(Recovered.status = "queued" /\ configs > 0)
    <3>1. job' = Recovered /\ claims' = claims /\ runs' = runs
        BY <2>1, <2>4 DEF Claim
    <3> QED
        BY <1>1, <1>3, <2>2, <3>1 DEF Numbered
  <2> QED
      BY <2>3, <2>4
<1>7. CASE Generates \/ Failures \/ Deaths
  <2>1. PICK w \in Workers : Generated(w) \/ GenerationFailed(w) \/ WorkerDies(w)
      BY <1>7 DEF Generates, Failures, Deaths
  <2>2. claims' = claims /\ runs' = [runs EXCEPT ![w] = NoRun]
      BY <2>1 DEF Generated, GenerationFailed, WorkerDies
  <2>3. \A v \in Workers : runs'[v] <= claims
      BY <1>1, <1>2, <2>2 DEF Rows, Numbered, NoRun
  <2>4. job'.token <= claims /\ job'.attempts <= claims
    <3>1. job' \in {job, Done(job), [job EXCEPT !.status = AfterFailure(job)]}
        BY <2>1 DEF Generated, GenerationFailed, WorkerDies
    <3>2. [job EXCEPT !.status = AfterFailure(job)].token = job.token
          /\ [job EXCEPT !.status = AfterFailure(job)].attempts = job.attempts
        BY <1>1 DEF Rows, JobRow
    <3> QED
        BY <1>1, <1>3, <3>1, <3>2 DEF Numbered
  <2>5. card'.run <= claims /\ card'.last <= claims
    <3>1. card' = card \/ card' = Stored("model", runs[w])
        BY <2>1 DEF Generated, GenerationFailed, WorkerDies
    <3> QED
        BY <1>1, <1>2, <3>1 DEF Stored, Numbered
  <2>6. graph'.version <= MaxReleases
      BY <1>1, <2>1 DEF Generated, GenerationFailed, WorkerDies, Numbered
  <2> QED
      BY <1>1, <2>2, <2>3, <2>4, <2>5, <2>6 DEF Numbered
<1>8. CASE OpensReview \/ SavesEdge \/ ReviewsEdges \/ SavesCard \/ SavesBinding
  <2>1. UNCHANGED <<job, card, runs, claims>>
      BY <1>8 DEF OpensReview, SavesEdge, ReviewsEdges, SavesCard, SavesBinding, OpenReview,
                  SaveEdge, ReviewEdges, SaveCard, SaveBinding, Publish
  <2>2. CASE OpensReview
      BY <1>1, <2>1, <2>2 DEF OpensReview, OpenReview, Numbered
  <2>3. CASE ~OpensReview
    <3>1. /\ graph.version < MaxReleases
          /\ graph'.version = graph.version + 1
        BY <1>8, <2>3, PublicationIsNext DEF GraphInv, GraphRowsInv
    <3> QED
        BY <1>1, <1>2, <2>1, <3>1 DEF Numbered
  <2> QED
      BY <2>2, <2>3
<1> QED
    BY <1>4, <1>5, <1>6, <1>7, <1>8 DEF GraphNext

LEMMA DoneStep ==
    ASSUME GraphInv, GraphNext PROVE DoneHasCard'
<1>1. job \in JobRow
    BY DEF GraphInv, GraphRowsInv, Rows
<1>2. card # NoCard => card' # NoCard
  <2>1. \A s \in {"model", "reviewed"} : \A r : Stored(s, r) # NoCard
      BY DEF Stored, NoCard
  <2>2. card' = card \/ \E s \in {"model", "reviewed"} : \E r : card' = Stored(s, r)
      BY DEF GraphNext, Enqueue, SaveConfig, Claiming, Claim, LeaseEnds, Generates, Generated,
             Failures, GenerationFailed, Deaths, WorkerDies, Backfill, OpensReview, OpenReview,
             SavesEdge, SaveEdge, ReviewsEdges, ReviewEdges, SavesCard, SaveCard, SavesBinding,
             SaveBinding, Publish
  <2> QED
      BY <2>1, <2>2
<1>3. job'.status = "completed" => job' = job \/ card' # NoCard
  <2>1. \A s \in {"model", "reviewed"} : \A r : Stored(s, r) # NoCard
      BY DEF Stored, NoCard
  <2>2. CASE Enqueue \/ SaveConfig \/ LeaseEnds
      BY <1>1, <2>2 DEF Enqueue, SaveConfig, LeaseEnds, JobRow
  <2>3. CASE Claiming
    <3>1. PICK w \in Workers : Claim(w)
        BY <2>3 DEF Claiming
    <3>2. Recovered = job \/ Recovered.status # "completed"
        BY <1>1 DEF Recovered, AfterFailure, JobRow
    <3>3. Recovered \in JobRow
        BY JobRows DEF GraphInv, GraphRowsInv
    <3>4. CASE Recovered.status = "queued" /\ configs > 0
        BY <3>1, <3>3, <3>4 DEF Claim, JobRow
    <3>5. CASE ~(Recovered.status = "queued" /\ configs > 0)
        BY <3>1, <3>2, <3>5 DEF Claim
    <3> QED
        BY <3>4, <3>5
  <2>4. CASE Generates \/ Backfill
      BY <2>1, <2>4 DEF Generates, Generated, Backfill
  <2>5. CASE Failures
      BY <1>1, <2>5 DEF Failures, GenerationFailed, AfterFailure, JobRow
  <2>6. CASE Deaths \/ OpensReview \/ SavesEdge \/ ReviewsEdges \/ SavesCard \/ SavesBinding
      BY <2>6 DEF Deaths, WorkerDies, OpensReview, OpenReview, SavesEdge, SaveEdge, ReviewsEdges,
             ReviewEdges, SavesCard, SaveCard, SavesBinding, SaveBinding, Publish
  <2> QED
      BY <2>2, <2>3, <2>4, <2>5, <2>6 DEF GraphNext
<1> QED
    BY <1>2, <1>3 DEF GraphInv, DoneHasCard

\* A worker's candidate is the next release, or the one there is.
LEMMA CandidateIsNext ==
    ASSUME Rows
    PROVE  /\ Candidate = graph \/ Candidate.version = graph.version + 1
           /\ Decided(Candidate) = Decided(graph)
<1>1. graph \in Releases
    BY DEF Rows
<1>2. CASE graph.card = "none"
  <2>1. Candidate = [graph EXCEPT !.card = "draft", !.version = graph.version + 1]
      BY <1>1, <1>2 DEF Candidate, Published, Releases
  <2> QED
      BY <1>1, <1>2, <2>1 DEF Releases, Decided
<1>3. CASE graph.card # "none"
    BY <1>3 DEF Candidate
<1> QED
    BY <1>2, <1>3

\* Whatever is not a decision of a page leaves the release or adds the candidate.
LEMMA OtherSteps ==
    ASSUME GraphNext, ~(SavesEdge \/ ReviewsEdges \/ SavesCard \/ SavesBinding)
    PROVE  \/ graph' = graph
           \/ graph' = Candidate /\ pages' = pages
<1>1. CASE Enqueue \/ SaveConfig \/ Claiming \/ LeaseEnds \/ Failures \/ Deaths \/ Backfill
           \/ OpensReview
    BY <1>1 DEF Enqueue, SaveConfig, Claiming, Claim, LeaseEnds, Failures, GenerationFailed,
            Deaths, WorkerDies, Backfill, OpensReview, OpenReview
<1>2. CASE Generates
    BY <1>2 DEF Generates, Generated
<1> QED
    BY <1>1, <1>2 DEF GraphNext

\* A page opened now shows the latest release, and the next one is not shown yet.
LEMMA SeenStep == ASSUME GraphInv, GraphNext PROVE Seen'
<1>1. Rows /\ Seen /\ graph.version \in Nat
    BY DEF GraphInv, GraphRowsInv, Rows, Releases
<1>2. CASE pages' = pages /\ (graph' = graph \/ graph'.version = graph.version + 1)
  <2>1. CASE graph' = graph
      BY <1>1, <1>2, <2>1 DEF Seen
  <2>2. CASE graph'.version = graph.version + 1
    <3> SUFFICES ASSUME NEW p \in Pages
                 PROVE  pages[p].version <= graph.version + 1 /\ pages[p].version # graph.version + 1
        BY <1>1, <1>2, <2>2 DEF Seen
    <3>1. pages[p].version <= graph.version
        BY <1>1 DEF Seen
    <3>2. pages[p].version \in Nat
        BY <1>1 DEF Seen, Releases
    <3> QED
        BY <1>1, <3>1, <3>2
  <2> QED
      BY <1>2, <2>1, <2>2
<1>3. CASE SavesEdge \/ ReviewsEdges \/ SavesCard \/ SavesBinding
    BY <1>1, <1>2, <1>3, PublicationIsNext
<1>4. CASE OpensReview
    BY <1>1, <1>4 DEF OpensReview, OpenReview, Seen, Rows
<1>5. CASE ~(SavesEdge \/ ReviewsEdges \/ SavesCard \/ SavesBinding \/ OpensReview)
  <2>1. graph' = Candidate /\ pages' = pages => Seen'
      BY <1>1, <1>2, CandidateIsNext
  <2>2. graph' = graph => pages' = pages
      BY <1>5 DEF GraphNext, Enqueue, SaveConfig, Claiming, Claim, LeaseEnds, Generates, Generated,
             Failures, GenerationFailed, Deaths, WorkerDies, Backfill
  <2> QED
      BY <1>2, <1>5, <2>1, <2>2, OtherSteps
<1> QED
    BY <1>3, <1>4, <1>5

LEMMA GraphStep == ASSUME GraphInv, GraphNext PROVE GraphInv'
BY GraphSteps, NumberedStep, DoneStep, SeenStep DEF GraphInv

LEMMA GraphHolds == GraphInv => GraphTypeOK /\ GraphIsSound
<1> SUFFICES ASSUME GraphInv PROVE GraphTypeOK /\ GraphIsSound
    OBVIOUS
<1>1. GraphAssumption
    BY LearningAssumption DEF LearningAssumption
<1>2. Rows /\ Numbered /\ DoneHasCard /\ Seen /\ GraphIsSound
    BY DEF GraphInv, GraphRowsInv
<1>3. job.attempts \in 0..MaxClaims /\ job.token \in 0..MaxClaims
    BY <1>1, <1>2 DEF Rows, JobRow, Numbered, GraphAssumption
<1>4. card.run \in 0..MaxClaims /\ card.last \in 0..MaxClaims
    BY <1>1, <1>2 DEF Rows, CardRow, Numbered, GraphAssumption
<1>5. job \in [status : JobStatuses, attempts : 0..MaxClaims, token : 0..MaxClaims, late : BOOLEAN]
    BY <1>2, <1>3 DEF Rows, JobRow
<1>6. card \in [source : {"none", "model", "reviewed"}, run : 0..MaxClaims, last : 0..MaxClaims]
    BY <1>2, <1>4 DEF Rows, CardRow
<1> QED
    BY <1>2, <1>5, <1>6 DEF GraphTypeOK, Rows, Releases, Statuses, Numbered, DoneHasCard, Seen

\* What is decided changes at a page, and at none that shows other decisions.
LEMMA DecisionsSeen ==
    ASSUME GraphInv, GraphNext
    PROVE  /\ Decided(graph') # Decided(graph) => \E p \in Pages : Decides(p)
           /\ \A p \in Pages : Decided(pages[p]) # Decided(graph) => ~Decides(p)
<1>1. Rows /\ Seen
    BY DEF GraphInv, GraphRowsInv
<1>2. ASSUME Decided(graph') # Decided(graph) PROVE \E p \in Pages : Decides(p)
  <2>1. SavesEdge \/ ReviewsEdges \/ SavesCard \/ SavesBinding
      BY <1>1, <1>2, OtherSteps, CandidateIsNext
  <2> QED
      BY <2>1 DEF Decides, SavesEdge, ReviewsEdges, SavesCard, SavesBinding
<1>3. ASSUME NEW p \in Pages, Decides(p) PROVE Decided(pages[p]) = Decided(graph)
  <2>1. Current(p)
      BY <1>3 DEF Decides, SaveEdge, ReviewEdges, SaveCard, SaveBinding, Publish
  <2>2. pages[p] = graph
      BY <1>1, <2>1 DEF Current, Seen
  <2> QED
      BY <2>2
<1> QED
    BY <1>2, <1>3

-----------------------------------------------------------------------------
(***************************************************************************)
(* Practice. The book of wrong questions lists what the log says, a page   *)
(* sends its answers under one key and stores all of them, and what is     *)
(* consolidated is counted from the log by a fold.                         *)
(***************************************************************************)
Entry == [part : Parts, day : Nat, outcome : P!Outcomes, purpose : {"learn", "verify"},
          key : (Tabs \cup {"none"}) \X Nat]

\* The numbers of the pages of a tab that sent attempts.
Sent(t) == {log[i].key[2] : i \in {j \in DOMAIN log : log[j].key[1] = t}}

InOrder ==
    /\ log \in Seq(Entry) /\ day \in 1..MaxDay
    /\ \A i \in DOMAIN log : log[i].day \in 1..day
    /\ \A i, j \in DOMAIN log : i <= j => log[i].day <= log[j].day

Keyed ==
    /\ \A i \in DOMAIN log : log[i].key[1] = "none" => log[i].key = P!NoKey
    /\ \A i \in DOMAIN log : log[i].key[2] <= MaxEvents
    /\ tab \in [Tabs -> [key : (Tabs \cup {"none"}) \X Nat, members : SUBSET Parts]]
    /\ \A t \in Tabs : tab[t] # P!Closed =>
          /\ tab[t].key[1] = t
          /\ tab[t].key[2] \in 1..(1 + Cardinality(Sent(t)))

Booked ==
    /\ book \subseteq Parts /\ mastered \subseteq Parts /\ viewed \subseteq Parts
    /\ flips \in Nat
    /\ \A p \in book : \E i \in DOMAIN log :
          /\ log[i].part = p /\ log[i].key = P!NoKey
          /\ log[i].outcome = "wrong" /\ log[i].purpose = "verify"

PracticeInv == InOrder /\ Keyed /\ Booked /\ P!StoredWhole

\* What a diagnosis gave away today has left its mark, of today or of an earlier day.
Marked ==
    /\ told \subseteq Parts /\ assisted \in [Parts -> 0..day]
    /\ \A p \in told : assisted[p] # P!NoDay

-----------------------------------------------------------------------------
LEMMA PracticeAssumed ==
    /\ IsFiniteSet(Parts) /\ Personal \subseteq Parts
    /\ "none" \notin Tabs
    /\ Jumps \subseteq Nat \ {0} /\ MaxDay \in Nat \ {0} /\ MaxEvents \in Nat
<1>1. P!PracticeAssumption
    BY LearningAssumption DEF LearningAssumption
<1>2. \A s : P!IsFiniteSet(s) <=> IsFiniteSet(s)
    BY DEF P!IsFiniteSet, IsFiniteSet
<1> QED
    BY <1>1, <1>2 DEF P!PracticeAssumption

LEMMA SameSizeOfPractice == \A s : P!Cardinality(s) = Cardinality(s)
BY Zenon DEF P!Cardinality, Cardinality

\* A finite set is listed without a repetition.
LEMMA SetListed ==
    ASSUME NEW S, IsFiniteSet(S)
    PROVE  /\ P!SetToSeq(S) \in [1..Cardinality(S) -> S]
           /\ \A i, j \in 1..Cardinality(S) :
                 P!SetToSeq(S)[i] = P!SetToSeq(S)[j] => i = j
           /\ \A x \in S : \E i \in 1..Cardinality(S) : P!SetToSeq(S)[i] = x
<1>1. Cardinality(S) \in Nat /\ ExistsBijection(1..Cardinality(S), S)
    BY FS_CardinalityType
<1>2. P!Cardinality(S) = Cardinality(S)
    BY SameSizeOfPractice
<1>3. PICK f \in Bijection(1..Cardinality(S), S) : TRUE
    BY <1>1 DEF ExistsBijection
<1>4. f \in [1..Cardinality(S) -> S] /\ P!IsInjective(f)
    BY <1>3 DEF Bijection, Injection, IsInjective, P!IsInjective
<1>5. P!SetToSeq(S) \in [1..Cardinality(S) -> S] /\ P!IsInjective(P!SetToSeq(S))
    BY <1>2, <1>4 DEF P!SetToSeq
<1>6. \A i, j \in 1..Cardinality(S) : P!SetToSeq(S)[i] = P!SetToSeq(S)[j] => i = j
    BY <1>5 DEF P!IsInjective
<1>7. P!SetToSeq(S) \in Injection(1..Cardinality(S), S)
    BY <1>5, <1>6 DEF Injection, IsInjective
<1>8. Cardinality(1..Cardinality(S)) = Cardinality(S)
    BY <1>1, FS_Interval
<1>9. P!SetToSeq(S) \in Surjection(1..Cardinality(S), S)
    BY <1>7, <1>8, FS_Injection
<1>10. \A x \in S : \E i \in 1..Cardinality(S) : P!SetToSeq(S)[i] = x
    BY <1>9 DEF Surjection
<1> QED
    BY <1>5, <1>6, <1>10

LEMMA Removed ==
    ASSUME NEW S, NEW s \in Seq(S), NEW i \in DOMAIN s
    PROVE  /\ P!RemoveAt(s, i) \in Seq(S)
           /\ Len(P!RemoveAt(s, i)) = Len(s) - 1
           /\ \A k \in 1..(Len(s) - 1) :
                 P!RemoveAt(s, i)[k] = s[IF k < i THEN k ELSE k + 1]
<1> DEFINE a == SubSeq(s, 1, i - 1)
           b == SubSeq(s, i + 1, Len(s))
<1>1. /\ a \in Seq(S) /\ Len(a) = i - 1 /\ \A k \in 1..(i - 1) : a[k] = s[k]
    OBVIOUS
<1>2. /\ b \in Seq(S) /\ Len(b) = Len(s) - i /\ \A k \in 1..(Len(s) - i) : b[k] = s[i + k]
    OBVIOUS
<1>3. P!RemoveAt(s, i) = a \o b
    BY DEF P!RemoveAt
<1> HIDE DEF a, b
<1>4. a \o b \in Seq(S) /\ Len(a \o b) = Len(s) - 1
    BY <1>1, <1>2
<1>5. ASSUME NEW k \in 1..(Len(s) - 1)
      PROVE  (a \o b)[k] = s[IF k < i THEN k ELSE k + 1]
  <2>1. CASE k < i
      BY <1>1, <1>2, <2>1
  <2>2. CASE ~ (k < i)
    <3>1. k - (i - 1) \in 1..(Len(s) - i)
        BY <2>2
    <3>2. (a \o b)[k] = b[k - (i - 1)]
        BY <1>1, <1>2, <2>2
    <3>3. b[k - (i - 1)] = s[i + (k - (i - 1))] /\ i + (k - (i - 1)) = k + 1
        BY <1>2, <3>1
    <3> QED
        BY <2>2, <3>1, <3>3, <3>2
  <2> QED
      BY <2>1, <2>2
<1> QED
    BY <1>3, <1>4, <1>5

LEMMA SentFinite ==
    ASSUME NEW l, NEW S, l \in Seq(S), NEW t
    PROVE  LET K == {l[i].key[2] : i \in {j \in DOMAIN l : l[j].key[1] = t}}
           IN  IsFiniteSet(K) /\ Cardinality(K) \in Nat /\ Cardinality(K) <= Len(l)
<1> DEFINE Those == {j \in DOMAIN l : l[j].key[1] = t}
           K == {l[i].key[2] : i \in Those}
           f == [i \in Those |-> l[i].key[2]]
<1>1. Those \in SUBSET (1..Len(l)) /\ Len(l) \in Nat
    OBVIOUS
<1>2. IsFiniteSet(1..Len(l)) /\ Cardinality(1..Len(l)) = Len(l)
  <2>1. Len(l) \in Nat /\ Len(l) \in Int /\ 1 \in Int
      OBVIOUS
  <2> QED
      BY <2>1, FS_Interval
<1>3. IsFiniteSet(Those) /\ Cardinality(Those) <= Len(l)
    BY <1>1, <1>2, FS_Subset
<1>4. f \in Surjection(Those, K)
    BY Zenon DEF Surjection
<1> HIDE DEF Those, K, f
<1>5. IsFiniteSet(K) /\ Cardinality(K) <= Cardinality(Those)
    BY <1>3, <1>4, FS_Surjection
<1>6. Cardinality(K) \in Nat /\ Cardinality(Those) \in Nat
    BY <1>3, <1>5, FS_CardinalityType
<1>7. IsFiniteSet(K) /\ Cardinality(K) \in Nat /\ Cardinality(K) <= Len(l)
    BY <1>1, <1>3, <1>5, <1>6
<1> QED
    BY <1>7 DEF K, Those

LEMMA PracticeRest ==
    ASSUME PracticeInv, UNCHANGED <<day, log, book, mastered, viewed, tab, flips>>
    PROVE  PracticeInv'
<1>1. UNCHANGED <<day, log, book, mastered, viewed, tab, flips>>
    OBVIOUS
<1>2. InOrder'
    BY <1>1 DEF PracticeInv, InOrder
<1>3. \A t : Sent(t)' = Sent(t)
    BY <1>1 DEF Sent
<1>4. Keyed'
    BY <1>1, <1>3 DEF PracticeInv, Keyed, P!NoKey, P!Closed
<1>5. Booked' /\ P!StoredWhole'
    BY <1>1 DEF PracticeInv, Booked, P!StoredWhole, P!NoKey
<1> QED
    BY <1>2, <1>4, <1>5 DEF PracticeInv

\* The state at the start.
LEMMA PracticeStart == P!PracticeInit => PracticeInv
<1> SUFFICES ASSUME P!PracticeInit PROVE PracticeInv
    OBVIOUS
<1> DEFINE E == Parts \ Personal
           N == Cardinality(E)
<1>1. IsFiniteSet(E) /\ N \in Nat
    BY PracticeAssumed, FS_Difference, FS_CardinalityType
<1>2. P!Cardinality(E) = N
    BY SameSizeOfPractice
<1>3. /\ day = 1 /\ book = E /\ mastered = {} /\ viewed = {} /\ flips = 0
      /\ tab = [t \in Tabs |-> P!Closed]
      /\ log = [i \in 1..N |-> P!Original(P!SetToSeq(E)[i])]
    BY <1>2 DEF P!PracticeInit
<1>4. /\ P!SetToSeq(E) \in [1..N -> E]
      /\ \A x \in E : \E i \in 1..N : P!SetToSeq(E)[i] = x
    BY <1>1, SetListed
<1>5. \A x : P!Original(x) = [part |-> x, day |-> 1, outcome |-> "wrong", purpose |-> "verify",
                            key |-> P!NoKey]
    BY <1>3 DEF P!Original
<1> HIDE DEF E, N
<1>6. \A x \in E : P!Original(x) \in Entry
  <2>1. P!NoKey \in (Tabs \cup {"none"}) \X Nat
      BY DEF P!NoKey
  <2> QED
      BY <1>5, <2>1 DEF Entry, P!Outcomes, E
<1>7. /\ log \in Seq(Entry) /\ DOMAIN log = 1..N /\ Len(log) = N
      /\ \A i \in 1..N : log[i] = P!Original(P!SetToSeq(E)[i])
  <2>1. log \in [1..N -> Entry]
      BY <1>3, <1>4, <1>6
  <2> QED
      BY <1>1, <1>3, <2>1
<1>8. \A i \in 1..N : log[i].day = 1 /\ log[i].key = P!NoKey /\ log[i].outcome = "wrong"
                     /\ log[i].purpose = "verify" /\ log[i].part = P!SetToSeq(E)[i]
    BY <1>5, <1>7
<1>9. InOrder
    BY <1>3, <1>7, <1>8, PracticeAssumed DEF InOrder
<1>10. Keyed
  <2>1. \A t \in Tabs : tab[t] = P!Closed
      BY <1>3
  <2>2. P!NoKey[2] = 0 /\ 0 <= MaxEvents
      BY PracticeAssumed DEF P!NoKey
  <2>3. P!Closed \in [key : (Tabs \cup {"none"}) \X Nat, members : SUBSET Parts]
      BY DEF P!Closed, P!NoKey
  <2> QED
      BY <1>3, <1>7, <1>8, <2>1, <2>2, <2>3 DEF Keyed
<1>11. Booked
  <2>1. E \subseteq Parts
      BY DEF E
  <2>2. ASSUME NEW p \in book
        PROVE  \E i \in DOMAIN log : /\ log[i].part = p /\ log[i].key = P!NoKey
                                     /\ log[i].outcome = "wrong" /\ log[i].purpose = "verify"
    <3>1. PICK i \in 1..N : P!SetToSeq(E)[i] = p
        BY <1>3, <1>4, <2>2
    <3> QED
        BY <1>7, <1>8, <3>1
  <2> QED
      BY <1>3, <2>1, <2>2 DEF Booked
<1>12. P!StoredWhole
    BY <1>7, <1>8 DEF P!StoredWhole
<1> QED
    BY <1>9, <1>10, <1>11, <1>12 DEF PracticeInv

LEMMA MarkedStart == P!PracticeInit => Marked
BY DEF P!PracticeInit, Marked, P!NoDay

-----------------------------------------------------------------------------
\* While no attempt of a page is lost, a tab's open page keeps its number free.
LEMMA TabsStay ==
    ASSUME Keyed, log \in Seq(Entry), log' \in Seq(Entry), tab' = tab,
           \A i \in DOMAIN log : log[i].key[1] \in Tabs =>
              \E k \in DOMAIN log' : log'[k].key = log[i].key
    PROVE  /\ tab' \in [Tabs -> [key : (Tabs \cup {"none"}) \X Nat, members : SUBSET Parts]]
           /\ \A t \in Tabs : tab'[t] # P!Closed =>
                 /\ tab'[t].key[1] = t
                 /\ tab'[t].key[2] \in 1..(1 + Cardinality(Sent(t)'))
<1>1. ASSUME NEW t \in Tabs, tab'[t] # P!Closed
      PROVE  tab'[t].key[1] = t /\ tab'[t].key[2] \in 1..(1 + Cardinality(Sent(t)'))
  <2>1. IsFiniteSet(Sent(t)) /\ Cardinality(Sent(t)) \in Nat
      BY SentFinite DEF Sent
  <2>2. IsFiniteSet(Sent(t)') /\ Cardinality(Sent(t)') \in Nat
      BY SentFinite DEF Sent
  <2>3. Sent(t) \in SUBSET Sent(t)'
    <3>1. ASSUME NEW n \in Sent(t) PROVE n \in Sent(t)'
      <4>1. PICK i \in DOMAIN log : log[i].key[1] = t /\ n = log[i].key[2]
          BY DEF Sent
      <4>2. PICK k \in DOMAIN log' : log'[k].key = log[i].key
          BY <4>1
      <4> QED
          BY <4>1, <4>2 DEF Sent
    <3> QED
        BY <3>1
  <2>4. Cardinality(Sent(t)) <= Cardinality(Sent(t)')
      BY <2>2, <2>3, FS_Subset
  <2>5. tab[t].key[1] = t /\ tab[t].key[2] \in 1..(1 + Cardinality(Sent(t)))
      BY <1>1 DEF Keyed
  <2>6. \A n \in 1..(1 + Cardinality(Sent(t))) : n \in 1..(1 + Cardinality(Sent(t)'))
      BY <2>1, <2>2, <2>4
  <2> QED
      BY <2>5, <2>6
<1> QED
    BY <1>1 DEF Keyed

\* What is left when an event is taken out.
LEMMA Taken ==
    ASSUME log \in Seq(Entry), NEW i \in DOMAIN log, log' = P!RemoveAt(log, i)
    PROVE  /\ log' \in Seq(Entry)
           /\ \E g \in [DOMAIN log' -> DOMAIN log] :
                 /\ \A k \in DOMAIN log' : log'[k] = log[g[k]]
                 /\ \A k, m \in DOMAIN log' : k <= m <=> g[k] <= g[m]
                 /\ \A k, m \in DOMAIN log' : k = m <=> g[k] = g[m]
           /\ \A m \in DOMAIN log : m # i => \E k \in DOMAIN log' : log'[k] = log[m]
<1> DEFINE N == Len(log)
           g == [k \in 1..(N - 1) |-> IF k < i THEN k ELSE k + 1]
<1>1. N \in Nat /\ DOMAIN log = 1..N /\ i \in 1..N
    OBVIOUS
<1>2. /\ log' \in Seq(Entry) /\ Len(log') = N - 1 /\ DOMAIN log' = 1..(N - 1)
      /\ \A k \in 1..(N - 1) : log'[k] = log[IF k < i THEN k ELSE k + 1]
  <2>1. /\ log' \in Seq(Entry) /\ Len(log') = N - 1
        /\ \A k \in 1..(N - 1) : log'[k] = log[IF k < i THEN k ELSE k + 1]
      BY Removed
  <2> QED
      BY <2>1
<1> HIDE DEF N
<1>3. g \in [DOMAIN log' -> DOMAIN log]
    BY <1>1, <1>2
<1>4. \A k \in 1..(N - 1) : (k < i => g[k] = k) /\ (~ (k < i) => g[k] = k + 1)
    OBVIOUS
<1>5. \A k \in DOMAIN log' : log'[k] = log[g[k]]
    BY <1>2
<1>6. \A k, m \in DOMAIN log' : (k <= m <=> g[k] <= g[m]) /\ (k = m <=> g[k] = g[m])
    BY <1>1, <1>2, <1>4
<1>7. ASSUME NEW m \in DOMAIN log, m # i PROVE \E k \in DOMAIN log' : log'[k] = log[m]
  <2>1. CASE m < i
    <3>1. m \in 1..(N - 1)
        BY <1>1, <2>1
    <3> QED
        BY <1>2, <2>1, <3>1
  <2>2. CASE m > i
    <3>1. m - 1 \in 1..(N - 1) /\ ~ (m - 1 < i) /\ (m - 1) + 1 = m
        BY <1>1, <2>2
    <3> QED
        BY <1>2, <3>1
  <2> QED
      BY <1>1, <1>7, <2>1, <2>2
<1> HIDE DEF g
<1>8. /\ \A k \in DOMAIN log' : log'[k] = log[g[k]]
      /\ \A k, m \in DOMAIN log' : k <= m <=> g[k] <= g[m]
      /\ \A k, m \in DOMAIN log' : k = m <=> g[k] = g[m]
    BY <1>5, <1>6
<1> QED
    BY <1>2, <1>3, <1>7, <1>8, Zenon

\* What the log is when events of today come to it.
LEMMA Extended ==
    ASSUME InOrder, NEW s \in Seq(Entry), \A i \in DOMAIN s : s[i].day = day,
           log' = log \o s, day' = day
    PROVE  /\ InOrder'
           /\ Len(log') = Len(log) + Len(s)
           /\ \A i \in DOMAIN log : i \in DOMAIN log' /\ log'[i] = log[i]
           /\ \A i \in DOMAIN log' : i \notin DOMAIN log =>
                 i - Len(log) \in DOMAIN s /\ log'[i] = s[i - Len(log)]
           /\ \A k \in DOMAIN s : k + Len(log) \in DOMAIN log' /\ log'[k + Len(log)] = s[k]
<1> DEFINE N == Len(log)
<1>1. /\ log \in Seq(Entry) /\ N \in Nat /\ DOMAIN log = 1..N /\ DOMAIN s = 1..Len(s)
      /\ Len(s) \in Nat
    BY DEF InOrder
<1>2. /\ log' \in Seq(Entry) /\ Len(log') = N + Len(s) /\ DOMAIN log' = 1..(N + Len(s))
      /\ \A i \in 1..N : log'[i] = log[i]
      /\ \A i \in 1..Len(s) : log'[i + N] = s[i]
    BY <1>1
<1> HIDE DEF N
<1>3. \A i \in DOMAIN log' : i \notin DOMAIN log => i - N \in DOMAIN s /\ log'[i] = s[i - N]
  <2>1. ASSUME NEW i \in DOMAIN log', i \notin DOMAIN log
        PROVE  i - N \in DOMAIN s /\ log'[i] = s[i - N]
    <3>1. i - N \in 1..Len(s) /\ (i - N) + N = i
        BY <1>1, <1>2, <2>1
    <3> QED
        BY <1>1, <1>2, <3>1
  <2> QED
      BY <2>1
<1>4. \A i \in DOMAIN log : i \in DOMAIN log' /\ log'[i] = log[i]
    BY <1>1, <1>2
<1>5. \A k \in DOMAIN s : k + N \in DOMAIN log' /\ log'[k + N] = s[k]
    BY <1>1, <1>2
<1>6. \A i \in DOMAIN log' : log'[i].day \in 1..day
  <2>1. day \in 1..day
      BY PracticeAssumed DEF InOrder
  <2> QED
      BY <1>3, <1>4, <2>1 DEF InOrder
<1>7. \A i \in DOMAIN log' : i \notin DOMAIN log => log'[i].day = day
    BY <1>3
<1>8. ASSUME NEW i \in DOMAIN log', NEW j \in DOMAIN log', i <= j
      PROVE  log'[i].day <= log'[j].day
  <2>1. CASE j \in DOMAIN log
    <3>1. i \in DOMAIN log
        BY <1>1, <1>2, <1>8, <2>1
    <3> QED
        BY <1>4, <1>8, <2>1, <3>1 DEF InOrder
  <2>2. CASE j \notin DOMAIN log
    <3>1. log'[j].day = day /\ log'[i].day \in 1..day
        BY <1>6, <1>7, <2>2
    <3> QED
        BY <3>1
  <2> QED
      BY <2>1, <2>2
<1>9. InOrder'
  <2>1. day' \in 1..MaxDay
      BY DEF InOrder
  <2> QED
      BY <1>2, <1>6, <1>8, <2>1 DEF InOrder
<1> QED
    BY <1>2, <1>3, <1>4, <1>5, <1>9 DEF N

-----------------------------------------------------------------------------
\* An original that leaves the log takes its part out of the book.
LEMMA ErrorWithdrawn ==
    ASSUME PracticeInv, NEW p \in book, NEW i \in DOMAIN log,
           log[i].part = p, log[i].key = P!NoKey, log' = P!RemoveAt(log, i),
           book' = book \ {p}, flips' = flips + 1,
           UNCHANGED <<day, mastered, viewed, tab>>
    PROVE  PracticeInv'
<1>1. log \in Seq(Entry)
    BY DEF PracticeInv, InOrder
<1>2. /\ log' \in Seq(Entry)
      /\ \A m \in DOMAIN log : m # i => \E k \in DOMAIN log' : log'[k] = log[m]
    BY <1>1, Taken
<1>3. PICK g \in [DOMAIN log' -> DOMAIN log] :
           /\ \A k \in DOMAIN log' : log'[k] = log[g[k]]
           /\ \A k, m \in DOMAIN log' : k <= m <=> g[k] <= g[m]
           /\ \A k, m \in DOMAIN log' : k = m <=> g[k] = g[m]
    BY <1>1, Taken
<1>4. \A k \in DOMAIN log' : g[k] \in DOMAIN log /\ log'[k] = log[g[k]]
    BY <1>3
<1>5. InOrder'
  <2>1. \A k \in DOMAIN log' : log'[k].day \in 1..day
      BY <1>4 DEF PracticeInv, InOrder
  <2>2. \A k, m \in DOMAIN log' : k <= m => log'[k].day <= log'[m].day
      BY <1>3, <1>4 DEF PracticeInv, InOrder
  <2> QED
      BY <1>2, <2>1, <2>2 DEF PracticeInv, InOrder
<1>6. Keyed'
  <2>1. \A m \in DOMAIN log : log[m].key[1] \in Tabs => m # i
      BY PracticeAssumed DEF P!NoKey
  <2>2. \A m \in DOMAIN log : log[m].key[1] \in Tabs =>
           \E k \in DOMAIN log' : log'[k].key = log[m].key
      BY <1>2, <2>1
  <2>3. /\ tab' \in [Tabs -> [key : (Tabs \cup {"none"}) \X Nat, members : SUBSET Parts]]
        /\ \A t \in Tabs : tab'[t] # P!Closed =>
              /\ tab'[t].key[1] = t
              /\ tab'[t].key[2] \in 1..(1 + Cardinality(Sent(t)'))
      BY <1>1, <1>2, <2>2, TabsStay DEF PracticeInv
  <2>4. /\ \A k \in DOMAIN log' : log'[k].key[1] = "none" => log'[k].key = P!NoKey
        /\ \A k \in DOMAIN log' : log'[k].key[2] <= MaxEvents
      BY <1>4 DEF PracticeInv, Keyed
  <2> QED
      BY <2>3, <2>4 DEF Keyed, P!NoKey, P!Closed
<1>7. Booked'
  <2>1. ASSUME NEW q \in book'
        PROVE  \E k \in DOMAIN log' : /\ log'[k].part = q /\ log'[k].key = P!NoKey
                                      /\ log'[k].outcome = "wrong" /\ log'[k].purpose = "verify"
    <3>1. q \in book /\ q # p
        BY <2>1
    <3>2. PICK m \in DOMAIN log : /\ log[m].part = q /\ log[m].key = P!NoKey
                                 /\ log[m].outcome = "wrong" /\ log[m].purpose = "verify"
        BY <3>1 DEF PracticeInv, Booked
    <3>3. PICK k \in DOMAIN log' : log'[k] = log[m]
        BY <1>2, <3>1, <3>2
    <3> QED
        BY <3>2, <3>3
  <2> QED
      BY <2>1 DEF PracticeInv, Booked, P!NoKey
<1>8. P!StoredWhole'
  <2>1. ASSUME NEW j \in DOMAIN log', NEW k \in DOMAIN log', j # k,
               log'[j].key = log'[k].key, log'[j].key # P!NoKey
        PROVE  log'[j].part # log'[k].part /\ log'[j].day = log'[k].day
    <3>1. g[j] # g[k] /\ g[j] \in DOMAIN log /\ g[k] \in DOMAIN log
        BY <1>3, <1>4, <2>1
    <3> QED
        BY <1>4, <2>1, <3>1 DEF PracticeInv, P!StoredWhole
  <2> QED
      BY <2>1 DEF P!StoredWhole, P!NoKey
<1> QED
    BY <1>5, <1>6, <1>7, <1>8 DEF PracticeInv

\* Events of today come to the log: originals, or the attempts of a page.
LEMMA EventsStored ==
    ASSUME PracticeInv, NEW s \in Seq(Entry), log' = log \o s,
           \A i \in DOMAIN s : s[i].day = day,
           \A i \in DOMAIN s : s[i].key[2] <= MaxEvents,
           \A i \in DOMAIN s : s[i].key[1] = "none" => s[i].key = P!NoKey,
           \A i \in DOMAIN s : s[i].key # P!NoKey => P!FirstTime(s[i].key),
           \A i, j \in DOMAIN s : i # j => s[i].part # s[j].part,
           book' \subseteq Parts, flips' \in Nat,
           \A p \in book' : p \in book \/ \E i \in DOMAIN s :
                /\ s[i].part = p /\ s[i].key = P!NoKey
                /\ s[i].outcome = "wrong" /\ s[i].purpose = "verify",
           UNCHANGED <<day, mastered, viewed, tab>>
    PROVE  PracticeInv'
<1>1. /\ InOrder'
      /\ Len(log') = Len(log) + Len(s)
      /\ \A i \in DOMAIN log : i \in DOMAIN log' /\ log'[i] = log[i]
      /\ \A i \in DOMAIN log' : i \notin DOMAIN log =>
            i - Len(log) \in DOMAIN s /\ log'[i] = s[i - Len(log)]
      /\ \A k \in DOMAIN s : k + Len(log) \in DOMAIN log' /\ log'[k + Len(log)] = s[k]
    BY Extended DEF PracticeInv
<1>2. log \in Seq(Entry) /\ log' \in Seq(Entry)
    BY <1>1 DEF PracticeInv, InOrder
<1>3. Keyed'
  <2>1. \A i \in DOMAIN log : log[i].key[1] \in Tabs =>
           \E k \in DOMAIN log' : log'[k].key = log[i].key
      BY <1>1
  <2>2. /\ tab' \in [Tabs -> [key : (Tabs \cup {"none"}) \X Nat, members : SUBSET Parts]]
        /\ \A t \in Tabs : tab'[t] # P!Closed =>
              /\ tab'[t].key[1] = t
              /\ tab'[t].key[2] \in 1..(1 + Cardinality(Sent(t)'))
      BY <1>2, <2>1, TabsStay DEF PracticeInv
  <2>3. ASSUME NEW i \in DOMAIN log'
        PROVE  /\ log'[i].key[1] = "none" => log'[i].key = P!NoKey
               /\ log'[i].key[2] <= MaxEvents
      BY <1>1 DEF PracticeInv, Keyed
  <2> QED
      BY <2>2, <2>3 DEF Keyed, P!NoKey, P!Closed
<1>4. Booked'
  <2>1. ASSUME NEW p \in book'
        PROVE  \E i \in DOMAIN log' : /\ log'[i].part = p /\ log'[i].key = P!NoKey
                                      /\ log'[i].outcome = "wrong" /\ log'[i].purpose = "verify"
    <3>1. CASE p \in book
      <4>1. PICK i \in DOMAIN log : /\ log[i].part = p /\ log[i].key = P!NoKey
                                   /\ log[i].outcome = "wrong" /\ log[i].purpose = "verify"
          BY <3>1 DEF PracticeInv, Booked
      <4> QED
          BY <1>1, <4>1
    <3>2. CASE p \notin book
      <4>1. PICK i \in DOMAIN s : /\ s[i].part = p /\ s[i].key = P!NoKey
                                 /\ s[i].outcome = "wrong" /\ s[i].purpose = "verify"
          BY <3>2
      <4>2. i + Len(log) \in DOMAIN log' /\ log'[i + Len(log)] = s[i]
          BY <1>1
      <4> QED
          BY <4>1, <4>2
    <3> QED
        BY <3>1, <3>2
  <2> QED
      BY <2>1 DEF PracticeInv, Booked, P!NoKey
<1>5. P!StoredWhole'
  <2>1. ASSUME NEW i \in DOMAIN log', NEW j \in DOMAIN log', i # j,
               log'[i].key = log'[j].key, log'[i].key # P!NoKey
        PROVE  log'[i].part # log'[j].part /\ log'[i].day = log'[j].day
    <3>1. CASE i \in DOMAIN log /\ j \in DOMAIN log
        BY <1>1, <2>1, <3>1 DEF PracticeInv, P!StoredWhole
    <3>2. CASE i \notin DOMAIN log /\ j \notin DOMAIN log
      <4>1. /\ i - Len(log) \in DOMAIN s /\ log'[i] = s[i - Len(log)]
            /\ j - Len(log) \in DOMAIN s /\ log'[j] = s[j - Len(log)]
          BY <1>1, <3>2
      <4>2. i - Len(log) # j - Len(log)
          BY <1>2, <2>1
      <4> QED
          BY <4>1, <4>2
    <3>3. CASE i \in DOMAIN log /\ j \notin DOMAIN log
      <4>1. log'[j] = s[j - Len(log)] /\ j - Len(log) \in DOMAIN s
          BY <1>1, <3>3
      <4>2. P!FirstTime(log'[j].key)
          BY <2>1, <4>1
      <4> QED
          BY <1>1, <2>1, <3>3, <4>2 DEF P!FirstTime
    <3>4. CASE i \notin DOMAIN log /\ j \in DOMAIN log
      <4>1. log'[i] = s[i - Len(log)] /\ i - Len(log) \in DOMAIN s
          BY <1>1, <3>4
      <4>2. P!FirstTime(log'[i].key)
          BY <2>1, <4>1
      <4> QED
          BY <1>1, <2>1, <3>4, <4>2 DEF P!FirstTime
    <3> QED
        BY <3>1, <3>2, <3>3, <3>4
  <2> QED
      BY <2>1 DEF P!StoredWhole, P!NoKey
<1> QED
    BY <1>1, <1>3, <1>4, <1>5 DEF PracticeInv

\* A part becomes wrong: its original is the last event.
LEMMA ErrorAdded ==
    ASSUME PracticeInv, NEW p \in Parts, log' = Append(log, P!Original(p)),
           book' = book \cup {p}, flips' \in Nat,
           UNCHANGED <<day, mastered, viewed, tab>>
    PROVE  PracticeInv'
<1> DEFINE e == P!Original(p)
           s == <<e>>
<1>1. /\ e.part = p /\ e.day = day /\ e.outcome = "wrong" /\ e.purpose = "verify"
      /\ e.key = P!NoKey
    BY DEF P!Original
<1>2. e \in Entry
  <2>1. P!NoKey \in (Tabs \cup {"none"}) \X Nat /\ day \in Nat
      BY PracticeAssumed DEF P!NoKey, PracticeInv, InOrder
  <2> QED
      BY <2>1 DEF P!Original, Entry, P!Outcomes
<1> HIDE DEF e
<1>3. s \in Seq(Entry) /\ DOMAIN s = {1} /\ s[1] = e
    BY <1>2
<1>4. log' = log \o s
  <2>1. log \in Seq(Entry)
      BY DEF PracticeInv, InOrder
  <2> QED
      BY <1>2, <2>1 DEF e
<1> HIDE DEF s
<1>5. P!NoKey[2] <= MaxEvents
    BY PracticeAssumed DEF P!NoKey
<1>6. \A i \in DOMAIN s : s[i] = e
    BY <1>3
<1>7. book' \subseteq Parts
    BY DEF PracticeInv, Booked
<1>8. \A q \in book' : q \in book \/ \E i \in DOMAIN s :
                /\ s[i].part = q /\ s[i].key = P!NoKey
                /\ s[i].outcome = "wrong" /\ s[i].purpose = "verify"
    BY <1>1, <1>3
<1>9. \A i, j \in DOMAIN s : i # j => s[i].part # s[j].part
    BY <1>3
<1> QED
    BY <1>1, <1>3, <1>4, <1>5, <1>6, <1>7, <1>8, <1>9, EventsStored

LEMMA ToRedoListed ==
    ASSUME PracticeInv
    PROVE  P!ToRedo \subseteq Parts /\ IsFiniteSet(P!ToRedo)
<1>1. P!ToRedo \subseteq Parts
    BY DEF P!ToRedo, P!Shown, PracticeInv, Booked
<1> QED
    BY <1>1, PracticeAssumed, FS_Subset

\* A page's answers come to the log: one for each part, by a key nobody sent.
LEMMA GroupSubmitted ==
    ASSUME PracticeInv, NEW t \in Tabs, P!SubmitGroup(t)
    PROVE  /\ PracticeInv'
           /\ \E s \in Seq(Entry) :
                 log' = log \o s /\ \A i \in DOMAIN s : s[i].purpose = P!Purpose(s[i].part)
<1> DEFINE redo == P!ToRedo
           N == Cardinality(redo)
           k == tab[t].key
<1>1. IsFiniteSet(redo) /\ N \in Nat /\ redo \subseteq Parts
    BY ToRedoListed, FS_CardinalityType
<1>2. P!Cardinality(redo) = N
    BY SameSizeOfPractice
<1>3. /\ tab[t] # P!Closed /\ P!FirstTime(k) /\ flips + Len(log) + N <= MaxEvents
      /\ UNCHANGED <<day, book, mastered, viewed, tab, flips>>
    BY <1>2 DEF P!SubmitGroup, P!Room
<1>4. PICK result \in [redo -> P!Outcomes] :
         log' = log \o [i \in 1..N |->
                   P!Attempt(P!SetToSeq(redo)[i], result[P!SetToSeq(redo)[i]], k)]
    BY <1>2 DEF P!SubmitGroup
<1> DEFINE s == [i \in 1..N |-> P!Attempt(P!SetToSeq(redo)[i], result[P!SetToSeq(redo)[i]], k)]
<1>5. /\ P!SetToSeq(redo) \in [1..N -> redo]
      /\ \A i, j \in 1..N : P!SetToSeq(redo)[i] = P!SetToSeq(redo)[j] => i = j
    BY <1>1, SetListed
<1>6. /\ k \in (Tabs \cup {"none"}) \X Nat /\ k[1] = t
      /\ k[2] \in 1..(1 + Cardinality(Sent(t)))
    BY <1>3 DEF PracticeInv, Keyed
<1>7. day \in Nat /\ log \in Seq(Entry)
    BY DEF PracticeInv, InOrder
<1>8. k[1] \in Tabs /\ k # P!NoKey /\ k[1] # "none"
    BY <1>6, PracticeAssumed DEF P!NoKey
<1>9. ASSUME NEW i \in 1..N
      PROVE  /\ s[i] \in Entry /\ s[i].day = day /\ s[i].key = k
             /\ s[i].part = P!SetToSeq(redo)[i] /\ s[i].purpose = P!Purpose(s[i].part)
  <2> DEFINE p == P!SetToSeq(redo)[i]
  <2>1. p \in Parts /\ result[p] \in P!Outcomes
      BY <1>1, <1>4, <1>5
  <2>2. s[i] = P!Attempt(p, result[p], k)
      BY Zenon
  <2>3. P!Purpose(p) \in {"learn", "verify"}
      BY DEF P!Purpose
  <2>4. P!Attempt(p, result[p], k) = [part |-> p, day |-> day, outcome |-> result[p],
                                   purpose |-> P!Purpose(p), key |-> k]
      BY DEF P!Attempt
  <2> HIDE DEF p, s, k
  <2>5. s[i] \in Entry
      BY <1>6, <1>7, <2>1, <2>2, <2>3, <2>4 DEF Entry
  <2> QED
      BY <2>2, <2>4, <2>5 DEF p
<1> HIDE DEF s, k
<1>10. s \in Seq(Entry) /\ DOMAIN s = 1..N /\ Len(s) = N
  <2>1. s = [i \in 1..N |-> s[i]]
      BY DEF s
  <2>2. s \in [1..N -> Entry]
      BY <1>9, <2>1
  <2> QED
      BY <1>1, <2>2
<1>11. log' = log \o s
    BY <1>4 DEF s, k
<1>12. ASSUME N = 0 PROVE PracticeInv'
  <2>1. \A i \in DOMAIN s : FALSE
      BY <1>10, <1>12
  <2>2. s = <<>>
      BY <1>10, <1>12
  <2>3. log' = log
      BY <1>7, <1>11, <2>2
  <2> QED
      BY <1>3, <2>3, PracticeRest
<1>13. ASSUME N # 0 PROVE PracticeInv'
  <2>1. k[2] <= MaxEvents
    <3>1. Cardinality(Sent(t)) \in Nat /\ Cardinality(Sent(t)) <= Len(log)
        BY <1>7, SentFinite DEF Sent
    <3>2. flips \in Nat /\ Len(log) \in Nat
        BY <1>7 DEF PracticeInv, Booked
    <3> HIDE DEF N
    <3>3. 1 + Len(log) <= MaxEvents
        BY <1>1, <1>3, <1>13, <3>2, PracticeAssumed
    <3>4. k[2] \in Nat /\ k[2] <= 1 + Cardinality(Sent(t))
        BY <1>6, <3>1
    <3> QED
        BY <3>1, <3>2, <3>3, <3>4, PracticeAssumed
  <2>2. /\ \A i \in DOMAIN s : s[i].day = day
        /\ \A i \in DOMAIN s : s[i].key[2] <= MaxEvents
        /\ \A i \in DOMAIN s : s[i].key[1] = "none" => s[i].key = P!NoKey
        /\ \A i \in DOMAIN s : s[i].key # P!NoKey => P!FirstTime(s[i].key)
      BY <1>3, <1>8, <1>9, <1>10, <2>1 DEF k
  <2>3. \A i, j \in DOMAIN s : i # j => s[i].part # s[j].part
      BY <1>5, <1>9, <1>10
  <2>4. book' \subseteq Parts /\ flips' \in Nat /\ \A p \in book' : p \in book
      BY <1>3 DEF PracticeInv, Booked
  <2> QED
      BY <1>3, <1>10, <1>11, <2>2, <2>3, <2>4, EventsStored
<1>14. \A i \in DOMAIN s : s[i].purpose = P!Purpose(s[i].part)
    BY <1>9, <1>10
<1> QED
    BY <1>10, <1>11, <1>12, <1>13, <1>14

LEMMA CorrectionKept ==
    ASSUME PracticeInv, NEW p \in Parts, P!CorrectExam(p)
    PROVE  PracticeInv'
<1>1. /\ flips' = flips + 1 /\ flips \in Nat
      /\ UNCHANGED <<day, mastered, viewed, tab>>
    BY DEF P!CorrectExam, PracticeInv, Booked
<1>2. CASE p \in book
  <2>1. /\ book' = book \ {p}
        /\ \E i \in DOMAIN log :
              log[i].part = p /\ log[i].key = P!NoKey /\ log' = P!RemoveAt(log, i)
      BY <1>2 DEF P!CorrectExam
  <2> QED
      BY <1>1, <1>2, <2>1, ErrorWithdrawn
<1>3. CASE p \notin book
  <2>1. book' = book \cup {p} /\ log' = Append(log, P!Original(p))
      BY <1>3 DEF P!CorrectExam
  <2>2. flips' \in Nat
      BY <1>1
  <2> QED
      BY <1>1, <2>1, <2>2, ErrorAdded
<1> QED
    BY <1>2, <1>3

\* A teacher's decision changes the outcome of an attempt, nothing else of the log.
LEMMA OutcomeReviewed ==
    ASSUME PracticeInv, NEW n \in DOMAIN log, NEW o \in P!Outcomes, log[n].key # P!NoKey,
           log' = [log EXCEPT ![n].outcome = o],
           UNCHANGED <<day, book, mastered, viewed, tab, flips>>
    PROVE  PracticeInv'
<1>1. log \in Seq(Entry) /\ log \in [1..Len(log) -> Entry] /\ DOMAIN log = 1..Len(log)
      /\ Len(log) \in Nat
    BY DEF PracticeInv, InOrder
<1>2. /\ log' \in Seq(Entry) /\ DOMAIN log' = DOMAIN log
      /\ \A i \in DOMAIN log : i # n => log'[i] = log[i]
      /\ log'[n] = [log[n] EXCEPT !.outcome = o]
  <2>1. log[n] \in Entry
      BY <1>1
  <2>2. [log[n] EXCEPT !.outcome = o] \in Entry
      BY <2>1 DEF Entry
  <2>3. log' = [log EXCEPT ![n] = [log[n] EXCEPT !.outcome = o]]
      OBVIOUS
  <2>4. log' \in [1..Len(log) -> Entry]
      BY <1>1, <2>2, <2>3
  <2> QED
      BY <1>1, <2>3, <2>4
<1>3. \A i \in DOMAIN log : /\ log'[i].part = log[i].part /\ log'[i].day = log[i].day
                            /\ log'[i].purpose = log[i].purpose /\ log'[i].key = log[i].key
                            /\ (i # n => log'[i].outcome = log[i].outcome)
  <2>1. log[n] \in Entry
      BY <1>1
  <2> QED
      BY <1>2, <2>1 DEF Entry
<1>4. InOrder'
    BY <1>2, <1>3 DEF PracticeInv, InOrder
<1>5. Keyed'
  <2>1. /\ tab' \in [Tabs -> [key : (Tabs \cup {"none"}) \X Nat, members : SUBSET Parts]]
        /\ \A t \in Tabs : tab'[t] # P!Closed =>
              /\ tab'[t].key[1] = t
              /\ tab'[t].key[2] \in 1..(1 + Cardinality(Sent(t)'))
      BY <1>1, <1>2, <1>3, TabsStay DEF PracticeInv
  <2> QED
      BY <1>2, <1>3, <2>1 DEF PracticeInv, Keyed, P!NoKey, P!Closed
<1>6. Booked'
  <2>1. ASSUME NEW p \in book
        PROVE  \E i \in DOMAIN log' : /\ log'[i].part = p /\ log'[i].key = P!NoKey
                                      /\ log'[i].outcome = "wrong" /\ log'[i].purpose = "verify"
    <3>1. PICK i \in DOMAIN log : /\ log[i].part = p /\ log[i].key = P!NoKey
                                 /\ log[i].outcome = "wrong" /\ log[i].purpose = "verify"
        BY DEF PracticeInv, Booked
    <3> QED
        BY <1>2, <1>3, <3>1
  <2> QED
      BY <2>1 DEF PracticeInv, Booked, P!NoKey
<1>7. P!StoredWhole'
    BY <1>2, <1>3 DEF PracticeInv, P!StoredWhole, P!NoKey
<1> QED
    BY <1>4, <1>5, <1>6, <1>7 DEF PracticeInv

LEMMA PageOpened ==
    ASSUME PracticeInv, NEW t \in Tabs, P!OpenPage(t)
    PROVE  PracticeInv'
<1> DEFINE new == [key |-> P!NextKey(t), members |-> P!ToRedo]
<1>1. /\ tab' = [tab EXCEPT ![t] = new]
      /\ UNCHANGED <<day, log, book, mastered, viewed, flips>>
    BY DEF P!OpenPage
<1>2. P!NextKey(t) = <<t, 1 + Cardinality(Sent(t))>>
    BY SameSizeOfPractice DEF P!NextKey, Sent
<1>3. Cardinality(Sent(t)) \in Nat
    BY SentFinite DEF Sent, PracticeInv, InOrder
<1>4. P!ToRedo \in SUBSET Parts
    BY ToRedoListed
<1>5. new \in [key : (Tabs \cup {"none"}) \X Nat, members : SUBSET Parts]
    BY <1>2, <1>3, <1>4
<1>6. \A q : Sent(q)' = Sent(q)
    BY <1>1 DEF Sent
<1>7. new.key[1] = t /\ new.key[2] \in 1..(1 + Cardinality(Sent(t)))
    BY <1>2, <1>3
<1> HIDE DEF new
<1>8. Keyed'
  <2>1. /\ tab' \in [Tabs -> [key : (Tabs \cup {"none"}) \X Nat, members : SUBSET Parts]]
        /\ tab'[t] = new /\ \A q \in Tabs : q # t => tab'[q] = tab[q]
      BY <1>1, <1>5 DEF PracticeInv, Keyed
  <2> QED
      BY <1>1, <1>6, <1>7, <2>1 DEF PracticeInv, Keyed, P!NoKey, P!Closed
<1>9. InOrder' /\ Booked' /\ P!StoredWhole'
    BY <1>1 DEF PracticeInv, InOrder, Booked, P!StoredWhole, P!NoKey
<1> QED
    BY <1>8, <1>9 DEF PracticeInv

LEMMA PageLeft ==
    ASSUME PracticeInv, NEW t \in Tabs, P!Leave(t)
    PROVE  PracticeInv'
<1>1. /\ tab' = [tab EXCEPT ![t] = P!Closed]
      /\ UNCHANGED <<day, log, book, mastered, viewed, flips>>
    BY DEF P!Leave
<1>2. \A q : Sent(q)' = Sent(q)
    BY <1>1 DEF Sent
<1>3. Keyed'
  <2>1. P!Closed \in [key : (Tabs \cup {"none"}) \X Nat, members : SUBSET Parts]
      BY DEF P!Closed, P!NoKey
  <2>2. /\ tab' \in [Tabs -> [key : (Tabs \cup {"none"}) \X Nat, members : SUBSET Parts]]
        /\ tab'[t] = P!Closed /\ \A q \in Tabs : q # t => tab'[q] = tab[q]
      BY <1>1, <2>1 DEF PracticeInv, Keyed
  <2>3. ASSUME NEW q \in Tabs, tab'[q] # P!Closed
        PROVE  tab'[q].key[1] = q /\ tab'[q].key[2] \in 1..(1 + Cardinality(Sent(q)'))
      BY <1>2, <2>2, <2>3 DEF PracticeInv, Keyed
  <2>4. P!Closed' = P!Closed /\ P!NoKey' = P!NoKey
      BY DEF P!Closed, P!NoKey
  <2> QED
      BY <1>1, <2>2, <2>3, <2>4 DEF PracticeInv, Keyed
<1>4. InOrder' /\ Booked' /\ P!StoredWhole'
    BY <1>1 DEF PracticeInv, InOrder, Booked, P!StoredWhole, P!NoKey
<1> QED
    BY <1>3, <1>4 DEF PracticeInv

LEMMA DayPassed ==
    ASSUME PracticeInv, P!NextDay
    PROVE  PracticeInv'
<1>1. PICK n \in Jumps : /\ day + n <= MaxDay /\ day' = day + n
                        /\ UNCHANGED <<log, book, mastered, viewed, tab, flips>>
    BY DEF P!NextDay
<1>2. n \in Nat \ {0} /\ day \in 1..MaxDay /\ MaxDay \in Nat
    BY PracticeAssumed DEF PracticeInv, InOrder
<1>3. day' \in 1..MaxDay /\ day <= day'
    BY <1>1, <1>2
<1>4. InOrder'
  <2>1. \A i \in DOMAIN log : log[i].day \in 1..day'
      BY <1>2, <1>3 DEF PracticeInv, InOrder
  <2> QED
      BY <1>1, <1>3, <2>1 DEF PracticeInv, InOrder
<1>5. \A q : Sent(q)' = Sent(q)
    BY <1>1 DEF Sent
<1>6. Keyed'
    BY <1>1, <1>5 DEF PracticeInv, Keyed, P!NoKey, P!Closed
<1>7. Booked' /\ P!StoredWhole'
    BY <1>1 DEF PracticeInv, Booked, P!StoredWhole, P!NoKey
<1> QED
    BY <1>4, <1>6, <1>7 DEF PracticeInv

\* The other steps change what was looked at, helped with or mastered.
LEMMA MarksKept ==
    ASSUME PracticeInv, mastered' \subseteq Parts, viewed' \subseteq Parts,
           UNCHANGED <<day, log, book, tab, flips>>
    PROVE  PracticeInv'
<1>1. \A q : Sent(q)' = Sent(q)
    BY DEF Sent
<1>2. InOrder' /\ Booked'
    BY DEF PracticeInv, InOrder, Booked
<1>3. P!StoredWhole'
    BY DEF PracticeInv, P!StoredWhole, P!NoKey
<1>4. Keyed'
    BY <1>1 DEF PracticeInv, Keyed, P!NoKey, P!Closed
<1> QED
    BY <1>2, <1>3, <1>4 DEF PracticeInv

LEMMA PracticeStep ==
    ASSUME PracticeInv, P!PracticeNext
    PROVE  PracticeInv'
<1>1. ASSUME P!Corrections PROVE PracticeInv'
    BY <1>1, CorrectionKept DEF P!Corrections
<1>2. ASSUME P!Trials PROVE PracticeInv'
  <2>1. PICK p \in Parts : P!AddTrial(p)
      BY <1>2 DEF P!Trials
  <2>2. /\ book' = book \cup {p} /\ log' = Append(log, P!Original(p))
        /\ UNCHANGED <<day, mastered, viewed, tab, flips>>
      BY <2>1 DEF P!AddTrial
  <2>3. flips' \in Nat
      BY <2>2 DEF PracticeInv, Booked
  <2> QED
      BY <2>2, <2>3, ErrorAdded
<1>3. ASSUME P!PageOpens PROVE PracticeInv'
    BY <1>3, PageOpened DEF P!PageOpens
<1>4. /\ mastered \subseteq Parts /\ viewed \subseteq Parts
      /\ P!ToRedo \subseteq Parts /\ P!Shown \subseteq Parts
    BY ToRedoListed DEF PracticeInv, Booked, P!Shown
<1>5. ASSUME P!ViewSolutions PROVE PracticeInv'
    BY <1>4, <1>5, MarksKept DEF P!ViewSolutions
<1>6. ASSUME P!Assists \/ P!Exercises PROVE PracticeInv'
    BY <1>4, <1>6, MarksKept DEF P!Assists, P!Exercises, P!Assist, P!Exercise, P!Helped
<1>7. ASSUME P!Submits PROVE PracticeInv'
    BY <1>7, GroupSubmitted DEF P!Submits
<1>8. ASSUME P!Leaves PROVE PracticeInv'
    BY <1>8, PageLeft DEF P!Leaves
<1>9. ASSUME P!MarkMastered PROVE PracticeInv'
    BY <1>4, <1>9, MarksKept DEF P!MarkMastered
<1>10. ASSUME P!AttemptReviews PROVE PracticeInv'
  <2>1. PICK i \in DOMAIN log : P!ReviewAttempt(i)
      BY <1>10 DEF P!AttemptReviews
  <2>2. PICK o \in {"correct", "wrong"} : log' = [log EXCEPT ![i].outcome = o]
      BY <2>1 DEF P!ReviewAttempt
  <2>3. /\ o \in P!Outcomes /\ log[i].key # P!NoKey
        /\ UNCHANGED <<day, book, mastered, viewed, tab, flips>>
      BY <2>1 DEF P!ReviewAttempt, P!Outcomes
  <2> QED
      BY <2>2, <2>3, OutcomeReviewed
<1>11. ASSUME P!NextDay PROVE PracticeInv'
    BY <1>11, DayPassed
<1> QED
    BY <1>1, <1>2, <1>3, <1>5, <1>6, <1>7, <1>8, <1>9, <1>10, <1>11 DEF P!PracticeNext

-----------------------------------------------------------------------------
\* The marks of the diagnoses: a first day stays, or today is written.
LEMMA MarkedStep ==
    ASSUME PracticeInv, Marked, P!PracticeNext \/ UNCHANGED practiceVars
    PROVE  Marked'
<1>1. day \in Nat /\ day # P!NoDay /\ Marked
    BY PracticeAssumed DEF PracticeInv, InOrder, P!NoDay
<1>2. ASSUME NEW p \in Parts, NEW d \in 0..day, d # P!NoDay, P!Helped(p, d) PROVE Marked'
  <2>1. /\ assisted' = [assisted EXCEPT ![p] = d] /\ told' = told \cup {p} /\ day' = day
      BY <1>2 DEF P!Helped
  <2>2. assisted' \in [Parts -> 0..day] /\ assisted'[p] = d
        /\ \A x \in Parts : x # p => assisted'[x] = assisted[x]
      BY <1>1, <1>2, <2>1 DEF Marked
  <2>3. ASSUME NEW x \in told' PROVE x \in Parts /\ assisted'[x] # P!NoDay
      BY <1>1, <1>2, <2>1, <2>2, <2>3 DEF Marked
  <2>4. P!NoDay' = P!NoDay
      BY DEF P!NoDay
  <2> QED
      BY <2>1, <2>2, <2>3, <2>4 DEF Marked
<1>3. CASE P!Assists
  <2>1. PICK p \in Parts : P!Assist(p)
      BY <1>3 DEF P!Assists
  <2>2. assisted[p] \in 0..day /\ day \in 0..day
      BY <1>1 DEF Marked
  <2> QED
      BY <1>1, <1>2, <2>1, <2>2 DEF P!Assist
<1>4. CASE P!Exercises
  <2>1. PICK p \in Parts : P!Exercise(p)
      BY <1>4 DEF P!Exercises
  <2>2. day \in 0..day
      BY <1>1
  <2> QED
      BY <1>1, <1>2, <2>1, <2>2 DEF P!Exercise
<1>5. CASE P!NextDay
  <2>1. /\ day' \in Nat /\ day <= day' /\ told' = {} /\ assisted' = assisted
      BY <1>1, <1>5, PracticeAssumed DEF P!NextDay
  <2>2. 0..day \subseteq 0..day'
      BY <1>1, <2>1
  <2>3. assisted \in [Parts -> 0..day']
      BY <1>1, <2>2 DEF Marked
  <2> QED
      BY <2>1, <2>3 DEF Marked
<1>6. CASE UNCHANGED <<day, assisted, told>>
    BY <1>1, <1>6 DEF Marked, P!NoDay
<1>7. CASE P!Corrections \/ P!Trials \/ P!PageOpens \/ P!ViewSolutions
  <2>1. UNCHANGED <<day, assisted, told>>
      BY <1>7 DEF P!Corrections, P!Trials, P!PageOpens, P!CorrectExam, P!AddTrial, P!OpenPage,
             P!ViewSolutions
  <2> QED
      BY <1>6, <2>1
<1>8. CASE P!Submits \/ P!Leaves \/ P!MarkMastered \/ P!AttemptReviews \/ UNCHANGED practiceVars
  <2>1. UNCHANGED <<day, assisted, told>>
      BY <1>8 DEF P!Submits, P!Leaves, P!AttemptReviews, P!SubmitGroup, P!Leave, P!MarkMastered,
             P!ReviewAttempt, practiceVars
  <2> QED
      BY <1>6, <2>1
<1> QED
    BY <1>3, <1>4, <1>5, <1>7, <1>8 DEF P!PracticeNext

\* A redo of a day on which its part was given away counts only if an earlier day
\* is marked: what else enters the log has no key.
LEMMA RedoesCounted ==
    ASSUME PracticeInv, Marked, P!PracticeNext,
           NEW i \in DOMAIN log', i > Len(log), log'[i].key # P!NoKey,
           log'[i].purpose = "verify", log'[i].part \in told
    PROVE  assisted[log'[i].part] \in 1..(day - 1)
<1>1. log \in Seq(Entry) /\ DOMAIN log = 1..Len(log) /\ Len(log) \in Nat /\ day \in Nat
    BY PracticeAssumed DEF PracticeInv, InOrder
<1>2. CASE P!Submits
  <2>1. PICK t \in Tabs : P!SubmitGroup(t)
      BY <1>2 DEF P!Submits
  <2>2. PICK s \in Seq(Entry) :
           log' = log \o s /\ \A n \in DOMAIN s : s[n].purpose = P!Purpose(s[n].part)
      BY <2>1, GroupSubmitted
  <2>3. i - Len(log) \in DOMAIN s /\ log'[i] = s[i - Len(log)]
      BY <1>1, <2>2
  <2>4. P!Purpose(log'[i].part) = "verify"
      BY <2>2, <2>3
  <2>5. assisted[log'[i].part] # day
      BY <2>4 DEF P!Purpose
  <2>6. assisted[log'[i].part] \in 0..day /\ assisted[log'[i].part] # 0
      BY DEF Marked, P!NoDay
  <2> QED
      BY <1>1, <2>5, <2>6
<1>3. CASE log' = log
    BY <1>1, <1>3
<1>4. ASSUME NEW p, log' = Append(log, P!Original(p)) PROVE FALSE
  <2>1. i = Len(log) + 1 /\ log'[i] = P!Original(p)
      BY <1>1, <1>4
  <2> QED
      BY <2>1 DEF P!Original
<1>5. ASSUME NEW n \in DOMAIN log, log' = P!RemoveAt(log, n) PROVE FALSE
    BY <1>1, <1>5, Removed
<1>6. CASE P!Corrections \/ P!Trials
  <2>1. \/ \E p : log' = Append(log, P!Original(p))
        \/ \E n \in DOMAIN log : log' = P!RemoveAt(log, n)
      BY <1>6 DEF P!Corrections, P!CorrectExam, P!Trials, P!AddTrial
  <2> QED
      BY <1>4, <1>5, <2>1
<1>7. CASE P!AttemptReviews
  <2>1. PICK n \in DOMAIN log, o \in {"correct", "wrong"} : log' = [log EXCEPT ![n].outcome = o]
      BY <1>7 DEF P!AttemptReviews, P!ReviewAttempt
  <2>2. DOMAIN log' = DOMAIN log
      BY <1>1, <2>1
  <2> QED
      BY <1>1, <2>2
<1>8. CASE P!PageOpens \/ P!ViewSolutions \/ P!Assists \/ P!Exercises
  <2>1. log' = log
      BY <1>8 DEF P!PageOpens, P!OpenPage, P!ViewSolutions, P!Assists, P!Assist, P!Exercises,
             P!Exercise, P!Helped
  <2> QED
      BY <1>3, <2>1
<1>9. CASE P!Leaves \/ P!MarkMastered \/ P!NextDay
  <2>1. log' = log
      BY <1>9 DEF P!Leaves, P!Leave, P!MarkMastered, P!NextDay
  <2> QED
      BY <1>3, <2>1
<1> QED
    BY <1>2, <1>6, <1>7, <1>8, <1>9 DEF P!PracticeNext

LEMMA PracticeTyped == PracticeInv /\ Marked => P!PracticeTypeOK
<1> SUFFICES ASSUME PracticeInv, Marked PROVE P!PracticeTypeOK
    OBVIOUS
<1>1. ASSUME NEW i \in DOMAIN log
      PROVE  log[i] \in [part : Parts, day : 1..day, outcome : P!Outcomes,
                         purpose : {"learn", "verify"},
                         key : (Tabs \cup {"none"}) \X (0..MaxEvents)]
  <2>1. log[i] \in Entry /\ log[i].day \in 1..day /\ log[i].key[2] <= MaxEvents
      BY DEF PracticeInv, InOrder, Keyed
  <2>2. log[i].key \in (Tabs \cup {"none"}) \X Nat
      BY <2>1 DEF Entry
  <2>3. log[i].key \in (Tabs \cup {"none"}) \X (0..MaxEvents)
      BY <2>1, <2>2, PracticeAssumed
  <2> QED
      BY <2>1, <2>3 DEF Entry
<1>2. day \in 1..MaxDay /\ {book, mastered, viewed, told} \subseteq SUBSET Parts
      /\ assisted \in [Parts -> 0..day]
    BY DEF PracticeInv, InOrder, Booked, Marked
<1> QED
    BY <1>1, <1>2 DEF P!PracticeTypeOK

\* What the fold of one part is after each event, as the code computes it.
IsFold(p, f, m) ==
    /\ DOMAIN f = 0..m
    /\ f[0] = [count |-> 0, due |-> day]
    /\ \A n \in 1..m : f[n] = IF n \in P!Evidence(p) THEN P!Step(f[n - 1], log[n]) ELSE f[n - 1]

LEMMA FoldExists ==
    ASSUME NEW p, NEW N \in Nat
    PROVE  \E f : f = [n \in 0..N |->
                          IF n = 0 THEN [count |-> 0, due |-> day]
                          ELSE IF n \in P!Evidence(p) THEN P!Step(f[n - 1], log[n]) ELSE f[n - 1]]
<1> DEFINE Next1(f, n) == IF n \in P!Evidence(p) THEN P!Step(f[n - 1], log[n]) ELSE f[n - 1]
           Good(f, m) == f = [n \in 0..m |->
                              IF n = 0 THEN [count |-> 0, due |-> day] ELSE Next1(f, n)]
           Bad == {m \in 0..N : ~\E f : Good(f, m)}
<1>1. CASE Bad = {}
    BY <1>1
<1>2. CASE Bad # {}
  <2>1. Bad \in SUBSET Nat
      OBVIOUS
  <2> HIDE DEF Bad
  <2>2. PICK m \in Bad : \A n \in Bad : m <= n
      BY <1>2, <2>1, Smallest
  <2> USE DEF Bad
  <2>3. m \in 0..N /\ ~\E f : Good(f, m)
      BY <2>2
  <2>4. CASE m = 0
    <3> DEFINE f == [n \in 0..0 |-> [count |-> 0, due |-> day]]
    <3>1. f = [n \in 0..0 |-> IF n = 0 THEN [count |-> 0, due |-> day] ELSE Next1(f, n)]
      <4>1. \A n \in 0..0 : n = 0
          OBVIOUS
      <4> QED
          BY <4>1, Zenon
    <3>2. Good(f, m)
        BY <2>4, <3>1
    <3> QED
        BY <2>3, <3>2
  <2>5. CASE m # 0
    <3>1. m - 1 \in 0..N /\ m \in Nat /\ m - 1 \in Nat
        BY <2>3, <2>5
    <3>2. m - 1 \notin Bad
      <4> HIDE DEF Bad
      <4>1. ~ (m <= m - 1)
          BY <3>1
      <4> QED
          BY <2>2, <4>1
    <3>3. PICK f : Good(f, m - 1)
        BY <3>1, <3>2
    <3> DEFINE g == [n \in 0..m |-> IF n = m THEN Next1(f, m) ELSE f[n]]
    <3>4. \A n \in 0..(m - 1) : g[n] = f[n]
        BY <3>1
    <3>5. \A n \in 1..m : Next1(g, n) = Next1(f, n)
      <4>1. \A n \in 1..m : g[n - 1] = f[n - 1]
          BY <3>1, <3>4
      <4> HIDE DEF g
      <4> QED
          BY <4>1
    <3>6. \A n \in 0..(m - 1) : f[n] = IF n = 0 THEN [count |-> 0, due |-> day] ELSE Next1(f, n)
      <4> HIDE DEF Next1
      <4> QED
          BY <3>3
    <3>7. ASSUME NEW n \in 0..m
          PROVE  g[n] = IF n = 0 THEN [count |-> 0, due |-> day] ELSE Next1(g, n)
      <4> HIDE DEF Next1
      <4>1. CASE n = m
        <5>1. g[n] = Next1(f, n) /\ n \in 1..m /\ n # 0
            BY <2>5, <3>1, <4>1
        <5> QED
            BY <3>5, <5>1
      <4>2. CASE n # m
        <5>1. n \in 0..(m - 1) /\ g[n] = f[n]
            BY <3>1, <4>2
        <5>2. n # 0 => n \in 1..m
            BY <3>1
        <5> HIDE DEF g
        <5> QED
            BY <3>5, <3>6, <5>1, <5>2
      <4> QED
          BY <4>1, <4>2
    <3>8. g = [n \in 0..m |-> g[n]]
        OBVIOUS
    <3> HIDE DEF g, Next1
    <3>9. g = [n \in 0..m |-> IF n = 0 THEN [count |-> 0, due |-> day] ELSE Next1(g, n)]
        BY <3>7, <3>8
    <3>10. Good(g, m)
        BY <3>9
    <3> QED
        BY <2>3, <3>10
  <2> QED
      BY <2>4, <2>5
<1> QED
    BY <1>1, <1>2

LEMMA FoldedIsFold ==
    ASSUME NEW p, log \in Seq(Entry)
    PROVE  IsFold(p, P!Folded(p), Len(log))
<1> DEFINE N == Len(log)
           Rule(f) == f = [n \in 0..N |->
                          IF n = 0 THEN [count |-> 0, due |-> day]
                          ELSE IF n \in P!Evidence(p) THEN P!Step(f[n - 1], log[n]) ELSE f[n - 1]]
           f == P!Folded(p)
<1>1. N \in Nat
    OBVIOUS
<1>2. \E g : Rule(g)
    BY <1>1, FoldExists
<1>3. f = CHOOSE g : Rule(g)
    BY DEF P!Folded
<1>4. Rule(f)
    BY <1>2, <1>3
<1> HIDE DEF f, N
<1>5. DOMAIN f = 0..N
    BY <1>4
<1>6. f[0] = [count |-> 0, due |-> day]
    BY <1>1, <1>4
<1>7. \A n \in 1..N : f[n] = IF n \in P!Evidence(p) THEN P!Step(f[n - 1], log[n]) ELSE f[n - 1]
  <2>1. ASSUME NEW n \in 1..N
        PROVE  f[n] = IF n \in P!Evidence(p) THEN P!Step(f[n - 1], log[n]) ELSE f[n - 1]
    <3>1. n \in 0..N /\ n # 0
        BY <1>1
    <3> QED
        BY <1>4, <3>1
  <2> QED
      BY <2>1
<1> QED
    BY <1>5, <1>6, <1>7 DEF IsFold, f, N

-----------------------------------------------------------------------------
Right(p, i) == log[i].part = p /\ log[i].outcome = "correct" /\ log[i].purpose = "verify"
WrongAt(p, i) == log[i].part = p /\ log[i].outcome = "wrong" /\ log[i].purpose = "verify"

\* Right answers among the first n events, spaced, after the wrong one at w.
One(p, w, n, i) == i \in (w + 1)..n /\ Right(p, i) /\ log[i].day >= log[w].day + 1

Two(p, w, n, i, j) ==
    One(p, w, n, i) /\ j \in (i + 1)..n /\ Right(p, j) /\ log[j].day >= log[i].day + 3

Three(p, w, n, i, j, k) ==
    Two(p, w, n, i, j) /\ k \in (j + 1)..n /\ Right(p, k) /\ log[k].day >= log[j].day + 7

CountedNone(p, w, n, a) ==
    a.count = 0 /\ a.due = log[w].day + 1 /\ \A i \in Nat : ~One(p, w, n, i)

CountedOne(p, w, n, a) ==
    /\ a.count = 1
    /\ \E i \in Nat : /\ One(p, w, n, i) /\ a.due = log[i].day + 3
                      /\ \A x \in Nat : One(p, w, n, x) => log[x].day >= log[i].day
    /\ \A i, j \in Nat : ~Two(p, w, n, i, j)

CountedTwo(p, w, n, a) ==
    /\ a.count = 2
    /\ \E i, j \in Nat : /\ Two(p, w, n, i, j) /\ a.due = log[j].day + 7
                         /\ \A x, y \in Nat : Two(p, w, n, x, y) => log[y].day >= log[j].day
    /\ \A i, j, k \in Nat : ~Three(p, w, n, i, j, k)

CountedThree(p, w, n, a) ==
    a.count = 3 /\ \E i, j, k \in Nat : Three(p, w, n, i, j, k)

\* The count says how many right answers can be spaced, and the day on which the
\* next one is due is as early as their spacing allows.
Counted(p, w, n, a) ==
    \/ CountedNone(p, w, n, a) \/ CountedOne(p, w, n, a)
    \/ CountedTwo(p, w, n, a) \/ CountedThree(p, w, n, a)

LEMMA CountedStep ==
    ASSUME InOrder, NEW p, NEW w \in DOMAIN log,
           \A e \in DOMAIN log : WrongAt(p, e) => e <= w,
           NEW n \in Nat, w <= n, n + 1 \in DOMAIN log,
           NEW a, Counted(p, w, n, a)
    PROVE  Counted(p, w, n + 1,
                   IF n + 1 \in P!Evidence(p) THEN P!Step(a, log[n + 1]) ELSE a)
<1> DEFINE m == n + 1
           e == log[n + 1]
           b == IF n + 1 \in P!Evidence(p) THEN P!Step(a, e) ELSE a
<1>1. /\ log \in Seq(Entry) /\ DOMAIN log = 1..Len(log) /\ Len(log) \in Nat
      /\ w \in Nat /\ m \in Nat /\ m = n + 1 /\ w < m /\ m \in 1..Len(log)
    BY DEF InOrder
<1>2. /\ \A i \in 1..Len(log) : log[i].day \in Nat
      /\ \A i \in 1..m : log[i].day <= e.day
  <2>1. /\ \A i \in DOMAIN log : log[i].day \in 1..day
        /\ \A i, j \in DOMAIN log : i <= j => log[i].day <= log[j].day
      BY DEF InOrder
  <2> HIDE DEF m, e, b
  <2>2. ASSUME NEW i \in 1..Len(log) PROVE log[i].day \in Nat
    <3>1. log[i].day \in 1..day
        BY <1>1, <2>1
    <3> QED
        BY <3>1
  <2>3. m \in DOMAIN log /\ e = log[m]
      BY <1>1 DEF e
  <2>4. ASSUME NEW i \in 1..m PROVE log[i].day <= e.day
    <3>1. i \in DOMAIN log /\ i <= m
        BY ONLY <1>1, i \in 1..m
    <3> QED
        BY <2>1, <2>3, <3>1
  <2> QED
      BY <2>2, <2>4
<1>3. e \in Entry
    BY <1>1
<1>4. \A i \in Nat : /\ One(p, w, n, i) => One(p, w, m, i)
                     /\ One(p, w, m, i) => One(p, w, n, i)
                                               \/ (i = m /\ Right(p, m) /\ e.day >= log[w].day + 1)
    BY <1>1 DEF One
<1>5. \A i, j \in Nat :
         /\ Two(p, w, n, i, j) => Two(p, w, m, i, j)
         /\ Two(p, w, m, i, j) =>
               \/ Two(p, w, n, i, j)
               \/ j = m /\ Right(p, m) /\ One(p, w, n, i) /\ e.day >= log[i].day + 3
    BY <1>1 DEF One, Two
<1>6. \A i, j, k \in Nat :
         /\ Three(p, w, n, i, j, k) => Three(p, w, m, i, j, k)
         /\ Three(p, w, m, i, j, k) =>
               \/ Three(p, w, n, i, j, k)
               \/ k = m /\ Right(p, m) /\ Two(p, w, n, i, j) /\ e.day >= log[j].day + 7
    BY <1>1 DEF One, Two, Three
<1>7. CASE ~Right(p, m)
  <2>1. ~WrongAt(p, m)
      BY <1>1
  <2>2. b = a
    <3>1. CASE n + 1 \notin P!Evidence(p)
        BY <3>1
    <3>2. CASE n + 1 \in P!Evidence(p)
      <4>1. e.part = p /\ e.purpose = "verify"
          BY <3>2 DEF P!Evidence
      <4>2. e.outcome = "pending"
          BY <1>3, <1>7, <2>1, <4>1 DEF Entry, P!Outcomes, Right, WrongAt
      <4> QED
          BY <3>2, <4>2 DEF P!Step
    <3> QED
        BY <3>1, <3>2
  <2>3. /\ \A i \in Nat : One(p, w, m, i) <=> One(p, w, n, i)
        /\ \A i, j \in Nat : Two(p, w, m, i, j) <=> Two(p, w, n, i, j)
        /\ \A i, j, k \in Nat : Three(p, w, m, i, j, k) <=> Three(p, w, n, i, j, k)
      BY <1>4, <1>5, <1>6, <1>7
  <2> HIDE DEF m, b
  <2>4. CountedNone(p, w, n, a) => CountedNone(p, w, m, a)
      BY <2>3 DEF CountedNone
  <2>5. CountedOne(p, w, n, a) => CountedOne(p, w, m, a)
      BY <2>3, Zenon DEF CountedOne
  <2>6. CountedTwo(p, w, n, a) => CountedTwo(p, w, m, a)
      BY <2>3, Zenon DEF CountedTwo
  <2>7. CountedThree(p, w, n, a) => CountedThree(p, w, m, a)
      BY <2>3, Zenon DEF CountedThree
  <2> QED
      BY <2>2, <2>4, <2>5, <2>6, <2>7 DEF Counted, m, b
<1>8. CASE Right(p, m)
  <2>1. b = IF a.count < 3 /\ e.day >= a.due
            THEN [count |-> a.count + 1, due |-> e.day + (IF a.count = 0 THEN 3 ELSE 7)]
            ELSE a
    <3>1. n + 1 \in P!Evidence(p) /\ e.outcome = "correct"
        BY <1>1, <1>8 DEF P!Evidence, Right
    <3> QED
        BY <3>1 DEF P!Step, P!Wrong
  <2> HIDE DEF b
  <2>2. /\ \A i \in Nat : One(p, w, n, i) => i \in 1..Len(log) /\ i <= n
        /\ \A i, j \in Nat : Two(p, w, n, i, j) => One(p, w, n, i) /\ j \in 1..Len(log) /\ j <= n
      BY <1>1 DEF One, Two
  <2>3. ASSUME CountedNone(p, w, n, a) PROVE Counted(p, w, m, b)
    <3>1. /\ a.count = 0 /\ a.due = log[w].day + 1 /\ log[w].day \in Nat /\ e.day \in Nat
          /\ \A i \in Nat : ~One(p, w, n, i)
        BY <1>1, <1>2, <2>3 DEF CountedNone
    <3>2. CASE e.day >= a.due
      <4>1. b.count = 1 /\ b.due = e.day + 3
          BY <2>1, <3>1, <3>2
      <4>2. One(p, w, m, m)
          BY <1>1, <1>8, <3>1, <3>2 DEF One
      <4>3. \A x \in Nat : One(p, w, m, x) => x = m
          BY <1>4, <3>1
      <4>4. \A i, j \in Nat : ~Two(p, w, m, i, j)
        <5>1. \A i, j \in Nat : ~Two(p, w, n, i, j)
            BY <2>2, <3>1
        <5> QED
            BY <1>5, <3>1, <5>1
      <4>5. log[m].day = e.day /\ m \in Nat
          BY <1>1
      <4>6. \A x \in Nat : One(p, w, m, x) => log[x].day >= log[m].day
          BY <3>1, <4>3, <4>5
      <4> QED
          BY <4>1, <4>2, <4>4, <4>5, <4>6 DEF Counted, CountedOne
    <3>3. CASE ~ (e.day >= a.due)
      <4>1. b = a
          BY <2>1, <3>3
      <4>2. \A i \in Nat : ~One(p, w, m, i)
          BY <1>4, <3>1, <3>3
      <4> QED
          BY <3>1, <4>1, <4>2 DEF Counted, CountedNone
    <3> QED
        BY <3>2, <3>3
  <2>4. ASSUME CountedOne(p, w, n, a) PROVE Counted(p, w, m, b)
    <3>1. a.count = 1 /\ \A i, j \in Nat : ~Two(p, w, n, i, j)
        BY <2>4 DEF CountedOne
    <3>2. PICK i \in Nat : /\ One(p, w, n, i) /\ a.due = log[i].day + 3
                          /\ \A x \in Nat : One(p, w, n, x) => log[x].day >= log[i].day
        BY <2>4 DEF CountedOne
    <3>3. /\ i \in 1..Len(log) /\ i <= n /\ log[i].day \in Nat /\ e.day \in Nat
          /\ log[i].day <= e.day
        BY <1>1, <1>2, <2>2, <3>2
    <3>4. \A x, y, z \in Nat : ~Three(p, w, m, x, y, z)
      <4>1. \A x, y, z \in Nat : ~Three(p, w, n, x, y, z)
          BY <3>1 DEF Three
      <4> QED
          BY <1>6, <3>1, <4>1
    <3>5. CASE e.day >= a.due
      <4>1. b.count = 2 /\ b.due = e.day + 7
          BY <2>1, <3>1, <3>5
      <4>2. Two(p, w, m, i, m)
        <5>1. One(p, w, m, i) /\ m \in (i + 1)..m
            BY <1>1, <1>4, <3>2, <3>3
        <5> QED
            BY <1>8, <3>2, <3>5, <5>1 DEF Two
      <4>3. \A x, y \in Nat : Two(p, w, m, x, y) => y = m
          BY <1>5, <3>1
      <4>4. log[m].day = e.day /\ m \in Nat
          BY <1>1
      <4>5. \A x, y \in Nat : Two(p, w, m, x, y) => log[y].day >= log[m].day
          BY <3>3, <4>3, <4>4
      <4> QED
          BY <3>4, <4>1, <4>2, <4>4, <4>5 DEF Counted, CountedTwo
    <3>6. CASE ~ (e.day >= a.due)
      <4>1. b = a
          BY <2>1, <3>6
      <4>2. One(p, w, m, i)
          BY <1>4, <3>2
      <4>3. \A x \in Nat : One(p, w, m, x) => log[x].day >= log[i].day
        <5>1. ASSUME NEW x \in Nat, One(p, w, m, x) PROVE log[x].day >= log[i].day
          <6>1. CASE One(p, w, n, x)
              BY <3>2, <6>1
          <6>2. CASE x = m
              BY <1>1, <3>3, <6>2
          <6> QED
              BY <1>4, <5>1, <6>1, <6>2
        <5> QED
            BY <5>1
      <4>4. \A x, y \in Nat : ~Two(p, w, m, x, y)
        <5>1. ASSUME NEW x \in Nat, NEW y \in Nat, Two(p, w, m, x, y) PROVE FALSE
          <6>1. One(p, w, n, x) /\ e.day >= log[x].day + 3
              BY <1>5, <3>1, <5>1
          <6>2. log[x].day >= log[i].day /\ log[x].day \in Nat
              BY <1>2, <2>2, <3>2, <6>1
          <6> QED
              BY <3>2, <3>3, <3>6, <6>1, <6>2
        <5> QED
            BY <5>1
      <4> QED
          BY <3>1, <3>2, <4>1, <4>2, <4>3, <4>4 DEF Counted, CountedOne
    <3> QED
        BY <3>5, <3>6
  <2>5. ASSUME CountedTwo(p, w, n, a) PROVE Counted(p, w, m, b)
    <3>1. a.count = 2 /\ \A i, j, k \in Nat : ~Three(p, w, n, i, j, k)
        BY <2>5 DEF CountedTwo
    <3>2. PICK i \in Nat, j \in Nat :
             /\ Two(p, w, n, i, j) /\ a.due = log[j].day + 7
             /\ \A x, y \in Nat : Two(p, w, n, x, y) => log[y].day >= log[j].day
        BY <2>5 DEF CountedTwo
    <3>3. /\ j \in 1..Len(log) /\ j <= n /\ log[j].day \in Nat /\ e.day \in Nat
          /\ log[j].day <= e.day
        BY <1>1, <1>2, <2>2, <3>2
    <3>4. CASE e.day >= a.due
      <4>1. b.count = 3
          BY <2>1, <3>1, <3>4
      <4>2. Three(p, w, m, i, j, m)
        <5>1. Two(p, w, m, i, j) /\ m \in (j + 1)..m
            BY <1>1, <1>5, <3>2, <3>3
        <5> QED
            BY <1>8, <3>2, <3>4, <5>1 DEF Three
      <4> QED
          BY <1>1, <4>1, <4>2 DEF Counted, CountedThree
    <3>5. CASE ~ (e.day >= a.due)
      <4>1. b = a
          BY <2>1, <3>5
      <4>2. Two(p, w, m, i, j)
          BY <1>5, <3>2
      <4>3. \A x, y \in Nat : Two(p, w, m, x, y) => log[y].day >= log[j].day
        <5>1. ASSUME NEW x \in Nat, NEW y \in Nat, Two(p, w, m, x, y)
              PROVE  log[y].day >= log[j].day
          <6>1. CASE Two(p, w, n, x, y)
              BY <3>2, <6>1
          <6>2. CASE y = m
              BY <1>1, <3>3, <6>2
          <6> QED
              BY <1>5, <5>1, <6>1, <6>2
        <5> QED
            BY <5>1
      <4>4. \A x, y, z \in Nat : ~Three(p, w, m, x, y, z)
        <5>1. ASSUME NEW x \in Nat, NEW y \in Nat, NEW z \in Nat, Three(p, w, m, x, y, z)
              PROVE  FALSE
          <6>1. Two(p, w, n, x, y) /\ e.day >= log[y].day + 7
              BY <1>6, <3>1, <5>1
          <6>2. log[y].day >= log[j].day /\ log[y].day \in Nat
              BY <1>2, <2>2, <3>2, <6>1
          <6>3. ~ (e.day >= log[j].day + 7)
              BY <3>2, <3>5
          <6>4. \A k, u, v \in Nat : k >= u + 7 /\ u >= v => k >= v + 7
              OBVIOUS
          <6>5. e.day \in Nat /\ log[j].day \in Nat /\ e.day >= log[y].day + 7
              BY <3>3, <6>1
          <6> QED
              BY <6>2, <6>3, <6>4, <6>5, Zenon
        <5> QED
            BY <5>1
      <4> QED
          BY <3>1, <3>2, <4>1, <4>2, <4>3, <4>4 DEF Counted, CountedTwo
    <3> QED
        BY <3>4, <3>5
  <2>6. ASSUME CountedThree(p, w, n, a) PROVE Counted(p, w, m, b)
    <3>1. a.count = 3
        BY <2>6 DEF CountedThree
    <3>2. b = a
        BY <2>1, <3>1
    <3>3. PICK i \in Nat, j \in Nat, k \in Nat : Three(p, w, n, i, j, k)
        BY <2>6 DEF CountedThree
    <3>4. Three(p, w, m, i, j, k)
        BY <1>6, <3>3
    <3> QED
        BY <3>1, <3>2, <3>4 DEF Counted, CountedThree
  <2> QED
      BY <2>3, <2>4, <2>5, <2>6 DEF Counted, b
<1> QED
    BY <1>7, <1>8

\* From the last wrong answer on, the fold counts.
LEMMA FoldCounts ==
    ASSUME InOrder, NEW p, NEW f, IsFold(p, f, Len(log)),
           NEW w \in DOMAIN log, WrongAt(p, w),
           \A e \in DOMAIN log : WrongAt(p, e) => e <= w
    PROVE  \A n \in w..Len(log) : Counted(p, w, n, f[n])
<1> DEFINE Bad == {n \in w..Len(log) : ~Counted(p, w, n, f[n])}
<1>1. log \in Seq(Entry) /\ DOMAIN log = 1..Len(log) /\ Len(log) \in Nat /\ w \in 1..Len(log)
    BY DEF InOrder
<1>2. CASE Bad = {}
    BY <1>2
<1>3. CASE Bad # {}
  <2>1. Bad \in SUBSET Nat
      BY <1>1
  <2>2. PICK m \in Bad : \A n \in Bad : m <= n
    <3> HIDE DEF Bad
    <3> QED
        BY <1>3, <2>1, Smallest
  <2>3. m \in w..Len(log) /\ ~Counted(p, w, m, f[m]) /\ m \in Nat /\ m \in 1..Len(log)
      BY <1>1, <2>2
  <2>4. f[m] = IF m \in P!Evidence(p) THEN P!Step(f[m - 1], log[m]) ELSE f[m - 1]
      BY <2>3 DEF IsFold
  <2>5. CASE m = w
    <3>1. m \in P!Evidence(p) /\ log[m].outcome = "wrong"
        BY <1>1, <2>3, <2>5 DEF P!Evidence, WrongAt
    <3>2. f[m].count = 0 /\ f[m].due = log[w].day + 1
        BY <2>4, <2>5, <3>1 DEF P!Step, P!Wrong
    <3>3. \A i \in Nat : ~One(p, w, w, i)
        BY <1>1 DEF One
    <3> QED
        BY <2>3, <2>5, <3>2, <3>3 DEF Counted, CountedNone
  <2>6. CASE m # w
    <3> DEFINE n == m - 1
    <3>1. n \in Nat /\ n \in w..Len(log) /\ w <= n /\ n + 1 = m /\ ~ (m <= n)
        BY <1>1, <2>3, <2>6
    <3> HIDE DEF n
    <3>2. n \notin Bad
      <4> HIDE DEF Bad
      <4> QED
          BY <2>2, <3>1
    <3>3. Counted(p, w, n, f[n])
        BY <3>1, <3>2
    <3>4. f[m - 1] = f[n]
        BY DEF n
    <3>5. n + 1 \in DOMAIN log
        BY <1>1, <2>3, <3>1
    <3>6. Counted(p, w, n + 1,
                   IF n + 1 \in P!Evidence(p) THEN P!Step(f[n], log[n + 1]) ELSE f[n])
        BY <3>1, <3>3, <3>5, CountedStep
    <3> QED
        BY <2>3, <2>4, <3>1, <3>4, <3>6
  <2> QED
      BY <2>5, <2>6
<1> QED
    BY <1>2, <1>3

\* Three right answers are spaced after the last wrong one exactly when a count of
\* three is reached at the end of the log.
LEMMA CountMeansSpaced ==
    ASSUME InOrder, NEW p, NEW w \in DOMAIN log, WrongAt(p, w),
           \A e \in DOMAIN log : WrongAt(p, e) => e <= w,
           NEW a, Counted(p, w, Len(log), a)
    PROVE  a.count = 3 <=> P!Spaced(p)
<1> DEFINE N == Len(log)
<1>1. log \in Seq(Entry) /\ DOMAIN log = 1..N /\ N \in Nat /\ w \in 1..N
    BY DEF InOrder
<1>2. \A i \in 1..N : log[i].day \in Nat
    BY <1>1 DEF InOrder
<1>3. a.count = 3 <=> \E i, j, k \in Nat : Three(p, w, N, i, j, k)
  <2>1. CASE CountedNone(p, w, N, a)
    <3>1. a.count = 0 /\ \A i \in Nat : ~One(p, w, N, i)
        BY <2>1 DEF CountedNone
    <3> QED
        BY <3>1 DEF Three, Two
  <2>2. CASE CountedOne(p, w, N, a)
    <3>1. a.count = 1 /\ \A i, j \in Nat : ~Two(p, w, N, i, j)
        BY <2>2 DEF CountedOne
    <3> QED
        BY <3>1 DEF Three
  <2>3. CASE CountedTwo(p, w, N, a)
    <3>1. a.count = 2 /\ \A i, j, k \in Nat : ~Three(p, w, N, i, j, k)
        BY <2>3 DEF CountedTwo
    <3> QED
        BY <3>1
  <2>4. CASE CountedThree(p, w, N, a)
      BY <2>4 DEF CountedThree
  <2> QED
      BY <2>1, <2>2, <2>3, <2>4 DEF Counted
<1> HIDE DEF N
<1>4. ASSUME NEW i \in Nat, NEW j \in Nat, NEW k \in Nat, Three(p, w, N, i, j, k)
      PROVE  P!Spaced(p)
  <2>1. /\ i \in 1..N /\ j \in 1..N /\ k \in 1..N /\ w < i /\ i < j /\ j < k
        /\ Right(p, i) /\ Right(p, j) /\ Right(p, k)
        /\ log[i].day >= log[w].day + 1
        /\ log[j].day >= log[i].day + 3 /\ log[k].day >= log[j].day + 7
      BY <1>1, <1>4 DEF Three, Two, One
  <2>2. ASSUME NEW e \in DOMAIN log, WrongAt(p, e) PROVE e < i /\ log[e].day < log[i].day
    <3>1. e <= w /\ e \in 1..N
        BY <1>1, <2>2
    <3>2. log[e].day <= log[w].day /\ log[e].day \in Nat /\ log[w].day \in Nat /\ log[i].day \in Nat
        BY <1>1, <1>2, <2>1, <3>1 DEF InOrder
    <3> QED
        BY <1>1, <2>1, <3>1, <3>2
  <2> QED
      BY <1>1, <2>1, <2>2 DEF P!Spaced, P!Wrong, Right, WrongAt
<1>5. ASSUME P!Spaced(p) PROVE \E i, j, k \in Nat : Three(p, w, N, i, j, k)
  <2>1. PICK i, j, k \in DOMAIN log :
           /\ i < j /\ j < k
           /\ Right(p, i) /\ Right(p, j) /\ Right(p, k)
           /\ \A e \in DOMAIN log : WrongAt(p, e) => e < i /\ log[e].day < log[i].day
           /\ log[j].day >= log[i].day + 3 /\ log[k].day >= log[j].day + 7
      BY <1>5 DEF P!Spaced, P!Wrong, Right, WrongAt
  <2>2. w < i /\ log[w].day < log[i].day /\ log[w].day \in Nat /\ log[i].day \in Nat
      BY <1>1, <1>2, <2>1
  <2>3. /\ i \in Nat /\ j \in Nat /\ k \in Nat
        /\ i \in (w + 1)..N /\ j \in (i + 1)..N /\ k \in (j + 1)..N
      BY <1>1, <2>1, <2>2
  <2>4. log[i].day >= log[w].day + 1
      BY <2>2
  <2>5. Three(p, w, N, i, j, k)
      BY <2>1, <2>3, <2>4 DEF Three, Two, One
  <2> QED
      BY <2>3, <2>5
<1> QED
    BY <1>3, <1>4, <1>5

LEMMA PracticeHolds ==
    ASSUME PracticeInv, Marked
    PROVE  P!PracticeTypeOK /\ P!StoredWhole /\ P!ConsolidatedMeansSpaced
<1>1. ASSUME NEW p \in book PROVE P!Progress(p).count = 3 <=> P!Spaced(p)
  <2> DEFINE W == {i \in DOMAIN log : WrongAt(p, i)}
  <2>1. InOrder /\ log \in Seq(Entry) /\ DOMAIN log = 1..Len(log) /\ Len(log) \in Nat
      BY DEF PracticeInv, InOrder
  <2>2. W \in SUBSET Nat /\ W # {} /\ \A i \in W : i <= Len(log)
    <3>1. PICK i \in DOMAIN log : WrongAt(p, i)
        BY <1>1 DEF PracticeInv, Booked, WrongAt
    <3> QED
        BY <2>1, <3>1
  <2>3. PICK w \in W : \A i \in W : i <= w
    <3> HIDE DEF W
    <3> QED
        BY <2>1, <2>2, Largest
  <2>4. /\ w \in DOMAIN log /\ WrongAt(p, w) /\ w \in 1..Len(log)
        /\ \A e \in DOMAIN log : WrongAt(p, e) => e <= w
      BY <2>1, <2>3
  <2>5. IsFold(p, P!Folded(p), Len(log))
      BY <2>1, FoldedIsFold
  <2>6. Len(log) \in w..Len(log)
      BY <2>1, <2>4
  <2>7. Counted(p, w, Len(log), P!Folded(p)[Len(log)])
      BY <2>1, <2>4, <2>5, <2>6, FoldCounts
  <2>8. P!Progress(p) = P!Folded(p)[Len(log)]
      BY DEF P!Progress
  <2> QED
      BY <2>1, <2>4, <2>7, <2>8, CountMeansSpaced
<1>2. P!ConsolidatedMeansSpaced
    BY <1>1 DEF P!ConsolidatedMeansSpaced
<1> QED
    BY <1>2, PracticeTyped DEF PracticeInv

-----------------------------------------------------------------------------
(***************************************************************************)
(* Diagnosis. The route of a session is a function of its events, and a    *)
(* page that is up to date shows where it leads; the basic knowledge is    *)
(* asked for when every check of the first difficulty was passed.          *)
(***************************************************************************)
Nodes == {D!Act(i) : i \in DOMAIN Acts} \cup {D!Foundation, D!Cue, D!Recall, D!Nothing}

Sessions == [protocol : {0, 2, 3}, mode : {"none", "quick", "deep"}, report : Reports \cup {"none"},
             cursor : Nat, status : D!Statuses, assisted : 0..MaxClock]

Deeds == {"probe", "locate", "finish", "select-mode", "revise", "practice", "verify"}

Verdicts == {"yes", "no", "unsure", "none"}

Words == {"none", "agree", "different", "quick", "deep", "other", "forgot", "never_understood",
          "not_recalled"}

Categories == {"none", "insufficient", "answer_context", "knowledge_forgotten",
               "knowledge_unclear", "knowledge_gap", "knowledge_retrieval",
               "condition_decoding", "model_identification", "knowledge_organization",
               "formula_application", "calculation", "result_check"}

Happening == [action : Deeds, node : Nodes, passed : Verdicts, reason : Words,
              assisted : BOOLEAN, at : Nat, key : Nat, shown : Nodes,
              helped : BOOLEAN, category : Categories]

Sheet == [cursor : Nat, node : Nodes, key : Nat]

SessionTyped ==
    /\ session \in Sessions /\ events \in Seq(Happening) /\ clock \in 1..MaxClock
    /\ page \in [Pages -> Sheet]
    /\ session.cursor = Len(events) /\ Len(events) <= MaxEvents
    /\ session.status = "none" => events = <<>> /\ \A p \in Pages : page[p].key = 0
    /\ session.status # "none" => session.mode \in {"quick", "deep"}

\* An active session has a next node, which every page that is up to date shows.
PagesShowRoute ==
    /\ session.status = "active" /\ session.protocol = 3 => D!Route(session, events) # D!Nothing
    /\ \A p \in Pages : page[p].cursor <= session.cursor
    /\ \A p \in Pages :
          page[p].key # 0 /\ page[p].cursor = session.cursor /\ session.status = "active" =>
             page[p].node = D!Route(session, events)

\* What marks a session as helped.
HelpMarks ==
    \A i \in DOMAIN events :
       \/ events[i].helped
       \/ events[i].action = "practice"
       \/ events[i].action = "probe" /\ events[i].node # D!Cue /\ events[i].assisted
       => session.assisted # D!NoTime

HelpStays ==
    \A i, j \in DOMAIN events :
       i < j /\ events[i].action = "probe" /\ events[i].node # D!Cue /\ events[i].assisted
         /\ events[j].action = "probe" => events[j].assisted

\* The actions the first difficulty needs that were not passed.
Open(evs) == {i \in Acts[D!Blocked(evs)].pre : ~D!Passed(evs, D!Act(i))}

\* The basic knowledge is asked for last, before a cue.
FoundationLast ==
    /\ D!Asked(events, D!Foundation) =>
          /\ session.report # "time" /\ D!Blocked(events) # 0
          /\ D!Recalls(events) # {} /\ Open(events) = {}
    /\ \A i, j \in DOMAIN events :
          i < j /\ events[i].action = "probe" /\ events[i].node = D!Foundation
            /\ events[j].action = "probe" => events[j].node = D!Cue

DiagInv ==
    /\ SessionTyped /\ PagesShowRoute /\ HelpMarks /\ HelpStays /\ FoundationLast
    /\ D!AnsweredAsShown /\ D!HelpIsRemembered /\ D!ConclusionIsIndependent

-----------------------------------------------------------------------------
LEMMA DiagAssumed ==
    /\ MaxClock \in Nat \ {0} /\ MaxEvents \in Nat /\ IsFiniteSet(Pages)
    /\ DOMAIN Acts \in SUBSET Nat /\ 1 \in DOMAIN Acts
    /\ \A i \in DOMAIN Acts : Acts[i].pre \subseteq DOMAIN Acts
    /\ \A i \in DOMAIN Acts : Acts[i].kind \in D!Kinds
<1>1. D!DiagnosisAssumption
    BY LearningAssumption DEF LearningAssumption
<1>2. Acts \in Seq([kind : D!Kinds, pre : SUBSET Nat]) /\ Len(Acts) >= 1
      /\ \A i \in DOMAIN Acts : Acts[i].pre \subseteq 1..(i - 1)
    BY <1>1 DEF D!DiagnosisAssumption
<1>3. DOMAIN Acts = 1..Len(Acts) /\ Len(Acts) \in Nat
    BY <1>2
<1>4. ASSUME NEW i \in DOMAIN Acts
      PROVE  Acts[i].pre \subseteq DOMAIN Acts /\ Acts[i].kind \in D!Kinds
  <2> DEFINE Shape == [kind : D!Kinds, pre : SUBSET Nat]
  <2>1. Acts \in Seq(Shape)
      BY <1>2
  <2> HIDE DEF Shape
  <2>2. Acts[i] \in Shape
      BY <2>1
  <2>3. Acts[i].kind \in D!Kinds
      BY <2>2 DEF Shape
  <2>4. i - 1 \in Int /\ i - 1 <= Len(Acts) /\ Acts[i].pre \subseteq 1..(i - 1)
      BY <1>2, <1>3
  <2> QED
      BY <1>3, <2>3, <2>4
<1>5. DOMAIN Acts \in SUBSET Nat /\ 1 \in DOMAIN Acts
    BY <1>2, <1>3
<1>6. \A s : D!IsFiniteSet(s) <=> IsFiniteSet(s)
    BY DEF D!IsFiniteSet, IsFiniteSet
<1> QED
    BY <1>1, <1>4, <1>5, <1>6 DEF D!DiagnosisAssumption

LEMMA SameSizeOfDiag == \A s : D!Cardinality(s) = Cardinality(s)
BY Zenon DEF D!Cardinality, Cardinality

LEMMA LeastIs ==
    ASSUME NEW S \in SUBSET Nat, S # {}
    PROVE  D!Least(S) \in S /\ \A n \in S : D!Least(S) <= n
<1>1. \E m \in S : \A n \in S : m <= n
    BY Smallest
<1> QED
    BY <1>1 DEF D!Least

\* The nodes differ.
LEMMA NodesDiffer ==
    /\ \A i : D!Act(i)[1] = "a" /\ D!Act(i)[2] = i
    /\ D!Foundation[1] = "foundation" /\ D!Cue[1] = "cue" /\ D!Recall[1] = "recall"
    /\ D!Nothing[1] = "none"
    /\ D!Foundation # D!Cue /\ D!Foundation # D!Recall /\ D!Foundation # D!Nothing
    /\ D!Cue # D!Recall /\ D!Cue # D!Nothing /\ D!Recall # D!Nothing
    /\ \A i : /\ D!Act(i) # D!Foundation /\ D!Act(i) # D!Cue
              /\ D!Act(i) # D!Recall /\ D!Act(i) # D!Nothing
BY DEF D!Act, D!Foundation, D!Cue, D!Recall, D!Nothing

LEMMA BlockedTyped ==
    ASSUME NEW evs \in Seq(Happening)
    PROVE  D!Blocked(evs) \in {0} \cup DOMAIN Acts
<1> DEFINE failed == {i \in D!Probes(evs) : evs[i].node[1] = "a" /\ evs[i].passed # "yes"}
<1>1. failed \in SUBSET Nat
    BY DEF D!Probes, D!Of
<1>2. D!Blocked(evs) = IF failed = {} THEN 0 ELSE evs[D!Least(failed)].node[2]
    BY DEF D!Blocked
<1>3. CASE failed # {}
  <2>1. D!Least(failed) \in failed
      BY <1>1, <1>3, LeastIs
  <2>2. PICK i : i = D!Least(failed)
      OBVIOUS
  <2>3. i \in DOMAIN evs /\ evs[i].node[1] = "a"
      BY <2>1, <2>2 DEF D!Probes, D!Of
  <2>4. evs[i].node \in Nodes
    <3>1. evs[i] \in Happening
        BY <2>3
    <3> QED
        BY <3>1 DEF Happening
  <2>5. evs[i].node[2] \in DOMAIN Acts
      BY <2>3, <2>4, NodesDiffer DEF Nodes
  <2> QED
      BY <1>2, <1>3, <2>2, <2>5
<1> QED
    BY <1>2, <1>3

\* Two histories that say the same of their questions lead on the same way.
Alike(a, b) ==
    /\ DOMAIN a = DOMAIN b
    /\ \A i \in DOMAIN a : /\ a[i].action = b[i].action /\ a[i].node = b[i].node
                           /\ a[i].passed = b[i].passed

LEMMA AlikeSame ==
    ASSUME NEW a \in Seq(Happening), NEW b, Alike(a, b)
    PROVE  /\ \A action : D!Of(action, a) = D!Of(action, b)
           /\ \A n : D!Asked(a, n) <=> D!Asked(b, n)
           /\ \A n : D!Passed(a, n) <=> D!Passed(b, n)
           /\ D!Blocked(a) = D!Blocked(b)
<1>1. \A action : D!Of(action, a) = D!Of(action, b)
    BY DEF D!Of, Alike
<1>2. \A n : (D!Asked(a, n) <=> D!Asked(b, n)) /\ (D!Passed(a, n) <=> D!Passed(b, n))
    BY DEF D!Asked, D!Passed, Alike
<1> DEFINE Failed(evs) == {i \in D!Probes(evs) : evs[i].node[1] = "a" /\ evs[i].passed # "yes"}
<1>3. D!Probes(a) = D!Probes(b) /\ D!Probes(a) \subseteq DOMAIN a
    BY <1>1 DEF D!Probes, D!Of
<1>4. Failed(a) = Failed(b)
    BY <1>3 DEF Alike
<1>5. Failed(a) # {} => a[D!Least(Failed(a))].node = b[D!Least(Failed(b))].node
  <2>1. Failed(a) \in SUBSET Nat /\ Failed(a) \subseteq DOMAIN a
      BY <1>3
  <2> HIDE DEF Failed
  <2>2. Failed(a) # {} => D!Least(Failed(a)) \in DOMAIN a
      BY <2>1, LeastIs
  <2> QED
      BY <1>4, <2>2 DEF Alike
<1>6. /\ D!Blocked(a) = IF Failed(a) = {} THEN 0 ELSE a[D!Least(Failed(a))].node[2]
      /\ D!Blocked(b) = IF Failed(b) = {} THEN 0 ELSE b[D!Least(Failed(b))].node[2]
    BY DEF D!Blocked
<1> HIDE DEF Failed
<1>7. D!Blocked(a) = D!Blocked(b)
    BY <1>4, <1>5, <1>6
<1> QED
    BY <1>1, <1>2, <1>7

LEMMA SameRoute ==
    ASSUME NEW a \in Seq(Happening), NEW b, Alike(a, b),
           NEW s, NEW r, s.report = r.report, s.mode = r.mode
    PROVE  D!Route(s, a) = D!Route(r, b)
<1>1. /\ D!Recalls(a) = D!Recalls(b) /\ D!Blocked(a) = D!Blocked(b)
      /\ \A n : D!Asked(a, n) <=> D!Asked(b, n)
      /\ \A n : D!Passed(a, n) <=> D!Passed(b, n)
    BY AlikeSame DEF D!Recalls
<1>2. D!Targets(s) = D!Targets(r)
    BY DEF D!Targets
<1>3. {i \in D!Targets(s) : ~D!Asked(a, D!Act(i))} = {i \in D!Targets(r) : ~D!Asked(b, D!Act(i))}
    BY <1>1, <1>2
<1>4. D!AfterBlock(s, a, D!Blocked(a)) = D!AfterBlock(r, b, D!Blocked(b))
  <2>1. {i \in Acts[D!Blocked(a)].pre : ~D!Passed(a, D!Act(i))}
          = {i \in Acts[D!Blocked(b)].pre : ~D!Passed(b, D!Act(i))}
      BY <1>1
  <2> QED
      BY <1>1, <2>1 DEF D!AfterBlock
<1> QED
    BY <1>1, <1>3, <1>4 DEF D!Route

-----------------------------------------------------------------------------
(* What a further event changes.                                            *)

LEMMA Grown ==
    ASSUME NEW evs \in Seq(Happening), NEW e \in Happening
    PROVE  /\ Append(evs, e) \in Seq(Happening)
           /\ DOMAIN Append(evs, e) = DOMAIN evs \cup {Len(evs) + 1}
           /\ Len(evs) + 1 \notin DOMAIN evs /\ Len(Append(evs, e)) = Len(evs) + 1
           /\ \A i \in DOMAIN evs : Append(evs, e)[i] = evs[i] /\ i \in Nat /\ i <= Len(evs)
           /\ Append(evs, e)[Len(evs) + 1] = e
           /\ \A action : D!Of(action, Append(evs, e)) =
                 IF e.action = action THEN D!Of(action, evs) \cup {Len(evs) + 1}
                 ELSE D!Of(action, evs)
           /\ \A n : D!Asked(Append(evs, e), n) <=>
                 D!Asked(evs, n) \/ (e.action = "probe" /\ e.node = n)
           /\ \A n : D!Passed(evs, n) => D!Passed(Append(evs, e), n)
           /\ D!Blocked(evs) # 0 => D!Blocked(Append(evs, e)) = D!Blocked(evs)
<1> DEFINE ext == Append(evs, e)
           m == Len(evs) + 1
<1>1. /\ ext \in Seq(Happening) /\ DOMAIN ext = DOMAIN evs \cup {m} /\ m \notin DOMAIN evs
      /\ Len(ext) = m /\ ext[m] = e /\ m \in Nat
      /\ \A i \in DOMAIN evs : ext[i] = evs[i] /\ i \in Nat /\ i <= Len(evs) /\ i < m
    OBVIOUS
<1> HIDE DEF ext, m
<1>2. \A action : D!Of(action, ext) =
         IF e.action = action THEN D!Of(action, evs) \cup {m} ELSE D!Of(action, evs)
  <2>1. ASSUME NEW action
        PROVE  D!Of(action, ext) =
                  IF e.action = action THEN D!Of(action, evs) \cup {m} ELSE D!Of(action, evs)
    <3>1. D!Of(action, ext) = {i \in DOMAIN evs \cup {m} : ext[i].action = action}
        BY <1>1 DEF D!Of
    <3>2. D!Of(action, evs) = {i \in DOMAIN evs : ext[i].action = action}
        BY <1>1 DEF D!Of
    <3> QED
        BY <1>1, <3>1, <3>2
  <2> QED
      BY <2>1
<1>3. \A n : D!Asked(ext, n) <=> D!Asked(evs, n) \/ (e.action = "probe" /\ e.node = n)
    BY <1>1 DEF D!Asked
<1>4. \A n : D!Passed(evs, n) => D!Passed(ext, n)
    BY <1>1 DEF D!Passed
<1>5. ASSUME D!Blocked(evs) # 0 PROVE D!Blocked(ext) = D!Blocked(evs)
  <2> DEFINE Failed(h) == {i \in D!Probes(h) : h[i].node[1] = "a" /\ h[i].passed # "yes"}
  <2>1. /\ D!Blocked(evs) = IF Failed(evs) = {} THEN 0 ELSE evs[D!Least(Failed(evs))].node[2]
        /\ D!Blocked(ext) = IF Failed(ext) = {} THEN 0 ELSE ext[D!Least(Failed(ext))].node[2]
      BY DEF D!Blocked
  <2>2. /\ \A i \in Failed(evs) : i \in Failed(ext) /\ i \in DOMAIN evs
        /\ \A i \in Failed(ext) : i \in Failed(evs) \/ i = m
        /\ Failed(ext) \in SUBSET Nat /\ Failed(evs) \in SUBSET Nat
      BY <1>1 DEF D!Probes, D!Of
  <2> HIDE DEF Failed
  <2>3. Failed(evs) # {}
      BY <1>5, <2>1
  <2> DEFINE x == D!Least(Failed(evs))
             y == D!Least(Failed(ext))
  <2>4. x \in Failed(evs) /\ \A i \in Failed(evs) : x <= i
      BY <2>2, <2>3, LeastIs
  <2>5. y \in Failed(ext) /\ \A i \in Failed(ext) : y <= i
      BY <2>2, <2>3, LeastIs
  <2> HIDE DEF x, y
  <2>6. x \in Nat /\ y \in Nat /\ x < m /\ y <= x
      BY <1>1, <2>2, <2>4, <2>5
  <2>7. y \in Failed(evs)
      BY <1>1, <2>2, <2>5, <2>6
  <2>8. x = y
      BY <2>4, <2>6, <2>7
  <2>9. ext[x] = evs[x] /\ Failed(ext) # {}
      BY <1>1, <2>2, <2>4
  <2> QED
      BY <2>1, <2>3, <2>8, <2>9 DEF x, y
<1> QED
    BY <1>1, <1>2, <1>3, <1>4, <1>5 DEF ext, m

-----------------------------------------------------------------------------
(* What comes next.                                                         *)

LEMMA TargetsTyped ==
    ASSUME NEW s
    PROVE  D!Targets(s) \subseteq DOMAIN Acts /\ D!Targets(s) # {}
<1> DEFINE fitting == {i \in DOMAIN Acts : Acts[i].kind = D!ReportKind(s.report)}
           first == IF fitting = {} THEN 1 ELSE D!Least(fitting)
<1>1. first \in DOMAIN Acts
  <2>1. fitting \in SUBSET Nat
      BY DiagAssumed
  <2>2. fitting # {} => D!Least(fitting) \in fitting
      BY <2>1, LeastIs
  <2>3. 1 \in DOMAIN Acts
      BY DiagAssumed
  <2> QED
      BY <2>2, <2>3
<1>2. D!Targets(s) = IF s.mode = "quick" THEN {first, first + 1} \cap DOMAIN Acts
                     ELSE DOMAIN Acts
    BY DEF D!Targets
<1> QED
    BY <1>1, <1>2

LEMMA RouteLeads ==
    ASSUME NEW evs \in Seq(Happening), NEW s
    PROVE  /\ D!Route(s, evs) \in Nodes
           /\ D!Route(s, evs) \notin {D!Recall, D!Nothing} => ~D!Asked(evs, D!Route(s, evs))
           /\ D!Route(s, evs) = D!Foundation /\ s.mode \in {"quick", "deep"} =>
                 /\ s.report # "time" /\ D!Blocked(evs) # 0
                 /\ D!Recalls(evs) # {} /\ Open(evs) = {}
           /\ s.report # "time" /\ D!Blocked(evs) # 0 /\ D!Recalls(evs) # {} /\ Open(evs) = {}
              /\ D!Asked(evs, D!Foundation) => D!Route(s, evs) \in {D!Cue, D!Nothing}
<1> DEFINE b == D!Blocked(evs)
           left == {i \in D!Targets(s) : ~D!Asked(evs, D!Act(i))}
           r == D!Route(s, evs)
<1>1. b \in {0} \cup DOMAIN Acts
    BY BlockedTyped
<1>2. left \in SUBSET Nat /\ left \subseteq DOMAIN Acts
    BY TargetsTyped, DiagAssumed
<1>3. left # {} => D!Least(left) \in DOMAIN Acts /\ ~D!Asked(evs, D!Act(D!Least(left)))
  <2>1. left # {} => D!Least(left) \in left
      BY <1>2, LeastIs
  <2> QED
      BY <2>1, <1>2
<1>4. b # 0 => Open(evs) \in SUBSET Nat /\ Open(evs) \subseteq DOMAIN Acts
    BY <1>1, DiagAssumed DEF Open
<1>5. b # 0 /\ Open(evs) # {} => D!Least(Open(evs)) \in DOMAIN Acts
    BY <1>4, LeastIs
<1>6. D!AfterBlock(s, evs, b) =
         CASE D!Recalls(evs) = {} -> D!Recall
           [] D!Recalls(evs) # {} /\ s.mode = "quick" -> D!Nothing
           [] D!Recalls(evs) # {} /\ s.mode = "deep" /\ Open(evs) # {} ->
                 IF D!Asked(evs, D!Act(D!Least(Open(evs)))) THEN D!Nothing
                 ELSE D!Act(D!Least(Open(evs)))
           [] OTHER ->
                 IF ~D!Asked(evs, D!Foundation) THEN D!Foundation
                 ELSE IF D!Passed(evs, D!Foundation) /\ ~D!Asked(evs, D!Cue) THEN D!Cue
                 ELSE D!Nothing
    BY DEF D!AfterBlock, Open
<1>7. r = IF s.report = "time" THEN IF D!Recalls(evs) = {} THEN D!Recall ELSE D!Nothing
          ELSE IF b # 0 THEN D!AfterBlock(s, evs, b)
          ELSE IF left # {} THEN D!Act(D!Least(left))
          ELSE IF s.report # "unsure" /\ D!Recalls(evs) = {} THEN D!Recall
          ELSE D!Nothing
    BY DEF D!Route
<1> HIDE DEF left, b, r
<1>8. /\ D!Recall \in Nodes /\ D!Nothing \in Nodes /\ D!Foundation \in Nodes /\ D!Cue \in Nodes
      /\ \A i \in DOMAIN Acts : D!Act(i) \in Nodes
    BY DEF Nodes
<1>9. CASE s.report = "time"
  <2>1. r \in {D!Recall, D!Nothing}
      BY <1>7, <1>9
  <2> QED
      BY <1>8, <1>9, <2>1, NodesDiffer DEF r, b
<1>10. CASE s.report # "time" /\ b = 0
  <2>1. r = IF left # {} THEN D!Act(D!Least(left))
            ELSE IF s.report # "unsure" /\ D!Recalls(evs) = {} THEN D!Recall ELSE D!Nothing
      BY <1>7, <1>10
  <2>2. r \in Nodes /\ (r \notin {D!Recall, D!Nothing} => ~D!Asked(evs, r)) /\ r # D!Foundation
      BY <1>3, <1>8, <2>1, NodesDiffer
  <2> QED
      BY <1>10, <2>2 DEF r, b
<1>11. CASE s.report # "time" /\ b # 0
  <2>1. r = D!AfterBlock(s, evs, b)
      BY <1>7, <1>11
  <2>2. CASE D!Recalls(evs) = {}
    <3>1. r = D!Recall
        BY <1>6, <2>1, <2>2
    <3> QED
        BY <1>8, <2>2, <3>1, NodesDiffer DEF r
  <2>3. CASE D!Recalls(evs) # {} /\ s.mode = "quick"
    <3>1. r = D!Nothing
        BY <1>6, <2>1, <2>3
    <3> QED
        BY <1>8, <3>1, NodesDiffer DEF r
  <2>4. CASE D!Recalls(evs) # {} /\ s.mode = "deep" /\ Open(evs) # {}
    <3>1. r = IF D!Asked(evs, D!Act(D!Least(Open(evs)))) THEN D!Nothing
              ELSE D!Act(D!Least(Open(evs)))
        BY <1>6, <2>1, <2>4
    <3>2. r \in Nodes /\ (r \notin {D!Recall, D!Nothing} => ~D!Asked(evs, r)) /\ r # D!Foundation
        BY <1>5, <1>8, <1>11, <2>4, <3>1, NodesDiffer
    <3> QED
        BY <2>4, <3>2 DEF r
  <2>5. CASE D!Recalls(evs) # {} /\ s.mode # "quick" /\ ~ (s.mode = "deep" /\ Open(evs) # {})
    <3>1. r = IF ~D!Asked(evs, D!Foundation) THEN D!Foundation
              ELSE IF D!Passed(evs, D!Foundation) /\ ~D!Asked(evs, D!Cue) THEN D!Cue
              ELSE D!Nothing
        BY <1>6, <2>1, <2>5
    <3>2. /\ r \in Nodes /\ (r \notin {D!Recall, D!Nothing} => ~D!Asked(evs, r))
          /\ D!Asked(evs, D!Foundation) => r \in {D!Cue, D!Nothing}
        BY <1>8, <3>1, NodesDiffer
    <3>3. s.mode \in {"quick", "deep"} => Open(evs) = {}
        BY <2>5
    <3> QED
        BY <1>11, <2>5, <3>2, <3>3 DEF r, b
  <2> QED
      BY <2>2, <2>3, <2>4, <2>5
<1> QED
    BY <1>9, <1>10, <1>11

LEMMA FirstRoute ==
    ASSUME NEW s
    PROVE  D!Route(s, <<>>) # D!Nothing
<1> DEFINE left == {i \in D!Targets(s) : ~D!Asked(<<>>, D!Act(i))}
<1>1. /\ D!Recalls(<<>>) = {} /\ D!Probes(<<>>) = {} /\ \A n : ~D!Asked(<<>>, n)
    BY DEF D!Recalls, D!Probes, D!Of, D!Asked
<1>2. D!Blocked(<<>>) = 0
    BY <1>1 DEF D!Blocked
<1>3. left # {}
    BY <1>1, TargetsTyped
<1>4. D!Route(s, <<>>) = IF s.report = "time" THEN D!Recall ELSE D!Act(D!Least(left))
    BY <1>1, <1>2, <1>3 DEF D!Route
<1> QED
    BY <1>4, NodesDiffer

-----------------------------------------------------------------------------
(* The conclusion.                                                          *)

LEMMA FirstProbe ==
    ASSUME NEW evs \in Seq(Happening), NEW n, D!Asked(evs, n)
    PROVE  \E f \in DOMAIN evs : /\ evs[f].action = "probe" /\ evs[f].node = n
                                 /\ D!First(evs, n) = evs[f]
<1> DEFINE S == {i \in D!Probes(evs) : evs[i].node = n}
<1>1. S \in SUBSET Nat /\ S # {}
    BY DEF D!Probes, D!Of, D!Asked
<1>2. D!Least(S) \in S
    BY <1>1, LeastIs
<1> QED
    BY <1>2 DEF D!First, D!Probes, D!Of

\* A cause is named only when the basic knowledge was checked, and without help.
LEMMA CauseNamed ==
    ASSUME NEW evs \in Seq(Happening), NEW s,
           D!Summarize(s, evs) \notin {"none", "insufficient", "answer_context"}
    PROVE  \E f \in DOMAIN evs : /\ evs[f].action = "probe" /\ evs[f].node = D!Foundation
                                 /\ ~evs[f].assisted
<1> DEFINE helped == D!Asked(evs, D!Foundation) /\ D!First(evs, D!Foundation).assisted
<1>1. D!Summarize(s, evs) =
         IF D!Disagrees(evs) THEN "insufficient"
         ELSE IF s.report = "time" THEN "answer_context"
         ELSE IF D!Blocked(evs) = 0 \/ helped THEN "insufficient"
         ELSE D!BlockCategory(evs, D!Blocked(evs))
    BY DEF D!Summarize
<1>2. /\ ~helped
      /\ D!BlockCategory(evs, D!Blocked(evs)) # "insufficient"
    BY <1>1
<1>3. D!Asked(evs, D!Foundation)
  <2>1. SUFFICES ASSUME ~D!Asked(evs, D!Foundation) PROVE FALSE
      OBVIOUS
  <2>2. ~D!Passed(evs, D!Foundation)
      BY <2>1 DEF D!Passed, D!Asked
  <2>3. D!BlockCategory(evs, D!Blocked(evs)) = "insufficient"
      BY <2>1, <2>2 DEF D!BlockCategory
  <2> QED
      BY <1>2, <2>3
<1> QED
    BY <1>2, <1>3, FirstProbe

LEMMA SummaryTyped ==
    ASSUME NEW evs \in Seq(Happening), NEW s
    PROVE  D!Summarize(s, evs) \in Categories
<1> DEFINE b == D!Blocked(evs)
<1>1. b \in {0} \cup DOMAIN Acts
    BY BlockedTyped
<1> HIDE DEF b
<1>2. ASSUME b # 0 PROVE D!BlockCategory(evs, b) \in Categories
  <2>1. Acts[b].kind \in D!Kinds
      BY <1>1, <1>2, DiagAssumed
  <2>2. D!KindCategory(Acts[b].kind) \in Categories
    <3>1. Acts[b].kind \in {"knowledge", "condition", "model", "plan", "formula",
                              "calculation", "check"}
        BY <2>1 DEF D!Kinds
    <3> QED
        BY <3>1 DEF D!KindCategory, Categories
  <2> QED
      BY <2>2 DEF D!BlockCategory, Categories
<1> QED
    BY <1>2 DEF D!Summarize, b, Categories

-----------------------------------------------------------------------------
(* A stored event.                                                          *)

\* Help is marked when it is shown, and a mark stays.
LEMMA MarkedAsHelped ==
    ASSUME clock \in 1..MaxClock, NEW s, s.assisted \in 0..MaxClock, NEW evs, NEW action
    PROVE  /\ D!Assisted(s, evs, action) \in 0..MaxClock
           /\ \/ s.assisted # D!NoTime \/ action = "practice" \/ D!Route(s, evs) = D!Cue
              \/ D!Probes(evs) # {} /\ (D!Route(s, evs) = D!Nothing \/ s.status # "active")
              => D!Assisted(s, evs, action) # D!NoTime
<1>1. clock \in 0..MaxClock /\ clock # 0
    BY DiagAssumed
<1> DEFINE cued == \/ D!Route(s, evs) = D!Cue
                   \/ D!Probes(evs) # {} /\ (D!Route(s, evs) = D!Nothing \/ s.status # "active")
                   \/ action = "practice"
<1>2. D!Assisted(s, evs, action) =
         IF action \in {"practice", "verify", "finish"} /\ D!Probes(evs) # {} THEN clock
         ELSE IF cued /\ s.assisted = D!NoTime THEN clock ELSE s.assisted
    BY DEF D!Assisted
<1>3. \/ s.assisted # D!NoTime \/ action = "practice" \/ D!Route(s, evs) = D!Cue
      \/ D!Probes(evs) # {} /\ (D!Route(s, evs) = D!Nothing \/ s.status # "active")
      => s.assisted # D!NoTime \/ cued
    OBVIOUS
<1> HIDE DEF cued
<1>4. D!NoTime = 0
    BY DEF D!NoTime
<1>5. D!Assisted(s, evs, action) \in {clock, s.assisted}
    BY <1>2
<1>6. s.assisted # D!NoTime \/ cued => D!Assisted(s, evs, action) # D!NoTime
    BY <1>1, <1>2, <1>4
<1> QED
    BY <1>1, <1>3, <1>5, <1>6

LEMMA EventStoredD ==
    ASSUME DiagInv, NEW p \in Pages, page[p].key # 0, page[p].cursor = session.cursor,
           NEW s \in Sessions, s.cursor = session.cursor, s.assisted = session.assisted,
           s.status # "none", s.mode \in {"quick", "deep"},
           DOMAIN events # {} => s.report = session.report,
           NEW e \in Happening, e.shown = page[p].node,
           e.action = "probe" =>
              /\ session.status = "active" /\ session.mode \in {"quick", "deep"}
              /\ e.node = D!Route(session, events)
              /\ e.node \notin {D!Recall, D!Nothing} /\ s = session
              /\ e.assisted = TRUE <=> session.assisted # D!NoTime \/ e.node = D!Cue,
           e.action = "locate" => session.status = "active" /\ e.node = D!Route(session, events),
           D!Store(p, s, e)
    PROVE  DiagInv'
<1> DEFINE action == e.action
           n == e.node
           aided == e.assisted
           ext == Append(events, e)
           done == s.status = "active" /\ D!Route(s, ext) = D!Nothing
           new == [s EXCEPT !.cursor = @ + 1,
                            !.status = IF done THEN "completed" ELSE @,
                            !.assisted = D!Assisted(s, ext, e.action)]
           kept == [e EXCEPT !.helped = D!Helps(new, ext),
                             !.category = IF new.status = "active" THEN "none"
                                          ELSE D!Summarize(new, ext)]
           last == Len(events) + 1
<1>1. /\ Len(ext) <= MaxEvents /\ session' = new /\ events' = Append(events, kept)
      /\ clock' = clock /\ page' = page
    BY DEF D!Store
<1> HIDE DEF ext, done, new, kept
<1>2. /\ session \in Sessions /\ events \in Seq(Happening) /\ clock \in 1..MaxClock
      /\ page \in [Pages -> Sheet] /\ session.cursor = Len(events) /\ Len(events) \in Nat
      /\ last \in Nat /\ last = Len(events) + 1 /\ DOMAIN events = 1..Len(events)
  <2>1. /\ session \in Sessions /\ events \in Seq(Happening) /\ clock \in 1..MaxClock
        /\ page \in [Pages -> Sheet] /\ session.cursor = Len(events)
      BY DEF DiagInv, SessionTyped
  <2>2. Len(events) \in Nat /\ DOMAIN events = 1..Len(events)
      BY <2>1
  <2> QED
      BY <2>1, <2>2
<1> HIDE DEF last
<1>3. e \in Happening /\ e.action = action /\ e.node = n /\ e.assisted = aided
    OBVIOUS
<1>4. aided \in BOOLEAN /\ n \in Nodes /\ action \in Deeds
    BY DEF Happening
<1>5. /\ action = "probe" =>
            /\ session.status = "active" /\ session.mode \in {"quick", "deep"}
            /\ n = D!Route(session, events) /\ n \notin {D!Recall, D!Nothing} /\ s = session
            /\ aided = TRUE <=> session.assisted # D!NoTime \/ n = D!Cue
      /\ action = "locate" => session.status = "active" /\ n = D!Route(session, events)
    OBVIOUS
<1> HIDE DEF action, n, aided
<1>6. ext \in Seq(Happening)
    BY <1>2, <1>3, Grown DEF ext
<1> DEFINE mark == D!Assisted(s, ext, action)
<1>7. /\ new.cursor = last /\ new.assisted = mark
      /\ new.protocol = s.protocol /\ new.mode = s.mode /\ new.report = s.report
      /\ (done => new.status = "completed") /\ (~done => new.status = s.status)
      /\ new \in [protocol : {0, 2, 3}, mode : {"none", "quick", "deep"},
                  report : Reports \cup {"none"}, cursor : {last},
                  status : {s.status, "completed"}, assisted : {mark}]
  <2> HIDE DEF ext, mark
  <2>1. s.cursor + 1 = last /\ D!Assisted(s, ext, e.action) = mark
      BY <1>2, <1>3 DEF mark
  <2>2. \/ done /\ (IF done THEN "completed" ELSE s.status) = "completed"
        \/ ~done /\ (IF done THEN "completed" ELSE s.status) = s.status
      OBVIOUS
  <2> HIDE DEF done, last
  <2> QED
      BY <2>1, <2>2 DEF Sessions, new
<1>8. /\ mark \in 0..MaxClock
      /\ \/ session.assisted # D!NoTime \/ action = "practice" \/ D!Route(s, ext) = D!Cue
         \/ D!Probes(ext) # {} /\ (D!Route(s, ext) = D!Nothing \/ s.status # "active")
         => mark # D!NoTime
  <2>1. s.assisted \in 0..MaxClock
      BY DEF Sessions
  <2> HIDE DEF ext
  <2> QED
      BY <1>2, <2>1, MarkedAsHelped
<1>9. new \in Sessions /\ new.status # "none"
    BY <1>2, <1>7, <1>8 DEF Sessions, D!Statuses
<1> HIDE DEF new, mark
<1> DEFINE help == D!Helps(new, ext)
           word == IF new.status = "active" THEN "none" ELSE D!Summarize(new, ext)
<1>10. help \in BOOLEAN /\ word \in Categories
    BY <1>6, SummaryTyped DEF D!Helps, Categories
<1>11. /\ kept \in Happening /\ kept.action = action /\ kept.node = n /\ kept.passed = e.passed
       /\ kept.assisted = aided /\ kept.shown = page[p].node
       /\ kept.helped = help /\ kept.category = word
  <2>1. kept = [e EXCEPT !.helped = help, !.category = word]
      BY DEF kept, help, word
  <2> HIDE DEF help, word
  <2> QED
      BY <1>3, <1>4, <1>10, <2>1 DEF Happening
<1>12. help => mark # D!NoTime \/ D!Of("practice", ext) # {}
  <2>1. new.report = s.report /\ new.mode = s.mode
      BY <1>7
  <2>2. D!Route(new, ext) = D!Route(s, ext)
      BY <1>6, <2>1, SameRoute DEF Alike
  <2>3. CASE new.status = "active" /\ D!Route(new, ext) = D!Cue
      BY <1>8, <2>2, <2>3
  <2>4. CASE new.status # "active" /\ D!Probes(ext) # {}
      BY <1>7, <1>8, <2>4 DEF done
  <2> QED
      BY <2>3, <2>4 DEF D!Helps
<1> HIDE DEF kept
<1> DEFINE h == Append(events, kept)
<1>13. /\ h \in Seq(Happening) /\ Len(h) = last
       /\ DOMAIN h = DOMAIN events \cup {last} /\ last \notin DOMAIN events
       /\ \A i \in DOMAIN events : h[i] = events[i] /\ i \in Nat /\ i < last
       /\ h[last] = kept
       /\ \A n2 : D!Asked(h, n2) <=> D!Asked(events, n2) \/ (action = "probe" /\ n = n2)
       /\ \A n2 : D!Passed(events, n2) => D!Passed(h, n2)
       /\ D!Blocked(events) # 0 => D!Blocked(h) = D!Blocked(events)
       /\ D!Recalls(events) # {} => D!Recalls(h) # {}
  <2>1. /\ h \in Seq(Happening)
        /\ DOMAIN h = DOMAIN events \cup {last} /\ last \notin DOMAIN events /\ Len(h) = last
        /\ \A i \in DOMAIN events : h[i] = events[i] /\ i \in Nat /\ i <= Len(events)
        /\ h[last] = kept
        /\ \A act : D!Of(act, h) = IF kept.action = act THEN D!Of(act, events) \cup {last}
                                  ELSE D!Of(act, events)
        /\ \A n2 : D!Asked(h, n2) <=> D!Asked(events, n2)
                                         \/ (kept.action = "probe" /\ kept.node = n2)
        /\ \A n2 : D!Passed(events, n2) => D!Passed(h, n2)
        /\ D!Blocked(events) # 0 => D!Blocked(h) = D!Blocked(events)
      BY <1>2, <1>11, Grown
  <2> HIDE DEF h
  <2>2. D!Recalls(events) # {} => D!Recalls(h) # {}
      BY <2>1 DEF D!Recalls
  <2>3. \A i \in DOMAIN events : i < last
      BY <1>2, <2>1
  <2> QED
      BY <1>11, <2>1, <2>2, <2>3
<1>14. Alike(ext, h)
  <2>1. /\ DOMAIN ext = DOMAIN events \cup {last} /\ last \notin DOMAIN events
        /\ \A i \in DOMAIN events : ext[i] = events[i]
        /\ ext[last] = e
      BY <1>2, <1>3, Grown DEF ext
  <2> HIDE DEF ext, h
  <2> QED
      BY <1>3, <1>11, <1>13, <2>1 DEF Alike
<1>15. D!Route(new, h) = D!Route(s, ext)
  <2>1. s.report = new.report /\ s.mode = new.mode
      BY <1>7
  <2> HIDE DEF h
  <2>2. D!Route(s, ext) = D!Route(new, h)
      BY <1>6, <1>14, <2>1, SameRoute
  <2> QED
      BY <2>2
<1>16. events' = h /\ session' = new
    BY <1>1
<1> HIDE DEF h, ext
<1>17. SessionTyped'
  <2>1. last <= MaxEvents
      BY <1>1, <1>2, <1>3, Grown DEF ext
  <2>2. new.cursor = Len(h) /\ Len(h) <= MaxEvents /\ new.mode \in {"quick", "deep"}
      BY <1>7, <1>13, <2>1
  <2> QED
      BY <1>1, <1>2, <1>9, <1>13, <1>16, <2>2 DEF SessionTyped
<1>18. PagesShowRoute'
  <2>1. new.status = "active" => D!Route(new, h) # D!Nothing
      BY <1>7, <1>15 DEF done
  <2>2. ASSUME NEW q \in Pages PROVE page[q].cursor <= new.cursor /\ page[q].cursor # new.cursor
    <3>1. page[q] \in Sheet
        BY <1>2
    <3>2. page[q].cursor <= Len(events) /\ page[q].cursor \in Nat
        BY <1>2, <3>1 DEF DiagInv, PagesShowRoute, Sheet
    <3> QED
        BY <1>2, <1>7, <3>2
  <2>3. D!Route(session, events)' = D!Route(new, h)
      BY <1>16
  <2>4. D!Nothing' = D!Nothing
      BY DEF D!Nothing
  <2> QED
      BY <1>1, <1>16, <2>1, <2>2, <2>3, <2>4 DEF PagesShowRoute
<1>19. session.assisted # D!NoTime => mark # D!NoTime
    BY <1>8
<1>20. D!Of("practice", ext) # {} => mark # D!NoTime
  <2>1. CASE action = "practice"
      BY <1>8, <2>1
  <2>2. CASE action # "practice"
    <3>1. D!Of("practice", ext) = D!Of("practice", events)
      <4>1. D!Of("practice", ext) = IF e.action = "practice"
                                    THEN D!Of("practice", events) \cup {last}
                                    ELSE D!Of("practice", events)
          BY <1>2, <1>3, Grown DEF ext
      <4> QED
          BY <1>3, <2>2, <4>1
    <3>2. D!Of("practice", events) # {} => session.assisted # D!NoTime
        BY DEF D!Of, DiagInv, HelpMarks
    <3> QED
        BY <1>19, <3>1, <3>2
  <2> QED
      BY <2>1, <2>2
<1>21. HelpMarks'
  <2>1. ASSUME NEW i \in DOMAIN h,
               \/ h[i].helped
               \/ h[i].action = "practice"
               \/ h[i].action = "probe" /\ h[i].node # D!Cue /\ h[i].assisted
        PROVE  mark # D!NoTime
    <3>1. CASE i \in DOMAIN events
        BY <1>13, <1>19, <2>1, <3>1 DEF DiagInv, HelpMarks
    <3>2. CASE i = last
      <4>1. CASE h[i].helped
          BY <1>11, <1>12, <1>13, <1>20, <3>2, <4>1
      <4>2. CASE h[i].action = "practice"
          BY <1>8, <1>11, <1>13, <3>2, <4>2
      <4>3. CASE h[i].action = "probe" /\ h[i].node # D!Cue /\ h[i].assisted
          BY <1>5, <1>11, <1>13, <1>19, <3>2, <4>3
      <4> QED
          BY <2>1, <4>1, <4>2, <4>3
    <3> QED
        BY <1>13, <3>1, <3>2
  <2>2. D!Cue' = D!Cue /\ D!NoTime' = D!NoTime
      BY DEF D!Cue, D!NoTime
  <2> QED
      BY <1>7, <1>16, <2>1, <2>2 DEF HelpMarks
<1>22. HelpStays' /\ D!HelpIsRemembered'
  <2>1. ASSUME NEW i \in DOMAIN h, NEW j \in DOMAIN h, i < j, h[j].action = "probe",
               \/ h[i].helped
               \/ h[i].action = "probe" /\ h[i].node # D!Cue /\ h[i].assisted
        PROVE  h[j].assisted
    <3>1. CASE j \in DOMAIN events
      <4>1. i \in DOMAIN events
          BY <1>2, <1>13, <2>1, <3>1
      <4> QED
          BY <1>13, <2>1, <3>1, <4>1 DEF DiagInv, HelpStays, D!HelpIsRemembered
    <3>2. CASE j = last
      <4>1. i \in DOMAIN events
          BY <1>2, <1>13, <2>1, <3>2
      <4>2. session.assisted # D!NoTime
          BY <1>13, <2>1, <4>1 DEF DiagInv, HelpMarks
      <4>3. action = "probe" /\ aided = TRUE
          BY <1>5, <1>11, <1>13, <2>1, <3>2, <4>2
      <4> QED
          BY <1>11, <1>13, <3>2, <4>3
    <3> QED
        BY <1>13, <3>1, <3>2
  <2>2. D!Cue' = D!Cue
      BY DEF D!Cue
  <2> QED
      BY <1>16, <2>1, <2>2 DEF HelpStays, D!HelpIsRemembered
<1>23. FoundationLast'
  <2>1. ASSUME D!Asked(events, D!Foundation)
        PROVE  /\ s.report = session.report /\ s.report # "time" /\ D!Blocked(events) # 0
               /\ D!Recalls(events) # {} /\ Open(events) = {}
    <3>1. DOMAIN events # {}
        BY <2>1 DEF D!Asked
    <3> QED
        BY <2>1, <3>1 DEF DiagInv, FoundationLast
  <2>2. D!Asked(h, D!Foundation) =>
           /\ new.report # "time" /\ D!Blocked(events) # 0
           /\ D!Recalls(events) # {} /\ Open(events) = {}
    <3>1. CASE D!Asked(events, D!Foundation)
        BY <1>7, <2>1, <3>1
    <3>2. CASE action = "probe" /\ n = D!Foundation
      <4>1. D!Route(session, events) = D!Foundation /\ session.mode \in {"quick", "deep"}
            /\ s = session
          BY <1>2, <1>5, <3>2 DEF Sessions
      <4> QED
          BY <1>2, <1>7, <4>1, RouteLeads
    <3> QED
        BY <1>13, <3>1, <3>2
  <2>3. D!Blocked(events) # 0 /\ Open(events) = {} => Open(h) = {}
      BY <1>13 DEF Open
  <2>4. D!Asked(h, D!Foundation) =>
           new.report # "time" /\ D!Blocked(h) # 0 /\ D!Recalls(h) # {} /\ Open(h) = {}
      BY <1>13, <2>2, <2>3
  <2>5. ASSUME NEW i \in DOMAIN h, NEW j \in DOMAIN h, i < j, h[i].action = "probe",
               h[i].node = D!Foundation, h[j].action = "probe"
        PROVE  h[j].node = D!Cue
    <3>1. CASE j \in DOMAIN events
      <4>1. i \in DOMAIN events
          BY <1>2, <1>13, <2>5, <3>1
      <4> QED
          BY <1>13, <2>5, <3>1, <4>1 DEF DiagInv, FoundationLast
    <3>2. CASE j = last
      <4>1. i \in DOMAIN events
          BY <1>2, <1>13, <2>5, <3>2
      <4>2. D!Asked(events, D!Foundation)
          BY <1>13, <2>5, <4>1 DEF D!Asked
      <4>3. action = "probe" /\ h[j].node = n
          BY <1>11, <1>13, <2>5, <3>2
      <4>4. D!Route(session, events) \in {D!Cue, D!Nothing}
          BY <1>2, <2>1, <4>2, <4>3, RouteLeads
      <4> QED
          BY <1>5, <4>3, <4>4
    <3> QED
        BY <1>13, <3>1, <3>2
  <2>6. D!Cue' = D!Cue /\ D!Foundation' = D!Foundation
      BY DEF D!Cue, D!Foundation
  <2> QED
      BY <1>16, <2>4, <2>5, <2>6 DEF FoundationLast
<1>24. D!AnsweredAsShown'
  <2>1. ASSUME NEW i \in DOMAIN h, h[i].action \in {"probe", "locate"}
        PROVE  h[i].node = h[i].shown
    <3>1. CASE i \in DOMAIN events
        BY <1>13, <2>1, <3>1 DEF DiagInv, D!AnsweredAsShown
    <3>2. CASE i = last
      <4>1. n = D!Route(session, events) /\ session.status = "active"
          BY <1>5, <1>11, <1>13, <2>1, <3>2
      <4>2. page[p].node = D!Route(session, events)
          BY <4>1 DEF DiagInv, PagesShowRoute
      <4> QED
          BY <1>11, <1>13, <3>2, <4>1, <4>2
    <3> QED
        BY <1>13, <3>1, <3>2
  <2>2. ASSUME NEW i \in DOMAIN h, NEW j \in DOMAIN h, h[i].action = "probe", h[j].action = "probe",
               h[j].node = h[i].node
        PROVE  i = j
    <3>1. CASE i \in DOMAIN events /\ j \in DOMAIN events
        BY <1>13, <2>2, <3>1 DEF DiagInv, D!AnsweredAsShown
    <3>2. ASSUME action = "probe" PROVE ~D!Asked(events, n)
        BY <1>2, <1>5, <3>2, RouteLeads
    <3>3. CASE i = last /\ j \in DOMAIN events
      <4>1. action = "probe" /\ D!Asked(events, n)
          BY <1>11, <1>13, <2>2, <3>3 DEF D!Asked
      <4> QED
          BY <3>2, <4>1
    <3>4. CASE j = last /\ i \in DOMAIN events
      <4>1. action = "probe" /\ D!Asked(events, n)
          BY <1>11, <1>13, <2>2, <3>4 DEF D!Asked
      <4> QED
          BY <3>2, <4>1
    <3> QED
        BY <1>13, <3>1, <3>3, <3>4
  <2> QED
      BY <1>16, <2>1, <2>2 DEF D!AnsweredAsShown
<1>25. D!ConclusionIsIndependent'
  <2>1. ASSUME NEW i \in DOMAIN h,
               h[i].category \notin {"none", "insufficient", "answer_context"},
               NEW j \in 1..i, h[j].action = "probe", h[j].node # D!Cue
        PROVE  ~h[j].assisted
    <3>1. CASE i \in DOMAIN events
      <4>1. j \in DOMAIN events
          BY <1>2, <3>1
      <4> QED
          BY <1>13, <2>1, <3>1, <4>1 DEF DiagInv, D!ConclusionIsIndependent
    <3>2. CASE i = last
      <4>1. D!Summarize(new, ext) \notin {"none", "insufficient", "answer_context"}
          BY <1>11, <1>13, <2>1, <3>2
      <4>2. PICK f \in DOMAIN ext : /\ ext[f].action = "probe" /\ ext[f].node = D!Foundation
                                   /\ ~ext[f].assisted
          BY <1>6, <4>1, CauseNamed
      <4>3. /\ f \in DOMAIN h /\ h[f].action = "probe" /\ h[f].node = D!Foundation
            /\ ~h[f].assisted
        <5>1. /\ DOMAIN ext = DOMAIN events \cup {last}
              /\ \A k \in DOMAIN events : ext[k] = events[k]
              /\ ext[last] = e
            BY <1>2, <1>3, Grown DEF ext
        <5>2. CASE f \in DOMAIN events
            BY <1>13, <4>2, <5>1, <5>2
        <5>3. CASE f = last
            BY <1>3, <1>11, <1>13, <4>2, <5>1, <5>3
        <5> QED
            BY <5>1, <5>2, <5>3
      <4>4. j \in DOMAIN h /\ j \in Nat /\ f \in Nat
        <5>1. \A k \in DOMAIN h : k \in Nat
            BY <1>2, <1>13
        <5>2. DOMAIN h = 1..last
            BY <1>2, <1>13
        <5> QED
            BY <3>2, <4>3, <5>1, <5>2
      <4>5. ~ (f < j)
          BY <1>16, <1>23, <2>1, <4>3, <4>4 DEF FoundationLast, D!Cue, D!Foundation
      <4>6. CASE j = f
          BY <4>3, <4>6
      <4>7. CASE j < f
        <5>1. h[j].assisted => h[f].assisted
            BY <1>16, <1>22, <2>1, <4>3, <4>4, <4>7 DEF HelpStays, D!Cue
        <5> QED
            BY <4>3, <5>1
      <4> QED
          BY <4>4, <4>5, <4>6, <4>7
    <3> QED
        BY <1>13, <3>1, <3>2
  <2>2. D!Cue' = D!Cue
      BY DEF D!Cue
  <2> QED
      BY <1>16, <2>1, <2>2 DEF D!ConclusionIsIndependent
<1> QED
    BY <1>17, <1>18, <1>21, <1>22, <1>23, <1>24, <1>25 DEF DiagInv

-----------------------------------------------------------------------------
LEMMA DiagStart == D!DiagInit => DiagInv
<1> SUFFICES ASSUME D!DiagInit PROVE DiagInv
    OBVIOUS
<1>1. /\ session = [protocol |-> 0, mode |-> "none", report |-> "none", cursor |-> 0,
                    status |-> "none", assisted |-> D!NoTime]
      /\ events = <<>> /\ clock = 1 /\ page = [q \in Pages |-> D!Shut]
    BY DEF D!DiagInit
<1>2. session \in Sessions /\ session.status = "none" /\ session.cursor = 0
    BY <1>1, DiagAssumed DEF Sessions, D!Statuses, D!NoTime
<1>3. D!Shut \in Sheet /\ D!Shut.key = 0 /\ D!Shut.cursor = 0
    BY DEF D!Shut, Sheet, Nodes
<1>4. events \in Seq(Happening) /\ Len(events) = 0 /\ DOMAIN events = {}
    BY <1>1
<1>5. page \in [Pages -> Sheet] /\ \A q \in Pages : page[q].key = 0 /\ page[q].cursor = 0
    BY <1>1, <1>3
<1>6. SessionTyped
    BY <1>1, <1>2, <1>4, <1>5, DiagAssumed DEF SessionTyped
<1>7. PagesShowRoute
    BY <1>2, <1>5 DEF PagesShowRoute
<1>8. HelpMarks /\ HelpStays /\ FoundationLast
    BY <1>4 DEF HelpMarks, HelpStays, FoundationLast, D!Asked
<1>9. D!AnsweredAsShown /\ D!HelpIsRemembered /\ D!ConclusionIsIndependent
    BY <1>4 DEF D!AnsweredAsShown, D!HelpIsRemembered, D!ConclusionIsIndependent
<1> QED
    BY <1>6, <1>7, <1>8, <1>9 DEF DiagInv

\* What is said of the events and of the row alone.
LEMMA EventsRest ==
    ASSUME DiagInv, events' = events, session' = session
    PROVE  /\ HelpMarks' /\ HelpStays' /\ FoundationLast'
           /\ D!AnsweredAsShown' /\ D!HelpIsRemembered' /\ D!ConclusionIsIndependent'
<1>1. HelpMarks' /\ HelpStays'
    BY DEF DiagInv, HelpMarks, HelpStays, D!Cue, D!NoTime
<1>2. FoundationLast'
  <2>1. D!Asked(events, D!Foundation)' <=> D!Asked(events, D!Foundation)
      BY DEF D!Asked, D!Foundation
  <2>2. D!Blocked(events)' = D!Blocked(events) /\ D!Recalls(events)' = D!Recalls(events)
        /\ Open(events)' = Open(events)
      OBVIOUS
  <2> QED
      BY <2>1, <2>2 DEF DiagInv, FoundationLast, D!Cue, D!Foundation
<1>3. D!AnsweredAsShown' /\ D!HelpIsRemembered' /\ D!ConclusionIsIndependent'
    BY DEF DiagInv, D!AnsweredAsShown, D!HelpIsRemembered, D!ConclusionIsIndependent, D!Cue
<1> QED
    BY <1>1, <1>2, <1>3

LEMMA DiagRest == DiagInv /\ UNCHANGED diagVars => DiagInv'
<1> SUFFICES ASSUME DiagInv, UNCHANGED diagVars PROVE DiagInv'
    OBVIOUS
<1>1. UNCHANGED <<session, events, clock, page>>
    BY DEF diagVars
<1>2. SessionTyped' /\ PagesShowRoute'
  <2>1. D!Route(session, events)' = D!Route(session, events) /\ D!Nothing' = D!Nothing
      BY <1>1
  <2> QED
      BY <1>1, <2>1 DEF DiagInv, SessionTyped, PagesShowRoute
<1> QED
    BY <1>1, <1>2, EventsRest DEF DiagInv

-----------------------------------------------------------------------------
(* The steps.                                                               *)

LEMMA UpToDateMeans ==
    ASSUME DiagInv, NEW p \in Pages, D!UpToDate(p)
    PROVE  /\ session.status # "none" /\ page[p].key # 0 /\ page[p].cursor = session.cursor
           /\ session \in Sessions /\ events \in Seq(Happening)
           /\ session.mode \in {"quick", "deep"}
           /\ page[p].key \in Nat /\ page[p].node \in Nodes /\ clock \in Nat
<1>1. /\ session \in Sessions /\ page[p] \in Sheet /\ clock \in 1..MaxClock
      /\ events \in Seq(Happening)
      /\ session.status # "none" => session.mode \in {"quick", "deep"}
    BY DEF DiagInv, SessionTyped, Sessions
<1>2. clock \in Nat
    BY <1>1, DiagAssumed
<1> QED
    BY <1>1, <1>2 DEF D!UpToDate, Sheet

LEMMA ProbeKept ==
    ASSUME DiagInv, NEW p \in Pages, D!Probe(p)
    PROVE  DiagInv'
<1>1. /\ session.status # "none" /\ page[p].key # 0 /\ page[p].cursor = session.cursor
      /\ session \in Sessions /\ events \in Seq(Happening)
      /\ session.mode \in {"quick", "deep"}
      /\ page[p].key \in Nat /\ page[p].node \in Nodes /\ clock \in Nat
    BY UpToDateMeans DEF D!Probe
<1> DEFINE n == D!Route(session, events)
           aided == session.assisted # D!NoTime \/ n = D!Cue
<1>2. session.status = "active" /\ n \notin {D!Recall, D!Nothing}
    BY DEF D!Probe
<1>3. PICK a \in D!Answers :
         D!Store(p, session, D!Event(p, "probe", n, a, "none", aided))
    BY DEF D!Probe
<1>4. n \in Nodes
    BY <1>1, RouteLeads
<1> DEFINE e == D!Event(p, "probe", n, a, "none", aided)
<1>5. e = [action |-> "probe", node |-> n, passed |-> a, reason |-> "none",
           assisted |-> aided, at |-> clock, key |-> page[p].key, shown |-> page[p].node,
           helped |-> FALSE, category |-> "none"]
    BY DEF D!Event
<1>6. e.action = "probe" /\ e.node = n /\ e.shown = page[p].node
      /\ (e.assisted = TRUE <=> session.assisted # D!NoTime \/ n = D!Cue)
  <2>1. aided = TRUE <=> session.assisted # D!NoTime \/ n = D!Cue
      BY Zenon
  <2> HIDE DEF aided, e
  <2>2. e.assisted = aided
      BY <1>5
  <2> QED
      BY <1>5, <2>1, <2>2
<1>7. e \in Happening
  <2>1. aided \in BOOLEAN /\ a \in Verdicts
      BY DEF D!Answers, Verdicts
  <2> HIDE DEF aided, e, n
  <2> QED
      BY <1>1, <1>4, <1>5, <2>1 DEF Happening, Deeds, Words, Categories
<1> HIDE DEF e
<1>8. D!Store(p, session, e)
    BY <1>3 DEF e
<1> HIDE DEF n, aided
<1> QED
    BY <1>1, <1>2, <1>6, <1>7, <1>8, EventStoredD DEF n

\* The events that record no check, by the word or the answer they carry.
LEMMA OtherKept ==
    ASSUME DiagInv, NEW p \in Pages, D!UpToDate(p),
           NEW s \in Sessions, s.cursor = session.cursor, s.assisted = session.assisted,
           s.status # "none", s.mode \in {"quick", "deep"},
           DOMAIN events # {} => s.report = session.report,
           NEW action \in Deeds \ {"probe"}, NEW n \in Nodes, NEW passed \in Verdicts,
           NEW reason \in Words,
           action = "locate" => session.status = "active" /\ n = D!Route(session, events),
           \/ D!Store(p, s, D!Event(p, action, n, passed, reason, FALSE))
           \/ D!Store(p, s, D!Event(p, action, n, passed, reason, TRUE))
    PROVE  DiagInv'
<1>1. /\ session.status # "none" /\ page[p].key # 0 /\ page[p].cursor = session.cursor
      /\ session \in Sessions /\ events \in Seq(Happening)
      /\ session.mode \in {"quick", "deep"}
      /\ page[p].key \in Nat /\ page[p].node \in Nodes /\ clock \in Nat
    BY UpToDateMeans
<1>2. ASSUME NEW aided \in BOOLEAN
      PROVE  LET e == [action |-> action, node |-> n, passed |-> passed, reason |-> reason,
                       assisted |-> aided, at |-> clock, key |-> page[p].key,
                       shown |-> page[p].node, helped |-> FALSE, category |-> "none"]
             IN  /\ e \in Happening /\ e.action = action /\ e.node = n
                 /\ e.shown = page[p].node
    BY <1>1 DEF Happening, Categories
<1>3. CASE D!Store(p, s, D!Event(p, action, n, passed, reason, FALSE))
  <2> DEFINE e == D!Event(p, action, n, passed, reason, FALSE)
  <2>1. e \in Happening /\ e.action = action /\ e.node = n /\ e.shown = page[p].node
      BY <1>2 DEF D!Event
  <2>2. D!Store(p, s, e)
      BY <1>3
  <2> HIDE DEF e
  <2> QED
      BY <1>1, <2>1, <2>2, EventStoredD
<1>4. CASE D!Store(p, s, D!Event(p, action, n, passed, reason, TRUE))
  <2> DEFINE e == D!Event(p, action, n, passed, reason, TRUE)
  <2>1. e \in Happening /\ e.action = action /\ e.node = n /\ e.shown = page[p].node
      BY <1>2 DEF D!Event
  <2>2. D!Store(p, s, e)
      BY <1>4
  <2> HIDE DEF e
  <2> QED
      BY <1>1, <2>1, <2>2, EventStoredD
<1> QED
    BY <1>3, <1>4

LEMMA NodesTyped ==
    D!Recall \in Nodes /\ D!Nothing \in Nodes /\ D!Foundation \in Nodes /\ D!Cue \in Nodes
BY DEF Nodes

LEMMA LocateKept ==
    ASSUME DiagInv, NEW p \in Pages, D!Locate(p)
    PROVE  DiagInv'
<1>1. D!UpToDate(p) /\ session.status = "active" /\ D!Route(session, events) = D!Recall
    BY DEF D!Locate
<1>2. PICK r \in D!OfferedReasons(session, events) :
         D!Store(p, session, D!Event(p, "locate", D!Recall, "none", r, FALSE))
    BY DEF D!Locate
<1>3. r \in Words
  <2>1. \A k : D!Reasons(k) \subseteq Words
      BY DEF D!Reasons, Words
  <2>2. "other" \in Words
      BY DEF Words
  <2> QED
      BY <1>2, <2>1, <2>2 DEF D!OfferedReasons
<1>4. "locate" \in Deeds \ {"probe"} /\ "none" \in Verdicts
    BY DEF Deeds, Verdicts
<1>5. session \in Sessions /\ session.status # "none" /\ session.mode \in {"quick", "deep"}
    BY <1>1, UpToDateMeans
<1> QED
    BY <1>1, <1>2, <1>3, <1>4, <1>5, NodesTyped, OtherKept

LEMMA FinishKept ==
    ASSUME DiagInv, NEW p \in Pages, D!Finish(p)
    PROVE  DiagInv'
<1> DEFINE s == [session EXCEPT !.status = IF @ = "active" THEN "ended" ELSE @]
<1>1. PICK r \in {"agree", "different"} :
         D!Store(p, s, D!Event(p, "finish", D!Nothing, "none", r, FALSE))
    BY DEF D!Finish
<1>2. D!UpToDate(p)
    BY DEF D!Finish
<1>3. session \in Sessions /\ session.status # "none" /\ session.mode \in {"quick", "deep"}
    BY <1>2, UpToDateMeans
<1>4. /\ s \in Sessions /\ s.cursor = session.cursor /\ s.assisted = session.assisted
      /\ s.status # "none" /\ s.mode = session.mode /\ s.report = session.report
  <2>1. PICK word \in D!Statuses \ {"none"} :
           word = IF session.status = "active" THEN "ended" ELSE session.status
      BY <1>3 DEF Sessions, D!Statuses
  <2>2. s = [session EXCEPT !.status = word]
      BY <2>1
  <2> HIDE DEF s
  <2> QED
      BY <1>3, <2>1, <2>2 DEF Sessions
<1>5. "finish" \in Deeds \ {"probe"} /\ "none" \in Verdicts /\ r \in Words /\ "finish" # "locate"
    BY DEF Deeds, Verdicts, Words
<1> HIDE DEF s
<1> QED
    BY <1>1, <1>2, <1>3, <1>4, <1>5, NodesTyped, OtherKept

LEMMA SelectKept ==
    ASSUME DiagInv, NEW p \in Pages, D!SelectMode(p)
    PROVE  DiagInv'
<1>1. PICK m \in {"quick", "deep"}, r \in Reports :
         /\ events # <<>> => r = session.report
         /\ D!Store(p, [session EXCEPT !.mode = m, !.report = r, !.status = "active",
                                       !.protocol = 3],
                    D!Event(p, "select-mode", D!Nothing, "none", m, FALSE))
    BY DEF D!SelectMode
<1> DEFINE s == [session EXCEPT !.mode = m, !.report = r, !.status = "active", !.protocol = 3]
<1>2. D!UpToDate(p)
    BY DEF D!SelectMode
<1>3. session \in Sessions
    BY <1>2, UpToDateMeans
<1>4. /\ s \in Sessions /\ s.cursor = session.cursor /\ s.assisted = session.assisted
      /\ s.status = "active" /\ s.mode = m /\ s.report = r
    BY <1>3 DEF Sessions, D!Statuses
<1>5. /\ "select-mode" \in Deeds \ {"probe"} /\ "select-mode" # "locate"
      /\ "none" \in Verdicts /\ m \in Words
    BY DEF Deeds, Verdicts, Words
<1>6. DOMAIN events # {} => r = session.report
    BY <1>1
<1>7. D!Store(p, s, D!Event(p, "select-mode", D!Nothing, "none", m, FALSE))
    BY <1>1
<1> HIDE DEF s
<1> QED
    BY <1>2, <1>3, <1>4, <1>5, <1>6, <1>7, NodesTyped, OtherKept

LEMMA ReviseKept ==
    ASSUME DiagInv, NEW p \in Pages, D!Revise(p) \/ D!Practice(p) \/ D!Verify(p)
    PROVE  DiagInv'
<1>1. D!UpToDate(p)
    BY DEF D!Revise, D!Practice, D!Verify
<1>2. session \in Sessions /\ session.status # "none" /\ session.mode \in {"quick", "deep"}
    BY <1>1, UpToDateMeans
<1>3. /\ {"revise", "practice", "verify"} \subseteq Deeds \ {"probe"}
      /\ {"none", "yes", "no"} \subseteq Verdicts /\ {"other", "none"} \subseteq Words
    BY DEF Deeds, Verdicts, Words
<1>4. CASE D!Revise(p)
  <2>1. D!Store(p, session, D!Event(p, "revise", D!Nothing, "none", "other", FALSE))
      BY <1>4 DEF D!Revise
  <2> QED
      BY <1>1, <1>2, <1>3, <2>1, NodesTyped, OtherKept
<1>5. CASE D!Practice(p)
  <2>1. PICK a \in {"yes", "no"} :
           D!Store(p, session, D!Event(p, "practice", D!Nothing, a, "none", TRUE))
      BY <1>5 DEF D!Practice
  <2> QED
      BY <1>1, <1>2, <1>3, <2>1, NodesTyped, OtherKept
<1>6. CASE D!Verify(p)
  <2>1. PICK a \in {"yes", "no"} :
           D!Store(p, session, D!Event(p, "verify", D!Nothing, a, "none", FALSE))
      BY <1>6 DEF D!Verify
  <2> QED
      BY <1>1, <1>2, <1>3, <2>1, NodesTyped, OtherKept
<1> QED
    BY <1>4, <1>5, <1>6

LEMMA SessionStartedD ==
    ASSUME DiagInv, D!Start
    PROVE  DiagInv'
<1>1. session.status = "none" /\ events' = events /\ clock' = clock /\ page' = page
    BY DEF D!Start
<1>2. PICK m \in {"quick", "deep"}, r \in Reports, v \in {2, 3} :
         session' = [protocol |-> v, mode |-> m, report |-> r, cursor |-> 0,
                     status |-> "active", assisted |-> D!NoTime]
    BY DEF D!Start
<1>3. /\ session \in Sessions /\ events = <<>> /\ \A q \in Pages : page[q].key = 0
      /\ page \in [Pages -> Sheet] /\ clock \in 1..MaxClock /\ session.cursor = Len(events)
    BY <1>1 DEF DiagInv, SessionTyped
<1>4. /\ session' \in Sessions /\ session'.cursor = 0 /\ session'.status = "active"
      /\ session'.mode = m
    BY <1>2, DiagAssumed DEF Sessions, D!Statuses, D!NoTime
<1>5. events \in Seq(Happening) /\ Len(events) = 0 /\ DOMAIN events = {}
    BY <1>3
<1>6. SessionTyped'
    BY <1>1, <1>3, <1>4, <1>5, DiagAssumed DEF SessionTyped
<1>7. PagesShowRoute'
  <2>1. D!Route(session', <<>>) # D!Nothing
      BY FirstRoute
  <2>2. D!Route(session, events)' = D!Route(session', <<>>) /\ D!Nothing' = D!Nothing
      BY <1>1, <1>3 DEF D!Nothing
  <2>3. \A q \in Pages : page[q].cursor <= session'.cursor
      BY <1>3, <1>4, <1>5 DEF DiagInv, PagesShowRoute
  <2> QED
      BY <1>1, <1>3, <2>1, <2>2, <2>3 DEF PagesShowRoute
<1>8. DOMAIN events' = {}
    BY <1>1, <1>5
<1>9. HelpMarks' /\ HelpStays'
    BY <1>8 DEF HelpMarks, HelpStays
<1>10. FoundationLast'
    BY <1>8 DEF FoundationLast, D!Asked
<1>11. D!AnsweredAsShown' /\ D!HelpIsRemembered' /\ D!ConclusionIsIndependent'
    BY <1>8 DEF D!AnsweredAsShown, D!HelpIsRemembered, D!ConclusionIsIndependent
<1> QED
    BY <1>6, <1>7, <1>9, <1>10, <1>11 DEF DiagInv

LEMMA PageOpenedD ==
    ASSUME DiagInv, NEW p \in Pages, D!OpenPage(p)
    PROVE  DiagInv'
<1> DEFINE node == IF session.status = "active" THEN D!Route(session, events) ELSE D!Nothing
           key == 1 + D!Cardinality({q \in Pages : page[q].key # 0})
                    + Len(events) * (D!Cardinality(Pages) + 1)
           sheet == [cursor |-> session.cursor, node |-> node, key |-> key]
<1>1. /\ session.status # "none" /\ page' = [page EXCEPT ![p] = sheet]
      /\ session' = session /\ events' = events /\ clock' = clock
    BY DEF D!OpenPage
<1>2. /\ session \in Sessions /\ events \in Seq(Happening) /\ page \in [Pages -> Sheet]
      /\ session.cursor \in Nat
    BY DEF DiagInv, SessionTyped, Sessions
<1>3. node \in Nodes
    BY <1>2, RouteLeads, NodesTyped
<1>4. key \in Nat
  <2> DEFINE Shown == {q \in Pages : page[q].key # 0}
  <2>1. IsFiniteSet(Shown) /\ IsFiniteSet(Pages)
      BY DiagAssumed, FS_Subset
  <2>2. D!Cardinality(Shown) \in Nat /\ D!Cardinality(Pages) \in Nat
      BY <2>1, SameSizeOfDiag, FS_CardinalityType
  <2>3. Len(events) \in Nat
      BY <1>2
  <2> QED
      BY <2>2, <2>3
<1> HIDE DEF node, key
<1>5. sheet \in Sheet /\ sheet.cursor = session.cursor /\ sheet.node = node
    BY <1>2, <1>3, <1>4 DEF Sheet
<1> HIDE DEF sheet
<1>6. /\ page' \in [Pages -> Sheet] /\ page'[p] = sheet
      /\ \A q \in Pages : q # p => page'[q] = page[q]
    BY <1>1, <1>2, <1>5
<1>7. SessionTyped'
    BY <1>1, <1>6 DEF DiagInv, SessionTyped
<1>8. PagesShowRoute'
  <2>1. D!Route(session, events)' = D!Route(session, events) /\ D!Nothing' = D!Nothing
      BY <1>1 DEF D!Nothing
  <2>2. ASSUME NEW q \in Pages
        PROVE  /\ page'[q].cursor <= session.cursor
               /\ page'[q].key # 0 /\ page'[q].cursor = session.cursor
                  /\ session.status = "active" =>
                    page'[q].node = D!Route(session, events)
    <3>1. CASE q = p
        BY <1>2, <1>5, <1>6, <3>1 DEF node
    <3>2. CASE q # p
        BY <1>6, <3>2 DEF DiagInv, PagesShowRoute
    <3> QED
        BY <3>1, <3>2
  <2> QED
      BY <1>1, <2>1, <2>2 DEF DiagInv, PagesShowRoute
<1> QED
    BY <1>1, <1>7, <1>8, EventsRest DEF DiagInv

LEMMA HalfDayPassed ==
    ASSUME DiagInv, D!Tick
    PROVE  DiagInv'
<1>1. /\ clock < MaxClock /\ clock' = clock + 1
      /\ session' = session /\ events' = events /\ page' = page
    BY DEF D!Tick
<1>2. clock' \in 1..MaxClock
    BY <1>1, DiagAssumed DEF DiagInv, SessionTyped
<1>3. SessionTyped'
    BY <1>1, <1>2 DEF DiagInv, SessionTyped
<1>4. PagesShowRoute'
  <2>1. D!Route(session, events)' = D!Route(session, events) /\ D!Nothing' = D!Nothing
      BY <1>1 DEF D!Nothing
  <2> QED
      BY <1>1, <2>1 DEF DiagInv, PagesShowRoute
<1> QED
    BY <1>1, <1>3, <1>4, EventsRest DEF DiagInv

LEMMA DiagStep ==
    ASSUME DiagInv, D!DiagNext
    PROVE  DiagInv'
<1>1. CASE D!Start
    BY <1>1, SessionStartedD
<1>2. CASE D!Opens
    BY <1>2, PageOpenedD DEF D!Opens
<1>3. CASE D!ProbesSent
    BY <1>3, ProbeKept DEF D!ProbesSent
<1>4. CASE D!Locates
    BY <1>4, LocateKept DEF D!Locates
<1>5. CASE D!Finishes
    BY <1>5, FinishKept DEF D!Finishes
<1>6. CASE D!Selects
    BY <1>6, SelectKept DEF D!Selects
<1>7. CASE D!Revises
    BY <1>7, ReviseKept DEF D!Revises
<1>8. CASE D!Practices
    BY <1>8, ReviseKept DEF D!Practices
<1>9. CASE D!Verifies
    BY <1>9, ReviseKept DEF D!Verifies
<1>10. CASE D!Tick
    BY <1>10, HalfDayPassed
<1> QED
    BY <1>1, <1>2, <1>3, <1>4, <1>5, <1>6, <1>7, <1>8, <1>9, <1>10 DEF D!DiagNext

LEMMA DiagHolds ==
    ASSUME DiagInv
    PROVE  /\ D!DiagTypeOK /\ D!AnsweredAsShown
           /\ D!HelpIsRemembered /\ D!ConclusionIsIndependent
<1>1. D!DiagTypeOK
    BY DEF DiagInv, SessionTyped, Sessions, PagesShowRoute, D!DiagTypeOK
<1> QED
    BY <1>1 DEF DiagInv

-----------------------------------------------------------------------------
(***************************************************************************)
(* The earlier protocols. The steps listed for a session are each listed   *)
(* once, the hints an event carries are those given before it, and the     *)
(* question about the first attempt comes before any hint.                 *)
(***************************************************************************)
Dialogues == [protocol : 0..2, mode : {"none", "quick", "deep"}, report : OldReports \cup {"none"},
              cursor : Nat, status : {"none", "active", "completed", "ended"},
              assisted : BOOLEAN, steps : Seq(R!Steps)]

Strengths == {"none", "rejected", "open", "supported", "recalled"}

Turn == [action : {"deepen", "select-mode", "finish", "revise", "locate", "answer", "hint", "next"},
         step : R!Steps \cup {R!NoStep}, passed : {"yes", "no", "unsure", "none"},
         reason : {"none", "agree", "different", "cause", "unsure", "late"},
         hints : Nat, shown : R!Steps \cup {R!NoStep}, strength : Strengths]

Screen == [cursor : Nat, step : R!Steps \cup {R!NoStep}, ready : BOOLEAN]

\* An active session has a step it is at; nothing is sent before it is started.
DialogueTyped ==
    /\ dialogue \in Dialogues /\ turns \in Seq(Turn) /\ screen \in [Pages -> Screen]
    /\ Len(turns) <= MaxEvents /\ dialogue.cursor <= Len(dialogue.steps)
    /\ dialogue.status = "active" => dialogue.cursor < Len(dialogue.steps)
    /\ dialogue.status = "none" => turns = <<>> /\ \A p \in Pages : ~screen[p].ready
    /\ dialogue.status # "none" => dialogue.protocol \in {1, 2} /\ Len(dialogue.steps) >= 1

HintAt(k, i) == turns[k].action = "hint" /\ turns[k].step = i

\* An event carries how many hints its step had before it.
HintsCounted ==
    \A n \in DOMAIN turns :
       turns[n].hints = Cardinality({k \in 1..(n - 1) : HintAt(k, turns[n].step)})

\* The question about the first attempt comes before the hints of protocol 2.
LocateFirst ==
    /\ \A m \in DOMAIN turns : turns[m].action = "locate" =>
          ~\E k \in 1..(m - 1) : turns[k].action = "hint"
    /\ dialogue.protocol = 2 =>
          \A k \in DOMAIN turns : turns[k].action = "hint" => R!Some("locate", turns)

ReasonInv ==
    /\ DialogueTyped /\ HintsCounted /\ LocateFirst
    /\ R!RecallUninfluenced /\ R!RetriesFollowHints /\ R!ChecksAreKept

-----------------------------------------------------------------------------
LEMMA SameSizeOfReason == \A s : R!Cardinality(s) = Cardinality(s)
    BY Zenon DEF Cardinality, R!Cardinality

LEMMA ReasonAssumed ==
    /\ MaxEvents \in Nat /\ Len(CardSteps) \in Nat /\ R!Steps = 1..Len(CardSteps)
    /\ R!Steps \in SUBSET Nat /\ 1 \in R!Steps /\ IsFiniteSet(R!Steps) /\ R!NoStep = 0
<1>1. R!ReasoningAssumption
    BY LearningAssumption DEF LearningAssumption
<1>2. CardSteps \in Seq({"condition", "model", "plan", "execution"}) /\ Len(CardSteps) >= 1
      /\ MaxEvents \in Nat
    BY <1>1 DEF R!ReasoningAssumption
<1>3. DOMAIN CardSteps = 1..Len(CardSteps) /\ Len(CardSteps) \in Nat
    BY <1>2
<1>4. IsFiniteSet(1..Len(CardSteps))
    BY <1>3, FS_Interval
<1> QED
    BY <1>2, <1>3, <1>4 DEF R!Steps, R!NoStep

\* The first and the last of a set of places of a sequence.
LEMMA FirstIs ==
    ASSUME NEW S \in SUBSET Nat, S # {}
    PROVE  R!First(S) \in S /\ \A n \in S : R!First(S) <= n
<1>1. \E m \in S : \A n \in S : m <= n
    BY Smallest
<1> QED
    BY <1>1, Zenon DEF R!First

LEMMA FinalIs ==
    ASSUME NEW S \in SUBSET Nat, S # {}, NEW b \in Nat, \A n \in S : n <= b
    PROVE  R!Final(S) \in S /\ \A n \in S : n <= R!Final(S)
<1>1. \E m \in S : \A n \in S : n <= m
    BY Largest
<1> QED
    BY <1>1, Zenon DEF R!Final

\* A set listed by place is listed whole, every member once.
LEMMA ListedWhole ==
    ASSUME NEW S \in SUBSET R!Steps, NEW place, \A i \in S : place[i] \in Nat,
           \A i, j \in S : place[i] = place[j] => i = j
    PROVE  /\ R!Listed(S, place) \in Seq(S)
           /\ R!Listed(S, place) \in Seq(R!Steps)
           /\ Len(R!Listed(S, place)) = Cardinality(S)
           /\ Cardinality(S) \in Nat
           /\ \A i \in S : \E n \in 1..Cardinality(S) : R!Listed(S, place)[n] = i
           /\ \A m, n \in 1..Cardinality(S) :
                 R!Listed(S, place)[m] = R!Listed(S, place)[n] => m = n
<1> DEFINE Below(i) == {j \in S : place[j] < place[i]}
           size == Cardinality(S)
           rank == [i \in S |-> Cardinality(Below(i)) + 1]
           list == [n \in 1..size |-> CHOOSE i \in S : Cardinality(Below(i)) = n - 1]
<1>1. IsFiniteSet(S) /\ size \in Nat
  <2>1. IsFiniteSet(R!Steps) /\ S \in SUBSET R!Steps
      BY ReasonAssumed
  <2> QED
      BY <2>1, FS_Subset, FS_CardinalityType
<1>2. R!Listed(S, place) = list
  <2>1. ASSUME NEW n \in 1..size
        PROVE  (CHOOSE i \in S : R!Cardinality({j \in S : place[j] < place[i]}) = n - 1)
                  = (CHOOSE i \in S : Cardinality(Below(i)) = n - 1)
      BY SameSizeOfReason
  <2>2. R!Cardinality(S) = size
      BY SameSizeOfReason
  <2> HIDE DEF size
  <2>3. R!Listed(S, place) = [n \in 1..size |->
            CHOOSE i \in S : R!Cardinality({j \in S : place[j] < place[i]}) = n - 1]
      BY <2>2 DEF R!Listed
  <2> QED
      BY <2>1, <2>3
<1>3. ASSUME NEW i \in S
      PROVE  IsFiniteSet(Below(i)) /\ Cardinality(Below(i)) \in Nat /\ Cardinality(Below(i)) < size
  <2>1. Below(i) \in SUBSET S /\ i \notin Below(i)
      OBVIOUS
  <2>2. /\ IsFiniteSet(Below(i)) /\ Cardinality(Below(i)) <= size
        /\ size = Cardinality(Below(i)) => S = Below(i)
      BY <1>1, <2>1, FS_Subset
  <2> QED
      BY <1>1, <2>1, <2>2, FS_CardinalityType
<1>4. ASSUME NEW i \in S, NEW j \in S, place[i] < place[j]
      PROVE  Cardinality(Below(i)) < Cardinality(Below(j))
  <2>1. Below(i) \in SUBSET Below(j) /\ i \notin Below(i) /\ i \in Below(j)
      BY <1>4
  <2>2. IsFiniteSet(Below(j)) /\ IsFiniteSet(Below(i))
      BY <1>3
  <2>3. /\ Cardinality(Below(i)) <= Cardinality(Below(j))
        /\ Cardinality(Below(j)) = Cardinality(Below(i)) => Below(j) = Below(i)
      BY <2>1, <2>2, FS_Subset
  <2>4. Cardinality(Below(j)) # Cardinality(Below(i))
      BY <2>1, <2>3
  <2>5. Cardinality(Below(i)) \in Nat /\ Cardinality(Below(j)) \in Nat
      BY <1>3
  <2> HIDE DEF Below
  <2> QED
      BY <2>3, <2>4, <2>5
<1>5. ASSUME NEW i \in S, NEW j \in S, Cardinality(Below(i)) = Cardinality(Below(j))
      PROVE  i = j
  <2>1. ~(place[i] < place[j]) /\ ~(place[j] < place[i])
      BY <1>3, <1>4, <1>5
  <2> QED
      BY <2>1
<1>6. ASSUME NEW i \in S
      PROVE  rank[i] = Cardinality(Below(i)) + 1 /\ Cardinality(Below(i)) \in Nat
    BY <1>3
<1>7. rank = [i \in S |-> rank[i]] /\ DOMAIN rank = S
    OBVIOUS
<1> HIDE DEF Below, rank
<1>8. ASSUME NEW i \in S PROVE rank[i] \in 1..size
    BY <1>6, <1>1, <1>3
<1>9. rank \in Injection(S, 1..size)
  <2>1. rank \in [S -> 1..size]
      BY <1>8, <1>7
  <2>2. ASSUME NEW i \in S, NEW j \in S, rank[i] = rank[j] PROVE i = j
      BY <1>6, <1>5, <2>2
  <2> QED
      BY <2>1, <2>2 DEF Injection, IsInjective
<1>10. ASSUME NEW n \in 1..size PROVE \E i \in S : Cardinality(Below(i)) = n - 1
  <2>1. IsFiniteSet(1..size) /\ Cardinality(1..size) = size
      BY <1>1, FS_Interval
  <2>2. rank \in Surjection(S, 1..size)
      BY <1>9, <2>1, FS_Injection
  <2>3. PICK i \in S : rank[i] = n
      BY <2>2 DEF Surjection
  <2> QED
      BY <1>6, <2>3
<1>11. ASSUME NEW n \in 1..size PROVE list[n] \in S /\ Cardinality(Below(list[n])) = n - 1
  <2>1. list[n] = CHOOSE i \in S : Cardinality(Below(i)) = n - 1
      OBVIOUS
  <2> HIDE DEF list, Below, rank
  <2> QED
      BY <1>10, <2>1, Zenon
<1>12. list = [n \in 1..size |-> list[n]] /\ DOMAIN list = 1..size
    OBVIOUS
<1> HIDE DEF list
<1>13. list \in Seq(S) /\ Len(list) = size
    BY <1>1, <1>11, <1>12
<1>14. ASSUME NEW i \in S PROVE \E n \in 1..size : list[n] = i
  <2>1. rank[i] \in 1..size /\ rank[i] = Cardinality(Below(i)) + 1 /\ Cardinality(Below(i)) \in Nat
      BY <1>8, <1>6
  <2>2. list[rank[i]] \in S /\ Cardinality(Below(list[rank[i]])) = Cardinality(Below(i))
    <3>1. Cardinality(Below(list[rank[i]])) = rank[i] - 1 /\ list[rank[i]] \in S
        BY <1>11, <2>1
    <3> QED
        BY <3>1, <2>1
  <2> QED
      BY <1>5, <2>1, <2>2
<1>15. ASSUME NEW m \in 1..size, NEW n \in 1..size, list[m] = list[n] PROVE m = n
  <2>1. Cardinality(Below(list[m])) = m - 1 /\ Cardinality(Below(list[n])) = n - 1
      BY <1>11
  <2> QED
      BY <1>1, <1>15, <2>1
<1> HIDE DEF list, Below, rank
<1>16. list \in Seq(R!Steps)
    BY <1>13
<1> QED
    BY <1>2, <1>1, <1>13, <1>14, <1>15, <1>16

\* What a list of steps lists, and that it lists nothing twice.
Lists(list, S) ==
    /\ list \in Seq(R!Steps) /\ DOMAIN list = 1..Len(list) /\ Len(list) \in Nat
    /\ \A n \in DOMAIN list : list[n] \in S
    /\ \A m, n \in DOMAIN list : list[m] = list[n] => m = n

\* The steps answered are listed whole.
LEMMA UsedWhole ==
    ASSUME turns \in Seq(Turn)
    PROVE  /\ Lists(R!Used(turns), {i \in R!Steps : R!Answered(i, turns)})
           /\ \A i \in R!Steps : R!Answered(i, turns) =>
                 \E n \in DOMAIN R!Used(turns) : R!Used(turns)[n] = i
<1> DEFINE seen == {i \in R!Steps : R!Answered(i, turns)}
           place == [i \in seen |-> R!First(R!Of("answer", i, turns))]
<1>1. R!Used(turns) = R!Listed(seen, place)
    BY DEF R!Used
<1>2. ASSUME NEW i \in seen
      PROVE  /\ R!First(R!Of("answer", i, turns)) \in Nat
             /\ turns[R!First(R!Of("answer", i, turns))].step = i
  <2>1. R!Of("answer", i, turns) \in SUBSET Nat /\ R!Of("answer", i, turns) # {}
      BY DEF R!Of, R!Answered
  <2>2. R!First(R!Of("answer", i, turns)) \in R!Of("answer", i, turns)
      BY <2>1, FirstIs
  <2> QED
      BY <2>1, <2>2 DEF R!Of
<1>3. seen \in SUBSET R!Steps
    OBVIOUS
<1>4. /\ \A i \in seen : place[i] \in Nat
      /\ \A i, j \in seen : place[i] = place[j] => i = j
    BY <1>2
<1> HIDE DEF place, seen
<1> DEFINE list == R!Listed(seen, place)
           size == Cardinality(seen)
<1>5. /\ list \in Seq(R!Steps) /\ list \in Seq(seen) /\ Len(list) = size /\ size \in Nat
      /\ \A i \in seen : \E n \in 1..size : list[n] = i
      /\ \A m, n \in 1..size : list[m] = list[n] => m = n
    BY <1>3, <1>4, ListedWhole
<1> HIDE DEF list, size
<1>6. DOMAIN list = 1..size /\ \A n \in DOMAIN list : list[n] \in seen
    BY <1>5
<1>7. R!Used(turns) = list
    BY <1>1 DEF list
<1>8. Lists(list, seen)
    BY <1>5, <1>6 DEF Lists
<1>9. \A i \in R!Steps : R!Answered(i, turns) => i \in seen
    BY DEF seen
<1> QED
    BY <1>5, <1>6, <1>7, <1>8, <1>9 DEF seen

LEMMA StartsAtAStep == \A v, report : R!StartStep(v, report) \in R!Steps
<1> SUFFICES ASSUME NEW v, NEW report PROVE R!StartStep(v, report) \in R!Steps
    OBVIOUS
<1> DEFINE stage == IF v = 1 THEN report ELSE R!StageOf(report)
           fitting == {i \in R!Steps : CardSteps[i] = stage}
<1>1. R!StartStep(v, report) = IF fitting = {} THEN 1 ELSE R!First(fitting)
    BY DEF R!StartStep
<1> HIDE DEF stage
<1>2. fitting \in SUBSET R!Steps /\ fitting \in SUBSET Nat
    BY ReasonAssumed
<1> HIDE DEF fitting
<1>3. fitting # {} => R!First(fitting) \in fitting
    BY <1>2, FirstIs
<1> QED
    BY <1>1, <1>2, <1>3, ReasonAssumed

\* A mode lists steps of those it chooses from, one at least when there is one.
LEMMA ChosenFrom ==
    ASSUME NEW S \in SUBSET R!Steps, NEW mode, NEW report
    PROVE  Lists(R!Chosen(mode, report, S), S) /\ (S # {} => Len(R!Chosen(mode, report, S)) >= 1)
<1> DEFINE start == R!StartStep(2, report)
           round == [i \in S |-> IF i >= start THEN i ELSE i + Len(CardSteps)]
           straight == R!Listed(S, R!InOrder)
           turned == R!Listed(S, round)
           size == Cardinality(S)
           few == IF Len(turned) < 2 THEN Len(turned) ELSE 2
<1>1. R!Chosen(mode, report, S) = IF mode = "deep" THEN straight ELSE SubSeq(turned, 1, few)
    BY DEF R!Chosen
<1>2. /\ Len(CardSteps) \in Nat /\ start \in Nat /\ start <= Len(CardSteps)
      /\ \A i \in S : i \in 1..Len(CardSteps)
    BY ReasonAssumed, StartsAtAStep
<1>3. \A i \in S : i \in Nat /\ R!InOrder[i] = i
    BY ReasonAssumed DEF R!InOrder
<1>4. /\ \A i \in S : round[i] \in Nat
      /\ \A i, j \in S : round[i] = round[j] => i = j
    BY <1>2
<1> HIDE DEF start, round
<1>5. /\ straight \in Seq(R!Steps) /\ straight \in Seq(S) /\ Len(straight) = size /\ size \in Nat
      /\ \A m, n \in 1..size : straight[m] = straight[n] => m = n
      /\ \A i \in S : \E n \in 1..size : TRUE
    BY <1>3, ListedWhole
<1>6. /\ turned \in Seq(R!Steps) /\ turned \in Seq(S) /\ Len(turned) = size
      /\ \A m, n \in 1..size : turned[m] = turned[n] => m = n
    BY <1>4, ListedWhole
<1> HIDE DEF straight, turned, size
<1>7. S # {} => size >= 1
    BY <1>5
<1>8. Lists(straight, S)
    BY <1>5 DEF Lists
<1>9. few \in Nat /\ few <= size /\ (size >= 1 => few >= 1)
    BY <1>5, <1>6
<1> HIDE DEF few
<1>10. /\ SubSeq(turned, 1, few) \in Seq(S)
       /\ Len(SubSeq(turned, 1, few)) = few
       /\ \A n \in 1..few : SubSeq(turned, 1, few)[n] = turned[n]
  <2>1. \A n \in 1..few : turned[n] \in S
      BY <1>5, <1>6, <1>9
  <2>2. 1 \in Int /\ few \in Int
      BY <1>9
  <2>3. /\ SubSeq(turned, 1, few) \in Seq(S)
        /\ Len(SubSeq(turned, 1, few)) = IF 1 <= few THEN few - 1 + 1 ELSE 0
        /\ \A n \in 1..(few - 1 + 1) : SubSeq(turned, 1, few)[n] = turned[1 + n - 1]
      BY <2>1, <2>2, SubSeqProperties
  <2>4. few - 1 + 1 = few /\ \A n \in 1..few : 1 + n - 1 = n
      BY <1>9
  <2>5. (IF 1 <= few THEN few - 1 + 1 ELSE 0) = few
      BY <1>9
  <2> QED
      BY <2>3, <2>4, <2>5
<1>11. Lists(SubSeq(turned, 1, few), S)
  <2> DEFINE part3 == SubSeq(turned, 1, few)
  <2>1. part3 \in Seq(S) /\ Len(part3) = few /\ \A n \in 1..few : part3[n] = turned[n]
      BY <1>10
  <2> HIDE DEF part3
  <2>2. DOMAIN part3 = 1..few /\ part3 \in Seq(R!Steps)
      BY <1>9, <2>1
  <2>3. \A m, n \in DOMAIN part3 : part3[m] = part3[n] => m = n
      BY <1>5, <1>6, <1>9, <2>1, <2>2
  <2>4. \A n \in DOMAIN part3 : part3[n] \in S
      BY <2>1, <2>2
  <2>5. Lists(part3, S)
      BY <1>9, <2>1, <2>2, <2>3, <2>4 DEF Lists
  <2> QED
      BY <2>5 DEF part3
<1> QED
    BY <1>1, <1>5, <1>7, <1>8, <1>9, <1>10, <1>11

\* A plan lists steps once each, those answered among them.
Planned(steps) ==
    /\ steps \in Seq(R!Steps) /\ Len(steps) >= 1
    /\ \A m, n \in DOMAIN steps : steps[m] = steps[n] => m = n
    /\ \A i \in R!Steps : R!Answered(i, turns) => \E n \in DOMAIN steps : steps[n] = i

LEMMA ReplannedWhole ==
    ASSUME DialogueTyped, NEW mode \in {"quick", "deep"}, NEW report \in OldReports \cup {"none"},
           NEW s, s = R!Replanned(dialogue, mode, report, turns)
    PROVE  /\ s \in Dialogues /\ s.protocol = dialogue.protocol /\ s.report = report
           /\ s.status \in {"active", "completed"} /\ s.cursor <= Len(s.steps)
           /\ s.status = "active" => s.cursor < Len(s.steps)
           /\ Planned(s.steps)
<1> DEFINE used == R!Used(turns)
           left == R!Left(turns)
           more == R!Chosen(mode, report, left)
           all == used \o more
<1>1. s = [dialogue EXCEPT !.mode = mode, !.report = report, !.steps = all,
                           !.cursor = Len(used),
                           !.status = IF more = <<>> THEN "completed" ELSE "active"]
    BY DEF R!Replanned
<1>2. dialogue \in Dialogues /\ turns \in Seq(Turn)
    BY DEF DialogueTyped
<1>3. left = R!Steps \ {i \in R!Steps : R!Answered(i, turns)} /\ left \in SUBSET R!Steps
    BY DEF R!Left
<1>4. /\ Lists(used, {i \in R!Steps : R!Answered(i, turns)})
      /\ \A i \in R!Steps : R!Answered(i, turns) => \E n \in DOMAIN used : used[n] = i
    BY <1>2, UsedWhole
<1>5. Lists(more, left) /\ (left # {} => Len(more) >= 1)
    BY <1>3, ChosenFrom
<1> HIDE DEF used, more
<1>6. /\ used \in Seq(R!Steps) /\ more \in Seq(R!Steps) /\ Len(used) \in Nat /\ Len(more) \in Nat
      /\ DOMAIN used = 1..Len(used) /\ DOMAIN more = 1..Len(more)
    BY <1>4, <1>5 DEF Lists
<1>7. /\ all \in Seq(R!Steps) /\ Len(all) = Len(used) + Len(more)
      /\ \A n \in 1..Len(used) : all[n] = used[n]
      /\ \A n \in 1..Len(more) : all[Len(used) + n] = more[n]
      /\ \A n \in (Len(used) + 1)..Len(all) : all[n] = more[n - Len(used)]
    BY <1>6
<1> HIDE DEF all
<1>8. DOMAIN all = 1..Len(all) /\ Len(all) \in Nat
    BY <1>7
<1>9. ASSUME NEW m \in DOMAIN all, NEW n \in DOMAIN all, all[m] = all[n] PROVE m = n
  <2>1. CASE m <= Len(used) /\ n <= Len(used)
    <3>1. used[m] = used[n] /\ m \in DOMAIN used /\ n \in DOMAIN used
        BY <1>6, <1>7, <1>8, <1>9, <2>1
    <3> QED
        BY <1>4, <3>1 DEF Lists
  <2>2. CASE m > Len(used) /\ n > Len(used)
    <3>1. /\ all[m] = more[m - Len(used)] /\ all[n] = more[n - Len(used)]
          /\ m - Len(used) \in DOMAIN more /\ n - Len(used) \in DOMAIN more
        BY <1>6, <1>7, <1>8, <2>2
    <3>2. m - Len(used) = n - Len(used)
        BY <1>5, <1>9, <3>1 DEF Lists
    <3> QED
        BY <1>6, <1>8, <3>2
  <2>3. ASSUME NEW a \in DOMAIN all, NEW b \in DOMAIN all, a <= Len(used), b > Len(used)
        PROVE  all[a] # all[b]
    <3>1. /\ all[a] = used[a] /\ a \in DOMAIN used
          /\ all[b] = more[b - Len(used)] /\ b - Len(used) \in DOMAIN more
        BY <1>6, <1>7, <1>8, <2>3
    <3>2. all[a] \in {i \in R!Steps : R!Answered(i, turns)} /\ all[b] \in left
        BY <1>4, <1>5, <3>1 DEF Lists
    <3> QED
        BY <1>3, <3>2
  <2> QED
      BY <1>6, <1>8, <1>9, <2>1, <2>2, <2>3
<1>10. Len(all) >= 1
  <2>1. CASE left # {}
      BY <1>5, <1>6, <1>7, <2>1
  <2>2. CASE left = {}
    <3>1. 1 \in R!Steps /\ R!Answered(1, turns)
        BY <1>3, <2>2, ReasonAssumed
    <3> QED
        BY <1>4, <1>6, <1>7, <3>1
  <2> QED
      BY <2>1, <2>2
<1>11. \A i \in R!Steps : R!Answered(i, turns) => \E n \in DOMAIN all : all[n] = i
    BY <1>4, <1>6, <1>7, <1>8
<1>12. Planned(all)
    BY <1>7, <1>9, <1>10, <1>11 DEF Planned
<1>13. /\ more = <<>> \/ Len(more) >= 1
    BY <1>6
<1>14. Len(used) \in Nat /\ Len(used) <= Len(all) /\ (more # <<>> => Len(used) < Len(all))
    BY <1>6, <1>7, <1>13
<1>15. /\ s.protocol = dialogue.protocol /\ s.report = report /\ s.steps = all
       /\ s.cursor = Len(used) /\ s.status \in {"active", "completed"}
       /\ s.status = "active" => more # <<>>
       /\ s \in Dialogues
  <2>1. \/ more = <<>> /\ (IF more = <<>> THEN "completed" ELSE "active") = "completed"
        \/ more # <<>> /\ (IF more = <<>> THEN "completed" ELSE "active") = "active"
      OBVIOUS
  <2> DEFINE word == IF more = <<>> THEN "completed" ELSE "active"
  <2>2. word \in {"active", "completed"} /\ (word = "active" => more # <<>>)
      BY <2>1
  <2>3. s = [dialogue EXCEPT !.mode = mode, !.report = report, !.steps = all,
                             !.cursor = Len(used), !.status = word]
      BY <1>1
  <2> HIDE DEF word
  <2> QED
      BY <1>2, <1>7, <1>14, <2>2, <2>3 DEF Dialogues
<1> QED
    BY <1>12, <1>14, <1>15

\* The step a session is at is one of its plan.
LEMMA CurrentIs ==
    ASSUME DialogueTyped, dialogue.status # "none"
    PROVE  /\ R!Current(dialogue) \in R!Steps
           /\ \E n \in DOMAIN dialogue.steps : dialogue.steps[n] = R!Current(dialogue)
<1>1. /\ dialogue \in Dialogues /\ Len(dialogue.steps) >= 1
    BY DEF DialogueTyped
<1> DEFINE at == IF dialogue.cursor < Len(dialogue.steps)
                 THEN dialogue.cursor + 1 ELSE Len(dialogue.steps)
<1>2. /\ dialogue.steps \in Seq(R!Steps) /\ dialogue.cursor \in Nat
      /\ DOMAIN dialogue.steps = 1..Len(dialogue.steps) /\ Len(dialogue.steps) \in Nat
    BY <1>1 DEF Dialogues
<1>3. at \in DOMAIN dialogue.steps
    BY <1>1, <1>2
<1>4. R!Current(dialogue) = dialogue.steps[at]
    BY DEF R!Current
<1> HIDE DEF at
<1> QED
    BY <1>2, <1>3, <1>4

LEMMA PlanStands == ReasonInv /\ dialogue.status # "none" => Planned(dialogue.steps)
<1> SUFFICES ASSUME ReasonInv, dialogue.status # "none" PROVE Planned(dialogue.steps)
    OBVIOUS
<1>1. /\ dialogue.steps \in Seq(R!Steps) /\ Len(dialogue.steps) >= 1
    BY DEF ReasonInv, DialogueTyped, Dialogues
<1>2. \A m, n \in DOMAIN dialogue.steps : dialogue.steps[m] = dialogue.steps[n] => m = n
    BY DEF ReasonInv, R!ChecksAreKept, R!IsInjective
<1>3. ASSUME NEW i \in R!Steps, R!Answered(i, turns)
      PROVE  \E n \in DOMAIN dialogue.steps : dialogue.steps[n] = i
  <2>1. PICK n \in DOMAIN turns : turns[n].action = "answer" /\ turns[n].step = i
      BY <1>3 DEF R!Answered, R!Of
  <2>2. i \in R!Range(dialogue.steps)
      BY <2>1 DEF ReasonInv, R!ChecksAreKept
  <2> QED
      BY <2>2 DEF R!Range
<1> QED
    BY <1>1, <1>2, <1>3 DEF Planned

\* A conclusion that recollection and check agree on rests on a recollection.
LEMMA SupportedMeans ==
    ASSUME NEW evs \in Seq(Turn), NEW s
    PROVE  /\ R!Strength(s, evs) \in Strengths
           /\ R!Strength(s, evs) = "supported" => \E m \in DOMAIN evs : evs[m].action = "locate"
<1> DEFINE at == {n \in DOMAIN evs : evs[n].action \in {"locate", "revise"}}
           said == R!LastAt({"locate", "revise"}, evs)
           ends == R!LastAt({"finish"}, evs)
           rejected == /\ ends # 0 /\ evs[ends].reason = "different"
                       /\ ~(said # 0 /\ evs[said].action = "revise" /\ said > ends)
           seen == said # 0 /\ evs[said].step \in R!Checked(s, evs)
           agree == seen /\ evs[said].step \in R!Blocked(s, evs) /\ evs[said].action = "locate"
<1>1. said = IF at = {} THEN 0 ELSE R!Final(at)
    BY DEF R!LastAt
<1>2. at \in SUBSET Nat /\ Len(evs) \in Nat /\ \A n \in at : n <= Len(evs)
    OBVIOUS
<1>3. at # {} => R!Final(at) \in at
    BY <1>2, FinalIs
<1>4. said # 0 => said \in DOMAIN evs
    BY <1>1, <1>3
<1>5. R!Strength(s, evs) = IF rejected THEN "rejected"
                           ELSE IF said = 0 \/ evs[said].reason = "unsure" THEN "open"
                           ELSE IF agree THEN "supported" ELSE "recalled"
    BY DEF R!Strength
<1>6. agree => \E m \in DOMAIN evs : evs[m].action = "locate"
    BY <1>4
<1> HIDE DEF rejected, agree, said
<1> QED
    BY <1>5, <1>6 DEF Strengths

LEMMA TurnStored ==
    ASSUME ReasonInv, NEW p \in Pages, dialogue.status # "none",
           NEW s \in Dialogues, s.protocol = dialogue.protocol, s.status # "none",
           s.cursor <= Len(s.steps), s.status = "active" => s.cursor < Len(s.steps),
           Planned(s.steps),
           NEW e \in Turn, e.strength = "none", e.hints = R!HintsAt(e.step, turns),
           e.action = "answer" =>
              /\ \E n \in DOMAIN s.steps : s.steps[n] = e.step
              /\ e.step \in R!Steps
              /\ R!Answered(e.step, turns) =>
                    /\ s.protocol = 2
                    /\ R!LastTry(e.step, turns).hints < R!HintsAt(e.step, turns),
           e.action = "hint" /\ s.protocol = 2 => R!Some("locate", turns),
           e.action = "locate" => s.protocol = 2 /\ ~R!Some("locate", turns),
           R!Store(p, s, e)
    PROVE  ReasonInv'
<1> DEFINE ext == Append(turns, e)
           over == s.protocol = 2 /\ s.status # "active"
           helped == s.assisted \/ (over /\ R!Some("answer", ext))
           new == [s EXCEPT !.assisted = helped]
           word == IF over THEN R!Strength(new, ext) ELSE "none"
           kept == [e EXCEPT !.strength = word]
           last == Len(turns) + 1
<1>1. /\ Len(ext) <= MaxEvents /\ dialogue' = new /\ turns' = Append(turns, kept)
      /\ screen' = [screen EXCEPT ![p].ready = FALSE]
    BY DEF R!Store
<1>2. /\ dialogue \in Dialogues /\ turns \in Seq(Turn) /\ screen \in [Pages -> Screen]
      /\ Len(turns) \in Nat /\ DOMAIN turns = 1..Len(turns) /\ dialogue.protocol \in {1, 2}
    BY DEF ReasonInv, DialogueTyped
<1>3. ext \in Seq(Turn) /\ Len(ext) = last /\ ext[last] = e /\ DOMAIN ext = 1..last
      /\ \A n \in DOMAIN turns : ext[n] = turns[n]
    BY <1>2
<1> HIDE DEF ext, over
<1>4. helped \in BOOLEAN
    OBVIOUS
<1> HIDE DEF helped
<1>5. /\ new \in Dialogues /\ new.protocol = s.protocol /\ new.status = s.status
      /\ new.steps = s.steps /\ new.cursor = s.cursor
    BY <1>4 DEF Dialogues
<1> HIDE DEF new
<1>6. word \in Strengths /\ (word = "supported" => \E m \in DOMAIN ext : ext[m].action = "locate")
  <2>1. /\ R!Strength(new, ext) \in Strengths
        /\ R!Strength(new, ext) = "supported" => \E m \in DOMAIN ext : ext[m].action = "locate"
      BY <1>3, SupportedMeans
  <2>2. "none" \in Strengths
      BY DEF Strengths
  <2> QED
      BY <2>1, <2>2
<1> HIDE DEF word
<1>7. /\ kept \in Turn /\ kept.action = e.action /\ kept.step = e.step /\ kept.hints = e.hints
      /\ kept.strength = word
    BY <1>6 DEF Turn
<1> HIDE DEF kept
<1>8. /\ turns' \in Seq(Turn) /\ Len(turns') = last /\ last \in Nat /\ last = Len(turns) + 1
      /\ DOMAIN turns' = 1..last /\ turns'[last] = kept
      /\ DOMAIN turns' = DOMAIN turns \cup {last}
      /\ \A n \in DOMAIN turns : turns'[n] = turns[n] /\ n < last /\ n \in Nat
    BY <1>1, <1>2, <1>7
<1> HIDE DEF last
<1>9. DialogueTyped'
  <2>1. screen' \in [Pages -> Screen]
      BY <1>1, <1>2 DEF Screen
  <2>2. Len(turns') <= MaxEvents
      BY <1>1, <1>3, <1>8
  <2>3. new.protocol \in {1, 2} /\ Len(new.steps) >= 1
      BY <1>2, <1>5 DEF Planned
  <2> QED
      BY <1>1, <1>5, <1>8, <2>1, <2>2, <2>3 DEF DialogueTyped
<1>10. HintsCounted'
  <2>1. ASSUME NEW n \in DOMAIN turns', NEW i
        PROVE  {k \in 1..(n - 1) : turns'[k].action = "hint" /\ turns'[k].step = i}
                  = {k \in 1..(n - 1) : turns[k].action = "hint" /\ turns[k].step = i}
    <3>1. \A k \in 1..(n - 1) : turns'[k] = turns[k]
        BY <1>2, <1>8
    <3> QED
        BY <3>1
  <2>2. ASSUME NEW n \in DOMAIN turns
        PROVE  turns'[n].hints = Cardinality({k \in 1..(n - 1) :
                  turns'[k].action = "hint" /\ turns'[k].step = turns'[n].step})
    <3>1. turns'[n] = turns[n] /\ n \in DOMAIN turns'
        BY <1>8
    <3>2. turns[n].hints = Cardinality({k \in 1..(n - 1) :
             turns[k].action = "hint" /\ turns[k].step = turns[n].step})
        BY DEF ReasonInv, HintsCounted, HintAt
    <3> DEFINE i == turns[n].step
    <3>3. {k \in 1..(n - 1) : turns'[k].action = "hint" /\ turns'[k].step = i}
             = {k \in 1..(n - 1) : turns[k].action = "hint" /\ turns[k].step = i}
        BY <2>1, <3>1
    <3>4. turns'[n].hints = Cardinality({k \in 1..(n - 1) :
             turns[k].action = "hint" /\ turns[k].step = i})
        BY <3>1, <3>2
    <3>5. turns'[n].step = i
        BY <3>1
    <3> HIDE DEF i
    <3> QED
        BY <3>3, <3>4, <3>5
  <2>3. turns'[last].hints = Cardinality({k \in 1..(last - 1) :
           turns'[k].action = "hint" /\ turns'[k].step = turns'[last].step})
    <3>1. last \in DOMAIN turns' /\ turns'[last].step = e.step /\ 1..(last - 1) = DOMAIN turns
        BY <1>2, <1>7, <1>8
    <3>2. R!HintsAt(e.step, turns) = Cardinality({k \in DOMAIN turns :
             turns[k].action = "hint" /\ turns[k].step = e.step})
        BY SameSizeOfReason DEF R!HintsAt, R!Of
    <3>3. turns'[last].hints = R!HintsAt(e.step, turns)
        BY <1>7, <1>8
    <3>4. {k \in 1..(last - 1) : turns'[k].action = "hint" /\ turns'[k].step = e.step}
             = {k \in DOMAIN turns : turns[k].action = "hint" /\ turns[k].step = e.step}
      <4> DEFINE i == e.step
      <4>1. {k \in 1..(last - 1) : turns'[k].action = "hint" /\ turns'[k].step = i}
               = {k \in 1..(last - 1) : turns[k].action = "hint" /\ turns[k].step = i}
          BY <2>1, <3>1
      <4> HIDE DEF i
      <4>2. {k \in 1..(last - 1) : turns[k].action = "hint" /\ turns[k].step = i}
               = {k \in DOMAIN turns : turns[k].action = "hint" /\ turns[k].step = i}
          BY <3>1
      <4> QED
          BY <4>1, <4>2 DEF i
    <3>5. turns'[last].step = e.step
        BY <3>1
    <3> QED
        BY <3>2, <3>3, <3>4, <3>5
  <2> QED
      BY <1>8, <2>2, <2>3 DEF HintsCounted, HintAt
<1>11. R!Some("locate", turns)' <=> R!Some("locate", turns) \/ e.action = "locate"
    BY <1>7, <1>8 DEF R!Some
<1>12. LocateFirst'
  <2>1. ASSUME NEW m \in DOMAIN turns', turns'[m].action = "locate",
               NEW k \in 1..(m - 1), turns'[k].action = "hint"
        PROVE  FALSE
    <3>1. k \in DOMAIN turns /\ turns[k].action = "hint"
        BY <1>2, <1>8, <2>1
    <3>2. CASE m \in DOMAIN turns
        BY <1>8, <2>1, <3>1, <3>2 DEF ReasonInv, LocateFirst
    <3>3. CASE m = last
      <4>1. e.action = "locate"
          BY <1>7, <1>8, <2>1, <3>3
      <4>2. dialogue.protocol = 2 /\ ~R!Some("locate", turns)
          BY <4>1
      <4> QED
          BY <3>1, <4>2 DEF ReasonInv, LocateFirst
    <3> QED
        BY <1>8, <3>2, <3>3
  <2>2. ASSUME dialogue'.protocol = 2, NEW k \in DOMAIN turns', turns'[k].action = "hint"
        PROVE  R!Some("locate", turns)'
    <3>1. s.protocol = 2
        BY <1>1, <1>5, <2>2
    <3>2. CASE k \in DOMAIN turns
        BY <1>8, <1>11, <2>2, <3>1, <3>2 DEF ReasonInv, LocateFirst
    <3>3. CASE k = last
        BY <1>7, <1>8, <1>11, <2>2, <3>1, <3>3
    <3> QED
        BY <1>8, <3>2, <3>3
  <2> QED
      BY <2>1, <2>2 DEF LocateFirst
<1>13. R!RecallUninfluenced'
  <2>1. ASSUME NEW n \in DOMAIN turns', turns'[n].strength = "supported"
        PROVE  \E m \in 1..n : turns'[m].action = "locate"
    <3>1. CASE n \in DOMAIN turns
      <4>1. \E m \in 1..n : turns[m].action = "locate"
          BY <1>8, <2>1, <3>1 DEF ReasonInv, R!RecallUninfluenced
      <4>2. 1..n \subseteq DOMAIN turns
          BY <1>2, <3>1
      <4> QED
          BY <1>8, <4>1, <4>2
    <3>2. CASE n = last
      <4>1. PICK m \in DOMAIN ext : ext[m].action = "locate"
          BY <1>6, <1>7, <1>8, <2>1, <3>2
      <4>2. m \in 1..n
          BY <1>3, <3>2
      <4>3. turns'[m].action = ext[m].action
          BY <1>3, <1>7, <1>8, <4>2, <3>2
      <4> QED
          BY <4>1, <4>2, <4>3
    <3> QED
        BY <1>8, <3>1, <3>2
  <2>2. ASSUME NEW n \in DOMAIN turns', NEW m \in 1..n, turns'[m].action = "locate"
        PROVE  ~\E k \in 1..(m - 1) : turns'[k].action = "hint"
    <3>1. m \in DOMAIN turns'
        BY <1>8
    <3> QED
        BY <1>12, <2>2, <3>1 DEF LocateFirst
  <2> QED
      BY <2>1, <2>2 DEF R!RecallUninfluenced
<1>14. R!RetriesFollowHints'
  <2>1. ASSUME NEW m \in DOMAIN turns', NEW n \in DOMAIN turns', m < n,
               turns'[m].action = "answer", turns'[n].action = "answer",
               turns'[m].step = turns'[n].step
        PROVE  /\ dialogue'.protocol = 2
               /\ \E k \in m..n : turns'[k].action = "hint" /\ turns'[k].step = turns'[m].step
    <3>1. m \in DOMAIN turns /\ turns'[m] = turns[m]
        BY <1>2, <1>8, <2>1
    <3>2. CASE n \in DOMAIN turns
      <4>1. /\ dialogue.protocol = 2
            /\ \E k \in m..n : turns[k].action = "hint" /\ turns[k].step = turns[m].step
          BY <1>8, <2>1, <3>1, <3>2 DEF ReasonInv, R!RetriesFollowHints
      <4>2. m..n \subseteq DOMAIN turns
          BY <1>2, <3>1, <3>2
      <4> QED
          BY <1>1, <1>5, <1>8, <3>1, <4>1, <4>2
    <3>3. CASE n = last
      <4> DEFINE i == e.step
                 tries == R!Of("answer", i, turns)
                 f == R!Final(tries)
                 before == {k \in 1..(f - 1) : turns[k].action = "hint" /\ turns[k].step = i}
                 hints == {k \in DOMAIN turns : turns[k].action = "hint" /\ turns[k].step = i}
      <4>1. e.action = "answer" /\ turns[m].step = i /\ turns[m].action = "answer"
          BY <1>7, <1>8, <2>1, <3>1, <3>3
      <4>2. m \in tries
          BY <3>1, <4>1 DEF R!Of
      <4>3. s.protocol = 2 /\ R!LastTry(i, turns).hints < R!HintsAt(i, turns)
          BY <4>1, <4>2 DEF R!Answered
      <4>4. tries \in SUBSET Nat /\ \A k \in tries : k <= Len(turns)
          BY <1>2 DEF R!Of
      <4>5. f \in tries /\ \A k \in tries : k <= f
          BY <1>2, <4>2, <4>4, FinalIs
      <4>6. f \in DOMAIN turns /\ turns[f].step = i /\ m <= f /\ f \in Nat
          BY <1>8, <4>2, <4>5 DEF R!Of
      <4>7. turns[f].hints = Cardinality(before)
          BY <4>6 DEF ReasonInv, HintsCounted, HintAt
      <4>8. R!HintsAt(i, turns) = Cardinality(hints)
          BY SameSizeOfReason DEF R!HintsAt, R!Of
      <4>9. Cardinality(before) < Cardinality(hints)
          BY <4>3, <4>7, <4>8 DEF R!LastTry
      <4>10. Cardinality(hints) \in Nat
        <5>1. hints \in SUBSET Nat /\ \A k \in hints : k <= Len(turns)
            BY <1>2
        <5> HIDE DEF hints
        <5>2. IsFiniteSet(hints)
            BY <1>2, <5>1, FS_BoundedSetOfNaturals
        <5> QED
            BY <5>2, FS_CardinalityType
      <4> HIDE DEF f, tries
      <4>11. before # hints
        <5> HIDE DEF before, hints
        <5> QED
            BY <4>9, <4>10
      <4>12. before \subseteq hints
          BY <1>2, <4>6
      <4>13. PICK k \in hints : k \notin before
          BY <4>11, <4>12
      <4>14. k >= f /\ k \in DOMAIN turns /\ k \in Nat
          BY <1>2, <4>6, <4>13
      <4>15. k \in m..n /\ turns'[k] = turns[k]
          BY <1>2, <1>8, <3>1, <3>3, <4>6, <4>14
      <4> QED
          BY <1>1, <1>5, <3>1, <4>1, <4>3, <4>13, <4>15
    <3> QED
        BY <1>8, <3>2, <3>3
  <2> QED
      BY <2>1 DEF R!RetriesFollowHints
<1>15. R!ChecksAreKept'
  <2>1. dialogue'.steps = s.steps
      BY <1>1, <1>5
  <2>2. R!IsInjective(dialogue.steps)'
      BY <2>1 DEF Planned, R!IsInjective
  <2>3. ASSUME NEW n \in DOMAIN turns', turns'[n].action = "answer"
        PROVE  turns'[n].step \in R!Range(s.steps)
    <3>1. CASE n \in DOMAIN turns
      <4>1. turns[n].step \in R!Range(dialogue.steps) /\ turns'[n] = turns[n]
          BY <1>8, <2>3, <3>1 DEF ReasonInv, R!ChecksAreKept
      <4>2. dialogue.steps \in Seq(R!Steps)
          BY <1>2 DEF Dialogues
      <4>3. turns[n].step \in R!Steps
          BY <4>1, <4>2 DEF R!Range
      <4>4. R!Answered(turns[n].step, turns)
          BY <2>3, <3>1, <4>1 DEF R!Answered, R!Of
      <4>5. \E k \in DOMAIN s.steps : s.steps[k] = turns[n].step
          BY <4>3, <4>4 DEF Planned
      <4> QED
          BY <4>1, <4>5 DEF R!Range
    <3>2. CASE n = last
        BY <1>7, <1>8, <2>3, <3>2 DEF R!Range
    <3> QED
        BY <1>8, <3>1, <3>2
  <2> QED
      BY <2>1, <2>2, <2>3 DEF R!ChecksAreKept, R!Range
<1> QED
    BY <1>9, <1>10, <1>12, <1>13, <1>14, <1>15 DEF ReasonInv

LEMMA ReasonStart == R!ReasoningInit => ReasonInv
<1> SUFFICES ASSUME R!ReasoningInit PROVE ReasonInv
    OBVIOUS
<1>1. /\ dialogue = [protocol |-> 0, mode |-> "none", report |-> "none", cursor |-> 0,
                     status |-> "none", assisted |-> FALSE, steps |-> <<>>]
      /\ turns = <<>> /\ screen = [p \in Pages |-> R!Shut]
    BY DEF R!ReasoningInit
<1>2. DialogueTyped
  <2>1. dialogue \in Dialogues /\ Len(dialogue.steps) = 0
      BY <1>1 DEF Dialogues
  <2>2. R!Shut \in Screen /\ ~R!Shut.ready
      BY ReasonAssumed DEF R!Shut, Screen
  <2>3. screen \in [Pages -> Screen] /\ \A p \in Pages : ~screen[p].ready
      BY <1>1, <2>2
  <2>4. turns \in Seq(Turn) /\ Len(turns) = 0
      BY <1>1
  <2> QED
      BY <1>1, <2>1, <2>3, <2>4, ReasonAssumed DEF DialogueTyped
<1>3. DOMAIN turns = {} /\ DOMAIN dialogue.steps = {}
    BY <1>1
<1> QED
    BY <1>2, <1>3 DEF ReasonInv, HintsCounted, LocateFirst, R!RecallUninfluenced,
                      R!RetriesFollowHints, R!ChecksAreKept, R!IsInjective

LEMMA ReasonRest == ReasonInv /\ UNCHANGED reasonVars => ReasonInv'
<1> SUFFICES ASSUME ReasonInv, UNCHANGED reasonVars PROVE ReasonInv'
    OBVIOUS
<1>1. UNCHANGED <<dialogue, turns, screen>>
    BY DEF reasonVars
<1>2. DialogueTyped'
    BY <1>1 DEF ReasonInv, DialogueTyped
<1>3. HintsCounted'
    BY <1>1 DEF ReasonInv, HintsCounted, HintAt
<1>4. LocateFirst'
    BY <1>1 DEF ReasonInv, LocateFirst, R!Some
<1>5. R!RecallUninfluenced' /\ R!RetriesFollowHints'
    BY <1>1 DEF ReasonInv, R!RecallUninfluenced, R!RetriesFollowHints
<1>6. R!ChecksAreKept'
    BY <1>1 DEF ReasonInv, R!ChecksAreKept, R!IsInjective, R!Range
<1> QED
    BY <1>2, <1>3, <1>4, <1>5, <1>6 DEF ReasonInv

-----------------------------------------------------------------------------
(* The steps.                                                               *)

LEMMA PageSends ==
    ASSUME ReasonInv, NEW p \in Pages, R!UpToDate(p)
    PROVE  /\ dialogue.status \in {"active", "completed", "ended"}
           /\ dialogue \in Dialogues /\ turns \in Seq(Turn)
           /\ screen[p].step \in R!Steps \cup {R!NoStep}
           /\ dialogue.cursor <= Len(dialogue.steps) /\ Planned(dialogue.steps)
           /\ dialogue.status = "active" => dialogue.cursor < Len(dialogue.steps)
           /\ R!Current(dialogue) \in R!Steps
           /\ \E n \in DOMAIN dialogue.steps : dialogue.steps[n] = R!Current(dialogue)
           /\ \A i : R!HintsAt(i, turns) \in Nat
<1>1. DialogueTyped /\ screen[p].ready
    BY DEF ReasonInv, R!UpToDate
<1>2. /\ dialogue \in Dialogues /\ turns \in Seq(Turn) /\ screen[p] \in Screen
      /\ dialogue.cursor <= Len(dialogue.steps)
      /\ dialogue.status = "active" => dialogue.cursor < Len(dialogue.steps)
      /\ dialogue.status # "none"
    BY <1>1 DEF DialogueTyped
<1>3. dialogue.status \in {"active", "completed", "ended"}
    BY <1>2 DEF Dialogues
<1>4. screen[p].step \in R!Steps \cup {R!NoStep}
    BY <1>2 DEF Screen
<1>5. ASSUME NEW i PROVE R!HintsAt(i, turns) \in Nat
  <2> DEFINE hints == R!Of("hint", i, turns)
  <2>1. hints \in SUBSET Nat /\ Len(turns) \in Nat /\ \A k \in hints : k <= Len(turns)
      BY <1>2 DEF R!Of
  <2> HIDE DEF hints
  <2>2. IsFiniteSet(hints) /\ Cardinality(hints) \in Nat
      BY <2>1, FS_BoundedSetOfNaturals, FS_CardinalityType
  <2>3. R!HintsAt(i, turns) = Cardinality(hints)
      BY SameSizeOfReason DEF R!HintsAt, hints
  <2> QED
      BY <2>2, <2>3
<1> QED
    BY <1>1, <1>2, <1>3, <1>4, <1>5, PlanStands, CurrentIs

\* The event a page sends.
LEMMA SentTurn ==
    ASSUME ReasonInv, NEW p \in Pages, R!UpToDate(p),
           NEW action \in {"deepen", "select-mode", "finish", "revise", "locate", "answer",
                           "hint", "next"},
           NEW step \in R!Steps \cup {R!NoStep}, NEW passed \in {"yes", "no", "unsure", "none"},
           NEW reason \in {"none", "agree", "different", "cause", "unsure", "late"}
    PROVE  /\ R!Event(p, action, step, passed, reason) \in Turn
           /\ R!Event(p, action, step, passed, reason).action = action
           /\ R!Event(p, action, step, passed, reason).step = step
           /\ R!Event(p, action, step, passed, reason).strength = "none"
           /\ R!Event(p, action, step, passed, reason).hints = R!HintsAt(step, turns)
<1>1. screen[p].step \in R!Steps \cup {R!NoStep} /\ R!HintsAt(step, turns) \in Nat
    BY PageSends
<1>2. "none" \in Strengths
    BY DEF Strengths
<1> QED
    BY <1>1, <1>2 DEF R!Event, Turn

\* An event that is no answer, hint or recollection, whatever it leaves of the session.
LEMMA PlainKept ==
    ASSUME ReasonInv, NEW p \in Pages, R!UpToDate(p),
           NEW s \in Dialogues, s.protocol = dialogue.protocol, s.status # "none",
           s.cursor <= Len(s.steps), s.status = "active" => s.cursor < Len(s.steps),
           Planned(s.steps),
           NEW action \in {"deepen", "select-mode", "finish", "revise", "next"},
           NEW step \in R!Steps \cup {R!NoStep},
           NEW reason \in {"none", "agree", "different", "cause", "unsure", "late"},
           R!Store(p, s, R!Event(p, action, step, "none", reason))
    PROVE  ReasonInv'
<1> DEFINE e == R!Event(p, action, step, "none", reason)
<1>1. e \in Turn /\ e.action = action /\ e.step = step /\ e.strength = "none"
      /\ e.hints = R!HintsAt(step, turns)
  <2>1. "none" \in {"yes", "no", "unsure", "none"}
      OBVIOUS
  <2>2. action \in {"deepen", "select-mode", "finish", "revise", "locate", "answer", "hint", "next"}
      OBVIOUS
  <2>3. ReasonInv /\ R!UpToDate(p) /\ step \in R!Steps \cup {R!NoStep}
      OBVIOUS
  <2>4. reason \in {"none", "agree", "different", "cause", "unsure", "late"}
      OBVIOUS
  <2>5. /\ R!Event(p, action, step, "none", reason) \in Turn
      BY <2>1, <2>2, <2>3, <2>4, SentTurn
  <2>6. /\ R!Event(p, action, step, "none", reason).action = action
      BY <2>1, <2>2, <2>3, <2>4, SentTurn
  <2>7. /\ R!Event(p, action, step, "none", reason).step = step
      BY <2>1, <2>2, <2>3, <2>4, SentTurn
  <2>8. /\ R!Event(p, action, step, "none", reason).strength = "none"
      BY <2>1, <2>2, <2>3, <2>4, SentTurn
  <2>9. /\ R!Event(p, action, step, "none", reason).hints = R!HintsAt(step, turns)
      BY <2>1, <2>2, <2>3, <2>4, SentTurn
  <2> QED
      BY <2>5, <2>6, <2>7, <2>8, <2>9
<1>2. R!Store(p, s, e) /\ dialogue.status # "none"
    BY PageSends
<1> HIDE DEF e
<1> QED
    BY <1>1, <1>2, TurnStored

LEMMA DeepenKept == ASSUME ReasonInv, NEW p \in Pages, R!Deepen(p) PROVE ReasonInv'
<1> DEFINE s == R!Replanned(dialogue, "deep", dialogue.report, turns)
           i == R!Current(dialogue)
<1>1. R!UpToDate(p) /\ R!Store(p, s, R!Event(p, "deepen", i, "none", "none"))
    BY DEF R!Deepen
<1>2. /\ DialogueTyped /\ dialogue \in Dialogues /\ i \in R!Steps
    BY <1>1, PageSends DEF ReasonInv
<1>3. dialogue.report \in OldReports \cup {"none"}
    BY <1>2 DEF Dialogues
<1>4. /\ s \in Dialogues /\ s.protocol = dialogue.protocol
      /\ s.status \in {"active", "completed"} /\ s.cursor <= Len(s.steps)
      /\ s.status = "active" => s.cursor < Len(s.steps)
      /\ Planned(s.steps)
    BY <1>2, <1>3, ReplannedWhole
<1> HIDE DEF s, i
<1> QED
    BY <1>1, <1>2, <1>4, PlainKept

LEMMA SelectModeKept == ASSUME ReasonInv, NEW p \in Pages, R!SelectMode(p) PROVE ReasonInv'
<1> DEFINE i == R!Current(dialogue)
<1>1. R!UpToDate(p)
    BY DEF R!SelectMode
<1>2. PICK mode \in {"quick", "deep"}, report \in OldReports :
         R!Store(p, R!Replanned(dialogue, mode, report, turns),
                 R!Event(p, "select-mode", i, "none", "none"))
    BY DEF R!SelectMode
<1> DEFINE s == R!Replanned(dialogue, mode, report, turns)
<1>3. DialogueTyped /\ i \in R!Steps /\ report \in OldReports \cup {"none"}
    BY <1>1, PageSends DEF ReasonInv
<1>4. /\ s \in Dialogues /\ s.protocol = dialogue.protocol
      /\ s.status \in {"active", "completed"} /\ s.cursor <= Len(s.steps)
      /\ s.status = "active" => s.cursor < Len(s.steps)
      /\ Planned(s.steps)
    BY <1>3, ReplannedWhole
<1>5. R!Store(p, s, R!Event(p, "select-mode", i, "none", "none"))
    BY <1>2
<1> HIDE DEF s, i
<1> QED
    BY <1>1, <1>3, <1>4, <1>5, PlainKept

LEMMA FinishKeptR == ASSUME ReasonInv, NEW p \in Pages, R!Finish(p) PROVE ReasonInv'
<1> DEFINE i == R!Current(dialogue)
           through == IF dialogue.protocol = 1
                      THEN dialogue.cursor >= Len(dialogue.steps) - 1 /\ R!Answered(i, turns)
                      ELSE dialogue.status = "completed"
                             \/ (R!CanNext(dialogue, turns)
                                   /\ dialogue.cursor = Len(dialogue.steps) - 1)
           word == IF through THEN "completed" ELSE "ended"
           helped == dialogue.assisted \/ (dialogue.protocol = 2 /\ R!Some("answer", turns))
           s == [dialogue EXCEPT !.status = word, !.assisted = helped]
<1>1. R!UpToDate(p)
    BY DEF R!Finish
<1>2. PICK r \in {"agree", "different"} : R!Store(p, s, R!Event(p, "finish", i, "none", r))
    BY DEF R!Finish
<1>3. word \in {"completed", "ended"} /\ helped \in BOOLEAN
    OBVIOUS
<1>4. /\ dialogue \in Dialogues /\ dialogue.cursor <= Len(dialogue.steps)
      /\ Planned(dialogue.steps) /\ i \in R!Steps
    BY <1>1, PageSends
<1> HIDE DEF word, helped, i
<1>5. /\ s \in Dialogues /\ s.protocol = dialogue.protocol /\ s.status \in {"completed", "ended"}
      /\ s.cursor = dialogue.cursor /\ s.steps = dialogue.steps
    BY <1>3, <1>4 DEF Dialogues
<1> HIDE DEF s
<1>6. r \in {"none", "agree", "different", "cause", "unsure", "late"}
    OBVIOUS
<1> QED
    BY <1>1, <1>2, <1>4, <1>5, <1>6, PlainKept

LEMMA ReviseKeptR == ASSUME ReasonInv, NEW p \in Pages, R!Revise(p) PROVE ReasonInv'
<1> DEFINE i == R!Current(dialogue)
<1>1. R!UpToDate(p)
    BY DEF R!Revise
<1>2. PICK r \in {"cause", "unsure"} : R!Store(p, dialogue, R!Event(p, "revise", i, "none", r))
    BY DEF R!Revise
<1>3. /\ dialogue \in Dialogues /\ dialogue.cursor <= Len(dialogue.steps)
      /\ Planned(dialogue.steps) /\ i \in R!Steps /\ dialogue.status # "none"
      /\ dialogue.status = "active" => dialogue.cursor < Len(dialogue.steps)
    BY <1>1, PageSends
<1> HIDE DEF i
<1>4. r \in {"none", "agree", "different", "cause", "unsure", "late"}
    OBVIOUS
<1> QED
    BY <1>1, <1>2, <1>3, <1>4, PlainKept

LEMMA NextKeptR == ASSUME ReasonInv, NEW p \in Pages, R!NextStep(p) PROVE ReasonInv'
<1> DEFINE i == R!Current(dialogue)
           on == dialogue.cursor + 1
           word == IF on >= Len(dialogue.steps) THEN "completed" ELSE "active"
           helped == dialogue.assisted \/ dialogue.protocol = 2
           s == [dialogue EXCEPT !.cursor = on, !.status = word, !.assisted = helped]
<1>1. /\ R!UpToDate(p) /\ dialogue.status = "active"
      /\ R!Store(p, s, R!Event(p, "next", i, "none", "none"))
    BY DEF R!NextStep
<1>2. /\ dialogue \in Dialogues /\ dialogue.cursor < Len(dialogue.steps)
      /\ Planned(dialogue.steps) /\ i \in R!Steps
    BY <1>1, PageSends
<1>3. dialogue.cursor \in Nat /\ Len(dialogue.steps) \in Nat
    BY <1>2 DEF Dialogues
<1>4. /\ word \in {"completed", "active"} /\ helped \in BOOLEAN
      /\ word = "active" => on < Len(dialogue.steps)
      /\ on \in Nat /\ on <= Len(dialogue.steps)
    BY <1>2, <1>3
<1> HIDE DEF word, helped, i, on
<1>5. /\ s \in Dialogues /\ s.protocol = dialogue.protocol /\ s.status = word
      /\ s.cursor = on /\ s.steps = dialogue.steps
    BY <1>2, <1>4 DEF Dialogues
<1> HIDE DEF s
<1> QED
    BY <1>1, <1>2, <1>4, <1>5, PlainKept

LEMMA LocateKeptR == ASSUME ReasonInv, NEW p \in Pages, R!Locate(p) PROVE ReasonInv'
<1> DEFINE slow == dialogue.report = "time"
           i == R!Current(dialogue)
           step == IF slow THEN R!NoStep ELSE i
           passed == /\ ~R!AskedWhyLate(dialogue, turns)
                     /\ R!Answered(i, turns) /\ R!LastTry(i, turns).passed = "yes"
           helped == dialogue.assisted \/ passed
           word == IF slow THEN "completed" ELSE dialogue.status
           s == [dialogue EXCEPT !.assisted = helped, !.status = word]
<1>1. /\ R!UpToDate(p) /\ dialogue.protocol = 2
      /\ R!AskedWhyLate(dialogue, turns) \/ R!NeedsRecall(dialogue, turns)
    BY DEF R!Locate
<1>2. PICK r \in R!Reasons(dialogue, turns) : R!Store(p, s, R!Event(p, "locate", step, "none", r))
    BY DEF R!Locate
<1> DEFINE e == R!Event(p, "locate", step, "none", r)
<1>3. /\ dialogue \in Dialogues /\ dialogue.cursor <= Len(dialogue.steps)
      /\ Planned(dialogue.steps) /\ i \in R!Steps
      /\ dialogue.status \in {"active", "completed", "ended"}
      /\ dialogue.status = "active" => dialogue.cursor < Len(dialogue.steps)
    BY <1>1, PageSends
<1>4. ~R!Some("locate", turns)
    BY <1>1 DEF R!AskedWhyLate, R!NeedsRecall
<1>5. step \in R!Steps \cup {R!NoStep} /\ helped \in BOOLEAN
      /\ word \in {"active", "completed", "ended"}
      /\ (word = "active" => dialogue.status = "active")
    BY <1>3
<1>6. r \in {"none", "agree", "different", "cause", "unsure", "late"}
    BY DEF R!Reasons
<1> HIDE DEF word, helped, i, step
<1>7. /\ s \in Dialogues /\ s.protocol = dialogue.protocol /\ s.status = word
      /\ s.cursor = dialogue.cursor /\ s.steps = dialogue.steps
    BY <1>3, <1>5 DEF Dialogues
<1>8. e \in Turn /\ e.action = "locate" /\ e.step = step /\ e.strength = "none"
      /\ e.hints = R!HintsAt(step, turns)
  <2>1. "none" \in {"yes", "no", "unsure", "none"}
      OBVIOUS
  <2> HIDE DEF s
  <2> QED
      BY <1>1, <1>5, <1>6, <2>1, SentTurn
<1>9. R!Store(p, s, e)
    BY <1>2
<1> HIDE DEF s, e
<1> QED
    BY <1>1, <1>3, <1>4, <1>5, <1>7, <1>8, <1>9, TurnStored

\* An answer to the step a session is at, not answered yet or after another hint.
LEMMA AnswerStored ==
    ASSUME ReasonInv, NEW p \in Pages, R!UpToDate(p),
           NEW a \in {"yes", "no", "unsure"}, NEW helped \in BOOLEAN,
           R!Answered(R!Current(dialogue), turns) =>
              /\ dialogue.protocol = 2
              /\ R!LastTry(R!Current(dialogue), turns).hints
                    < R!HintsAt(R!Current(dialogue), turns),
           R!Store(p, [dialogue EXCEPT !.assisted = helped],
                   R!Event(p, "answer", R!Current(dialogue), a, "none"))
    PROVE  ReasonInv'
<1> DEFINE i == R!Current(dialogue)
           s == [dialogue EXCEPT !.assisted = helped]
           e == R!Event(p, "answer", i, a, "none")
<1>1. /\ dialogue \in Dialogues /\ dialogue.cursor <= Len(dialogue.steps)
      /\ Planned(dialogue.steps) /\ i \in R!Steps
      /\ dialogue.status \in {"active", "completed", "ended"}
      /\ dialogue.status = "active" => dialogue.cursor < Len(dialogue.steps)
      /\ \E n \in DOMAIN dialogue.steps : dialogue.steps[n] = i
    BY PageSends
<1>2. /\ s \in Dialogues /\ s.protocol = dialogue.protocol /\ s.status = dialogue.status
      /\ s.cursor = dialogue.cursor /\ s.steps = dialogue.steps
    BY <1>1 DEF Dialogues
<1>3. e \in Turn /\ e.action = "answer" /\ e.step = i /\ e.strength = "none"
      /\ e.hints = R!HintsAt(i, turns)
  <2> HIDE DEF s, i
  <2>1. /\ "none" \in {"none", "agree", "different", "cause", "unsure", "late"}
        /\ a \in {"yes", "no", "unsure", "none"}
        /\ i \in R!Steps \cup {R!NoStep}
      BY <1>1
  <2> QED
      BY <2>1, SentTurn
<1>4. /\ R!Store(p, s, e)
      /\ R!Answered(i, turns) =>
            dialogue.protocol = 2 /\ R!LastTry(i, turns).hints < R!HintsAt(i, turns)
    OBVIOUS
<1> HIDE DEF s, e, i
<1> QED
    BY <1>1, <1>2, <1>3, <1>4, TurnStored

LEMMA AnswersKept ==
    ASSUME ReasonInv, NEW p \in Pages, R!AnswerOnce(p) \/ R!Answer(p)
    PROVE  ReasonInv'
<1> DEFINE i == R!Current(dialogue)
<1>1. R!UpToDate(p)
    BY DEF R!AnswerOnce, R!Answer
<1>2. CASE R!AnswerOnce(p)
  <2>1. PICK a \in {"yes", "no"} :
           R!Store(p, [dialogue EXCEPT !.assisted = TRUE], R!Event(p, "answer", i, a, "none"))
      BY <1>2 DEF R!AnswerOnce
  <2>2. ~R!Answered(i, turns)
      BY <1>2 DEF R!AnswerOnce
  <2>3. a \in {"yes", "no", "unsure"} /\ TRUE \in BOOLEAN
      OBVIOUS
  <2> HIDE DEF i
  <2> QED
      BY <1>1, <2>1, <2>2, <2>3, AnswerStored DEF i
<1>3. CASE R!Answer(p)
  <2>1. PICK a \in {"yes", "no", "unsure"} :
           R!Store(p, [dialogue EXCEPT !.assisted =
                         @ \/ (a = "yes"
                                 /\ (dialogue.report = "unsure" \/ R!Some("locate", turns)))],
                   R!Event(p, "answer", i, a, "none"))
      BY <1>3 DEF R!Answer
  <2> DEFINE helped == dialogue.assisted
                         \/ (a = "yes" /\ (dialogue.report = "unsure" \/ R!Some("locate", turns)))
  <2>2. helped \in BOOLEAN
      OBVIOUS
  <2>3. R!Store(p, [dialogue EXCEPT !.assisted = helped], R!Event(p, "answer", i, a, "none"))
      BY <2>1
  <2>4. dialogue.protocol = 2 /\ R!CanAnswer(dialogue, turns)
      BY <1>3 DEF R!Answer
  <2>5. R!Answered(i, turns) => R!LastTry(i, turns).hints < R!HintsAt(i, turns)
      BY <2>4 DEF R!CanAnswer
  <2> HIDE DEF helped, i
  <2> QED
      BY <1>1, <2>2, <2>3, <2>4, <2>5, AnswerStored DEF i
<1> QED
    BY <1>2, <1>3

LEMMA HintKeptR == ASSUME ReasonInv, NEW p \in Pages, R!Hint(p) PROVE ReasonInv'
<1> DEFINE i == R!Current(dialogue)
           s == [dialogue EXCEPT !.assisted = TRUE]
           e == R!Event(p, "hint", i, "none", "none")
<1>1. R!UpToDate(p) /\ dialogue.status = "active" /\ R!Store(p, s, e)
    BY DEF R!Hint
<1>2. /\ dialogue \in Dialogues /\ dialogue.cursor < Len(dialogue.steps)
      /\ dialogue.cursor <= Len(dialogue.steps)
      /\ Planned(dialogue.steps) /\ i \in R!Steps
    BY <1>1, PageSends
<1>3. /\ s \in Dialogues /\ s.protocol = dialogue.protocol /\ s.status = "active"
      /\ s.cursor = dialogue.cursor /\ s.steps = dialogue.steps
    BY <1>1, <1>2 DEF Dialogues
<1>4. e \in Turn /\ e.action = "hint" /\ e.step = i /\ e.strength = "none"
      /\ e.hints = R!HintsAt(i, turns)
  <2> HIDE DEF s, i
  <2>1. /\ "none" \in {"none", "agree", "different", "cause", "unsure", "late"}
        /\ "none" \in {"yes", "no", "unsure", "none"}
        /\ i \in R!Steps \cup {R!NoStep}
      BY <1>2
  <2> QED
      BY <1>1, <2>1, SentTurn
<1>5. dialogue.protocol = 2 => R!Some("locate", turns)
  <2>1. SUFFICES ASSUME dialogue.protocol = 2 PROVE R!Some("locate", turns)
      OBVIOUS
  <2>2. R!CanHint(dialogue, turns)
      BY <2>1 DEF R!Hint
  <2> QED
      BY <2>2 DEF R!CanHint, R!Offers, R!NeedsRecall
<1> HIDE DEF s, e, i
<1> QED
    BY <1>1, <1>2, <1>3, <1>4, <1>5, TurnStored

LEMMA StartedKept == ReasonInv /\ R!Start => ReasonInv'
<1> SUFFICES ASSUME ReasonInv, R!Start PROVE ReasonInv'
    OBVIOUS
<1>1. /\ dialogue.status = "none" /\ turns' = turns /\ screen' = screen
    BY DEF R!Start
<1>2. PICK v \in {1, 2}, mode \in {"quick", "deep"}, report \in OldReports :
         dialogue' = [protocol |-> v, mode |-> mode, report |-> report, cursor |-> 0,
                      status |-> "active", assisted |-> FALSE,
                      steps |-> LET start == R!StartStep(v, report)
                                IN  IF mode = "deep" THEN R!InOrder
                                    ELSE R!Listed({start, start + 1} \cap R!Steps, R!InOrder)]
    BY DEF R!Start
<1> DEFINE start == R!StartStep(v, report)
           two == {start, start + 1} \cap R!Steps
           few == R!Listed(two, R!InOrder)
           steps == IF mode = "deep" THEN R!InOrder ELSE few
<1>3. /\ turns = <<>> /\ screen \in [Pages -> Screen] /\ Len(turns) <= MaxEvents
      /\ turns \in Seq(Turn)
    BY <1>1 DEF ReasonInv, DialogueTyped
<1> DEFINE all == Len(CardSteps)
<1>4. /\ all \in Nat /\ all >= 1 /\ R!Steps = 1..all
      /\ R!InOrder = [i \in 1..all |-> i]
  <2>1. all \in Nat /\ R!Steps = 1..all /\ 1 \in R!Steps
      BY ReasonAssumed
  <2> QED
      BY <2>1 DEF R!InOrder
<1> HIDE DEF all
<1>5. /\ R!InOrder \in Seq(R!Steps) /\ Len(R!InOrder) = all /\ DOMAIN R!InOrder = 1..all
      /\ \A m, n \in 1..all : R!InOrder[m] = R!InOrder[n] => m = n
    BY <1>4
<1>6. start \in two /\ two \in SUBSET R!Steps
    BY StartsAtAStep
<1> HIDE DEF two
<1>7. /\ \A i \in two : R!InOrder[i] \in Nat
      /\ \A i, j \in two : R!InOrder[i] = R!InOrder[j] => i = j
    BY <1>4, <1>6
<1> DEFINE size == Cardinality(two)
<1>8. /\ few \in Seq(R!Steps) /\ Len(few) = size /\ size \in Nat
      /\ \A i \in two : \E n \in 1..size : few[n] = i
      /\ \A m, n \in 1..size : few[m] = few[n] => m = n
    BY <1>6, <1>7, ListedWhole
<1> HIDE DEF few, size
<1>9. DOMAIN few = 1..size /\ size >= 1
    BY <1>6, <1>8
<1>10. /\ steps \in Seq(R!Steps) /\ Len(steps) >= 1 /\ Len(steps) \in Nat
       /\ \A m, n \in DOMAIN steps : steps[m] = steps[n] => m = n
  <2>1. CASE mode = "deep"
    <3>1. steps = R!InOrder
        BY <2>1
    <3> HIDE DEF steps
    <3> QED
        BY <1>4, <1>5, <3>1
  <2>2. CASE mode # "deep"
    <3>1. steps = few
        BY <2>2
    <3> HIDE DEF steps
    <3> QED
        BY <1>8, <1>9, <3>1
  <2> QED
      BY <2>1, <2>2
<1> HIDE DEF steps
<1>11. dialogue' = [protocol |-> v, mode |-> mode, report |-> report, cursor |-> 0,
                    status |-> "active", assisted |-> FALSE, steps |-> steps]
    BY <1>2 DEF steps, few, two
<1>12. dialogue' \in Dialogues
    BY <1>10, <1>11 DEF Dialogues
<1>13. DialogueTyped'
    BY <1>1, <1>3, <1>10, <1>11, <1>12 DEF DialogueTyped
<1>14. DOMAIN turns' = {}
    BY <1>1, <1>3
<1>15. R!ChecksAreKept'
  <2>1. R!IsInjective(dialogue.steps)'
      BY <1>10, <1>11 DEF R!IsInjective
  <2> QED
      BY <1>14, <2>1 DEF R!ChecksAreKept
<1> QED
    BY <1>13, <1>14, <1>15 DEF ReasonInv, HintsCounted, LocateFirst, R!RecallUninfluenced,
                               R!RetriesFollowHints

LEMMA PageOpenedR == ASSUME ReasonInv, NEW p \in Pages, R!OpenPage(p) PROVE ReasonInv'
<1> DEFINE at == IF R!Open(dialogue) THEN R!Current(dialogue) ELSE R!NoStep
           shows == [cursor |-> dialogue.cursor, ready |-> TRUE, step |-> at]
<1>1. /\ dialogue.status # "none" /\ dialogue' = dialogue /\ turns' = turns
      /\ screen' = [screen EXCEPT ![p] = shows]
    BY DEF R!OpenPage
<1>2. DialogueTyped
    BY DEF ReasonInv
<1>3. at \in R!Steps \cup {R!NoStep}
    BY <1>1, <1>2, CurrentIs
<1> HIDE DEF at
<1>4. shows \in Screen
    BY <1>2, <1>3 DEF DialogueTyped, Dialogues, Screen
<1> HIDE DEF shows
<1>5. DialogueTyped'
    BY <1>1, <1>2, <1>4 DEF DialogueTyped
<1>6. HintsCounted'
    BY <1>1 DEF ReasonInv, HintsCounted, HintAt
<1>7. LocateFirst'
    BY <1>1 DEF ReasonInv, LocateFirst, R!Some
<1>8. R!RecallUninfluenced' /\ R!RetriesFollowHints'
    BY <1>1 DEF ReasonInv, R!RecallUninfluenced, R!RetriesFollowHints
<1>9. R!ChecksAreKept'
    BY <1>1 DEF ReasonInv, R!ChecksAreKept, R!IsInjective, R!Range
<1> QED
    BY <1>5, <1>6, <1>7, <1>8, <1>9 DEF ReasonInv

LEMMA ReasonStep == ASSUME ReasonInv, R!ReasoningNext PROVE ReasonInv'
<1>1. CASE R!Start
    BY <1>1, StartedKept
<1>2. CASE R!Opens
    BY <1>2, PageOpenedR DEF R!Opens
<1>3. CASE R!Deepens
    BY <1>3, DeepenKept DEF R!Deepens
<1>4. CASE R!Chooses
    BY <1>4, SelectModeKept DEF R!Chooses
<1>5. CASE R!Finishes
    BY <1>5, FinishKeptR DEF R!Finishes
<1>6. CASE R!Revises
    BY <1>6, ReviseKeptR DEF R!Revises
<1>7. CASE R!Locates
    BY <1>7, LocateKeptR DEF R!Locates
<1>8. CASE R!Answers
    BY <1>8, AnswersKept DEF R!Answers
<1>9. CASE R!HintsSent
    BY <1>9, HintKeptR DEF R!HintsSent
<1>10. CASE R!NextSteps
    BY <1>10, NextKeptR DEF R!NextSteps
<1> QED
    BY <1>1, <1>2, <1>3, <1>4, <1>5, <1>6, <1>7, <1>8, <1>9, <1>10 DEF R!ReasoningNext

LEMMA ReasonHolds ==
    ReasonInv => /\ R!ReasoningTypeOK /\ R!RecallUninfluenced /\ R!RetriesFollowHints
                 /\ R!ChecksAreKept
<1> SUFFICES ASSUME ReasonInv PROVE R!ReasoningTypeOK
    BY DEF ReasonInv
<1>1. /\ dialogue \in Dialogues /\ screen \in [Pages -> Screen] /\ Len(turns) <= MaxEvents
      /\ dialogue.cursor <= Len(dialogue.steps)
    BY DEF ReasonInv, DialogueTyped
<1>2. /\ dialogue.status \in {"none", "active", "completed", "ended"}
      /\ dialogue.cursor \in Nat /\ Len(dialogue.steps) \in Nat
    BY <1>1 DEF Dialogues
<1>3. \A p \in Pages : screen[p].step \in R!Steps \cup {R!NoStep}
    BY <1>1 DEF Screen
<1> QED
    BY <1>1, <1>2, <1>3 DEF R!ReasoningTypeOK

-----------------------------------------------------------------------------
(***************************************************************************)
(* Together.  A step is a step of one part and leaves the others alone.    *)
(***************************************************************************)
LearningInv ==
    /\ part \in AllParts
    /\ PracticeInv /\ Marked /\ DiagInv /\ ReasonInv /\ GraphInv /\ RegionsInv /\ TagsInv

LEMMA LearningStarts == LearningInit => LearningInv
BY PracticeStart, MarkedStart, DiagStart, ReasonStart, GraphStart, RegionsStart, TagsStart
DEF LearningInit, LearningInv

\* What the step of a part is to that part.
LEMMA PartsStep ==
    ASSUME [LearningNext]_<<part, practiceVars, diagVars, reasonVars, lgVars,
                            regionVars, tagVars>>
    PROVE  /\ part' = part
           /\ P!PracticeNext \/ UNCHANGED practiceVars
           /\ D!DiagNext \/ UNCHANGED diagVars
           /\ R!ReasoningNext \/ UNCHANGED reasonVars
           /\ GraphNext \/ UNCHANGED lgVars
           /\ L!RegionNext \/ UNCHANGED regionVars
           /\ T!TaxonomyNext(MaxSaves) \/ UNCHANGED tagVars
BY DEF LearningNext, Practising, Diagnosing, Reasoning, Growing, Observing, Naming

LEMMA LearningStep ==
    LearningInv /\ [LearningNext]_<<part, practiceVars, diagVars, reasonVars, lgVars,
                                    regionVars, tagVars>> => LearningInv'
<1> SUFFICES ASSUME LearningInv,
                    [LearningNext]_<<part, practiceVars, diagVars, reasonVars, lgVars,
                                     regionVars, tagVars>>
             PROVE  LearningInv'
    OBVIOUS
<1>1. /\ part \in AllParts /\ PracticeInv /\ Marked /\ DiagInv /\ ReasonInv /\ GraphInv
      /\ RegionsInv /\ TagsInv
    BY DEF LearningInv
<1>2. part' \in AllParts
    BY <1>1, PartsStep DEF AllParts
<1>3. PracticeInv' /\ Marked'
  <2>1. UNCHANGED practiceVars => UNCHANGED <<day, log, book, mastered, viewed, tab, flips>>
      BY DEF practiceVars
  <2> QED
      BY <1>1, <2>1, PartsStep, PracticeStep, PracticeRest, MarkedStep
<1>4. DiagInv'
    BY <1>1, PartsStep, DiagStep, DiagRest
<1>5. ReasonInv'
    BY <1>1, PartsStep, ReasonStep, ReasonRest
<1>6. GraphInv'
    BY <1>1, PartsStep, GraphStep, GraphRest
<1>7. RegionsInv'
    BY <1>1, PartsStep, RegionsStep, RegionsRest
<1>8. TagsInv'
    BY <1>1, PartsStep, TagsStep, TagsRest
<1> QED
    BY <1>2, <1>3, <1>4, <1>5, <1>6, <1>7, <1>8 DEF LearningInv

LEMMA LearningStays == LearningSpec => []LearningInv
BY LearningStarts, LearningStep, PTL DEF LearningSpec

\* The tables behind practice, diagnosis, the graph, the regions and the tags hold
\* what they can hold; the tags are a forest, and one version of it is in use.
THEOREM RowsStayTyped == LearningSpec => []LearningTypeOK
<1>1. LearningInv => LearningTypeOK
  <2> SUFFICES ASSUME LearningInv PROVE LearningTypeOK
      OBVIOUS
  <2>1. P!PracticeTypeOK /\ D!DiagTypeOK /\ R!ReasoningTypeOK
      BY PracticeHolds, DiagHolds, ReasonHolds DEF LearningInv
  <2>2. GraphTypeOK /\ L!RegionTypeOK /\ T!TaxonomyTypeOK /\ T!OneForest
      BY GraphHolds, RegionsHold, TagsHold DEF LearningInv
  <2> QED
      BY <2>1, <2>2 DEF LearningInv, LearningTypeOK
<1> QED
    BY <1>1, LearningStays, PTL

\* A part of a question is consolidated by right answers alone, spaced far enough and
\* on days not marked as helping, where help of a diagnosis that had given none
\* before always leaves its mark; a page of answers is stored whole, a goal is proven
\* by checks answered alone, and a class is shown school work alone: for any log, any
\* corrections and any days.
THEOREM MasteryStaysEarned == LearningSpec => MasteryIsEarned
<1>1. LearningInv => EarnedNow
    BY PracticeHolds, RegionsHold DEF LearningInv, EarnedNow
<1>2. LearningInv /\ [LearningNext]_<<part, practiceVars, diagVars, reasonVars, lgVars,
                                      regionVars, tagVars>>
         => [\A i \in DOMAIN log' :
                i > Len(log) /\ log'[i].key # P!NoKey /\ log'[i].purpose = "verify"
                  /\ log'[i].part \in told => assisted[log'[i].part] \in 1..(day - 1)]_(P!plVars)
  <2> SUFFICES ASSUME LearningInv, P!PracticeNext,
                      NEW i \in DOMAIN log', i > Len(log), log'[i].key # P!NoKey,
                      log'[i].purpose = "verify", log'[i].part \in told
               PROVE  assisted[log'[i].part] \in 1..(day - 1)
      BY PartsStep DEF practiceVars, P!plVars
  <2> QED
      BY RedoesCounted DEF LearningInv
<1> QED
    BY <1>1, <1>2, LearningStays, PTL DEF LearningSpec, MasteryIsEarned, P!FirstHelpCounts

\* Help leaves its mark, recollections come before anything is revealed, a second try
\* follows a hint, and no check made is lost or asked twice: for any number of pages
\* and events.
THEOREM DiagnosisStaysHonest == LearningSpec => []DiagnosisIsHonest
<1>1. LearningInv => DiagnosisIsHonest
    BY DiagHolds, ReasonHolds DEF LearningInv, DiagnosisIsHonest
<1> QED
    BY <1>1, LearningStays, PTL

\* The card students are shown was made by the run that had the job then, and
\* approved prerequisites never form a cycle.
THEOREM GraphStaysSound == LearningSpec => []GraphIsSound
<1>1. LearningInv => GraphIsSound
    BY GraphHolds DEF LearningInv
<1> QED
    BY <1>1, LearningStays, PTL

\* An installation of the default taxonomy keeps what questions are about, and a tag it
\* replaced returns by a confirmation it overtook alone; what was decided of the graph
\* changes at a page that shows all of it as it is, and a review of a binding changes no
\* earlier session: for any forest, any number of pages, releases and requests.
THEOREM DecisionsAreKept == LearningSpec => DecisionsStay
<1>1. LearningInv => T!ReplacedReturnsLate
    BY TagsHold DEF LearningInv
<1>2. LearningInv /\ [LearningNext]_<<part, practiceVars, diagVars, reasonVars, lgVars,
                                      regionVars, tagVars>>
         => [revision' = revision =>
               \A q \in Questions : T!Meaning(label[q])' = T!Meaning(label[q])]_(T!taxVars)
  <2> SUFFICES ASSUME LearningInv, T!TaxonomyNext(MaxSaves), revision' = revision,
                      NEW q \in Questions
               PROVE  T!Meaning(label[q])' = T!Meaning(label[q])
      BY PartsStep DEF tagVars, T!taxVars
  <2> QED
      BY MeaningKept DEF LearningInv
<1>3. LearningInv /\ [LearningNext]_<<part, practiceVars, diagVars, reasonVars, lgVars,
                                      regionVars, tagVars>>
         => [ /\ Decided(graph)' # Decided(graph) => \E p \in Pages : Decides(p)
              /\ \A p \in Pages : Decided(pages[p]) # Decided(graph) => ~Decides(p) ]_graph
  <2> SUFFICES ASSUME LearningInv, GraphNext
               PROVE  /\ Decided(graph') # Decided(graph) => \E p \in Pages : Decides(p)
                      /\ \A p \in Pages : Decided(pages[p]) # Decided(graph) => ~Decides(p)
      BY PartsStep DEF lgVars, Decided
  <2> QED
      BY DecisionsSeen DEF LearningInv
<1>4. LearningInv /\ [LearningNext]_<<part, practiceVars, diagVars, reasonVars, lgVars,
                                      regionVars, tagVars>>
         => [L!Reviews => \A s \in Students, own \in BOOLEAN :
                             L!Observations(s, own)' = L!Observations(s, own)]_(L!lrVars)
    BY ReviewChangesNoSession
<1> QED
    BY <1>1, <1>2, <1>3, <1>4, LearningStays, PTL
    DEF LearningSpec, DecisionsStay, T!MeaningSurvives, ReviewIsKept, L!ReviewsLookForward
=============================================================================
