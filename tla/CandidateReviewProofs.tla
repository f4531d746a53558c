----------------------- MODULE CandidateReviewProofs -----------------------
(***************************************************************************)
(* Theorems about CandidateReview, for papers of any size and any number   *)
(* of clients.  What makes them inductive is PagesArePast: a page that     *)
(* still shows the revision of an active row shows its content, because    *)
(* every change of content raises the revision.                            *)
(***************************************************************************)
EXTENDS CandidateReview, SequenceTheorems, FiniteSetTheorems, TLAPS

\* A form names distinct candidates, as many as its operation works on.
FormIsShaped(form) ==
    /\ IsInjective(form.items)
    /\ form.op = "delete" => form.items = <<>>
    /\ form.op # "delete" => Len(form.items) >= 1
    /\ form.op \in {"save", "attach", "split", "defer"} => Len(form.items) = 1
    /\ form.op \in {"merge", "assign"} => Len(form.items) = 2

\* A new order names as many candidates as the page it was made from.
FormsAreShaped == \A r \in Requests :
    /\ FormIsShaped(Asked(r))
    /\ Asked(r).op = "reorder" => Len(Asked(r).items) = Len(req[r].shown)

RequestHasKey == \A r \in Requests : ~At(r, "idle") => req[r].key \in Keys

\* A key is recorded by the transaction that committed under it, and by no other.
KeysCount == \A k \in Keys : applied[k] = IF k \in recorded THEN 1 ELSE 0

\* Rows that exist have a positive revision.
RevisionsArePositive == \A i \in Items : rows[i].disp # "none" => rows[i].rev >= 1

\* Rows of which a page is held vanish only with the whole task.
PagesArePast ==
    \A r \in Requests : ~At(r, "idle") => \A i \in Named(r) :
        /\ req[r].seen[i].disp = "active"
        /\ Active(i) => req[r].seen[i].rev <= rows[i].rev
        /\ (Active(i) /\ SameRevision(r, i)) =>
              Content(req[r].seen[i]) = Content(rows[i])
        /\ rows[i].disp = "none" => ActiveItems = {}

\* t is s with f in the place of its k elements from p on, place by place.
IsSpliced(t, s, p, k, f) ==
    /\ Len(t) = Len(s) - k + Len(f)
    /\ \A m \in 1..Len(t) : t[m] = IF m < p THEN s[m]
                                  ELSE IF m < p + Len(f) THEN f[m - p + 1]
                                  ELSE s[m - Len(f) + k]

LEMMA Splice ==
  ASSUME NEW S, NEW s \in Seq(S), NEW f \in Seq(S), NEW p \in 1..Len(s), NEW k \in Nat,
         p + k - 1 <= Len(s)
  PROVE  Spliced(s, p, k, f) \in Seq(S) /\ IsSpliced(Spliced(s, p, k, f), s, p, k, f)
  <1> DEFINE a == SubSeq(s, 1, p - 1)
             b == SubSeq(s, p + k, Len(s))
             c == a \o f
             t == c \o b
  <1>1. Len(s) \in Nat /\ Len(f) \in Nat /\ \A n \in 1..Len(s) : s[n] \in S
    BY LenProperties, ElementOfSeq
  <1>2. /\ a \in Seq(S) /\ Len(a) = p - 1
        /\ \A n \in 1..(p - 1) : a[n] = s[n]
    <2>1. \A n \in 1..(p - 1) : s[n] \in S
      BY <1>1
    <2> QED
      BY <1>1, <2>1, SubSeqProperties
  <1>3. /\ b \in Seq(S) /\ Len(b) = Len(s) - (p + k) + 1
        /\ \A n \in 1..(Len(s) - (p + k) + 1) : b[n] = s[p + k + n - 1]
    <2>1. \A n \in (p + k)..Len(s) : s[n] \in S
      BY <1>1
    <2>2. p + k \in Int /\ Len(s) \in Int
      BY <1>1
    <2> QED
      BY <1>1, <2>1, <2>2, SubSeqProperties
  <1> HIDE DEF a, b
  <1>4. /\ c \in Seq(S) /\ Len(c) = p - 1 + Len(f)
        /\ \A n \in 1..(p - 1 + Len(f)) : c[n] = IF n <= p - 1 THEN a[n] ELSE f[n - (p - 1)]
    BY <1>1, <1>2, ConcatProperties
  <1> HIDE DEF c
  <1>5. /\ t \in Seq(S) /\ Len(t) = (p - 1 + Len(f)) + (Len(s) - (p + k) + 1)
        /\ \A n \in 1..Len(t) :
             t[n] = IF n <= p - 1 + Len(f) THEN c[n] ELSE b[n - (p - 1 + Len(f))]
    <2>1. \A s1, s2 \in Seq(S) :
            /\ s1 \o s2 \in Seq(S) /\ Len(s1 \o s2) = Len(s1) + Len(s2)
            /\ \A n \in 1..(Len(s1) + Len(s2)) :
                 (s1 \o s2)[n] = IF n <= Len(s1) THEN s1[n] ELSE s2[n - Len(s1)]
      BY ConcatProperties
    <2>2. /\ t \in Seq(S) /\ Len(t) = Len(c) + Len(b)
          /\ \A n \in 1..(Len(c) + Len(b)) :
               t[n] = IF n <= Len(c) THEN c[n] ELSE b[n - Len(c)]
      BY <1>3, <1>4, <2>1, Zenon
    <2> HIDE DEF t
    <2> QED
      BY <1>3, <1>4, <2>2
  <1> HIDE DEF t
  <1>6. Len(t) = Len(s) - k + Len(f)
    BY <1>1, <1>5
  <1>7. ASSUME NEW m \in 1..Len(t)
        PROVE  t[m] = IF m < p THEN s[m]
                      ELSE IF m < p + Len(f) THEN f[m - p + 1]
                      ELSE s[m - Len(f) + k]
    <2>1. CASE m < p
      BY <1>1, <1>2, <1>4, <1>5, <2>1
    <2>2. CASE p <= m /\ m < p + Len(f)
      BY <1>1, <1>4, <1>5, <2>2
    <2>3. CASE p + Len(f) <= m
      <3> DEFINE n == m - (p - 1 + Len(f))
      <3>1. t[m] = b[n]
        BY <1>1, <1>5, <2>3
      <3>2. n \in 1..(Len(s) - (p + k) + 1) /\ p + k + n - 1 = m - Len(f) + k
        BY <1>1, <1>6, <2>3
      <3> HIDE DEF n
      <3>3. b[n] = s[m - Len(f) + k]
        BY <1>3, <3>2
      <3> QED
        BY <1>1, <2>3, <3>1, <3>3
    <2> QED
      BY <1>1, <2>1, <2>2, <2>3
  <1>8. t = Spliced(s, p, k, f)
    BY DEF t, c, a, b, Spliced
  <1> QED
    BY <1>5, <1>6, <1>7, <1>8 DEF IsSpliced

Inv ==
    /\ TypeOK
    /\ FormsAreShaped
    /\ RequestHasKey
    /\ KeysCount
    /\ RevisionsArePositive
    /\ OrderIsActive
    /\ PagesArePast
    /\ PublishedStaysActive
    /\ PublishedReviewed
    /\ BatchCounts

-----------------------------------------------------------------------------
(***************************************************************************)
(* The initial state.                                                      *)
(***************************************************************************)
LEMMA Plains ==
  ASSUME NEW op \in AllOps, NEW items \in Seq(Items)
  PROVE  Plain(op, items) \in Form
  BY Text0Assumption DEF Plain, Form

LEMMA RowZero == Row0 \in Row /\ Nobody \in [Items -> Row]
  BY Text0Assumption DEF Row0, Nobody, Row, Answers

LEMMA IdleIsRequest == Idle \in Request
  <1>1. Plain("delete", <<>>) \in Form
    BY Plains, EmptySeq DEF AllOps
  <1> QED
    BY <1>1, RowZero, EmptySeq DEF Idle, Request

LEMMA InitTypes == Init => TypeOK
  <1> SUFFICES ASSUME Init PROVE TypeOK
    OBVIOUS
  <1>1. rows \in [Items -> Row]
    <2>1. PICK open \in [Items -> BOOLEAN] :
            rows = [i \in Items |->
                     IF i \in Blocks
                     THEN [disp |-> "active", rev |-> 1, text |-> Text0, blocks |-> {i},
                           answer |-> "missing", open |-> open[i]]
                     ELSE Row0]
      BY DEF Init
    <2> QED
      BY <2>1, RowZero, Text0Assumption DEF Row, Answers
  <1>2. order \in Seq(Items) /\ recorded \subseteq Keys /\ applied \in [Keys -> Nat]
    BY FirstOrderAssumption DEF Init
  <1>3. pub \in [Items -> Publication]
    <2>1. Unpublished \in Publication
      BY Text0Assumption, EmptySeq DEF Unpublished, Publication, Answers
    <2> QED
      BY <2>1 DEF Init
  <1>4. batch \in Batch
    BY FirstOrderAssumption, LenProperties DEF Init, Batch
  <1>5. req \in [Requests -> Request]
    BY IdleIsRequest DEF Init
  <1> QED
    BY <1>1, <1>2, <1>3, <1>4, <1>5 DEF TypeOK

\* A sequence without repetition has as many elements as places.
LEMMA InjectiveCardinality ==
  ASSUME NEW S, NEW s \in Seq(S), IsInjective(s)
  PROVE  IsFiniteSet(Range(s)) /\ Cardinality(Range(s)) = Len(s)
  <1>1. Len(s) \in Nat /\ DOMAIN s = 1..Len(s)
    BY LenProperties
  <1>2. s \in Bijection(1..Len(s), Range(s))
    BY <1>1 DEF Bijection, Injection, Surjection, Range, IsInjective
  <1>3. ExistsBijection(1..Len(s), Range(s))
    BY <1>2 DEF ExistsBijection
  <1> QED
    BY <1>1, <1>3, FS_NatBijection, FS_CountingElements, FS_CardinalityType

LEMMA InitInv == Init => Inv
  <1> SUFFICES ASSUME Init PROVE Inv
    OBVIOUS
  <1>1. TypeOK
    BY InitTypes
  <1>2. \A i \in Items : Active(i) <=> i \in Blocks
    BY DEF Init, Active, Row0
  <1>3. \A r \in Requests : At(r, "idle") /\ Asked(r) = Plain("delete", <<>>)
    BY DEF Init, At, Asked, Idle
  <1>4. FormsAreShaped
    BY <1>3 DEF FormsAreShaped, FormIsShaped, Plain, IsInjective, Asked
  <1>5. RequestHasKey /\ PagesArePast
    BY <1>3 DEF RequestHasKey, PagesArePast
  <1>6. KeysCount /\ PublishedReviewed
    BY DEF Init, KeysCount, PublishedReviewed, Unpublished
  <1>7. RevisionsArePositive
    BY DEF Init, RevisionsArePositive, Row0
  <1>8. ActiveItems = Blocks /\ PublishedItems = {}
    <2>1. Blocks \subseteq Items
      BY FirstOrderAssumption, ElementOfSeq, LenProperties DEF Blocks, Range
    <2>2. \A i \in Items : ~Published(i)
      BY DEF Init, Published, Unpublished
    <2> QED
      BY <1>2, <2>1, <2>2 DEF ActiveItems, PublishedItems
  <1>9. OrderIsActive
    BY <1>8, FirstOrderAssumption DEF Init, OrderIsActive, Blocks
  <1>10. PublishedStaysActive
    BY <1>8 DEF PublishedStaysActive, PublishedItems
  <1>11. BatchCounts
    <2>1. Cardinality(ActiveItems) = Len(FirstOrder)
      BY <1>8, FirstOrderAssumption, InjectiveCardinality DEF Blocks
    <2> QED
      BY <1>8, <2>1, FS_EmptySet DEF Init, BatchCounts
  <1> QED
    BY <1>1, <1>4, <1>5, <1>6, <1>7, <1>9, <1>10, <1>11 DEF Inv

-----------------------------------------------------------------------------
(***************************************************************************)
(* Values: forms, rows and what the operations make of them.               *)
(***************************************************************************)
LEMMA ListsAreSeqs ==
  ASSUME NEW S, NEW n \in Nat, NEW s \in Lists(n, S)
  PROVE  s \in Seq(S) /\ Len(s) = n /\ IsInjective(s) /\ Range(s) \subseteq S
  <1>1. s \in [1..n -> S] /\ IsInjective(s)
    BY DEF Lists
  <1>2. s \in Seq(S) /\ Len(s) = n
    BY <1>1, IsASeq
  <1> QED
    BY <1>1, <1>2 DEF Range

LEMMA NamedRange ==
  ASSUME NEW s \in Seq(Items)
  PROVE  Range(s) \subseteq Items
  BY ElementOfSeq, LenProperties DEF Range

LEMMA ActiveSeqs ==
  ASSUME NEW s \in Seq(ActiveItems)
  PROVE  s \in Seq(Items)
  <1>1. ActiveItems \subseteq Items
    BY DEF ActiveItems
  <1> QED
    BY <1>1, SeqMonotonic

LEMMA Shaped ==
  ASSUME NEW form \in Form, IsInjective(form.items),
         \/ form.op \in {"save", "attach", "split", "defer"} /\ Len(form.items) = 1
         \/ form.op \in {"merge", "assign"} /\ Len(form.items) = 2
         \/ form.op \in {"confirm", "reorder", "confirm_paper"} /\ Len(form.items) >= 1
         \/ form.op = "delete" /\ form.items = <<>>
  PROVE  FormIsShaped(form)
  BY DEF FormIsShaped

GoodForm(form) ==
    form \in Form /\ FormIsShaped(form) /\ Range(form.items) \subseteq ActiveItems

LEMMA FormsAreForms ==
  ASSUME TypeOK, OrderIsActive, order # <<>>
  PROVE  \A form \in Forms : GoodForm(form)
  <1>1. Len(order) \in Nat /\ Len(order) >= 1 /\ order \in Seq(Items)
    BY EmptySeq, LenProperties DEF TypeOK
  <1>2. \A n \in Nat : \A s \in Lists(n, ActiveItems) :
          s \in Seq(Items) /\ Len(s) = n /\ IsInjective(s) /\ Range(s) \subseteq ActiveItems
    BY ListsAreSeqs, ActiveSeqs
  <1>3. ASSUME NEW s \in Singles, NEW t \in Texts, NEW open \in BOOLEAN
        PROVE  GoodForm(SaveForm(s, t, open))
    <2> DEFINE form == SaveForm(s, t, open)
    <2>1. s \in Seq(Items) /\ Len(s) = 1 /\ IsInjective(s) /\ Range(s) \subseteq ActiveItems
      BY <1>2 DEF Singles
    <2>2. form \in Form
      BY <1>3, <2>1, Text0Assumption DEF Plain, Form, AllOps, SaveForm
    <2>3. form.op = "save" /\ form.items = s
      BY DEF Plain, SaveForm
    <2> HIDE DEF form
    <2>9. GoodForm(form)
      BY <1>3, <2>1, <2>2, <2>3, Shaped DEF GoodForm
    <2> QED
      BY <2>9 DEF form
  <1>4. ASSUME NEW s \in Selections, NEW reviewed \in BOOLEAN
        PROVE  GoodForm(ConfirmForm(s, reviewed))
    <2> DEFINE form == ConfirmForm(s, reviewed)
    <2>1. PICK n \in 1..Len(order) : s \in Lists(n, ActiveItems)
      BY DEF Selections
    <2>2. s \in Seq(Items) /\ Len(s) >= 1 /\ IsInjective(s) /\ Range(s) \subseteq ActiveItems
      BY <1>1, <1>2, <2>1
    <2>3. form \in Form
      BY <2>2, Text0Assumption DEF Plain, Form, AllOps, ConfirmForm
    <2>4. form.op = "confirm" /\ form.items = s
      BY DEF Plain, ConfirmForm
    <2> HIDE DEF form
    <2>9. GoodForm(form)
      BY <2>2, <2>3, <2>4, Shaped DEF GoodForm
    <2> QED
      BY <2>9 DEF form
  <1>5. ASSUME NEW s \in Pairs, NEW b \in Blocks, NEW kept \in BOOLEAN
        PROVE  GoodForm(AssignForm(s, b, kept))
    <2> DEFINE form == AssignForm(s, b, kept)
    <2>1. s \in Seq(Items) /\ Len(s) = 2 /\ IsInjective(s) /\ Range(s) \subseteq ActiveItems
      BY <1>2 DEF Pairs
    <2>2. form \in Form
      BY <1>5, <2>1, Text0Assumption DEF Plain, Form, AllOps, AssignForm
    <2>3. form.op = "assign" /\ form.items = s
      BY DEF Plain, AssignForm
    <2> HIDE DEF form
    <2>9. GoodForm(form)
      BY <1>5, <2>1, <2>2, <2>3, Shaped DEF GoodForm
    <2> QED
      BY <2>9 DEF form
  <1>6. ASSUME NEW op \in {"attach", "split", "defer"}, NEW s \in Singles
        PROVE  GoodForm(Plain(op, s))
    <2> DEFINE form == Plain(op, s)
    <2>1. s \in Seq(Items) /\ Len(s) = 1 /\ IsInjective(s) /\ Range(s) \subseteq ActiveItems
      BY <1>2 DEF Singles
    <2>2. form \in Form
      BY <1>6, <2>1, Text0Assumption DEF Plain, Form, AllOps
    <2>3. form.op = op /\ form.items = s
      BY DEF Plain
    <2> HIDE DEF form
    <2>9. GoodForm(form)
      BY <1>6, <2>1, <2>2, <2>3, Shaped DEF GoodForm
    <2> QED
      BY <2>9 DEF form
  <1>7. ASSUME NEW s \in Pairs
        PROVE  GoodForm(Plain("merge", s))
    <2> DEFINE form == Plain("merge", s)
    <2>1. s \in Seq(Items) /\ Len(s) = 2 /\ IsInjective(s) /\ Range(s) \subseteq ActiveItems
      BY <1>2 DEF Pairs
    <2>2. form \in Form
      BY <1>7, <2>1, Text0Assumption DEF Plain, Form, AllOps
    <2>3. form.op = "merge" /\ form.items = s
      BY DEF Plain
    <2> HIDE DEF form
    <2>9. GoodForm(form)
      BY <1>7, <2>1, <2>2, <2>3, Shaped DEF GoodForm
    <2> QED
      BY <2>9 DEF form
  <1>8. ASSUME NEW s \in Orders
        PROVE  GoodForm(Plain("reorder", s))
    <2> DEFINE form == Plain("reorder", s)
    <2>1. s \in Seq(Items) /\ Len(s) >= 1 /\ IsInjective(s) /\ Range(s) \subseteq ActiveItems
      BY <1>1, <1>2 DEF Orders
    <2>2. form \in Form
      BY <1>8, <2>1, Text0Assumption DEF Plain, Form, AllOps
    <2>3. form.op = "reorder" /\ form.items = s
      BY DEF Plain
    <2> HIDE DEF form
    <2>9. GoodForm(form)
      BY <1>8, <2>1, <2>2, <2>3, Shaped DEF GoodForm
    <2> QED
      BY <2>9 DEF form
  <1>9. GoodForm(Plain("confirm_paper", order))
    <2> DEFINE form == Plain("confirm_paper", order)
    <2>1. form \in Form
      BY <1>1, Text0Assumption DEF Plain, Form, AllOps
    <2>2. form.op = "confirm_paper" /\ form.items = order
      BY DEF Plain
    <2> HIDE DEF form
    <2>9. GoodForm(form)
      BY <1>1, <2>1, <2>2, Shaped DEF OrderIsActive, GoodForm
    <2> QED
      BY <2>9 DEF form
  <1>10. GoodForm(Plain("delete", <<>>))
    <2> DEFINE form == Plain("delete", <<>>)
    <2>1. IsInjective(<<>>) /\ Range(<<>>) = {} /\ <<>> \in Seq(Items)
      BY EmptySeq DEF IsInjective, Range
    <2>2. form \in Form
      BY <2>1, Text0Assumption DEF Plain, Form, AllOps
    <2>3. form.op = "delete" /\ form.items = <<>>
      BY DEF Plain
    <2> HIDE DEF form
    <2>9. GoodForm(form)
      BY <2>1, <2>2, <2>3, Shaped DEF GoodForm
    <2> QED
      BY <2>9 DEF form
  <1> QED
    BY <1>3, <1>4, <1>5, <1>6, <1>7, <1>8, <1>9, <1>10 DEF Forms

LEMMA RowFields ==
  ASSUME NEW row \in Row
  PROVE  /\ row.disp \in {"none", "active", "superseded", "deferred"} /\ row.rev \in Nat
         /\ row.text \in Texts /\ row.blocks \in SUBSET Blocks /\ row.answer \in Answers
         /\ row.open \in BOOLEAN
         /\ row = [disp |-> row.disp, rev |-> row.rev, text |-> row.text,
                   blocks |-> row.blocks, answer |-> row.answer, open |-> row.open]
  BY DEF Row

\* What the updates of a row make of it; the row stays a row.
LEMMA RowOps ==
  ASSUME NEW row \in Row, NEW b \in SUBSET Blocks
  PROVE  /\ Resolved(row) \in Row /\ Content(Resolved(row)) = Content(row)
         /\ Attached(row) \in Row /\ Respanned(row, b) \in Row
         /\ Superseded(row) \in Row /\ Deferred(row) \in Row /\ Half(row) \in Row
         /\ Attached(row).disp = row.disp /\ Attached(row).rev = row.rev + 1
         /\ Respanned(row, b).disp = row.disp /\ Respanned(row, b).rev = row.rev + 1
         /\ Superseded(row).disp = "superseded" /\ Superseded(row).rev = row.rev + 1
         /\ Deferred(row).disp = "deferred" /\ Deferred(row).rev = row.rev
         /\ Half(row).disp = row.disp /\ Half(row).rev = 1
  <1>1. Resolved(row) \in Row /\ Content(Resolved(row)) = Content(row)
    BY DEF Row, Resolved, Content
  <1> DEFINE n == row.rev + 1
  <1>2. n \in Nat
    BY RowFields
  <1>3. /\ Attached(row) = [row EXCEPT !.rev = n, !.answer = "needs_review", !.open = TRUE]
        /\ Respanned(row, b) = [row EXCEPT !.rev = n, !.blocks = b]
        /\ Superseded(row) = [row EXCEPT !.disp = "superseded", !.rev = n]
    BY DEF Attached, Respanned, Superseded
  <1>4. n = row.rev + 1
    OBVIOUS
  <1> HIDE DEF n
  <1>5. Attached(row) \in Row /\ Attached(row).disp = row.disp /\ Attached(row).rev = n
    BY <1>2, <1>3 DEF Row, Answers
  <1>6. /\ Respanned(row, b) \in Row
        /\ Respanned(row, b).disp = row.disp /\ Respanned(row, b).rev = n
    BY <1>2, <1>3 DEF Row
  <1>7. /\ Superseded(row) \in Row
        /\ Superseded(row).disp = "superseded" /\ Superseded(row).rev = n
    BY <1>2, <1>3 DEF Row
  <1>8. Deferred(row) \in Row /\ Deferred(row).disp = "deferred" /\ Deferred(row).rev = row.rev
    BY DEF Row, Deferred
  <1>9. Half(row) \in Row /\ Half(row).disp = row.disp /\ Half(row).rev = 1
    BY DEF Row, Half
  <1> QED
    BY <1>1, <1>4, <1>5, <1>6, <1>7, <1>8, <1>9

LEMMA SavedRow ==
  ASSUME TypeOK, NEW r \in Requests, NEW row \in Row, Target(r) \in Items
  PROVE  Saved(row, r) \in Row /\ Saved(row, r).disp = row.disp
         /\ Saved(row, r).rev = row.rev + 1
  <1> DEFINE page == req[r].seen[Target(r)]
             n == row.rev + 1
  <1>1. page \in Row /\ Asked(r).text \in Texts /\ Asked(r).open \in BOOLEAN
    BY DEF TypeOK, Request, Form, Asked
  <1>2. n \in Nat /\ page.blocks \in SUBSET Blocks /\ page.answer \in Answers
    BY <1>1, RowFields
  <1>3. Saved(row, r) = [row EXCEPT !.rev = n, !.text = Asked(r).text,
                                    !.open = Asked(r).open, !.blocks = page.blocks,
                                    !.answer = page.answer]
    BY DEF Saved
  <1>4. n = row.rev + 1
    OBVIOUS
  <1> HIDE DEF n, page
  <1>5. Saved(row, r) \in Row /\ Saved(row, r).disp = row.disp /\ Saved(row, r).rev = n
    BY <1>1, <1>2, <1>3 DEF Row
  <1> QED
    BY <1>4, <1>5

LEMMA MergedRow ==
  ASSUME TypeOK, NEW r \in Requests, Target(r) \in Items, Named(r) \subseteq Items
  PROVE  Merged(r) \in Row /\ Merged(r).disp = "active" /\ Merged(r).rev = 1
  <1> DEFINE B == UNION {rows[i].blocks : i \in Named(r)}
             A == IF \A i \in Named(r) : rows[i].answer = "missing"
                  THEN "missing" ELSE "needs_review"
  <1>1. \A i \in Items : rows[i] \in Row
    BY DEF TypeOK
  <1>2. B \in SUBSET Blocks
    BY <1>1 DEF Row
  <1>3. A \in Answers /\ rows[Target(r)].text \in Texts
    BY <1>1 DEF Row, Answers
  <1>4. Merged(r) = [disp |-> "active", rev |-> 1, text |-> rows[Target(r)].text,
                     blocks |-> B, answer |-> A, open |-> TRUE]
    BY DEF Merged
  <1> HIDE DEF A, B
  <1> QED
    BY <1>2, <1>3, <1>4 DEF Row
-----------------------------------------------------------------------------
(***************************************************************************)
(* What every transaction does to the requests, the keys and the rows.     *)
(***************************************************************************)
SameRequests == \A q \in Requests :
    /\ Asked(q)' = Asked(q) /\ req'[q].seen = req[q].seen
    /\ req'[q].shown = req[q].shown /\ req'[q].key = req[q].key
    /\ At(q, "idle")' <=> At(q, "idle")

\* A row stays; or its issues are resolved; or the request replaces the content its
\* page showed, raising the revision or taking the row out; or an unused id is used.
Moves(r) == \A i \in Items :
    \/ rows'[i] = rows[i]
    \/ Active(i) /\ Content(rows'[i]) = Content(rows[i])
    \/ /\ Active(i) /\ i \in Named(r) /\ Content(req[r].seen[i]) = Content(rows[i])
       /\ rows'[i].disp # "none" /\ rows'[i].rev >= rows[i].rev
       /\ rows'[i].disp = "active" => rows'[i].rev > rows[i].rev
    \/ /\ rows[i].disp = "none" /\ rows'[i].disp = "active" /\ rows'[i].rev = 1
       /\ ActiveItems # {}

LEMMA MoveKeeps ==
  ASSUME TypeOK, NEW r \in Requests, NEW pc \in {"checked", "done"}, ~At(r, "idle"),
         Move(r, pc)
  PROVE  req' \in [Requests -> Request] /\ SameRequests
  <1>1. \A q \in Requests : req[q] \in Request
    BY DEF TypeOK
  <1>2. req' = [req EXCEPT ![r] = [req[r] EXCEPT !.pc = pc]]
    BY DEF Move
  <1>3. [req[r] EXCEPT !.pc = pc] \in Request
    BY <1>1 DEF Request
  <1>4. req' \in [Requests -> Request]
    BY <1>2, <1>3 DEF TypeOK
  <1>5. \A q \in Requests : q # r => req'[q] = req[q]
    BY <1>2 DEF TypeOK
  <1>6. req'[r] = [req[r] EXCEPT !.pc = pc]
    BY <1>2 DEF TypeOK
  <1>7. /\ req'[r].form = req[r].form /\ req'[r].seen = req[r].seen
        /\ req'[r].shown = req[r].shown /\ req'[r].key = req[r].key /\ req'[r].pc = pc
    BY <1>1, <1>6 DEF Request
  <1> QED
    BY <1>4, <1>5, <1>7 DEF SameRequests, Asked, At

LEMMA ReadyIsNotIdle ==
  ASSUME NEW r \in Requests, Ready(r)
  PROVE  ~At(r, "idle") /\ ~At(r, "done")
  BY DEF Ready, At

\* A request whose requirements were read names items and keeps its shape.
LEMMA Naming ==
  ASSUME Inv, NEW r \in Requests, Asked(r).op # "delete"
  PROVE  /\ Asked(r) \in Form /\ Asked(r).items \in Seq(Items)
         /\ Len(Asked(r).items) \in Nat /\ Len(Asked(r).items) >= 1
         /\ DOMAIN Asked(r).items = 1..Len(Asked(r).items)
         /\ IsInjective(Asked(r).items)
         /\ Target(r) \in Named(r) /\ Named(r) \subseteq Items /\ Target(r) \in Items
  <1>1. Asked(r) \in Form /\ Asked(r).items \in Seq(Items)
    BY DEF Inv, TypeOK, Request, Form, Asked
  <1>2. IsInjective(Asked(r).items) /\ Len(Asked(r).items) >= 1
    BY DEF Inv, FormsAreShaped, FormIsShaped
  <1>3. /\ Len(Asked(r).items) \in Nat
        /\ DOMAIN Asked(r).items = 1..Len(Asked(r).items)
    BY <1>1, LenProperties
  <1>4. Named(r) \subseteq Items
    BY <1>1, NamedRange DEF Named
  <1>5. Target(r) \in Named(r)
    BY <1>2, <1>3 DEF Target, Named, Range
  <1> QED
    BY <1>1, <1>2, <1>3, <1>4, <1>5

LEMMA NamesOne ==
  ASSUME Inv, NEW r \in Requests, Asked(r).op \in {"save", "attach", "split", "defer"}
  PROVE  Named(r) = {Target(r)} /\ Len(Asked(r).items) = 1
  <1>1. Len(Asked(r).items) = 1
    BY DEF Inv, FormsAreShaped, FormIsShaped
  <1>2. DOMAIN Asked(r).items = 1..1
    BY <1>1, Naming
  <1> QED
    BY <1>1, <1>2 DEF Named, Target, Range

\* A page whose revision is current shows the row as it is.
LEMMA PageIsCurrent ==
  ASSUME Inv, NEW r \in Requests, ~At(r, "idle"), NEW i \in Named(r), Active(i),
         SameRevision(r, i)
  PROVE  Content(req[r].seen[i]) = Content(rows[i])
  BY DEF Inv, PagesArePast

LEMMA RecordKeeps ==
  ASSUME Inv, NEW r \in Requests, Ready(r), KeyFree(r), Record(r)
  PROVE  /\ req' \in [Requests -> Request] /\ SameRequests
         /\ recorded' \subseteq Keys /\ applied' \in [Keys -> Nat] /\ KeysCount'
         /\ FormsAreShaped' /\ RequestHasKey'
  <1>1. ~At(r, "idle") /\ req[r].key \in Keys
    BY ReadyIsNotIdle DEF Inv, RequestHasKey
  <1>2. Move(r, "done")
    BY DEF Record
  <1>3. req' \in [Requests -> Request] /\ SameRequests
    BY <1>1, <1>2, MoveKeeps DEF Inv
  <1>4. recorded' \subseteq Keys /\ applied' \in [Keys -> Nat] /\ KeysCount'
    <2>1. recorded' = recorded \cup {req[r].key}
      BY DEF Record
    <2>2. applied' = [applied EXCEPT ![req[r].key] = applied[req[r].key] + 1]
      BY DEF Record
    <2>3. applied \in [Keys -> Nat] /\ recorded \subseteq Keys
      BY DEF Inv, TypeOK
    <2>4. applied[req[r].key] = 0
      BY <1>1 DEF Inv, KeysCount, KeyFree
    <2>5. applied' = [applied EXCEPT ![req[r].key] = 1]
      BY <2>2, <2>4
    <2>6. applied'[req[r].key] = 1 /\ \A k \in Keys : k # req[r].key => applied'[k] = applied[k]
      BY <1>1, <2>3, <2>5
    <2>7. KeysCount'
      BY <1>1, <2>1, <2>6 DEF Inv, KeysCount
    <2> QED
      BY <1>1, <2>1, <2>3, <2>5, <2>7
  <1>5. FormsAreShaped' /\ RequestHasKey'
    BY <1>3 DEF Inv, FormsAreShaped, RequestHasKey, SameRequests
  <1> QED
    BY <1>3, <1>4, <1>5

LEMMA ContentFields ==
  ASSUME NEW row, NEW old, Content(row) = Content(old)
  PROVE  /\ row.disp = old.disp /\ row.rev = old.rev /\ row.text = old.text
         /\ row.answer = old.answer
  BY DEF Content

LEMMA MovesKeepPages ==
  ASSUME Inv, NEW r \in Requests, SameRequests, Moves(r), rows' \in [Items -> Row]
  PROVE  PagesArePast' /\ RevisionsArePositive'
  <1>1. \A i \in Items : rows[i].rev \in Nat /\ rows'[i].rev \in Nat
    BY RowFields DEF Inv, TypeOK
  <1>2. RevisionsArePositive'
    <2> SUFFICES ASSUME NEW i \in Items, rows'[i].disp # "none" PROVE rows'[i].rev >= 1
      BY DEF RevisionsArePositive
    <2>1. CASE rows'[i] = rows[i]
      BY <2>1 DEF Inv, RevisionsArePositive
    <2>2. CASE Active(i) /\ Content(rows'[i]) = Content(rows[i])
      BY <2>2, ContentFields DEF Inv, RevisionsArePositive, Active
    <2>3. CASE Active(i) /\ rows'[i].rev >= rows[i].rev
      BY <1>1, <2>3 DEF Inv, RevisionsArePositive, Active
    <2>4. CASE rows'[i].rev = 1
      BY <2>4
    <2> QED
      BY <2>1, <2>2, <2>3, <2>4 DEF Moves
  <1>3. ASSUME NEW q \in Requests, ~At(q, "idle")', NEW i \in Named(q)'
        PROVE  /\ req'[q].seen[i].disp = "active"
               /\ Active(i)' => req'[q].seen[i].rev <= rows'[i].rev
               /\ (Active(i) /\ SameRevision(q, i))' =>
                     Content(req'[q].seen[i]) = Content(rows'[i])
               /\ rows'[i].disp = "none" => ActiveItems' = {}
    <2>1. ~At(q, "idle") /\ req'[q].seen = req[q].seen /\ Named(q)' = Named(q) /\ Asked(q)' = Asked(q)
      BY <1>3 DEF SameRequests, Named
    <2>2. i \in Named(q) /\ i \in Items
      BY <1>3, <2>1, NamedRange DEF Inv, TypeOK, Request, Form, Named, Asked
    <2>3. /\ req[q].seen[i].disp = "active"
          /\ Active(i) => req[q].seen[i].rev <= rows[i].rev
          /\ (Active(i) /\ SameRevision(q, i)) => Content(req[q].seen[i]) = Content(rows[i])
          /\ rows[i].disp = "none" => ActiveItems = {}
      BY <2>1, <2>2 DEF Inv, PagesArePast
    <2>4. req[q].seen[i].rev \in Nat
      BY <2>2, RowFields DEF Inv, TypeOK, Request
    <2>5. ActiveItems = {} => ActiveItems' = {}
      <3> SUFFICES ASSUME ActiveItems = {}, NEW j \in Items, Active(j)' PROVE FALSE
        BY DEF ActiveItems
      <3>1. ~Active(j)
        BY DEF ActiveItems
      <3>2. rows'[j] = rows[j]
        BY <3>1 DEF Moves
      <3> QED
        BY <3>1, <3>2 DEF Active
    <2>6. CASE Content(rows'[i]) = Content(rows[i])
      <3>1. rows'[i].disp = rows[i].disp /\ rows'[i].rev = rows[i].rev
        BY <2>6, ContentFields
      <3> QED
        BY <2>1, <2>3, <2>5, <2>6, <3>1 DEF Active, SameRevision
    <2>7. CASE /\ Active(i) /\ rows'[i].disp # "none" /\ rows'[i].rev >= rows[i].rev
               /\ rows'[i].disp = "active" => rows'[i].rev > rows[i].rev
      BY <1>1, <2>1, <2>2, <2>3, <2>4, <2>7 DEF Active, SameRevision
    <2> QED
      BY <2>2, <2>3, <2>6, <2>7 DEF Moves
  <1>4. PagesArePast'
    BY <1>3 DEF PagesArePast
  <1> QED
    BY <1>2, <1>4
-----------------------------------------------------------------------------
(***************************************************************************)
(* Clients and checks.                                                     *)
(***************************************************************************)
LEMMA PageIsPage ==
  ASSUME TypeOK, NEW items \in Seq(Items)
  PROVE  /\ Page(items) \in [Items -> Row]
         /\ \A i \in Range(items) : Page(items)[i] = rows[i]
  <1>1. \A i \in Items : rows[i] \in Row
    BY DEF TypeOK
  <1>2. Range(items) \subseteq Items
    BY NamedRange
  <1> QED
    BY <1>1, <1>2, RowZero DEF Page

\* A step that only touches requests keeps what the tables say.
LEMMA RequestsOnly ==
  ASSUME Inv, req' \in [Requests -> Request],
         UNCHANGED <<rows, order, pub, reviews, recorded, batch, applied>>,
         FormsAreShaped', RequestHasKey', PagesArePast'
  PROVE  Inv'
  <1>1. TypeOK'
    BY DEF Inv, TypeOK
  <1>2. KeysCount' /\ RevisionsArePositive'
    BY DEF Inv, KeysCount, RevisionsArePositive
  <1>3. (\A i \in Items : (Active(i)' <=> Active(i)) /\ (Published(i)' <=> Published(i)))
        /\ ActiveItems' = ActiveItems /\ PublishedItems' = PublishedItems
    BY DEF Active, Published, ActiveItems, PublishedItems
  <1>4. OrderIsActive' /\ PublishedStaysActive' /\ PublishedReviewed' /\ BatchCounts'
    BY <1>3 DEF Inv, OrderIsActive, PublishedStaysActive, PublishedReviewed, BatchCounts
  <1> QED
    BY <1>1, <1>2, <1>4 DEF Inv

\* One request takes a new value; the others keep theirs.
LEMMA OneRequest ==
  ASSUME Inv, NEW r \in Requests, NEW new \in Request, new.pc # "idle",
         req' = [req EXCEPT ![r] = new],
         UNCHANGED <<rows, order, pub, reviews, recorded, batch, applied>>,
         FormIsShaped(new.form), new.key \in Keys,
         new.form.op = "reorder" => Len(new.form.items) = Len(new.shown),
         \A i \in Range(new.form.items) :
            /\ new.seen[i].disp = "active"
            /\ Active(i) => new.seen[i].rev <= rows[i].rev
            /\ (Active(i) /\ rows[i].rev = new.seen[i].rev) => Content(new.seen[i]) = Content(rows[i])
            /\ rows[i].disp = "none" => ActiveItems = {}
  PROVE  Inv'
  <1>1. req'[r] = new /\ \A q \in Requests : q # r => req'[q] = req[q]
    BY DEF Inv, TypeOK
  <1>2. req' \in [Requests -> Request]
    BY DEF Inv, TypeOK
  <1>3. ActiveItems' = ActiveItems /\ \A i \in Items : Active(i)' <=> Active(i)
    BY DEF ActiveItems, Active
  <1>4. FormsAreShaped'
    BY <1>1 DEF Inv, FormsAreShaped, Asked
  <1>5. RequestHasKey'
    BY <1>1 DEF Inv, RequestHasKey, At
  <1>6. PagesArePast'
    <2> SUFFICES ASSUME NEW q \in Requests, ~At(q, "idle")', NEW i \in Named(q)'
                 PROVE  /\ req'[q].seen[i].disp = "active"
                        /\ Active(i)' => req'[q].seen[i].rev <= rows'[i].rev
                        /\ (Active(i) /\ SameRevision(q, i))' =>
                              Content(req'[q].seen[i]) = Content(rows'[i])
                        /\ rows'[i].disp = "none" => ActiveItems' = {}
      BY DEF PagesArePast
    <2>1. CASE q = r
      BY <1>1, <1>3, <2>1 DEF Named, Asked, Active, SameRevision
    <2>2. CASE q # r
      <3>1. ~At(q, "idle") /\ i \in Named(q) /\ req'[q] = req[q]
        BY <1>1, <2>2 DEF At, Named, Asked
      <3> QED
        BY <1>3, <3>1 DEF Inv, PagesArePast, Active, SameRevision
    <2> QED
      BY <2>1, <2>2
  <1> QED
    BY <1>2, <1>4, <1>5, <1>6, RequestsOnly

LEMMA SendKeeps ==
  ASSUME Inv, NEW r \in Requests, NEW key \in FreeKeys, NEW form \in Forms, Send(r, key, form)
  PROVE  Inv'
  <1> DEFINE new == [pc |-> "sent", key |-> key, form |-> form,
                     seen |-> Page(form.items), shown |-> order]
  <1>1. /\ order # <<>> /\ req' = [req EXCEPT ![r] = new]
        /\ UNCHANGED <<rows, order, pub, reviews, recorded, batch, applied>>
    BY DEF Send
  <1>2. GoodForm(form)
    BY <1>1, FormsAreForms DEF Inv
  <1>3. form \in Form /\ form.items \in Seq(Items) /\ FormIsShaped(form)
        /\ Range(form.items) \subseteq ActiveItems
    BY <1>2 DEF GoodForm, Form
  <1>4. key \in Keys /\ order \in Seq(Items)
    BY DEF FreeKeys, Inv, TypeOK
  <1>5. /\ Page(form.items) \in [Items -> Row]
        /\ \A i \in Range(form.items) : Page(form.items)[i] = rows[i]
    BY <1>3, PageIsPage DEF Inv
  <1>6. new \in Request
    BY <1>3, <1>4, <1>5 DEF Request
  <1>7. /\ new.pc # "idle" /\ new.form = form /\ new.key = key /\ new.shown = order
        /\ new.seen = Page(form.items)
    OBVIOUS
  <1>8. form.op = "reorder" => Len(form.items) = Len(order)
    <2> SUFFICES ASSUME form.op = "reorder" PROVE Len(form.items) = Len(order)
      OBVIOUS
    <2>1. /\ \A s \in Singles, t \in Texts, open \in BOOLEAN : SaveForm(s, t, open).op = "save"
          /\ \A s \in Selections, b \in BOOLEAN : ConfirmForm(s, b).op = "confirm"
          /\ \A s \in Pairs, b \in Blocks, k \in BOOLEAN : AssignForm(s, b, k).op = "assign"
      BY DEF SaveForm, ConfirmForm, AssignForm, Plain
    <2>2. \A op, s : Plain(op, s).op = op /\ Plain(op, s).items = s
      BY DEF Plain
    <2>3. PICK s \in Orders : form = Plain("reorder", s)
      BY <2>1, <2>2 DEF Forms
    <2>4. Len(order) \in Nat
      BY <1>4, LenProperties
    <2> QED
      BY <2>2, <2>3, <2>4, ListsAreSeqs DEF Orders
  <1>9. \A i \in Range(form.items) :
            /\ rows[i].disp = "active" /\ i \in Items
            /\ Page(form.items)[i] = rows[i] /\ rows[i].rev \in Nat
    BY <1>3, <1>5, RowFields DEF ActiveItems, Active, Inv, TypeOK
  <1> HIDE DEF new
  <1>10. \A i \in Range(new.form.items) :
            /\ new.seen[i].disp = "active"
            /\ Active(i) => new.seen[i].rev <= rows[i].rev
            /\ (Active(i) /\ rows[i].rev = new.seen[i].rev) => Content(new.seen[i]) = Content(rows[i])
            /\ rows[i].disp = "none" => ActiveItems = {}
    BY <1>7, <1>9
  <1> QED
    BY <1>1, <1>3, <1>4, <1>6, <1>7, <1>8, <1>10, OneRequest

LEMMA ResendKeeps ==
  ASSUME Inv, NEW r \in Requests, NEW q \in Requests, Resend(r, q)
  PROVE  Inv'
  <1> DEFINE new == Again(req[q])
  <1>1. ~At(q, "idle") /\ req' = [req EXCEPT ![r] = new]
        /\ UNCHANGED <<rows, order, pub, reviews, recorded, batch, applied>>
    BY DEF Resend
  <1>2. req[q] \in Request
    BY DEF Inv, TypeOK
  <1>3. /\ new \in Request /\ new.pc = "sent" /\ new.form = Asked(q)
        /\ new.key = req[q].key /\ new.shown = req[q].shown /\ new.seen = req[q].seen
    BY <1>2 DEF Again, Request, Asked
  <1> HIDE DEF new
  <1>4. /\ FormIsShaped(new.form) /\ new.key \in Keys
        /\ new.form.op = "reorder" => Len(new.form.items) = Len(new.shown)
    BY <1>1, <1>3 DEF Inv, FormsAreShaped, RequestHasKey
  <1>5. \A i \in Range(new.form.items) :
            /\ new.seen[i].disp = "active"
            /\ Active(i) => new.seen[i].rev <= rows[i].rev
            /\ (Active(i) /\ rows[i].rev = new.seen[i].rev) => Content(new.seen[i]) = Content(rows[i])
            /\ rows[i].disp = "none" => ActiveItems = {}
    BY <1>1, <1>3 DEF Inv, PagesArePast, Named, SameRevision
  <1> QED
    BY <1>1, <1>3, <1>4, <1>5, OneRequest

LEMMA ForgetKeeps ==
  ASSUME Inv, NEW r \in Requests, Forget(r)
  PROVE  Inv'
  <1> DEFINE last == {k \in Keys : k = req[r].key
                        /\ \A q \in Requests \ {r} : At(q, "idle") \/ req[q].key # k}
  <1>1. /\ req' = [req EXCEPT ![r] = Idle] /\ recorded' = recorded \ last
        /\ applied' = [k \in Keys |-> IF k \in last THEN 0 ELSE applied[k]]
        /\ UNCHANGED <<rows, order, pub, reviews, batch>>
    BY DEF Forget
  <1> HIDE DEF last
  <1>2. req'[r] = Idle /\ \A q \in Requests : q # r => req'[q] = req[q]
    BY <1>1 DEF Inv, TypeOK
  <1>3. req' \in [Requests -> Request]
    BY <1>1, IdleIsRequest DEF Inv, TypeOK
  <1>4. TypeOK'
    BY <1>1, <1>3 DEF Inv, TypeOK
  <1>5. KeysCount' /\ RevisionsArePositive'
    BY <1>1 DEF Inv, KeysCount, RevisionsArePositive
  <1>6. /\ \A i \in Items : (Active(i)' <=> Active(i)) /\ (Published(i)' <=> Published(i))
        /\ ActiveItems' = ActiveItems /\ PublishedItems' = PublishedItems
    BY <1>1 DEF Active, Published, ActiveItems, PublishedItems
  <1>7. OrderIsActive' /\ PublishedStaysActive' /\ PublishedReviewed' /\ BatchCounts'
    BY <1>1, <1>6 DEF Inv, OrderIsActive, PublishedStaysActive, PublishedReviewed, BatchCounts
  <1>8. /\ Idle.pc = "idle" /\ Idle.form = Plain("delete", <<>>)
    BY DEF Idle
  <1>9. FormIsShaped(Plain("delete", <<>>)) /\ Plain("delete", <<>>).op = "delete"
    BY DEF Plain, FormIsShaped, IsInjective
  <1>10. FormsAreShaped'
    BY <1>2, <1>8, <1>9 DEF Inv, FormsAreShaped, Asked
  <1>11. RequestHasKey'
    BY <1>2, <1>8 DEF Inv, RequestHasKey, At
  <1>12. PagesArePast'
    <2> SUFFICES ASSUME NEW q \in Requests, ~At(q, "idle")', NEW i \in Named(q)'
                 PROVE  /\ req'[q].seen[i].disp = "active"
                        /\ Active(i)' => req'[q].seen[i].rev <= rows'[i].rev
                        /\ (Active(i) /\ SameRevision(q, i))' =>
                              Content(req'[q].seen[i]) = Content(rows'[i])
                        /\ rows'[i].disp = "none" => ActiveItems' = {}
      BY DEF PagesArePast
    <2>1. q # r
      BY <1>2, <1>8 DEF At
    <2>2. ~At(q, "idle") /\ i \in Named(q) /\ req'[q] = req[q]
      BY <1>2, <2>1 DEF At, Named, Asked
    <2> QED
      BY <1>1, <1>6, <2>2 DEF Inv, PagesArePast, Active, SameRevision
  <1> QED
    BY <1>4, <1>5, <1>7, <1>10, <1>11, <1>12 DEF Inv

LEMMA MoveOnlyKeeps ==
  ASSUME Inv, NEW r \in Requests, NEW pc \in {"checked", "done"}, ~At(r, "idle"), Move(r, pc),
         UNCHANGED <<rows, order, pub, reviews, recorded, batch, applied>>
  PROVE  Inv'
  <1>1. req' \in [Requests -> Request] /\ SameRequests
    BY MoveKeeps DEF Inv
  <1>2. FormsAreShaped' /\ RequestHasKey'
    BY <1>1 DEF Inv, FormsAreShaped, RequestHasKey, SameRequests
  <1>3. Moves(r)
    BY DEF Moves
  <1>4. rows' \in [Items -> Row]
    BY DEF Inv, TypeOK
  <1>5. PagesArePast'
    BY <1>1, <1>3, <1>4, MovesKeepPages
  <1> QED
    BY <1>1, <1>2, <1>5, RequestsOnly

LEMMA CheckKeeps ==
  ASSUME Inv, NEW r \in Requests, Check(r) \/ Rollback(r)
  PROVE  Inv'
  <1>1. CASE Check(r)
    <2>1. ~At(r, "idle")
      BY <1>1 DEF Check, At
    <2>2. PICK pc \in {"checked", "done"} : Move(r, pc)
      BY <1>1 DEF Check
    <2> QED
      BY <1>1, <2>1, <2>2, MoveOnlyKeeps DEF Check
  <1>2. CASE Rollback(r)
    <2>1. ~At(r, "idle") /\ Move(r, "done")
      BY <1>2, ReadyIsNotIdle DEF Rollback
    <2> QED
      BY <1>2, <2>1, MoveOnlyKeeps DEF Rollback
  <1> QED
    BY <1>1, <1>2

-----------------------------------------------------------------------------
(***************************************************************************)
(* Edits of the content of candidates.                                     *)
(***************************************************************************)
\* What an edit does: it replaces the content of rows its page showed, and nothing else.
Edited(r) == \A i \in Items :
    \/ rows'[i] = rows[i]
    \/ /\ i \in Named(r) /\ Active(i) /\ SameRevision(r, i)
       /\ rows'[i].disp = rows[i].disp /\ rows'[i].rev = rows[i].rev + 1

LEMMA EditedMoves ==
  ASSUME Inv, NEW r \in Requests, ~At(r, "idle"), Edited(r)
  PROVE  Moves(r)
  <1> SUFFICES ASSUME NEW i \in Items, i \in Named(r), Active(i), SameRevision(r, i),
                      rows'[i].disp = rows[i].disp, rows'[i].rev = rows[i].rev + 1
               PROVE  /\ Active(i) /\ i \in Named(r)
                      /\ Content(req[r].seen[i]) = Content(rows[i])
                      /\ rows'[i].disp # "none" /\ rows'[i].rev >= rows[i].rev
                      /\ rows'[i].disp = "active" => rows'[i].rev > rows[i].rev
    BY DEF Edited, Moves
  <1>1. Content(req[r].seen[i]) = Content(rows[i])
    BY PageIsCurrent
  <1>2. rows[i].rev \in Nat
    BY RowFields DEF Inv, TypeOK
  <1> QED
    BY <1>1, <1>2 DEF Active

LEMMA EditKeeps ==
  ASSUME Inv, NEW r \in Requests, Ready(r), KeyFree(r), Record(r),
         UNCHANGED <<order, pub, reviews, batch>>,
         rows' \in [Items -> Row], Edited(r)
  PROVE  Inv'
  <1>1. /\ req' \in [Requests -> Request] /\ SameRequests
        /\ recorded' \subseteq Keys /\ applied' \in [Keys -> Nat] /\ KeysCount'
        /\ FormsAreShaped' /\ RequestHasKey'
    BY RecordKeeps
  <1>2. PagesArePast' /\ RevisionsArePositive'
    BY <1>1, ReadyIsNotIdle, EditedMoves, MovesKeepPages
  <1>3. TypeOK'
    BY <1>1 DEF Inv, TypeOK
  <1>4. /\ \A i \in Items : (Active(i)' <=> Active(i)) /\ (Published(i)' <=> Published(i))
        /\ ActiveItems' = ActiveItems /\ PublishedItems' = PublishedItems
    BY DEF Edited, Active, Published, ActiveItems, PublishedItems
  <1>5. OrderIsActive' /\ PublishedStaysActive' /\ PublishedReviewed' /\ BatchCounts'
    BY <1>4 DEF Inv, OrderIsActive, PublishedStaysActive, PublishedReviewed, BatchCounts
  <1> QED
    BY <1>1, <1>2, <1>3, <1>5 DEF Inv

LEMMA SaveKeeps ==
  ASSUME Inv, NEW r \in Requests, SaveCandidate(r)
  PROVE  rows' \in [Items -> Row] /\ Edited(r) /\ Inv'
  <1>1. /\ Asked(r).op = "save" /\ Ready(r) /\ KeyFree(r) /\ Current(r) /\ Record(r)
        /\ rows' = [rows EXCEPT ![Target(r)] = Saved(rows[Target(r)], r)]
        /\ UNCHANGED <<order, pub, reviews, batch>>
    BY DEF SaveCandidate, MaySave
  <1>2. Target(r) \in Items /\ Target(r) \in Named(r)
    BY <1>1, Naming
  <1>3. rows \in [Items -> Row] /\ rows[Target(r)] \in Row
    BY <1>2 DEF Inv, TypeOK
  <1> DEFINE new == Saved(rows[Target(r)], r)
  <1>4. new \in Row /\ new.disp = rows[Target(r)].disp /\ new.rev = rows[Target(r)].rev + 1
    BY <1>2, <1>3, SavedRow DEF Inv
  <1>5. rows' = [rows EXCEPT ![Target(r)] = new]
    BY <1>1
  <1> HIDE DEF new
  <1>6. rows' \in [Items -> Row] /\ Edited(r)
    BY <1>1, <1>2, <1>3, <1>4, <1>5 DEF Edited, Current
  <1> QED
    BY <1>1, <1>6, EditKeeps

LEMMA AttachKeeps ==
  ASSUME Inv, NEW r \in Requests, AttachAnswers(r)
  PROVE  rows' \in [Items -> Row] /\ Edited(r) /\ Inv'
  <1>1. /\ Asked(r).op = "attach" /\ Ready(r) /\ KeyFree(r) /\ Current(r) /\ Record(r)
        /\ rows' = [rows EXCEPT ![Target(r)] = Attached(rows[Target(r)])]
        /\ UNCHANGED <<order, pub, reviews, batch>>
    BY DEF AttachAnswers, MayAttach
  <1>2. Target(r) \in Items /\ Target(r) \in Named(r)
    BY <1>1, Naming
  <1>3. rows \in [Items -> Row] /\ rows[Target(r)] \in Row
    BY <1>2 DEF Inv, TypeOK
  <1> DEFINE new == Attached(rows[Target(r)])
  <1>4. new \in Row /\ new.disp = rows[Target(r)].disp /\ new.rev = rows[Target(r)].rev + 1
    BY <1>3, RowOps
  <1>5. rows' = [rows EXCEPT ![Target(r)] = new]
    BY <1>1
  <1> HIDE DEF new
  <1>6. rows' \in [Items -> Row] /\ Edited(r)
    BY <1>1, <1>2, <1>3, <1>4, <1>5 DEF Edited, Current
  <1> QED
    BY <1>1, <1>6, EditKeeps

LEMMA AssignKeeps ==
  ASSUME Inv, NEW r \in Requests, AssignSourceSpans(r)
  PROVE  rows' \in [Items -> Row] /\ Edited(r) /\ Inv'
  <1>1. /\ Asked(r).op = "assign" /\ Ready(r) /\ KeyFree(r) /\ Current(r) /\ Record(r)
        /\ rows' = [i \in Items |-> IF i \in Named(r)
                                    THEN Respanned(rows[i], Reassigned(r)[i]) ELSE rows[i]]
        /\ UNCHANGED <<order, pub, reviews, batch>>
    BY DEF AssignSourceSpans, MayAssign
  <1>2. Asked(r) \in Form /\ Named(r) \subseteq Items /\ Target(r) \in Items
    BY <1>1, Naming
  <1>3. Asked(r).taken \in SUBSET Blocks /\ Asked(r).given \in SUBSET Blocks
    BY <1>2 DEF Form
  <1>4. \A i \in Items : rows[i].blocks \in SUBSET Blocks /\ req[r].seen[i].blocks \in SUBSET Blocks
    BY RowFields DEF Inv, TypeOK, Request
  <1>5. \A i \in Items : Reassigned(r)[i] \in SUBSET Blocks
    BY <1>3, <1>4 DEF Reassigned
  <1>6. \A i \in Items : /\ Respanned(rows[i], Reassigned(r)[i]) \in Row
                         /\ Respanned(rows[i], Reassigned(r)[i]).disp = rows[i].disp
                         /\ Respanned(rows[i], Reassigned(r)[i]).rev = rows[i].rev + 1
    BY <1>5, RowOps DEF Inv, TypeOK
  <1>7. rows' \in [Items -> Row]
    BY <1>1, <1>6 DEF Inv, TypeOK
  <1>8. Edited(r)
    BY <1>1, <1>2, <1>6 DEF Edited, Current
  <1> QED
    BY <1>1, <1>7, <1>8, EditKeeps
-----------------------------------------------------------------------------
(***************************************************************************)
(* Confirmation and publication.                                           *)
(***************************************************************************)
LEMMA ConfirmPaperKeeps ==
  ASSUME Inv, NEW r \in Requests, ConfirmPaperReview(r)
  PROVE  Inv'
  <1>1. /\ Ready(r) /\ KeyFree(r) /\ Record(r) /\ reviews' = reviews \cup {Fingerprint}
        /\ UNCHANGED <<rows, order, pub, batch>>
    BY DEF ConfirmPaperReview
  <1>2. /\ req' \in [Requests -> Request] /\ SameRequests
        /\ recorded' \subseteq Keys /\ applied' \in [Keys -> Nat] /\ KeysCount'
        /\ FormsAreShaped' /\ RequestHasKey'
    BY <1>1, RecordKeeps
  <1>3. rows' \in [Items -> Row] /\ Moves(r)
    BY <1>1 DEF Inv, TypeOK, Moves
  <1>4. PagesArePast' /\ RevisionsArePositive'
    BY <1>2, <1>3, MovesKeepPages
  <1>5. TypeOK'
    BY <1>1, <1>2 DEF Inv, TypeOK
  <1>6. /\ \A i \in Items : (Active(i)' <=> Active(i)) /\ (Published(i)' <=> Published(i))
        /\ ActiveItems' = ActiveItems /\ PublishedItems' = PublishedItems
    BY <1>1 DEF Active, Published, ActiveItems, PublishedItems
  <1>7. OrderIsActive' /\ PublishedStaysActive' /\ BatchCounts'
    BY <1>1, <1>6 DEF Inv, OrderIsActive, PublishedStaysActive, BatchCounts
  <1>8. PublishedReviewed'
    BY <1>1 DEF Inv, PublishedReviewed
  <1> QED
    BY <1>2, <1>4, <1>5, <1>7, <1>8 DEF Inv

LEMMA FingerprintType ==
  ASSUME TypeOK
  PROVE  Fingerprint \in Seq(Items \X Texts)
  <1>1. Len(order) \in Nat /\ DOMAIN order = 1..Len(order)
        /\ \A n \in 1..Len(order) : order[n] \in Items
    BY LenProperties, ElementOfSeq DEF TypeOK
  <1>2. \A n \in 1..Len(order) : rows[order[n]].text \in Texts
    BY <1>1, RowFields DEF TypeOK
  <1>3. Fingerprint \in [1..Len(order) -> Items \X Texts]
    BY <1>1, <1>2 DEF Fingerprint
  <1> QED
    BY <1>1, <1>3, IsASeq

\* The publication of a row carries its wording, and its paper was confirmed if needed.
LEMMA PublicationFields ==
  ASSUME TypeOK, NEW row \in Row
  PROVE  /\ PublicationOf(row) \in Publication
         /\ PublicationOf(row).rev = row.rev /\ PublicationOf(row).text = row.text
         /\ PublicationOf(row).answer = row.answer
         /\ PublicationOf(row).unresolved = row.open
         /\ PublicationOf(row).paper = Fingerprint
  <1>1. row.rev \in Nat /\ row.text \in Texts /\ row.answer \in Answers /\ row.open \in BOOLEAN
    BY RowFields
  <1> QED
    BY <1>1, FingerprintType DEF PublicationOf, Publication

LEMMA ConfirmKeeps ==
  ASSUME Inv, NEW r \in Requests, ConfirmCandidates(r)
  PROVE  rows' \in [Items -> Row] /\ Moves(r) /\ Inv'
  <1> DEFINE new == {i \in Named(r) : ~Published(i)}
             total == Cardinality(PublishedItems \cup new)
  <1>1. /\ Asked(r).op = "confirm" /\ Ready(r) /\ KeyFree(r) /\ Record(r)
        /\ Asked(r).reviewed => PaperConfirmed
        /\ \A i \in Named(r) : MayPublish(r, i)
        /\ pub' = [i \in Items |-> IF i \in new THEN PublicationOf(rows[i]) ELSE pub[i]]
        /\ rows' = [i \in Items |-> IF i \in new THEN Resolved(rows[i]) ELSE rows[i]]
        /\ batch' = [batch EXCEPT !.saved = total,
                        !.status = IF total >= batch.count THEN "saved" ELSE "partially_saved"]
        /\ UNCHANGED <<order, reviews>>
    BY DEF ConfirmCandidates, MayConfirm, SavedCount
  <1>2. /\ new \subseteq Items
        /\ \A i \in new : ~Published(i) /\ Active(i) /\ i \in Named(r)
                          /\ SameRevision(r, i) /\ (rows[i].open => PaperConfirmed)
    BY <1>1, Naming DEF MayPublish
  <1>3. new \subseteq ActiveItems
    BY <1>2 DEF ActiveItems
  <1>4. PublishedItems \cup new = {i \in Items : Published(i) \/ i \in new}
    BY <1>2 DEF PublishedItems
  <1>5. total = Cardinality(PublishedItems \cup new)
    OBVIOUS
  <1> HIDE DEF new, total
  <1>6. \A i \in Items : rows[i] \in Row /\ pub[i] \in Publication
    BY DEF Inv, TypeOK
  <1>7. rows' \in [Items -> Row] /\ \A i \in Items : Content(rows'[i]) = Content(rows[i])
    BY <1>1, <1>6, RowOps
  <1>8. \A i \in Items : rows'[i].disp = rows[i].disp
    BY <1>7, ContentFields
  <1>9. Moves(r)
    BY <1>1, <1>2, <1>7 DEF Moves
  <1>10. /\ req' \in [Requests -> Request] /\ SameRequests
         /\ recorded' \subseteq Keys /\ applied' \in [Keys -> Nat] /\ KeysCount'
         /\ FormsAreShaped' /\ RequestHasKey'
    BY <1>1, RecordKeeps
  <1>11. PagesArePast' /\ RevisionsArePositive'
    BY <1>7, <1>9, <1>10, MovesKeepPages
  <1>12. ActiveItems' = ActiveItems /\ \A i \in Items : Active(i)' <=> Active(i)
    BY <1>8 DEF ActiveItems, Active
  <1>13. PublishedItems' = PublishedItems \cup new
    <2>1. \A i \in Items : i \in new => pub'[i].rev = rows[i].rev /\ rows[i].rev >= 1
      BY <1>1, <1>2, <1>6, PublicationFields DEF Inv, RevisionsArePositive, Active
    <2>2. \A i \in Items : i \in new => Published(i)'
      BY <1>6, <2>1, RowFields DEF Published
    <2>3. \A i \in Items : i \notin new => (Published(i)' <=> Published(i))
      BY <1>1 DEF Published
    <2> QED
      BY <1>4, <2>2, <2>3 DEF PublishedItems
  <1>14. IsFiniteSet(ActiveItems) /\ PublishedItems' \subseteq ActiveItems
         /\ IsFiniteSet(PublishedItems') /\ total \in Nat
    <2>1. PublishedItems \subseteq ActiveItems
      BY DEF Inv, PublishedStaysActive, PublishedItems, ActiveItems
    <2>2. ActiveItems \subseteq Items
      BY DEF ActiveItems
    <2>3. IsFiniteSet(ActiveItems)
      BY <2>2, ItemsAssumption, FS_Subset
    <2>4. PublishedItems' \subseteq ActiveItems
      BY <1>3, <1>13, <2>1
    <2> QED
      BY <1>5, <1>13, <2>3, <2>4, FS_Subset, FS_CardinalityType
  <1>15. batch' \in Batch /\ batch'.saved = total /\ batch'.count = batch.count
         /\ (batch'.status = "saved" => total >= batch.count)
    BY <1>1, <1>14 DEF Inv, TypeOK, Batch
  <1>16. BatchCounts'
    <2>1. batch'.saved = Cardinality(PublishedItems') /\ batch'.count = Cardinality(ActiveItems')
      BY <1>5, <1>12, <1>13, <1>15 DEF Inv, BatchCounts
    <2>2. ASSUME batch'.status = "saved" PROVE ActiveItems' \subseteq PublishedItems'
      <3>1. Cardinality(PublishedItems') >= Cardinality(ActiveItems)
        BY <1>5, <1>13, <1>15, <2>2 DEF Inv, BatchCounts
      <3>2. /\ Cardinality(PublishedItems') <= Cardinality(ActiveItems)
            /\ Cardinality(PublishedItems') = Cardinality(ActiveItems) => PublishedItems' = ActiveItems
        BY <1>14, FS_Subset
      <3>3. Cardinality(PublishedItems') \in Nat /\ Cardinality(ActiveItems) \in Nat
        BY <1>14, FS_CardinalityType
      <3> QED
        BY <1>12, <3>1, <3>2, <3>3
    <2> QED
      BY <2>1, <2>2 DEF BatchCounts
  <1>17. TypeOK'
    <2>1. pub' \in [Items -> Publication]
      BY <1>1, <1>6, PublicationFields DEF Inv
    <2> QED
      BY <1>1, <1>7, <1>10, <1>15, <2>1 DEF Inv, TypeOK
  <1>18. PublishedStaysActive'
    BY <1>12, <1>13, <1>14 DEF PublishedStaysActive, PublishedItems, ActiveItems
  <1>19. OrderIsActive'
    BY <1>1, <1>12 DEF Inv, OrderIsActive
  <1>20. PublishedReviewed'
    <2> SUFFICES ASSUME NEW i \in Items, pub'[i].unresolved PROVE pub'[i].paper \in reviews
      BY <1>1 DEF PublishedReviewed
    <2>1. CASE i \in new
      <3>1. pub'[i] = PublicationOf(rows[i])
        BY <1>1, <2>1
      <3>2. rows[i].open /\ pub'[i].paper = Fingerprint
        BY <1>6, <3>1, PublicationFields DEF Inv
      <3> QED
        BY <1>2, <2>1, <3>2 DEF PaperConfirmed
    <2>2. CASE i \notin new
      BY <1>1, <2>2 DEF Inv, PublishedReviewed
    <2> QED
      BY <2>1, <2>2
  <1> QED
    BY <1>7, <1>9, <1>10, <1>11, <1>16, <1>17, <1>18, <1>19, <1>20 DEF Inv
-----------------------------------------------------------------------------
(***************************************************************************)
(* Order and structure.                                                    *)
(***************************************************************************)
LEMMA SeqFacts ==
  ASSUME NEW S, NEW s \in Seq(S)
  PROVE  /\ Len(s) \in Nat /\ DOMAIN s = 1..Len(s)
         /\ Range(s) = {s[n] : n \in 1..Len(s)}
         /\ IsInjective(s) <=> \A m, n \in 1..Len(s) : s[m] = s[n] => m = n
  <1>1. Len(s) \in Nat /\ DOMAIN s = 1..Len(s)
    BY LenProperties
  <1> QED
    BY <1>1 DEF Range, IsInjective

\* Taking distinct new elements in place of some of a sequence of distinct elements.
LEMMA SpliceSet ==
  ASSUME NEW S, NEW s \in Seq(S), NEW f \in Seq(S), IsInjective(s), IsInjective(f),
         Range(f) \cap Range(s) = {},
         NEW p \in 1..Len(s), NEW k \in Nat, p + k - 1 <= Len(s),
         NEW t, t = Spliced(s, p, k, f)
  PROVE  /\ t \in Seq(S) /\ IsInjective(t)
         /\ Range(t) = (Range(s) \ {s[m] : m \in p..(p + k - 1)}) \cup Range(f)
  <1>1. /\ t \in Seq(S)
        /\ Len(t) = Len(s) - k + Len(f)
        /\ \A m \in 1..Len(t) :
             t[m] = IF m < p THEN s[m]
                    ELSE IF m < p + Len(f) THEN f[m - p + 1]
                    ELSE s[m - Len(f) + k]
    <2>1. t \in Seq(S) /\ IsSpliced(t, s, p, k, f)
      BY Splice, Zenon
    <2> QED
      BY <2>1 DEF IsSpliced
  <1>2. /\ Len(s) \in Nat /\ Len(f) \in Nat /\ Len(t) \in Nat
        /\ Range(s) = {s[n] : n \in 1..Len(s)} /\ Range(f) = {f[n] : n \in 1..Len(f)}
        /\ Range(t) = {t[n] : n \in 1..Len(t)}
    <2>1. \A z \in Seq(S) : Len(z) \in Nat /\ Range(z) = {z[n] : n \in 1..Len(z)}
      BY SeqFacts
    <2> QED
      BY <1>1, <2>1, Zenon
  <1>3. /\ \A m, n \in 1..Len(s) : s[m] = s[n] => m = n
        /\ \A m, n \in 1..Len(f) : f[m] = f[n] => m = n
        /\ \A m \in 1..Len(f), n \in 1..Len(s) : f[m] # s[n]
    <2>1. \A z \in Seq(S) : IsInjective(z) => \A m, n \in 1..Len(z) : z[m] = z[n] => m = n
      BY SeqFacts
    <2>2. \A m \in 1..Len(f), n \in 1..Len(s) : f[m] \in Range(f) /\ s[n] \in Range(s)
      BY <1>2
    <2>3. \A m \in 1..Len(f), n \in 1..Len(s) : f[m] # s[n]
      BY <2>2
    <2> QED
      BY <2>1, <2>3, Zenon
  <1> DEFINE old(m) == IF m < p THEN m ELSE m - Len(f) + k
             fresh(m) == p <= m /\ m < p + Len(f)
  <1>4. \A m \in 1..Len(t) :
          /\ fresh(m) => m - p + 1 \in 1..Len(f) /\ t[m] = f[m - p + 1]
          /\ ~fresh(m) => /\ old(m) \in 1..Len(s) /\ t[m] = s[old(m)]
                          /\ old(m) < p \/ old(m) >= p + k
    BY <1>1, <1>2
  <1>5. \A m, n \in 1..Len(t) : t[m] = t[n] => m = n
    <2> SUFFICES ASSUME NEW m \in 1..Len(t), NEW n \in 1..Len(t), t[m] = t[n] PROVE m = n
      OBVIOUS
    <2>1. CASE fresh(m) /\ fresh(n)
      <3>1. /\ m - p + 1 \in 1..Len(f) /\ n - p + 1 \in 1..Len(f)
            /\ f[m - p + 1] = f[n - p + 1]
        BY <1>4, <2>1
      <3>2. m - p + 1 = n - p + 1
        BY <1>3, <3>1
      <3> QED
        BY <1>2, <3>2
    <2>2. CASE ~fresh(m) /\ ~fresh(n)
      <3>1. /\ old(m) \in 1..Len(s) /\ old(n) \in 1..Len(s) /\ s[old(m)] = s[old(n)]
            /\ old(m) < p \/ old(m) >= p + k
            /\ old(n) < p \/ old(n) >= p + k
        BY <1>4, <2>2
      <3>2. old(m) = old(n)
        BY <1>3, <3>1
      <3> QED
        BY <1>2, <2>2, <3>2
    <2>3. CASE fresh(m) /\ ~fresh(n)
      <3>1. m - p + 1 \in 1..Len(f) /\ old(n) \in 1..Len(s) /\ f[m - p + 1] = s[old(n)]
        BY <1>4, <2>3
      <3> QED
        BY <1>3, <3>1
    <2>4. CASE ~fresh(m) /\ fresh(n)
      <3>1. n - p + 1 \in 1..Len(f) /\ old(m) \in 1..Len(s) /\ f[n - p + 1] = s[old(m)]
        BY <1>4, <2>4
      <3> QED
        BY <1>3, <3>1
    <2> QED
      BY <2>1, <2>2, <2>3, <2>4
  <1>6. IsInjective(t)
    BY <1>1, <1>5, SeqFacts
  <1>7. Range(t) \subseteq (Range(s) \ {s[m] : m \in p..(p + k - 1)}) \cup Range(f)
    <2> SUFFICES ASSUME NEW m \in 1..Len(t)
                 PROVE  t[m] \in (Range(s) \ {s[n] : n \in p..(p + k - 1)}) \cup Range(f)
      BY <1>2
    <2>1. CASE fresh(m)
      BY <1>2, <1>4, <2>1
    <2>2. CASE ~fresh(m)
      <3>1. old(m) \in 1..Len(s) /\ t[m] = s[old(m)] /\ old(m) \notin p..(p + k - 1)
        BY <1>2, <1>4, <2>2
      <3> HIDE DEF old
      <3>2. \A n \in p..(p + k - 1) : n \in 1..Len(s)
        BY <1>2
      <3>3. \A n \in p..(p + k - 1) : s[n] # s[old(m)]
        BY <1>3, <3>1, <3>2
      <3> QED
        BY <1>2, <3>1, <3>3
    <2> QED
      BY <2>1, <2>2
  <1>8. Range(f) \subseteq Range(t)
    <2> SUFFICES ASSUME NEW n \in 1..Len(f) PROVE f[n] \in Range(t)
      BY <1>2
    <2> DEFINE m == p + n - 1
    <2>0. m \in 1..Len(t) /\ ~(m < p) /\ m < p + Len(f) /\ m - p + 1 = n
      BY <1>1, <1>2
    <2> HIDE DEF m
    <2>1. m \in 1..Len(t) /\ t[m] = f[n]
      BY <1>1, <2>0
    <2> QED
      BY <1>2, <2>1
  <1>9. Range(s) \ {s[m] : m \in p..(p + k - 1)} \subseteq Range(t)
    <2> SUFFICES ASSUME NEW n \in 1..Len(s), s[n] \notin {s[m] : m \in p..(p + k - 1)}
                 PROVE  s[n] \in Range(t)
      BY <1>2
    <2>1. n < p \/ n >= p + k
      BY <1>2
    <2>2. CASE n < p
      <3>1. n \in 1..Len(t) /\ t[n] = s[n]
        BY <1>1, <1>2, <2>2
      <3> QED
        BY <1>2, <3>1
    <2>3. CASE n >= p + k
      <3> DEFINE m == n + Len(f) - k
      <3>1. m \in 1..Len(t) /\ ~(m < p) /\ ~(m < p + Len(f)) /\ m - Len(f) + k = n
        BY <1>1, <1>2, <2>3
      <3> HIDE DEF m
      <3>2. t[m] = s[n]
        BY <1>1, <3>1
      <3> QED
        BY <1>2, <3>1, <3>2
    <2> QED
      BY <2>1, <2>2, <2>3
  <1> QED
    BY <1>1, <1>6, <1>7, <1>8, <1>9

\* The candidates of a structural request stand together in the reading order, and what
\* Replaced makes of it is the order without them and with the new ids.
LEMMA ReplacedOrder ==
  ASSUME Inv, NEW r \in Requests, Asked(r).op \in {"split", "merge", "defer"},
         Target(r) \in ActiveItems, Asked(r).op = "merge" => Adjacent(r),
         NEW fresh \in Seq(Items), IsInjective(fresh), Range(fresh) \cap ActiveItems = {}
  PROVE  /\ Replaced(r, fresh) \in Seq(Items) /\ IsInjective(Replaced(r, fresh))
         /\ Range(Replaced(r, fresh)) = (ActiveItems \ Named(r)) \cup Range(fresh)
  <1> DEFINE p == CHOOSE n \in DOMAIN order : order[n] = Target(r)
             k == Len(Asked(r).items)
  <1>1. order \in Seq(Items) /\ IsInjective(order) /\ Range(order) = ActiveItems
    BY DEF Inv, TypeOK, OrderIsActive
  <1>2. /\ Len(order) \in Nat /\ DOMAIN order = 1..Len(order)
        /\ Range(order) = {order[n] : n \in 1..Len(order)}
        /\ \A m, n \in 1..Len(order) : order[m] = order[n] => m = n
    BY <1>1, SeqFacts
  <1>3. p \in 1..Len(order) /\ order[p] = Target(r)
    BY <1>1, <1>2
  <1>4. k = Len(Asked(r).items)
    OBVIOUS
  <1>5. Replaced(r, fresh) = Spliced(order, p, k, fresh)
    BY DEF Replaced, Place
  <1> HIDE DEF p, k
  <1>6. k \in Nat /\ p + k - 1 <= Len(order) /\ Named(r) = {order[m] : m \in p..(p + k - 1)}
    <2>1. CASE Asked(r).op \in {"split", "defer"}
      <3>1. Named(r) = {Target(r)} /\ k = 1
        BY <1>4, <2>1, NamesOne
      <3>2. p..(p + k - 1) = {p}
        BY <1>2, <1>3, <3>1
      <3> QED
        BY <1>2, <1>3, <3>1, <3>2
    <2>2. CASE Asked(r).op = "merge"
      <3>1. PICK n \in 1..(Len(order) - 1) : Asked(r).items = SubSeq(order, n, n + 1)
        BY <2>2 DEF Adjacent
      <3>2. k = 2 /\ DOMAIN Asked(r).items = 1..2
        BY <1>4, <2>2, Naming DEF Inv, FormsAreShaped, FormIsShaped
      <3>3. \A m \in n..(n + 1) : order[m] \in Items
        BY <1>1, <1>2, <3>1, ElementOfSeq
      <3>4. \A m \in 1..2 : Asked(r).items[m] = order[n + m - 1]
        <4>1. n \in Int /\ n + 1 \in Int
          BY <3>1
        <4>2. \A m \in 1..(n + 1 - n + 1) : SubSeq(order, n, n + 1)[m] = order[n + m - 1]
          BY <3>3, <4>1, SubSeqProperties
        <4> QED
          BY <3>1, <4>2
      <3>5. order[n] = Target(r) /\ Asked(r).items[2] = order[n + 1]
        BY <3>1, <3>4 DEF Target
      <3>6. p = n
        BY <1>2, <1>3, <3>1, <3>5
      <3>7. Named(r) = {order[p], order[p + 1]}
        BY <3>2, <3>5, <3>6 DEF Named, Range, Target
      <3>8. p..(p + k - 1) = {p, p + 1}
        BY <1>3, <3>2
      <3> QED
        BY <1>2, <3>1, <3>2, <3>6, <3>7, <3>8
    <2> QED
      BY <2>1, <2>2
  <1> QED
    BY <1>1, <1>3, <1>5, <1>6, SpliceSet

LEMMA ReorderKeeps ==
  ASSUME Inv, NEW r \in Requests, ReorderCandidates(r)
  PROVE  Inv'
  <1>1. /\ Asked(r).op = "reorder" /\ Ready(r) /\ KeyFree(r) /\ Record(r)
        /\ order = req[r].shown /\ Current(r) /\ order' = Asked(r).items
        /\ UNCHANGED <<rows, pub, reviews, batch>>
    BY DEF ReorderCandidates, MayReorder
  <1>2. /\ req' \in [Requests -> Request] /\ SameRequests
        /\ recorded' \subseteq Keys /\ applied' \in [Keys -> Nat] /\ KeysCount'
        /\ FormsAreShaped' /\ RequestHasKey'
    BY <1>1, RecordKeeps
  <1>3. rows' \in [Items -> Row] /\ Moves(r)
    BY <1>1 DEF Inv, TypeOK, Moves
  <1>4. PagesArePast' /\ RevisionsArePositive'
    BY <1>2, <1>3, MovesKeepPages
  <1>5. order' \in Seq(Items) /\ IsInjective(order')
    BY <1>1, Naming
  <1>6. TypeOK'
    BY <1>1, <1>2, <1>5 DEF Inv, TypeOK
  <1>7. /\ \A i \in Items : (Active(i)' <=> Active(i)) /\ (Published(i)' <=> Published(i))
        /\ ActiveItems' = ActiveItems /\ PublishedItems' = PublishedItems
    BY <1>1 DEF Active, Published, ActiveItems, PublishedItems
  <1>8. PublishedStaysActive' /\ BatchCounts' /\ PublishedReviewed'
    BY <1>1, <1>7 DEF Inv, PublishedReviewed, PublishedStaysActive, BatchCounts
  <1>9. OrderIsActive'
    <2>1. Len(order') = Len(order)
      BY <1>1 DEF Inv, FormsAreShaped
    <2>2. Range(order') \subseteq ActiveItems
      BY <1>1, Naming DEF Current, Named, ActiveItems
    <2>3. /\ IsFiniteSet(Range(order)) /\ Cardinality(Range(order)) = Len(order)
          /\ Range(order) = ActiveItems
      BY InjectiveCardinality DEF Inv, TypeOK, OrderIsActive
    <2>4. Cardinality(Range(order')) = Len(order')
      BY <1>5, InjectiveCardinality
    <2>5. Range(order') = ActiveItems
      BY <2>1, <2>2, <2>3, <2>4, FS_Subset
    <2> QED
      BY <1>5, <1>7, <2>5 DEF OrderIsActive
  <1> QED
    BY <1>2, <1>4, <1>6, <1>8, <1>9 DEF Inv

\* A batch with an unpublished active candidate is not saved.
LEMMA NotSaved ==
  ASSUME Inv, NEW i \in Items, Active(i), ~Published(i)
  PROVE  batch.status # "saved"
  BY DEF Inv, BatchCounts, ActiveItems, PublishedItems

LEMMA FreshFacts ==
  ASSUME NEW r \in Requests, NEW fresh \in Fresh(r)
  PROVE  /\ fresh \in Seq(Items) /\ IsInjective(fresh) /\ Range(fresh) \subseteq Unused
         /\ Range(fresh) \cap ActiveItems = {}
  <1>1. fresh \in Seq(Unused) /\ IsInjective(fresh) /\ Range(fresh) \subseteq Unused
    BY ListsAreSeqs DEF Fresh
  <1>2. Unused \subseteq Items
    BY DEF Unused
  <1>3. fresh \in Seq(Items)
    BY <1>1, <1>2, SeqMonotonic
  <1>4. Unused \cap ActiveItems = {}
    BY DEF Unused, ActiveItems, Active
  <1> QED
    BY <1>1, <1>3, <1>4

LEMMA RestructureKeeps ==
  ASSUME Inv, NEW r \in Requests, RestructureCandidates(r)
  PROVE  rows' \in [Items -> Row] /\ Moves(r) /\ Inv'
  <1>1. /\ Asked(r).op \in {"split", "merge"} /\ Ready(r) /\ KeyFree(r) /\ Record(r)
        /\ NothingPublished /\ Current(r)
        /\ Asked(r).op = "merge" => Adjacent(r)
        /\ UNCHANGED <<pub, reviews>>
    BY DEF RestructureCandidates, MayRestructure
  <1>2. PICK fresh \in Fresh(r) :
          /\ rows' = [i \in Items |->
                       IF i \in Named(r) THEN Superseded(rows[i])
                       ELSE IF i \in Range(fresh) THEN Replacement(r) ELSE rows[i]]
          /\ order' = Replaced(r, fresh)
          /\ batch' = [batch EXCEPT !.count =
                         Cardinality((ActiveItems \ Named(r)) \cup Range(fresh))]
    BY DEF RestructureCandidates
  <1>3. /\ fresh \in Seq(Items) /\ IsInjective(fresh) /\ Range(fresh) \subseteq Unused
        /\ Range(fresh) \cap ActiveItems = {}
    BY FreshFacts
  <1>4. Named(r) \subseteq Items /\ Target(r) \in Named(r) /\ Target(r) \in Items
    BY <1>1, Naming
  <1>5. \A i \in Named(r) : i \in ActiveItems /\ Active(i) /\ SameRevision(r, i) /\ ~Published(i)
    BY <1>1, <1>4 DEF Current, NothingPublished, ActiveItems
  <1>6. \A i \in Items : rows[i] \in Row /\ rows[i].rev \in Nat
    BY RowFields DEF Inv, TypeOK
  <1>7. Replacement(r) \in Row /\ Replacement(r).disp = "active" /\ Replacement(r).rev = 1
    <2>1. CASE Asked(r).op = "split"
      <3>1. Replacement(r) = Half(rows[Target(r)])
        BY <2>1 DEF Replacement
      <3>2. rows[Target(r)] \in Row /\ rows[Target(r)].disp = "active"
        BY <1>4, <1>5, <1>6 DEF Active
      <3>3. {} \in SUBSET Blocks
        OBVIOUS
      <3> QED
        BY <3>1, <3>2, <3>3, RowOps
    <2>2. CASE Asked(r).op # "split"
      BY <1>4, <2>2, MergedRow DEF Replacement, Inv
    <2> QED
      BY <2>1, <2>2
  <1>8. \A i \in Items : /\ Superseded(rows[i]) \in Row
                         /\ Superseded(rows[i]).disp = "superseded"
                         /\ Superseded(rows[i]).rev = rows[i].rev + 1
    BY <1>6, RowOps
  <1>9. rows' \in [Items -> Row]
    BY <1>2, <1>6, <1>7, <1>8
  <1>10. \A i \in Items :
           /\ i \in Named(r) => rows'[i].disp = "superseded" /\ rows'[i].rev = rows[i].rev + 1
           /\ i \in Range(fresh) =>
                rows'[i].disp = "active" /\ rows'[i].rev = 1 /\ rows[i].disp = "none"
           /\ (i \notin Named(r) /\ i \notin Range(fresh)) => rows'[i] = rows[i]
    <2>1. \A i \in Range(fresh) : i \notin Named(r) /\ rows[i].disp = "none"
      BY <1>3, <1>5 DEF Unused
    <2> QED
      BY <1>2, <1>7, <1>8, <2>1
  <1>11. Moves(r)
    <2>1. ~At(r, "idle")
      BY <1>1, ReadyIsNotIdle
    <2>2. \A i \in Named(r) : Content(req[r].seen[i]) = Content(rows[i])
      BY <1>5, <2>1, PageIsCurrent
    <2>3. ActiveItems # {}
      BY <1>4, <1>5
    <2>4. \A i \in Named(r) : /\ rows'[i].disp = "superseded"
                              /\ rows'[i].rev >= rows[i].rev
      BY <1>4, <1>6, <1>10
    <2> QED
      BY <1>5, <1>10, <2>2, <2>3, <2>4 DEF Moves
  <1>12. /\ req' \in [Requests -> Request] /\ SameRequests
         /\ recorded' \subseteq Keys /\ applied' \in [Keys -> Nat] /\ KeysCount'
         /\ FormsAreShaped' /\ RequestHasKey'
    BY <1>1, RecordKeeps
  <1>13. PagesArePast' /\ RevisionsArePositive'
    BY <1>9, <1>11, <1>12, MovesKeepPages
  <1>14. ActiveItems' = (ActiveItems \ Named(r)) \cup Range(fresh)
    <2>1. Range(fresh) \subseteq Items
      BY <1>3, NamedRange
    <2> QED
      BY <1>10, <2>1 DEF ActiveItems, Active
  <1>15. /\ order' \in Seq(Items) /\ IsInjective(order')
         /\ Range(order') = (ActiveItems \ Named(r)) \cup Range(fresh)
    BY <1>1, <1>2, <1>3, <1>4, <1>5, ReplacedOrder
  <1>16. OrderIsActive'
    BY <1>14, <1>15 DEF OrderIsActive
  <1>17. /\ batch' \in Batch /\ batch'.saved = batch.saved /\ batch'.status = batch.status
         /\ batch'.count = Cardinality(ActiveItems')
    <2>1. ActiveItems' \subseteq Items
      BY DEF ActiveItems
    <2>2. Cardinality(ActiveItems') \in Nat
      BY <2>1, ItemsAssumption, FS_Subset, FS_CardinalityType
    <2>3. batch' = [batch EXCEPT !.count = Cardinality(ActiveItems')]
      BY <1>2, <1>14
    <2> QED
      BY <2>2, <2>3 DEF Inv, TypeOK, Batch
  <1>18. PublishedItems' = PublishedItems
    BY <1>1 DEF PublishedItems, Published
  <1>19. BatchCounts'
    <2>1. batch'.status # "saved"
      BY <1>4, <1>5, <1>17, NotSaved
    <2> QED
      BY <1>17, <1>18, <2>1 DEF Inv, BatchCounts
  <1>20. PublishedStaysActive'
    BY <1>1, <1>5, <1>10 DEF Inv, PublishedStaysActive, NothingPublished, ActiveItems, Published, Active
  <1>21. PublishedReviewed'
    BY <1>1 DEF Inv, PublishedReviewed
  <1>22. TypeOK'
    BY <1>1, <1>9, <1>12, <1>15, <1>17 DEF Inv, TypeOK
  <1> QED
    BY <1>9, <1>11, <1>12, <1>13, <1>16, <1>19, <1>20, <1>21, <1>22 DEF Inv

LEMMA DeferKeeps ==
  ASSUME Inv, NEW r \in Requests, DeferItem(r)
  PROVE  rows' \in [Items -> Row] /\ Moves(r) /\ Inv'
  <1>1. /\ Asked(r).op = "defer" /\ Ready(r) /\ KeyFree(r) /\ Record(r)
        /\ Current(r) /\ ~Published(Target(r))
        /\ rows' = [rows EXCEPT ![Target(r)] = Deferred(rows[Target(r)])]
        /\ order' = Replaced(r, <<>>)
        /\ batch' = [batch EXCEPT !.count = Cardinality(ActiveItems \ {Target(r)})]
        /\ UNCHANGED <<pub, reviews>>
    BY DEF DeferItem, MayDefer
  <1>2. Target(r) \in Named(r) /\ Target(r) \in Items /\ Named(r) = {Target(r)}
    BY <1>1, Naming, NamesOne
  <1>3. Active(Target(r)) /\ SameRevision(r, Target(r)) /\ Target(r) \in ActiveItems
    BY <1>1, <1>2 DEF Current, ActiveItems
  <1>4. rows \in [Items -> Row] /\ rows[Target(r)] \in Row
    BY <1>2 DEF Inv, TypeOK
  <1> DEFINE new == Deferred(rows[Target(r)])
  <1>5. new \in Row /\ new.disp = "deferred" /\ new.rev = rows[Target(r)].rev
    BY <1>4, RowOps
  <1>6. rows' = [rows EXCEPT ![Target(r)] = new]
    BY <1>1
  <1> HIDE DEF new
  <1>7. /\ rows' \in [Items -> Row] /\ rows'[Target(r)] = new
        /\ \A i \in Items : i # Target(r) => rows'[i] = rows[i]
    BY <1>2, <1>4, <1>5, <1>6
  <1>8. Moves(r)
    <2>1. Content(req[r].seen[Target(r)]) = Content(rows[Target(r)])
      BY <1>1, <1>2, <1>3, ReadyIsNotIdle, PageIsCurrent
    <2>2. rows[Target(r)].rev \in Nat
      BY <1>4, RowFields
    <2> QED
      BY <1>2, <1>3, <1>5, <1>7, <2>1, <2>2 DEF Moves
  <1>9. /\ req' \in [Requests -> Request] /\ SameRequests
        /\ recorded' \subseteq Keys /\ applied' \in [Keys -> Nat] /\ KeysCount'
        /\ FormsAreShaped' /\ RequestHasKey'
    BY <1>1, RecordKeeps
  <1>10. PagesArePast' /\ RevisionsArePositive'
    BY <1>7, <1>8, <1>9, MovesKeepPages
  <1>11. ActiveItems' = ActiveItems \ {Target(r)}
    BY <1>5, <1>7 DEF ActiveItems, Active
  <1>12. order' \in Seq(Items) /\ IsInjective(order') /\ Range(order') = ActiveItems \ {Target(r)}
    <2>1. /\ <<>> \in Seq(Items) /\ IsInjective(<<>>) /\ Range(<<>>) = {}
          /\ Range(<<>>) \cap ActiveItems = {}
      BY EmptySeq DEF IsInjective, Range
    <2>2. /\ Replaced(r, <<>>) \in Seq(Items) /\ IsInjective(Replaced(r, <<>>))
          /\ Range(Replaced(r, <<>>)) = (ActiveItems \ Named(r)) \cup Range(<<>>)
      BY <1>1, <1>3, <2>1, ReplacedOrder
    <2> QED
      BY <1>1, <1>2, <2>1, <2>2
  <1>13. OrderIsActive'
    BY <1>11, <1>12 DEF OrderIsActive
  <1>14. /\ batch' \in Batch /\ batch'.saved = batch.saved /\ batch'.status = batch.status
         /\ batch'.count = Cardinality(ActiveItems')
    <2>1. ActiveItems' \subseteq Items
      BY DEF ActiveItems
    <2>2. Cardinality(ActiveItems') \in Nat
      BY <2>1, ItemsAssumption, FS_Subset, FS_CardinalityType
    <2>3. batch' = [batch EXCEPT !.count = Cardinality(ActiveItems')]
      BY <1>1, <1>11
    <2> QED
      BY <2>2, <2>3 DEF Inv, TypeOK, Batch
  <1>15. PublishedItems' = PublishedItems
    BY <1>1 DEF PublishedItems, Published
  <1>16. BatchCounts'
    <2>1. batch'.status # "saved"
      BY <1>1, <1>2, <1>3, <1>14, NotSaved
    <2> QED
      BY <1>14, <1>15, <2>1 DEF Inv, BatchCounts
  <1>17. PublishedStaysActive'
    BY <1>1, <1>7 DEF Inv, PublishedStaysActive, Published, Active
  <1>18. PublishedReviewed'
    BY <1>1 DEF Inv, PublishedReviewed
  <1>19. TypeOK'
    BY <1>1, <1>7, <1>9, <1>12, <1>14 DEF Inv, TypeOK
  <1> QED
    BY <1>7, <1>8, <1>9, <1>10, <1>13, <1>16, <1>17, <1>18, <1>19 DEF Inv

LEMMA DeleteKeeps ==
  ASSUME Inv, NEW r \in Requests, DeleteTask(r)
  PROVE  Inv'
  <1>1. /\ Ready(r) /\ Move(r, "done") /\ PublishedItems = {}
        /\ rows' = Nobody /\ order' = <<>>
        /\ batch' = [saved |-> 0, count |-> 0, status |-> "needs_review"]
        /\ UNCHANGED <<pub, reviews, recorded, applied>>
    BY DEF DeleteTask, MayDelete
  <1>2. req' \in [Requests -> Request] /\ SameRequests
    BY <1>1, ReadyIsNotIdle, MoveKeeps DEF Inv
  <1>3. FormsAreShaped' /\ RequestHasKey' /\ KeysCount'
    BY <1>1, <1>2 DEF Inv, FormsAreShaped, RequestHasKey, SameRequests, KeysCount
  <1>4. \A i \in Items : rows'[i].disp = "none"
    BY <1>1 DEF Nobody, Row0
  <1>5. ActiveItems' = {} /\ \A i \in Items : ~Active(i)'
    BY <1>4 DEF ActiveItems, Active
  <1>6. PublishedItems' = {} /\ \A i \in Items : ~Published(i)'
    BY <1>1 DEF PublishedItems, Published
  <1>7. TypeOK'
    BY <1>1, <1>2, RowZero, EmptySeq DEF Inv, TypeOK, Batch
  <1>8. RevisionsArePositive'
    BY <1>4 DEF RevisionsArePositive
  <1>9. PagesArePast'
    <2> SUFFICES ASSUME NEW q \in Requests, ~At(q, "idle")', NEW i \in Named(q)'
                 PROVE  req'[q].seen[i].disp = "active" /\ ~Active(i)' /\ ActiveItems' = {}
      BY DEF PagesArePast
    <2>1. ~At(q, "idle") /\ req'[q].seen = req[q].seen /\ Named(q)' = Named(q) /\ Asked(q)' = Asked(q)
      BY <1>2 DEF SameRequests, Named
    <2>2. i \in Named(q) /\ i \in Items
      BY <2>1, NamedRange DEF Inv, TypeOK, Request, Form, Named, Asked
    <2> QED
      BY <1>5, <2>1, <2>2 DEF Inv, PagesArePast
  <1>10. OrderIsActive'
    BY <1>1, <1>5 DEF OrderIsActive, IsInjective, Range
  <1>11. PublishedStaysActive'
    BY <1>6 DEF PublishedStaysActive
  <1>12. PublishedReviewed'
    BY <1>1 DEF Inv, PublishedReviewed
  <1>13. BatchCounts'
    BY <1>1, <1>5, <1>6, FS_EmptySet DEF BatchCounts
  <1> QED
    BY <1>3, <1>7, <1>8, <1>9, <1>10, <1>11, <1>12, <1>13 DEF Inv

-----------------------------------------------------------------------------
LEMMA StepInv == Inv /\ [Next]_vars => Inv'
  <1> SUFFICES ASSUME Inv, [Next]_vars PROVE Inv'
    OBVIOUS
  <1>1. ASSUME NEW r \in Requests, ClientStep(r) PROVE Inv'
    BY <1>1, SendKeeps, ResendKeeps, ForgetKeeps DEF ClientStep
  <1>2. ASSUME NEW r \in Requests, Check(r) \/ Rollback(r) PROVE Inv'
    BY <1>2, CheckKeeps
  <1>3. ASSUME NEW r \in Requests, EditStep(r) PROVE Inv'
    BY <1>3, SaveKeeps, AttachKeeps, AssignKeeps DEF EditStep
  <1>4. ASSUME NEW r \in Requests, StructureStep(r) PROVE Inv'
    BY <1>4, ReorderKeeps, RestructureKeeps, DeferKeeps, DeleteKeeps DEF StructureStep
  <1>5. ASSUME NEW r \in Requests, ReviewStep(r) PROVE Inv'
    BY <1>5, ConfirmPaperKeeps, ConfirmKeeps DEF ReviewStep
  <1>6. CASE UNCHANGED vars
    <2>1. req' \in [Requests -> Request] /\ UNCHANGED <<rows, order, pub, reviews, recorded, batch, applied>>
      BY <1>6 DEF vars, Inv, TypeOK
    <2>2. FormsAreShaped' /\ RequestHasKey'
      BY <1>6 DEF vars, Inv, FormsAreShaped, RequestHasKey, Asked, At
    <2>3. ActiveItems' = ActiveItems
      BY <1>6 DEF vars, ActiveItems, Active
    <2>4. PagesArePast'
      BY <1>6, <2>3 DEF vars, Inv, PagesArePast, At, Named, Asked, Active, SameRevision
    <2> QED
      BY <2>1, <2>2, <2>4, RequestsOnly
  <1> QED
    BY <1>1, <1>2, <1>3, <1>4, <1>5, <1>6 DEF Next

THEOREM Invariance == Spec => []Inv
  <1>1. Inv /\ [Next]_vars => Inv'
    BY StepInv
  <1> QED
    BY <1>1, InitInv, PTL DEF Spec

\* For papers of any size and any number of clients every row, order, publication, key
\* and request has its type.
THEOREM TypeCorrect == Spec => []TypeOK
  BY Invariance, PTL DEF Inv

\* However often a request is sent under one key, its transaction commits once.
THEOREM KeysApplyOnce == Spec => []AppliedOnce
  <1>1. Inv => AppliedOnce
    BY DEF Inv, KeysCount, AppliedOnce
  <1> QED
    BY <1>1, Invariance, PTL

\* A published candidate always keeps its active row.
THEOREM PublishedKeepRows == Spec => []PublishedStaysActive
  BY Invariance, PTL DEF Inv

\* A question with open issues is published only within a paper confirmed as it stands.
THEOREM OpenIssuesWereReviewed == Spec => []PublishedReviewed
  BY Invariance, PTL DEF Inv

\* The reading order lists the active candidates, each once, after any edits of the
\* structure.
THEOREM OrderListsActive == Spec => []OrderIsActive
  BY Invariance, PTL DEF Inv

\* The counters and the status of the batch agree with its rows.
THEOREM CountsAgree == Spec => []BatchCounts
  BY Invariance, PTL DEF Inv

-----------------------------------------------------------------------------
(***************************************************************************)
(* What a step may never do.                                               *)
(***************************************************************************)
LEMMA Answering ==
  ASSUME TypeOK, NEW r \in Requests, Ready(r), Move(r, "done")
  PROVE  Answered(r)
  <1>1. req'[r] = [req[r] EXCEPT !.pc = "done"] /\ req[r] \in Request
    BY DEF Move, TypeOK
  <1>2. req'[r].pc = "done"
    BY <1>1 DEF Request
  <1> QED
    BY <1>2, ReadyIsNotIdle DEF Answered

\* A step that touches the rows answers a request, and moves them as this one asked.
LEMMA RowSteps ==
  ASSUME Inv, Next, rows' # rows
  PROVE  \E r \in Requests : /\ Answered(r)
                             /\ \/ Asked(r).op = "delete" /\ rows' = Nobody
                                \/ Moves(r)
  <1>1. ASSUME NEW r \in Requests, ClientStep(r) PROVE FALSE
    BY <1>1 DEF ClientStep, Send, Resend, Forget
  <1>2. ASSUME NEW r \in Requests, Check(r) \/ Rollback(r) PROVE FALSE
    BY <1>2 DEF Check, Rollback
  <1>3. ASSUME NEW r \in Requests, EditStep(r) PROVE Answered(r) /\ Moves(r)
    <2>1. Edited(r) /\ Ready(r) /\ Move(r, "done")
      BY <1>3, SaveKeeps, AttachKeeps, AssignKeeps
      DEF EditStep, SaveCandidate, AttachAnswers, AssignSourceSpans, Record
    <2> QED
      BY <2>1, Answering, ReadyIsNotIdle, EditedMoves DEF Inv
  <1>4. ASSUME NEW r \in Requests, StructureStep(r)
        PROVE  /\ Answered(r)
               /\ \/ Asked(r).op = "delete" /\ rows' = Nobody
                  \/ Moves(r)
    <2>1. CASE RestructureCandidates(r) \/ DeferItem(r)
      <3>1. Moves(r) /\ Ready(r) /\ Move(r, "done")
        BY <2>1, RestructureKeeps, DeferKeeps DEF RestructureCandidates, DeferItem, Record
      <3> QED
        BY <3>1, Answering DEF Inv
    <2>2. CASE DeleteTask(r)
      <3>1. Asked(r).op = "delete" /\ rows' = Nobody /\ Ready(r) /\ Move(r, "done")
        BY <2>2 DEF DeleteTask
      <3> QED
        BY <3>1, Answering DEF Inv
    <2>3. CASE ReorderCandidates(r)
      BY <2>3 DEF ReorderCandidates
    <2> QED
      BY <1>4, <2>1, <2>2, <2>3 DEF StructureStep
  <1>5. ASSUME NEW r \in Requests, ReviewStep(r) PROVE Answered(r) /\ Moves(r)
    <2>1. ConfirmCandidates(r)
      BY <1>5 DEF ReviewStep, ConfirmPaperReview
    <2>2. Moves(r) /\ Ready(r) /\ Move(r, "done")
      BY <2>1, ConfirmKeeps DEF ConfirmCandidates, Record
    <2> QED
      BY <2>2, Answering DEF Inv
  <1> QED
    BY <1>1, <1>2, <1>3, <1>4, <1>5 DEF Next

\* No lost update, for any number of clients, pages and repeated requests.
THEOREM NoUpdateIsLost == Spec => NoLostUpdate
  <1>1. ASSUME Inv, Next, NEW i \in Items, Active(i), Content(rows'[i]) # Content(rows[i])
        PROVE  \E r \in Requests :
                 /\ Answered(r)
                 /\ \/ Asked(r).op = "delete"
                    \/ i \in Named(r) /\ Content(req[r].seen[i]) = Content(rows[i])
    <2>1. PICK r \in Requests : /\ Answered(r)
                                /\ \/ Asked(r).op = "delete" /\ rows' = Nobody
                                   \/ Moves(r)
      BY <1>1, RowSteps
    <2>2. CASE Moves(r)
      BY <1>1, <2>1, <2>2 DEF Moves, Active
    <2> QED
      BY <2>1, <2>2
  <1>2. Inv /\ [Next]_vars =>
          [\A i \in Items : (Active(i) /\ Content(rows'[i]) # Content(rows[i])) =>
              \E r \in Requests :
                /\ Answered(r)
                /\ \/ Asked(r).op = "delete"
                   \/ i \in Named(r) /\ Content(req[r].seen[i]) = Content(rows[i])]_vars
    BY <1>1
  <1> QED
    BY <1>2, Invariance, PTL DEF Spec, NoLostUpdate

\* A row taken out of the paper never changes again before the task is deleted.
THEOREM RetiredStays == Spec => RetiredIsFinal
  <1>1. ASSUME Inv, Next, NEW i \in Items, rows[i].disp \in {"superseded", "deferred"},
               rows' # Nobody
        PROVE  rows'[i] = rows[i]
    <2>1. CASE rows' # rows
      <3>1. PICK r \in Requests : Moves(r)
        BY <1>1, <2>1, RowSteps
      <3> QED
        BY <1>1, <3>1 DEF Moves, Active
    <2> QED
      BY <2>1
  <1>2. Inv /\ [Next]_vars =>
          [\A i \in Items : rows[i].disp \in {"superseded", "deferred"} =>
              rows'[i] = rows[i] \/ rows' = Nobody]_vars
    BY <1>1
  <1> QED
    BY <1>2, Invariance, PTL DEF Spec, RetiredIsFinal

\* What is published is what the teacher who selected it had on the page.
THEOREM PublicationsWereSeen == Spec => PublishedAsSeen
  <1>1. ASSUME Inv, NEW r \in Requests, ConfirmCandidates(r), NEW i \in Items, pub'[i] # pub[i]
        PROVE  /\ Answered(r) /\ Asked(r).op = "confirm" /\ i \in Named(r)
               /\ req[r].seen[i].text = pub'[i].text
               /\ req[r].seen[i].answer = pub'[i].answer
    <2>1. /\ Asked(r).op = "confirm" /\ Ready(r) /\ Move(r, "done")
          /\ \A j \in Named(r) : MayPublish(r, j)
          /\ pub' = [j \in Items |-> IF j \in {j1 \in Named(r) : ~Published(j1)}
                                     THEN PublicationOf(rows[j]) ELSE pub[j]]
      BY <1>1 DEF ConfirmCandidates, MayConfirm, Record
    <2>2. i \in Named(r) /\ ~Published(i) /\ pub'[i] = PublicationOf(rows[i])
      BY <1>1, <2>1 DEF Inv, TypeOK
    <2>3. Active(i) /\ SameRevision(r, i)
      BY <2>1, <2>2 DEF MayPublish
    <2>4. Content(req[r].seen[i]) = Content(rows[i])
      BY <1>1, <2>1, <2>2, <2>3, ReadyIsNotIdle, PageIsCurrent
    <2>5. pub'[i].text = rows[i].text /\ pub'[i].answer = rows[i].answer
      BY <1>1, <2>2, PublicationFields DEF Inv, TypeOK
    <2> QED
      BY <1>1, <2>1, <2>2, <2>4, <2>5, Answering, ContentFields DEF Inv
  <1>2. ASSUME Inv, Next, pub' # pub PROVE \E r \in Requests : ConfirmCandidates(r)
    BY <1>2 DEF Next, ClientStep, Send, Resend, Forget, Check, Rollback, EditStep,
      SaveCandidate, AttachAnswers, AssignSourceSpans, StructureStep, ReorderCandidates,
      RestructureCandidates, DeferItem, DeleteTask, ReviewStep, ConfirmPaperReview
  <1>3. Inv /\ [Next]_vars =>
          [\A i \in Items : pub'[i] # pub[i] =>
              \E r \in Requests :
                /\ Answered(r) /\ Asked(r).op = "confirm" /\ i \in Named(r)
                /\ req[r].seen[i].text = pub'[i].text
                /\ req[r].seen[i].answer = pub'[i].answer]_vars
    BY <1>1, <1>2
  <1> QED
    BY <1>3, Invariance, PTL DEF Spec, PublishedAsSeen

-----------------------------------------------------------------------------
(***************************************************************************)
(* No block is lost.                                                       *)
(***************************************************************************)
Holds(i, b) == rows[i].disp \in {"active", "deferred"} /\ b \in rows[i].blocks

EveryBlockIsHeld == order # <<>> => \A b \in Blocks : \E i \in Items : Holds(i, b)

LEMMA HeldIsNotLost == EveryBlockIsHeld <=> NoBlockLost
  BY DEF EveryBlockIsHeld, Holds, NoBlockLost

\* Every row that held a block holds it still.
HoldersStay == \A i \in Items, b \in Blocks : Holds(i, b) => Holds(i, b)'

LEMMA ContentBlocks ==
  ASSUME NEW row, NEW old, Content(row) = Content(old)
  PROVE  row.blocks = old.blocks
  BY DEF Content

LEMMA SameRowHolds ==
  ASSUME NEW i \in Items, NEW b, Holds(i, b),
         rows'[i].blocks = rows[i].blocks,
         rows'[i].disp = rows[i].disp \/ rows'[i].disp = "deferred"
  PROVE  Holds(i, b)'
  BY DEF Holds

\* Saves, attachments, publications and deferrals do not move blocks.
LEMMA OthersHold ==
  ASSUME Inv, NEW r \in Requests,
         \/ SaveCandidate(r) \/ AttachAnswers(r) \/ ConfirmCandidates(r) \/ DeferItem(r)
  PROVE  HoldersStay
  <1>1. \A i \in Items : rows[i] \in Row
    BY DEF Inv, TypeOK
  <1>2. CASE SaveCandidate(r)
    <2>1. /\ Asked(r).op = "save" /\ Ready(r) /\ Current(r)
          /\ rows' = [rows EXCEPT ![Target(r)] = Saved(rows[Target(r)], r)]
      BY <1>2 DEF SaveCandidate, MaySave
    <2>2. Target(r) \in Items /\ Target(r) \in Named(r) /\ rows[Target(r)] \in Row
      BY <1>1, <2>1, Naming
    <2>3. req[r].seen[Target(r)].blocks = rows[Target(r)].blocks
      BY <2>1, <2>2, ReadyIsNotIdle, PageIsCurrent, ContentBlocks DEF Current
    <2>4. /\ Saved(rows[Target(r)], r).blocks = rows[Target(r)].blocks
          /\ Saved(rows[Target(r)], r).disp = rows[Target(r)].disp
      <3> DEFINE row == rows[Target(r)]
      <3>1. /\ Saved(row, r).blocks = req[r].seen[Target(r)].blocks
            /\ Saved(row, r).disp = row.disp
        BY <2>2 DEF Saved, Row
      <3> QED
        BY <2>3, <3>1
    <2>5. \A i \in Items : rows'[i].blocks = rows[i].blocks /\ rows'[i].disp = rows[i].disp
      BY <2>1, <2>2, <2>4 DEF Inv, TypeOK
    <2> QED
      BY <2>5, SameRowHolds DEF HoldersStay
  <1>3. CASE AttachAnswers(r)
    <2>1. Target(r) \in Items /\ rows[Target(r)] \in Row
          /\ rows' = [rows EXCEPT ![Target(r)] = Attached(rows[Target(r)])]
      BY <1>1, <1>3, Naming DEF AttachAnswers
    <2>2. /\ Attached(rows[Target(r)]).blocks = rows[Target(r)].blocks
          /\ Attached(rows[Target(r)]).disp = rows[Target(r)].disp
      BY <2>1 DEF Attached, Row
    <2>3. \A i \in Items : rows'[i].blocks = rows[i].blocks /\ rows'[i].disp = rows[i].disp
      BY <2>1, <2>2 DEF Inv, TypeOK
    <2> QED
      BY <2>3, SameRowHolds DEF HoldersStay
  <1>4. CASE ConfirmCandidates(r)
    <2>1. PICK new : rows' = [i \in Items |-> IF i \in new THEN Resolved(rows[i]) ELSE rows[i]]
      BY <1>4 DEF ConfirmCandidates
    <2>2. \A i \in Items : /\ Resolved(rows[i]).blocks = rows[i].blocks
                           /\ Resolved(rows[i]).disp = rows[i].disp
      BY <1>1 DEF Resolved, Row
    <2>3. \A i \in Items : rows'[i].blocks = rows[i].blocks /\ rows'[i].disp = rows[i].disp
      BY <2>1, <2>2
    <2> QED
      BY <2>3, SameRowHolds DEF HoldersStay
  <1>5. CASE DeferItem(r)
    <2>1. Target(r) \in Items /\ rows[Target(r)] \in Row
          /\ rows' = [rows EXCEPT ![Target(r)] = Deferred(rows[Target(r)])]
      BY <1>1, <1>5, Naming DEF DeferItem
    <2>2. /\ Deferred(rows[Target(r)]).blocks = rows[Target(r)].blocks
          /\ Deferred(rows[Target(r)]).disp = "deferred"
      BY <2>1 DEF Deferred, Row
    <2>3. \A i \in Items : /\ rows'[i].blocks = rows[i].blocks
                           /\ rows'[i].disp = rows[i].disp \/ rows'[i].disp = "deferred"
      BY <2>1, <2>2 DEF Inv, TypeOK
    <2> QED
      BY <2>3, SameRowHolds DEF HoldersStay
  <1> QED
    BY <1>2, <1>3, <1>4, <1>5

\* An assignment leaves every block as many holders as it had.
LEMMA AssignHolds ==
  ASSUME Inv, EveryBlockIsHeld, NEW r \in Requests, AssignSourceSpans(r)
  PROVE  EveryBlockIsHeld'
  <1>1. /\ Asked(r).op = "assign" /\ Current(r) /\ Conserves(r)
        /\ rows' = [i \in Items |-> IF i \in Named(r)
                                    THEN Respanned(rows[i], Reassigned(r)[i]) ELSE rows[i]]
        /\ order' = order
    BY DEF AssignSourceSpans, MayAssign
  <1>2. /\ Named(r) \subseteq Items /\ Target(r) \in Named(r)
        /\ \A i \in Named(r) : Active(i)
    BY <1>1, Naming DEF Current
  <1>3. \A i \in Items : rows[i] \in Row
    BY DEF Inv, TypeOK
  <1>4. \A i \in Items :
          /\ i \in Named(r) => rows'[i].blocks = Reassigned(r)[i] /\ rows'[i].disp = rows[i].disp
          /\ i \notin Named(r) => rows'[i] = rows[i] /\ Reassigned(r)[i] = rows[i].blocks
    <2>1. \A i \in Items : \A b : /\ Respanned(rows[i], b).blocks = b
                                  /\ Respanned(rows[i], b).disp = rows[i].disp
      BY <1>3 DEF Respanned, Row
    <2> QED
      BY <1>1, <1>2, <2>1 DEF Reassigned
  <1>5. ASSUME order # <<>>, NEW b \in Blocks PROVE \E i \in Items : Holds(i, b)'
    <2>1. PICK i \in Items : Holds(i, b)
      BY <1>5 DEF EveryBlockIsHeld
    <2>2. CASE ~Active(i)
      BY <1>2, <1>4, <2>1, <2>2 DEF Holds
    <2>3. CASE Active(i)
      <3> DEFINE Before == {j \in ActiveItems : b \in rows[j].blocks}
                 After == {j \in ActiveItems : b \in Reassigned(r)[j]}
      <3>1. Before \subseteq Items /\ After \subseteq Items /\ i \in Before
        BY <2>1, <2>3 DEF ActiveItems, Holds
      <3>2. Cardinality(Before) = Cardinality(After)
        BY <1>1 DEF Conserves
      <3>3. \A j \in After : Active(j) /\ b \in Reassigned(r)[j]
        BY DEF ActiveItems
      <3> HIDE DEF Before, After
      <3>4. IsFiniteSet(Before) /\ IsFiniteSet(After)
        BY <3>1, ItemsAssumption, FS_Subset
      <3>5. After # {}
        BY <3>1, <3>2, <3>4, FS_EmptySet
      <3>6. PICK j \in After : TRUE
        BY <3>5
      <3>7. j \in Items /\ Active(j) /\ b \in Reassigned(r)[j]
        BY <3>1, <3>3, <3>6
      <3>8. b \in rows'[j].blocks /\ rows'[j].disp = "active"
        BY <1>4, <3>7 DEF Active
      <3> QED
        BY <3>7, <3>8 DEF Holds
    <2> QED
      BY <2>2, <2>3
  <1> QED
    BY <1>1, <1>5 DEF EveryBlockIsHeld

\* The new rows of a split or a merge hold what their sources held.
LEMMA RestructureHolds ==
  ASSUME Inv, EveryBlockIsHeld, NEW r \in Requests, RestructureCandidates(r)
  PROVE  EveryBlockIsHeld'
  <1>1. /\ Asked(r).op \in {"split", "merge"} /\ Ready(r) /\ Current(r)
    BY DEF RestructureCandidates, MayRestructure
  <1>2. PICK fresh \in Fresh(r) :
          rows' = [i \in Items |->
                       IF i \in Named(r) THEN Superseded(rows[i])
                       ELSE IF i \in Range(fresh) THEN Replacement(r) ELSE rows[i]]
    BY DEF RestructureCandidates
  <1>3. /\ Named(r) \subseteq Items /\ Target(r) \in Named(r) /\ Target(r) \in Items
        /\ \A i \in Named(r) : Active(i)
    BY <1>1, Naming DEF Current
  <1>4. Range(fresh) \subseteq Unused
    BY FreshFacts
  <1>5. PICK f \in Range(fresh) : TRUE
    <2>1. fresh \in Seq(Unused) /\ Len(fresh) >= 1
      BY ListsAreSeqs DEF Fresh
    <2>2. DOMAIN fresh = 1..Len(fresh) /\ Len(fresh) \in Nat
      BY <2>1, LenProperties
    <2>3. fresh[1] \in Range(fresh)
      BY <2>1, <2>2 DEF Range
    <2> QED
      BY <2>3
  <1>6. f \in Items /\ f \notin Named(r) /\ rows'[f] = Replacement(r)
    BY <1>2, <1>3, <1>4, <1>5 DEF Unused, Active
  <1>7. \A i \in Items : rows[i] \in Row
    BY DEF Inv, TypeOK
  <1>8. ASSUME NEW i \in Named(r), NEW b \in rows[i].blocks
        PROVE  Replacement(r).disp = "active" /\ b \in Replacement(r).blocks
    <2>1. CASE Asked(r).op = "split"
      <3>1. Replacement(r) = Half(rows[Target(r)]) /\ i = Target(r)
        BY <1>8, <2>1, NamesOne DEF Replacement
      <3>2. /\ Half(rows[Target(r)]).disp = rows[Target(r)].disp
            /\ Half(rows[Target(r)]).blocks = rows[Target(r)].blocks
        BY <1>3, <1>7 DEF Half, Row
      <3> QED
        BY <1>3, <1>8, <3>1, <3>2 DEF Active
    <2>2. CASE Asked(r).op # "split"
      BY <1>8, <2>2 DEF Replacement, Merged
    <2> QED
      BY <2>1, <2>2
  <1>9. ASSUME NEW b \in Blocks, NEW i \in Items, Holds(i, b)
        PROVE  \E j \in Items : Holds(j, b)'
    <2>1. CASE i \in Named(r)
      BY <1>6, <1>8, <1>9, <2>1 DEF Holds
    <2>2. CASE i \notin Named(r)
      <3>1. rows'[i] = rows[i]
        BY <1>2, <1>4, <1>9, <2>2 DEF Holds, Unused
      <3> QED
        BY <1>9, <3>1 DEF Holds
    <2> QED
      BY <2>1, <2>2
  <1>10. order # <<>>
    BY <1>3, EmptySeq DEF Inv, OrderIsActive, Range, ActiveItems
  <1> QED
    BY <1>9, <1>10 DEF EveryBlockIsHeld

LEMMA OrderStaysEmpty ==
  ASSUME Inv, Inv', Next, order = <<>>
  PROVE  order' = <<>>
  <1>1. ActiveItems = {}
    BY DEF Inv, OrderIsActive, Range
  <1>2. ActiveItems' = {}
    <2> SUFFICES ASSUME NEW i \in Items, Active(i)' PROVE FALSE
      BY DEF ActiveItems
    <2>1. ~Active(i) /\ rows'[i] # rows[i]
      BY <1>1 DEF ActiveItems, Active
    <2>2. PICK r \in Requests : rows' = Nobody \/ Moves(r)
      BY <2>1, RowSteps
    <2>3. rows' # Nobody
      BY DEF Nobody, Row0, Active
    <2> QED
      BY <1>1, <2>1, <2>2, <2>3 DEF Moves
  <1>3. order' \in Seq(Items) /\ Range(order') = {}
    BY <1>2 DEF Inv, TypeOK, OrderIsActive
  <1>4. Len(order') \in Nat /\ DOMAIN order' = 1..Len(order')
    BY <1>3, LenProperties
  <1>5. Len(order') = 0
    <2>1. \A n \in 1..Len(order') : order'[n] \in Range(order')
      BY <1>4 DEF Range
    <2>2. 1 \notin 1..Len(order')
      BY <1>3, <2>1
    <2> QED
      BY <1>4, <2>2
  <1> QED
    BY <1>3, <1>5, EmptySeq

LEMMA StepHolds ==
  ASSUME Inv, Inv', EveryBlockIsHeld, Next
  PROVE  EveryBlockIsHeld'
  <1> SUFFICES ASSUME order # <<>>, order' # <<>> PROVE EveryBlockIsHeld'
    BY OrderStaysEmpty DEF EveryBlockIsHeld
  <1>1. CASE HoldersStay
    BY <1>1 DEF HoldersStay, EveryBlockIsHeld
  <1>2. CASE rows' = rows
    BY <1>2 DEF EveryBlockIsHeld, Holds
  <1>3. CASE \E r \in Requests : AssignSourceSpans(r)
    BY <1>3, AssignHolds
  <1>4. CASE \E r \in Requests : RestructureCandidates(r)
    BY <1>4, RestructureHolds
  <1>5. ASSUME rows' # rows, ~HoldersStay, ~(\E r \in Requests : AssignSourceSpans(r)),
               ~(\E r \in Requests : RestructureCandidates(r))
        PROVE  FALSE
    <2>1. ASSUME NEW r \in Requests, ClientStep(r) \/ Check(r) \/ Rollback(r) PROVE FALSE
      BY <1>5, <2>1 DEF ClientStep, Send, Resend, Forget, Check, Rollback
    <2>2. ASSUME NEW r \in Requests, EditStep(r) PROVE FALSE
      BY <1>5, <2>2, OthersHold DEF EditStep
    <2>3. ASSUME NEW r \in Requests, StructureStep(r) PROVE FALSE
      BY <1>5, <2>3, OthersHold DEF StructureStep, ReorderCandidates, DeleteTask
    <2>4. ASSUME NEW r \in Requests, ReviewStep(r) PROVE FALSE
      BY <1>5, <2>4, OthersHold DEF ReviewStep, ConfirmPaperReview
    <2> QED
      BY <2>1, <2>2, <2>3, <2>4 DEF Next
  <1> QED
    BY <1>1, <1>2, <1>3, <1>4, <1>5

\* No block of the paper is lost, whatever edits and structural changes overlap.
THEOREM BlocksAreKept == Spec => []NoBlockLost
  <1>1. Init => EveryBlockIsHeld
    <2> SUFFICES ASSUME Init, NEW b \in Blocks PROVE Holds(b, b) /\ b \in Items
      BY DEF EveryBlockIsHeld
    <2>1. b \in Items
      BY FirstOrderAssumption, NamedRange DEF Blocks
    <2> QED
      BY <2>1 DEF Init, Holds
  <1>2. EveryBlockIsHeld /\ UNCHANGED vars => EveryBlockIsHeld'
    BY DEF EveryBlockIsHeld, vars, Holds
  <1>3. Inv /\ Inv' /\ EveryBlockIsHeld /\ [Next]_vars => EveryBlockIsHeld'
    BY <1>2, StepHolds
  <1>4. EveryBlockIsHeld => NoBlockLost
    BY HeldIsNotLost
  <1> QED
    BY <1>1, <1>3, <1>4, Invariance, PTL DEF Spec

\* Rows, reading order, publications and counters tell one story, for papers of any size.
THEOREM RowsAlwaysAgree == Spec => []RowsAgree
  BY PublishedKeepRows, OrderListsActive, CountsAgree, PTL DEF RowsAgree

\* No update is lost and no evidence rewritten, for any number of clients.
THEOREM RowsChangeOnlyAsSeen == Spec => RowsChangeAsSeen
  BY NoUpdateIsLost, RetiredStays, PTL DEF RowsChangeAsSeen
=============================================================================
