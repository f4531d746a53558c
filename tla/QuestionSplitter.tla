--------------------------- MODULE QuestionSplitter ---------------------------
(***************************************************************************)
(* split_document_ir (question_splitter.py): how the blocks of a converted *)
(* paper become question candidates with a stem, options and children, and *)
(* what is left for review.  A block is a sequence of marks, which are     *)
(* what its regular expressions find in the text: the number of a question *)
(* or of a child, the letter of an option, the end of a line, a picture,   *)
(* and the words between them.  The blocks are taken one by one; then a    *)
(* picture may pass to the next question; then every question is divided.  *)
(* The kind of a question, its issues and its spans are left out.          *)
(***************************************************************************)
EXTENDS Naturals, Sequences, FiniteSets, SequencesExt

CONSTANT Papers    \* the converted papers: sequences of blocks

VARIABLES blocks,     \* the blocks of the paper, each mark with its place
          at,         \* how many blocks were taken
          leading,    \* pieces left for review
          segments,   \* the questions so far, each with its pieces
          waiting,    \* pictures of a section heading, for the next question
          handed,     \* how many questions were asked to hand a picture on
          questions   \* the candidates, once they are made

splitVars == <<blocks, at, leading, segments, waiting, handed, questions>>

Letters == <<"A", "B", "C", "D", "E">>

----------------------------------------------------------------------------
(* What the expressions find.                                              *)

Has(kind, marks)  == \E i \in DOMAIN marks : marks[i].is = kind
Only(S, marks)    == \A i \in DOMAIN marks : marks[i].is \in S
Blank(marks)      == Only({"line"}, marks)
Pictures(marks)   == SelectSeq(marks, LAMBDA m : m.is = "image")
Words(marks)      == SelectSeq(marks, LAMBDA m : m.is \notin {"image", "line"})
Mentions(ps)      == \E k \in DOMAIN ps : Has("see", ps[k].marks)
Pictured(ps)      == \E k \in DOMAIN ps : Has("image", ps[k].marks)
Part(marks, i, j) == SubSeq(marks, i, j)
With(piece, marks) == [piece EXCEPT !.marks = marks]

\* Places of the numbers that start a question: not one before an option letter,
\* and inside a line only with enough before it.
Starts(marks) ==
    SelectSeq([i \in DOMAIN marks |-> i],
              LAMBDA i : /\ marks[i].is = "number"
                         /\ i < Len(marks) => marks[i + 1].is # "option"
                         /\ \/ i = 1 \/ marks[i - 1].is = "line"
                            \/ \E j \in 1..(i - 1) : marks[j].is \in {"text", "image"})

\* From a heading of answers, or of an answer card, on nothing is a question.
QuestionBlocks(bs) ==
    LET ends == {i \in DOMAIN bs : bs[i].title \in {"answers", "card"}}
    IN  IF ends = {} THEN bs
        ELSE Part(bs, 1, (CHOOSE i \in ends : \A j \in ends : i <= j) - 1)

Saying(marks) == [i \in DOMAIN Words(marks) |-> Words(marks)[i].is]

\* What the whole blocks before the first question say, but not headings.
Preamble ==
    {Saying(leading[k].marks) :
        k \in {j \in DOMAIN leading : /\ leading[j].type # "header" /\ leading[j].title = ""
                                      /\ leading[j].marks = blocks[leading[j].id].marks}}

\* A title or an identity line printed again inside the questions.
RepeatedHeader(b) ==
    /\ segments # <<>>
    /\ \/ b.title = "identity"
       \/ b.title = "printed"
            /\ Saying(b.marks) \in Preamble

----------------------------------------------------------------------------
(* Taking a block (_separate_numbered_questions).                          *)

AddTo(segs, piece) ==
    [segs EXCEPT ![Len(segs)].pieces = Append(@, piece)]

\* Mutated form: a question takes the rest of its block along.
BegunToTheEnd(b, starts, moved) ==
    [k \in DOMAIN starts |->
       [number |-> b.marks[starts[k]].n,
        pieces |-> <<With(b, (IF k = 1 THEN moved ELSE <<>>)
                               \o Part(b.marks, starts[k] + 1, Len(b.marks)))>>
                     \o (IF k = 1 THEN waiting ELSE <<>>)]]

\* The questions that begin in block b: each reaches to the next number.  Pictures
\* alone before the first number belong to it.
Begun(b, starts, moved) ==
    [k \in DOMAIN starts |->
       LET to   == IF k < Len(starts) THEN starts[k + 1] - 1 ELSE Len(b.marks)
           body == Part(b.marks, starts[k] + 1, to)
       IN  [number |-> b.marks[starts[k]].n,
            pieces |-> <<With(b, (IF k = 1 THEN moved ELSE <<>>) \o body)>>
                         \o (IF k = 1 THEN waiting ELSE <<>>)]]

\* A block without a number goes on with the question, or waits for review.
TakePlain(b) ==
    IF segments = <<>> \/ b.title = "section"
    THEN leading' = Append(leading, b) /\ UNCHANGED segments
    ELSE segments' = AddTo(segments, b) /\ UNCHANGED leading

\* Mutated form: what stands before the first number of a block is left out.
TakeWithoutPrefix(b, starts) ==
    /\ segments' = segments \o Begun(b, starts, <<>>)
    /\ UNCHANGED leading

TakeNumbered(b, starts) ==
    LET prefix == Part(b.marks, 1, starts[1] - 1)
        moved  == IF ~Blank(prefix) /\ Only({"image", "line"}, prefix)
                  THEN Pictures(prefix) ELSE <<>>
        stays  == ~Blank(prefix) /\ moved = <<>>
        before == IF stays /\ segments # <<>> THEN AddTo(segments, With(b, prefix))
                  ELSE segments
    IN  /\ leading' = IF stays /\ segments = <<>> THEN Append(leading, With(b, prefix))
                      ELSE leading
        /\ segments' = before \o Begun(b, starts, moved)

TakeBlock ==
    /\ at < Len(QuestionBlocks(blocks))
    /\ at' = at + 1
    /\ LET b      == blocks[at + 1]
           starts == Starts(b.marks)
           shown  == IF b.title = "section" THEN Pictures(b.marks) ELSE <<>>
       IN  IF b.type = "header" \/ RepeatedHeader(b)
           THEN leading' = Append(leading, b) /\ UNCHANGED <<segments, waiting>>
           ELSE IF starts = <<>>
           THEN /\ TakePlain(b)
                /\ waiting' = IF shown = <<>> THEN waiting
                              ELSE Append(waiting, [With(b, shown) EXCEPT !.type = "figure"])
           ELSE TakeNumbered(b, starts) /\ waiting' = <<>>
    /\ UNCHANGED <<blocks, handed, questions>>

\* A floating picture at the end of a question that has another one goes to the
\* next question when that speaks of a picture and has none.
HandOver ==
    /\ at = Len(QuestionBlocks(blocks)) /\ handed + 1 < Len(segments)
    /\ handed' = handed + 1
    /\ LET prev  == segments[handed + 1].pieces
           next  == segments[handed + 2].pieces
           tail  == prev[Len(prev)]
           image == Pictures(tail.marks)[1]
           hands == /\ Len(prev) >= 2 /\ tail.layout = <<"anchor">>
                    /\ Pictures(tail.marks) # <<>> /\ ~Has("see", tail.marks)
                    /\ Pictured(Front(prev))
                    /\ Has("see", next[1].marks) /\ ~Pictured(next)
       IN  segments' = IF ~hands THEN segments
                       ELSE [segments EXCEPT
                              ![handed + 1].pieces =
                                 Append(Front(prev), With(tail, Remove(tail.marks, image))),
                              ![handed + 2].pieces[1] =
                                 With(@, Append(next[1].marks, image))]
    /\ UNCHANGED <<blocks, at, leading, waiting, questions>>

----------------------------------------------------------------------------
(* Dividing a question into its stem and its children (_split_children).    *)

ChildPlaces(marks) == SelectSeq([i \in DOMAIN marks |-> i], LAMBDA i : marks[i].is = "child")

\* A picture after the children belongs to the stem when only that speaks of one.
ForStem(parts, b) ==
    LET stem == parts.parent
        child == parts.children[Len(parts.children)]
    IN  b.type = "figure" /\ Mentions(stem) /\ ~Pictured(stem) /\ ~Mentions(child)

Divide(parts, b) ==
    LET places == ChildPlaces(b.marks)
        count  == Len(parts.children)
        prefix == Part(b.marks, 1, places[1] - 1)
        Body(k) == Part(b.marks, places[k] + 1,
                        IF k < Len(places) THEN places[k + 1] - 1 ELSE Len(b.marks))
    IN  IF places = <<>>
        THEN IF count = 0 \/ ForStem(parts, b)
             THEN [parts EXCEPT !.parent = Append(@, b)]
             ELSE [parts EXCEPT !.children[count] = Append(@, b)]
        ELSE [parent   |-> IF Blank(prefix) THEN parts.parent
                           ELSE Append(parts.parent, With(b, prefix)),
              children |-> parts.children \o [k \in DOMAIN places |-> <<With(b, Body(k))>>]]

Children(ps) == FoldLeft(Divide, [parent |-> <<>>, children |-> <<>>], ps)

----------------------------------------------------------------------------
(* Pictures that are options (the two promotions of _option_parts).         *)

\* Four pictures in a row, each with its letter under it, from piece i on.
LabelledRun(ps, i) ==
    /\ i + 7 <= Len(ps)
    /\ \A k \in 0..3 : /\ ps[i + 2 * k].type = "figure" /\ ps[i + 2 * k].aligned
                       /\ ps[i + 2 * k + 1].type \in {"text", "list"} /\ ps[i + 2 * k + 1].aligned
                       /\ Len(ps[i + 2 * k + 1].marks) = 1
                       /\ ps[i + 2 * k + 1].marks[1].is = "option"
                       /\ ps[i + 2 * k + 1].marks[1].key = Letters[k + 1]

\* The letter goes before its picture.
Labelled(ps) ==
    FoldLeft(LAMBDA s, i :
               IF i < s.next THEN s
               ELSE IF LabelledRun(ps, i)
               THEN [out  |-> s.out \o [k \in 1..8 |->
                                IF k % 2 = 1
                                THEN With(ps[i + k], [ps[i + k].marks EXCEPT ![1].dotted = TRUE])
                                ELSE [ps[i + k - 2] EXCEPT !.choice = TRUE]],
                     next |-> i + 8]
               ELSE [out |-> Append(s.out, ps[i]), next |-> i + 1],
             [out |-> <<>>, next |-> 1], [i \in DOMAIN ps |-> i]).out

\* The number a list puts before the letter of an option is no part of the line.
Unnumbered(marks) ==
    IF Len(marks) > 1 /\ marks[1].is = "number" /\ marks[2].is = "option" /\ marks[2].dotted
    THEN Tail(marks) ELSE marks

\* Four pictures in the line of a Word paper and the row of empty letters after it.
WordRow(ps, i) ==
    /\ i < Len(ps) /\ Len(ps[i].layout) \in {4, 5}
    /\ Len(SelectSeq(ps[i].layout, LAMBDA x : x = "inline")) = 4
    /\ Only({"image"}, ps[i].marks) /\ Len(ps[i].marks) = Len(ps[i].layout)
    /\ LET letters == Unnumbered(ps[i + 1].marks)
       IN  /\ Len(letters) = 4 /\ Only({"option"}, letters)
           /\ \A k \in 1..4 : letters[k].key = Letters[k] /\ letters[k].dotted

Line(b) == [is |-> "line", at |-> <<b, 0>>]

WordOptions(row, letters) ==
    LET Of(kind) == SelectSeq([k \in DOMAIN row.marks |-> k], LAMBDA k : row.layout[k] = kind)
        shared   == [k \in DOMAIN Of("anchor") |-> row.marks[Of("anchor")[k]]]
        choices  == [k \in 1..11 |->
                       CASE k % 3 = 1 -> Unnumbered(letters.marks)[(k \div 3) + 1]
                         [] k % 3 = 2 -> row.marks[Of("inline")[(k \div 3) + 1]]
                         [] OTHER -> Line(0)]
    IN  (IF shared = <<>> THEN <<>> ELSE <<With(row, shared)>>)
          \o <<With(row, choices), With(letters, <<>>)>>

WordChoices(ps) ==
    FoldLeft(LAMBDA s, i :
               IF i < s.next THEN s
               ELSE IF WordRow(ps, i)
               THEN [out |-> s.out \o WordOptions(ps[i], ps[i + 1]), next |-> i + 2]
               ELSE [out |-> Append(s.out, ps[i]), next |-> i + 1],
             [out |-> <<>>, next |-> 1], [i \in DOMAIN ps |-> i]).out

----------------------------------------------------------------------------
(* The options of a stem or of a child (_option_line_matches, _option_parts).*)

Lines(marks) ==
    FoldLeft(LAMBDA ls, m : IF m.is = "line" THEN Append(ls, <<>>)
                            ELSE [ls EXCEPT ![Len(ls)] = Append(@, m)],
             <<<<>>>>, marks)

LetterPlaces(line, all) ==
    SelectSeq([i \in DOMAIN line |-> i],
              LAMBDA i : line[i].is = "option" /\ (all \/ line[i].dotted))
Keys(line, places) == [k \in DOMAIN places |-> line[places[k]].key]

\* Where the last complete run of A to D begins, 0 when there is none.
LastRun(keys) ==
    LET runs == {i \in DOMAIN keys : i + 3 <= Len(keys) /\ SubSeq(keys, i, i + 3) = SubSeq(Letters, 1, 4)}
    IN  IF runs = {} THEN 0 ELSE CHOOSE i \in runs : \A j \in runs : j <= i

\* The places of the letters that open an option in this line, after the options `had`.
Matches(line, had) ==
    LET dotted == LetterPlaces(line, FALSE)
        all    == LetterPlaces(line, TRUE)
        d == LastRun(Keys(line, dotted))
        a == LastRun(Keys(line, all))
        tail == SelectSeq(all, LAMBDA i : i >= dotted[1] /\ line[i].key \in {"C", "D"})
    IN  IF d # 0 THEN SubSeq(dotted, d, Len(dotted))
        ELSE IF a # 0 THEN SubSeq(all, a, a + 3)
        ELSE IF had = <<"A", "B">> /\ Keys(line, dotted) = <<"C">>
                  /\ Len(tail) >= 2 /\ SubSeq(Keys(line, tail), 1, 2) = <<"C", "D">>
        THEN SubSeq(tail, 1, 2)
        ELSE IF had = <<>> /\ dotted # <<>> /\ line[dotted[1]].key = "E" THEN <<>>
        ELSE dotted

OptionKeys(s)   == [k \in DOMAIN s.options |-> s.options[k].key]
OtherFilled(s)  == \E k \in DOMAIN s.options : k # s.active /\ s.options[k].marks # <<>>
WaitsForText(s) == s.active # 0 /\ s.options[s.active].marks = <<>> /\ OtherFilled(s)

\* An option is opened; a letter met again goes on with its option.
OpenOption(s, key, body, b) ==
    LET same == {k \in DOMAIN s.options : s.options[k].key = key}
        k    == IF same = {} THEN Len(s.options) + 1 ELSE CHOOSE j \in same : TRUE
    IN  IF same = {}
        THEN [s EXCEPT !.options = Append(@, [key |-> key, marks |-> body, last |-> b.id]),
                       !.active = k]
        ELSE [s EXCEPT !.options[k].marks = @ \o body, !.options[k].last = b.id, !.active = k]

GoOn(s, marks, b) ==
    [s EXCEPT !.options[s.active].marks = @ \o marks, !.options[s.active].last = b.id]

\* One line of piece b.
OptionLine(s, text, b) ==
    LET line   == IF b.type = "list" THEN Unnumbered(text) ELSE text
        places == Matches(line, OptionKeys(s))
        prefix == IF places = <<>> THEN <<>> ELSE Part(line, 1, places[1] - 1)
        opens  == /\ places # <<>>
                  /\ \/ Only({"image"}, prefix)
                     \/ LastRun(Keys(line, places)) = 1
        Body(k) == Part(line, places[k] + 1,
                        IF k < Len(places) THEN places[k + 1] - 1 ELSE Len(line))
    IN  IF opens
        THEN FoldLeft(LAMBDA t, k : OpenOption(t, line[places[k]].key, Body(k), b),
                      [s EXCEPT !.stem = @ \o prefix], [k \in DOMAIN places |-> k])
        ELSE IF s.active # 0 /\ (WaitsForText(s) \/ \E k \in DOMAIN s.options : s.options[k].last = b.id)
        THEN GoOn(s, line, b)
        ELSE [s EXCEPT !.stem = @ \o line, !.active = 0]

OptionPiece(s, b) ==
    IF b.type # "figure"
    THEN FoldLeft(LAMBDA t, line : OptionLine(t, line, b), s, Lines(b.marks))
    ELSE IF s.active # 0 /\ b.choice
    THEN [GoOn(s, b.marks, b) EXCEPT !.active = 0]
    ELSE [s EXCEPT !.stem = @ \o b.marks, !.active = IF WaitsForText(s) THEN @ ELSE 0]

OptionParts(ps) ==
    FoldLeft(OptionPiece, [stem |-> <<>>, options |-> <<>>, active |-> 0],
             Labelled(WordChoices(ps)))

\* A question candidate (_candidate).
Candidate(segment) ==
    LET parts == Children(segment.pieces)
        Both(ps) == LET o == OptionParts(ps)
                    IN  [stem |-> o.stem,
                         options |-> [k \in DOMAIN o.options |-> o.options[k].marks]]
    IN  [number |-> segment.number, own |-> Both(parts.parent),
         children |-> [k \in DOMAIN parts.children |-> Both(parts.children[k])]]

Finish ==
    /\ at = Len(QuestionBlocks(blocks)) /\ handed + 1 >= Len(segments)
    /\ questions = <<>> /\ segments # <<>>
    /\ questions' = [k \in DOMAIN segments |-> Candidate(segments[k])]
    /\ UNCHANGED <<blocks, at, leading, segments, waiting, handed>>

----------------------------------------------------------------------------
Placed(paper) ==
    [b \in DOMAIN paper |->
       [type |-> paper[b].type, title |-> paper[b].title, layout |-> paper[b].layout,
        aligned |-> paper[b].aligned, choice |-> FALSE, id |-> b,
        marks |-> [i \in DOMAIN paper[b].marks |-> paper[b].marks[i] @@ [at |-> <<b, i>>]]]]

SplitInit ==
    /\ \E paper \in Papers : blocks = Placed(paper)
    /\ at = 0 /\ handed = 0
    /\ leading = <<>> /\ segments = <<>> /\ waiting = <<>> /\ questions = <<>>

SplitNext == TakeBlock \/ HandOver \/ Finish

SplitSpec == SplitInit /\ [][SplitNext]_splitVars

----------------------------------------------------------------------------
(* Properties.                                                             *)

Content(marks) == {marks[i].at : i \in {j \in DOMAIN marks : marks[j].is \in {"text", "see", "image"}}}

Parts(q) == {q.own.stem} \cup Range(q.own.options)
              \cup UNION {{q.children[k].stem} \cup Range(q.children[k].options) : k \in DOMAIN q.children}

InQuestion(q) == UNION {Content(p) : p \in Parts(q)}
Leading       == UNION {Content(leading[k].marks) : k \in DOMAIN leading}
Asked         == UNION {InQuestion(questions[k]) : k \in DOMAIN questions}
Taken         == UNION {Content(blocks[b].marks) : b \in 1..at}

\* Blocks are taken in their order, and no part is made before they all are.
SplitTypeOK ==
    /\ at \in 0..Len(blocks)
    /\ handed \in 0..Len(segments)
    /\ questions # <<>> => Len(questions) = Len(segments)

\* Every word and picture of the paper before its answers is in a question or
\* left for review ("every block left for review", split_document_ir).
NothingIsLost == questions # <<>> => Taken \subseteq Asked \cup Leading

Later(p, q) == p[1] > q[1] \/ (p[1] = q[1] /\ p[2] > q[2])

\* The place of the number question k began with.
NumberPlaces ==
    LET all == {<<b, i>> : b \in 1..at, i \in 1..8}
    IN  {p \in all : /\ p[2] \in DOMAIN blocks[p[1]].marks
                     /\ blocks[p[1]].type # "header"
                     /\ p[2] \in Range(Starts(blocks[p[1]].marks))}
NumberPlace(k) ==
    CHOOSE p \in NumberPlaces : Cardinality({q \in NumberPlaces : Later(p, q)}) = k - 1

\* The words of a question stand after its number and before the next one, and
\* no word is in two parts: a number met late never takes words of another
\* question along, whatever promotion and division did with the pieces.
WordsStayWithTheirNumber ==
    questions # <<>> =>
       \A k \in DOMAIN questions :
          LET words == {p \in InQuestion(questions[k]) : blocks[p[1]].marks[p[2]].is # "image"}
          IN  /\ \A p \in words : /\ Later(p, NumberPlace(k))
                                  /\ k < Len(questions) => Later(NumberPlace(k + 1), p)
              /\ \A P, Q \in Parts(questions[k]) : P # Q => Content(P) \cap Content(Q) \cap words = {}
=============================================================================
