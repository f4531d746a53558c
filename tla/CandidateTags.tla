---------------------------- MODULE CandidateTags ----------------------------
(***************************************************************************)
(* Suggested tags of a question (generate_llm_candidates of repository.py, *)
(* llm.py, the budget of providers.py).  Worker and HTTP threads read the  *)
(* question, what it consists of and the tags that are enabled, look for a *)
(* stored suggestion under a key made of all that, and else ask a model    *)
(* within its budget and store the answer under the key.  Each statement   *)
(* sees the database of its own moment; people edit the question, enable   *)
(* tags and save provider settings in between.  Where no model is set up,  *)
(* keyword rules suggest.                                                  *)
(***************************************************************************)
EXTENDS Naturals, FiniteSets

CONSTANTS
    Threads,       \* threads that ask for suggestions
    Tags,          \* tags, by the order the rules list them in
    Models,        \* model settings that may be saved
    NoModel,
    Found,         \* [version -> the tags whose name, chapter or keywords it mentions]
    Estimate,      \* [version -> the estimated cost of asking about it]
    Costs,         \* what a call may turn out to cost
    ModelLimit,    \* tags a model may choose: 3
    RuleLimit,     \* tags the rules suggest: 5
    DailyLimit, PerCall, MonthlyBudget,  \* the provider's limits, 0 for none
    MaxText,       \* bound: versions of the question
    MaxSaved,      \* bound: times settings are saved
    MaxCopies      \* bound: a suggestion is forced only below as many copies

CandidateAssumption ==
    /\ IsFiniteSet(Threads) /\ Tags \subseteq Nat /\ NoModel \notin Models
    /\ Costs \subseteq Nat /\ \E c \in Costs : \A d \in Costs : d <= c
    /\ Estimate \in [1..MaxText -> Nat]
    /\ DailyLimit \in Nat /\ PerCall \in Nat /\ MonthlyBudget \in Nat
    /\ MaxText \in Nat \ {0} /\ MaxSaved \in Nat

VARIABLES
    text,        \* the question's version; its content document changes with it
    enabledTags,
    config,      \* [Models -> Setting]: provider_configs
    candidates,  \* question_tag_candidates
    today,       \* [Models -> Nat]: calls counted today
    spent,       \* [Models -> Nat]: the month's cost
    run          \* [Threads -> Run]

candidateVars == <<text, enabledTags, config, candidates, today, spent, run>>
providerVars  == <<config, today, spent>>

\* saved is the time of the last save, 0 before the first; key: has an API key.
Setting == [on : BOOLEAN, key : BOOLEAN, saved : 0..MaxSaved]
Unsaved == [on |-> FALSE, key |-> FALSE, saved |-> 0]

Versions == 1..MaxText
Source   == [text : Versions, doc : 0..MaxText]

Run  == [pc : {"idle", "reading", "asking", "calling", "storing"}, forced : BOOLEAN,
         seen : [text : 0..MaxText, doc : 0..MaxText], allowed : SUBSET Tags,
         model : Models \cup {NoModel}, tags : SUBSET Tags]
Idle == [pc |-> "idle", forced |-> FALSE, seen |-> [text |-> 0, doc |-> 0], allowed |-> {},
         model |-> NoModel, tags |-> {}]

MaxCost == CHOOSE c \in Costs : \A d \in Costs : d <= c

CandidateInit ==
    /\ text = 1 /\ enabledTags = Tags
    /\ config = [m \in Models |-> Unsaved]
    /\ candidates = {}
    /\ today = [m \in Models |-> 0] /\ spent = [m \in Models |-> 0]
    /\ run = [t \in Threads |-> Idle]

-----------------------------------------------------------------------------
(* What is asked, and of whom.                                             *)

\* The enabled setting that was saved last.
CurrentModel ==
    LET on == {m \in Models : config[m].on}
    IN  IF on = {} THEN NoModel
        ELSE CHOOSE m \in on : \A n \in on : config[n].saved <= config[m].saved

\* Mutated form: the key is made of the question as it is when the answer is stored.
KeyLater(r) == [text |-> text, doc |-> text, model |-> r.model]

\* The key of a suggestion: what the run has read, and the model it asks.
CacheKey(r) == [text |-> r.seen.text, doc |-> r.seen.doc, model |-> r.model]

\* A suggestion stored under this key; one that was forced never is.
Cached(r) == {c \in candidates : c.key = CacheKey(r) /\ c.copy = 0}

\* Suggestions that were forced have keys of their own.
Copies == Cardinality({c \in candidates : c.copy > 0})

\* The question is read, with its version.
ReadQuestionRow(t, forced) ==
    /\ run[t].pc = "idle"
    /\ forced => Copies + Cardinality({u \in Threads : run[u].forced}) < MaxCopies
    /\ run' = [run EXCEPT ![t].pc = "reading", ![t].forced = forced, ![t].seen.text = text]
    /\ UNCHANGED <<text, enabledTags, candidates, providerVars>>

\* The first tags of a set in the order of the list.
Leading(S, n) == {x \in S : Cardinality({y \in S : y < x}) < n}

\* The rules take the tags the question mentions, else the first of all for a
\* teacher to judge.
RuleTags(version, allowed) ==
    IF Found[version] \cap allowed # {} THEN Leading(Found[version] \cap allowed, RuleLimit)
    ELSE Leading(allowed, 1)

\* Then its document, the enabled tags and the provider.  Without a provider the
\* rules answer; a stored suggestion is returned as it is; without an API key the
\* run fails.
ReadRest(t) ==
    /\ run[t].pc = "reading"
    /\ LET r == [run[t] EXCEPT !.seen.doc = text, !.allowed = enabledTags, !.model = CurrentModel]
       IN  run' = [run EXCEPT ![t] =
              IF r.model = NoModel
              THEN [r EXCEPT !.pc = "storing", !.tags = RuleTags(r.seen.text, r.allowed)]
              ELSE IF (Cached(r) # {} /\ ~r.forced) \/ ~config[r.model].key THEN Idle
              ELSE [r EXCEPT !.pc = "asking"]]
    /\ UNCHANGED <<text, enabledTags, candidates, providerVars>>

-----------------------------------------------------------------------------
(* The budget and the call.                                                *)

\* Mutated form: one call more than the limit.
WithinLimits_OneMore(m, estimate) ==
    /\ DailyLimit = 0 \/ today[m] <= DailyLimit
    /\ PerCall = 0 \/ estimate <= PerCall
    /\ MonthlyBudget = 0 \/ spent[m] + estimate <= MonthlyBudget

\* The month's budget must also cover the estimate of this call.
WithinLimits(m, estimate) ==
    /\ DailyLimit = 0 \/ today[m] < DailyLimit
    /\ PerCall = 0 \/ estimate <= PerCall
    /\ MonthlyBudget = 0 \/ spent[m] + estimate <= MonthlyBudget

Allowed(m, version) == config[m].on /\ WithinLimits(m, Estimate[version])

\* A call the budget refuses is recorded and counts for nothing.
CheckBudget(t) ==
    /\ run[t].pc = "asking"
    /\ run' = [run EXCEPT ![t] = IF Allowed(run[t].model, run[t].seen.text)
                                 THEN [run[t] EXCEPT !.pc = "calling"] ELSE Idle]
    /\ UNCHANGED <<text, enabledTags, candidates, providerVars>>

\* The use of a model is recorded, with the windows of the day and the month.
RecordUsage(m, cost) ==
    /\ today' = [today EXCEPT ![m] = @ + 1]
    /\ spent' = [spent EXCEPT ![m] = @ + cost]
    /\ UNCHANGED config

\* An answer names few tags, all among those it was offered.
Valid(answer, allowed) == answer \subseteq allowed /\ Cardinality(answer) <= ModelLimit

\* The model answers, well or not.
Answered(t) ==
    /\ run[t].pc = "calling"
    /\ \E answer \in SUBSET Tags, cost \in Costs :
          /\ RecordUsage(run[t].model, cost)
          /\ run' = [run EXCEPT ![t] =
                IF Valid(answer, run[t].allowed)
                THEN [run[t] EXCEPT !.pc = "storing", !.tags = answer] ELSE Idle]
    /\ UNCHANGED <<text, enabledTags, candidates>>

\* No answer: an address that is wrong, an error, a timeout.  What was asked is
\* charged.
CallFailed(t) ==
    /\ run[t].pc = "calling"
    /\ \E cost \in Costs : cost <= Estimate[run[t].seen.text] /\ RecordUsage(run[t].model, cost)
    /\ run' = [run EXCEPT ![t] = Idle]
    /\ UNCHANGED <<text, enabledTags, candidates>>

\* The process dies; a call under way stays unrecorded.
Die(t) ==
    /\ run[t].pc # "idle"
    /\ run' = [run EXCEPT ![t] = Idle]
    /\ UNCHANGED <<text, enabledTags, candidates, providerVars>>

-----------------------------------------------------------------------------
\* made is history: what the suggestion was made from.
Row(r, copy) == [key |-> CacheKey(r), copy |-> copy, tags |-> r.tags, made |-> r.seen]

\* A suggestion that was stored under the key meanwhile stays, and is returned; a
\* forced one is always stored.
StoreCandidate(t) ==
    /\ run[t].pc = "storing"
    /\ candidates' = IF run[t].forced THEN candidates \cup {Row(run[t], Copies + 1)}
                     ELSE IF Cached(run[t]) # {} THEN candidates
                     ELSE candidates \cup {Row(run[t], 0)}
    /\ run' = [run EXCEPT ![t] = Idle]
    /\ UNCHANGED <<text, enabledTags, providerVars>>

-----------------------------------------------------------------------------
(* Meanwhile.                                                              *)

\* An edit replaces the question and its document together.
EditQuestion ==
    /\ text < MaxText
    /\ text' = text + 1
    /\ UNCHANGED <<enabledTags, candidates, providerVars, run>>

SwitchTag(x) ==
    /\ enabledTags' = IF x \in enabledTags THEN enabledTags \ {x} ELSE enabledTags \cup {x}
    /\ UNCHANGED <<text, candidates, providerVars, run>>

\* The time of the last save.
Now == CHOOSE n \in 0..MaxSaved : /\ \A m \in Models : config[m].saved <= n
                                  /\ n = 0 \/ \E m \in Models : config[m].saved = n

\* An empty field keeps the API key that is stored.
SaveSetting(m, on, key) ==
    /\ Now < MaxSaved
    /\ config' = [config EXCEPT ![m] = [on |-> on, key |-> @.key \/ key, saved |-> Now + 1]]
    /\ UNCHANGED <<text, enabledTags, candidates, today, spent, run>>

-----------------------------------------------------------------------------
Requests    == \E t \in Threads, forced \in BOOLEAN : ReadQuestionRow(t, forced)
Reads       == \E t \in Threads : ReadRest(t)
Checks      == \E t \in Threads : CheckBudget(t)
Returns     == \E t \in Threads : Answered(t)
FailedCalls == \E t \in Threads : CallFailed(t)
Dies        == \E t \in Threads : Die(t)
Stores      == \E t \in Threads : StoreCandidate(t)
Switches    == \E x \in Tags : SwitchTag(x)
Settings    == \E m \in Models, on, key \in BOOLEAN : SaveSetting(m, on, key)

CandidateNext == \/ Requests \/ Reads \/ Checks \/ Returns \/ FailedCalls \/ Dies \/ Stores
                 \/ EditQuestion \/ Switches \/ Settings

CandidateSpec == CandidateInit /\ [][CandidateNext]_candidateVars

-----------------------------------------------------------------------------
\* Rows and runs are what the tables and the code can hold.
CandidateTypeOK ==
    /\ text \in Versions /\ enabledTags \subseteq Tags
    /\ config \in [Models -> Setting]
    /\ \A t \in Threads : run[t] \in Run
    /\ \A c \in candidates : c.made \in Source /\ c.tags \subseteq Tags

\* A stored suggestion is what its key says, made from that text and document, and
\* one key never has two.  One that carries the present version was made from the
\* present document, although the two are read one after the other: the version is
\* read first.
CandidatesFit ==
    /\ \A c \in candidates :
          /\ c.key.text = c.made.text /\ c.key.doc = c.made.doc
          /\ c.key.text = text => c.made.doc = text
    /\ \A c, d \in candidates : c.key = d.key /\ c.copy = d.copy => c = d

\* However many threads ask together, the limits of a provider are passed by no more
\* than the calls that were under way.
LimitsNearlyHold ==
    \A m \in Models :
       /\ DailyLimit > 0 => today[m] <= DailyLimit + Cardinality(Threads) - 1
       /\ MonthlyBudget > 0 => spent[m] <= MonthlyBudget + Cardinality(Threads) * MaxCost
=============================================================================
