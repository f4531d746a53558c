---------------------------- MODULE LearningGraph ----------------------------
(***************************************************************************)
(* Where the diagnosis card of a question comes from and how the school's  *)
(* learning graph grows with it (diagnosis.py: jobs, learning_graph.py,    *)
(* learning_goals.py).                                                     *)
(*                                                                         *)
(* Workers claim the job of the card under a lease and ask a model; a      *)
(* reviewed card may be installed meanwhile.  The graph is a sequence of   *)
(* immutable releases: each is the one before with one change, made by a   *)
(* worker that prepares a candidate or by a teacher at a review page.      *)
(***************************************************************************)
EXTENDS Naturals, FiniteSets

CONSTANTS Workers,      \* worker threads that may run jobs
          Objectives,   \* learning objectives an edge may connect
          Pages,        \* review pages of teachers
          MaxClaims,    \* bound: claims of the job
          MaxConfigs,   \* bound: times the provider is configured
          MaxReleases   \* bound: releases of the graph

GraphAssumption ==
    /\ IsFiniteSet(Objectives)
    /\ MaxClaims \in Nat /\ MaxConfigs \in Nat /\ MaxReleases \in Nat

VARIABLES job,       \* the row of diagnostic_jobs
          card,      \* the row of diagnostic_cards
          runs,      \* worker -> the claim it works on, 0 if none
          configs,   \* times a provider was configured
          claims,    \* claims so far: the tokens
          graph,     \* the latest release
          pages      \* page -> the release it shows

lgVars == <<job, card, runs, configs, claims, graph, pages>>

NoCard  == [source |-> "none", run |-> 0, last |-> 0]
NoToken == 0
NoRun   == 0

Possible == {e \in Objectives \X Objectives : e[1] # e[2]}
NoEdges  == [e \in Possible |-> "none"]

----------------------------------------------------------------------------
(* The latest release.                                                     *)

\* Nothing can be reached from itself over prerequisites a teacher approved:
\* some order of the objectives agrees with all of them.
Acyclic(edges) ==
    LET approved == {e \in Possible : edges[e] = "approved"}
    IN  \A S \in SUBSET Objectives : S # {} =>
           \E o \in S : \A q \in S : <<o, q>> \notin approved

\* A publication gets the next number.
Published(g) == [g EXCEPT !.version = @ + 1]

\* Mutated form: whatever the page shows is saved.
AnyPage(p) == pages[p].version <= graph.version

\* A page may publish only what it changed in the latest release.
Current(p) == pages[p].version = graph.version

----------------------------------------------------------------------------
(* The job of the card.                                                    *)

\* A question without a card gets a job, which waits for a provider.
Enqueue ==
    /\ job.status = "none" /\ card = NoCard
    /\ job' = [job EXCEPT !.status = IF configs > 0 THEN "queued" ELSE "waiting_config"]
    /\ UNCHANGED <<card, runs, configs, claims, graph, pages>>

\* A saved provider gives jobs that waited or failed their attempts back, and
\* reconciles: a question without a card or a job gets one.
SaveConfig ==
    /\ configs < MaxConfigs
    /\ configs' = configs + 1
    /\ job' = IF job.status \in {"waiting_config", "failed"}
              THEN [job EXCEPT !.status = "queued", !.attempts = 0]
              ELSE IF job.status = "none" /\ card = NoCard
              THEN [job EXCEPT !.status = "queued"] ELSE job
    /\ UNCHANGED <<card, runs, claims, graph, pages>>

AfterFailure(j) == IF j.attempts >= 3 THEN "failed" ELSE "queued"

\* run_once, first transaction: a job whose lease is over is given back or given
\* up, one that waited is queued, and a queued one is claimed.
Recovered ==
    IF job.status = "running" /\ job.late
    THEN [job EXCEPT !.status = AfterFailure(job), !.token = NoToken]
    ELSE IF job.status = "waiting_config" /\ configs > 0
    THEN [job EXCEPT !.status = "queued"]
    ELSE job

Claim(w) ==
    /\ runs[w] = NoRun
    /\ IF Recovered.status = "queued" /\ configs > 0
       THEN /\ claims < MaxClaims
            /\ claims' = claims + 1
            /\ runs' = [runs EXCEPT ![w] = claims + 1]
            /\ job' = [Recovered EXCEPT !.status = "running", !.attempts = @ + 1,
                                        !.token = claims + 1, !.late = FALSE]
       ELSE /\ Recovered # job
            /\ job' = Recovered
            /\ UNCHANGED <<claims, runs>>
    /\ UNCHANGED <<card, configs, graph, pages>>

\* 180 seconds have passed since the claim.
LeaseEnds ==
    /\ job.status = "running" /\ ~job.late
    /\ job' = [job EXCEPT !.late = TRUE]
    /\ UNCHANGED <<card, runs, configs, claims, graph, pages>>

\* Mutated form: a job that is running is taken for the worker's own.
RunningIsEnough(w) == job.status = "running"

Claimed(w) == job.status = "running" /\ job.token = runs[w]

\* Mutated form: only what the model made is stored.
StoredIfMade(source, run) ==
    IF card = NoCard /\ source = "model"
    THEN [source |-> source, run |-> run, last |-> claims] ELSE card

\* A card is stored unless there is one, and its job is done.
Stored(source, run) ==
    IF card = NoCard THEN [source |-> source, run |-> run, last |-> claims] ELSE card

Done(j) == IF j.status = "none" THEN j ELSE [j EXCEPT !.status = "completed"]

\* The draft mapping of a new card is published beside what was reviewed.
Candidate == IF graph.card = "none" THEN Published([graph EXCEPT !.card = "draft"]) ELSE graph

\* The model's card came back valid: it is stored if the job is still this
\* worker's, and its candidate enters the graph.
Generated(w) ==
    /\ runs[w] # NoRun
    /\ runs' = [runs EXCEPT ![w] = NoRun]
    /\ IF Claimed(w)
       THEN /\ Candidate.version <= MaxReleases
            /\ card' = Stored("model", runs[w])
            /\ job' = Done(job)
            /\ graph' = Candidate
       ELSE UNCHANGED <<card, job, graph>>
    /\ UNCHANGED <<configs, claims, pages>>

\* The call, its budget or the card failed: whoever still has the token gives the
\* job back, even if it was completed meanwhile.
GenerationFailed(w) ==
    /\ runs[w] # NoRun
    /\ runs' = [runs EXCEPT ![w] = NoRun]
    /\ job' = IF job.token = runs[w] THEN [job EXCEPT !.status = AfterFailure(job)] ELSE job
    /\ UNCHANGED <<card, configs, claims, graph, pages>>

\* The process dies during the call.
WorkerDies(w) ==
    /\ runs[w] # NoRun
    /\ runs' = [runs EXCEPT ![w] = NoRun]
    /\ UNCHANGED <<job, card, configs, claims, graph, pages>>

\* A card reviewed beforehand is installed for exactly this question.
Backfill ==
    /\ card = NoCard \/ job.status \notin {"none", "completed"}
    /\ card' = Stored("reviewed", NoRun)
    /\ job' = Done(job)
    /\ UNCHANGED <<runs, configs, claims, graph, pages>>

----------------------------------------------------------------------------
(* Review of the graph.                                                    *)

OpenReview(p) ==
    /\ pages[p].version # graph.version
    /\ pages' = [pages EXCEPT ![p] = graph]
    /\ UNCHANGED <<job, card, runs, configs, claims, graph>>

\* A change of the latest release by page p.
Publish(p, g) ==
    /\ Current(p)
    /\ graph.version < MaxReleases
    /\ graph' = Published(g)
    /\ UNCHANGED <<job, card, runs, configs, claims, pages>>

\* A prerequisite is entered, or an edge is replaced by it.
SaveEdge(p) ==
    \E new \in Possible, old \in {{}} \cup {{e} : e \in {d \in Possible : graph.edges[d] # "none"}} :
       LET edges == [e \in Possible |-> IF e = new THEN "approved"
                                        ELSE IF e \in old THEN "none" ELSE graph.edges[e]]
       IN  /\ Acyclic(edges)
           /\ Publish(p, [graph EXCEPT !.edges = edges])

\* Mutated form: relations confirmed together are not checked for cycles.
ReviewedUnchecked(marked, status) ==
    [e \in Possible |-> IF e \in marked THEN status ELSE graph.edges[e]]

\* Several relations are confirmed or ruled out; a cycle refuses all.
Reviewed(marked, status) ==
    LET edges == [e \in Possible |-> IF e \in marked THEN status ELSE graph.edges[e]]
    IN  IF Acyclic(edges) THEN edges ELSE graph.edges

ReviewEdges(p) ==
    \E marked \in SUBSET {e \in Possible : graph.edges[e] # "none"}, s \in {"approved", "rejected"} :
       /\ marked # {}
       /\ Reviewed(marked, s) # graph.edges
       /\ Publish(p, [graph EXCEPT !.edges = Reviewed(marked, s)])

\* A teacher corrects the card and confirms its objectives: its content changes.
SaveCard(p) ==
    /\ card # NoCard
    /\ Publish(p, [graph EXCEPT !.card = "approved", !.content = 1])

\* A teacher binds an action of the card to a shared goal; a binding that was
\* made for other content is dropped.
SaveBinding(p) ==
    /\ card # NoCard
    /\ Publish(p, [graph EXCEPT !.bound = [content |-> graph.content, status |-> "approved"]])

----------------------------------------------------------------------------
GraphInit ==
    /\ job = [status |-> "none", attempts |-> 0, token |-> NoToken, late |-> FALSE]
    /\ card = NoCard
    /\ runs = [w \in Workers |-> NoRun]
    /\ configs = 0
    /\ claims = 0
    /\ graph = [version |-> 0, edges |-> NoEdges, card |-> "none", content |-> 0,
                bound |-> [content |-> 0, status |-> "none"]]
    /\ pages = [p \in Pages |-> graph]

Claiming  == \E w \in Workers : Claim(w)
Generates == \E w \in Workers : Generated(w)
Failures  == \E w \in Workers : GenerationFailed(w)
Deaths    == \E w \in Workers : WorkerDies(w)
OpensReview  == \E p \in Pages : OpenReview(p)
SavesEdge    == \E p \in Pages : SaveEdge(p)
ReviewsEdges == \E p \in Pages : ReviewEdges(p)
SavesCard    == \E p \in Pages : SaveCard(p)
SavesBinding == \E p \in Pages : SaveBinding(p)

GraphNext == \/ Enqueue \/ SaveConfig \/ Claiming \/ LeaseEnds \/ Generates \/ Failures
             \/ Deaths \/ Backfill \/ OpensReview \/ SavesEdge \/ ReviewsEdges
             \/ SavesCard \/ SavesBinding

GraphSpec == GraphInit /\ [][GraphNext]_lgVars

----------------------------------------------------------------------------
JobStatuses == {"none", "waiting_config", "queued", "running", "completed", "failed"}

\* The rows are what the tables can hold; a job that is done has its card.
GraphTypeOK ==
    /\ job \in [status : JobStatuses, attempts : 0..MaxClaims, token : 0..MaxClaims,
                late : BOOLEAN]
    /\ job.status = "completed" => card # NoCard
    /\ card \in [source : {"none", "model", "reviewed"}, run : 0..MaxClaims, last : 0..MaxClaims]
    /\ graph.version <= MaxReleases
    /\ \A e \in Possible : graph.edges[e] \in {"none", "approved", "rejected"}
    /\ graph.card \in {"none", "draft", "approved"}
    /\ \A p \in Pages : pages[p].version <= graph.version

\* The card in use was made by the run that had the job then, however long an
\* earlier one took (run_once: the token is compared before the card is stored).
CardOfTheLastRun == card.source = "model" => card.run = card.last

\* Prerequisites that teachers approved never lead back to where they start,
\* in whatever order pages add and confirm them (check_cycles).
NoCycles == Acyclic(graph.edges)

\* What students are shown: the card of the run that had the job, and an order of
\* objectives that has a beginning.
GraphIsSound == CardOfTheLastRun /\ NoCycles

\* What teachers decide of the graph: its prerequisites, the card and its binding.
Decided(g) == [edges |-> g.edges, confirmed |-> g.card = "approved",
               content |-> g.content, bound |-> g.bound]

\* A teacher decides something at page p.
Decides(p) == SaveEdge(p) \/ ReviewEdges(p) \/ SaveCard(p) \/ SaveBinding(p)

\* Nobody's decision is lost: what was decided changes only at a page that shows all
\* of it as it is, so never at a page opened before another teacher's change or a
\* worker's, and never by a worker (the version is compared, releases are whole).
ReviewIsKept ==
    [][ /\ Decided(graph)' # Decided(graph) => \E p \in Pages : Decides(p)
        /\ \A p \in Pages : Decided(pages[p]) # Decided(graph) => ~Decides(p) ]_graph
=============================================================================
