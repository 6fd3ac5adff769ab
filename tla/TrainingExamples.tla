--------------------------- MODULE TrainingExamples ---------------------------
(***************************************************************************)
(* How training examples come to be: ml/datasets/llm_queries.py and        *)
(* name_queries.py write query files beside a snapshot, ml/hard_negatives/ *)
(* mine.py adds what the baselines confuse with each positive, and         *)
(* ml/datasets/build.py turns all of it into rows and validates them (the  *)
(* splits are DatasetStore's).  The two writers that call a model or the   *)
(* database append to their file, may be killed, and go on from what the   *)
(* file holds; the catalogue grows under the miner.                        *)
(*                                                                         *)
(* Whatever is drawn by a seeded hash is a choice: the properties must     *)
(* hold for every seed.  A text is the kind of query it is and its name.   *)
(***************************************************************************)
EXTENDS Integers, FiniteSets, FiniteSetsExt, TLC

CONSTANTS
  None,
  Snapshot,      \* the episodes of the snapshot
  Arriving,      \* episodes that arrive in the catalogue after it
  Shows,
  ShowOf,        \* the show of every episode
  Published,     \* its publication time, or None
  SampleSize,    \* --episodes of llm_queries
  Title, Publisher,  \* the normalized names of every show, "" for none
  HeldOut,       \* the normalized texts of the relevance set
  Category,      \* the shows of the category that is large enough to be one
  BatchSize,     \* BATCH_SIZE
  MaxNamed,      \* bound on how often a reply names an episode
  PerShow, PerPublisher,  \* how many name queries of each kind a show gets
  Negatives,     \* negatives_per_example
  Hard, Popular, \* hard_negatives, popular_negatives of the llm_query generator
  Depth,         \* --depth
  Extra,         \* how many more are drawn when shows are excluded
  MaxKills       \* bound on the runs killed

ExamplesAssumption == Shows \subseteq Nat /\ MaxNamed \in Nat

VARIABLES
  live,     \* the episodes of the catalogue
  llm,      \* llm-queries-<model>.jsonl: how many rows every episode has
  names,    \* name-queries.jsonl
  mined,    \* the two -negatives.jsonl: query file -> episode -> candidates
  stage,    \* the program being run
  run,      \* what that run has left to do
  last,     \* the row of the dataset built last
  kills

vars == <<live, llm, names, mined, stage, run, last, kills>>

Episodes == Snapshot \cup Arriving
ShowsOfName(field, text) == {s \in Shows : field[s] = text}
Take(n, S) == {T \in SUBSET S : Cardinality(T) = Min({n, Cardinality(S)})}

\* sample_episodes: every dated episode of the snapshot may be drawn.
Samples == Take(SampleSize, {e \in Snapshot : Published[e] # None})

\* The first n in the order of their ids.
Smallest(n, S) == {e \in S : Cardinality({f \in S : f < e}) < n}

Init ==
  /\ live = Snapshot /\ llm = [e \in Snapshot |-> 0] /\ names = {}
  /\ mined = [file \in {"llm", "name"} |-> <<>>]
  /\ stage = "llm" /\ run \in {[picked |-> S, pending |-> S] : S \in Samples}
  /\ last = None /\ kills = 0

----------------------------------------------------------------------------
(***************************************************************************)
(* llm_queries.generate.                                                   *)
(***************************************************************************)
\* Faulty variant: an episode is answered as often as the model names it.
AcceptEvery(reply, batch) == [e \in Snapshot |-> IF e \in batch THEN reply[e] ELSE 0]

\* An id that was asked for, the first time it is named.
Accept(reply, batch) == [e \in Snapshot |-> IF e \in batch /\ reply[e] > 0 THEN 1 ELSE 0]

\* How often the model names every episode, which it may not have been asked for.
Replies == [Snapshot -> 0..MaxNamed]

AppendRows(rows) == llm' = [e \in Snapshot |-> llm[e] + rows[e]]

\* One batch: the call fails and the batch is passed over, or its rows are
\* appended.
LLMBatch ==
  /\ stage = "llm" /\ run.pending # {}
  /\ LET batch == Smallest(BatchSize, run.pending)
     IN /\ UNCHANGED llm \/ \E reply \in Replies : AppendRows(Accept(reply, batch))
        /\ run' = [run EXCEPT !.pending = @ \ batch]
  /\ UNCHANGED <<live, names, mined, stage, last, kills>>

\* The rows past the last flush of a killed batch are lost.
LLMKilled ==
  /\ stage = "llm" /\ run.pending # {} /\ kills < MaxKills
  /\ kills' = kills + 1
  /\ \E flushed \in SUBSET Smallest(BatchSize, run.pending), reply \in Replies :
       AppendRows(Accept(reply, flushed))
  /\ run' = [run EXCEPT !.pending = {}]
  /\ UNCHANGED <<live, names, mined, stage, last>>

Answered == {e \in Snapshot : llm[e] > 0}

\* Started again, or not: failed batches and omitted episodes stay without a row.
LLMAgain ==
  /\ stage = "llm" /\ run.pending = {}
  /\ run.picked \ Answered # {} /\ kills < MaxKills
  /\ kills' = kills + 1
  /\ run' = [run EXCEPT !.pending = run.picked \ Answered]
  /\ UNCHANGED <<live, llm, names, mined, stage, last>>

LLMEnds ==
  /\ stage = "llm" /\ run.pending = {}
  /\ stage' = "name" /\ run' = [pending |-> Shows]
  /\ UNCHANGED <<live, llm, names, mined, last, kills>>

Generate == LLMBatch \/ LLMKilled \/ LLMAgain \/ LLMEnds

----------------------------------------------------------------------------
(***************************************************************************)
(* name_queries.build: up to PerShow under its title and PerPublisher under its publisher, none of a show that the  *)
(* relevance set names; an episode gets one query at most.                 *)
(***************************************************************************)
NameRow(e, text, field) == [episode |-> e, text |-> text, shows |-> ShowsOfName(field, text)]

\* Faulty variant: the pool is not reduced by the first kind's episodes.
PoolOfShowReused(s, taken) == {e \in Snapshot : ShowOf[e] = s /\ Published[e] # None}

PoolOfShow(s, taken) == {e \in Snapshot : ShowOf[e] = s /\ Published[e] # None} \ taken

NameShow ==
  /\ stage = "name" /\ run.pending # {}
  /\ LET s == Min(run.pending)
     IN /\ IF Title[s] \in HeldOut \/ Publisher[s] \in HeldOut
           THEN UNCHANGED names
           ELSE \E byTitle \in (IF Title[s] = "" THEN {{}} ELSE Take(PerShow, PoolOfShow(s, {}))) :
                \E byPublisher \in (IF Publisher[s] \in {"", Title[s]} THEN {{}}
                                    ELSE Take(PerPublisher, PoolOfShow(s, byTitle))) :
                  names' = names \cup {NameRow(e, Title[s], Title) : e \in byTitle}
                                 \cup {NameRow(e, Publisher[s], Publisher) : e \in byPublisher}
        /\ run' = [run EXCEPT !.pending = @ \ {s}]
  /\ UNCHANGED <<live, llm, mined, stage, last, kills>>

Queries(file) == IF file = "llm" THEN Answered ELSE {q.episode : q \in names}

\* The miner reads which show every episode belongs to once, when it starts.
StartMine(file) ==
  run' = [file |-> file, known |-> live, pending |-> Queries(file) \ DOMAIN mined[file]]

NamesEnd ==
  /\ stage = "name" /\ run.pending = {}
  /\ stage' = "mine" /\ StartMine("llm")
  /\ UNCHANGED <<live, llm, names, mined, last, kills>>

NameQueries == NameShow \/ NamesEnd

----------------------------------------------------------------------------
(***************************************************************************)
(* hard_negatives.mine.                                                    *)
(***************************************************************************)
\* Candidates of the positive's own show are dropped, as far as the miner knows
\* which show they are of.
Kept(ranking, positive) ==
  {e \in ranking : e # positive /\ ~(e \in run.known /\ ShowOf[e] = ShowOf[positive])}

MineQuery ==
  /\ stage = "mine" /\ run.pending # {}
  /\ LET e == Min(run.pending)
     IN /\ \E ranking \in Take(Depth, live) :
             mined' = [mined EXCEPT ![run.file] = (e :> Kept(ranking, e)) @@ @]
        /\ run' = [run EXCEPT !.pending = @ \ {e}]
  /\ UNCHANGED <<live, llm, names, stage, last, kills>>

\* One line is flushed per query: a killed run goes on with the next one, and
\* reads the catalogue anew.
MineKilled ==
  /\ stage = "mine" /\ run.pending # {} /\ kills < MaxKills
  /\ kills' = kills + 1 /\ StartMine(run.file)
  /\ UNCHANGED <<live, llm, names, mined, stage, last>>

\* The rows that a config with every generator asks for.
Tasks ==
  LET dated == {e \in Snapshot : Published[e] # None}
  IN ({"syn"} \X dated) \cup ({"topic"} \X {e \in dated : ShowOf[e] \in Category})
       \cup ({"llm"} \X Queries("llm")) \cup ({"name"} \X Queries("name"))

MineEnds ==
  /\ stage = "mine" /\ run.pending = {}
  /\ IF run.file = "llm"
     THEN StartMine("name") /\ UNCHANGED stage
     ELSE stage' = "build" /\ run' = [pending |-> Tasks]
  /\ UNCHANGED <<live, llm, names, mined, last, kills>>

Mine == MineQuery \/ MineKilled \/ MineEnds

\* The worker ingests.
Arrive ==
  /\ stage = "mine"
  /\ \E e \in Arriving \ live : live' = live \cup {e}
  /\ UNCHANGED <<llm, names, mined, stage, run, last, kills>>

----------------------------------------------------------------------------
(***************************************************************************)
(* build.build_dataset: one row per step, in an order that nothing depends *)
(* on, then the schema's validation.                                       *)
(***************************************************************************)
\* The shows that the query names; only name queries list them.
Named(task) == UNION {q.shows : q \in {r \in names : task[1] = "name" /\ r.episode = task[2]}}

Allowed(shows) == {e \in Episodes : e \notin Snapshot \/ ShowOf[e] \notin shows}

\* Distinct episodes outside the excluded ones, fewer when there are no more.
SampleNegatives(n, excluded) == Take(n, Snapshot \ excluded)

\* What is drawn, and the faulty variant: it is not filtered.
PopularUnfiltered(e, hard, shows) ==
  UNION {SampleNegatives(n, {e} \cup hard) : n \in 0..Popular}

\* Drawn with repetition and by popularity in a bounded number of tries: it may come out short.
PopularNegatives(e, hard, shows) ==
  {T \cap Allowed(shows) : T \in PopularUnfiltered(e, hard, shows)}

Drawn(wanted, shows) == wanted + (IF shows = {} THEN 0 ELSE Extra)

\* What is drawn is filtered and cut; the whole row is cut again.
FilledUp(e, chosen, shows) ==
  LET wanted == Negatives - Cardinality(chosen)
  IN IF wanted <= 0
     THEN Take(Negatives, chosen)
     ELSE UNION {{chosen \cup cut : cut \in Take(wanted, T \cap Allowed(shows))} :
                 T \in SampleNegatives(Drawn(wanted, shows), {e} \cup chosen)}

Chosen(e, candidates, shows) ==
  UNION {{hard \cup popular : popular \in PopularNegatives(e, hard, shows)} :
         hard \in Take(Hard, (candidates \ {e}) \cap Allowed(shows))}

QueryNegatives(e, candidates, shows) ==
  UNION {FilledUp(e, chosen, shows) : chosen \in Chosen(e, candidates, shows)}

Synthetic(e) == SampleNegatives(Negatives, {e})

Topic(e) == SampleNegatives(Negatives, {c \in Snapshot : ShowOf[c] \in Category})

\* The three generators. Queries without a dated episode of the snapshot give no row.
Generators(task) ==
  CASE task[1] = "syn" -> Synthetic(task[2])
    [] task[1] = "topic" -> Topic(task[2])
    [] OTHER -> QueryNegatives(task[2], mined[task[1]][task[2]], Named(task))

BuildRow ==
  /\ stage = "build" /\ run.pending # {}
  /\ LET task == CHOOSE t \in run.pending : TRUE
     IN /\ IF task[2] \notin Snapshot \/ Published[task[2]] = None
           THEN UNCHANGED last
           ELSE \E negatives \in Generators(task) :
                  last' = [task |-> task, negatives |-> negatives]
        /\ run' = [run EXCEPT !.pending = @ \ {task}]
  /\ UNCHANGED <<live, llm, names, mined, stage, kills>>

\* The schema stage: ids are unique.
Valid ==
  /\ \A e \in Snapshot : llm[e] <= 1
  /\ \A q, r \in names : q.episode = r.episode => q = r

Validate ==
  /\ stage = "build" /\ run.pending = {}
  /\ stage' = IF Valid THEN "built" ELSE "refused"
  /\ UNCHANGED <<live, llm, names, mined, run, last, kills>>

Build == BuildRow \/ Validate

Done == stage \in {"built", "refused"} /\ UNCHANGED vars

Next == Generate \/ NameQueries \/ Mine \/ Arrive \/ Build \/ Done

Spec == Init /\ [][Next]_vars

----------------------------------------------------------------------------
\* No run, killed or not, writes two queries for one episode, nor do the two
\* kinds of names: what was built always passes validation (example ids are
\* unique), and no work is thrown away at the end.
ValidationPasses == stage # "refused"

\* No negative that training can read (an episode of the snapshot) is the
\* positive or belongs to a show that the query names, whichever source it
\* came from; a topic's negatives are not of the topic.
NegativesAreForeign ==
  last # None =>
    LET shows == IF last.task[1] = "topic" THEN Category ELSE Named(last.task)
    IN \A e \in last.negatives \cap Snapshot : e # last.task[2] /\ ShowOf[e] \notin shows

=============================================================================
