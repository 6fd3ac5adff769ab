----------------------------- MODULE Judgements -----------------------------
(***************************************************************************)
(* The relevance set of ml/relevance: queries are built from a snapshot,   *)
(* candidate episodes are pooled for them, a model (llm_judge.py) and      *)
(* people (review.py) append their grades to one file, and export.py turns *)
(* it into the qrels every system is evaluated on.                         *)
(*                                                                         *)
(* Each judge runs at most one program at a time; programs of different    *)
(* judges overlap.  A grade is told by who gave it, so the file is, for    *)
(* each pair, the judges of its lines in the order they were written, and  *)
(* a qrels file the judge whose grade holds of each pair.  Texts and the   *)
(* retrieval systems, whose answers are choices, are left out.             *)
(***************************************************************************)
EXTENDS Naturals, Sequences, FiniteSets

CONSTANTS
  None,
  Shows,              \* the shows of the catalogue, by id
  English,            \* those whose language is English
  TitleOf,            \* show -> its normalized title
  PersonOf,           \* show -> its publisher, if that looks like a person, or None
  NavigationalCount,
  EntityCount,
  Curated,            \* the queries written by hand
  Episodes,
  Machines, People,   \* the judges
  MaxArrivals,        \* bound on the episodes that arrive
  MaxTasks,           \* bound on the pairs of a pool
  MaxRuns             \* bound on the programs that are started

\* No outcome of an export is none.
JudgementsAssumption == None \notin {"unreadable", "judged twice", "unknown queries", "exported"}

VARIABLES
  counts,   \* show -> its episodes in the latest snapshot
  queries,  \* queries.jsonl
  tasks,    \* tasks.jsonl
  lines,    \* judgments.jsonl: pair -> who wrote each of its lines, in order
  torn,     \* it holds half a line
  pending,  \* judge -> the pairs left to its running program, or None
  qrels,    \* qrels.txt
  verdict,  \* what the last export came to
  arrivals,
  runs

vars == <<counts, queries, tasks, lines, torn, pending, qrels, verdict, arrivals, runs>>

Judges == Machines \cup People
Lines(pair) == IF pair \in DOMAIN lines THEN lines[pair] ELSE <<>>
Graders(pair) == {Lines(pair)[n] : n \in DOMAIN Lines(pair)}
Written(judge) == {pair \in DOMAIN lines : judge \in Graders(pair)}
Judged == UNION {Written(j) : j \in Judges}

Init ==
  /\ counts = [s \in Shows |-> 1]
  /\ queries = {} /\ tasks = {} /\ lines = <<>> /\ torn = FALSE
  /\ pending = [j \in Judges |-> None]
  /\ qrels = <<>> /\ verdict = None /\ arrivals = 0 /\ runs = 0

----------------------------------------------------------------------------
(***************************************************************************)
(* queries.py and pool.py.                                                 *)
(***************************************************************************)

\* The English shows, those with most episodes first and then by id.
Before(s, t) == counts[s] > counts[t] \/ (counts[s] = counts[t] /\ s < t)

\* The first shows that differ in a name, up to the number wanted.
FirstNamed(S, name, wanted) ==
  LET first == {s \in S : \A t \in S : name[t] = name[s] => t = s \/ Before(s, t)}
  IN  {name[s] : s \in {u \in first : Cardinality({t \in first : Before(t, u)}) < wanted}}

Navigational == FirstNamed(English, TitleOf, NavigationalCount)

Entities ==
  LET hosts == {s \in English : PersonOf[s] # None /\ PersonOf[s] \notin Navigational}
  IN  FirstNamed(hosts, PersonOf, EntityCount)

\* An id is the hash of a query's type and text.
QueryId(type, text) == <<type, text>>

BuildQueries ==
  /\ runs < MaxRuns /\ runs' = runs + 1
  /\ queries' = {QueryId("navigational", n) : n \in Navigational}
                  \cup {QueryId("entity", n) : n \in Entities}
                  \cup Curated
  /\ UNCHANGED <<counts, tasks, lines, torn, pending, qrels, verdict, arrivals>>

\* Episodes arrive and another snapshot is taken.
Arrive ==
  /\ arrivals < MaxArrivals /\ arrivals' = arrivals + 1
  /\ \E s \in Shows : counts' = [counts EXCEPT ![s] = @ + 1]
  /\ UNCHANGED <<queries, tasks, lines, torn, pending, qrels, verdict, runs>>

\* What the systems find is written over the tasks of before; a killed run
\* leaves fewer of them.
Pool ==
  /\ runs < MaxRuns /\ runs' = runs + 1
  /\ \E found \in SUBSET (queries \X Episodes) :
       Cardinality(found) <= MaxTasks /\ tasks' = found
  /\ UNCHANGED <<counts, queries, lines, torn, pending, qrels, verdict, arrivals>>

----------------------------------------------------------------------------
(***************************************************************************)
(* llm_judge.py and review.py: both read what is judged at their start.    *)
(***************************************************************************)

Unjudged == tasks \ Judged

\* Half a line is no JSON: the program ends at once.
Start(judge) ==
  /\ runs < MaxRuns /\ runs' = runs + 1
  /\ pending[judge] = None /\ tasks # {} /\ ~torn
  /\ pending' = [pending EXCEPT ![judge] = Unjudged]
  /\ UNCHANGED <<counts, queries, tasks, lines, torn, qrels, verdict, arrivals>>

\* Lines of one judge, so many about each pair, at the end of the file.
AppendLines(added, judge) ==
  lines' = [p \in DOMAIN lines \cup DOMAIN added |->
              Lines(p) \o [n \in 1..(IF p \in DOMAIN added THEN added[p] ELSE 0) |-> judge]]

\* Faulty variant: an episode the model grades twice is written twice.
AcceptEvery(batch, answer) ==
  [p \in batch |-> Cardinality({i \in DOMAIN answer : answer[i] = p[2]})]

\* The lines a reply makes: one for each wanted episode it grades.
Accept(batch, answer) ==
  [p \in batch |-> IF \E i \in DOMAIN answer : answer[i] = p[2] THEN 1 ELSE 0]

\* A model may leave out episodes, repeat them and name others.
Replies == UNION {[1..n -> Episodes] : n \in 0..Cardinality(Episodes) + 1}

BatchOf(judge, query) == {p \in pending[judge] : p[1] = query}

\* One query's candidates are graded and flushed, or the call fails and the
\* query is left out.
GradeBatch(judge) ==
  /\ pending[judge] # None
  /\ \E query \in {p[1] : p \in pending[judge]} :
       LET batch == BatchOf(judge, query)
       IN  /\ pending' = [pending EXCEPT ![judge] = @ \ batch]
           /\ \/ UNCHANGED lines
              \/ \E answer \in Replies :
                   LET accepted == Accept(batch, answer)
                   IN  AppendLines([p \in {q \in batch : accepted[q] > 0} |-> accepted[p]], judge)
  /\ UNCHANGED <<counts, queries, tasks, torn, qrels, verdict, arrivals, runs>>

\* A batch is longer than the buffer: a kill leaves some of its lines, and
\* maybe half a line after them.
JudgeKilled(judge) ==
  /\ pending[judge] # None
  /\ \E query \in {p[1] : p \in pending[judge]} :
       \E kept \in SUBSET BatchOf(judge, query) :
         /\ AppendLines([p \in kept |-> 1], judge)
         /\ \/ UNCHANGED torn
            \/ kept # BatchOf(judge, query) /\ torn' = TRUE
  /\ pending' = [pending EXCEPT ![judge] = None]
  /\ UNCHANGED <<counts, queries, tasks, qrels, verdict, arrivals, runs>>

\* All is graded, the limit is reached, or the person quits.
Stop(judge) ==
  /\ pending[judge] # None
  /\ pending' = [pending EXCEPT ![judge] = None]
  /\ UNCHANGED <<counts, queries, tasks, lines, torn, qrels, verdict, arrivals, runs>>

\* A person grades a pair, skips it, or skips the rest of its query.
Review(judge) ==
  /\ pending[judge] # None
  /\ \E p \in pending[judge] :
       \/ /\ AppendLines([q \in {p} |-> 1], judge)
          /\ pending' = [pending EXCEPT ![judge] = @ \ {p}]
       \/ /\ pending' = [pending EXCEPT ![judge] = @ \ {p}]
          /\ UNCHANGED lines
       \/ /\ pending' = [pending EXCEPT ![judge] = @ \ BatchOf(judge, p[1])]
          /\ UNCHANGED lines
  /\ UNCHANGED <<counts, queries, tasks, torn, qrels, verdict, arrivals, runs>>

----------------------------------------------------------------------------
(***************************************************************************)
(* export.py.                                                              *)
(***************************************************************************)

OncePerJudge ==
  \A p \in DOMAIN lines : \A m, n \in DOMAIN lines[p] : lines[p][m] = lines[p][n] => m = n

Known == \A p \in Judged : p[1] \in queries

\* Faulty variant: the last line of the file holds, whoever wrote it.
LastLine(pair) == {lines[pair][Len(lines[pair])]}

\* sort_values by whether a person wrote the line: the people's come last.  The
\* sort is not stable, so that equals may come in any order.
Sorted(pair) ==
  LET places == DOMAIN lines[pair]
  IN  {order \in [places -> places] :
         /\ \A n \in places : \E m \in places : order[m] = n
         /\ \A m, n \in places :
              m < n /\ lines[pair][order[m]] \in People => lines[pair][order[n]] \in People}

\* drop_duplicates keeps the last of a pair.
Effective(pair) == {lines[pair][order[Len(lines[pair])]] : order \in Sorted(pair)}

Export ==
  /\ runs < MaxRuns /\ runs' = runs + 1
  /\ \/ /\ torn \/ Judged = {} \/ queries = {}
        /\ verdict' = "unreadable" /\ UNCHANGED qrels
     \/ /\ ~torn /\ Judged # {} /\ queries # {} /\ ~OncePerJudge
        /\ verdict' = "judged twice" /\ UNCHANGED qrels
     \/ /\ ~torn /\ Judged # {} /\ queries # {} /\ OncePerJudge /\ ~Known
        /\ verdict' = "unknown queries" /\ UNCHANGED qrels
     \/ /\ ~torn /\ Judged # {} /\ queries # {} /\ OncePerJudge /\ Known
        /\ verdict' = "exported"
        /\ \E grade \in [Judged -> Judges] :
             /\ \A p \in Judged : grade[p] \in Effective(p)
             /\ qrels' = grade
  /\ UNCHANGED <<counts, queries, tasks, lines, torn, pending, arrivals>>

Next ==
  \/ BuildQueries \/ Arrive \/ Pool \/ Export
  \/ \E j \in Judges : Start(j) \/ Stop(j)
  \/ \E j \in Machines : GradeBatch(j) \/ JudgeKilled(j)
  \/ \E j \in People : Review(j)

Spec == Init /\ [][Next]_vars

----------------------------------------------------------------------------
\* No order of runs, kills and careless replies makes one judge grade a pair
\* twice, which the export refuses for good (contracts.py): a run skips what
\* any judge had graded before it.
ExportAccepts == verdict # "judged twice"

\* An export prefers people, whatever the order of the lines: where a person graded
\* a pair, the grade is a person's.  So an audit lasts: no model that judges later,
\* and no export after that, takes a pair out of the file or a person's grade back.
HumanWins ==
  [][/\ qrels' # qrels =>
          \A p \in DOMAIN qrels' : Graders(p) \cap People # {} => qrels'[p] \in People
     /\ \A p \in DOMAIN qrels :
          p \in DOMAIN qrels' /\ (qrels[p] \in People => qrels'[p] \in People)]_vars

\* What data/relevance/README.md promises to a person who audits a model: a
\* review that starts offers every pooled pair no person has graded yet.
ReviewOffersMachineGrades ==
  [][\A j \in People :
       (pending[j] = None /\ pending'[j] # None)
         => \A t \in tasks : (\A p \in People : t \notin Written(p)) => t \in pending'[j]]_vars

=============================================================================
