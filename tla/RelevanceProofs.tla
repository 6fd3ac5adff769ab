---------------------------- MODULE RelevanceProofs ----------------------------
(***************************************************************************)
(* Proofs about what is done with relevance judgements (MCRelevance): for  *)
(* any judges, pools, queries, folds, catalogues, programs and kills.      *)
(***************************************************************************)
EXTENDS MCRelevance, FiniteSets, FiniteSetTheorems, TLAPS

-----------------------------------------------------------------------------
(* Collecting the judgements (Judgements).                                 *)

LEMMA JudgementsBehaviour == Spec => judgements!Spec
  <1>1. Init => judgements!Init
    BY DEF Init
  <1>2. [Next]_vars => [judgements!Next]_(judgements!vars)
    BY DEF Next, vars, judgementVars, judgements!vars
  <1>3. QED
    BY <1>1, <1>2, PTL DEF Spec, judgements!Spec

\* No judge wrote twice about a pair, and what is left to a running program its
\* judge has not written about; what was exported is the grade of a line.
JudgedOnce ==
  /\ \A p \in DOMAIN lines :
       /\ lines[p] \in Seq(judgements!Judges)
       /\ \A m, n \in DOMAIN lines[p] : lines[p][m] = lines[p][n] => m = n
  /\ DOMAIN pending = judgements!Judges
  /\ \A j \in judgements!Judges : pending[j] # None =>
       \A p \in pending[j] : j \notin judgements!Graders(p)
  /\ \A p \in DOMAIN qrels : p \in DOMAIN lines /\ qrels[p] \in judgements!Graders(p)
  /\ verdict # "judged twice"

\* What a judge appends once about pairs that are left to it.
LEMMA AppendedOnce ==
  ASSUME JudgedOnce, NEW j \in judgements!Judges, NEW added,
         pending[j] # None, DOMAIN added \subseteq pending[j],
         \A p \in DOMAIN added : added[p] = 1,
         judgements!AppendLines(added, j)
  PROVE  /\ DOMAIN lines' = DOMAIN lines \cup DOMAIN added
         /\ \A p \in DOMAIN lines' :
              /\ lines'[p] \in Seq(judgements!Judges)
              /\ \A m, n \in DOMAIN lines'[p] : lines'[p][m] = lines'[p][n] => m = n
         /\ \A p : judgements!Graders(p)' =
                     judgements!Graders(p) \cup IF p \in DOMAIN added THEN {j} ELSE {}
  <1>1. lines' = [p \in DOMAIN lines \cup DOMAIN added |->
                   judgements!Lines(p) \o
                     [n \in 1..(IF p \in DOMAIN added THEN added[p] ELSE 0) |-> j]]
    BY DEF judgements!AppendLines
  <1>2. \A p : /\ judgements!Lines(p) \in Seq(judgements!Judges)
               /\ \A m, n \in DOMAIN judgements!Lines(p) :
                    judgements!Lines(p)[m] = judgements!Lines(p)[n] => m = n
    <2>1. <<>> \in Seq(judgements!Judges) /\ DOMAIN <<>> = {}
      OBVIOUS
    <2>2. QED
      BY <2>1 DEF JudgedOnce, judgements!Lines
  <1>3. ASSUME NEW p \in DOMAIN added
        PROVE  /\ lines'[p] \in Seq(judgements!Judges)
               /\ \A m, n \in DOMAIN lines'[p] : lines'[p][m] = lines'[p][n] => m = n
               /\ {lines'[p][n] : n \in DOMAIN lines'[p]} = judgements!Graders(p) \cup {j}
    <2> DEFINE old == judgements!Lines(p)
    <2>1. lines'[p] = old \o [n \in 1..1 |-> j]
      BY <1>1, <1>3
    <2>2. old \in Seq(judgements!Judges) /\ \A m, n \in DOMAIN old : old[m] = old[n] => m = n
      BY <1>2
    <2>3. judgements!Graders(p) = {old[n] : n \in DOMAIN old}
      BY DEF judgements!Graders
    <2>4. \A n \in DOMAIN old : old[n] # j
      <3>1. j \notin judgements!Graders(p)
        BY <1>3 DEF JudgedOnce
      <3>2. QED
        BY <2>3, <3>1
    <2> HIDE DEF old
    <2>5. /\ lines'[p] \in Seq(judgements!Judges)
          /\ DOMAIN lines'[p] = DOMAIN old \cup {Len(old) + 1} /\ Len(old) + 1 \notin DOMAIN old
          /\ \A n \in DOMAIN old : lines'[p][n] = old[n]
          /\ lines'[p][Len(old) + 1] = j
      BY <2>1, <2>2
    <2>6. \A m, n \in DOMAIN lines'[p] : lines'[p][m] = lines'[p][n] => m = n
      BY <2>2, <2>4, <2>5
    <2>7. {lines'[p][n] : n \in DOMAIN lines'[p]} = {old[n] : n \in DOMAIN old} \cup {j}
      BY <2>5
    <2>8. QED
      BY <2>3, <2>5, <2>6, <2>7
  <1>4. ASSUME NEW p \in DOMAIN lines \ DOMAIN added PROVE lines'[p] = lines[p]
    <2>1. lines'[p] = lines[p] \o [n \in 1..0 |-> j]
      BY <1>1, <1>4 DEF judgements!Lines
    <2>2. lines[p] \in Seq(judgements!Judges)
      BY <1>4 DEF JudgedOnce
    <2>3. QED
      BY <2>1, <2>2
  <1>5. DOMAIN lines' = DOMAIN lines \cup DOMAIN added
    BY <1>1
  <1>6. ASSUME NEW p
        PROVE  judgements!Graders(p)' =
                 judgements!Graders(p) \cup IF p \in DOMAIN added THEN {j} ELSE {}
    <2>1. judgements!Graders(p)' =
            IF p \in DOMAIN lines' THEN {lines'[p][n] : n \in DOMAIN lines'[p]} ELSE {}
      BY DEF judgements!Graders, judgements!Lines
    <2>2. judgements!Graders(p) =
            IF p \in DOMAIN lines THEN {lines[p][n] : n \in DOMAIN lines[p]} ELSE {}
      BY DEF judgements!Graders, judgements!Lines
    <2>3. CASE p \in DOMAIN added
      BY <1>3, <1>5, <2>1, <2>3
    <2>4. CASE p \notin DOMAIN added
      BY <1>4, <1>5, <2>1, <2>2, <2>4
    <2>5. QED
      BY <2>3, <2>4
  <1>7. QED
    BY <1>3, <1>4, <1>5, <1>6 DEF JudgedOnce

\* The steps of the judges that leave less to their own program.
LEMMA LinesOnce ==
  ASSUME JudgedOnce, NEW j \in judgements!Judges, NEW added, NEW left,
         pending[j] # None, DOMAIN added \subseteq pending[j],
         \A p \in DOMAIN added : added[p] = 1,
         judgements!AppendLines(added, j),
         pending' = [pending EXCEPT ![j] = left],
         left = None \/ (left \subseteq pending[j] /\ left \cap DOMAIN added = {}),
         verdict' = verdict, qrels' = qrels
  PROVE  JudgedOnce'
  <1>1. /\ DOMAIN lines' = DOMAIN lines \cup DOMAIN added
        /\ \A p \in DOMAIN lines' :
              /\ lines'[p] \in Seq(judgements!Judges)
              /\ \A m, n \in DOMAIN lines'[p] : lines'[p][m] = lines'[p][n] => m = n
        /\ \A p : judgements!Graders(p)' =
                    judgements!Graders(p) \cup IF p \in DOMAIN added THEN {j} ELSE {}
    BY AppendedOnce
  <1>2. DOMAIN pending' = judgements!Judges /\ \A k \in judgements!Judges : k # j => pending'[k] = pending[k]
    BY DEF JudgedOnce
  <1>3. pending'[j] = left
    BY DEF JudgedOnce
  <1>4. ASSUME NEW k \in judgements!Judges, pending'[k] # None, NEW p \in pending'[k]
        PROVE  k \notin judgements!Graders(p)'
    <2>1. CASE k = j
      <3>1. p \in pending[j] /\ p \notin DOMAIN added
        BY <1>3, <1>4, <2>1
      <3>2. QED
        BY <1>1, <2>1, <3>1 DEF JudgedOnce
    <2>2. CASE k # j
      <3>1. k \notin judgements!Graders(p)
        BY <1>2, <1>4, <2>2 DEF JudgedOnce
      <3>2. QED
        BY <1>1, <2>2, <3>1
    <2>3. QED
      BY <2>1, <2>2
  <1>5. judgements!Judges' = judgements!Judges
    BY DEF judgements!Judges
  <1>6. \A p \in DOMAIN qrels : p \in DOMAIN lines' /\ qrels[p] \in judgements!Graders(p)'
    BY <1>1 DEF JudgedOnce
  <1>7. QED
    BY <1>1, <1>2, <1>4, <1>5, <1>6 DEF JudgedOnce

\* Rows sorted with the people's last, and the last kept: the grade of a line, and
\* a person's if a person wrote one.
LEMMA PeopleComeLast ==
  ASSUME NEW p, lines[p] \in Seq(judgements!Judges), p \in judgements!Judged,
         NEW g \in judgements!Effective(p)
  PROVE  /\ g \in judgements!Graders(p)
         /\ judgements!Graders(p) \cap People # {} => g \in People
  <1> DEFINE N == Len(lines[p])
  <1>1. p \in DOMAIN lines /\ judgements!Graders(p) = {lines[p][n] : n \in 1..N} /\ N \in Nat
    BY DEF judgements!Judged, judgements!Written, judgements!Graders, judgements!Lines
  <1>2. judgements!Graders(p) # {}
    BY DEF judgements!Judged, judgements!Written
  <1>3. PICK order \in [1..N -> 1..N] :
          /\ \A n \in 1..N : \E m \in 1..N : order[m] = n
          /\ \A m, n \in 1..N : m < n /\ lines[p][order[m]] \in People => lines[p][order[n]] \in People
          /\ g = lines[p][order[N]]
    <2>1. DOMAIN lines[p] = 1..N
      OBVIOUS
    <2>2. PICK order \in judgements!Sorted(p) : g = lines[p][order[N]]
      BY DEF judgements!Effective
    <2>3. QED
      BY <2>1, <2>2 DEF judgements!Sorted
  <1>4. N \in 1..N
    BY <1>1, <1>2
  <1>5. g \in judgements!Graders(p)
    BY <1>1, <1>3, <1>4
  <1>6. ASSUME NEW n \in 1..N, lines[p][n] \in People PROVE g \in People
    <2>1. PICK m \in 1..N : order[m] = n
      BY <1>3
    <2>2. CASE m = N
      BY <1>3, <1>6, <2>1, <2>2
    <2>3. CASE m < N
      BY <1>3, <1>4, <1>6, <2>1, <2>3
    <2>4. QED
      BY <1>1, <2>2, <2>3
  <1>7. QED
    BY <1>1, <1>5, <1>6

\* The steps that write no line.
LEMMA LinesStay ==
  ASSUME JudgedOnce, lines' = lines, DOMAIN pending' = judgements!Judges,
         \A j \in judgements!Judges : pending'[j] # None =>
            \A p \in pending'[j] : j \notin judgements!Graders(p),
         \A p \in DOMAIN qrels' : p \in DOMAIN lines /\ qrels'[p] \in judgements!Graders(p),
         verdict' # "judged twice"
  PROVE  JudgedOnce'
  <1>1. \A p : judgements!Graders(p)' = judgements!Graders(p)
    BY DEF judgements!Graders, judgements!Lines
  <1>2. judgements!Judges' = judgements!Judges
    BY DEF judgements!Judges
  <1>3. \A p \in DOMAIN lines' :
          /\ lines'[p] \in Seq(judgements!Judges)
          /\ \A m, n \in DOMAIN lines'[p] : lines'[p][m] = lines'[p][n] => m = n
    BY DEF JudgedOnce
  <1>4. QED
    BY <1>1, <1>2, <1>3 DEF JudgedOnce

LEMMA JudgedOnceInit == judgements!Init => JudgedOnce
  <1> SUFFICES ASSUME judgements!Init PROVE JudgedOnce
    OBVIOUS
  <1>1. /\ DOMAIN lines = {} /\ DOMAIN qrels = {} /\ verdict = None
        /\ pending = [j \in judgements!Judges |-> None]
    BY DEF judgements!Init
  <1>2. None # "judged twice"
    BY RelevanceAssumption DEF judgements!JudgementsAssumption
  <1>3. QED
    BY <1>1, <1>2 DEF JudgedOnce

LEMMA JudgedOnceStep ==
  ASSUME JudgedOnce, [judgements!Next]_(judgements!vars)
  PROVE  JudgedOnce'
  <1>1. CASE lines' = lines /\ pending' = pending /\ verdict' = verdict /\ qrels' = qrels
    BY <1>1, LinesStay DEF JudgedOnce
  <1>2. CASE judgements!Export
    <2>1. judgements!OncePerJudge
      BY DEF judgements!OncePerJudge, JudgedOnce
    <2>2. verdict' # "judged twice" /\ lines' = lines /\ pending' = pending
      BY <1>2, <2>1 DEF judgements!Export
    <2>3. \A p \in DOMAIN qrels' : p \in DOMAIN lines /\ qrels'[p] \in judgements!Graders(p)
      <3>1. CASE qrels' = qrels
        BY <3>1 DEF JudgedOnce
      <3>2. CASE qrels' # qrels
        <4>1. DOMAIN qrels' = judgements!Judged /\ \A p \in judgements!Judged : qrels'[p] \in judgements!Effective(p)
          BY <1>2, <3>2 DEF judgements!Export
        <4>2. \A p \in judgements!Judged : p \in DOMAIN lines /\ lines[p] \in Seq(judgements!Judges)
          BY DEF judgements!Judged, judgements!Written, JudgedOnce
        <4>3. QED
          BY <4>1, <4>2, PeopleComeLast
      <3>3. QED
        BY <3>1, <3>2
    <2>4. QED
      BY <2>2, <2>3, LinesStay DEF JudgedOnce
  <1>3. ASSUME NEW j \in judgements!Judges, judgements!Start(j) PROVE JudgedOnce'
    <2>1. /\ pending' = [pending EXCEPT ![j] = judgements!Unjudged]
          /\ lines' = lines /\ verdict' = verdict /\ qrels' = qrels
      BY <1>3 DEF judgements!Start
    <2>2. ASSUME NEW p \in judgements!Unjudged PROVE j \notin judgements!Graders(p)
      <3>1. p \notin judgements!Written(j)
        BY DEF judgements!Unjudged, judgements!Judged
      <3>2. QED
        BY <3>1 DEF judgements!Written, judgements!Graders, judgements!Lines
    <2>3. QED
      BY <2>1, <2>2, LinesStay DEF JudgedOnce
  <1>4. ASSUME NEW j \in judgements!Judges, judgements!Stop(j) PROVE JudgedOnce'
    BY <1>4, LinesStay DEF judgements!Stop, JudgedOnce
  <1>5. ASSUME NEW j \in Machines, judgements!GradeBatch(j) PROVE JudgedOnce'
    <2>0. j \in judgements!Judges
      BY DEF judgements!Judges
    <2>1. PICK query : /\ pending[j] # None
                       /\ pending' = [pending EXCEPT ![j] = @ \ judgements!BatchOf(j, query)]
                       /\ verdict' = verdict /\ qrels' = qrels
                       /\ \/ lines' = lines
                          \/ \E answer \in judgements!Replies :
                               LET accepted == judgements!Accept(judgements!BatchOf(j, query), answer)
                               IN  judgements!AppendLines(
                                     [p \in {q \in judgements!BatchOf(j, query) : accepted[q] > 0}
                                        |-> accepted[p]], j)
      BY <1>5 DEF judgements!GradeBatch
    <2> DEFINE batch == judgements!BatchOf(j, query)
               left == pending[j] \ batch
    <2>2. pending' = [pending EXCEPT ![j] = left] /\ batch \subseteq pending[j]
      BY <2>1 DEF judgements!BatchOf
    <2>3. CASE lines' = lines
      BY <2>0, <2>1, <2>2, <2>3, LinesStay DEF JudgedOnce
    <2>4. ASSUME NEW answer \in judgements!Replies,
                 judgements!AppendLines(
                   [p \in {q \in batch : judgements!Accept(batch, answer)[q] > 0}
                      |-> judgements!Accept(batch, answer)[p]], j)
          PROVE  JudgedOnce'
      <3> DEFINE accepted == judgements!Accept(batch, answer)
                 added == [p \in {q \in batch : accepted[q] > 0} |-> accepted[p]]
      <3>1. \A p \in batch : accepted[p] \in {0, 1}
        BY DEF judgements!Accept
      <3>2. DOMAIN added \subseteq batch /\ \A p \in DOMAIN added : added[p] = 1
        BY <3>1
      <3>3. judgements!AppendLines(added, j)
        BY <2>4
      <3> HIDE DEF added
      <3>4. QED
        BY <2>0, <2>1, <2>2, <3>2, <3>3, LinesOnce
    <2>5. QED
      BY <2>1, <2>3, <2>4
  <1>6. ASSUME NEW j \in Machines, judgements!JudgeKilled(j) PROVE JudgedOnce'
    <2>0. j \in judgements!Judges
      BY DEF judgements!Judges
    <2>1. PICK kept \in SUBSET pending[j] : judgements!AppendLines([p \in kept |-> 1], j)
      <3>1. PICK query : \E kept \in SUBSET judgements!BatchOf(j, query) :
              judgements!AppendLines([p \in kept |-> 1], j)
        BY <1>6 DEF judgements!JudgeKilled
      <3>2. judgements!BatchOf(j, query) \subseteq pending[j]
        BY DEF judgements!BatchOf
      <3>3. QED
        BY <3>1, <3>2
    <2> DEFINE added == [p \in kept |-> 1]
    <2>2. /\ pending[j] # None /\ pending' = [pending EXCEPT ![j] = None] /\ verdict' = verdict /\ qrels' = qrels
          /\ kept \subseteq pending[j]
      BY <1>6, <2>1 DEF judgements!JudgeKilled
    <2>3. DOMAIN added = kept /\ (\A p \in DOMAIN added : added[p] = 1) /\ judgements!AppendLines(added, j)
      BY <2>1
    <2> HIDE DEF added
    <2>4. QED
      BY <2>0, <2>2, <2>3, LinesOnce
  <1>7. ASSUME NEW j \in People, judgements!Review(j) PROVE JudgedOnce'
    <2>0. j \in judgements!Judges
      BY DEF judgements!Judges
    <2>1. PICK p \in pending[j] :
            \/ /\ judgements!AppendLines([q \in {p} |-> 1], j)
               /\ pending' = [pending EXCEPT ![j] = @ \ {p}]
            \/ /\ pending' = [pending EXCEPT ![j] = @ \ {p}]
               /\ lines' = lines
            \/ /\ pending' = [pending EXCEPT ![j] = @ \ judgements!BatchOf(j, p[1])]
               /\ lines' = lines
      BY <1>7 DEF judgements!Review
    <2>2. pending[j] # None /\ verdict' = verdict /\ qrels' = qrels
      BY <1>7 DEF judgements!Review
    <2>3. CASE lines' = lines
      <3>1. PICK left \in SUBSET pending[j] : pending' = [pending EXCEPT ![j] = left]
        BY <2>1
      <3>2. \A k \in judgements!Judges : pending'[k] # None =>
              pending[k] # None /\ pending'[k] \subseteq pending[k]
        BY <2>2, <3>1 DEF JudgedOnce
      <3>3. DOMAIN pending' = judgements!Judges
        BY <3>1 DEF JudgedOnce
      <3>4. QED
        BY <2>2, <2>3, <3>2, <3>3, LinesStay DEF JudgedOnce
    <2>4. CASE judgements!AppendLines([q \in {p} |-> 1], j) /\ pending' = [pending EXCEPT ![j] = @ \ {p}]
      <3> DEFINE added == [q \in {p} |-> 1]
                 left == pending[j] \ {p}
      <3>1. /\ DOMAIN added = {p} /\ (\A q \in DOMAIN added : added[q] = 1)
            /\ judgements!AppendLines(added, j) /\ pending' = [pending EXCEPT ![j] = left]
        BY <2>4
      <3> HIDE DEF added
      <3>2. QED
        BY <2>0, <2>2, <3>1, LinesOnce
    <2>5. QED
      BY <2>1, <2>3, <2>4
  <1>8. QED
    <2>1. CASE judgements!BuildQueries \/ judgements!Arrive \/ judgements!Pool
      BY <1>1, <2>1 DEF judgements!BuildQueries, judgements!Arrive, judgements!Pool
    <2>2. CASE UNCHANGED judgements!vars
      BY <1>1, <2>2 DEF judgements!vars
    <2>3. QED
      BY <1>2, <1>3, <1>4, <1>5, <1>6, <1>7, <2>1, <2>2 DEF judgements!Next

\* llm_judge.py and review.py skip what anyone has judged before: no order of
\* programs, kills and careless replies makes export.py refuse the file for good.
THEOREM ExportsGoOn == Spec => []ExportAccepts
  <1>1. JudgedOnce => ExportAccepts
    BY DEF JudgedOnce, ExportAccepts, judgements!ExportAccepts
  <1>2. QED
    BY JudgementsBehaviour, JudgedOnceInit, JudgedOnceStep, <1>1, PTL DEF judgements!Spec

\* export.py: lines sorted with people's last, the last of a pair kept.  Where a
\* person graded a pair the exported grade is a person's, in any order of the lines
\* and of the programs that wrote them; and so it stays in every later export.
THEOREM PersonsWin == Spec => HumanWins
  <1> DEFINE Wins ==
        /\ qrels' # qrels =>
             \A p \in DOMAIN qrels' : judgements!Graders(p) \cap People # {} => qrels'[p] \in People
        /\ \A p \in DOMAIN qrels :
             p \in DOMAIN qrels' /\ (qrels[p] \in People => qrels'[p] \in People)
  <1>1. ASSUME JudgedOnce, [judgements!Next]_(judgements!vars), qrels' # qrels PROVE Wins
    <2>1. judgements!Export
      BY <1>1 DEF judgements!Next, judgements!vars, judgements!BuildQueries, judgements!Arrive,
           judgements!Pool, judgements!Start, judgements!Stop, judgements!GradeBatch,
           judgements!JudgeKilled, judgements!Review
    <2>2. DOMAIN qrels' = judgements!Judged /\ \A p \in judgements!Judged : qrels'[p] \in judgements!Effective(p)
      BY <1>1, <2>1 DEF judgements!Export
    <2>3. \A p \in judgements!Judged : lines[p] \in Seq(judgements!Judges)
      BY <1>1 DEF judgements!Judged, judgements!Written, JudgedOnce
    <2>4. \A p \in DOMAIN qrels' : judgements!Graders(p) \cap People # {} => qrels'[p] \in People
      BY <2>2, <2>3, PeopleComeLast
    <2>5. ASSUME NEW p \in DOMAIN qrels
          PROVE  p \in DOMAIN qrels' /\ (qrels[p] \in People => qrels'[p] \in People)
      <3>1. p \in DOMAIN lines /\ qrels[p] \in judgements!Graders(p) /\ lines[p] \in Seq(judgements!Judges)
        BY <1>1 DEF JudgedOnce
      <3>2. qrels[p] \in judgements!Judges
        BY <3>1 DEF judgements!Graders, judgements!Lines
      <3>3. p \in judgements!Judged
        BY <3>1, <3>2 DEF judgements!Judged, judgements!Written
      <3>4. QED
        BY <2>2, <2>4, <3>1, <3>3
    <2>6. QED
      BY <2>4, <2>5
  <1>2. JudgedOnce /\ [judgements!Next]_(judgements!vars) => [Wins]_(judgements!vars)
    <2>1. qrels' = qrels => Wins
      OBVIOUS
    <2>2. QED
      BY <1>1, <2>1
  <1>3. QED
    BY JudgementsBehaviour, JudgedOnceInit, JudgedOnceStep, <1>2, PTL
       DEF judgements!Spec, HumanWins, judgements!HumanWins

-----------------------------------------------------------------------------
(* The ranker (Ranker).                                                    *)

LEMMA RankerBehaviour == Spec => ranker!Spec
  <1>1. Init => ranker!Init
    BY DEF Init
  <1>2. [Next]_vars => [ranker!Next]_(ranker!vars)
    BY DEF Next, vars, rankerVars, ranker!vars
  <1>3. QED
    BY <1>1, <1>2, PTL DEF Spec, ranker!Spec

\* A row as a query's legs and evidence make it: a leg that did not find the
\* episode says nothing, and no leg says what is no number.
LiveRow(row) ==
  /\ DOMAIN row = {"rank", "duration"}
  /\ row = [rank |-> [leg \in Legs |-> row.rank[leg]], duration |-> row.duration]
  /\ \A leg \in Legs : row.rank[leg] # ranker!NaN

LiveTable(table) == \A q \in DOMAIN table : \A e \in DOMAIN table[q] : LiveRow(table[q][e])

LiveRows ==
  /\ "at" \in DOMAIN training
  /\ cache # None => LiveTable(cache)
  /\ training.at \in {"legs", "evidence"} => LiveTable(training.rows)

LEMMA RowIsLive ==
  ASSUME NEW answer, NEW e
  PROVE  LiveRow(ranker!Row(answer, e))
  <1> DEFINE row == ranker!Row(answer, e)
             rank(leg) == IF e \in ranker!RangeOf(answer[leg])
                          THEN ranker!Number(CHOOSE i \in DOMAIN answer[leg] : answer[leg][i] = e)
                          ELSE ranker!Null
  <1>1. row = [rank |-> [leg \in Legs |-> rank(leg)], duration |-> Duration[e]]
    BY DEF ranker!Row
  <1>2. ASSUME NEW leg \in Legs PROVE rank(leg) # ranker!NaN
    <2>1. \A n : ranker!Number(n).is # ranker!NaN.is
      BY DEF ranker!Number, ranker!NaN
    <2>2. ranker!Null.is # ranker!NaN.is
      BY DEF ranker!Null, ranker!NaN
    <2>3. QED
      BY <2>1, <2>2
  <1> HIDE DEF rank
  <1>3. QED
    BY <1>1, <1>2 DEF LiveRow

\* features.py reads a missing rank back as missing, and takes every missing number
\* for zero.
LEMMA LiveRowKeepsFeatures ==
  ASSUME NEW row, LiveRow(row)
  PROVE  ranker!Featurize(ranker!Loaded(ranker!Parquet(row))) = ranker!Featurize(row)
  <1> DEFINE stored == ranker!Parquet(row)
             loaded == ranker!Loaded(stored)
  <1>1. /\ stored.duration = ranker!Stored(row.duration)
        /\ stored.rank = [leg \in Legs |-> ranker!Stored(row.rank[leg])]
        /\ DOMAIN stored = {"rank", "duration"}
    BY DEF ranker!Parquet
  <1>2. /\ loaded.duration = ranker!Stored(row.duration)
        /\ loaded.rank = [leg \in Legs |-> ranker!RankOf(ranker!Stored(row.rank[leg]))]
    BY <1>1 DEF ranker!Loaded
  <1> HIDE DEF stored, loaded
  <1>3. \A leg \in Legs : loaded.rank[leg] = row.rank[leg]
    BY <1>2 DEF LiveRow, ranker!RankOf, ranker!Stored
  <1>4. ranker!NumberOf(loaded.duration) = ranker!NumberOf(row.duration)
    BY <1>2 DEF ranker!NumberOf, ranker!Stored
  <1>5. ranker!Featurize(loaded) = ranker!Featurize(row)
    BY <1>3, <1>4 DEF ranker!Featurize
  <1>6. QED
    BY <1>5 DEF loaded, stored

LEMMA LiveRowsInit == ranker!Init => LiveRows
  BY DEF ranker!Init, ranker!Idle, LiveRows

LEMMA LiveRowsStep ==
  ASSUME LiveRows, [ranker!Next]_(ranker!vars)
  PROVE  LiveRows'
  <1>1. CASE cache' \in {cache, None} /\ training' = training
    BY <1>1 DEF LiveRows, LiveTable, LiveRow
  <1>2. CASE cache' = cache /\ training' # training /\ training'.at \notin {"legs", "evidence"}
             /\ "at" \in DOMAIN training'
    BY <1>2 DEF LiveRows, LiveTable, LiveRow
  <1>3. CASE ranker!Start
    <2>1. /\ cache' = cache /\ (training'.at \in {"legs", "evidence"} => training'.rows = <<>>)
          /\ "at" \in DOMAIN training'
      BY <1>3 DEF ranker!Start, ranker!artifact
    <2>2. QED
      BY <2>1 DEF LiveRows, LiveTable, LiveRow
  <1>4. CASE ranker!Retrieve
    <2>1. /\ cache' = cache /\ training.at = "legs" /\ training'.rows = training.rows
          /\ "at" \in DOMAIN training'
      BY <1>4 DEF ranker!Retrieve, ranker!artifact
    <2>2. QED
      BY <2>1 DEF LiveRows, LiveTable, LiveRow
  <1>5. CASE ranker!Evidence
    <2> DEFINE found == [e \in ranker!Found(training.answer) |-> ranker!Row(training.answer, e)]
    <2>1. cache' = cache /\ training.at = "evidence"
      BY <1>5 DEF ranker!Evidence, ranker!artifact
    <2>2. CASE training' = ranker!Idle
      BY <2>1, <2>2 DEF LiveRows, LiveTable, LiveRow, ranker!Idle
    <2>3. CASE training'.at = "legs" /\ "at" \in DOMAIN training'
               /\ training'.rows = [p \in DOMAIN training.rows \cup {ranker!NextQuery} |->
                                      IF p = ranker!NextQuery THEN found ELSE training.rows[p]]
      <3>0. training'.at = "legs" /\ "at" \in DOMAIN training'
        BY <2>3
      <3>1. \A e \in DOMAIN found : LiveRow(found[e])
        BY RowIsLive
      <3> HIDE DEF found
      <3>2. LiveTable(training'.rows)
        BY <2>1, <2>3, <3>1 DEF LiveRows, LiveTable
      <3>3. LiveTable(training.rows)' = LiveTable(training'.rows) /\ LiveTable(cache)' = LiveTable(cache)
        BY <2>1 DEF LiveTable, LiveRow
      <3>4. QED
        BY <2>1, <3>0, <3>2, <3>3 DEF LiveRows
    <2>4. QED
      BY <1>5, <2>2, <2>3 DEF ranker!Evidence
  <1>6. CASE ranker!WriteCache
    <2>1. /\ training.at = "legs" /\ training'.at = "features" /\ "at" \in DOMAIN training'
          /\ cache' = [q \in {p \in DOMAIN training.rows : training.rows[p] # <<>>} |-> training.rows[q]]
      BY <1>6 DEF ranker!WriteCache
    <2>2. LiveTable(cache')
      BY <2>1 DEF LiveRows, LiveTable
    <2>3. LiveTable(cache)' = LiveTable(cache')
      BY DEF LiveTable, LiveRow
    <2>4. QED
      BY <2>1, <2>2, <2>3 DEF LiveRows
  <1>7. CASE ranker!Features \/ ranker!TrainFold \/ ranker!TrainFinal \/ ranker!WriteFolds
             \/ ranker!WriteReport \/ ranker!WriteMeta \/ ranker!Kill
    <2>1. /\ cache' = cache /\ training'.at \notin {"legs", "evidence"}
          /\ "at" \in DOMAIN training'
      BY <1>7 DEF LiveRows, ranker!Features, ranker!TrainFold, ranker!TrainFinal, ranker!WriteFolds,
           ranker!WriteReport, ranker!WriteMeta, ranker!Kill, ranker!Idle, ranker!artifact
    <2>2. QED
      BY <2>1 DEF LiveRows, LiveTable, LiveRow
  <1>8. CASE ranker!DeleteCache \/ ranker!Export \/ ranker!Delete \/ ranker!Evaluate
             \/ UNCHANGED ranker!vars
    BY <1>1, <1>8 DEF ranker!DeleteCache, ranker!Export, ranker!Delete, ranker!Evaluate,
       ranker!vars,
       ranker!artifact
  <1>9. QED
    BY <1>3, <1>4, <1>5, <1>6, <1>7, <1>8 DEF ranker!Next, ranker!Train

\* features.py: what the ranker is trained on from the cached table are the features
\* of the live rows, whatever legs found or missed an episode and whatever number
\* its row lacks.
THEOREM FeaturesAgree == Spec => []SameFeatures
  <1>1. LiveRows => SameFeatures
    BY LiveRowKeepsFeatures DEF LiveRows, LiveTable, SameFeatures, ranker!SameFeatures
  <1>2. QED
    BY RankerBehaviour, LiveRowsInit, LiveRowsStep, <1>1, PTL DEF ranker!Spec

\* The folds of a training: numbers of folds, for every query that is cached.
Dealt(dealt) ==
  /\ DOMAIN cache \subseteq DOMAIN dealt
  /\ \A q \in DOMAIN dealt : dealt[q] \in 0 .. Folds - 1

\* The models of the first n folds have not seen the queries of their fold.
Unseen(dealt, n) ==
  \A q \in DOMAIN dealt : dealt[q] < n =>
    /\ <<"fold", dealt[q]>> \in DOMAIN models
    /\ q \notin models[<<"fold", dealt[q]>>]

FinalKnows(dealt) == <<"final">> \in DOMAIN models /\ models[<<"final">>] \subseteq DOMAIN dealt

\* Models, folds and report of one training.
Consistent ==
  /\ \A q \in DOMAIN folds : q \notin models[<<"fold", folds[q]>>]
  /\ models[<<"final">>] \subseteq DOMAIN folds
  /\ \A q \in DOMAIN report : q \in DOMAIN folds /\ report[q] = models[<<"fold", folds[q]>>]

\* While a training writes, what it has written is its own; no model is written
\* while the artifact counts as whole.
FoldsKept ==
  /\ usable \subseteq Queries
  /\ training.at \in {"legs", "evidence", "features"} => training.usable \subseteq Queries
  /\ training.at = "fold" =>
       /\ training = [at |-> "fold", folds |-> training.folds, k |-> training.k]
       /\ training.k \in 0 .. Folds /\ Dealt(training.folds) /\ Unseen(training.folds, training.k)
       /\ training.k > 0 => ~whole
  /\ training.at \in {"folds.json", "report"} =>
       /\ Dealt(training.folds) /\ Unseen(training.folds, Folds) /\ FinalKnows(training.folds)
       /\ ~whole
  /\ training.at = "report" => folds = training.folds
  /\ training.at = "ranker.json" => Consistent /\ ~whole
  /\ whole => Consistent

LEMMA FoldsTyped ==
  ASSUME NEW S \in SUBSET Queries
  PROVE  \A q \in S : ranker!AssignFolds(S)[q] \in 0 .. Folds - 1
  <1> SUFFICES ASSUME NEW q \in S PROVE ranker!AssignFolds(S)[q] \in 0 .. Folds - 1
    OBVIOUS
  <1> DEFINE before == {p \in S : p < q}
  <1>1. Cardinality(before) \in Nat
    <2>1. IsFiniteSet(Queries)
      BY RelevanceAssumption, Zenon DEF ranker!RankerAssumption, ranker!IsFiniteSet, IsFiniteSet
    <2>0. before \subseteq Queries
      OBVIOUS
    <2> HIDE DEF before
    <2>2. IsFiniteSet(before)
      BY <2>0, <2>1, FS_Subset
    <2>3. QED
      BY <2>2, FS_CardinalityType
  <1>2. ranker!AssignFolds(S)[q] = Cardinality(before) % Folds
    <2> DEFINE number(r) == Cardinality({p \in S : p < r}) % Folds
    <2>1. ranker!AssignFolds(S) = [r \in S |-> number(r)]
      BY Zenon DEF ranker!AssignFolds, ranker!Cardinality, Cardinality
    <2>2. number(q) = Cardinality(before) % Folds
      OBVIOUS
    <2> HIDE DEF number
    <2>3. QED
      BY <2>1, <2>2
  <1> HIDE DEF before
  <1>3. QED
    BY <1>1, <1>2, RelevanceAssumption DEF ranker!RankerAssumption

LEMMA NamesDiffer ==
  /\ \A k : <<"fold", k>> # <<"final">>
  /\ \A k, l : <<"fold", k>> = <<"fold", l>> => k = l
  <1>1. \A k : <<"fold", k>>[1] # <<"final">>[1]
    OBVIOUS
  <1>2. QED
    BY <1>1

LEMMA FoldsInit == ranker!Init => FoldsKept
  BY DEF ranker!Init, ranker!Idle, FoldsKept

LEMMA FoldsStep ==
  ASSUME FoldsKept, [ranker!Next]_(ranker!vars)
  PROVE  FoldsKept'
  <1> DEFINE Same == UNCHANGED <<models, folds, report>>
  <1>1. ASSUME Same PROVE Consistent' = Consistent
    BY <1>1 DEF Consistent
  <1>2. ASSUME Same, usable' \subseteq Queries, whole' = whole,
               training' = ranker!Idle
        PROVE  FoldsKept'
    BY <1>1, <1>2 DEF FoldsKept, ranker!Idle
  <1>3. CASE UNCHANGED ranker!vars \/ ranker!Export \/ ranker!Delete \/ ranker!Evaluate
             \/ ranker!DeleteCache
    <2>1. Same /\ usable' \subseteq Queries /\ whole' = whole /\ training' = training
          /\ (cache' = cache \/ training = ranker!Idle)
      BY <1>3 DEF ranker!vars, ranker!Export, ranker!Delete, ranker!Evaluate, ranker!DeleteCache,
         ranker!artifact, ranker!world, FoldsKept
    <2>2. CASE training = ranker!Idle
      BY <1>2, <2>1, <2>2
    <2>3. CASE cache' = cache
      BY <1>1, <2>1, <2>3 DEF FoldsKept, Dealt, Unseen, FinalKnows
    <2>4. QED
      BY <2>1, <2>2, <2>3
  <1>4. CASE ranker!Start \/ ranker!Retrieve \/ ranker!Evidence \/ ranker!WriteCache
    <2>1. /\ Same /\ usable' \subseteq Queries /\ whole' = whole
          /\ \/ training' = ranker!Idle
             \/ training'.at \in {"legs", "evidence", "features"} /\ training'.usable \subseteq Queries
      BY <1>4 DEF ranker!Start, ranker!Retrieve, ranker!Evidence, ranker!WriteCache,
         ranker!artifact,
         ranker!world, FoldsKept
    <2>2. QED
      BY <1>1, <1>2, <2>1 DEF FoldsKept
  <1>5. CASE ranker!Features
    <2> DEFINE dealt == ranker!AssignFolds(training.usable)
    <2>1. /\ Same /\ usable' \subseteq Queries /\ whole' = whole /\ cache' = cache
          /\ training.at = "features" /\ training.usable \subseteq Queries
      BY <1>5 DEF ranker!Features, ranker!artifact, ranker!world, FoldsKept
    <2>2. CASE training' = ranker!Idle
      BY <1>2, <2>1, <2>2
    <2>3. CASE ranker!Dealt(DOMAIN cache, dealt) /\ training' = [at |-> "fold", folds |-> dealt, k |-> 0]
      <3>1. DOMAIN dealt = training.usable /\ \A q \in DOMAIN dealt : dealt[q] \in 0 .. Folds - 1
        BY <2>1, FoldsTyped DEF ranker!AssignFolds
      <3> HIDE DEF dealt
      <3>2. /\ DOMAIN cache' \subseteq DOMAIN dealt
            /\ \A q \in DOMAIN dealt : ~(dealt[q] < 0)
        BY <2>1, <2>3, <3>1, RelevanceAssumption DEF ranker!Dealt, ranker!RankerAssumption
      <3>3. Dealt(training.folds)' /\ Unseen(training.folds, training.k)'
        BY <2>3, <3>1, <3>2 DEF Dealt, Unseen
      <3>4. 0 \in 0 .. Folds
        BY RelevanceAssumption DEF ranker!RankerAssumption
      <3>5. QED
        BY <1>1, <2>1, <2>3, <3>3, <3>4 DEF FoldsKept
    <2>4. QED
      BY <1>5, <2>2, <2>3 DEF ranker!Features
  <1>6. CASE ranker!TrainFold
    <2>1. /\ training.at = "fold" /\ training.k < Folds /\ UNCHANGED <<cache, folds, report, usable>>
      BY <1>6 DEF ranker!TrainFold, ranker!world
    <2>2. CASE training' = ranker!Idle /\ UNCHANGED <<models, whole>>
      BY <1>2, <2>1, <2>2 DEF FoldsKept
    <2>3. CASE /\ models' = ranker!Save(<<"fold", training.k>>, ranker!TrainedFor(training.k))
               /\ training' = [training EXCEPT !.k = @ + 1] /\ whole' = FALSE
      <3> DEFINE k == training.k
                 dealt == training.folds
                 trained == ranker!TrainedFor(k)
      <3>1. /\ training'.at = "fold" /\ training'.folds = dealt /\ training'.k = k + 1
            /\ training' = [at |-> "fold", folds |-> training'.folds, k |-> training'.k]
            /\ k \in 0 .. Folds /\ Dealt(dealt) /\ Unseen(dealt, k)
        BY <2>1, <2>3 DEF FoldsKept
      <3>2. /\ DOMAIN models' = DOMAIN models \cup {<<"fold", k>>}
            /\ models'[<<"fold", k>>] = trained
            /\ \A n \in DOMAIN models : n # <<"fold", k>> => models'[n] = models[n]
        BY <2>3 DEF ranker!Save
      <3>3. \A q \in DOMAIN dealt : dealt[q] = k => q \notin trained
        BY DEF ranker!TrainedFor, ranker!FoldOf
      <3>4. k + 1 \in 0 .. Folds /\ k \in Nat
        BY <2>1, <3>1, RelevanceAssumption DEF ranker!RankerAssumption
      <3> HIDE DEF k, dealt, trained
      <3>5. ASSUME NEW q \in DOMAIN dealt, dealt[q] < k + 1
            PROVE  <<"fold", dealt[q]>> \in DOMAIN models' /\ q \notin models'[<<"fold", dealt[q]>>]
        <4>1. CASE dealt[q] = k
          BY <3>2, <3>3, <4>1
        <4>2. CASE dealt[q] # k
          <5>1. dealt[q] < k
            BY <3>1, <3>4, <3>5, <4>2 DEF Dealt
          <5>2. <<"fold", dealt[q]>> \in DOMAIN models /\ q \notin models[<<"fold", dealt[q]>>]
            BY <3>1, <5>1 DEF Unseen
          <5>3. QED
            BY <3>2, <4>2, <5>2, NamesDiffer
        <4>3. QED
          BY <4>1, <4>2
      <3>6. Unseen(training.folds, training.k)'
        BY <3>1, <3>5 DEF Unseen
      <3>7. Dealt(training.folds)'
        BY <2>1, <3>1 DEF Dealt
      <3>8. QED
        BY <2>1, <2>3, <3>1, <3>4, <3>6, <3>7 DEF FoldsKept
    <2>4. QED
      BY <1>6, <2>2, <2>3 DEF ranker!TrainFold
  <1>7. CASE ranker!TrainFinal
    <2> DEFINE dealt == training.folds
    <2>1. /\ training.at = "fold" /\ training.k = Folds
          /\ models' = ranker!Save(<<"final">>, DOMAIN cache)
          /\ training'.at = "folds.json" /\ training'.folds = dealt
          /\ UNCHANGED <<cache, folds, report, usable, whole>>
      BY <1>7 DEF ranker!TrainFinal, ranker!world
    <2>2. Dealt(dealt) /\ Unseen(dealt, Folds) /\ ~whole
      <3>1. Folds > 0
        BY RelevanceAssumption DEF ranker!RankerAssumption
      <3>2. QED
        BY <2>1, <3>1 DEF FoldsKept
    <2>3. /\ DOMAIN models' = DOMAIN models \cup {<<"final">>}
          /\ models'[<<"final">>] = DOMAIN cache
          /\ \A n \in DOMAIN models : n # <<"final">> => models'[n] = models[n]
      BY <2>1 DEF ranker!Save
    <2>4. Unseen(training.folds, Folds)'
      BY <2>1, <2>2, <2>3, NamesDiffer DEF Unseen
    <2>5. Dealt(training.folds)' /\ FinalKnows(training.folds)'
      BY <2>1, <2>2, <2>3 DEF Dealt, FinalKnows
    <2>6. QED
      BY <2>1, <2>2, <2>4, <2>5 DEF FoldsKept
  <1>8. CASE ranker!WriteFolds
    <2>1. /\ training.at = "folds.json" /\ folds' = training.folds
          /\ training'.at = "report" /\ training'.folds = training.folds
          /\ UNCHANGED <<cache, models, report, usable, whole>>
      BY <1>8 DEF ranker!WriteFolds, ranker!FoldsToWrite, ranker!world
    <2>2. QED
      BY <2>1 DEF FoldsKept, Dealt, Unseen, FinalKnows
  <1>9. CASE ranker!WriteReport
    <2>1. /\ training.at = "report" /\ training'.at = "ranker.json"
          /\ report' = [q \in DOMAIN cache \cap DOMAIN training.folds
                          |-> models[<<"fold", training.folds[q]>>]]
          /\ UNCHANGED <<cache, models, folds, usable, whole>>
      BY <1>9 DEF ranker!WriteReport, ranker!world
    <2>2. /\ Dealt(folds) /\ Unseen(folds, Folds) /\ FinalKnows(folds) /\ ~whole
          /\ folds = training.folds
      BY <2>1 DEF FoldsKept
    <2>3. \A q \in DOMAIN folds : q \notin models[<<"fold", folds[q]>>]
      <3>1. \A q \in DOMAIN folds : folds[q] < Folds
        BY <2>2, RelevanceAssumption DEF Dealt, ranker!RankerAssumption
      <3>2. QED
        BY <2>2, <3>1 DEF Unseen
    <2>4. Consistent'
      BY <2>1, <2>2, <2>3 DEF Consistent, FinalKnows
    <2>5. QED
      BY <2>1, <2>2, <2>4 DEF FoldsKept
  <1>10. CASE ranker!WriteMeta
    BY <1>1, <1>10 DEF ranker!WriteMeta, ranker!world, ranker!Idle, FoldsKept
  <1>11. CASE ranker!Kill
    BY <1>2, <1>11 DEF ranker!Kill, ranker!world, ranker!artifact, FoldsKept
  <1>12. QED
    BY <1>3, <1>4, <1>5, <1>6, <1>7, <1>8, <1>9, <1>10, <1>11 DEF ranker!Next, ranker!Train

\* train.py and system.py: an artifact that a training ended scores every query with
\* a model that never saw it, and as the training reported, however often the cache,
\* the judgements and killed trainings changed what lies around it.
THEOREM OutOfFoldScores == Spec => ScoredOutOfFold
  <1>1. ASSUME FoldsKept, [ranker!Next]_(ranker!vars), scored' # scored, whole, NEW q \in Queries
        PROVE  /\ q \notin scored'[q]
               /\ q \in DOMAIN report => scored'[q] = report[q]
    <2>1. ranker!Evaluate
      BY <1>1 DEF ranker!Next, ranker!vars, ranker!Train, ranker!Export, ranker!Delete,
         ranker!Start,
         ranker!Retrieve, ranker!Evidence, ranker!WriteCache, ranker!Features, ranker!TrainFold,
         ranker!TrainFinal, ranker!WriteFolds, ranker!WriteReport, ranker!WriteMeta, ranker!Kill,
         ranker!DeleteCache
    <2>2. scored'[q] = ranker!ModelFor(q)
      BY <2>1 DEF ranker!Evaluate
    <2>3. Consistent
      BY <1>1 DEF FoldsKept
    <2>4. QED
      BY <2>2, <2>3 DEF ranker!ModelFor, Consistent
  <1>2. FoldsKept /\ [ranker!Next]_(ranker!vars) =>
          [scored' # scored /\ whole =>
             \A q \in Queries : /\ q \notin scored'[q]
                                /\ q \in DOMAIN report => scored'[q] = report[q]]_(ranker!vars)
    BY <1>1
  <1>3. QED
    BY RankerBehaviour, FoldsInit, FoldsStep, <1>2, PTL
       DEF ranker!Spec, ScoredOutOfFold, ranker!ScoredOutOfFold

-----------------------------------------------------------------------------
(* The comparison of systems (Evaluation).                                 *)

LEMMA EvaluationBehaviour == Spec => evaluation!Spec
  <1>1. Init => evaluation!Init
    BY DEF Init
  <1>2. [Next]_vars => [evaluation!Next]_(evaluation!vars)
    BY DEF Next, vars, evaluationVars, evaluation!vars
  <1>3. QED
    BY <1>1, <1>2, PTL DEF Spec, evaluation!Spec

\* The cohorts are those of the episodes that the evaluation knows.
CohortsOfKnown ==
  evaluating.at = "queries" =>
    /\ {"at", "known", "cohorts"} \subseteq DOMAIN evaluating
    /\ evaluating.cohorts = evaluation!ColdStartCohorts(evaluating.known)

LEMMA CohortsInit == evaluation!Init => CohortsOfKnown
  BY DEF evaluation!Init, evaluation!Idle, CohortsOfKnown

LEMMA CohortsStep ==
  ASSUME CohortsOfKnown, [evaluation!Next]_(evaluation!vars)
  PROVE  CohortsOfKnown'
  <1>1. CASE evaluating' = evaluating
    BY <1>1 DEF CohortsOfKnown, evaluation!ColdStartCohorts
  <1>2. CASE evaluating'.at # "queries"
    BY <1>2 DEF CohortsOfKnown
  <1>3. CASE evaluation!ReadEpisodes
    BY <1>3 DEF evaluation!ReadEpisodes, CohortsOfKnown, evaluation!ColdStartCohorts
  <1>4. CASE evaluation!ScoreQuery
    <2> DEFINE q == CHOOSE p \in evaluating.todo : \A r \in evaluating.todo : p <= r
               rest == [evaluating EXCEPT !.todo = @ \ {q}]
    <2>1. evaluating.at = "queries" /\ {"at", "known", "cohorts"} \subseteq DOMAIN evaluating
          /\ evaluating.cohorts = evaluation!ColdStartCohorts(evaluating.known)
      BY <1>4 DEF evaluation!ScoreQuery, CohortsOfKnown
    <2>2. /\ DOMAIN rest = DOMAIN evaluating /\ rest.at = evaluating.at
          /\ rest.known = evaluating.known /\ rest.cohorts = evaluating.cohorts
      BY <2>1
    <2> HIDE DEF rest, q
    <2>3. \/ evaluating' = rest
          \/ \E rows : evaluating' = [rest EXCEPT !.rows = rows]
      BY <1>4 DEF evaluation!ScoreQuery, rest, q
    <2>4. /\ DOMAIN evaluating' = DOMAIN evaluating
          /\ evaluating'.known = evaluating.known /\ evaluating'.cohorts = evaluating.cohorts
      BY <2>1, <2>2, <2>3
    <2>5. QED
      BY <2>1, <2>4 DEF CohortsOfKnown, evaluation!ColdStartCohorts
  <1>5. CASE evaluation!Start \/ evaluation!ReadQrels \/ evaluation!ReadCounts \/ evaluation!EndSystem
             \/ evaluation!Stop
    BY <1>2, <1>5 DEF evaluation!Start, evaluation!ReadQrels, evaluation!ReadCounts,
       evaluation!EndSystem, evaluation!Stop, evaluation!Begin, evaluation!Idle
  <1>6. CASE evaluation!Export \/ evaluation!Change \/ evaluation!Register \/ UNCHANGED evaluation!vars
    BY <1>1, <1>6 DEF evaluation!Export, evaluation!Change, evaluation!Register, evaluation!vars
  <1>7. QED
    BY <1>3, <1>4, <1>5, <1>6 DEF evaluation!Next

\* run.py, cold_start_cohorts: every known episode is in one cohort of training
\* evidence, for any positives, shows and deletions since the training.
THEOREM EachInOneCohort == Spec => []CohortsPartition
  <1>1. CohortsOfKnown => CohortsPartition
    BY DEF CohortsOfKnown, CohortsPartition, evaluation!CohortsPartition,
       evaluation!ColdStartCohorts
  <1>2. QED
    BY EvaluationBehaviour, CohortsInit, CohortsStep, <1>1, PTL DEF evaluation!Spec

=============================================================================
