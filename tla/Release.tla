------------------------------- MODULE Release -------------------------------
(***************************************************************************)
(* The way of a model into production: ml/serving/bundle.py (with          *)
(* export.py) exports the artifacts of data/models into a bundle named by  *)
(* its content; golden.py runs the training side on fixed queries and      *)
(* writes the bundle's golden.jsonl; parity.py replays them through the    *)
(* bundle and the API and writes parity.json; promote.py points ACTIVE at  *)
(* the bundle if the report allows it.  Each is a program an operator      *)
(* starts, one run of each at a time; any may be killed between two of its *)
(* calls, and artifacts are trained again in place meanwhile.              *)
(*                                                                         *)
(* Weights and a booster are version numbers; a golden example is the      *)
(* versions it was computed from.                                          *)
(***************************************************************************)
EXTENDS Integers, Sequences, FiniteSets

CONSTANTS
  None,         \* no file, no bundle
  Lines,        \* the golden queries
  OffTowers,    \* weights whose export differs from them on golden queries only
  MaxTrain,     \* bound on the trainings of the two artifacts
  MaxBundles,   \* bound on the bundles built
  MaxPromotions, \* bound on the promotions
  MaxKills       \* bound on the promotions killed

ReleaseAssumption ==
  /\ Lines \in Nat \ {0}
  /\ \A n \in {MaxTrain, MaxBundles, MaxPromotions, MaxKills} : n \in Nat

VARIABLES
  tower, booster,  \* the version in data/models of the weights and of model.txt
  bundles,         \* the bundles of data/serving/bundles
  files,           \* each bundle's golden.jsonl and parity.json
  temp, active,    \* ACTIVE.tmp and ACTIVE
  log,             \* promotions.jsonl
  builder, golden, parity, promoter,  \* the run of each program
  history,         \* ghost: what ACTIVE has named, and on which grounds
  kills

vars == <<tower, booster, bundles, files, temp, active, log,
          builder, golden, parity, promoter, history, kills>>

world == <<tower, booster>>
programs == <<builder, golden, parity, promoter>>
pointer == <<temp, active, log, history>>

Idle == [phase |-> "idle"]
Contents == [tower : 0..MaxTrain, booster : 0..MaxTrain]
NoFiles == [golden |-> None, report |-> None]

Init ==
  /\ tower = 0 /\ booster = 0
  /\ bundles = {} /\ files = [b \in Contents |-> NoFiles]
  /\ temp = None /\ active = None
  /\ log = <<>> /\ history = <<>> /\ kills = 0
  /\ builder = Idle /\ golden = Idle /\ parity = Idle /\ promoter = Idle

----------------------------------------------------------------------------
(***************************************************************************)
(* bundle.build.                                                           *)
(***************************************************************************)
\* The exporters compare the exported model with its source on a few samples
\* and raise, so what is left to find are differences those do not show.
Faithful(b) == b.tower \notin OffTowers

\* export_query_tower: the artifact as it is on disk now.
ExportTower ==
  /\ builder.phase = "idle"
  /\ builder' = [phase |-> "tower", tower |-> tower]
  /\ UNCHANGED <<world, bundles, files, pointer, golden, parity, promoter, kills>>

\* export_ranker, then the hashes, the id and the rename: a bundle of the same
\* content is left as it is, with the golden examples and the report beside it.
ExportRanker ==
  /\ builder.phase = "tower"
  /\ LET b == [tower |-> builder.tower, booster |-> booster]
     IN /\ bundles' = bundles \cup {b}
        /\ Cardinality(bundles') <= MaxBundles
  /\ builder' = Idle
  /\ UNCHANGED <<world, files, pointer, golden, parity, promoter, kills>>

Build == ExportTower \/ ExportRanker

----------------------------------------------------------------------------
(***************************************************************************)
(* golden.build.                                                           *)
(***************************************************************************)
\* The models behind the artifact names of the manifest are loaded, then the
\* file is opened, and emptied.
OpenGolden ==
  /\ golden.phase = "idle"
  /\ \E b \in bundles :
       /\ golden' = [phase |-> "write", bundle |-> b, tower |-> tower, booster |-> booster]
       /\ files' = [files EXCEPT ![b].golden = <<>>]
       /\ parity' = IF parity.phase \in {"read", "passed"} /\ parity.bundle = b
                    THEN [parity EXCEPT !.overlapped = TRUE] ELSE parity
  /\ UNCHANGED <<world, bundles, pointer, builder, promoter, kills>>

WriteGolden ==
  /\ golden.phase = "write"
  /\ LET b == golden.bundle
         line == [tower |-> golden.tower, booster |-> golden.booster]
     IN /\ files' = [files EXCEPT ![b].golden = Append(@, line)]
        /\ golden' = IF Len(files[b].golden) + 1 = Lines THEN Idle ELSE golden
  /\ UNCHANGED <<world, bundles, pointer, builder, parity, promoter, kills>>

Golden == OpenGolden \/ WriteGolden

----------------------------------------------------------------------------
(***************************************************************************)
(* parity.run.                                                             *)
(***************************************************************************)
\* verify, load the bundle and read golden.jsonl, which may be being written.
StartParity ==
  /\ parity.phase = "idle"
  /\ \E b \in bundles :
       /\ files[b].golden # None
       /\ parity' = [phase |-> "read", bundle |-> b, lines |-> files[b].golden,
                     overlapped |-> golden.phase = "write" /\ golden.bundle = b]
  /\ UNCHANGED <<world, bundles, files, pointer, builder, golden, promoter, kills>>

\* Inputs, vectors, scores and features of a golden example against the
\* bundle's: the same when the bundle exports those models faithfully.
Agrees(b, line) == line.tower = b.tower /\ line.booster = b.booster /\ Faithful(b)

\* Every golden example, then the feature means against the ranker's training
\* rows, which pass or not.
OfflineChecks(b, lines, means) == means /\ \A i \in DOMAIN lines : Agrees(b, lines[i])

\* Every query through the API, which may serve another bundle by now, and from
\* a database that may have changed since: what it answers agrees or does not.
OnlineChecks(b, lines, answers) == answers /\ \A i \in DOMAIN lines : Agrees(b, lines[i])

\* No example at all raises, and leaves no report.
Check ==
  /\ parity.phase = "read"
  /\ LET b == parity.bundle
         lines == parity.lines
     IN IF lines = <<>>
        THEN parity' = Idle
        ELSE \E means, answers \in BOOLEAN :
               parity' = IF OfflineChecks(b, lines, means) /\ OnlineChecks(b, lines, answers)
                         THEN [parity EXCEPT !.phase = "passed"]
                         ELSE [phase |-> "failed", bundle |-> b]
  /\ UNCHANGED <<world, bundles, files, pointer, builder, golden, promoter, kills>>

\* The report states the hash of golden.jsonl as it is now. One that failed is
\* refused whatever else it states. What was checked is ghost.
WriteReport ==
  /\ parity.phase \in {"passed", "failed"}
  /\ LET b == parity.bundle
     IN files' = [files EXCEPT ![b].report =
          IF parity.phase = "passed"
          THEN [passed |-> TRUE, hashed |-> files[b].golden,
                checked |-> parity.lines, overlapped |-> parity.overlapped]
          ELSE [passed |-> FALSE, hashed |-> None, checked |-> <<>>, overlapped |-> FALSE]]
  /\ parity' = Idle
  /\ UNCHANGED <<world, bundles, pointer, builder, golden, promoter, kills>>

Parity == StartParity \/ Check \/ WriteReport

----------------------------------------------------------------------------
(***************************************************************************)
(* promote.promote.                                                        *)
(***************************************************************************)
\* Faulty variant: a report is a report.
GateOfAnyReport(b) == files[b].report # None /\ files[b].golden # None

Gate(b) ==
  /\ files[b].report # None /\ files[b].golden # None
  /\ files[b].report.passed
  /\ files[b].report.hashed = files[b].golden

\* What the ghost history keeps of the report a bundle is promoted on: whether
\* the examples it checked agree with the bundle, and whether they are the ones
\* beside it now.
Grounds(b) ==
  LET report == files[b].report
  IN [agree |-> report.checked # <<>> /\ \A i \in DOMAIN report.checked : Agrees(b, report.checked[i]),
      current |-> report.checked = files[b].golden, overlapped |-> report.overlapped]

\* A refusal changes nothing; what ACTIVE names is read for the log.
PassGate ==
  /\ promoter.phase = "idle" /\ Len(history) < MaxPromotions
  /\ \E b \in bundles :
       /\ Gate(b)
       /\ promoter' = [phase |-> "gated", bundle |-> b, previous |-> active,
                       grounds |-> Grounds(b)]
  /\ UNCHANGED <<world, bundles, files, pointer, builder, golden, parity, kills>>

WriteTemp ==
  /\ promoter.phase = "gated"
  /\ temp' = promoter.bundle
  /\ promoter' = [promoter EXCEPT !.phase = "written"]
  /\ UNCHANGED <<world, bundles, files, active, log, history, builder, golden, parity, kills>>

Replace ==
  /\ promoter.phase = "written"
  /\ active' = temp /\ temp' = None
  /\ history' = Append(history, [bundle |-> temp, grounds |-> promoter.grounds])
  /\ promoter' = [promoter EXCEPT !.phase = "replaced"]
  /\ UNCHANGED <<world, bundles, files, log, builder, golden, parity, kills>>

Previous == promoter.previous

AppendLog ==
  /\ promoter.phase = "replaced"
  /\ log' = Append(log, [bundle |-> promoter.bundle, previous |-> Previous])
  /\ promoter' = Idle
  /\ UNCHANGED <<world, bundles, files, temp, active, history, builder, golden, parity, kills>>

Promote == PassGate \/ WriteTemp \/ Replace \/ AppendLog

----------------------------------------------------------------------------
(***************************************************************************)
(* What surrounds them.                                                    *)
(***************************************************************************)
\* In place: the artifact is named by its config.
Retrain ==
  /\ tower + booster < MaxTrain
  /\ \/ tower' = tower + 1 /\ UNCHANGED booster
     \/ booster' = booster + 1 /\ UNCHANGED tower
  /\ UNCHANGED <<bundles, files, pointer, programs, kills>>

\* Files stay as they are, whatever is in them. A killed build or parity run
\* leaves what one that never started leaves.
Kill ==
  /\ \/ golden # Idle /\ golden' = Idle /\ UNCHANGED <<promoter, kills>>
     \/ /\ promoter # Idle /\ promoter' = Idle /\ UNCHANGED golden
        /\ kills < MaxKills /\ kills' = kills + 1
  /\ UNCHANGED <<world, bundles, files, pointer, builder, parity>>

Next ==
  \/ Build \/ Golden \/ Parity \/ Promote
  \/ Retrain \/ Kill

Spec == Init /\ [][Next]_vars

----------------------------------------------------------------------------
\* Whatever ACTIVE has ever named is a bundle whose exported models answered
\* golden queries as the training side did with the models it was built from:
\* neither retraining in place, nor a killed job, nor another bundle's report
\* lets a bundle through that was not compared.
PromotedIsChecked ==
  \A i \in DOMAIN history : history[i].bundle \in bundles /\ history[i].grounds.agree

\* A promotion stands on the golden examples that were beside the bundle when
\* it was gated, unless they were being written anew while parity ran.
PromotedOnItsGolden ==
  \A i \in DOMAIN history : history[i].grounds.overlapped \/ history[i].grounds.current

=============================================================================
