------------------------------ MODULE ModelsProofs ------------------------------
(***************************************************************************)
(* Proofs about the life of a model (MCModels): for any training configs,  *)
(* any number of golden queries, trainings, bundles, overlapping programs, *)
(* kills, interrupts and restarts, for any catalogue that changes under    *)
(* any number of embedding jobs, for any searches the drift check sees and *)
(* any thresholds it has, and for any judged episodes and any ranking of   *)
(* them that the metrics score.                                            *)
(***************************************************************************)
EXTENDS MCModels, Sequences, SequenceTheorems, FiniteSets, FiniteSetTheorems,
        WellFoundedInduction, TLAPS

-----------------------------------------------------------------------------
(* The release of a bundle (Release).                                      *)

LEMMA ReleaseBehaviour == Spec => release!Spec
  <1>1. Init => release!Init
    BY DEF Init
  <1>2. [Next]_vars => [release!Next]_(release!vars)
    BY DEF Next, vars, releaseVars, release!vars
  <1>3. QED
    BY <1>1, <1>2, PTL DEF Spec, release!Spec

GroundsType == [agree : BOOLEAN, current : BOOLEAN, overlapped : BOOLEAN]

Reports == [passed : BOOLEAN, hashed : Seq(release!Contents) \cup {None}, checked : Seq(release!Contents),
            overlapped : BOOLEAN]

WorldTyped ==
  /\ tower \in Nat /\ booster \in Nat /\ tower + booster <= MaxTrain
  /\ bundles \subseteq release!Contents
  /\ files \in [release!Contents -> [golden : Seq(release!Contents) \cup {None}, report : Reports \cup {None}]]

ProgramsTyped ==
  /\ builder \in {release!Idle} \cup [phase : {"tower"}, tower : 0..MaxTrain]
  /\ golden \in {release!Idle} \cup [phase : {"write"}, bundle : bundles, tower : 0..MaxTrain, booster : 0..MaxTrain]
  /\ parity \in {release!Idle} \cup [phase : {"failed"}, bundle : bundles]
                \cup [phase : {"read", "passed"}, bundle : bundles, lines : Seq(release!Contents), overlapped : BOOLEAN]
  /\ promoter \in {release!Idle} \cup [phase : {"gated", "written", "replaced"}, bundle : bundles,
                               previous : release!Contents \cup {None}, grounds : GroundsType]
  /\ active \in release!Contents \cup {None}
  /\ history \in Seq([bundle : release!Contents, grounds : GroundsType])

\* The examples were compared with the bundle, all of them, and there are some.
Sound(b, lines) == lines # <<>> /\ \A i \in DOMAIN lines : release!Agrees(b, lines[i])

\* A golden file that is being written has been opened.
GoldenIsOpen == golden.phase = "write" => files[golden.bundle].golden \in Seq(release!Contents)

\* Parity has read what is beside the bundle, or its run overlapped the writing.
ParityReads ==
  parity.phase \in {"read", "passed"} =>
    /\ parity.overlapped \/ parity.lines = files[parity.bundle].golden
    /\ golden.phase = "write" /\ golden.bundle = parity.bundle => parity.overlapped

ParityPasses == parity.phase = "passed" => Sound(parity.bundle, parity.lines)

\* A report that passed says what was checked, and hashes it or the overlap.
ReportsAreSound ==
  \A b \in release!Contents : files[b].report # None /\ files[b].report.passed =>
    /\ Sound(b, files[b].report.checked)
    /\ files[b].report.overlapped \/ files[b].report.checked = files[b].report.hashed

\* What is promoted was gated, and ACTIVE.tmp is the promotion's own by the
\* time it becomes ACTIVE, whatever a killed one has left there.
PromoterIsGated ==
  promoter.phase # "idle" =>
    /\ promoter.grounds.agree /\ (promoter.grounds.overlapped \/ promoter.grounds.current)
    /\ promoter.phase = "written" => temp = promoter.bundle

ReleaseInv ==
  /\ WorldTyped /\ ProgramsTyped
  /\ GoldenIsOpen /\ ParityReads /\ ParityPasses /\ ReportsAreSound /\ PromoterIsGated
  /\ release!PromotedIsChecked /\ release!PromotedOnItsGolden

LEMMA ReleaseInit == ASSUME release!ReleaseAssumption PROVE release!Init => ReleaseInv
  <1> SUFFICES ASSUME release!Init PROVE ReleaseInv
    OBVIOUS
  <1> USE DEF release!Init
  <1>1. MaxTrain \in Nat
    BY DEF release!ReleaseAssumption
  <1>2. WorldTyped
    BY <1>1 DEF WorldTyped, release!NoFiles
  <1>3. ProgramsTyped
    BY DEF ProgramsTyped
  <1>4. GoldenIsOpen /\ ParityReads /\ ParityPasses /\ PromoterIsGated
    BY DEF GoldenIsOpen, ParityReads, ParityPasses, PromoterIsGated, release!Idle
  <1>5. ReportsAreSound
    BY DEF ReportsAreSound, release!NoFiles
  <1>6. release!PromotedIsChecked /\ release!PromotedOnItsGolden
    BY DEF release!PromotedIsChecked, release!PromotedOnItsGolden
  <1>7. QED
    BY <1>2, <1>3, <1>4, <1>5, <1>6 DEF ReleaseInv

LEMMA TrainAndBuild ==
  ASSUME release!ReleaseAssumption, ReleaseInv, release!ExportTower \/ release!ExportRanker \/ release!Retrain
  PROVE  ReleaseInv'
  <1>0. MaxTrain \in Nat /\ tower \in 0..MaxTrain /\ booster \in 0..MaxTrain
    BY DEF release!ReleaseAssumption, ReleaseInv, WorldTyped
  <1>1. UNCHANGED <<files, release!pointer, golden, parity, promoter, interrupted>> /\ bundles \subseteq bundles'
    BY DEF release!ExportTower, release!ExportRanker, release!Retrain, release!programs
  <1>2. bundles' \subseteq release!Contents
    <2>1. CASE release!ExportRanker
      <3>1. builder.tower \in 0..MaxTrain
        BY <2>1 DEF release!ExportRanker, ReleaseInv, ProgramsTyped, release!Idle
      <3>2. QED
        BY <1>0, <2>1, <3>1 DEF release!ExportRanker, release!Contents, ReleaseInv, WorldTyped
    <2>2. CASE bundles' = bundles
      BY <2>2 DEF ReleaseInv, WorldTyped
    <2>3. QED
      BY <2>1, <2>2 DEF release!ExportTower, release!ExportRanker, release!Retrain
  <1>3. WorldTyped'
    <2>1. tower' \in Nat /\ booster' \in Nat /\ tower' + booster' <= MaxTrain
      BY <1>0 DEF ReleaseInv, WorldTyped, release!ExportTower, release!ExportRanker,
         release!Retrain, release!world
    <2>2. QED
      BY <1>1, <1>2, <2>1 DEF ReleaseInv, WorldTyped
  <1>4. builder' \in {release!Idle} \cup [phase : {"tower"}, tower : 0..MaxTrain]
    BY <1>0 DEF ReleaseInv, ProgramsTyped, release!ExportTower, release!ExportRanker,
       release!Retrain, release!programs
  <1>5. ProgramsTyped'
    BY <1>1, <1>4 DEF ReleaseInv, ProgramsTyped, release!pointer
  <1>6. QED
    BY <1>1, <1>3, <1>5
       DEF ReleaseInv, GoldenIsOpen, ParityReads, ParityPasses, ReportsAreSound, PromoterIsGated,
           release!PromotedIsChecked, release!PromotedOnItsGolden, release!pointer

LEMMA GoldenStep ==
  ASSUME release!ReleaseAssumption, ReleaseInv, release!Golden
  PROVE  ReleaseInv'
  <1>1. UNCHANGED <<release!world, bundles, release!pointer, builder, promoter>>
    BY DEF release!Golden, release!OpenGolden, release!WriteGolden
  <1>2. CASE release!OpenGolden
    <2>1. PICK b \in bundles :
            /\ golden' = [phase |-> "write", bundle |-> b, tower |-> tower, booster |-> booster]
            /\ files' = [files EXCEPT ![b].golden = <<>>]
            /\ parity' = IF parity.phase \in {"read", "passed"} /\ parity.bundle = b
                         THEN [parity EXCEPT !.overlapped = TRUE] ELSE parity
      BY <1>2 DEF release!OpenGolden
    <2>2. b \in release!Contents
      BY DEF ReleaseInv, WorldTyped
    <2>3. /\ \A c \in release!Contents : files'[c].report = files[c].report /\ (c # b => files'[c] = files[c])
          /\ files'[b].golden = <<>>
          /\ files' \in [release!Contents -> [golden : Seq(release!Contents) \cup {None}, report : Reports \cup {None}]]
      <3>1. <<>> \in Seq(release!Contents)
        OBVIOUS
      <3>2. QED
        BY <2>1, <2>2, <3>1 DEF ReleaseInv, WorldTyped
    <2>4. WorldTyped'
      BY <1>1, <2>3 DEF ReleaseInv, WorldTyped, release!world
    <2>5. ProgramsTyped'
      <3>1. golden' \in [phase : {"write"}, bundle : bundles, tower : 0..MaxTrain, booster : 0..MaxTrain]
        <4>1. tower \in 0..MaxTrain /\ booster \in 0..MaxTrain
          BY DEF release!ReleaseAssumption, ReleaseInv, WorldTyped
        <4>2. QED
          BY <2>1, <4>1
      <3>2. parity' \in {release!Idle} \cup [phase : {"failed"}, bundle : bundles]
                \cup [phase : {"read", "passed"}, bundle : bundles, lines : Seq(release!Contents), overlapped : BOOLEAN]
        BY <2>1 DEF ReleaseInv, ProgramsTyped, release!Idle
      <3>3. QED
        BY <1>1, <3>1, <3>2 DEF ReleaseInv, ProgramsTyped, release!pointer
    <2>6. GoldenIsOpen'
      BY <2>1, <2>3 DEF GoldenIsOpen
    <2>7. /\ parity'.phase = parity.phase
          /\ parity.phase \in {"read", "passed"} =>
               /\ parity'.bundle = parity.bundle /\ parity'.lines = parity.lines
               /\ parity.overlapped \/ parity.bundle = b => parity'.overlapped
      <3>1. CASE parity.phase \in {"read", "passed"}
        <4>1. parity \in [phase : {"read", "passed"}, bundle : bundles, lines : Seq(release!Contents), overlapped : BOOLEAN]
          BY <3>1 DEF ReleaseInv, ProgramsTyped, release!Idle
        <4>2. QED
          BY <2>1, <3>1, <4>1
      <3>2. CASE parity.phase \notin {"read", "passed"}
        BY <2>1, <3>2
      <3>3. QED
        BY <3>1, <3>2
    <2>8. ParityReads' /\ ParityPasses'
      BY <2>1, <2>3, <2>7 DEF ReleaseInv, ProgramsTyped, WorldTyped, release!Idle, ParityReads,
         ParityPasses, Sound, release!Agrees, release!Faithful
    <2>9. ReportsAreSound'
      BY <2>3 DEF ReleaseInv, ReportsAreSound
    <2>10. QED
      BY <1>1, <2>4, <2>5, <2>6, <2>8, <2>9
         DEF ReleaseInv, PromoterIsGated, release!PromotedIsChecked, release!PromotedOnItsGolden,
            release!pointer
  <1>3. CASE release!WriteGolden
    <2> DEFINE b == golden.bundle
               line == [tower |-> golden.tower, booster |-> golden.booster]
    <2>1. /\ golden.phase = "write" /\ files' = [files EXCEPT ![b].golden = Append(@, line)]
          /\ golden' \in {release!Idle, golden} /\ parity' = parity
      BY <1>3 DEF release!WriteGolden
    <2>2. b \in release!Contents /\ b \in bundles /\ line \in release!Contents /\ files[b].golden \in Seq(release!Contents)
      <3>1. golden \in [phase : {"write"}, bundle : bundles, tower : 0..MaxTrain, booster : 0..MaxTrain]
        BY <2>1 DEF ReleaseInv, ProgramsTyped, release!Idle
      <3>2. b \in release!Contents /\ b \in bundles /\ golden.tower \in 0..MaxTrain /\ golden.booster \in 0..MaxTrain
        BY <3>1 DEF ReleaseInv, WorldTyped
      <3>3. line \in release!Contents
        BY <3>2 DEF release!Contents
      <3>4. files[b].golden \in Seq(release!Contents)
        BY <2>1 DEF ReleaseInv, GoldenIsOpen
      <3>5. QED
        BY <3>2, <3>3, <3>4
    <2> HIDE DEF line
    <2>3. Append(files[b].golden, line) \in Seq(release!Contents)
      BY <2>2
    <2>4. /\ \A c \in release!Contents : files'[c].report = files[c].report /\ (c # b => files'[c] = files[c])
          /\ files'[b].golden \in Seq(release!Contents)
          /\ files' \in [release!Contents -> [golden : Seq(release!Contents) \cup {None}, report : Reports \cup {None}]]
      BY <2>1, <2>2, <2>3 DEF ReleaseInv, WorldTyped
    <2>5. WorldTyped'
      BY <1>1, <2>4 DEF ReleaseInv, WorldTyped, release!world
    <2>6. ProgramsTyped'
      BY <1>1, <2>1 DEF ReleaseInv, ProgramsTyped, release!pointer
    <2>7. GoldenIsOpen'
      BY <2>1, <2>4 DEF GoldenIsOpen, release!Idle
    <2>8. ParityReads' /\ ParityPasses'
      BY <2>1, <2>4 DEF ReleaseInv, ProgramsTyped, WorldTyped, release!Idle, ParityReads,
         ParityPasses, Sound, release!Agrees, release!Faithful
    <2>9. ReportsAreSound'
      BY <2>4 DEF ReleaseInv, ReportsAreSound
    <2>10. QED
      BY <1>1, <2>5, <2>6, <2>7, <2>8, <2>9
         DEF ReleaseInv, PromoterIsGated, release!PromotedIsChecked, release!PromotedOnItsGolden,
            release!pointer
  <1>4. QED
    BY <1>2, <1>3 DEF release!Golden

LEMMA ParityStep ==
  ASSUME ReleaseInv, release!Parity
  PROVE  ReleaseInv'
  <1>1. UNCHANGED <<release!world, bundles, release!pointer, builder, golden, promoter>>
    BY DEF release!Parity, release!StartParity, release!Check, release!WriteReport
  <1>2. CASE release!StartParity
    <2>1. PICK b \in bundles :
            /\ files[b].golden # None
            /\ parity' = [phase |-> "read", bundle |-> b, lines |-> files[b].golden,
                          overlapped |-> golden.phase = "write" /\ golden.bundle = b]
      BY <1>2 DEF release!StartParity
    <2>2. files' = files
      BY <1>2 DEF release!StartParity
    <2>3. files[b].golden \in Seq(release!Contents)
      BY <2>1 DEF ReleaseInv, WorldTyped
    <2>4. ProgramsTyped'
      BY <1>1, <2>1, <2>3 DEF ReleaseInv, ProgramsTyped, release!pointer
    <2>5. ParityReads' /\ ParityPasses'
      BY <1>1, <2>1, <2>2 DEF ParityReads, ParityPasses
    <2>6. QED
      BY <1>1, <2>2, <2>4, <2>5
         DEF ReleaseInv, WorldTyped, GoldenIsOpen, ReportsAreSound, PromoterIsGated,
             release!PromotedIsChecked, release!PromotedOnItsGolden, release!pointer, release!world
  <1>3. CASE release!Check
    <2>1. files' = files /\ parity.phase = "read"
      BY <1>3 DEF release!Check
    <2>2. \/ parity' = release!Idle
          \/ parity' = [phase |-> "failed", bundle |-> parity.bundle]
          \/ parity' = [parity EXCEPT !.phase = "passed"] /\ Sound(parity.bundle, parity.lines)
      BY <1>3 DEF release!Check, Sound, release!OfflineChecks, release!OnlineChecks
    <2>3. parity \in [phase : {"read", "passed"}, bundle : bundles, lines : Seq(release!Contents), overlapped : BOOLEAN]
      BY <2>1 DEF ReleaseInv, ProgramsTyped, release!Idle
    <2>4. ProgramsTyped'
      BY <1>1, <2>2, <2>3 DEF ReleaseInv, ProgramsTyped, release!pointer
    <2>5. ParityReads' /\ ParityPasses'
      BY <1>1, <2>1, <2>2, <2>3 DEF ReleaseInv, ParityReads, ParityPasses, release!Idle, Sound,
         release!Agrees, release!Faithful
    <2>6. QED
      BY <1>1, <2>1, <2>4, <2>5
         DEF ReleaseInv, WorldTyped, GoldenIsOpen, ReportsAreSound, PromoterIsGated,
             release!PromotedIsChecked, release!PromotedOnItsGolden, release!pointer, release!world
  <1>4. CASE release!WriteReport
    <2> DEFINE b == parity.bundle
               report == IF parity.phase = "passed"
                         THEN [passed |-> TRUE, hashed |-> files[b].golden,
                               checked |-> parity.lines, overlapped |-> parity.overlapped]
                         ELSE [passed |-> FALSE, hashed |-> None, checked |-> <<>>, overlapped |-> FALSE]
    <2>1. parity.phase \in {"passed", "failed"} /\ files' = [files EXCEPT ![b].report = report] /\ parity' = release!Idle
      BY <1>4 DEF release!WriteReport
    <2>2. b \in release!Contents
      BY <2>1 DEF ReleaseInv, WorldTyped, ProgramsTyped, release!Idle
    <2>3. report \in Reports
      BY <2>1, <2>2 DEF ReleaseInv, WorldTyped, ProgramsTyped, release!Idle, Reports
    <2>4. report.passed => Sound(b, report.checked) /\ (report.overlapped \/ report.checked = report.hashed)
      BY <2>1 DEF ReleaseInv, ParityReads, ParityPasses
    <2> HIDE DEF report
    <2>5. /\ \A c \in release!Contents : files'[c].golden = files[c].golden /\ (c # b => files'[c] = files[c])
          /\ files'[b].report = report
          /\ files' \in [release!Contents -> [golden : Seq(release!Contents) \cup {None}, report : Reports \cup {None}]]
      BY <2>1, <2>2, <2>3 DEF ReleaseInv, WorldTyped
    <2>6. WorldTyped'
      BY <1>1, <2>5 DEF ReleaseInv, WorldTyped, release!world
    <2>7. ProgramsTyped'
      BY <1>1, <2>1 DEF ReleaseInv, ProgramsTyped, release!pointer
    <2>8. GoldenIsOpen'
      BY <1>1, <2>5 DEF ReleaseInv, ProgramsTyped, WorldTyped, GoldenIsOpen, release!Idle
    <2>9. ParityReads' /\ ParityPasses'
      BY <2>1 DEF ParityReads, ParityPasses, release!Idle
    <2>10. ReportsAreSound'
      <3> SUFFICES ASSUME NEW c \in release!Contents, files'[c].report # None, files'[c].report.passed
                   PROVE  /\ Sound(c, files'[c].report.checked)
                          /\ files'[c].report.overlapped \/ files'[c].report.checked = files'[c].report.hashed
        BY DEF ReportsAreSound, Sound, release!Agrees, release!Faithful
      <3>1. CASE c = b
        BY <2>4, <2>5, <3>1
      <3>2. CASE c # b
        BY <2>5, <3>2 DEF ReleaseInv, ReportsAreSound
      <3>3. QED
        BY <3>1, <3>2
    <2>11. QED
      BY <1>1, <2>6, <2>7, <2>8, <2>9, <2>10
         DEF ReleaseInv, PromoterIsGated, release!PromotedIsChecked, release!PromotedOnItsGolden,
            release!pointer
  <1>5. QED
    BY <1>2, <1>3, <1>4 DEF release!Parity

LEMMA PromoteStep ==
  ASSUME ReleaseInv, release!Promote
  PROVE  ReleaseInv'
  <1>1. UNCHANGED <<release!world, bundles, files, builder, golden, parity>>
    BY DEF release!Promote, release!PassGate, release!WriteTemp, release!Replace, release!AppendLog
  <1>2. WorldTyped' /\ GoldenIsOpen' /\ ParityReads' /\ ParityPasses' /\ ReportsAreSound'
    BY <1>1 DEF ReleaseInv, WorldTyped, GoldenIsOpen, ParityReads, ParityPasses, ReportsAreSound,
       release!world
  <1> DEFINE Promotions == [phase : {"gated", "written", "replaced"}, bundle : bundles,
                            previous : release!Contents \cup {None}, grounds : GroundsType]
  <1>3. CASE release!PassGate
    <2>1. PICK b \in bundles :
            /\ release!Gate(b)
            /\ promoter' = [phase |-> "gated", bundle |-> b, previous |-> active, grounds |-> release!Grounds(b)]
      BY <1>3 DEF release!PassGate
    <2>2. UNCHANGED release!pointer
      BY <1>3 DEF release!PassGate
    <2>3. files[b].report \in Reports /\ Sound(b, files[b].report.checked)
          /\ (files[b].report.overlapped \/ files[b].report.checked = files[b].golden)
      BY <2>1 DEF release!Gate, ReleaseInv, WorldTyped, ReportsAreSound
    <2>4. release!Grounds(b) \in GroundsType /\ release!Grounds(b).agree /\ (release!Grounds(b).overlapped \/ release!Grounds(b).current)
      BY <2>3 DEF release!Grounds, GroundsType, Sound, Reports
    <2> HIDE DEF Promotions
    <2>5. promoter' \in Promotions /\ promoter'.grounds = release!Grounds(b) /\ promoter'.phase = "gated"
      BY <2>1, <2>4 DEF ReleaseInv, ProgramsTyped, Promotions
    <2>6. ProgramsTyped'
      BY <1>1, <2>2, <2>5 DEF ReleaseInv, ProgramsTyped, Promotions, release!pointer
    <2>7. QED
      BY <1>1, <1>2, <2>2, <2>4, <2>5, <2>6
         DEF ReleaseInv, PromoterIsGated, release!PromotedIsChecked, release!PromotedOnItsGolden,
            release!pointer
  <1>4. CASE release!WriteTemp
    <2>1. promoter \in Promotions
      BY <1>4 DEF release!WriteTemp, ReleaseInv, ProgramsTyped, release!Idle
    <2>2. promoter' \in Promotions /\ promoter'.bundle = promoter.bundle /\ promoter'.grounds = promoter.grounds
          /\ temp' = promoter.bundle /\ UNCHANGED <<active, history>>
      BY <1>4, <2>1 DEF release!WriteTemp
    <2>3. ProgramsTyped'
      BY <1>1, <2>2 DEF ReleaseInv, ProgramsTyped
    <2>4. PromoterIsGated'
      BY <1>4, <2>2 DEF release!WriteTemp, ReleaseInv, PromoterIsGated
    <2>5. QED
      BY <1>1, <1>2, <2>2, <2>3, <2>4 DEF ReleaseInv, release!PromotedIsChecked,
         release!PromotedOnItsGolden
  <1>5. CASE release!Replace
    <2> DEFINE entry == [bundle |-> temp, grounds |-> promoter.grounds]
    <2>1. promoter \in Promotions /\ promoter.phase = "written"
      BY <1>5 DEF release!Replace, ReleaseInv, ProgramsTyped, release!Idle
    <2>2. promoter' \in Promotions /\ promoter'.grounds = promoter.grounds /\ promoter'.phase = "replaced"
          /\ active' = temp /\ history' = Append(history, entry)
      BY <1>5, <2>1 DEF release!Replace
    <2>3. /\ temp \in bundles /\ temp \in release!Contents
          /\ promoter.grounds \in GroundsType /\ promoter.grounds.agree
          /\ promoter.grounds.overlapped \/ promoter.grounds.current
      BY <2>1 DEF ReleaseInv, PromoterIsGated, WorldTyped
    <2>4. entry \in [bundle : release!Contents, grounds : GroundsType]
      BY <2>3
    <2>5. /\ history' \in Seq([bundle : release!Contents, grounds : GroundsType])
          /\ \A i \in DOMAIN history' : (i \in DOMAIN history /\ history'[i] = history[i]) \/ history'[i] = entry
      <3> HIDE DEF entry
      <3>1. history \in Seq([bundle : release!Contents, grounds : GroundsType])
        BY DEF ReleaseInv, ProgramsTyped
      <3>2. QED
        BY <2>2, <2>4, <3>1
    <2>6. ProgramsTyped'
      BY <1>1, <2>2, <2>3, <2>5 DEF ReleaseInv, ProgramsTyped
    <2>7. release!PromotedIsChecked' /\ release!PromotedOnItsGolden'
      BY <1>1, <2>3, <2>5 DEF ReleaseInv, release!PromotedIsChecked, release!PromotedOnItsGolden
    <2>8. PromoterIsGated'
      BY <2>2, <2>3 DEF PromoterIsGated
    <2>9. QED
      BY <1>2, <2>6, <2>7, <2>8 DEF ReleaseInv
  <1>6. CASE release!AppendLog
    <2>1. promoter' = release!Idle /\ UNCHANGED <<temp, active, history>>
      BY <1>6 DEF release!AppendLog
    <2>2. QED
      BY <1>1, <1>2, <2>1
         DEF ReleaseInv, ProgramsTyped, PromoterIsGated, release!PromotedIsChecked,
            release!PromotedOnItsGolden, release!Idle
  <1>7. QED
    BY <1>3, <1>4, <1>5, <1>6 DEF release!Promote

LEMMA PromotionKillStep ==
  ASSUME ReleaseInv, release!Kill \/ UNCHANGED release!vars
  PROVE  ReleaseInv'
  <1>1. /\ UNCHANGED <<release!world, bundles, files, release!pointer, builder, parity>>
        /\ golden' \in {release!Idle, golden} /\ promoter' \in {release!Idle, promoter}
    BY DEF release!Kill, release!vars, release!world, release!pointer
  <1>2. ProgramsTyped'
    BY <1>1 DEF ReleaseInv, ProgramsTyped, release!pointer
  <1>3. GoldenIsOpen' /\ ParityReads' /\ PromoterIsGated'
    BY <1>1 DEF ReleaseInv, GoldenIsOpen, ParityReads, PromoterIsGated, release!pointer,
       release!Idle
  <1>4. QED
    BY <1>1, <1>2, <1>3
       DEF ReleaseInv, WorldTyped, ParityPasses, ReportsAreSound, release!PromotedIsChecked,
           release!PromotedOnItsGolden, release!pointer, release!world

LEMMA ReleaseInvariance == Spec => []ReleaseInv
  <1>1. ReleaseInv /\ [release!Next]_(release!vars) => ReleaseInv'
    BY ModelsAssumption, TrainAndBuild, GoldenStep, ParityStep, PromoteStep, PromotionKillStep
       DEF release!Next, release!Build
  <1>2. QED
    BY ReleaseBehaviour, ReleaseInit, ModelsAssumption, <1>1, PTL DEF release!Spec

\* promote.py: whatever ACTIVE has named is a bundle of the store that agreed
\* with its golden examples, whichever programs overlap, are killed or repeated.
THEOREM ActiveWasChecked == Spec => []PromotedIsChecked
  <1>1. ReleaseInv => release!PromotedIsChecked
    BY DEF ReleaseInv
  <1>2. QED
    BY ReleaseInvariance, <1>1, PTL DEF PromotedIsChecked

\* parity.py and promote.py: the examples it agreed with were those beside it
\* when it was gated, unless they were being written while parity ran.
THEOREM ActiveOnItsGolden == Spec => []release!PromotedOnItsGolden
  <1>1. ReleaseInv => release!PromotedOnItsGolden
    BY DEF ReleaseInv
  <1>2. QED
    BY ReleaseInvariance, <1>1, PTL
-----------------------------------------------------------------------------
(* The training of a model (Training).                                     *)

LEMMA TrainingBehaviour == Spec => training!Spec
  <1>1. Init => training!Init
    BY DEF Init
  <1>2. [Next]_vars => [training!Next]_(training!vars)
    BY DEF Next, vars, trainingVars, training!vars, training!files, training!bounds
  <1>3. QED
    BY <1>1, <1>2, PTL DEF Spec, training!Spec

\* What training_state.pt holds.
Saved == [step : Nat, epoch : Nat, optimizer : Seq(Nat \X Nat)]

Memory == {"step", "epoch", "chunk", "grads", "weights", "optimizer", "best", "final",
           "interrupted", "scored"}

\* What of a process's memory goes into it or decides where it goes on.
TrainingTyped ==
  /\ config \in Configs
  /\ run.step \in Nat /\ run.epoch \in Nat /\ run.chunk \in Nat
  /\ run.grads \in Seq(Nat \X Nat) /\ run.optimizer \in Seq(Nat \X Nat)
  /\ run.final \in BOOLEAN
  /\ state \in Saved \cup {None, Torn}
  /\ pc \in {"off", "train", "applied", "last", "validate", "weights", "artifact", "state"}
  /\ DOMAIN run = Memory
  /\ pc \in {"train", "applied", "last"} => ~run.final

\* The step that the file has counted.
SavedStep == IF state = None THEN 0 ELSE state.step

\* A process that trains on is no further from the last pass than its step count
\* says, and no process is ever further than one pass.
PassesAreSaved ==
  (config.checkpoint /\ config.evalEvery > 0 /\ state # Torn) =>
    /\ pc \in {"train", "applied"} => run.step <= SavedStep + (run.step % config.evalEvery)
    /\ run.step <= SavedStep + config.evalEvery

LEMMA ConfigTyped ==
  ASSUME config \in Configs
  PROVE  /\ config.chunks \in Nat \ {0} /\ config.accumulate \in Nat \ {0}
         /\ config.epochs \in Nat \ {0} /\ config.maxSteps \in Nat /\ config.evalEvery \in Nat
         /\ config.single \in BOOLEAN /\ config.checkpoint \in BOOLEAN /\ config.pool \in BOOLEAN
  BY ModelsAssumption DEF training!TrainingAssumption

LEMMA FirstChunkTyped ==
  ASSUME config \in Configs, NEW s \in Nat, NEW e \in Nat
  PROVE  training!FirstChunk(s, e) \in Nat
  <1> DEFINE done == s - e * training!StepsPerEpoch
  <1>1. training!StepsPerEpoch \in Int
    <2>1. config.chunks + config.accumulate - 1 \in Int /\ config.accumulate \in Nat \ {0}
      BY ConfigTyped
    <2>2. QED
      BY <2>1 DEF training!StepsPerEpoch, training!Ceil
  <1>2. done \in Int
    BY <1>1
  <1>3. CASE done > 0
    <2>1. done * config.accumulate + 1 \in Nat
      BY <1>2, <1>3, ConfigTyped
    <2>2. QED
      BY <1>3, <2>1 DEF training!FirstChunk
  <1>4. CASE ~(done > 0)
    BY <1>4 DEF training!FirstChunk
  <1>5. QED
    BY <1>3, <1>4

LEMMA TypedInit == training!Init => TrainingTyped /\ PassesAreSaved
  <1> SUFFICES ASSUME training!Init PROVE TrainingTyped /\ PassesAreSaved
    OBVIOUS
  <1>1. TrainingTyped
    BY DEF training!Init, TrainingTyped, Memory, training!FreshRun
  <1>2. PassesAreSaved
    BY ConfigTyped, ModelsAssumption DEF training!Init, PassesAreSaved, SavedStep, training!FreshRun
  <1>3. QED
    BY <1>1, <1>2

LEMMA TypedStep ==
  ASSUME TrainingTyped, [training!Next]_(training!vars)
  PROVE  TrainingTyped'
  <1> USE DEF TrainingTyped, Memory, training!files, training!bounds
  <1>1. CASE training!StartFresh
    BY <1>1 DEF training!StartFresh, training!StartProcess, training!FreshRun
  <1>2. CASE training!Resume
    <2>1. state \in Saved
      BY <1>2 DEF training!Resume
    <2>2. run' = training!ResumedRun /\ UNCHANGED <<config, state>> /\ pc' = "train"
      BY <1>2 DEF training!Resume, training!StartProcess
    <2>3. training!FirstChunk(state.step, state.epoch) \in Nat
      BY <2>1, FirstChunkTyped DEF Saved
    <2>4. QED
      BY <2>1, <2>2, <2>3 DEF training!ResumedRun, training!FreshRun, Saved
  <1>3. CASE training!SkipChunk
    BY <1>3 DEF training!SkipChunk
  <1>4. CASE training!MicroBatch
    <2> DEFINE grads == Append(run.grads, <<run.epoch, run.chunk>>)
    <2>1. <<>> \in Seq(Nat \X Nat) /\ grads \in Seq(Nat \X Nat) /\ run.optimizer \o grads \in Seq(Nat \X Nat)
      OBVIOUS
    <2> HIDE DEF grads
    <2>2. UNCHANGED <<config, state>> /\ DOMAIN run' = Memory
      BY <1>4 DEF training!MicroBatch
    <2>3. /\ run'.step = run.step /\ run'.epoch = run.epoch /\ run'.chunk = run.chunk + 1
          /\ run'.final = run.final /\ (run'.grads = <<>> \/ run'.grads = grads)
          /\ run'.optimizer = run.optimizer \/ run'.optimizer = run.optimizer \o grads
          /\ pc = "train" /\ pc' \in {"train", "applied"}
      BY <1>4 DEF training!MicroBatch, grads
    <2>4. run'.grads \in Seq(Nat \X Nat) /\ run'.optimizer \in Seq(Nat \X Nat)
      BY <2>1, <2>3
    <2>5. QED
      BY <2>2, <2>3, <2>4
  <1>5. CASE training!CountStep
    <2>1. /\ run' = [run EXCEPT !.step = run.step + 1] /\ UNCHANGED <<config, state>>
          /\ pc = "applied" /\ pc' \in {"validate", "last", "train"}
      BY <1>5 DEF training!CountStep, training!Onward
    <2>2. QED
      BY <2>1
  <1>6. CASE training!NextEpoch
    <2> DEFINE next == run.epoch + 1
    <2>1. next \in Nat
      OBVIOUS
    <2> HIDE DEF next
    <2>2. training!FirstChunk(run.step, next) \in Nat
      BY <2>1, FirstChunkTyped
    <2>3. QED
      BY <1>6, <2>1, <2>2 DEF next, training!NextEpoch
  <1>7. CASE training!LeaveLoop
    BY <1>7 DEF training!LeaveLoop
  <1>8. ASSUME NEW score \in Scores, training!Validate(score) PROVE TrainingTyped'
    BY <1>8 DEF training!Validate, training!AfterPass, training!Onward, training!Selected
  <1>9. CASE training!SaveWeights \/ training!SaveMetadata
    BY <1>9 DEF training!SaveWeights, training!SaveMetadata
  <1>10. CASE training!SaveState
    BY <1>10 DEF training!SaveState, training!Onward, Saved
  <1>11. CASE training!Interrupt
    BY <1>11 DEF training!Interrupt
  <1>12. CASE training!Kill
    BY <1>12 DEF training!Kill
  <1>13. CASE training!Finished \/ UNCHANGED training!vars
    BY <1>13 DEF training!Finished, training!vars
  <1>14. QED
    BY <1>1, <1>2, <1>3, <1>4, <1>5, <1>6, <1>7, <1>8, <1>9, <1>10, <1>11, <1>12, <1>13
       DEF training!Next

LEMMA NextRemainder ==
  ASSUME NEW a \in Nat, NEW b \in Nat \ {0}
  PROVE  /\ a % b \in 0 .. b - 1
         /\ (a + 1) % b = 0 \/ (a + 1) % b = (a % b) + 1
  OBVIOUS

LEMMA SavedStepTyped == TrainingTyped /\ state # Torn => SavedStep \in Nat
  BY DEF TrainingTyped, SavedStep, Saved

LEMMA PassStep ==
  ASSUME TrainingTyped, PassesAreSaved, [training!Next]_(training!vars)
  PROVE  PassesAreSaved'
  <1> SUFFICES ASSUME config'.checkpoint, config'.evalEvery > 0, state' # Torn
               PROVE  /\ pc' \in {"train", "applied"} =>
                           run'.step <= SavedStep' + (run'.step % config'.evalEvery)
                      /\ run'.step <= SavedStep' + config'.evalEvery
    BY DEF PassesAreSaved
  <1> DEFINE every == config.evalEvery
  <1>0. config' = config /\ every \in Nat \ {0} /\ config.checkpoint
    <2>1. config' = config
      BY DEF training!Next, training!vars, training!StartFresh, training!Resume,
         training!StartProcess,
             training!SkipChunk, training!MicroBatch, training!CountStep, training!NextEpoch,
             training!LeaveLoop, training!Validate, training!SaveWeights, training!SaveMetadata,
             training!SaveState, training!Interrupt, training!Kill, training!Finished
    <2>2. QED
      BY <2>1, ConfigTyped DEF TrainingTyped
  <1> HIDE DEF every
  <1>1. run.step \in Nat /\ run.step % every \in 0 .. every - 1 /\ 0 % every \in 0 .. every - 1
    <2>1. run.step \in Nat
      BY DEF TrainingTyped
    <2>2. QED
      BY <1>0, <2>1, NextRemainder
  <1>2. CASE training!SaveState
    <2>1. SavedStep' = run.step /\ run'.step = run.step
      <3>1. state' \in Saved
        BY <1>2 DEF training!SaveState, TrainingTyped, Saved
      <3>2. state' # None
        BY <3>1, ModelsAssumption DEF training!TrainingAssumption, Saved
      <3>3. QED
        BY <1>2, <3>2 DEF training!SaveState, SavedStep
    <2>2. QED
      BY <1>0, <1>1, <2>1 DEF every
  <1>3. CASE state' = state
    <2>1. SavedStep' = SavedStep /\ SavedStep \in Nat
      BY <1>3, SavedStepTyped DEF SavedStep
    <2>2. /\ pc \in {"train", "applied"} => run.step <= SavedStep + (run.step % every)
          /\ run.step <= SavedStep + every
      BY <1>0, <1>3 DEF PassesAreSaved, every
    <2> SUFFICES /\ pc' \in {"train", "applied"} => run'.step <= SavedStep + (run'.step % every)
                 /\ run'.step <= SavedStep + every
      BY <1>0, <2>1 DEF every
    <2>3. CASE training!StartFresh
      BY <1>0, <1>1, <2>1, <2>3 DEF training!StartFresh, training!StartProcess, training!FreshRun
    <2>4. CASE training!Resume
      <3>1. run'.step = state.step /\ state.step = SavedStep
        BY <2>4 DEF training!Resume, training!ResumedRun, training!FreshRun, SavedStep
      <3>2. SavedStep % every \in 0 .. every - 1
        BY <1>0, <2>1, NextRemainder
      <3>3. QED
        BY <1>0, <2>1, <3>1, <3>2
    <2>5. CASE training!CountStep
      <3> DEFINE next == run.step + 1
      <3>1. pc = "applied" /\ run'.step = next
        BY <2>5 DEF training!CountStep, TrainingTyped, Memory
      <3>2. next % every = 0 \/ next % every = (run.step % every) + 1
        BY <1>0, <1>1, NextRemainder
      <3>3. next % every \in 0 .. every - 1
        <4>1. next \in Nat
          BY <1>1
        <4> HIDE DEF next
        <4>2. QED
          BY <1>0, <4>1, NextRemainder
      <3>4. next % every = 0 => pc' \in {"validate", "last"}
        <4>1. next % every = 0 /\ next # training!TotalSteps => pc' = "validate"
          BY <1>0, <2>5 DEF training!CountStep, every
        <4>2. next = training!TotalSteps => pc' = "last"
          <5>1. next >= next
            BY <1>1
          <5>2. QED
            BY <2>5, <5>1 DEF training!CountStep, training!Onward
        <4>3. QED
          BY <4>1, <4>2
      <3>5. QED
        BY <1>0, <1>1, <2>1, <2>2, <3>1, <3>2, <3>3, <3>4
    <2>6. CASE run'.step = run.step /\ (pc' \in {"train", "applied"} => pc \in {"train", "applied"})
      BY <2>2, <2>6
    <2>7. CASE training!SkipChunk \/ training!MicroBatch \/ training!NextEpoch \/ training!LeaveLoop
      <3>1. run'.step = run.step /\ pc \in {"train", "applied", "last"} /\ (pc = "last" => pc' = "validate")
        BY <2>7 DEF training!SkipChunk, training!MicroBatch, training!NextEpoch, training!LeaveLoop,
                    TrainingTyped, Memory
      <3>2. QED
        BY <2>6, <3>1
    <2>8. ASSUME NEW score \in Scores, training!Validate(score)
          PROVE  run'.step = run.step /\ pc' = "weights"
      <3>1. pc' = "weights"
        BY <1>0, <2>8 DEF training!Validate, training!AfterPass
      <3>2. run'.step = run.step
        BY <2>8 DEF training!Validate, training!Selected, TrainingTyped, Memory
      <3>3. QED
        BY <3>1, <3>2
    <2>9. CASE training!SaveWeights \/ training!SaveMetadata
      BY <2>6, <2>9 DEF training!SaveWeights, training!SaveMetadata
    <2>10. CASE training!Interrupt \/ training!Kill
      BY <2>6, <2>10 DEF training!Interrupt, training!Kill, TrainingTyped, Memory
    <2>11. CASE training!Finished \/ UNCHANGED training!vars
      BY <2>6, <2>11 DEF training!Finished, training!vars
    <2>12. CASE training!SaveState
      BY <1>0, <1>2, <2>1, <2>12 DEF every
    <2>13. QED
      BY <2>3, <2>4, <2>5, <2>6, <2>7, <2>8, <2>9, <2>10, <2>11, <2>12 DEF training!Next
  <1>4. QED
    <2>1. training!SaveState \/ state' = state \/ state' = Torn
      BY DEF training!Next, training!vars, training!files, training!StartFresh, training!Resume,
             training!StartProcess,
             training!SkipChunk, training!MicroBatch, training!CountStep, training!NextEpoch,
             training!LeaveLoop, training!Validate, training!SaveWeights, training!SaveMetadata,
             training!Interrupt, training!Kill, training!Finished
    <2>2. QED
      BY <1>2, <1>3, <2>1

\* train.py: with checkpoints on, a process that is killed, interrupted or started
\* again anywhere loses at most the steps since the last validation pass.
THEOREM KillsLoseLittle == Spec => []KillLosesLittle
  <1>1. TrainingTyped /\ PassesAreSaved => training!KillLosesLittle
    BY DEF PassesAreSaved, training!KillLosesLittle, SavedStep
  <1>2. QED
    BY TrainingBehaviour, TypedInit, TypedStep, PassStep, <1>1, PTL DEF training!Spec,
       KillLosesLittle

-----------------------------------------------------------------------------
(* The order of the data.                                                  *)

\* The optimizer steps of the process, the one under way to be counted included.
Steps == IF pc = "applied" THEN run.step + 1 ELSE run.step

\* No step is counted before its micro-batches are in the optimizer, and if all
\* of them are counted they are those of a process that nothing disturbs.
StepsAreTrained(steps, batches) ==
  /\ steps * config.accumulate <= Len(batches)
  /\ Len(batches) = steps * config.accumulate => training!Undisturbed(batches)

\* The steps of the epochs before e, and of e at most.
Within(step, e) ==
  e * training!StepsPerEpoch <= step /\ step <= (e + 1) * training!StepsPerEpoch

\* The loop stands at the chunk behind those of its steps and its group.
AtItsChunk ==
  /\ Len(run.grads) < config.accumulate /\ Len(run.grads) < run.chunk
  /\ run.chunk <= config.chunks + 1
  /\ Steps * config.accumulate + Len(run.grads) = run.epoch * config.chunks + run.chunk - 1
  /\ \A k \in DOMAIN run.grads : run.grads[k] = <<run.epoch, run.chunk - Len(run.grads) - 1 + k>>

DataInOrder ==
  training!EvenEpochs =>
    /\ StepsAreTrained(Steps, run.optimizer)
    /\ Within(run.step, run.epoch)
    /\ pc # "off" /\ ~run.final => AtItsChunk
    /\ state \in Saved => /\ StepsAreTrained(state.step, state.optimizer)
                          /\ Within(state.step, state.epoch)

LEMMA Products ==
  ASSUME NEW a \in Nat \ {0}, NEW x \in Nat, NEW y \in Nat
  PROVE  /\ (x + 1) * a = x * a + a
         /\ x * a <= y * a => x <= y
         /\ x <= y => x * a <= y * a
  <1>1. (x + 1) * a = x * a + a
    OBVIOUS
  <1>2. x <= y => x * a <= y * a
    <2> SUFFICES ASSUME x <= y PROVE x * a <= y * a
      OBVIOUS
    <2>1. PICK d \in Nat : y = x + d
      <3>1. y - x \in Nat /\ y = x + (y - x)
        OBVIOUS
      <3>2. QED
        BY <3>1
    <2>2. y * a = x * a + d * a /\ d * a \in Nat /\ x * a \in Nat
      BY <2>1
    <2>3. QED
      BY <2>2
  <1>3. x * a <= y * a => x <= y
    <2> SUFFICES ASSUME ~(x <= y) PROVE y * a < x * a
      <3>1. x * a \in Nat /\ y * a \in Nat
        OBVIOUS
      <3>2. QED
        BY <3>1
    <2>1. PICK d \in Nat : x = y + 1 + d
      <3>1. x - y - 1 \in Nat /\ x = y + 1 + (x - y - 1)
        OBVIOUS
      <3>2. QED
        BY <3>1
    <2>2. x * a = y * a + a + d * a /\ d * a \in Nat /\ y * a \in Nat
      BY <2>1
    <2>3. QED
      BY <2>2
  <1>4. QED
    BY <1>1, <1>2, <1>3

\* A multiple of a and less than a are the next multiple of a only if they are it.
LEMMA WholeSteps ==
  ASSUME NEW a \in Nat \ {0}, NEW x \in Nat, NEW y \in Nat, NEW r \in 0 .. a - 1,
         x * a + r = y * a
  PROVE  x = y /\ r = 0
  <1>1. x * a \in Nat /\ y * a \in Nat /\ (x + 1) * a = x * a + a
    BY Products
  <1>2. x <= y
    BY <1>1, Products
  <1>3. y < x + 1
    <2> SUFFICES ASSUME x + 1 <= y PROVE FALSE
      OBVIOUS
    <2> DEFINE z == x + 1
    <2>1. z \in Nat /\ z <= y
      OBVIOUS
    <2> HIDE DEF z
    <2>2. z * a <= y * a
      BY <2>1, Products
    <2>3. QED
      BY <1>1, <2>2 DEF z
  <1>4. x = y
    BY <1>2, <1>3
  <1>5. QED
    BY <1>1, <1>4

LEMMA EpochsTyped ==
  ASSUME config \in Configs, training!EvenEpochs
  PROVE  /\ training!StepsPerEpoch \in Nat \ {0}
         /\ \A e \in Nat : e * config.chunks = (e * training!StepsPerEpoch) * config.accumulate
  <1>0. config.chunks \in Nat \ {0} /\ config.accumulate \in Nat \ {0}
    BY ConfigTyped
  <1> DEFINE E == training!StepsPerEpoch
  <1>1. E \in Int
    <2>1. config.chunks + config.accumulate - 1 \in Int /\ config.accumulate \in Nat \ {0}
      BY <1>0
    <2>2. QED
      BY <2>1 DEF training!StepsPerEpoch, training!Ceil
  <1>2. config.chunks = E * config.accumulate
    BY DEF training!EvenEpochs
  <1> HIDE DEF E
  <1>3. E > 0
    <2> SUFFICES ASSUME E <= 0 PROVE FALSE
      BY <1>1
    <2>1. E * config.accumulate <= 0
      BY <1>0, <1>1
    <2>2. QED
      BY <1>0, <1>2, <2>1
  <1>4. ASSUME NEW e \in Nat PROVE e * config.chunks = (e * E) * config.accumulate
    BY <1>0, <1>1, <1>2
  <1>5. QED
    BY <1>1, <1>3, <1>4 DEF E

\* Where a step's group ends that begins behind the steps before.
LEMMA Places ==
  ASSUME NEW a \in Nat \ {0}, NEW m \in Nat, NEW placed \in Nat, NEW begun \in Nat, NEW c \in Nat,
         placed <= m, placed + a = begun + c, a <= c
  PROVE  /\ placed + a <= m + a
         /\ m + a = placed + a => m = placed
         /\ \A j \in 1 .. a : m = placed => c - a + j \in 1 .. c /\ begun + (c - a + j) = m + j
  OBVIOUS

\* What one more micro-batch does to a group.
LEMMA OneMore ==
  ASSUME NEW a \in Nat \ {0}, NEW s \in Nat, NEW g \in Nat, NEW e \in Nat, NEW n \in Nat,
         NEW c \in Nat, s * a + g = e * n + c - 1, g < a, g < c
  PROVE  /\ s * a + (g + 1) = e * n + (c + 1) - 1
         /\ g + 1 = a => (s + 1) * a + 0 = e * n + (c + 1) - 1 /\ (s + 1) * a = e * n + c /\ a <= c
  <1> DEFINE placed == s * a
             begun == e * n
  <1>1. placed \in Nat /\ begun \in Nat /\ (s + 1) * a = placed + a
    BY Products
  <1>2. placed + g = begun + c - 1
    OBVIOUS
  <1> HIDE DEF placed, begun
  <1>3. placed + (g + 1) = begun + (c + 1) - 1
    BY <1>1, <1>2
  <1>4. g + 1 = a => placed + a = begun + c /\ placed + a + 0 = begun + (c + 1) - 1 /\ a <= c
    BY <1>1, <1>2
  <1>5. QED
    BY <1>1, <1>3, <1>4 DEF placed, begun

\* An epoch whose last chunk is passed has had all its steps.
LEMMA EpochEnds ==
  ASSUME NEW a \in Nat \ {0}, NEW n \in Nat \ {0}, NEW E \in Nat, NEW s \in Nat,
         NEW e \in Nat, NEW g \in 0 .. a - 1, NEW c \in 1 .. n + 1,
         s * a + g = e * n + c - 1, (e + 1) * n = ((e + 1) * E) * a
  PROVE  /\ s <= (e + 1) * E
         /\ c = n + 1 => s = (e + 1) * E
  <1> DEFINE begun == e * n
             until == (e + 1) * E
             placed == s * a
             bound == until * a
  <1>1. until \in Nat /\ begun \in Nat /\ placed \in Nat /\ bound \in Nat
    OBVIOUS
  <1>2. begun + n = bound
    BY Products
  <1>3. placed + g = begun + c - 1
    OBVIOUS
  <1> HIDE DEF begun, until, placed, bound
  <1>4. placed <= bound /\ (c = n + 1 => placed + g = bound)
    BY <1>1, <1>2, <1>3
  <1>5. s <= until
    BY <1>1, <1>4, Products DEF placed, bound
  <1>6. c = n + 1 => s = until
    BY <1>1, <1>4, WholeSteps DEF placed, bound
  <1>7. QED
    BY <1>5, <1>6 DEF until

LEMMA Joined ==
  ASSUME NEW S, NEW s \in Seq(S), NEW t \in Seq(S)
  PROVE  /\ Len(s) \in Nat /\ DOMAIN s = 1 .. Len(s) /\ Len(t) \in Nat
         /\ s \o t \in Seq(S) /\ DOMAIN (s \o t) = 1 .. Len(s) + Len(t) /\ Len(s \o t) = Len(s) + Len(t)
         /\ \A k \in 1 .. Len(s) : (s \o t)[k] = s[k]
         /\ \A k \in 1 .. Len(t) : (s \o t)[Len(s) + k] = t[k]
  OBVIOUS

LEMMA Appended ==
  ASSUME NEW S, NEW s \in Seq(S), NEW x \in S
  PROVE  /\ Append(s, x) \in Seq(S) /\ Len(s) \in Nat /\ DOMAIN s = 1 .. Len(s)
         /\ DOMAIN Append(s, x) = 1 .. Len(s) + 1 /\ Len(Append(s, x)) = Len(s) + 1
         /\ \A k \in 1 .. Len(s) : Append(s, x)[k] = s[k]
         /\ Append(s, x)[Len(s) + 1] = x
  OBVIOUS

\* A group of micro-batches that ends at the step's place continues the order.
LEMMA GroupInOrder ==
  ASSUME config \in Configs, NEW S, NEW steps \in Nat, NEW batches \in Seq(S),
         NEW group \in Seq(S), NEW e \in Nat, NEW c \in Nat,
         StepsAreTrained(steps, batches), Len(group) = config.accumulate,
         config.accumulate <= c, c <= config.chunks,
         (steps + 1) * config.accumulate = e * config.chunks + c,
         \A k \in DOMAIN group : group[k] = <<e, c - Len(group) + k>>
  PROVE  StepsAreTrained(steps + 1, batches \o group)
  <1> DEFINE a == config.accumulate
             placed == steps * a
             begun == e * config.chunks
             m == Len(batches)
  <1>0. a \in Nat \ {0} /\ config.chunks \in Nat \ {0}
    BY ConfigTyped
  <1>j. PICK new \in Seq(S) : new = batches \o group
    BY Joined
  <1>2. /\ DOMAIN group = 1 .. a /\ DOMAIN batches = 1 .. m /\ m \in Nat
        /\ DOMAIN new = 1 .. m + a /\ Len(new) = m + a
        /\ \A k \in 1 .. m : new[k] = batches[k]
        /\ \A k \in 1 .. a : new[m + k] = group[k]
    <2>1. /\ DOMAIN group = 1 .. Len(group) /\ DOMAIN batches = 1 .. Len(batches)
          /\ Len(batches) \in Nat
      BY Joined
    <2>2. /\ DOMAIN (batches \o group) = 1 .. Len(batches) + Len(group)
          /\ Len(batches \o group) = Len(batches) + Len(group)
          /\ \A k \in 1 .. Len(batches) : (batches \o group)[k] = batches[k]
          /\ \A k \in 1 .. Len(group) : (batches \o group)[Len(batches) + k] = group[k]
      <3>1. DOMAIN (batches \o group) = 1 .. Len(batches) + Len(group)
        BY Joined, SMTT(60)
      <3>2. Len(batches \o group) = Len(batches) + Len(group)
        BY Joined, Zenon
      <3>3. \A k \in 1 .. Len(batches) : (batches \o group)[k] = batches[k]
        BY Joined, Zenon
      <3>4. \A k \in 1 .. Len(group) : (batches \o group)[Len(batches) + k] = group[k]
        BY Joined, SMTT(60)
      <3>5. QED
        BY <3>1, <3>2, <3>3, <3>4
    <2>3. QED
      BY <1>j, <2>1, <2>2
  <1>3. placed <= m /\ (m = placed => training!Undisturbed(batches))
    BY DEF StepsAreTrained
  <1>4. (steps + 1) * a = begun + c /\ a <= c /\ c <= config.chunks
    OBVIOUS
  <1>g. \A k \in 1 .. a : group[k] = <<e, c - a + k>>
    BY <1>2
  <1> HIDE DEF a, m
  <1>1. (steps + 1) * a = placed + a /\ placed \in Nat /\ begun \in Nat
    BY <1>0, Products
  <1> HIDE DEF placed, begun
  <1>p. /\ placed + a <= m + a
        /\ m + a = placed + a => m = placed
        /\ \A j \in 1 .. a : m = placed => c - a + j \in 1 .. c /\ begun + (c - a + j) = m + j
    <2>1. placed + a = begun + c
      BY <1>1, <1>4
    <2>2. placed \in Nat /\ begun \in Nat /\ m \in Nat /\ placed <= m /\ a <= c
      BY <1>1, <1>2, <1>3, <1>4
    <2>3. QED
      BY <1>0, <2>1, <2>2, Places
  <1>5. ASSUME m = placed PROVE training!Undisturbed(new)
    <2>1. ASSUME NEW k \in 1 .. m + a
          PROVE  new[k][2] \in 1 .. config.chunks /\ new[k][1] * config.chunks + new[k][2] = k
      <3>1. CASE k <= m
        <4>1. k \in DOMAIN batches /\ new[k] = batches[k]
          BY <1>0, <1>2, <3>1
        <4>2. QED
          BY <1>3, <1>5, <4>1 DEF training!Undisturbed
      <3>2. CASE m < k
        <4>1. PICK j \in 1 .. a : k = m + j
          <5>1. k - m \in 1 .. a /\ k = m + (k - m)
            BY <1>0, <1>2, <3>2
          <5>2. QED
            BY <5>1
        <4>2. new[k] = <<e, c - a + j>>
          BY <1>2, <1>g, <4>1
        <4>3. c - a + j \in 1 .. c /\ begun + (c - a + j) = k
          BY <1>5, <1>p, <4>1
        <4>4. QED
          BY <1>0, <1>4, <4>2, <4>3 DEF begun
      <3>3. QED
        BY <1>0, <1>2, <3>1, <3>2
    <2>2. QED
      BY <1>2, <2>1 DEF training!Undisturbed
  <1>6. placed + a <= m + a /\ (m + a = placed + a => m = placed)
    BY <1>p
  <1>7. QED
    BY <1>1, <1>2, <1>5, <1>6, <1>j DEF StepsAreTrained, a

LEMMA OrderInit == training!Init => DataInOrder
  <1> SUFFICES ASSUME training!Init, training!EvenEpochs PROVE DataInOrder
    BY DEF DataInOrder
  <1>1. config \in Configs /\ run = training!FreshRun /\ pc = "off" /\ state = None
    BY DEF training!Init
  <1>2. config.accumulate \in Nat \ {0} /\ training!StepsPerEpoch \in Nat \ {0}
    BY <1>1, ConfigTyped, EpochsTyped
  <1>3. StepsAreTrained(0, <<>>)
    BY <1>2 DEF StepsAreTrained, training!Undisturbed
  <1>4. Within(0, 0)
    BY <1>2 DEF Within
  <1>5. state \notin Saved
    BY <1>1, ModelsAssumption DEF training!TrainingAssumption, Saved
  <1>6. QED
    BY <1>1, <1>3, <1>4, <1>5 DEF DataInOrder, training!FreshRun, Steps

LEMMA SameConfig == [training!Next]_(training!vars) => config' = config
  BY DEF training!Next, training!vars, training!StartFresh, training!Resume, training!StartProcess,
         training!SkipChunk, training!MicroBatch, training!CountStep, training!NextEpoch,
         training!LeaveLoop, training!Validate, training!SaveWeights, training!SaveMetadata,
         training!SaveState, training!Interrupt, training!Kill, training!Finished

LEMMA SameEpochs ==
  ASSUME config' = config
  PROVE  /\ training!EvenEpochs' = training!EvenEpochs
         /\ training!StepsPerEpoch' = training!StepsPerEpoch
         /\ \A s, b : StepsAreTrained(s, b)' = StepsAreTrained(s, b)
         /\ \A s, e : Within(s, e)' = Within(s, e)
  BY DEF training!EvenEpochs, training!StepsPerEpoch, training!Ceil, StepsAreTrained,
         training!Undisturbed, Within

\* Where a process begins that goes on from a file: behind the file's steps.
LEMMA ResumedAtItsChunk ==
  ASSUME TrainingTyped, training!EvenEpochs, NEW s \in Nat, NEW e \in Nat, Within(s, e)
  PROVE  LET c == training!FirstChunk(s, e)
         IN  c \in 1 .. config.chunks + 1 /\ s * config.accumulate = e * config.chunks + c - 1
  <1> DEFINE a == config.accumulate
             E == training!StepsPerEpoch
             before == e * E
             done == s - before
             c == training!FirstChunk(s, e)
  <1>1. a \in Nat \ {0} /\ E \in Nat \ {0} /\ e * config.chunks = before * a
        /\ config.chunks = E * a /\ config.chunks \in Nat
    BY ConfigTyped, EpochsTyped DEF TrainingTyped, training!EvenEpochs
  <1>2. before \in Nat /\ (e + 1) * E = before + E
    BY <1>1, Products
  <1>3. before <= s /\ s <= before + E
    BY <1>2 DEF Within
  <1> HIDE DEF a, E, before
  <1>4. done \in 0 .. E /\ s = before + done
    BY <1>1, <1>2, <1>3
  <1> HIDE DEF done
  <1>5. s * a = before * a + done * a /\ done * a \in Nat /\ before * a \in Nat
    BY <1>1, <1>2, <1>4
  <1>6. done * a <= E * a
    BY <1>1, <1>4, Products
  <1>7. c = done * a + 1
    <2>1. CASE done > 0
      BY <2>1 DEF training!FirstChunk, done, before, E, a
    <2>2. CASE done = 0
      <3>1. c = 1
        BY <2>2 DEF training!FirstChunk, done, before, E, a
      <3>2. QED
        BY <1>1, <2>2, <3>1
    <2>3. QED
      BY <1>4, <2>1, <2>2
  <1>8. QED
    BY <1>1, <1>5, <1>6, <1>7 DEF a

LEMMA OrderStep ==
  ASSUME TrainingTyped, DataInOrder, [training!Next]_(training!vars)
  PROVE  DataInOrder'
  <1>0. config' = config /\ config \in Configs
    BY SameConfig DEF TrainingTyped
  <1> SUFFICES ASSUME training!EvenEpochs PROVE DataInOrder'
    BY <1>0, SameEpochs DEF DataInOrder
  <1> DEFINE a == config.accumulate
             E == training!StepsPerEpoch
  <1>1. a \in Nat \ {0} /\ E \in Nat \ {0} /\ config.chunks \in Nat \ {0}
    BY <1>0, ConfigTyped, EpochsTyped
  <1>2. /\ StepsAreTrained(Steps, run.optimizer)
        /\ Within(run.step, run.epoch)
        /\ pc # "off" /\ ~run.final => AtItsChunk
        /\ state \in Saved => StepsAreTrained(state.step, state.optimizer) /\ Within(state.step, state.epoch)
    BY DEF DataInOrder
  <1>3. /\ run.step \in Nat /\ run.epoch \in Nat /\ run.chunk \in Nat /\ Steps \in Nat
        /\ run.grads \in Seq(Nat \X Nat) /\ run.optimizer \in Seq(Nat \X Nat)
    BY DEF TrainingTyped, Steps
  <1>e. \A e \in Nat : e * config.chunks = (e * E) * a
    BY <1>0, EpochsTyped
  <1>l. Len(run.grads) \in Nat /\ DOMAIN run.grads = 1 .. Len(run.grads)
    BY <1>3, Joined
  <1> HIDE DEF a, E
  <1> SUFFICES /\ StepsAreTrained(Steps', run'.optimizer)
               /\ Within(run'.step, run'.epoch)
               /\ pc' # "off" /\ ~run'.final => AtItsChunk'
               /\ state' \in Saved => /\ StepsAreTrained(state'.step, state'.optimizer)
                                      /\ Within(state'.step, state'.epoch)
    <2>1. StepsAreTrained(Steps, run.optimizer)' = StepsAreTrained(Steps', run'.optimizer)
      BY <1>0 DEF StepsAreTrained, training!Undisturbed
    <2>2. StepsAreTrained(state.step, state.optimizer)' = StepsAreTrained(state'.step, state'.optimizer)
      BY <1>0 DEF StepsAreTrained, training!Undisturbed
    <2>3. /\ Within(run.step, run.epoch)' = Within(run'.step, run'.epoch)
          /\ Within(state.step, state.epoch)' = Within(state'.step, state'.epoch)
      BY <1>0 DEF Within, training!StepsPerEpoch, training!Ceil
    <2>4. QED
      BY <2>1, <2>2, <2>3 DEF DataInOrder
  <1>4. StepsAreTrained(run.step, run.optimizer)
    <2>1. CASE pc = "applied"
      <3>1. Steps = run.step + 1 /\ (run.step + 1) * a = run.step * a + a /\ run.step * a \in Nat
        BY <1>1, <1>3, <2>1, Products DEF Steps
      <3>2. Steps * a <= Len(run.optimizer)
        BY <1>2 DEF StepsAreTrained, a
      <3>3. run.step * a < Len(run.optimizer)
        BY <1>1, <1>3, <3>1, <3>2
      <3>4. QED
        BY <1>3, <3>1, <3>3 DEF StepsAreTrained, a
    <2>2. CASE pc # "applied"
      BY <1>2, <2>2 DEF Steps
    <2>3. QED
      BY <2>1, <2>2
  \* The steps that only move the process on, or stop it.
  <1>5. ASSUME run'.step = run.step, run'.epoch = run.epoch, run'.optimizer = run.optimizer,
               Steps' \in {Steps, run.step},
               pc' # "off" /\ ~run'.final => AtItsChunk',
               state' \in {state, Torn} \/ state' = [step |-> run.step, epoch |-> run.epoch,
                                                     optimizer |-> run.optimizer]
        PROVE  /\ StepsAreTrained(Steps', run'.optimizer)
               /\ Within(run'.step, run'.epoch)
               /\ pc' # "off" /\ ~run'.final => AtItsChunk'
               /\ state' \in Saved => /\ StepsAreTrained(state'.step, state'.optimizer)
                                      /\ Within(state'.step, state'.epoch)
    <2>1. StepsAreTrained(Steps', run'.optimizer)
      BY <1>2, <1>4, <1>5
    <2>2. state' = Torn => state' \notin Saved
      BY ModelsAssumption DEF training!TrainingAssumption, Saved
    <2>3. state' \in Saved => /\ StepsAreTrained(state'.step, state'.optimizer)
                              /\ Within(state'.step, state'.epoch)
      BY <1>2, <1>4, <1>5, <2>2
    <2>4. QED
      BY <1>2, <1>5, <2>1, <2>3
  <1>6. ASSUME run'.step = run.step, run'.epoch = run.epoch, run'.grads = run.grads,
               run'.chunk = run.chunk, Steps' = Steps, AtItsChunk
        PROVE  AtItsChunk'
    BY <1>0, <1>6 DEF AtItsChunk
  <1>7. CASE training!StartFresh
    <2>1. /\ run' = training!FreshRun /\ state' = state /\ Steps' = 0
      BY <1>7 DEF training!StartFresh, training!StartProcess, training!files, Steps,
         training!FreshRun
    <2>2. StepsAreTrained(0, <<>>) /\ Within(0, 0)
      BY <1>1 DEF StepsAreTrained, training!Undisturbed, Within, a, E
    <2>3. AtItsChunk'
      BY <1>0, <1>1, <2>1 DEF AtItsChunk, training!FreshRun, a
    <2>4. QED
      BY <1>2, <2>1, <2>2, <2>3 DEF training!FreshRun
  <1>8. CASE training!Resume
    <2>1. state \in Saved /\ state' = state /\ run' = training!ResumedRun /\ pc' = "train"
      BY <1>8 DEF training!Resume, training!StartProcess, training!files, TrainingTyped
    <2> DEFINE c == training!FirstChunk(state.step, state.epoch)
    <2>2. /\ run'.step = state.step /\ run'.epoch = state.epoch /\ run'.chunk = c
          /\ run'.grads = <<>> /\ run'.optimizer = state.optimizer /\ Steps' = state.step
      BY <2>1 DEF training!ResumedRun, training!FreshRun, Steps
    <2>3. state.step \in Nat /\ state.epoch \in Nat
      BY <2>1 DEF Saved
    <2>4. c \in 1 .. config.chunks + 1 /\ state.step * a = state.epoch * config.chunks + c - 1
      BY <1>2, <2>1, <2>3, ResumedAtItsChunk DEF a
    <2> HIDE DEF c
    <2>5. AtItsChunk'
      BY <1>0, <1>1, <2>2, <2>3, <2>4 DEF AtItsChunk, a
    <2>6. QED
      BY <1>2, <2>1, <2>2, <2>5
  <1>9. CASE training!MicroBatch
    <2> DEFINE grads == Append(run.grads, <<run.epoch, run.chunk>>)
    <2>1. pc = "train" /\ run.chunk <= config.chunks /\ state' = state
      BY <1>9 DEF training!MicroBatch, training!files
    <2>2. AtItsChunk /\ Steps = run.step
      BY <1>2, <2>1 DEF TrainingTyped, Steps
    <2>3. /\ run'.step = run.step /\ run'.epoch = run.epoch /\ run'.chunk = run.chunk + 1
          /\ IF Len(grads) < a
             THEN pc' = "train" /\ run'.grads = grads /\ run'.optimizer = run.optimizer
             ELSE pc' = "applied" /\ run'.grads = <<>> /\ run'.optimizer = run.optimizer \o grads
      BY <1>9, <2>1 DEF training!MicroBatch, TrainingTyped, Memory, a
    <2>4. PICK g \in Nat, c \in Nat, e \in Nat, n \in Nat \ {0} :
            g = Len(run.grads) /\ c = run.chunk /\ e = run.epoch /\ n = config.chunks
      BY <1>1, <1>3
    <2>5. /\ grads \in Seq(Nat \X Nat) /\ Len(grads) = g + 1
          /\ DOMAIN grads = 1 .. g + 1 /\ DOMAIN run.grads = 1 .. g
          /\ \A k \in 1 .. g : grads[k] = run.grads[k]
          /\ grads[g + 1] = <<e, c>>
      BY <1>3, <2>4, Appended
    <2> HIDE DEF grads
    <2>6. /\ g < a /\ g < c /\ c <= n
          /\ run.step * a + g = e * n + c - 1
          /\ \A k \in 1 .. g : run.grads[k] = <<e, c - g - 1 + k>>
      BY <2>1, <2>2, <2>4, <2>5 DEF AtItsChunk, a
    <2>7. \A k \in 1 .. g + 1 : grads[k] = <<e, c - (g + 1) + k>>
      <3> SUFFICES ASSUME NEW k \in 1 .. g + 1 PROVE grads[k] = <<e, c - (g + 1) + k>>
        OBVIOUS
      <3>1. c - g - 1 + k = c - (g + 1) + k /\ c - (g + 1) + (g + 1) = c
        OBVIOUS
      <3>2. k \in 1 .. g \/ k = g + 1
        OBVIOUS
      <3>3. QED
        BY <2>5, <2>6, <3>1, <3>2
    <2>8. /\ run.step * a + (g + 1) = e * n + (c + 1) - 1
          /\ g + 1 = a => /\ (run.step + 1) * a + 0 = e * n + (c + 1) - 1
                          /\ (run.step + 1) * a = e * n + c /\ a <= c
      BY <1>1, <1>3, <2>6, OneMore, SMTT(30)
    <2>9. CASE Len(grads) < a
      <3>1. /\ Steps' = run.step /\ pc' = "train" /\ run'.grads = grads
            /\ run'.optimizer = run.optimizer
        BY <2>3, <2>9 DEF Steps
      <3>2. /\ Len(run'.grads) = g + 1 /\ DOMAIN run'.grads = 1 .. g + 1 /\ g + 1 < a
            /\ run'.chunk = c + 1 /\ run'.epoch = e /\ config'.chunks = n /\ config'.accumulate = a
        BY <1>0, <2>3, <2>4, <2>5, <2>9, <3>1 DEF a
      <3>3. g + 1 < c + 1 /\ c + 1 <= n + 1
        BY <2>6
      <3>4. \A k \in 1 .. g + 1 : run'.grads[k] = <<e, (c + 1) - (g + 1) - 1 + k>>
        <4>1. \A k \in 1 .. g + 1 : (c + 1) - (g + 1) - 1 + k = c - (g + 1) + k
          OBVIOUS
        <4>2. QED
          BY <2>7, <3>1, <4>1
      <3>5. AtItsChunk'
        BY <2>8, <3>1, <3>2, <3>3, <3>4 DEF AtItsChunk
      <3>6. QED
        BY <1>5, <2>1, <2>2, <2>3, <3>1, <3>5
    <2>10. CASE ~(Len(grads) < a)
      <3>1. /\ Steps' = run.step + 1 /\ pc' = "applied" /\ run'.grads = <<>>
            /\ run'.optimizer = run.optimizer \o grads
        BY <2>3, <2>10 DEF Steps
      <3>2. g + 1 = a
        BY <1>1, <2>5, <2>6, <2>10
      <3>3. a <= c /\ (run.step + 1) * a = e * n + c /\ Len(grads) = a
        BY <2>5, <2>8, <3>2
      <3>4. \A k \in DOMAIN grads : grads[k] = <<e, c - Len(grads) + k>>
        BY <2>5, <2>7
      <3>5. StepsAreTrained(run.step + 1, run.optimizer \o grads)
        <4>1. /\ Len(grads) = config.accumulate /\ config.accumulate <= c /\ c <= config.chunks
              /\ (run.step + 1) * config.accumulate = e * config.chunks + c
          BY <2>4, <2>6, <3>3 DEF a
        <4>2. grads \in Seq(Nat \X Nat) /\ run.optimizer \in Seq(Nat \X Nat) /\ run.step \in Nat
          BY <1>3, <2>5
        <4>3. QED
          BY <1>0, <1>4, <3>4, <4>1, <4>2, GroupInOrder
      <3>6. /\ Len(run'.grads) = 0 /\ DOMAIN run'.grads = {}
            /\ run'.chunk = c + 1 /\ run'.epoch = e /\ config'.chunks = n /\ config'.accumulate = a
        BY <1>0, <2>3, <2>4, <3>1 DEF a
      <3>7. 0 < a /\ 0 < c + 1 /\ c + 1 <= n + 1
        BY <1>1, <2>6
      <3>8. AtItsChunk'
        BY <2>8, <3>1, <3>2, <3>6, <3>7 DEF AtItsChunk
      <3>9. QED
        BY <1>2, <2>1, <2>3, <3>1, <3>5, <3>8
    <2>11. QED
      BY <2>9, <2>10
  <1>10. CASE training!CountStep
    <2>1. /\ pc = "applied" /\ run' = [run EXCEPT !.step = run.step + 1] /\ state' = state
          /\ pc' \in {"validate", "last", "train"}
      BY <1>10 DEF training!CountStep, training!Onward, training!files
    <2>2. AtItsChunk /\ Steps = run.step + 1
      BY <1>2, <2>1 DEF TrainingTyped, Steps
    <2>3. /\ run'.step = run.step + 1 /\ run'.epoch = run.epoch /\ run'.optimizer = run.optimizer
          /\ run'.grads = run.grads /\ run'.chunk = run.chunk /\ Steps' = Steps
      BY <2>1, <2>2 DEF TrainingTyped, Memory, Steps
    <2>4. AtItsChunk'
      BY <1>0, <2>2, <2>3 DEF AtItsChunk
    <2>5. Within(run.step + 1, run.epoch)
      <3> DEFINE next == run.step + 1
      <3>1. /\ next \in Nat /\ run.epoch * E \in Nat /\ run.epoch * E <= run.step
            /\ run.epoch + 1 \in Nat
        <4>1. next \in Nat /\ run.epoch + 1 \in Nat
          BY <1>3
        <4>2. run.epoch * E \in Nat
          BY <1>1, <1>3
        <4>3. run.epoch * E <= run.step
          BY <1>2 DEF Within, E
        <4>4. QED
          BY <4>1, <4>2, <4>3
      <3>2. /\ next * a + Len(run.grads) = run.epoch * config.chunks + run.chunk - 1
            /\ run.chunk <= config.chunks + 1 /\ Len(run.grads) < a /\ Len(run.grads) < run.chunk
        BY <2>2 DEF AtItsChunk, a
      <3>3. (run.epoch + 1) * config.chunks = ((run.epoch + 1) * E) * a
        BY <1>e, <3>1
      <3> HIDE DEF next
      <3>4. Len(run.grads) \in 0 .. a - 1 /\ run.chunk \in 1 .. config.chunks + 1
        <4>1. /\ run.chunk <= config.chunks + 1 /\ Len(run.grads) < a
              /\ Len(run.grads) < run.chunk
          BY <3>2
        <4>2. QED
          BY <1>1, <1>3, <1>l, <4>1
      <3>5. next <= (run.epoch + 1) * E
        <4>1. a \in Nat \ {0} /\ config.chunks \in Nat /\ config.chunks \in Nat \ {0} /\ E \in Nat
              /\ next \in Nat /\ run.epoch \in Nat
          BY <1>1, <1>3, <3>1
        <4>2. next * a + Len(run.grads) = run.epoch * config.chunks + run.chunk - 1
          BY <3>2
        <4> DEFINE g == Len(run.grads)
                   c1 == run.chunk
                   e1 == run.epoch
                   n == config.chunks
                   s == next
        <4>3. /\ a \in Nat \ {0} /\ n \in Nat \ {0} /\ E \in Nat /\ s \in Nat /\ e1 \in Nat
              /\ g \in 0 .. a - 1 /\ c1 \in 1 .. n + 1
              /\ s * a + g = e1 * n + c1 - 1 /\ (e1 + 1) * n = ((e1 + 1) * E) * a
          BY <3>1, <3>3, <3>4, <4>1, <4>2
        <4> HIDE DEF g, c1, e1, n, s
        <4>4. s <= (e1 + 1) * E /\ (c1 = n + 1 => s = (e1 + 1) * E)
          BY <4>3, EpochEnds
        <4>5. QED
          BY <4>4 DEF c1, e1, n, s
      <3>6. run.epoch * E <= next
        BY <1>3, <3>1 DEF next
      <3>7. QED
        BY <3>5, <3>6 DEF Within, next, E
    <2>6. QED
      BY <1>2, <2>1, <2>2, <2>3, <2>4, <2>5
  <1>11. CASE training!NextEpoch
    <2>1. pc = "train" /\ pc' = pc /\ run.chunk > config.chunks /\ state' = state
      BY <1>11 DEF training!NextEpoch, training!files
    <2>2. AtItsChunk /\ Steps = run.step
      BY <1>2, <2>1 DEF TrainingTyped, Steps
    <2> DEFINE e == run.epoch + 1
               begun == e * E
               c == training!FirstChunk(run.step, e)
    <2>3. /\ run'.step = run.step /\ run'.epoch = e /\ run'.chunk = c /\ run'.grads = <<>>
          /\ run'.optimizer = run.optimizer /\ Steps' = run.step
      BY <1>11, <2>1 DEF training!NextEpoch, TrainingTyped, Memory, Steps
    <2>4. e \in Nat /\ begun \in Nat
      BY <1>1, <1>3
    <2>5. run.step = begun
      <3>1. (run.epoch + 1) * config.chunks = ((run.epoch + 1) * E) * a
        BY <1>e, <2>4
      <3>2. /\ run.step * a + Len(run.grads) = run.epoch * config.chunks + run.chunk - 1
            /\ run.chunk <= config.chunks + 1 /\ Len(run.grads) < a
        BY <2>2 DEF AtItsChunk, a
      <3>3. /\ Len(run.grads) \in 0 .. a - 1 /\ run.chunk \in 1 .. config.chunks + 1
            /\ run.chunk = config.chunks + 1
        <4>1. run.chunk <= config.chunks + 1 /\ Len(run.grads) < a
          BY <3>2
        <4>2. QED
          BY <1>1, <1>3, <1>l, <2>1, <4>1
      <3>4. QED
        <4>1. a \in Nat \ {0} /\ config.chunks \in Nat /\ config.chunks \in Nat \ {0} /\ E \in Nat
              /\ run.step \in Nat /\ run.epoch \in Nat
          BY <1>1, <1>3
        <4>2. run.step * a + Len(run.grads) = run.epoch * config.chunks + run.chunk - 1
          BY <3>2
        <4> DEFINE g == Len(run.grads)
                   c1 == run.chunk
                   e1 == run.epoch
                   n == config.chunks
                   s == run.step
        <4>3. /\ a \in Nat \ {0} /\ n \in Nat \ {0} /\ E \in Nat /\ s \in Nat /\ e1 \in Nat
              /\ g \in 0 .. a - 1 /\ c1 \in 1 .. n + 1
              /\ s * a + g = e1 * n + c1 - 1 /\ (e1 + 1) * n = ((e1 + 1) * E) * a
          BY <3>1, <3>3, <4>1, <4>2
        <4> HIDE DEF g, c1, e1, n, s
        <4>4. s <= (e1 + 1) * E /\ (c1 = n + 1 => s = (e1 + 1) * E)
          BY <4>3, EpochEnds
        <4>5. QED
          BY <3>3, <4>4 DEF c1, e1, n, s
    <2>6. Within(run.step, e)
      <3>1. (e + 1) * E = begun + E
        BY <1>1, <2>4, Products
      <3>2. QED
        BY <1>1, <2>4, <2>5, <3>1 DEF Within, E
    <2>7. c \in 1 .. config.chunks + 1 /\ run.step * a = e * config.chunks + c - 1
      BY <1>3, <2>4, <2>6, ResumedAtItsChunk DEF a
    <2> HIDE DEF c, e, begun
    <2>8. AtItsChunk'
      BY <1>0, <1>1, <1>3, <2>3, <2>4, <2>7 DEF AtItsChunk, a
    <2>9. QED
      BY <1>2, <1>4, <2>1, <2>3, <2>6, <2>8
  <1>12. CASE training!LeaveLoop
    <2>1. /\ run' = [run EXCEPT !.final = TRUE] /\ pc' = "validate" /\ state' = state
      BY <1>12 DEF training!LeaveLoop, training!files
    <2>2. /\ run'.step = run.step /\ run'.epoch = run.epoch /\ run'.optimizer = run.optimizer
          /\ run'.final /\ Steps' = run.step
      BY <2>1 DEF TrainingTyped, Memory, Steps
    <2>3. QED
      BY <1>5, <2>1, <2>2
  <1>13. ASSUME NEW score \in Scores, training!Validate(score)
         PROVE  /\ StepsAreTrained(Steps', run'.optimizer)
                /\ Within(run'.step, run'.epoch)
                /\ pc' # "off" /\ ~run'.final => AtItsChunk'
                /\ state' \in Saved => /\ StepsAreTrained(state'.step, state'.optimizer)
                                       /\ Within(state'.step, state'.epoch)
    <2>1. /\ run'.step = run.step /\ run'.epoch = run.epoch /\ run'.optimizer = run.optimizer
          /\ run'.chunk = run.chunk /\ run'.grads = run.grads /\ run'.final = run.final
      BY <1>13 DEF training!Validate, training!Selected, TrainingTyped, Memory
    <2>2. pc = "validate" /\ pc' \in {"weights", "last", "train"} /\ state' = state
      BY <1>13 DEF training!Validate, training!AfterPass, training!Onward, training!files
    <2>3. Steps' = Steps
      BY <2>1, <2>2 DEF Steps
    <2>4. QED
      BY <1>2, <1>5, <1>6, <2>1, <2>2, <2>3
  <1>14. CASE training!SaveWeights \/ training!SaveMetadata \/ training!SaveState
    <2>1. /\ run' = run /\ pc \in {"weights", "artifact", "state"} /\ pc' # "applied"
          /\ state' = state \/ state' = [step |-> run.step, epoch |-> run.epoch, optimizer |-> run.optimizer]
      BY <1>14 DEF training!SaveWeights, training!SaveMetadata, training!SaveState, training!Onward
    <2>2. Steps' = Steps
      BY <2>1 DEF Steps
    <2>3. QED
      BY <1>2, <1>5, <1>6, <2>1, <2>2
  <1>15. CASE training!Interrupt \/ training!Kill
    <2>1. /\ run'.step = run.step /\ run'.epoch = run.epoch /\ run'.optimizer = run.optimizer
          /\ pc' = "off" \/ run'.final
          /\ pc' # "applied" /\ state' \in {state, Torn}
      BY <1>15 DEF training!Interrupt, training!Kill, TrainingTyped, Memory
    <2>2. QED
      BY <1>5, <2>1 DEF Steps
  <1>16. CASE training!SkipChunk
    BY <1>16 DEF training!SkipChunk, training!Skipped, training!EvenEpochs
  <1>17. CASE training!Finished \/ UNCHANGED training!vars
    <2>1. UNCHANGED <<pc, run, state>>
      BY <1>17 DEF training!Finished, training!vars, training!files
    <2>2. Steps' = Steps
      BY <2>1 DEF Steps
    <2>3. QED
      BY <1>2, <1>5, <1>6, <2>1, <2>2
  <1>18. QED
    BY <1>7, <1>8, <1>9, <1>10, <1>11, <1>12, <1>13, <1>14, <1>15, <1>16, <1>17 DEF training!Next

\* train.py, train(), and data.py, ExampleBatcher.batches: a run that goes on from a
\* checkpoint whose parts belong together trains on the chunks in the order of one
\* process, for any sizes, epochs, caps, kills, interrupts and restarts.
THEOREM DataKeepsItsOrder == Spec => []SameDataOrder
  <1>1. TrainingTyped /\ DataInOrder => training!SameDataOrder
    <2> SUFFICES ASSUME TrainingTyped, DataInOrder, training!EvenEpochs, run.weights = run.optimizer,
                        Len(run.optimizer) = run.step * config.accumulate
                 PROVE  training!Undisturbed(run.weights)
      BY DEF training!SameDataOrder
    <2>1. run.step \in Nat /\ config.accumulate \in Nat \ {0}
      BY ConfigTyped DEF TrainingTyped
    <2>2. pc # "applied"
      <3> SUFFICES ASSUME pc = "applied" PROVE FALSE
        OBVIOUS
      <3>1. (run.step + 1) * config.accumulate <= Len(run.optimizer)
        BY DEF DataInOrder, StepsAreTrained, Steps
      <3>2. QED
        BY <2>1, <3>1, Products
    <2>3. QED
      BY <2>2 DEF DataInOrder, StepsAreTrained, Steps
  <1>2. QED
    BY TrainingBehaviour, TypedInit, TypedStep, OrderInit, OrderStep, <1>1, PTL
       DEF training!Spec, SameDataOrder

-----------------------------------------------------------------------------
(* The embedding jobs (EmbeddingIndex).                                    *)

LEMMA IndexBehaviour == Spec => index!Spec
  <1>1. Init => index!Init
    BY DEF Init
  <1>2. [Next]_vars => [index!Next]_(index!vars)
    BY DEF Next, vars, indexVars, index!vars
  <1>3. QED
    BY <1>1, <1>2, PTL DEF Spec, index!Spec

LEMMA LeastOf ==
  ASSUME NEW S \in SUBSET Nat, S # {}
  PROVE  \E x \in S : \A y \in S : x <= y
  <1>1. PICK x \in S : \A y \in S : ~(<<y, x>> \in OpToRel(<, Nat))
    BY NatLessThanWellFounded, WFMin
  <1>2. \A y \in S : ~(y < x)
    BY <1>1 DEF OpToRel
  <1>3. QED
    BY <1>2

LEMMA SameCounting ==
  /\ \A S : index!Cardinality(S) = Cardinality(S)
  /\ \A S : index!IsFiniteSet(S) <=> IsFiniteSet(S)
  <1>1. \A S : index!Cardinality(S) = Cardinality(S)
    BY Zenon DEF index!Cardinality, Cardinality
  <1>2. \A S : index!IsFiniteSet(S) <=> IsFiniteSet(S)
    BY Zenon DEF index!IsFiniteSet, IsFiniteSet
  <1>3. QED
    BY <1>1, <1>2

\* Counting does not decrease from a set of ids to a larger one, and increases to one
\* that has more.
LEMMA Counts ==
  ASSUME NEW S \in SUBSET Ids, NEW T \in SUBSET S
  PROVE  /\ index!Cardinality(S) \in Nat /\ index!Cardinality(T) \in Nat
         /\ index!Cardinality(T) <= index!Cardinality(S)
         /\ T # S => index!Cardinality(T) < index!Cardinality(S)
  <1>1. IsFiniteSet(Ids)
    BY ModelsAssumption, SameCounting DEF index!IndexAssumption
  <1>2. IsFiniteSet(S)
    BY <1>1, FS_Subset
  <1>3. /\ IsFiniteSet(T) /\ Cardinality(T) <= Cardinality(S)
        /\ Cardinality(S) = Cardinality(T) => S = T
    BY <1>2, FS_Subset
  <1>4. Cardinality(S) \in Nat /\ Cardinality(T) \in Nat
    BY <1>2, <1>3, FS_CardinalityType
  <1>5. QED
    BY <1>3, <1>4, SameCounting

LEMMA IdsAreNumbers == Ids \subseteq Nat \ {0} /\ Batch \in Nat \ {0}
  BY ModelsAssumption DEF index!IndexAssumption

LEMMA LastOf ==
  ASSUME NEW S \in SUBSET Ids, S # {}
  PROVE  index!Max(S) \in S /\ \A y \in S : index!Max(S) >= y
  <1> DEFINE above(e) == {f \in S : f > e}
             sizes == {index!Cardinality(above(e)) : e \in S}
  <1>1. \A e \in S : above(e) \in SUBSET Ids /\ index!Cardinality(above(e)) \in Nat
    <2>1. ASSUME NEW e \in S PROVE index!Cardinality(above(e)) \in Nat
      <3>1. above(e) \in SUBSET Ids
        OBVIOUS
      <3> HIDE DEF above
      <3>2. QED
        BY <3>1, Counts
    <2>2. QED
      BY <2>1
  <1>2. sizes \in SUBSET Nat /\ sizes # {}
    BY <1>1
  <1>3. PICK n \in sizes : \A m \in sizes : n <= m
    BY <1>2, LeastOf
  <1>4. PICK x \in S : n = index!Cardinality(above(x))
    BY <1>3
  <1>5. ASSUME NEW y \in S PROVE x >= y
    <2> SUFFICES ASSUME ~(x >= y) PROVE FALSE
      OBVIOUS
    <2>1. x \in Nat /\ y \in Nat /\ y > x
      BY IdsAreNumbers
    <2>2. above(y) \in SUBSET above(x) /\ y \in above(x) /\ y \notin above(y)
      <3>1. \A f \in S : f \in Nat
        BY IdsAreNumbers
      <3>2. \A f \in S : f > y => f > x
        BY <2>1, <3>1
      <3>3. ~(y > y)
        BY <2>1
      <3>4. QED
        BY <2>1, <3>2, <3>3
    <2>3. index!Cardinality(above(y)) < index!Cardinality(above(x))
      <3>1. above(x) \in SUBSET Ids /\ above(y) # above(x)
        BY <2>2
      <3> HIDE DEF above
      <3>2. QED
        BY <2>2, <3>1, Counts
    <2>4. n <= index!Cardinality(above(y))
      BY <1>3
    <2>5. n \in Nat /\ index!Cardinality(above(y)) \in Nat
      BY <1>2, <1>1
    <2> HIDE DEF above
    <2>6. QED
      BY <1>4, <2>3, <2>4, <2>5
  <1>6. \E z \in S : \A y \in S : z >= y
    BY <1>5
  <1>7. QED
    BY <1>6 DEF index!Max

\* A page holds the first rows: with one of them all before it, and one at least
\* when any is left.
LEMMA Pages ==
  ASSUME NEW S \in SUBSET Ids
  PROVE  /\ index!Smallest(S, Batch) \in SUBSET S
         /\ index!Smallest(S, Batch) = {} => S = {}
         /\ \A p \in index!Smallest(S, Batch) : \A e \in S :
              e <= p => e \in index!Smallest(S, Batch)
  <1> DEFINE below(e) == {f \in S : f < e}
  <1>1. index!Smallest(S, Batch) = {e \in S : index!Cardinality(below(e)) < Batch}
    BY DEF index!Smallest
  <1>2. ASSUME S # {} PROVE index!Smallest(S, Batch) # {}
    <2>1. PICK x \in S : \A y \in S : x <= y
      <3>1. S \in SUBSET Nat
        BY IdsAreNumbers
      <3>2. QED
        BY <1>2, <3>1, LeastOf
    <2>2. below(x) = {}
      <3>1. \A f \in S : f \in Nat
        BY IdsAreNumbers
      <3>2. \A f \in S : ~(f < x)
        BY <2>1, <3>1
      <3>3. QED
        BY <3>2
    <2>3. index!Cardinality({}) = 0
      BY SameCounting, FS_EmptySet
    <2> HIDE DEF below
    <2>4. index!Cardinality(below(x)) < Batch
      BY <2>2, <2>3, IdsAreNumbers
    <2>5. QED
      BY <1>1, <2>4
  <1>3. ASSUME NEW p \in index!Smallest(S, Batch), NEW e \in S, e <= p
        PROVE  e \in index!Smallest(S, Batch)
    <2>1. p \in S /\ index!Cardinality(below(p)) < Batch
      BY <1>1
    <2>2. below(e) \in SUBSET below(p) /\ below(p) \in SUBSET Ids
      <3>1. \A f \in S : f \in Nat
        BY IdsAreNumbers
      <3>2. QED
        BY <1>3, <2>1, <3>1
    <2> HIDE DEF below
    <2>3. /\ index!Cardinality(below(e)) <= index!Cardinality(below(p))
          /\ index!Cardinality(below(e)) \in Nat /\ index!Cardinality(below(p)) \in Nat
      BY <2>2, Counts
    <2>4. QED
      BY <1>1, <2>1, <2>3, IdsAreNumbers
  <1>4. QED
    BY <1>1, <1>2, <1>3

Fields == {"phase", "model", "limit", "embedded", "after", "rows", "weights", "built", "owed",
           "alone"}

IndexTyped ==
  /\ DOMAIN episodes = Ids
  /\ DOMAIN vectors = index!Models /\ \A m \in index!Models : DOMAIN vectors[m] = Ids
  /\ DOMAIN jobs = Jobs
  /\ \A j \in Jobs : DOMAIN jobs[j] = Fields

\* What a running job owes is there; the rows it has read are behind it, and those
\* it owes are as they were; what it owes behind it is in its rows or up to date;
\* no other job of its model runs beside one that is alone.
Working(j) ==
  jobs[j].phase # "idle" =>
    /\ jobs[j].model \in index!Models
    /\ jobs[j].after \in Nat
    /\ \A e \in jobs[j].owed : e \in Ids /\ index!Exists(e)
    /\ \A r \in jobs[j].rows : r.id \in Ids /\ r.id <= jobs[j].after
                               /\ (r.id \in jobs[j].owed => r.row = episodes[r.id])
    /\ jobs[j].phase \in {"read", "counted"} => jobs[j].rows = {}
    /\ jobs[j].alone =>
         \A k \in Jobs : k # j /\ jobs[k].phase # "idle" => jobs[k].model # jobs[j].model
    /\ jobs[j].alone =>
         \A e \in jobs[j].owed :
           e <= jobs[j].after /\ index!Required(jobs[j].model, e) /\ index!Stale(jobs[j].model, e)
             => \E r \in jobs[j].rows : r.id = e
    /\ jobs[j].phase = "counted" /\ jobs[j].alone /\ jobs[j].limit = 0 =>
         \A e \in jobs[j].owed : index!Required(jobs[j].model, e) => ~index!Stale(jobs[j].model, e)
    /\ jobs[j].phase = "counted" /\ jobs[j].model # "transcript" => jobs[j].model \in indexed

IndexInv == IndexTyped /\ \A j \in Jobs : Working(j)

\* Neither what others do nor changes of episodes a job does not owe disturb it.
LEMMA Undisturbing ==
  ASSUME NEW k \in Jobs, Working(k),
         jobs'[k].phase = jobs[k].phase, jobs'[k].model = jobs[k].model,
         jobs'[k].limit = jobs[k].limit, jobs'[k].after = jobs[k].after,
         jobs'[k].rows = jobs[k].rows, jobs'[k].owed \subseteq jobs[k].owed,
         jobs'[k].alone => jobs[k].alone,
         \A e \in jobs'[k].owed : episodes'[e] = episodes[e],
         jobs[k].phase # "idle" /\ jobs'[k].alone =>
           \A e \in jobs'[k].owed : vectors'[jobs[k].model][e] = vectors[jobs[k].model][e],
         indexed \subseteq indexed',
         jobs[k].phase # "idle" /\ jobs'[k].alone =>
           \A l \in Jobs : l # k /\ jobs'[l].phase # "idle" => jobs'[l].model # jobs[k].model
  PROVE  Working(k)'
  <1> SUFFICES ASSUME jobs[k].phase # "idle" PROVE Working(k)'
    BY DEF Working
  <1>1. \A e \in jobs'[k].owed : e \in jobs[k].owed /\ index!Exists(e)' = index!Exists(e)
    BY DEF index!Exists
  <1>2. ASSUME jobs'[k].alone, NEW e \in jobs'[k].owed
        PROVE  /\ index!Stale(jobs[k].model, e)' <=> index!Stale(jobs[k].model, e)
               /\ index!Required(jobs[k].model, e)' <=> index!Required(jobs[k].model, e)
    BY <1>2 DEF index!Stale, index!Stored, index!HashOf, index!Required, index!Exists
  <1>3. QED
    BY <1>1, <1>2 DEF Working

LEMMA IndexInit == index!Init => IndexInv
  BY DEF index!Init, IndexInv, IndexTyped, Working, index!Idle, Fields

LEMMA StartStep ==
  ASSUME IndexInv, NEW j \in Jobs, NEW m \in index!Models, NEW limit, index!Start(j, m, limit)
  PROVE  IndexInv'
  <1>1. /\ jobs[j].phase = "idle"
        /\ jobs' = [k \in Jobs |->
             IF k = j
             THEN [index!Idle EXCEPT !.phase = "read", !.model = m, !.limit = limit,
                     !.weights = IF m = "two_tower" THEN trained ELSE 0,
                     !.built = launched + 1, !.owed = {e \in Ids : index!Exists(e)},
                     !.alone = index!Running(m) = {}]
             ELSE [jobs[k] EXCEPT !.alone = @ /\ k \notin index!Running(m)]]
        /\ UNCHANGED <<episodes, vectors, indexed>>
    BY DEF index!Start
  <1>2. /\ jobs'[j].phase = "read" /\ jobs'[j].model = m /\ jobs'[j].after = 0
        /\ jobs'[j].rows = {} /\ jobs'[j].owed = {e \in Ids : index!Exists(e)}
        /\ jobs'[j].alone => index!Running(m) = {}
        /\ DOMAIN jobs'[j] = Fields
    BY <1>1 DEF index!Idle, Fields
  <1>3. ASSUME NEW k \in Jobs, k # j
        PROVE  /\ jobs'[k].phase = jobs[k].phase /\ jobs'[k].model = jobs[k].model
               /\ jobs'[k].limit = jobs[k].limit /\ jobs'[k].after = jobs[k].after
               /\ jobs'[k].rows = jobs[k].rows /\ jobs'[k].owed = jobs[k].owed
               /\ jobs'[k].alone => jobs[k].alone /\ k \notin index!Running(m)
               /\ DOMAIN jobs'[k] = Fields
    <2>1. jobs'[k] = [jobs[k] EXCEPT !.alone = @ /\ k \notin index!Running(m)]
      BY <1>1, <1>3
    <2>2. DOMAIN jobs[k] = Fields
      BY DEF IndexInv, IndexTyped
    <2>3. QED
      BY <2>1, <2>2 DEF Fields
  <1>4. IndexTyped'
    <2>1. DOMAIN jobs' = Jobs /\ \A k \in Jobs : DOMAIN jobs'[k] = Fields
      BY <1>1, <1>2, <1>3
    <2>2. QED
      BY <1>1, <2>1 DEF IndexInv, IndexTyped
  <1>5. Working(j)'
    <2>1. \A e \in Ids : ~(e <= 0)
      BY IdsAreNumbers
    <2>2. ASSUME jobs'[j].alone, NEW k \in Jobs, k # j, jobs'[k].phase # "idle"
          PROVE  jobs'[k].model # m
      BY <1>2, <1>3, <2>2 DEF index!Running
    <2>3. \A e \in jobs'[j].owed : e \in Ids /\ index!Exists(e)'
      BY <1>1, <1>2 DEF index!Exists
    <2>4. QED
      BY <1>2, <2>1, <2>2, <2>3 DEF Working, index!Models
  <1>6. ASSUME NEW k \in Jobs, k # j PROVE Working(k)'
    <2>1. ASSUME jobs[k].phase # "idle", jobs'[k].alone, NEW l \in Jobs, l # k, jobs'[l].phase # "idle"
          PROVE  jobs'[l].model # jobs[k].model
      <3>1. CASE l = j
        BY <1>2, <1>3, <1>6, <2>1, <3>1 DEF index!Running
      <3>2. CASE l # j
        BY <1>3, <1>6, <2>1, <3>2 DEF IndexInv, Working
      <3>3. QED
        BY <3>1, <3>2
    <2>2. Working(k)
      BY DEF IndexInv
    <2>3. /\ jobs'[k].owed \subseteq jobs[k].owed /\ indexed \subseteq indexed'
          /\ \A e \in jobs'[k].owed : episodes'[e] = episodes[e]
          /\ \A e \in jobs'[k].owed : vectors'[jobs[k].model][e] = vectors[jobs[k].model][e]
      BY <1>1, <1>3, <1>6
    <2>4. /\ jobs'[k].phase = jobs[k].phase /\ jobs'[k].model = jobs[k].model
          /\ jobs'[k].limit = jobs[k].limit /\ jobs'[k].after = jobs[k].after
          /\ jobs'[k].rows = jobs[k].rows /\ (jobs'[k].alone => jobs[k].alone)
      BY <1>3, <1>6
    <2>5. QED
      BY <2>1, <2>2, <2>3, <2>4, Undisturbing
  <1>7. QED
    BY <1>4, <1>5, <1>6 DEF IndexInv

\* A step of one job that keeps its model and what it owes: the others go on.
LEMMA OtherJobs ==
  ASSUME IndexInv, NEW j \in Jobs, NEW k \in Jobs, k # j, jobs[j].phase # "idle",
         \A l \in Jobs : l # j => jobs'[l] = jobs[l],
         jobs'[j].phase = "idle" \/ jobs'[j].model = jobs[j].model,
         episodes' = episodes, indexed \subseteq indexed',
         \A m \in index!Models : m # jobs[j].model => vectors'[m] = vectors[m]
  PROVE  Working(k)'
  <1>1. ASSUME jobs[k].phase # "idle", jobs[k].alone
        PROVE  /\ jobs[k].model # jobs[j].model /\ jobs[k].model \in index!Models
               /\ \A l \in Jobs : l # k /\ jobs'[l].phase # "idle" => jobs'[l].model # jobs[k].model
    BY <1>1 DEF IndexInv, Working
  <1>2. Working(k) /\ jobs'[k] = jobs[k]
    BY DEF IndexInv
  <1>3. QED
    BY <1>1, <1>2, Undisturbing

\* A step that ends a job.
LEMMA EndStep ==
  ASSUME IndexInv, NEW j \in Jobs, jobs[j].phase # "idle",
         jobs' = [jobs EXCEPT ![j] = index!Idle], UNCHANGED <<episodes, vectors, indexed>>
  PROVE  IndexInv'
  <1>1. /\ jobs'[j].phase = "idle" /\ DOMAIN jobs'[j] = Fields /\ DOMAIN jobs' = Jobs
        /\ \A l \in Jobs : l # j => jobs'[l] = jobs[l]
    BY DEF IndexInv, IndexTyped, index!Idle, Fields
  <1>2. IndexTyped'
    BY <1>1 DEF IndexInv, IndexTyped
  <1>3. ASSUME NEW k \in Jobs, k # j PROVE Working(k)'
    BY <1>1, <1>3, OtherJobs
  <1>4. Working(j)'
    BY <1>1 DEF Working
  <1>5. QED
    BY <1>2, <1>3, <1>4 DEF IndexInv

\* What a job owes behind the last id, must have and has not, is listed.
LEMMA OwedIsListed ==
  ASSUME NEW j \in Jobs, Working(j), jobs[j].phase = "read", NEW e \in jobs[j].owed,
         index!Required(jobs[j].model, e), index!Stale(jobs[j].model, e), ~(e <= jobs[j].after)
  PROVE  e \in Ids /\ index!Listed(jobs[j].model, e, jobs[j].after)
  <1>1. e \in Ids /\ index!Exists(e) /\ jobs[j].model \in index!Models /\ jobs[j].after \in Nat
    BY DEF Working
  <1>2. e > jobs[j].after
    BY <1>1, IdsAreNumbers
  <1>3. QED
    BY <1>1, <1>2 DEF index!Listed, index!Models, index!PendingPassage, index!PendingTranscript,
       index!PendingEpisode, index!Required

LEMMA ReadStep ==
  ASSUME IndexInv, NEW j \in Jobs, index!ReadBatch(j)
  PROVE  IndexInv'
  <1> DEFINE m == jobs[j].model
             S == {e \in Ids : index!Listed(jobs[j].model, e, jobs[j].after)}
             page == index!Page(j)
             rows == index!Rows(j, page)
             last == index!Max(page)
  <1>1. /\ jobs[j].phase = "read" /\ page # {} /\ UNCHANGED <<episodes, vectors, indexed>>
        /\ jobs' = [jobs EXCEPT ![j].after = last, ![j].rows = rows,
                                ![j].phase = IF rows = {} THEN "read" ELSE "encoded"]
    BY DEF index!ReadBatch, index!NextAfter
  <1>2. page = index!Smallest(S, Batch) /\ S \in SUBSET Ids
    BY DEF index!Page
  <1>3. rows = {[id |-> e, row |-> episodes[e]] :
                  e \in {f \in page : m # "transcript" \/ index!Stale(m, f)}}
    BY DEF index!Rows
  <1> HIDE DEF S, page, rows, last
  <1>4. /\ jobs'[j].after = last /\ jobs'[j].rows = rows
        /\ jobs'[j].phase = IF rows = {} THEN "read" ELSE "encoded"
        /\ jobs'[j].model = m /\ jobs'[j].owed = jobs[j].owed /\ jobs'[j].alone = jobs[j].alone
        /\ jobs'[j].limit = jobs[j].limit /\ DOMAIN jobs'[j] = Fields /\ DOMAIN jobs' = Jobs
        /\ \A l \in Jobs : l # j => jobs'[l] = jobs[l]
    <2>1. DOMAIN jobs = Jobs /\ DOMAIN jobs[j] = Fields
      BY DEF IndexInv, IndexTyped
    <2>2. QED
      BY <1>1, <2>1 DEF Fields
  <1>5. /\ page \in SUBSET S /\ last \in page /\ \A e \in page : last >= e
        /\ \A e \in S : e <= last => e \in page
    <2>1. page \in SUBSET S /\ \A p \in page : \A e \in S : e <= p => e \in page
      BY <1>2, Pages
    <2>2. page \in SUBSET Ids
      BY <1>2, <2>1
    <2>3. last \in page /\ \A e \in page : last >= e
      BY <1>1, <2>2, LastOf DEF last
    <2>4. QED
      BY <2>1, <2>3
  <1>6. Working(j)
    BY DEF IndexInv
  <1>7. IndexTyped'
    BY <1>1, <1>4 DEF IndexInv, IndexTyped
  <1>8. Working(j)'
    <2>1. /\ m \in index!Models /\ last \in Nat
          /\ \A e \in jobs[j].owed : e \in Ids /\ index!Exists(e)'
      BY <1>1, <1>2, <1>5, <1>6, IdsAreNumbers DEF Working, index!Exists
    <2>2. \A r \in rows : /\ r.id \in Ids /\ r.id <= last /\ r.row = episodes'[r.id]
      <3>1. ASSUME NEW r \in rows PROVE r.id \in Ids /\ r.id <= last /\ r.row = episodes'[r.id]
        <4>1. PICK e \in page : r = [id |-> e, row |-> episodes[e]]
          BY <1>3
        <4>2. e \in Ids /\ e <= last
          BY <1>2, <1>5, <2>1, IdsAreNumbers
        <4>3. QED
          BY <1>1, <4>1, <4>2
      <3>2. QED
        BY <3>1
    <2>3. ASSUME jobs[j].alone, NEW e \in jobs[j].owed, e <= last, index!Required(m, e), index!Stale(m, e)
          PROVE  \E r \in rows : r.id = e
      <3>1. ~(e <= jobs[j].after)
        BY <1>1, <1>6, <2>3 DEF Working
      <3>2. e \in S
        BY <1>1, <1>6, <2>3, <3>1, OwedIsListed DEF S
      <3>3. [id |-> e, row |-> episodes[e]] \in rows
        BY <1>3, <1>5, <2>3, <3>2
      <3>4. QED
        BY <3>3
    <2>4. \A e : /\ index!Required(m, e)' <=> index!Required(m, e)
                 /\ index!Stale(m, e)' <=> index!Stale(m, e)
      BY <1>1, <1>4 DEF index!Required, index!Stale, index!Stored, index!HashOf, index!Exists
    <2>5. \A k \in Jobs : k # j /\ jobs[j].alone /\ jobs'[k].phase # "idle" => jobs'[k].model # m
      BY <1>1, <1>4, <1>6 DEF Working
    <2>6. jobs'[j].phase \in {"read", "counted"} => rows = {}
      BY <1>4
    <2>7. QED
      BY <1>4, <2>1, <2>2, <2>3, <2>4, <2>5, <2>6 DEF Working
  <1>9. ASSUME NEW k \in Jobs, k # j PROVE Working(k)'
    BY <1>1, <1>4, <1>9, OtherJobs
  <1>10. QED
    BY <1>7, <1>8, <1>9 DEF IndexInv

LEMMA UpsertStep ==
  ASSUME IndexInv, NEW j \in Jobs, index!Upsert(j)
  PROVE  IndexInv'
  <1> DEFINE m == jobs[j].model
             ids == {r.id : r \in jobs[j].rows}
             written(e) == index!VectorOf(j, CHOOSE r \in jobs[j].rows : r.id = e)
  <1>1. /\ jobs[j].phase = "encoded" /\ UNCHANGED <<episodes, indexed>>
        /\ vectors' = [vectors EXCEPT ![m] =
                         [e \in Ids |-> IF e \in ids THEN written(e) ELSE @[e]]]
        /\ jobs' = [jobs EXCEPT ![j].phase = "read", ![j].rows = {},
                                ![j].embedded = @ + index!Cardinality(ids)]
    BY DEF index!Upsert
  <1>2. /\ jobs'[j].phase = "read" /\ jobs'[j].rows = {} /\ jobs'[j].after = jobs[j].after
        /\ jobs'[j].model = m /\ jobs'[j].owed = jobs[j].owed /\ jobs'[j].alone = jobs[j].alone
        /\ jobs'[j].limit = jobs[j].limit /\ DOMAIN jobs'[j] = Fields /\ DOMAIN jobs' = Jobs
        /\ \A l \in Jobs : l # j => jobs'[l] = jobs[l]
    <2>1. DOMAIN jobs = Jobs /\ DOMAIN jobs[j] = Fields
      BY DEF IndexInv, IndexTyped
    <2>2. QED
      BY <1>1, <2>1 DEF Fields
  <1>3. Working(j) /\ m \in index!Models
    BY <1>1 DEF IndexInv, Working
  <1>4. /\ DOMAIN vectors' = index!Models /\ \A l \in index!Models : DOMAIN vectors'[l] = Ids
        /\ \A l \in index!Models : l # m => vectors'[l] = vectors[l]
        /\ \A e \in Ids : vectors'[m][e] = IF e \in ids THEN written(e) ELSE vectors[m][e]
    BY <1>1, <1>3 DEF IndexInv, IndexTyped
  <1>5. IndexTyped'
    BY <1>1, <1>2, <1>4 DEF IndexInv, IndexTyped, index!Models
  <1>6. ASSUME NEW e \in ids, e \in jobs[j].owed
        PROVE  written(e) # index!Absent /\ written(e).hash = index!HashOf(m, episodes[e])
    <2> DEFINE r == CHOOSE r \in jobs[j].rows : r.id = e
    <2>1. r \in jobs[j].rows /\ r.id = e
      OBVIOUS
    <2>2. r.row = episodes[e]
      BY <1>1, <1>3, <1>6, <2>1 DEF Working
    <2> HIDE DEF r
    <2>3. index!VectorOf(j, r).hash = index!HashOf(m, r.row)
          /\ "hash" \in DOMAIN index!VectorOf(j, r)
      BY DEF index!VectorOf
    <2>4. "hash" \notin DOMAIN index!Absent
      BY DEF index!Absent
    <2>5. QED
      BY <2>2, <2>3, <2>4 DEF r
  <1> HIDE DEF written
  <1>7. ASSUME jobs[j].alone, NEW e \in jobs[j].owed, e <= jobs[j].after,
               index!Required(m, e)
        PROVE  ~index!Stale(m, e)'
    <2>1. e \in Ids
      BY <1>1, <1>3 DEF Working
    <2>2. CASE e \in ids
      BY <1>1, <1>2, <1>4, <1>6, <2>1, <2>2 DEF index!Stale, index!Stored, index!HashOf
    <2>3. CASE e \notin ids
      <3>1. ~index!Stale(m, e)
        BY <1>1, <1>3, <1>7, <2>3 DEF Working
      <3>2. vectors'[m][e] = vectors[m][e]
        BY <1>4, <2>1, <2>3
      <3>3. QED
        BY <1>1, <1>2, <3>1, <3>2 DEF index!Stale, index!Stored, index!HashOf
    <2>4. QED
      BY <2>2, <2>3
  <1>8. Working(j)'
    <2>1. jobs[j].after \in Nat /\ \A e \in jobs[j].owed : e \in Ids /\ index!Exists(e)'
      BY <1>1, <1>3 DEF Working, index!Exists
    <2>2. \A e : index!Required(m, e)' <=> index!Required(m, e)
      BY <1>1, <1>2 DEF index!Required, index!Exists
    <2>3. \A k \in Jobs : k # j /\ jobs[j].alone /\ jobs'[k].phase # "idle" => jobs'[k].model # m
      BY <1>1, <1>2, <1>3 DEF Working
    <2>4. QED
      BY <1>2, <1>3, <1>7, <2>1, <2>2, <2>3 DEF Working
  <1>9. ASSUME NEW k \in Jobs, k # j PROVE Working(k)'
    BY <1>1, <1>2, <1>4, <1>9, OtherJobs
  <1>10. QED
    BY <1>5, <1>8, <1>9 DEF IndexInv

\* The loop ends with nothing left, unless the limit ends it.
LEMMA LeaveStep ==
  ASSUME IndexInv, NEW j \in Jobs, index!LeaveLoop(j), NEW m, m = jobs[j].model
  PROVE  IndexInv'
  <1> DEFINE S == {e \in Ids : index!Listed(jobs[j].model, e, jobs[j].after)}
  <1>1. /\ jobs[j].phase = "read" /\ UNCHANGED <<episodes, vectors>>
        /\ ~index!MayRead(j) \/ index!Page(j) = {}
        /\ indexed' = IF m = "transcript" THEN indexed ELSE indexed \cup {m}
        /\ jobs' = [jobs EXCEPT ![j].phase = "counted"]
    BY DEF index!LeaveLoop, index!EnsureIndex
  <1>2. jobs[j].limit = 0 => S = {}
    <2>1. index!Page(j) = index!Smallest(S, Batch) /\ S \in SUBSET Ids
      BY DEF index!Page
    <2> HIDE DEF S
    <2>2. QED
      BY <1>1, <2>1, Pages DEF index!MayRead
  <1>3. /\ jobs'[j].phase = "counted" /\ jobs'[j].rows = jobs[j].rows /\ jobs'[j].after = jobs[j].after
        /\ jobs'[j].model = m /\ jobs'[j].owed = jobs[j].owed /\ jobs'[j].alone = jobs[j].alone
        /\ jobs'[j].limit = jobs[j].limit /\ DOMAIN jobs'[j] = Fields /\ DOMAIN jobs' = Jobs
        /\ \A l \in Jobs : l # j => jobs'[l] = jobs[l]
    <2>1. DOMAIN jobs = Jobs /\ DOMAIN jobs[j] = Fields
      BY DEF IndexInv, IndexTyped
    <2>2. QED
      BY <1>1, <2>1 DEF Fields
  <1>4. Working(j) /\ m \in index!Models
    BY <1>1 DEF IndexInv, Working
  <1>5. IndexTyped'
    BY <1>1, <1>3 DEF IndexInv, IndexTyped
  <1>6. ASSUME jobs[j].alone, jobs[j].limit = 0, NEW e \in jobs[j].owed, index!Required(m, e)
        PROVE  ~index!Stale(m, e)
    <2> SUFFICES ASSUME index!Stale(m, e) PROVE FALSE
      OBVIOUS
    <2>1. ~(e <= jobs[j].after)
      BY <1>1, <1>4, <1>6 DEF Working
    <2>2. e \in S
      BY <1>1, <1>4, <1>6, <2>1, OwedIsListed
    <2>3. QED
      BY <1>2, <1>6, <2>2
  <1>7. Working(j)'
    <2>1. /\ jobs[j].after \in Nat /\ jobs[j].rows = {}
          /\ \A e \in jobs[j].owed : e \in Ids /\ index!Exists(e)'
      BY <1>1, <1>4 DEF Working, index!Exists
    <2>2. \A e : /\ index!Required(m, e)' <=> index!Required(m, e)
                 /\ index!Stale(m, e)' <=> index!Stale(m, e)
      BY <1>1, <1>3 DEF index!Required, index!Stale, index!Stored, index!HashOf, index!Exists
    <2>3. \A k \in Jobs : k # j /\ jobs[j].alone /\ jobs'[k].phase # "idle" => jobs'[k].model # m
      BY <1>1, <1>3, <1>4 DEF Working
    <2>4. \A e \in jobs[j].owed : jobs[j].alone /\ e <= jobs[j].after /\ index!Required(m, e)
                                    => ~index!Stale(m, e)
      BY <1>1, <1>4 DEF Working
    <2>5. m # "transcript" => m \in indexed'
      BY <1>1
    <2> HIDE DEF S
    <2>6. jobs'[j].alone =>
            \A k \in Jobs : k # j /\ jobs'[k].phase # "idle" => jobs'[k].model # jobs'[j].model
      BY <1>3, <2>3
    <2>7. jobs'[j].alone =>
            \A e \in jobs'[j].owed :
              e <= jobs'[j].after /\ index!Required(jobs[j].model, e)' /\ index!Stale(jobs[j].model, e)'
                => \E r \in jobs'[j].rows : r.id = e
      <3>1. jobs[j].alone =>
              \A e \in jobs[j].owed :
                e <= jobs[j].after /\ index!Required(m, e)' /\ index!Stale(m, e)' => FALSE
        BY <2>2, <2>4
      <3>2. QED
        BY <1>3, <3>1
    <2>8. jobs'[j].alone /\ jobs'[j].limit = 0 =>
            \A e \in jobs'[j].owed :
              index!Required(jobs[j].model, e)' => ~index!Stale(jobs[j].model, e)'
      <3>1. jobs[j].alone /\ jobs[j].limit = 0 =>
              \A e \in jobs[j].owed : index!Required(m, e)' => ~index!Stale(m, e)'
        BY <2>2, <1>6
      <3>2. QED
        BY <1>3, <3>1
    <2>9. /\ jobs'[j].model \in index!Models /\ jobs'[j].after \in Nat /\ jobs'[j].rows = {}
          /\ \A e \in jobs'[j].owed : e \in Ids /\ index!Exists(e)'
          /\ jobs'[j].model # "transcript" => jobs'[j].model \in indexed'
      BY <1>3, <1>4, <2>1, <2>5
    <2>10. QED
      BY <2>6, <2>7, <2>8, <2>9 DEF Working
  <1>8. ASSUME NEW k \in Jobs, k # j PROVE Working(k)'
    BY <1>1, <1>3, <1>8, OtherJobs
  <1>9. QED
    BY <1>5, <1>7, <1>8 DEF IndexInv

\* A change of an episode is owed by no job any longer.
LEMMA ChangeStep ==
  ASSUME IndexInv, NEW e \in Ids, index!Disown(e), indexed' = indexed,
         DOMAIN episodes' = Ids, \A f \in Ids : f # e => episodes'[f] = episodes[f],
         DOMAIN vectors' = index!Models, \A m \in index!Models : DOMAIN vectors'[m] = Ids,
         \A m \in index!Models : \A f \in Ids : f # e => vectors'[m][f] = vectors[m][f]
  PROVE  IndexInv'
  <1>1. ASSUME NEW k \in Jobs
        PROVE  /\ jobs'[k].phase = jobs[k].phase /\ jobs'[k].model = jobs[k].model
               /\ jobs'[k].limit = jobs[k].limit /\ jobs'[k].after = jobs[k].after
               /\ jobs'[k].rows = jobs[k].rows /\ jobs'[k].owed = jobs[k].owed \ {e}
               /\ jobs'[k].alone = jobs[k].alone /\ DOMAIN jobs'[k] = Fields
    <2>1. jobs'[k] = [jobs[k] EXCEPT !.owed = @ \ {e}]
      BY DEF index!Disown
    <2>2. DOMAIN jobs[k] = Fields
      BY DEF IndexInv, IndexTyped
    <2>3. QED
      BY <2>1, <2>2 DEF Fields
  <1>2. IndexTyped'
    BY <1>1 DEF IndexInv, IndexTyped, index!Disown, index!Models
  <1>3. ASSUME NEW k \in Jobs PROVE Working(k)'
    <2>1. CASE jobs[k].phase = "idle"
      BY <1>1, <2>1 DEF Working
    <2>2. CASE jobs[k].phase # "idle"
      <3>1. Working(k) /\ jobs[k].model \in index!Models
        BY <2>2 DEF IndexInv, Working
      <3>2. \A f \in jobs'[k].owed : f \in Ids /\ f # e
        BY <1>1, <2>2, <3>1 DEF Working
      <3>3. ASSUME jobs'[k].alone, NEW l \in Jobs, l # k, jobs'[l].phase # "idle"
            PROVE  jobs'[l].model # jobs[k].model
        BY <1>1, <2>2, <3>1, <3>3 DEF Working
      <3>4. QED
        BY <1>1, <2>2, <3>1, <3>2, <3>3, Undisturbing
    <2>3. QED
      BY <2>1, <2>2
  <1>4. QED
    BY <1>2, <1>3 DEF IndexInv

\* A new episode is owed by no job that runs.
LEMMA AddStep ==
  ASSUME IndexInv, NEW e \in Ids, index!Add(e)
  PROVE  IndexInv'
  <1>1. /\ ~index!Exists(e) /\ UNCHANGED <<vectors, indexed, jobs>>
        /\ DOMAIN episodes' = Ids /\ \A f \in Ids : f # e => episodes'[f] = episodes[f]
    <2>1. e >= e
      BY IdsAreNumbers
    <2>2. QED
      BY <2>1 DEF index!Add, IndexInv, IndexTyped
  <1>2. IndexTyped'
    BY <1>1 DEF IndexInv, IndexTyped, index!Models
  <1>3. ASSUME NEW k \in Jobs PROVE Working(k)'
    <2>1. CASE jobs[k].phase = "idle"
      BY <1>1, <2>1 DEF Working
    <2>2. CASE jobs[k].phase # "idle"
      <3>1. Working(k)
        BY DEF IndexInv
      <3>2. \A f \in jobs[k].owed : f \in Ids /\ f # e
        BY <1>1, <2>2, <3>1 DEF Working
      <3>3. jobs[k].alone => \A l \in Jobs : l # k /\ jobs[l].phase # "idle" => jobs[l].model # jobs[k].model
        BY <2>2, <3>1 DEF Working
      <3>4. QED
        BY <1>1, <2>2, <3>1, <3>2, <3>3, Undisturbing
    <2>3. QED
      BY <2>1, <2>2
  <1>4. QED
    BY <1>2, <1>3 DEF IndexInv

LEMMA IndexStep ==
  ASSUME IndexInv, [index!Next]_(index!vars)
  PROVE  IndexInv'
  <1>1. CASE UNCHANGED <<episodes, vectors, indexed, jobs>>
    BY <1>1 DEF IndexInv, IndexTyped, Working, index!Exists, index!Required, index!Stale, index!Stored,
       index!HashOf, index!Models
  <1>2. ASSUME NEW j \in Jobs, index!JobStep(j) PROVE IndexInv'
    <2>1. CASE index!UpsertFails(j)
      BY <2>1, EndStep DEF index!UpsertFails
    <2>2. CASE index!Finish(j)
      BY <2>2, EndStep DEF index!Finish
    <2>3. QED
      BY <1>2, <2>1, <2>2, ReadStep, UpsertStep, LeaveStep DEF index!JobStep
  <1>3. ASSUME NEW j \in Jobs, index!Kill(j) PROVE IndexInv'
    BY <1>3, EndStep DEF index!Kill
  <1>4. ASSUME NEW e \in Ids, index!Edit(e) \/ index!Transcribe(e) PROVE IndexInv'
    <2>1. /\ index!Disown(e) /\ indexed' = indexed /\ vectors' = vectors /\ DOMAIN episodes' = Ids
          /\ \A f \in Ids : f # e => episodes'[f] = episodes[f]
      BY <1>4 DEF index!Edit, index!Transcribe, IndexInv, IndexTyped
    <2>2. QED
      BY <2>1, ChangeStep DEF IndexInv, IndexTyped
  <1>5. ASSUME NEW e \in Ids, index!Delete(e) PROVE IndexInv'
    <2>1. /\ index!Disown(e) /\ indexed' = indexed /\ DOMAIN episodes' = Ids
          /\ \A f \in Ids : f # e => episodes'[f] = episodes[f]
      BY <1>5 DEF index!Delete, IndexInv, IndexTyped
    <2>2. /\ DOMAIN vectors' = index!Models
          /\ \A m \in index!Models : DOMAIN vectors'[m] = Ids
          /\ \A m \in index!Models : \A f \in Ids : f # e => vectors'[m][f] = vectors[m][f]
      BY <1>5 DEF index!Delete, IndexInv, IndexTyped
    <2>3. QED
      BY <2>1, <2>2, ChangeStep
  <1>6. CASE index!Train \/ UNCHANGED index!vars
    BY <1>1, <1>6 DEF index!Train, index!vars
  <1>7. QED
    BY <1>2, <1>3, <1>4, <1>5, <1>6, StartStep, AddStep
       DEF index!Next, index!Embed, index!EmbedTranscripts, index!BuildIndex

\* embed.py, transcripts.py and two_tower_index.py: a run without a limit that no
\* other of its model overlapped leaves behind nothing that was there and did not
\* change, for any catalogue, batches, changes and number of other jobs and kills.
THEOREM RunsAreComplete == Spec => []RunsMissNothing
  <1>1. IndexInv => RunsMissNothing
    <2> SUFFICES ASSUME IndexInv, NEW j \in Jobs, jobs[j].phase = "counted", jobs[j].limit = 0,
                        jobs[j].alone
                 PROVE  /\ \A e \in jobs[j].owed : index!Required(jobs[j].model, e)
                                                     => ~index!Stale(jobs[j].model, e)
                        /\ jobs[j].model # "transcript" => jobs[j].model \in indexed
      BY DEF RunsMissNothing, index!RunsMissNothing
    <2>1. Working(j)
      BY DEF IndexInv
    <2>2. QED
      BY <2>1 DEF Working
  <1>2. QED
    BY IndexBehaviour, IndexInit, IndexStep, <1>1, PTL DEF index!Spec

-----------------------------------------------------------------------------
(* Sums over finite sets (SumFunctionOnSet).                               *)

\* A set of subsets that holds a set with all its smaller ones holds them all.
LEMMA SubsetInduction ==
  ASSUME NEW S, IsFiniteSet(S), NEW Good,
         \A T \in SUBSET S : (\A U \in SUBSET T : U # T => U \in Good) => T \in Good
  PROVE  \A T \in SUBSET S : T \in Good
  <1> DEFINE Bad == {T \in SUBSET S : T \notin Good}
  <1> SUFFICES ASSUME Bad # {} PROVE FALSE
    OBVIOUS
  <1>1. IsWellFoundedOn(StrictSubsetOrdering(S), SUBSET S)
    <2>1. IsWellFoundedOn(StrictSubsetOrdering(S), FiniteSubsetsOf(S))
      BY FS_StrictSubsetOrderingWellFounded
    <2>2. FiniteSubsetsOf(S) = SUBSET S
      BY FS_FiniteSubsetsOfFinite
    <2>3. QED
      BY <2>1, <2>2, Zenon
  <1>2. PICK T \in Bad : \A U \in Bad : ~ (<<U, T>> \in StrictSubsetOrdering(S))
    <2> HIDE DEF Bad
    <2>1. Bad \subseteq SUBSET S
      BY DEF Bad
    <2>2. QED
      BY <1>1, <2>1, WFMin
  <1>3. ASSUME NEW U \in SUBSET T, U # T PROVE U \in Good
    BY <1>2, <1>3 DEF StrictSubsetOrdering
  <1>4. QED
    BY <1>2, <1>3

\* The sums of the subsets of T, one from another.
Sums(f, g, T) ==
  g = [s \in SUBSET T |-> IF s = {} THEN 0
                          ELSE LET x == CHOOSE x \in s : TRUE IN f[x] + g[s \ {x}]]

LEMMA SumsAreUnique ==
  ASSUME NEW f, NEW S, IsFiniteSet(S), NEW g, Sums(f, g, S), NEW h, Sums(f, h, S)
  PROVE  g = h
  <1> DEFINE Good == {T \in SUBSET S : g[T] = h[T]}
  <1>1. ASSUME NEW T \in SUBSET S, \A U \in SUBSET T : U # T => U \in Good
        PROVE  T \in Good
    <2> DEFINE x == CHOOSE x \in T : TRUE
    <2>1. CASE T = {}
      BY <2>1 DEF Sums
    <2>2. CASE T # {}
      <3>1. x \in T
        BY <2>2
      <3>2. T \ {x} \in Good
        BY <1>1, <3>1
      <3>3. g[T] = f[x] + g[T \ {x}] /\ h[T] = f[x] + h[T \ {x}]
        BY <2>2 DEF Sums
      <3>4. QED
        BY <3>2, <3>3
    <2>3. QED
      BY <2>1, <2>2
  <1>2. \A T \in SUBSET S : T \in Good
    <2> HIDE DEF Good
    <2>1. QED
      BY <1>1, SubsetInduction
  <1>3. g = [T \in SUBSET S |-> g[T]] /\ h = [T \in SUBSET S |-> h[T]]
    BY DEF Sums
  <1>4. QED
    BY <1>2, <1>3

LEMMA SumsOfPart ==
  ASSUME NEW f, NEW S, NEW g, Sums(f, g, S), NEW T \in SUBSET S
  PROVE  Sums(f, [s \in SUBSET T |-> g[s]], T)
  <1> DEFINE h == [s \in SUBSET T |-> g[s]]
  <1>1. ASSUME NEW s \in SUBSET T
        PROVE  h[s] = IF s = {} THEN 0 ELSE LET x == CHOOSE x \in s : TRUE IN f[x] + h[s \ {x}]
    <2>1. g[s] = IF s = {} THEN 0 ELSE LET x == CHOOSE x \in s : TRUE IN f[x] + g[s \ {x}]
      BY DEF Sums
    <2>2. h[s] = g[s] /\ \A x : h[s \ {x}] = g[s \ {x}]
      OBVIOUS
    <2>3. QED
      BY <2>1, <2>2
  <1>2. QED
    BY <1>1 DEF Sums

LEMMA SumsExist ==
  ASSUME NEW f, NEW S, IsFiniteSet(S)
  PROVE  \E g : Sums(f, g, S)
  <1> DEFINE Good == {T \in SUBSET S : \E g : Sums(f, g, T)}
             G(T) == CHOOSE g : Sums(f, g, T)
  <1>1. ASSUME NEW T \in SUBSET S, \A U \in SUBSET T : U # T => U \in Good
        PROVE  T \in Good
    <2> DEFINE c(s) == CHOOSE x \in s : TRUE
               h == [s \in SUBSET T |-> IF s = {} THEN 0 ELSE f[c(s)] + G(s \ {c(s)})[s \ {c(s)}]]
    <2>1. ASSUME NEW s \in SUBSET T, s # T
          PROVE  Sums(f, G(s), s) /\ \A U \in SUBSET s : G(s)[U] = G(U)[U]
      <3>1. Sums(f, G(s), s)
        BY <1>1, <2>1
      <3>2. ASSUME NEW U \in SUBSET s PROVE G(s)[U] = G(U)[U]
        <4>1. Sums(f, [t \in SUBSET U |-> G(s)[t]], U)
          <5> HIDE DEF G
          <5> QED BY <3>1, SumsOfPart
        <4>2. Sums(f, G(U), U)
          BY <4>1
        <4>3. IsFiniteSet(U)
          BY FS_Subset
        <4>4. G(U) = [t \in SUBSET U |-> G(s)[t]]
          <5> HIDE DEF G
          <5> QED BY <4>1, <4>2, <4>3, SumsAreUnique
        <4>5. QED
          BY <4>4
      <3>3. QED
        BY <3>1, <3>2
    <2>2. ASSUME NEW s \in SUBSET T, s # {}
          PROVE  h[s] = f[c(s)] + h[s \ {c(s)}]
      <3>1. c(s) \in s
        BY <2>2
      <3>2. s \ {c(s)} \in SUBSET T /\ s \ {c(s)} # T
        BY <3>1
      <3>3. h[s] = f[c(s)] + G(s \ {c(s)})[s \ {c(s)}]
        BY <2>2
      <3> DEFINE r == s \ {c(s)}
      <3>4. G(r)[r] = h[r]
        <4>1. Sums(f, G(r), r)
          BY <2>1, <3>2
        <4>2. CASE r = {}
          <5>1. G(r)[r] = 0
            <6> HIDE DEF G, r
            <6> QED BY <4>1, <4>2 DEF Sums
          <5>2. h[r] = 0
            BY <4>2
          <5>3. QED
            BY <5>1, <5>2
        <4>3. CASE r # {}
          <5>1. c(r) \in r
            BY <4>3
          <5>2. G(r)[r] = f[c(r)] + G(r)[r \ {c(r)}]
            <6> HIDE DEF G, r
            <6> QED BY <4>1, <4>3 DEF Sums
          <5>3. G(r)[r \ {c(r)}] = G(r \ {c(r)})[r \ {c(r)}]
            <6> HIDE DEF G, r, c
            <6> QED BY <2>1, <3>2 DEF r
          <5>4. h[r] = f[c(r)] + G(r \ {c(r)})[r \ {c(r)}]
            <6> HIDE DEF G, c
            <6> QED BY <4>3, <3>2
          <5>5. QED
            BY <5>2, <5>3, <5>4
        <4>4. QED
          BY <4>2, <4>3
      <3>5. QED
        BY <3>3, <3>4
    <2>3. Sums(f, h, T)
      <3>1. h = [s \in SUBSET T |-> h[s]] /\ h[{}] = 0
        OBVIOUS
      <3> HIDE DEF h
      <3>2. QED
        BY <2>2, <3>1 DEF Sums
    <2>4. QED
      BY <2>3
  <1>2. \A T \in SUBSET S : T \in Good
    <2> HIDE DEF Good
    <2>1. QED
      BY <1>1, SubsetInduction
  <1>3. QED
    BY <1>2

\* A sum takes one of its elements after another.
LEMMA SumUnfolds ==
  ASSUME NEW f, NEW S, IsFiniteSet(S)
  PROVE  drift!SumFunctionOnSet(f, S) =
           IF S = {} THEN 0
           ELSE LET x == CHOOSE x \in S : TRUE IN f[x] + drift!SumFunctionOnSet(f, S \ {x})
  <1> DEFINE G(T) == CHOOSE g : Sums(f, g, T)
  <1>1. ASSUME NEW T PROVE drift!SumFunctionOnSet(f, T) = G(T)[T]
    BY DEF drift!SumFunctionOnSet, drift!FoldFunctionOnSet, drift!MapThenFoldSet, Sums
  <1>2. ASSUME NEW T \in SUBSET S PROVE Sums(f, G(T), T)
    BY FS_Subset, SumsExist
  <1>3. G(S)[S] = IF S = {} THEN 0
                  ELSE LET x == CHOOSE x \in S : TRUE IN f[x] + G(S)[S \ {x}]
    <2> HIDE DEF G
    <2> QED BY <1>2 DEF Sums
  <1>4. ASSUME NEW T \in SUBSET S PROVE G(S)[T] = G(T)[T]
    <2> HIDE DEF G
    <2>1. Sums(f, [t \in SUBSET T |-> G(S)[t]], T)
      BY <1>2, SumsOfPart
    <2>2. G(T) = [t \in SUBSET T |-> G(S)[t]]
      BY <1>2, <2>1, FS_Subset, SumsAreUnique
    <2>3. QED
      BY <2>2
  <1>5. QED
    <2> HIDE DEF G
    <2> QED BY <1>1, <1>3, <1>4

Sum(f, S) == drift!SumFunctionOnSet(f, S)

\* What holds of {}, and of a set when it holds without one of its elements.
LEMMA ElementInduction ==
  ASSUME NEW S, IsFiniteSet(S), NEW Good, {} \in Good,
         \A T \in SUBSET S : \A x \in T : T \ {x} \in Good => T \in Good
  PROVE  S \in Good
  <1>1. ASSUME NEW T \in SUBSET S, \A U \in SUBSET T : U # T => U \in Good
        PROVE  T \in Good
    <2>1. ASSUME NEW x \in T PROVE T \ {x} \in SUBSET T /\ T \ {x} # T
      OBVIOUS
    <2>2. QED
      BY <1>1, <2>1
  <1>2. QED
    BY <1>1, SubsetInduction

LEMMA SumOfNone == ASSUME NEW f PROVE Sum(f, {}) = 0
  BY FS_EmptySet, SumUnfolds DEF Sum

LEMMA SumOfMore ==
  ASSUME NEW f, NEW S, IsFiniteSet(S), S # {}
  PROVE  LET x == CHOOSE x \in S : TRUE
         IN x \in S /\ Sum(f, S) = f[x] + Sum(f, S \ {x})
  BY SumUnfolds DEF Sum

LEMMA SumTyped ==
  ASSUME NEW f, NEW S, IsFiniteSet(S), NEW N, N \in {Int, Nat}, \A x \in S : f[x] \in N
  PROVE  Sum(f, S) \in N
  <1> DEFINE Good == {T \in SUBSET S : Sum(f, T) \in N}
  <1>1. ASSUME NEW T \in SUBSET S, \A U \in SUBSET T : U # T => U \in Good
        PROVE  T \in Good
    <2>1. CASE T = {}
      BY <2>1, SumOfNone
    <2>2. CASE T # {}
      <3>1. PICK x \in T : Sum(f, T) = f[x] + Sum(f, T \ {x})
        BY <2>2, FS_Subset, SumOfMore
      <3>2. Sum(f, T \ {x}) \in N
        BY <1>1
      <3>3. QED
        BY <3>1, <3>2
    <2>3. QED
      BY <2>1, <2>2
  <1>2. \A T \in SUBSET S : T \in Good
    <2> HIDE DEF Good
    <2>1. QED
      BY <1>1, SubsetInduction
  <1>3. QED
    BY <1>2

\* Any element may be taken out first.
LEMMA TakenOut ==
  ASSUME NEW f, NEW S, IsFiniteSet(S), \A x \in S : f[x] \in Int, NEW y \in S
  PROVE  Sum(f, S) = f[y] + Sum(f, S \ {y})
  <1> DEFINE Good == {T \in SUBSET S : \A z \in T : Sum(f, T) = f[z] + Sum(f, T \ {z})}
  <1>1. ASSUME NEW T \in SUBSET S, \A U \in SUBSET T : U # T => U \in Good
        PROVE  T \in Good
    <2> SUFFICES ASSUME NEW z \in T PROVE Sum(f, T) = f[z] + Sum(f, T \ {z})
      OBVIOUS
    <2>1. PICK x \in T : Sum(f, T) = f[x] + Sum(f, T \ {x})
      BY FS_Subset, SumOfMore
    <2>2. CASE x = z
      BY <2>1, <2>2
    <2>3. CASE x # z
      <3>1. T \ {x} \in Good /\ T \ {z} \in Good
        BY <1>1
      <3>2. (T \ {x}) \ {z} = T \ {x, z} /\ (T \ {z}) \ {x} = T \ {x, z}
        OBVIOUS
      <3>3. /\ Sum(f, T \ {x}) = f[z] + Sum(f, T \ {x, z})
            /\ Sum(f, T \ {z}) = f[x] + Sum(f, T \ {x, z})
        BY <2>3, <3>1, <3>2
      <3>4. f[x] \in Int /\ f[z] \in Int /\ Sum(f, T \ {x, z}) \in Int
        BY FS_Subset, SumTyped
      <3>5. QED
        BY <2>1, <3>3, <3>4
    <2>4. QED
      BY <2>2, <2>3
  <1>2. \A T \in SUBSET S : T \in Good
    <2> HIDE DEF Good
    <2>1. QED
      BY <1>1, SubsetInduction
  <1>3. QED
    BY <1>2

\* What one weighs against another, element by element, their sums do.
LEMMA SumsScaled ==
  ASSUME NEW f, NEW g, NEW S, IsFiniteSet(S), NEW m \in Int, NEW n \in Int,
         \A x \in S : f[x] \in Int /\ g[x] \in Int /\ f[x] * m = g[x] * n
  PROVE  Sum(f, S) * m = Sum(g, S) * n
  <1> DEFINE Good == {T \in SUBSET S : Sum(f, T) * m = Sum(g, T) * n}
  <1>1. {} \in Good
    BY SumOfNone
  <1>2. ASSUME NEW T \in SUBSET S, NEW x \in T, T \ {x} \in Good
        PROVE  T \in Good
    <2>1. Sum(f, T) = f[x] + Sum(f, T \ {x}) /\ Sum(g, T) = g[x] + Sum(g, T \ {x})
      BY FS_Subset, TakenOut
    <2>2. Sum(f, T \ {x}) \in Int /\ Sum(g, T \ {x}) \in Int
      BY FS_Subset, SumTyped
    <2>3. Sum(f, T) * m = f[x] * m + Sum(f, T \ {x}) * m
      BY <2>1, <2>2
    <2>4. Sum(g, T) * n = g[x] * n + Sum(g, T \ {x}) * n
      BY <2>1, <2>2
    <2>5. QED
      BY <1>2, <2>3, <2>4
  <1>3. QED
    <2> HIDE DEF Good
    <2>1. S \in Good
      BY <1>1, <1>2, ElementInduction
    <2>2. QED
      BY <2>1 DEF Good

LEMMA EqualSums ==
  ASSUME NEW f, NEW g, NEW S, IsFiniteSet(S), \A x \in S : f[x] \in Int /\ f[x] = g[x]
  PROVE  Sum(f, S) = Sum(g, S)
  <1>1. Sum(f, S) * 1 = Sum(g, S) * 1
    BY SumsScaled
  <1>2. Sum(f, S) \in Int /\ Sum(g, S) \in Int
    BY SumTyped
  <1>3. QED
    BY <1>1, <1>2

LEMMA ZeroSum ==
  ASSUME NEW f, NEW S, IsFiniteSet(S), \A x \in S : f[x] = 0
  PROVE  Sum(f, S) = 0
  <1> DEFINE Good == {T \in SUBSET S : Sum(f, T) = 0}
  <1>1. {} \in Good
    BY SumOfNone
  <1>2. ASSUME NEW T \in SUBSET S, NEW x \in T, T \ {x} \in Good
        PROVE  T \in Good
    BY <1>2, FS_Subset, TakenOut
  <1>3. QED
    <2> HIDE DEF Good
    <2>1. S \in Good
      BY <1>1, <1>2, ElementInduction
    <2>2. QED
      BY <2>1 DEF Good

\* A sum is that of a part and that of the rest.
LEMMA SumInTwo ==
  ASSUME NEW f, NEW S, IsFiniteSet(S), \A x \in S : f[x] \in Int, NEW P \in SUBSET S
  PROVE  Sum(f, S) = Sum(f, P) + Sum(f, S \ P)
  <1> DEFINE Good == {T \in SUBSET P : Sum(f, S) = Sum(f, T) + Sum(f, S \ T)}
  <1>1. {} \in Good
    BY SumOfNone, SumTyped
  <1>2. ASSUME NEW T \in SUBSET P, NEW x \in T, T \ {x} \in Good
        PROVE  T \in Good
    <2>1. Sum(f, T) = f[x] + Sum(f, T \ {x})
      BY FS_Subset, TakenOut
    <2>2. Sum(f, S \ (T \ {x})) = f[x] + Sum(f, S \ T)
      <3>1. (S \ (T \ {x})) \ {x} = S \ T /\ x \in S \ (T \ {x})
        OBVIOUS
      <3>2. IsFiniteSet(S \ (T \ {x}))
        BY FS_Subset
      <3>3. QED
        BY <3>1, <3>2, TakenOut
    <2>3. f[x] \in Int /\ Sum(f, T \ {x}) \in Int /\ Sum(f, S \ T) \in Int
      BY FS_Subset, SumTyped
    <2>4. QED
      BY <1>2, <2>1, <2>2, <2>3
  <1>3. QED
    <2> HIDE DEF Good
    <2>1. P \in Good
      BY <1>1, <1>2, FS_Subset, ElementInduction
    <2>2. QED
      BY <2>1 DEF Good

LEMMA PartOfSum ==
  ASSUME NEW f, NEW S, IsFiniteSet(S), \A x \in S : f[x] \in Nat, NEW P \in SUBSET S
  PROVE  /\ Sum(f, P) \in Nat /\ Sum(f, S) \in Nat /\ Sum(f, P) <= Sum(f, S)
         /\ (\A x \in S \ P : f[x] = 0) => Sum(f, P) = Sum(f, S)
  <1>1. Sum(f, P) \in Nat /\ Sum(f, S) \in Nat /\ Sum(f, S \ P) \in Nat
    BY FS_Subset, SumTyped
  <1>2. Sum(f, S) = Sum(f, P) + Sum(f, S \ P)
    BY SumInTwo
  <1>3. (\A x \in S \ P : f[x] = 0) => Sum(f, S \ P) = 0
    BY FS_Subset, ZeroSum
  <1>4. QED
    BY <1>1, <1>2, <1>3

-----------------------------------------------------------------------------
(* The drift check (Drift).                                                *)

LEMMA DriftBehaviour == Spec => drift!Spec
  <1>1. Init => drift!Init
    BY DEF Init
  <1>2. [Next]_vars => [drift!Next]_(drift!vars)
    BY DEF Next, vars, driftVars, drift!vars
  <1>3. QED
    BY <1>1, <1>2, PTL DEF Spec, drift!Spec

Windows == {w \in [drift!Kinds -> Nat] : Sum(w, drift!Kinds) <= MaxWindow}

Counters == [sum : Int, count : Nat, nan : Nat]

Summaries == [rows : Windows, features : Counters, asked : BOOLEAN]

\* A baseline that can be read is a summary, and what was found compares this
\* run's summary with the baseline that is there.
DriftInv ==
  /\ window \in Windows
  /\ drift!Readable => baseline \in Summaries
  /\ stage \in {"features", "write", "written", "compare", "notify"} => current \in Summaries
  /\ stage = "notify" => drift!Readable /\ findings = drift!Compare(baseline, current)

LEMMA SameCounts ==
  /\ \A S : drift!Cardinality(S) = Cardinality(S)
  /\ \A S : drift!IsFiniteSet(S) <=> IsFiniteSet(S)
  /\ \A S : drift!Seq(S) = Seq(S) /\ \A s : drift!Len(s) = Len(s)
  <1>1. \A S : drift!Cardinality(S) = Cardinality(S)
    BY Zenon DEF drift!Cardinality, Cardinality
  <1>2. \A S : drift!IsFiniteSet(S) <=> IsFiniteSet(S)
    BY Zenon DEF drift!IsFiniteSet, IsFiniteSet
  <1>3. QED
    BY <1>1, <1>2

LEMMA DriftConstants ==
  /\ IsFiniteSet(drift!Kinds) /\ IsFiniteSet(Bins) /\ None \notin Bins
  /\ \A k \in drift!Kinds : Kind[k].ms \in Nat /\ Kind[k].feature \in Seq(Int \cup {None})
  /\ MinSearches \in Nat \ {0}
  /\ ZeroDelta \in 0..99 /\ LegRate \in 0..99 /\ LexicalDelta \in 0..99 /\ RrfRate \in 0..99
  /\ Floor \in Nat /\ PsiLimit \in Nat /\ FeatureShift \in Nat /\ FeatureMinCount \in Nat
  /\ MaxWindow \in Nat
  /\ \A n \in 1..(3 * MaxWindow) : Ln[n] \in Int
  <1>1. drift!Legs = {"e5", "two_tower", "lexical"}
    BY DEF drift!Legs, drift!VectorLegs
  <1>2. Cardinality(drift!Legs) = 3
    <2>1. IsFiniteSet({"e5", "two_tower"}) /\ Cardinality({"e5", "two_tower"}) = 2
      <3>1. IsFiniteSet({"e5"}) /\ Cardinality({"e5"}) = 1
        BY FS_Singleton
      <3>2. {"e5", "two_tower"} = {"e5"} \cup {"two_tower"}
        OBVIOUS
      <3>3. QED
        BY <3>1, <3>2, FS_AddElement
    <2>2. {"e5", "two_tower", "lexical"} = {"e5", "two_tower"} \cup {"lexical"}
      OBVIOUS
    <2>3. QED
      BY <1>1, <2>1, <2>2, FS_AddElement
  <1>3. drift!DriftAssumption
    BY ModelsAssumption
  <1>4. \A n \in 1..(3 * MaxWindow) : Ln[n] \in Int
    BY <1>2, <1>3, SameCounts DEF drift!DriftAssumption
  <1>5. /\ {ZeroDelta, LegRate, LexicalDelta, RrfRate} \subseteq 0..99
        /\ {Floor, PsiLimit, FeatureShift, FeatureMinCount, MaxWindow} \subseteq Nat
    BY <1>3 DEF drift!DriftAssumption
  <1>6. /\ IsFiniteSet(drift!Kinds) /\ IsFiniteSet(Bins) /\ None \notin Bins
        /\ \A k \in drift!Kinds : Kind[k].ms \in Nat /\ Kind[k].feature \in Seq(Int \cup {None})
        /\ MinSearches \in Nat \ {0}
    BY <1>3, SameCounts DEF drift!DriftAssumption
  <1>7. QED
    BY <1>4, <1>5, <1>6

LEMMA CountsTyped ==
  ASSUME NEW w \in Windows, NEW P \in SUBSET drift!Kinds
  PROVE  /\ drift!CountOf(w, P) = Sum(w, P) /\ drift!Total(w) = Sum(w, drift!Kinds)
         /\ Sum(w, P) \in Nat /\ Sum(w, drift!Kinds) \in Nat
         /\ Sum(w, P) <= Sum(w, drift!Kinds) /\ Sum(w, drift!Kinds) <= MaxWindow
         /\ (\A k \in drift!Kinds \ P : w[k] = 0) => Sum(w, P) = Sum(w, drift!Kinds)
  <1>1. /\ Sum(w, P) \in Nat /\ Sum(w, drift!Kinds) \in Nat /\ Sum(w, P) <= Sum(w, drift!Kinds)
        /\ (\A k \in drift!Kinds \ P : w[k] = 0) => Sum(w, P) = Sum(w, drift!Kinds)
    <2>1. \A k \in drift!Kinds : w[k] \in Nat
      BY DEF Windows
    <2>2. QED
      BY <2>1, DriftConstants, PartOfSum
  <1>2. QED
    BY <1>1 DEF drift!CountOf, drift!Total, Sum, Windows

\* One search more or less in a window.
LEMMA WindowChanged ==
  ASSUME NEW w \in [drift!Kinds -> Nat], NEW v \in [drift!Kinds -> Nat], NEW k \in drift!Kinds,
         \A l \in drift!Kinds \ {k} : v[l] = w[l]
  PROVE  /\ Sum(v, drift!Kinds) = Sum(w, drift!Kinds) - w[k] + v[k]
         /\ Sum(w, drift!Kinds) \in Nat /\ w[k] \in Nat
  <1>1. Sum(v, drift!Kinds) = v[k] + Sum(v, drift!Kinds \ {k})
    BY DriftConstants, TakenOut
  <1>2. Sum(w, drift!Kinds) = w[k] + Sum(w, drift!Kinds \ {k})
    BY DriftConstants, TakenOut
  <1>3. IsFiniteSet(drift!Kinds \ {k})
    BY DriftConstants, FS_Subset
  <1>4. Sum(v, drift!Kinds \ {k}) = Sum(w, drift!Kinds \ {k})
    BY <1>3, EqualSums
  <1>5. Sum(w, drift!Kinds \ {k}) \in Nat
    BY <1>3, SumTyped
  <1>6. QED
    BY <1>1, <1>2, <1>4, <1>5

\* What the server has counted.
LEMMA CountersTyped ==
  ASSUME NEW w \in Windows
  PROVE  drift!LoadFeatures(w) \in Counters
  <1>1. ASSUME NEW k \in drift!Kinds
        PROVE  /\ Cardinality(drift!Finite(Kind[k])) \in Nat
               /\ Len(Kind[k].feature) - Cardinality(drift!Finite(Kind[k])) \in Nat
               /\ drift!Positive(Kind[k]) - drift!Negative(Kind[k]) \in Int
    <2> DEFINE s == Kind[k].feature
               F == drift!Finite(Kind[k])
    <2>1. s \in Seq(Int \cup {None})
      BY DriftConstants
    <2>2. F \subseteq 1..Len(s) /\ \A i \in F : s[i] \in Int
      BY <2>1 DEF drift!Finite
    <2>3. IsFiniteSet(1..Len(s)) /\ Cardinality(1..Len(s)) = Len(s) /\ Len(s) \in Nat
      <3>1. Len(s) \in Nat
        BY <2>1
      <3> HIDE DEF s
      <3>2. IsFiniteSet(1..Len(s)) /\ Cardinality(1..Len(s)) = IF 1 > Len(s) THEN 0 ELSE Len(s) - 1 + 1
        BY <3>1, FS_Interval
      <3>3. QED
        BY <3>1, <3>2
    <2>4. IsFiniteSet(F) /\ Cardinality(F) \in Nat /\ Cardinality(F) <= Len(s)
      <3> HIDE DEF F, s
      <3> QED BY <2>2, <2>3, FS_Subset, FS_CardinalityType
    <2>5. drift!Positive(Kind[k]) \in Int
      <3> DEFINE f == [i \in F |-> IF s[i] > 0 THEN s[i] ELSE 0]
      <3>1. \A i \in F : f[i] \in Int
        BY <2>2
      <3>2. Sum(f, F) \in Int
        <4> HIDE DEF f, F
        <4> QED BY <2>4, <3>1, SumTyped
      <3>3. QED
        BY <3>2 DEF Sum, drift!Positive
    <2>6. drift!Negative(Kind[k]) \in Int
      <3> DEFINE f == [i \in F |-> IF s[i] < 0 THEN -s[i] ELSE 0]
      <3>1. \A i \in F : f[i] \in Int
        BY <2>2
      <3>2. Sum(f, F) \in Int
        <4> HIDE DEF f, F
        <4> QED BY <2>4, <3>1, SumTyped
      <3>3. QED
        BY <3>2 DEF Sum, drift!Negative
    <2>7. QED
      BY <2>3, <2>4, <2>5, <2>6
  <1>2. ASSUME NEW N, N \in {Int, Nat}, NEW of \in [drift!Kinds -> N]
        PROVE  drift!Observed(w, of) \in N
    <2> DEFINE f == [k \in drift!Kinds |-> w[k] * of[k]]
    <2>1. \A k \in drift!Kinds : f[k] \in N
      BY <1>2 DEF Windows
    <2>2. Sum(f, drift!Kinds) \in N
      <3> HIDE DEF f
      <3> QED BY <1>2, <2>1, DriftConstants, SumTyped
    <2>3. QED
      BY <2>2 DEF Sum, drift!Observed
  <1> DEFINE counted == [k \in drift!Kinds |-> Cardinality(drift!Finite(Kind[k]))]
             summed == [k \in drift!Kinds |-> drift!Positive(Kind[k]) - drift!Negative(Kind[k])]
  <1>3. counted \in [drift!Kinds -> Nat] /\ summed \in [drift!Kinds -> Int]
        /\ drift!NotFinite \in [drift!Kinds -> Nat]
    <2>1. counted \in [drift!Kinds -> Nat]
      BY <1>1
    <2>2. summed \in [drift!Kinds -> Int]
      BY <1>1
    <2>3. drift!NotFinite \in [drift!Kinds -> Nat]
      BY <1>1, SameCounts DEF drift!NotFinite
    <2>4. QED
      BY <2>1, <2>2, <2>3
  <1>4. /\ drift!Observed(w, counted) \in Nat /\ drift!Observed(w, summed) \in Int
        /\ drift!Observed(w, drift!NotFinite) \in Nat
    <2> HIDE DEF counted, summed
    <2> QED BY <1>2, <1>3
  <1>5. drift!LoadFeatures(w) =
          IF drift!Observed(w, counted) <= 0 THEN drift!NoFeatures
          ELSE [sum |-> drift!Observed(w, summed), count |-> drift!Observed(w, counted),
                nan |-> drift!Observed(w, drift!NotFinite)]
    BY SameCounts DEF drift!LoadFeatures
  <1>6. QED
    <2> HIDE DEF counted, summed
    <2> QED BY <1>4, <1>5 DEF drift!NoFeatures, Counters

LEMMA DriftInit == drift!Init => DriftInv
  <1> SUFFICES ASSUME drift!Init PROVE DriftInv
    OBVIOUS
  <1>1. window \in [drift!Kinds -> Nat] /\ \A k \in drift!Kinds : window[k] = 0
    BY DEF drift!Init
  <1>2. Sum(window, drift!Kinds) = 0
    BY <1>1, DriftConstants, ZeroSum
  <1>3. QED
    BY <1>1, <1>2, DriftConstants DEF drift!Init, DriftInv, Windows, drift!Readable

LEMMA DriftStep == ASSUME DriftInv, [drift!Next]_(drift!vars) PROVE DriftInv'
  <1>1. ASSUME drift!Serve \/ drift!Leave PROVE DriftInv'
    <2>1. window' \in Windows
      <3>1. window \in [drift!Kinds -> Nat]
        BY DEF DriftInv, Windows
      <3>2. CASE drift!Serve
        <4>1. PICK k \in drift!Kinds : window' = [window EXCEPT ![k] = window[k] + 1]
          BY <3>2 DEF drift!Serve
        <4>2. Sum(window, drift!Kinds) < MaxWindow
          BY <3>2 DEF drift!Serve, drift!Total, Sum
        <4>3. /\ window' \in [drift!Kinds -> Nat] /\ window'[k] = window[k] + 1
              /\ \A l \in drift!Kinds \ {k} : window'[l] = window[l]
          BY <3>1, <4>1
        <4>4. /\ Sum(window', drift!Kinds) = Sum(window, drift!Kinds) - window[k] + window'[k]
              /\ Sum(window, drift!Kinds) \in Nat /\ window[k] \in Nat
          BY <3>1, <4>3, WindowChanged
        <4>5. Sum(window', drift!Kinds) <= MaxWindow
          BY <4>2, <4>3, <4>4, DriftConstants
        <4>6. QED
          BY <4>3, <4>5 DEF Windows
      <3>3. CASE drift!Leave
        <4>1. PICK k \in drift!Kinds : window[k] > 0 /\ window' = [window EXCEPT ![k] = window[k] - 1]
          BY <3>3 DEF drift!Leave
        <4>2. Sum(window, drift!Kinds) <= MaxWindow
          BY DEF DriftInv, Windows
        <4>3. /\ window' \in [drift!Kinds -> Nat] /\ window'[k] = window[k] - 1
              /\ \A l \in drift!Kinds \ {k} : window'[l] = window[l]
          BY <3>1, <4>1
        <4>4. /\ Sum(window', drift!Kinds) = Sum(window, drift!Kinds) - window[k] + window'[k]
              /\ Sum(window, drift!Kinds) \in Nat /\ window[k] \in Nat
          BY <3>1, <4>3, WindowChanged
        <4>5. Sum(window', drift!Kinds) <= MaxWindow
          BY <4>2, <4>3, <4>4, DriftConstants
        <4>6. QED
          BY <4>3, <4>5 DEF Windows
      <3>4. QED
        BY <1>1, <3>2, <3>3
    <2>2. UNCHANGED <<baseline, stage, current, findings>>
      BY <1>1 DEF drift!Serve, drift!Leave, drift!Happens
    <2>3. QED
      BY <2>1, <2>2 DEF DriftInv, drift!Readable
  <1>2. CASE drift!LoadRows
    <2>1. [rows |-> window, features |-> drift!NoFeatures, asked |-> FALSE] \in Summaries
      BY DEF DriftInv, Summaries, Counters, drift!NoFeatures
    <2>2. QED
      BY <1>2, <2>1 DEF drift!LoadRows, DriftInv, drift!Readable
  <1>3. CASE drift!AskPrometheus
    <2>1. drift!LoadFeatures(window) \in Counters /\ current \in Summaries
      BY <1>3, CountersTyped DEF drift!AskPrometheus, DriftInv
    <2>2. current' \in Summaries
      BY <1>3, <2>1 DEF drift!AskPrometheus, Summaries
    <2>3. QED
      BY <1>3, <2>2 DEF drift!AskPrometheus, DriftInv, drift!Readable
  <1>4. CASE drift!OpenBaseline
    BY <1>4 DEF drift!OpenBaseline, DriftInv, drift!Readable
  <1>5. CASE drift!WriteBaseline
    BY <1>5 DEF drift!WriteBaseline, DriftInv, drift!Readable, drift!End
  <1>6. CASE drift!Killed \/ drift!CompareFails \/ drift!Notify
    BY <1>6 DEF drift!Killed, drift!CompareFails, drift!Notify, DriftInv, drift!Readable, drift!End
  <1>7. CASE drift!CompareAndReport
    BY <1>7 DEF drift!CompareAndReport, DriftInv, drift!Readable
  <1>8. CASE drift!Again
    BY <1>8 DEF drift!Again, DriftInv, drift!Readable
  <1>9. CASE UNCHANGED drift!vars
    BY <1>9 DEF drift!vars, DriftInv, drift!Readable
  <1>10. QED
    BY <1>1, <1>2, <1>3, <1>4, <1>5, <1>6, <1>7, <1>8, <1>9 DEF drift!Next

LEMMA DriftInvariance == Spec => []DriftInv
  BY DriftBehaviour, DriftInit, DriftStep, PTL DEF drift!Spec

\* drift.py, compare: a fallback to RRF or a failure of a vector leg in every search
\* of a window is found, for any kinds of search, thresholds below one hundred per
\* cent, windows and baselines.
THEOREM FaultsAreFound == Spec => []FaultIsFound
  <1>1. DriftInv => FaultIsFound
    <2> DEFINE w == current.rows
               fallback == {k \in drift!Kinds : ~Kind[k].ranked}
               failed(leg) == {k \in drift!Kinds : drift!Failed(leg, Kind[k])}
    <2> SUFFICES ASSUME DriftInv, stage = "notify", drift!Total(w) >= MinSearches,
                        \/ \A k \in drift!Kinds : w[k] > 0 => ~Kind[k].ranked
                        \/ \E leg \in drift!VectorLegs :
                              \A k \in drift!Kinds : w[k] > 0 => drift!Failed(leg, Kind[k])
                 PROVE  drift!Drifted
      BY DEF FaultIsFound, drift!FaultIsFound, drift!Compared
    <2>1. w \in Windows /\ findings = drift!Compare(baseline, current)
      BY DEF DriftInv, Summaries
    <2>2. drift!Total(w) \in Nat /\ drift!Total(w) > 0 /\ ~(drift!Total(w) < MinSearches)
      <3>1. drift!Total(w) \in Nat
        <4> HIDE DEF w
        <4> QED BY <2>1, CountsTyped
      <3>2. QED
        BY <3>1, DriftConstants
    <2>3. ASSUME NEW P \in SUBSET drift!Kinds, \A k \in drift!Kinds : w[k] > 0 => k \in P,
                 NEW rate \in 0..99
          PROVE  100 * drift!CountOf(w, P) > rate * drift!Total(w)
      <3>1. \A k \in drift!Kinds \ P : w[k] = 0
        BY <2>1, <2>3 DEF Windows
      <3>2. drift!CountOf(w, P) = drift!Total(w)
        <4> HIDE DEF w
        <4> QED BY <2>1, <3>1, CountsTyped
      <3>3. rate * drift!Total(w) <= 99 * drift!Total(w)
        BY <2>2
      <3>4. rate * drift!Total(w) \in Int
        BY <2>2
      <3>5. QED
        BY <2>2, <3>2, <3>3, <3>4
    <2>4. CASE \A k \in drift!Kinds : w[k] > 0 => ~Kind[k].ranked
      <3>1. 100 * drift!CountOf(w, fallback) > RrfRate * drift!Total(w)
        <4>1. \A k \in drift!Kinds : w[k] > 0 => k \in fallback
          BY <2>4
        <4>2. fallback \in SUBSET drift!Kinds
          OBVIOUS
        <4> HIDE DEF fallback, w
        <4>3. QED
          BY <2>3, <4>1, <4>2, DriftConstants
      <3>2. "rrf_fallback" \in drift!Fallback(baseline.rows, w)
        BY <3>1 DEF drift!Fallback
      <3>3. "rrf_fallback" \in findings
        BY <2>1, <2>2, <3>2 DEF drift!Compare
      <3>4. QED
        BY <3>3 DEF drift!Drifted
    <2>5. ASSUME NEW leg \in drift!VectorLegs,
                 \A k \in drift!Kinds : w[k] > 0 => drift!Failed(leg, Kind[k])
          PROVE  drift!Drifted
      <3>1. 100 * drift!CountOf(w, failed(leg)) > LegRate * drift!Total(w)
        <4>1. \A k \in drift!Kinds : w[k] > 0 => k \in failed(leg)
          BY <2>5
        <4>2. failed(leg) \in SUBSET drift!Kinds
          OBVIOUS
        <4> HIDE DEF failed, w
        <4>3. QED
          BY <2>3, <4>1, <4>2, DriftConstants
      <3>2. leg \in drift!LegsFailed(baseline.rows, w)
        BY <3>1 DEF drift!LegsFailed
      <3>3. leg \in findings /\ leg \notin {"sample", "bundle"}
        BY <2>1, <2>2, <3>2 DEF drift!Compare, drift!VectorLegs
      <3>4. QED
        BY <3>3 DEF drift!Drifted
    <2>6. QED
      BY <2>4, <2>5
  <1>2. QED
    BY <1>1, DriftInvariance, PTL

\* In windows of the same proportions, every part has the same share.
LEMMA SameShares ==
  ASSUME NEW b \in Windows, NEW w \in Windows, drift!SameProportions(b, w), NEW P \in SUBSET drift!Kinds
  PROVE  Sum(b, P) * drift!Total(w) = Sum(w, P) * drift!Total(b)
  <1>1. drift!Total(w) \in Int /\ drift!Total(b) \in Int
    BY CountsTyped
  <1>2. \A k \in P : /\ b[k] \in Int /\ w[k] \in Int
                     /\ b[k] * drift!Total(w) = w[k] * drift!Total(b)
    BY DEF drift!SameProportions, Windows
  <1>3. IsFiniteSet(P)
    BY DriftConstants, FS_Subset
  <1>4. QED
    BY <1>1, <1>2, <1>3, SumsScaled

LEMMA NoExcess ==
  ASSUME NEW b \in Windows, NEW w \in Windows, drift!Total(b) > 0,
         NEW base \in Nat, NEW count \in Nat, base * drift!Total(w) = count * drift!Total(b),
         NEW delta \in 0..99
  PROVE  ~drift!Exceeds(count, w, base, b, delta)
  <1> DEFINE B == drift!Total(b)
             W == drift!Total(w)
  <1>1. B \in Nat /\ W \in Nat /\ drift!Whole(B) = B
    BY CountsTyped DEF drift!Whole
  <1> HIDE DEF B, W
  <1>2. base * W \in Nat /\ count * B \in Nat /\ delta * B \in Nat /\ (delta * B) * W \in Nat
    BY <1>1
  <1>3. (100 * base + delta * B) * W = 100 * (base * W) + (delta * B) * W
    BY <1>1, <1>2
  <1>4. 100 * count * B = 100 * (count * B)
    BY <1>1
  <1>5. ~(100 * count * B > (100 * base + delta * B) * W)
    BY <1>2, <1>3, <1>4 DEF B, W
  <1>6. QED
    BY <1>1, <1>5 DEF drift!Exceeds, B, W

\* Part c of n and part d of m are the same share.
Alike(c, n, d, m) == c * m = d * n

\* A share of a share is the same as well, of none too.
LEMMA SameFraction ==
  ASSUME NEW B \in Nat, B > 0, NEW W \in Nat, W > 0,
         NEW cb \in Nat, NEW cw \in Nat, Alike(cb, B, cw, W),
         NEW sb \in Nat, NEW sw \in Nat, Alike(sb, B, sw, W),
         cb <= sb, cw <= sw
  PROVE  cw * drift!Whole(sb) = cb * drift!Whole(sw)
  <1> USE DEF Alike
  <1>1. CASE sb = 0
    <2>1. sw * B = 0
      BY <1>1
    <2>2. sw = 0
      BY <2>1
    <2>3. QED
      BY <1>1, <2>2 DEF drift!Whole
  <1>2. CASE sb # 0
    <2>1. sb * W > 0
      BY <1>2
    <2>2. sw # 0
      BY <2>1
    <2>3. (cw * sb) * B = (cw * B) * sb
      OBVIOUS
    <2>4. (cw * B) * sb = (cb * W) * sb
      OBVIOUS
    <2>5. (cb * W) * sb = cb * (sb * W)
      OBVIOUS
    <2>6. cb * (sb * W) = (cb * sw) * B
      OBVIOUS
    <2>7. (cw * sb) * B = (cb * sw) * B
      BY <2>3, <2>4, <2>5, <2>6
    <2>8. cw * sb = cb * sw
      <3> DEFINE x == cw * sb
                 y == cb * sw
      <3>1. x \in Int /\ y \in Int /\ x * B = y * B
        BY <2>7
      <3> HIDE DEF x, y
      <3>2. (x - y) * B = 0
        BY <3>1
      <3>3. x = y
        BY <3>1, <3>2
      <3>4. QED
        BY <3>3 DEF x, y
    <2>9. QED
      BY <1>2, <2>2, <2>8 DEF drift!Whole
  <1>3. QED
    BY <1>1, <1>2

\* The fractions whose logarithm is known.
Fractions ==
  {f \in Nat \X (Nat \ {0}) : f[1] # 0 => f[1] <= 3 * MaxWindow /\ f[2] <= 3 * MaxWindow}

LEMMA NoShift ==
  ASSUME NEW bins, IsFiniteSet(bins), NEW e \in [bins -> Fractions], NEW a \in [bins -> Fractions],
         \A b \in bins : a[b][1] * e[b][2] = e[b][1] * a[b][2]
  PROVE  ~drift!Shifted(e, a)
  <1> DEFINE term == [b \in bins |-> drift!Term(e[b], a[b])]
  <1>1. ASSUME NEW f \in Fractions PROVE drift!Log(f) \in Int
    <2>1. f[1] \in Nat /\ f[2] \in Nat /\ f[2] # 0
          /\ (f[1] # 0 => f[1] <= 3 * MaxWindow /\ f[2] <= 3 * MaxWindow)
      BY DEF Fractions
    <2>2. CASE f[1] = 0
      BY <2>2 DEF drift!Log
    <2>3. CASE f[1] # 0
      <3>1. f[1] \in 1..(3 * MaxWindow) /\ f[2] \in 1..(3 * MaxWindow)
        BY <2>1, <2>3, DriftConstants
      <3>2. Ln[f[1]] \in Int /\ Ln[f[2]] \in Int
        BY <3>1, DriftConstants
      <3>3. QED
        BY <2>3, <3>2 DEF drift!Log
    <2>4. QED
      BY <2>2, <2>3
  <1>2. ASSUME NEW b \in bins PROVE term[b] = 0
    <2> DEFINE n == a[b][1] * e[b][2] - e[b][1] * a[b][2]
               l == drift!Log(a[b]) - drift!Log(e[b])
               d == a[b][2] * e[b][2]
    <2>1. /\ a[b] \in Fractions /\ e[b] \in Fractions
          /\ a[b][1] \in Nat /\ e[b][1] \in Nat
          /\ a[b][2] \in Nat \ {0} /\ e[b][2] \in Nat \ {0}
      BY DEF Fractions
    <2>2. n = 0
      BY <2>1
    <2>3. l \in Int
      BY <1>1, <2>1
    <2>4. d \in Nat /\ d > 0
      BY <2>1
    <2>5. term[b] = (n * l) \div d
      BY DEF drift!Term
    <2> HIDE DEF n, l, d, term
    <2>6. n * l = 0
      BY <2>2, <2>3
    <2>7. QED
      BY <2>4, <2>5, <2>6
  <1>3. Sum(term, bins) = 0
    <2> HIDE DEF term
    <2> QED BY <1>2, ZeroSum
  <1>4. drift!Shifted(e, a) <=> Sum(term, bins) > PsiLimit
    BY DEF drift!Shifted, Sum
  <1>5. QED
    <2> HIDE DEF term
    <2> QED BY <1>3, <1>4, DriftConstants

LEMMA ScoresStable ==
  ASSUME NEW b \in Windows, NEW w \in Windows, drift!SameProportions(b, w), drift!Total(w) > 0
  PROVE  ~drift!Shifted(drift!Histogram(b), drift!Histogram(w))
  <1> DEFINE Scored == {k \in drift!Kinds : Kind[k].top # None}
             Of(t) == {k \in drift!Kinds : Kind[k].top = t}
  <1>1. ASSUME NEW v \in Windows, NEW t \in Bins
        PROVE  /\ drift!CountOf(v, Of(t)) \in Nat /\ drift!CountOf(v, Scored) \in Nat
               /\ drift!CountOf(v, Of(t)) <= drift!CountOf(v, Scored)
               /\ drift!CountOf(v, Scored) <= MaxWindow
    <2>1. Of(t) \in SUBSET Scored /\ Scored \in SUBSET drift!Kinds /\ Of(t) \in SUBSET drift!Kinds
      BY DriftConstants
    <2>2. \A k \in Scored : v[k] \in Nat
      BY DEF Windows
    <2> HIDE DEF Scored, Of
    <2>3. IsFiniteSet(Scored)
      BY <2>1, DriftConstants, FS_Subset
    <2>4. Sum(v, Of(t)) <= Sum(v, Scored)
      BY <2>1, <2>2, <2>3, PartOfSum
    <2>5. /\ drift!CountOf(v, Of(t)) = Sum(v, Of(t)) /\ Sum(v, Of(t)) \in Nat
          /\ drift!CountOf(v, Scored) = Sum(v, Scored) /\ Sum(v, Scored) \in Nat
          /\ Sum(v, Scored) <= Sum(v, drift!Kinds) /\ Sum(v, drift!Kinds) <= MaxWindow
          /\ Sum(v, drift!Kinds) \in Nat
      BY <2>1, CountsTyped
    <2>6. QED
      BY <2>4, <2>5, DriftConstants
  <1>2. ASSUME NEW v \in Windows
        PROVE  /\ drift!Histogram(v) \in [Bins -> Fractions]
               /\ \A t \in Bins : /\ drift!Histogram(v)[t][1] = drift!CountOf(v, Of(t))
                                  /\ drift!Histogram(v)[t][2] = drift!Whole(drift!CountOf(v, Scored))
    <2>1. drift!Histogram(v) =
            [t \in Bins |-> <<drift!CountOf(v, Of(t)), drift!Whole(drift!CountOf(v, Scored))>>]
      BY DEF drift!Histogram
    <2>2. ASSUME NEW t \in Bins
          PROVE  <<drift!CountOf(v, Of(t)), drift!Whole(drift!CountOf(v, Scored))>> \in Fractions
      <3> DEFINE c == drift!CountOf(v, Of(t))
                 n == drift!CountOf(v, Scored)
      <3>1. c \in Nat /\ n \in Nat /\ c <= n /\ n <= MaxWindow
        BY <1>1
      <3> HIDE DEF c, n
      <3>2. drift!Whole(n) \in Nat \ {0} /\ (c # 0 => c <= 3 * MaxWindow /\ drift!Whole(n) <= 3 * MaxWindow)
        BY <3>1, DriftConstants DEF drift!Whole
      <3>3. <<c, drift!Whole(n)>> \in Fractions
        BY <3>1, <3>2 DEF Fractions
      <3>4. QED
        BY <3>3 DEF c, n
    <2> HIDE DEF Of, Scored
    <2>3. QED
      BY <2>1, <2>2
  <1>3. drift!Total(b) \in Nat /\ drift!Total(b) > 0 /\ drift!Total(w) \in Nat
    BY CountsTyped DEF drift!SameProportions
  <1>4. ASSUME NEW t \in Bins
        PROVE  drift!Histogram(w)[t][1] * drift!Histogram(b)[t][2]
                 = drift!Histogram(b)[t][1] * drift!Histogram(w)[t][2]
    <2>1. Of(t) \in SUBSET drift!Kinds /\ Scored \in SUBSET drift!Kinds
      OBVIOUS
    <2> HIDE DEF Of, Scored
    <2>2. /\ drift!CountOf(b, Of(t)) * drift!Total(w) = drift!CountOf(w, Of(t)) * drift!Total(b)
          /\ drift!CountOf(b, Scored) * drift!Total(w) = drift!CountOf(w, Scored) * drift!Total(b)
      BY <2>1, SameShares, CountsTyped
    <2>3. drift!CountOf(w, Of(t)) * drift!Whole(drift!CountOf(b, Scored))
            = drift!CountOf(b, Of(t)) * drift!Whole(drift!CountOf(w, Scored))
      <3> DEFINE B == drift!Total(b)
                 W == drift!Total(w)
                 cb == drift!CountOf(b, Of(t))
                 cw == drift!CountOf(w, Of(t))
                 sb == drift!CountOf(b, Scored)
                 sw == drift!CountOf(w, Scored)
      <3>1. /\ B \in Nat /\ B > 0 /\ W \in Nat /\ W > 0
            /\ cb \in Nat /\ cw \in Nat /\ sb \in Nat /\ sw \in Nat
            /\ Alike(cb, B, cw, W) /\ Alike(sb, B, sw, W) /\ cb <= sb /\ cw <= sw
        BY <1>1, <1>3, <2>2 DEF Alike
      <3> HIDE DEF B, W, cb, cw, sb, sw
      <3>2. cw * drift!Whole(sb) = cb * drift!Whole(sw)
        BY <3>1, SameFraction
      <3>3. QED
        BY <3>2 DEF cb, cw, sb, sw
    <2>4. QED
      BY <1>2, <2>3
  <1>5. QED
    <2> HIDE DEF Of, Scored
    <2> QED BY <1>2, <1>4, DriftConstants, NoShift

LEMMA SourcesStable ==
  ASSUME NEW b \in Windows, NEW w \in Windows, drift!SameProportions(b, w), drift!Total(w) > 0
  PROVE  ~drift!Shifted(drift!SourceMix(b), drift!SourceMix(w))
  <1> DEFINE Of(leg) == {k \in drift!Kinds : leg \in Kind[k].sources}
             of(v) == [leg \in drift!Legs |-> drift!CountOf(v, Of(leg))]
             all(v) == Sum(of(v), drift!Legs)
  <1>1. drift!Legs = {"e5", "two_tower", "lexical"} /\ IsFiniteSet(drift!Legs)
    <2>1. drift!Legs = {"e5", "two_tower", "lexical"}
      BY DEF drift!Legs, drift!VectorLegs
    <2>2. IsFiniteSet({"e5"}) /\ IsFiniteSet({"e5"} \cup {"two_tower"})
          /\ IsFiniteSet({"e5"} \cup {"two_tower"} \cup {"lexical"})
      BY FS_Singleton, FS_Union
    <2>3. {"e5"} \cup {"two_tower"} \cup {"lexical"} = {"e5", "two_tower", "lexical"}
      OBVIOUS
    <2>4. QED
      BY <2>1, <2>2, <2>3
  <1>2. ASSUME NEW v \in Windows, NEW leg \in drift!Legs
        PROVE  /\ of(v)[leg] = drift!CountOf(v, Of(leg))
               /\ of(v)[leg] \in Nat /\ of(v)[leg] <= MaxWindow
    <2>1. Of(leg) \in SUBSET drift!Kinds
      OBVIOUS
    <2>2. of(v)[leg] = drift!CountOf(v, Of(leg))
      OBVIOUS
    <2> HIDE DEF Of, of
    <2>3. QED
      BY <2>1, <2>2, CountsTyped, DriftConstants
  <1>3. ASSUME NEW v \in Windows, NEW leg \in drift!Legs
        PROVE  all(v) \in Nat /\ of(v)[leg] <= all(v) /\ all(v) <= 3 * MaxWindow
    <2> DEFINE f == of(v)
    <2>1. \A l \in drift!Legs : f[l] \in Nat /\ f[l] <= MaxWindow
      BY <1>2
    <2> HIDE DEF f
    <2>2. Sum(f, drift!Legs) = f[leg] + Sum(f, drift!Legs \ {leg})
      BY <1>1, <2>1, TakenOut
    <2>3. Sum(f, drift!Legs \ {leg}) \in Nat
      BY <1>1, <2>1, FS_Subset, SumTyped
    <2>4. Sum(f, drift!Legs) = f["e5"] + f["two_tower"] + f["lexical"]
      <3>1. Sum(f, drift!Legs) = f["e5"] + Sum(f, drift!Legs \ {"e5"})
        BY <1>1, <2>1, TakenOut
      <3>2. IsFiniteSet(drift!Legs \ {"e5"}) /\ IsFiniteSet(drift!Legs \ {"e5", "two_tower"})
        BY <1>1, FS_Subset
      <3>3. (drift!Legs \ {"e5"}) \ {"two_tower"} = drift!Legs \ {"e5", "two_tower"}
            /\ (drift!Legs \ {"e5", "two_tower"}) \ {"lexical"} = {}
            /\ "two_tower" \in drift!Legs \ {"e5"} /\ "lexical" \in drift!Legs \ {"e5", "two_tower"}
        BY <1>1
      <3>4. Sum(f, drift!Legs \ {"e5"}) = f["two_tower"] + Sum(f, drift!Legs \ {"e5", "two_tower"})
        BY <2>1, <3>2, <3>3, TakenOut
      <3>5. Sum(f, drift!Legs \ {"e5", "two_tower"}) = f["lexical"] + Sum(f, {})
        BY <2>1, <3>2, <3>3, TakenOut
      <3>6. f["e5"] \in Nat /\ f["two_tower"] \in Nat /\ f["lexical"] \in Nat
        BY <1>1, <2>1
      <3>7. QED
        BY <3>1, <3>4, <3>5, <3>6, SumOfNone
    <2>5. f["e5"] \in 0..MaxWindow /\ f["two_tower"] \in 0..MaxWindow /\ f["lexical"] \in 0..MaxWindow
      BY <1>1, <2>1, DriftConstants
    <2>6. f[leg] \in Nat
      BY <2>1
    <2>7. Sum(f, drift!Legs) \in Nat /\ f[leg] <= Sum(f, drift!Legs) /\ Sum(f, drift!Legs) <= 3 * MaxWindow
      <3>1. Sum(f, drift!Legs) \in Nat /\ f[leg] <= Sum(f, drift!Legs)
        BY <2>2, <2>3, <2>6
      <3>2. Sum(f, drift!Legs) <= 3 * MaxWindow
        BY <2>4, <2>5, DriftConstants
      <3>3. QED
        BY <3>1, <3>2
    <2>8. QED
      BY <2>7 DEF f
  <1>4. ASSUME NEW v \in Windows
        PROVE  /\ drift!SourceMix(v) \in [drift!Legs -> Fractions]
               /\ \A leg \in drift!Legs : /\ drift!SourceMix(v)[leg][1] = of(v)[leg]
                                          /\ drift!SourceMix(v)[leg][2] = drift!Whole(all(v))
    <2>1. drift!SourceMix(v) = [leg \in drift!Legs |-> <<of(v)[leg], drift!Whole(all(v))>>]
      BY DEF drift!SourceMix, Sum
    <2>2. ASSUME NEW leg \in drift!Legs PROVE <<of(v)[leg], drift!Whole(all(v))>> \in Fractions
      <3> DEFINE c == of(v)[leg]
                 n == all(v)
      <3>1. c \in Nat /\ n \in Nat /\ c <= n /\ n <= 3 * MaxWindow
        BY <1>2, <1>3
      <3> HIDE DEF c, n
      <3>2. drift!Whole(n) \in Nat \ {0} /\ (c # 0 => c <= 3 * MaxWindow /\ drift!Whole(n) <= 3 * MaxWindow)
        BY <3>1, DriftConstants DEF drift!Whole
      <3>3. <<c, drift!Whole(n)>> \in Fractions
        BY <3>1, <3>2 DEF Fractions
      <3>4. QED
        BY <3>3 DEF c, n
    <2> HIDE DEF of, all
    <2>3. QED
      BY <2>1, <2>2
  <1>5. drift!Total(b) \in Nat /\ drift!Total(b) > 0 /\ drift!Total(w) \in Nat
    BY CountsTyped DEF drift!SameProportions
  <1>6. ASSUME NEW leg \in drift!Legs
        PROVE  of(b)[leg] * drift!Total(w) = of(w)[leg] * drift!Total(b)
    <2>1. Of(leg) \in SUBSET drift!Kinds
      OBVIOUS
    <2> HIDE DEF Of
    <2>2. drift!CountOf(b, Of(leg)) * drift!Total(w) = drift!CountOf(w, Of(leg)) * drift!Total(b)
      BY <2>1, SameShares, CountsTyped
    <2>3. QED
      BY <2>2, <1>2
  <1>7. all(b) * drift!Total(w) = all(w) * drift!Total(b)
    <2> DEFINE f == of(b)
               g == of(w)
    <2>1. \A l \in drift!Legs : f[l] \in Int /\ g[l] \in Int
                                /\ f[l] * drift!Total(w) = g[l] * drift!Total(b)
      BY <1>2, <1>6
    <2> HIDE DEF f, g
    <2>2. Sum(f, drift!Legs) * drift!Total(w) = Sum(g, drift!Legs) * drift!Total(b)
      BY <1>1, <1>5, <2>1, SumsScaled
    <2>3. QED
      BY <2>2 DEF f, g
  <1>8. ASSUME NEW leg \in drift!Legs
        PROVE  drift!SourceMix(w)[leg][1] * drift!SourceMix(b)[leg][2]
                 = drift!SourceMix(b)[leg][1] * drift!SourceMix(w)[leg][2]
    <2>1. of(w)[leg] * drift!Whole(all(b)) = of(b)[leg] * drift!Whole(all(w))
      <3> DEFINE B == drift!Total(b)
                 W == drift!Total(w)
                 cb == of(b)[leg]
                 cw == of(w)[leg]
                 sb == all(b)
                 sw == all(w)
      <3>1. /\ B \in Nat /\ B > 0 /\ W \in Nat /\ W > 0
            /\ cb \in Nat /\ cw \in Nat /\ sb \in Nat /\ sw \in Nat
            /\ Alike(cb, B, cw, W) /\ Alike(sb, B, sw, W) /\ cb <= sb /\ cw <= sw
        <4> HIDE DEF of, all
        <4> QED BY <1>2, <1>3, <1>5, <1>6, <1>7 DEF Alike
      <3> HIDE DEF B, W, cb, cw, sb, sw
      <3>2. cw * drift!Whole(sb) = cb * drift!Whole(sw)
        BY <3>1, SameFraction
      <3>3. QED
        BY <3>2 DEF cb, cw, sb, sw
    <2> HIDE DEF of, all
    <2>2. QED
      BY <1>4, <2>1
  <1>9. QED
    <2> HIDE DEF of, all
    <2> QED BY <1>1, <1>4, <1>8, NoShift

\* A percentile of the times is a number: for every place there is a time with more
\* searches up to it.
LEMMA PercentileTyped ==
  ASSUME NEW w \in Windows
  PROVE  drift!P95(w) # None => drift!P95(w) \in Int
  <1> DEFINE Held == {k \in drift!Kinds : w[k] > 0}
             times == {Kind[k].ms : k \in Held}
             upTo(t) == drift!CountOf(w, {k \in drift!Kinds : Kind[k].ms <= t})
             Above(i) == {t \in times : upTo(t) > i}
             nth(i) == drift!Min(Above(i))
             k == (drift!Total(w) - 1) * 95
  <1>1. drift!P95(w) = IF times = {} THEN None
                       ELSE IF k % 100 = 0 THEN 100 * nth(k \div 100)
                       ELSE 100 * nth(k \div 100) + (nth(k \div 100 + 1) - nth(k \div 100)) * (k % 100)
    BY DEF drift!P95
  <1> SUFFICES ASSUME Held # {} PROVE drift!P95(w) \in Int
    <2>1. Held = {} => times = {}
      OBVIOUS
    <2> HIDE DEF Held, times, nth, k
    <2>2. QED
      BY <1>1, <2>1
  <1>2. times # {} /\ times \subseteq Nat
    BY DriftConstants
  <1>3. PICK last \in Held : \A l \in Held : Kind[l].ms <= Kind[last].ms
    <2> DEFINE Good == {P \in SUBSET Held : P = {} \/ \E m \in P : \A l \in P : Kind[l].ms <= Kind[m].ms}
    <2>1. {} \in Good
      OBVIOUS
    <2>2. ASSUME NEW T \in SUBSET Held, NEW x \in T, T \ {x} \in Good PROVE T \in Good
      <3>1. \A l \in T : Kind[l].ms \in Nat
        BY DriftConstants
      <3>2. CASE T \ {x} = {}
        BY <3>1, <3>2
      <3>3. CASE T \ {x} # {}
        <4>1. PICK m \in T \ {x} : \A l \in T \ {x} : Kind[l].ms <= Kind[m].ms
          BY <2>2, <3>3
        <4>2. CASE Kind[x].ms <= Kind[m].ms
          BY <4>1, <4>2
        <4>3. CASE ~(Kind[x].ms <= Kind[m].ms)
          <5>1. \A l \in T : Kind[l].ms <= Kind[x].ms
            BY <3>1, <4>1, <4>3
          <5>2. QED
            BY <5>1
        <4>4. QED
          BY <4>2, <4>3
      <3>4. QED
        BY <3>2, <3>3
    <2>3. IsFiniteSet(Held)
      BY DriftConstants, FS_Subset
    <2>4. Held \in Good
      <3> HIDE DEF Good, Held
      <3> QED BY <2>1, <2>2, <2>3, ElementInduction
    <2>5. QED
      BY <2>4
  <1>4. upTo(Kind[last].ms) = drift!Total(w) /\ drift!Total(w) \in Nat
    <2> DEFINE P == {l \in drift!Kinds : Kind[l].ms <= Kind[last].ms}
    <2>1. P \in SUBSET drift!Kinds /\ \A l \in drift!Kinds \ P : w[l] = 0
      BY <1>3 DEF Windows
    <2> HIDE DEF P
    <2>2. drift!CountOf(w, P) = drift!Total(w) /\ drift!Total(w) \in Nat
      BY <2>1, CountsTyped
    <2>3. QED
      BY <2>2 DEF P
  <1>5. drift!Total(w) > 0
    <2>1. w[last] \in Nat /\ w[last] > 0 /\ last \in drift!Kinds
      BY DEF Windows
    <2>2. Sum(w, drift!Kinds) = w[last] + Sum(w, drift!Kinds \ {last})
      BY <2>1, DriftConstants, TakenOut DEF Windows
    <2>3. Sum(w, drift!Kinds \ {last}) \in Nat
      BY CountsTyped
    <2>4. QED
      BY <2>1, <2>2, <2>3, CountsTyped
  <1>6. ASSUME NEW i \in Int, i < drift!Total(w)
        PROVE  nth(i) \in Nat
    <2>1. Kind[last].ms \in Above(i)
      BY <1>3, <1>4, <1>6
    <2>2. Above(i) \in SUBSET Nat /\ Above(i) # {}
      BY <1>2, <2>1
    <2> HIDE DEF Above
    <2>3. \E x \in Above(i) : \A y \in Above(i) : x <= y
      BY <2>2, LeastOf
    <2>4. QED
      BY <2>2, <2>3 DEF drift!Min
  <1> HIDE DEF Held, times, nth
  <1>7. k \in Int /\ k \div 100 \in Int /\ k % 100 \in Int
        /\ k \div 100 < drift!Total(w)
        /\ (k % 100 # 0 => k \div 100 + 1 < drift!Total(w))
    BY <1>4, <1>5
  <1> HIDE DEF k
  <1>8. nth(k \div 100) \in Nat
    BY <1>6, <1>7
  <1>9. k % 100 # 0 => nth(k \div 100 + 1) \in Nat
    BY <1>6, <1>7
  <1>10. CASE k % 100 = 0
    <2>1. drift!P95(w) = 100 * nth(k \div 100)
      BY <1>1, <1>2, <1>10
    <2>2. QED
      BY <1>8, <2>1
  <1>11. CASE k % 100 # 0
    <2> DEFINE x == nth(k \div 100)
               y == nth(k \div 100 + 1)
               rest == k % 100
    <2>1. drift!P95(w) = 100 * x + (y - x) * rest
      BY <1>1, <1>2, <1>11
    <2>2. x \in Int /\ y \in Int /\ rest \in Int
      BY <1>7, <1>8, <1>9, <1>11
    <2> HIDE DEF x, y, rest
    <2>3. QED
      BY <2>1, <2>2
  <1>12. QED
    BY <1>10, <1>11

LEMMA LatencyStable ==
  ASSUME NEW b \in Windows, NEW w \in Windows, drift!SameProportions(b, w),
         drift!Total(b) = drift!Total(w)
  PROVE  drift!Latency(b, w) = {}
  <1>1. drift!Total(w) \in Nat /\ drift!Total(w) > 0
    BY CountsTyped DEF drift!SameProportions
  <1>2. ASSUME NEW k \in drift!Kinds PROVE b[k] = w[k]
    <2> DEFINE n == drift!Total(w)
               x == b[k]
               y == w[k]
    <2>1. n \in Nat /\ n > 0 /\ x \in Int /\ y \in Int /\ x * n = y * n
      BY <1>1 DEF drift!SameProportions, Windows
    <2> HIDE DEF n, x, y
    <2>2. (x - y) * n = 0
      BY <2>1
    <2>3. x = y
      BY <2>1, <2>2
    <2>4. QED
      BY <2>3 DEF x, y
  <1>3. b = w
    BY <1>2 DEF Windows
  <1>4. drift!P95(w) # None => ~(drift!P95(w) > 100 * Floor /\ drift!P95(w) > 2 * drift!P95(w))
    BY PercentileTyped, DriftConstants
  <1>5. QED
    BY <1>3, <1>4 DEF drift!Latency

LEMMA FeatureStable ==
  ASSUME NEW base \in Counters, NEW cur \in Counters, cur.nan = 0,
         base.sum * cur.count = cur.sum * base.count
  PROVE  drift!Feature(base, cur) = {}
  <1> DEFINE larger == base.count * cur.sum - cur.count * base.sum
             distance(x) == IF x < 0 THEN -x ELSE x
             scale == drift!Max({1000 * distance(base.sum), base.count})
  <1>1. base.sum \in Int /\ cur.sum \in Int /\ base.count \in Nat /\ cur.count \in Nat /\ cur.nan \in Nat
    BY DEF Counters
  <1>2. larger = 0
    BY <1>1
  <1>3. scale \in Nat
    <2> DEFINE x == 1000 * distance(base.sum)
    <2>1. x \in Nat
      BY <1>1
    <2> HIDE DEF x
    <2>2. \E m \in {x, base.count} : \A y \in {x, base.count} : m >= y
      BY <1>1, <2>1
    <2>3. drift!Max({x, base.count}) \in {x, base.count}
      BY <2>2 DEF drift!Max
    <2>4. QED
      BY <1>1, <2>1, <2>3 DEF x
  <1>4. ~(1000 * 100 * distance(larger) > FeatureShift * cur.count * scale)
    <2> DEFINE limit == FeatureShift * cur.count
    <2> HIDE DEF scale
    <2>1. limit \in Nat
      BY <1>1, DriftConstants
    <2> HIDE DEF limit
    <2>2. limit * scale \in Nat
      BY <1>3, <2>1
    <2>3. 1000 * 100 * distance(larger) = 0
      BY <1>2
    <2>4. QED
      BY <2>2, <2>3 DEF limit
  <1>5. drift!Feature(base, cur) \subseteq
          {f \in {"feature_nan"} : cur.nan > 0}
          \cup {f \in {"feature"} : 1000 * 100 * distance(larger) > FeatureShift * cur.count * scale}
    BY DEF drift!Feature
  <1>6. QED
    <2> HIDE DEF distance, larger, scale
    <2> QED BY <1>1, <1>4, <1>5

\* drift.py, compare: a window of the baseline's proportions, without a fault, is no
\* drift, whatever its size and the baseline's, for any kinds of search, bins and
\* thresholds; a percentile may differ only where the sizes do.
THEOREM SteadyIsNoDrift == Spec => []SteadyIsSilent
  <1>1. DriftInv => SteadyIsSilent
    <2> DEFINE b == baseline.rows
               w == current.rows
               allowed == {"sample", "bundle"}
                          \cup {f \in {"latency"} : drift!Total(b) # drift!Total(w)}
    <2> SUFFICES ASSUME DriftInv, stage = "notify", drift!SameProportions(b, w),
                        current.features.nan = 0,
                        baseline.features.sum * current.features.count
                          = current.features.sum * baseline.features.count,
                        \A k \in drift!Kinds : w[k] > 0 =>
                           Kind[k].ranked /\ \A leg \in drift!VectorLegs : ~drift!Failed(leg, Kind[k])
                 PROVE  findings \subseteq allowed
      BY DEF SteadyIsSilent, drift!SteadyIsSilent, drift!Compared
    <2>1. /\ findings = drift!Compare(baseline, current)
          /\ b \in Windows /\ w \in Windows
          /\ baseline.features \in Counters /\ current.features \in Counters
      BY DEF DriftInv, Summaries
    <2>2. drift!Feature(baseline.features, current.features) = {}
      BY <2>1, FeatureStable
    <2> DEFINE noResult == {k \in drift!Kinds : Kind[k].top = None}
               fallback == {k \in drift!Kinds : ~Kind[k].ranked}
               failed(leg) == {k \in drift!Kinds : drift!Failed(leg, Kind[k])}
    <2>3. CASE drift!Total(w) < MinSearches
      BY <2>1, <2>3 DEF drift!Compare
    <2>4. CASE ~(drift!Total(w) < MinSearches)
      <3>1. drift!Total(w) \in Nat /\ drift!Total(w) > 0 /\ drift!Total(b) > 0
        <4>1. drift!Total(b) > 0
          BY DEF drift!SameProportions
        <4>2. drift!Total(w) \in Nat
          <5> HIDE DEF w
          <5> QED BY <2>1, CountsTyped
        <4>3. QED
          BY <2>4, <4>1, <4>2, DriftConstants
      <3>2. ASSUME NEW P \in SUBSET drift!Kinds, NEW delta \in 0..99
            PROVE  ~drift!Exceeds(drift!CountOf(w, P), w, drift!CountOf(b, P), b, delta)
        <4> HIDE DEF b, w
        <4>1. /\ drift!CountOf(b, P) \in Nat /\ drift!CountOf(w, P) \in Nat
              /\ drift!CountOf(b, P) * drift!Total(w) = drift!CountOf(w, P) * drift!Total(b)
          BY <2>1, SameShares, CountsTyped
        <4>2. QED
          BY <2>1, <3>1, <4>1, NoExcess
      <3>3. ASSUME NEW P \in SUBSET drift!Kinds, \A k \in P : ~(w[k] > 0), NEW rate \in 0..99
            PROVE  ~(100 * drift!CountOf(w, P) > rate * drift!Total(w))
        <4>1. \A k \in P : w[k] = 0
          BY <2>1, <3>3 DEF Windows
        <4> HIDE DEF w
        <4>2. IsFiniteSet(P)
          BY DriftConstants, FS_Subset
        <4>3. drift!CountOf(w, P) = 0
          BY <2>1, <4>1, <4>2, ZeroSum, CountsTyped
        <4>4. rate * drift!Total(w) \in Nat
          BY <3>1
        <4>5. QED
          BY <4>3, <4>4
      <3>4. drift!ZeroResults(b, w) = {}
        <4>1. noResult \in SUBSET drift!Kinds
          OBVIOUS
        <4>2. ~drift!Exceeds(drift!CountOf(w, noResult), w, drift!CountOf(b, noResult), b, ZeroDelta)
          <5> HIDE DEF noResult, b, w
          <5> QED BY <3>2, <4>1, DriftConstants
        <4>3. QED
          <5> HIDE DEF b, w
          <5> QED BY <4>2 DEF drift!ZeroResults
      <3>5. drift!LegsFailed(b, w) = {}
        <4>1. ASSUME NEW leg \in drift!VectorLegs
              PROVE  ~(100 * drift!CountOf(w, failed(leg)) > LegRate * drift!Total(w))
          <5>1. failed(leg) \in SUBSET drift!Kinds /\ \A k \in failed(leg) : ~(w[k] > 0)
            OBVIOUS
          <5> HIDE DEF failed, w
          <5>2. QED
            BY <3>3, <5>1, DriftConstants
        <4>2. ~drift!Exceeds(drift!CountOf(w, failed("lexical")), w,
                             drift!CountOf(b, failed("lexical")), b, LexicalDelta)
          <5>1. failed("lexical") \in SUBSET drift!Kinds
            OBVIOUS
          <5> HIDE DEF failed, b, w
          <5>2. QED
            BY <3>2, <5>1, DriftConstants
        <4>3. QED
          <5> HIDE DEF b, w
          <5> QED BY <4>1, <4>2 DEF drift!LegsFailed
      <3>6. drift!Fallback(b, w) = {}
        <4>1. fallback \in SUBSET drift!Kinds /\ \A k \in fallback : ~(w[k] > 0)
          OBVIOUS
        <4>2. ~(100 * drift!CountOf(w, fallback) > RrfRate * drift!Total(w))
          <5> HIDE DEF fallback, w
          <5> QED BY <3>3, <4>1, DriftConstants
        <4>3. QED
          <5> HIDE DEF b, w
          <5> QED BY <4>2 DEF drift!Fallback
      <3>7. drift!Latency(b, w) \subseteq {f \in {"latency"} : drift!Total(b) # drift!Total(w)}
        <4>1. drift!Latency(b, w) \subseteq {"latency"}
          BY DEF drift!Latency
        <4> HIDE DEF b, w
        <4>2. drift!Total(b) = drift!Total(w) => drift!Latency(b, w) = {}
          BY <2>1, LatencyStable
        <4>3. QED
          BY <4>1, <4>2
      <3>8. drift!Distributions(b, w) = {}
        <4> HIDE DEF b, w
        <4> QED BY <2>1, <3>1, ScoresStable, SourcesStable DEF drift!Distributions
      <3>9. drift!Bundles(b, w) \subseteq {"bundle"}
        BY DEF drift!Bundles
      <3>10. findings = drift!ZeroResults(b, w) \cup drift!LegsFailed(b, w)
                        \cup drift!Fallback(b, w) \cup drift!Latency(b, w)
                        \cup drift!Distributions(b, w) \cup drift!Bundles(b, w)
                        \cup drift!Feature(baseline.features, current.features)
        BY <2>1, <2>4 DEF drift!Compare
      <3>11. QED
        <4> HIDE DEF b, w
        <4> QED BY <2>2, <3>4, <3>5, <3>6, <3>7, <3>8, <3>9, <3>10
    <2>5. QED
      BY <2>3, <2>4
  <1>2. QED
    BY <1>1, DriftInvariance, PTL

-----------------------------------------------------------------------------
(* Two rankings, one with two neighbours swapped.                          *)

\* Ranking s has episode i of r after episode i + 1, and all others where r has them.
Swapped(r, s, n, i) ==
  /\ n \in Nat /\ i \in 1..(n - 1)
  /\ DOMAIN r = 1..n /\ DOMAIN s = 1..n
  /\ s[i] = r[i + 1] /\ s[i + 1] = r[i]
  /\ \A j \in 1..n : j # i /\ j # i + 1 => s[j] = r[j]

Distinct(r) == \A i, j \in DOMAIN r : i # j => r[i] # r[j]

\* As many of R are among the first m, or one more.
LEMMA FoundBefore ==
  ASSUME NEW r, NEW s, NEW n, NEW i, Swapped(r, s, n, i), Distinct(r), NEW m \in 0..n,
         NEW R, IsFiniteSet(R), r[i] \in R => r[i + 1] \in R
  PROVE  Cardinality({r[j] : j \in 1..m} \cap R) <= Cardinality({s[j] : j \in 1..m} \cap R)
  <1> DEFINE before == {r[j] : j \in 1..m} \cap R
             after == {s[j] : j \in 1..m} \cap R
  <1>1. IsFiniteSet(before) /\ IsFiniteSet(after)
    BY FS_Intersection
  <1>2. i \in Int /\ n \in Int /\ m \in Int
    BY DEF Swapped
  <1>3. CASE m = i /\ r[i] \in R
    <2>1. r[i + 1] \notin before /\ r[i + 1] \in R /\ r[i] \in before
      BY <1>2, <1>3 DEF Swapped, Distinct
    <2>2. after = (before \ {r[i]}) \cup {r[i + 1]}
      <3>1. ASSUME NEW x \in after PROVE x \in (before \ {r[i]}) \cup {r[i + 1]}
        <4>1. PICK j \in 1..m : x = s[j]
          OBVIOUS
        <4>2. CASE j = i
          BY <4>1, <4>2 DEF Swapped
        <4>3. CASE j # i
          <5>1. j \in 1..n /\ i \in 1..n /\ s[j] = r[j]
            BY <1>2, <1>3, <4>3 DEF Swapped
          <5>2. r[j] # r[i]
            BY <4>3, <5>1 DEF Swapped, Distinct
          <5>3. QED
            BY <3>1, <4>1, <5>1, <5>2
        <4>4. QED
          BY <4>2, <4>3
      <3>2. ASSUME NEW x \in (before \ {r[i]}) \cup {r[i + 1]} PROVE x \in after
        <4>1. CASE x = r[i + 1]
          BY <1>2, <1>3, <2>1, <4>1 DEF Swapped
        <4>2. CASE x # r[i + 1]
          <5>1. PICK j \in 1..m : x = r[j]
            BY <3>2, <4>2
          <5>2. j # i /\ x \in R
            BY <3>2, <4>2, <5>1
          <5>3. s[j] = r[j]
            BY <1>2, <1>3, <5>2 DEF Swapped
          <5>4. QED
            BY <5>1, <5>2, <5>3
        <4>3. QED
          BY <4>1, <4>2
      <3>3. QED
        BY <3>1, <3>2
    <2> HIDE DEF before, after
    <2>3. /\ IsFiniteSet(before \ {r[i]})
          /\ Cardinality(before \ {r[i]}) = Cardinality(before) - 1
      BY <1>1, <2>1, FS_RemoveElement
    <2>4. Cardinality(after) = Cardinality(before \ {r[i]}) + 1
      BY <2>1, <2>2, <2>3, FS_AddElement
    <2>5. Cardinality(before) \in Nat
      BY <1>1, FS_CardinalityType
    <2>6. QED
      BY <2>3, <2>4, <2>5 DEF before, after
  <1>4. CASE ~(m = i /\ r[i] \in R)
    <2>1. ASSUME NEW x \in before PROVE x \in after
      <3>1. PICK j \in 1..m : x = r[j]
        OBVIOUS
      <3>2. x \in R
        OBVIOUS
      <3>3. CASE j = i
        BY <1>2, <1>4, <3>1, <3>2, <3>3 DEF Swapped
      <3>4. CASE j = i + 1
        BY <1>2, <3>1, <3>2, <3>4 DEF Swapped
      <3>5. CASE j # i /\ j # i + 1
        BY <1>2, <3>1, <3>2, <3>5 DEF Swapped
      <3>6. QED
        BY <3>3, <3>4, <3>5
    <2> HIDE DEF before, after
    <2>2. before \subseteq after
      BY <2>1
    <2>3. Cardinality(before) <= Cardinality(after)
      BY <1>1, <2>2, FS_Subset
    <2>4. QED
      BY <2>3 DEF before, after
  <1>5. QED
    BY <1>3, <1>4

\* The first of R comes no later.
LEMMA FirstBefore ==
  ASSUME NEW r, NEW s, NEW n, NEW i, Swapped(r, s, n, i),
         NEW R, r[i] \in R => r[i + 1] \in R,
         NEW a \in 1..n, r[a] \in R
  PROVE  \E b \in 1..n : s[b] \in R /\ b <= a
  <1>1. i \in 1..n /\ i + 1 \in 1..n
    BY DEF Swapped
  <1>2. CASE a = i \/ a = i + 1
    <2>1. s[i] \in R /\ i <= a /\ i \in 1..n
      BY <1>2 DEF Swapped
    <2>2. QED
      BY <2>1
  <1>3. CASE a # i /\ a # i + 1
    <2>1. s[a] \in R
      BY <1>3 DEF Swapped
    <2>2. QED
      BY <2>1
  <1>4. QED
    BY <1>2, <1>3

LEMMA QuotientsFall ==
  ASSUME NEW a \in Nat, NEW m \in Nat \ {0}, NEW n \in Nat \ {0}, m <= n
  PROVE  a \div n \in Nat /\ a \div m \in Nat /\ a \div n <= a \div m
  <1> DEFINE p == a \div m
             q == a \div n
  <1>1. p \in Nat /\ q \in Nat
    OBVIOUS
  <1>2. n * q <= a /\ a < m * (p + 1)
    <2>1. n * q <= a
      OBVIOUS
    <2>2. a < m * p + m
      OBVIOUS
    <2>3. m * (p + 1) = m * p + m
      BY <1>1
    <2>4. QED
      BY <2>1, <2>2, <2>3
  <1> HIDE DEF p, q
  <1>3. SUFFICES ASSUME p + 1 <= q PROVE FALSE
    BY <1>1 DEF p, q
  <1>4. m * (p + 1) <= m * q
    BY <1>1, <1>3
  <1>5. m * q <= n * q
    BY <1>1
  <1>6. m * (p + 1) \in Int /\ m * q \in Int /\ n * q \in Int
    BY <1>1
  <1>7. QED
    BY <1>2, <1>4, <1>5, <1>6

\* The discounted gain of the first m: a higher gain earlier counts for no less.
Discounted(a, b, n, i, m, weight, f, g) ==
  /\ Swapped(a, b, n, i) /\ m \in 0..n
  /\ \A j \in 1..n : a[j] \in Nat /\ b[j] \in Nat /\ weight[j] \in Nat
  /\ a[i] <= a[i + 1] /\ weight[i + 1] <= weight[i]
  /\ \A j \in 1..m : f[j] = a[j] * weight[j] /\ g[j] = b[j] * weight[j]

LEMMA GainBefore ==
  ASSUME NEW a, NEW b, NEW n, NEW i, NEW m, NEW weight, NEW f, NEW g,
         Discounted(a, b, n, i, m, weight, f, g)
  PROVE  Sum(f, 1..m) \in Nat /\ Sum(g, 1..m) \in Nat /\ Sum(f, 1..m) <= Sum(g, 1..m)
  <1> SUFFICES ASSUME Swapped(a, b, n, i), m \in 0..n,
                      \A j \in 1..n : a[j] \in Nat /\ b[j] \in Nat, a[i] <= a[i + 1],
                      \A j \in 1..n : weight[j] \in Nat, weight[i + 1] <= weight[i],
                      \A j \in 1..m : f[j] = a[j] * weight[j] /\ g[j] = b[j] * weight[j]
               PROVE  Sum(f, 1..m) \in Nat /\ Sum(g, 1..m) \in Nat /\ Sum(f, 1..m) <= Sum(g, 1..m)
    BY DEF Discounted
  <1>1. i \in Int /\ n \in Int /\ m \in Int /\ 1 <= i /\ i < n
    BY DEF Swapped
  <1>2. IsFiniteSet(1..m) /\ IsFiniteSet((1..m) \ {i}) /\ IsFiniteSet((1..m) \ {i, i + 1})
    <2>1. IsFiniteSet(1..m)
      BY <1>1, FS_Interval
    <2>2. (1..m) \ {i} \subseteq 1..m /\ (1..m) \ {i, i + 1} \subseteq 1..m
      OBVIOUS
    <2>3. QED
      BY <2>1, <2>2, FS_Subset
  <1>3. \A j \in 1..m : f[j] \in Nat /\ g[j] \in Nat
    BY <1>1
  <1>4. Sum(f, 1..m) \in Nat /\ Sum(g, 1..m) \in Nat
    BY <1>2, <1>3, SumTyped
  <1>5. \A j \in (1..m) \ {i, i + 1} : f[j] = g[j]
    BY <1>1 DEF Swapped
  <1>6. CASE m < i
    <2>1. ASSUME NEW j \in 1..m PROVE f[j] \in Int /\ f[j] = g[j]
      <3>1. j \in (1..m) \ {i, i + 1}
        BY <1>1, <1>6
      <3>2. f[j] \in Nat /\ f[j] = g[j]
        BY <1>3, <1>5, <3>1
      <3>3. QED
        BY <3>2
    <2> DEFINE first == 1..m
    <2>2. IsFiniteSet(first) /\ \A j \in first : f[j] \in Int /\ f[j] = g[j]
      BY <1>2, <2>1
    <2> HIDE DEF first
    <2>3. Sum(f, first) = Sum(g, first)
      BY <2>2, EqualSums
    <2>4. QED
      BY <1>4, <2>3 DEF first
  <1>7. CASE m = i
    <2>1. i \in 1..m /\ \A j \in (1..m) \ {i} : f[j] \in Int /\ f[j] = g[j]
      BY <1>1, <1>3, <1>5, <1>7
    <2>2. Sum(f, 1..m) = f[i] + Sum(f, (1..m) \ {i}) /\ Sum(g, 1..m) = g[i] + Sum(g, (1..m) \ {i})
      <3> DEFINE first == 1..m
      <3>1. /\ IsFiniteSet(first) /\ i \in first
            /\ \A j \in first : f[j] \in Int /\ g[j] \in Int
        BY <1>2, <1>3, <2>1
      <3> HIDE DEF first
      <3>2. /\ Sum(f, first) = f[i] + Sum(f, first \ {i})
            /\ Sum(g, first) = g[i] + Sum(g, first \ {i})
        BY <3>1, TakenOut
      <3>3. QED
        BY <3>2 DEF first
    <2>3. Sum(f, (1..m) \ {i}) = Sum(g, (1..m) \ {i}) /\ Sum(f, (1..m) \ {i}) \in Nat
      BY <1>2, <1>3, <2>1, EqualSums, SumTyped
    <2>4. f[i] <= g[i]
      <3>1. f[i] = a[i] * weight[i] /\ g[i] = a[i + 1] * weight[i]
        BY <2>1 DEF Swapped
      <3>2. a[i] \in Nat /\ a[i + 1] \in Nat /\ weight[i] \in Nat
        BY <1>1
      <3>3. QED
        BY <3>1, <3>2
    <2>5. f[i] \in Nat /\ g[i] \in Nat
      BY <1>3, <2>1
    <2>6. QED
      BY <1>4, <2>2, <2>3, <2>4, <2>5
  <1>8. CASE i < m
    <2> DEFINE rest == (1..m) \ {i, i + 1}
    <2>1. i \in 1..m /\ i + 1 \in (1..m) \ {i} /\ ((1..m) \ {i}) \ {i + 1} = rest
      BY <1>1, <1>8
    <2>2. \A j \in (1..m) \ {i} : f[j] \in Int /\ g[j] \in Int
      BY <1>3
    <2>3. Sum(f, 1..m) = f[i] + Sum(f, (1..m) \ {i}) /\ Sum(g, 1..m) = g[i] + Sum(g, (1..m) \ {i})
      <3> DEFINE first == 1..m
      <3>1. /\ IsFiniteSet(first) /\ i \in first
            /\ \A j \in first : f[j] \in Int /\ g[j] \in Int
        BY <1>2, <1>3, <2>1
      <3> HIDE DEF first
      <3>2. /\ Sum(f, first) = f[i] + Sum(f, first \ {i})
            /\ Sum(g, first) = g[i] + Sum(g, first \ {i})
        BY <3>1, TakenOut
      <3>3. QED
        BY <3>2 DEF first
    <2>4. Sum(f, (1..m) \ {i}) = f[i + 1] + Sum(f, rest) /\ Sum(g, (1..m) \ {i}) = g[i + 1] + Sum(g, rest)
      <3> DEFINE but == (1..m) \ {i}
                 next == i + 1
      <3>1. /\ IsFiniteSet(but) /\ next \in but /\ but \ {next} = rest
            /\ \A j \in but : f[j] \in Int /\ g[j] \in Int
        BY <1>2, <2>1, <2>2
      <3> HIDE DEF but, rest, next
      <3>2. /\ Sum(f, but) = f[next] + Sum(f, but \ {next})
            /\ Sum(g, but) = g[next] + Sum(g, but \ {next})
        BY <3>1, TakenOut
      <3>3. Sum(f, but) = f[next] + Sum(f, rest) /\ Sum(g, but) = g[next] + Sum(g, rest)
        BY <3>1, <3>2
      <3>4. QED
        BY <3>3 DEF but, next
    <2>5. Sum(f, rest) = Sum(g, rest) /\ Sum(f, rest) \in Nat
      <3>1. \A j \in rest : f[j] \in Nat /\ f[j] \in Int /\ f[j] = g[j]
        BY <1>3, <1>5
      <3> HIDE DEF rest
      <3>2. IsFiniteSet(rest)
        BY <1>2 DEF rest
      <3>3. QED
        BY <3>1, <3>2, EqualSums, SumTyped
    <2>6. f[i] + f[i + 1] <= g[i] + g[i + 1]
      <3> DEFINE x == a[i]
                 y == a[i + 1]
                 u == weight[i]
                 v == weight[i + 1]
      <3>1. x \in Nat /\ y \in Nat /\ u \in Nat /\ v \in Nat /\ x <= y /\ v <= u
        BY <1>1
      <3>2. f[i] = x * u /\ f[i + 1] = y * v /\ g[i] = y * u /\ g[i + 1] = x * v
        BY <2>1 DEF Swapped
      <3> HIDE DEF x, y, u, v
      <3>3. (y - x) * (u - v) >= 0
        BY <3>1
      <3>4. (y - x) * (u - v) = y * u - x * u - y * v + x * v
        BY <3>1
      <3>5. x * u \in Int /\ y * v \in Int /\ y * u \in Int /\ x * v \in Int
        BY <3>1
      <3>6. QED
        BY <3>2, <3>3, <3>4, <3>5
    <2>7. f[i] \in Nat /\ f[i + 1] \in Nat /\ g[i] \in Nat /\ g[i + 1] \in Nat
      BY <1>3, <2>1
    <2>8. Sum(f, 1..m) = f[i] + (f[i + 1] + Sum(f, rest)) /\ Sum(g, 1..m) = g[i] + (g[i + 1] + Sum(f, rest))
      BY <2>3, <2>4, <2>5
    <2> DEFINE old == Sum(f, 1..m)
               new == Sum(g, 1..m)
               same == Sum(f, rest)
    <2>9. /\ old \in Nat /\ new \in Nat /\ same \in Nat
          /\ old = f[i] + (f[i + 1] + same) /\ new = g[i] + (g[i + 1] + same)
      BY <1>4, <2>5, <2>8
    <2> HIDE DEF old, new, same, rest
    <2>10. old <= new
      BY <2>6, <2>7, <2>9
    <2>11. QED
      BY <1>4, <2>10 DEF old, new
  <1>9. QED
    BY <1>1, <1>6, <1>7, <1>8

\* The judged pairs of different grades, and those in order.
Pairs(r, n, grade) ==
  {p \in (1..n) \X (1..n) : /\ p[1] < p[2] /\ {r[p[1]], r[p[2]]} \subseteq DOMAIN grade
                            /\ grade[r[p[1]]] # grade[r[p[2]]]}
Ordered(r, n, grade) == {p \in Pairs(r, n, grade) : grade[r[p[1]]] > grade[r[p[2]]]}

\* No pair is lost when neighbours are swapped, nor one in order but theirs.
LEMMA PairsKept ==
  ASSUME NEW r, NEW s, NEW n, NEW i, Swapped(r, s, n, i), NEW grade
  PROVE  /\ Cardinality(Pairs(r, n, grade)) <= Cardinality(Pairs(s, n, grade))
         /\ <<i, i + 1>> \notin Ordered(r, n, grade) =>
              Cardinality(Ordered(r, n, grade)) <= Cardinality(Ordered(s, n, grade))
         /\ Cardinality(Pairs(r, n, grade)) \in Nat
         /\ Cardinality(Ordered(r, n, grade)) \in Nat
  <1> DEFINE to(j) == IF j = i THEN i + 1 ELSE IF j = i + 1 THEN i ELSE j
             move(p) == IF p = <<i, i + 1>> THEN p ELSE <<to(p[1]), to(p[2])>>
  <1>1. /\ i \in Int /\ n \in Nat /\ i \in 1..n /\ i + 1 \in 1..n
        /\ \A j \in 1..n : to(j) \in 1..n /\ s[to(j)] = r[j]
    BY DEF Swapped
  <1>2. ASSUME NEW p \in Pairs(r, n, grade)
        PROVE  /\ move(p) \in Pairs(s, n, grade)
               /\ p # <<i, i + 1>> /\ p \in Ordered(r, n, grade) => move(p) \in Ordered(s, n, grade)
    <2>1. p = <<p[1], p[2]>> /\ p[1] \in 1..n /\ p[2] \in 1..n /\ p[1] < p[2]
          /\ r[p[1]] \in DOMAIN grade /\ r[p[2]] \in DOMAIN grade /\ grade[r[p[1]]] # grade[r[p[2]]]
      BY DEF Pairs
    <2>2. CASE p = <<i, i + 1>>
      <3>1. s[i] = r[i + 1] /\ s[i + 1] = r[i]
        BY DEF Swapped
      <3>2. p \in Pairs(s, n, grade)
        BY <1>1, <2>1, <2>2, <3>1 DEF Pairs
      <3>3. QED
        BY <2>2, <3>2
    <2>3. CASE p # <<i, i + 1>>
      <3>1. ~(p[1] = i /\ p[2] = i + 1)
        BY <2>1, <2>3
      <3>2. to(p[1]) < to(p[2])
        BY <1>1, <2>1, <3>1
      <3> DEFINE q == <<to(p[1]), to(p[2])>>
      <3>3. q[1] = to(p[1]) /\ q[2] = to(p[2]) /\ move(p) = q
        BY <2>3
      <3>4. s[q[1]] = r[p[1]] /\ s[q[2]] = r[p[2]] /\ q[1] \in 1..n /\ q[2] \in 1..n
        BY <1>1, <2>1, <3>3
      <3>5. q \in Pairs(s, n, grade)
        <4>1. q \in (1..n) \X (1..n)
          BY <1>1, <2>1
        <4> HIDE DEF q, to, move
        <4>2. QED
          BY <2>1, <3>2, <3>3, <3>4, <4>1 DEF Pairs
      <3>6. p \in Ordered(r, n, grade) => q \in Ordered(s, n, grade)
        <4> HIDE DEF q, to, move
        <4> QED BY <3>4, <3>5 DEF Ordered
      <3>7. QED
        BY <3>3, <3>5, <3>6
    <2>4. QED
      BY <2>2, <2>3
  <1>3. ASSUME NEW p \in Pairs(r, n, grade), NEW q \in Pairs(r, n, grade), move(p) = move(q)
        PROVE  p = q
    <2>1. /\ p = <<p[1], p[2]>> /\ p[1] \in 1..n /\ p[2] \in 1..n /\ p[1] < p[2]
          /\ q = <<q[1], q[2]>> /\ q[1] \in 1..n /\ q[2] \in 1..n /\ q[1] < q[2]
      BY DEF Pairs
    <2>2. CASE p # <<i, i + 1>> /\ q # <<i, i + 1>>
      <3>1. to(p[1]) = to(q[1]) /\ to(p[2]) = to(q[2])
        BY <1>3, <2>2
      <3>2. p[1] = q[1] /\ p[2] = q[2]
        BY <1>1, <2>1, <3>1
      <3>3. QED
        BY <2>1, <3>2
    <2>3. CASE p = <<i, i + 1>> /\ q # <<i, i + 1>>
      <3>1. to(q[1]) = i /\ to(q[2]) = i + 1
        BY <1>3, <2>3
      <3>2. QED
        BY <1>1, <2>1, <3>1
    <2>4. CASE q = <<i, i + 1>> /\ p # <<i, i + 1>>
      <3>1. to(p[1]) = i /\ to(p[2]) = i + 1
        BY <1>3, <2>4
      <3>2. QED
        BY <1>1, <2>1, <3>1
    <2>5. QED
      BY <2>2, <2>3, <2>4
  <1>4. ASSUME NEW t
        PROVE  /\ IsFiniteSet(Pairs(t, n, grade)) /\ IsFiniteSet(Ordered(t, n, grade))
               /\ Cardinality(Pairs(t, n, grade)) \in Nat /\ Cardinality(Ordered(t, n, grade)) \in Nat
    <2>1. IsFiniteSet(1..n)
      BY <1>1, FS_Interval
    <2>2. IsFiniteSet((1..n) \X (1..n))
      BY <2>1, FS_Product
    <2>3. Pairs(t, n, grade) \subseteq (1..n) \X (1..n) /\ Ordered(t, n, grade) \subseteq Pairs(t, n, grade)
      BY DEF Pairs, Ordered
    <2>4. QED
      BY <2>2, <2>3, FS_Subset, FS_CardinalityType
  <1> HIDE DEF move
  <1>5. Cardinality(Pairs(r, n, grade)) <= Cardinality(Pairs(s, n, grade))
    <2> DEFINE f == [p \in Pairs(r, n, grade) |-> move(p)]
    <2>1. f \in Injection(Pairs(r, n, grade), Pairs(s, n, grade))
      BY <1>2, <1>3 DEF Injection, IsInjective
    <2>2. QED
      BY <1>4, <2>1, FS_Injection
  <1>6. ASSUME <<i, i + 1>> \notin Ordered(r, n, grade)
        PROVE  Cardinality(Ordered(r, n, grade)) <= Cardinality(Ordered(s, n, grade))
    <2> DEFINE f == [p \in Ordered(r, n, grade) |-> move(p)]
    <2>1. \A p \in Ordered(r, n, grade) : p \in Pairs(r, n, grade) /\ p # <<i, i + 1>>
      BY <1>6 DEF Ordered
    <2>2. f \in Injection(Ordered(r, n, grade), Ordered(s, n, grade))
      BY <1>2, <1>3, <2>1 DEF Injection, IsInjective
    <2>3. QED
      BY <1>4, <2>2, FS_Injection
  <1>7. QED
    BY <1>4, <1>5, <1>6

\* Function f has the precisions of r at its places in R among the first m, and g those of s.
Precisions(r, s, n, i, m, R, scale, A, B, f, g) ==
  /\ Swapped(r, s, n, i) /\ m \in 0..n /\ scale \in Nat
  /\ r[i] \in R => r[i + 1] \in R
  /\ A = {j \in 1..m : r[j] \in R} /\ B = {j \in 1..m : s[j] \in R}
  /\ \A j \in A : f[j] = Cardinality({l \in A : l <= j}) * (scale \div j)
  /\ \A j \in B : g[j] = Cardinality({l \in B : l <= j}) * (scale \div j)

\* They sum up to no less.
LEMMA PrecisionBefore ==
  ASSUME NEW r, NEW s, NEW n, NEW i, NEW m, NEW R, NEW scale, NEW A, NEW B, NEW f, NEW g,
         Precisions(r, s, n, i, m, R, scale, A, B, f, g)
  PROVE  Sum(f, A) \in Nat /\ Sum(g, B) \in Nat /\ Sum(f, A) <= Sum(g, B)
  <1> SUFFICES ASSUME Swapped(r, s, n, i), m \in 0..n, r[i] \in R => r[i + 1] \in R, scale \in Nat,
                      A = {j \in 1..m : r[j] \in R}, B = {j \in 1..m : s[j] \in R},
                      \A j \in A : f[j] = Cardinality({l \in A : l <= j}) * (scale \div j),
                      \A j \in B : g[j] = Cardinality({l \in B : l <= j}) * (scale \div j)
               PROVE  Sum(f, A) \in Nat /\ Sum(g, B) \in Nat /\ Sum(f, A) <= Sum(g, B)
    BY DEF Precisions
  <1>1. i \in Nat /\ n \in Nat /\ m \in Nat /\ 1 <= i /\ i < n /\ m <= n
    BY DEF Swapped
  <1>2. IsFiniteSet(1..m)
    BY <1>1, FS_Interval
  <1>3. ASSUME NEW T, T \subseteq 1..m
        PROVE  IsFiniteSet(T) /\ Cardinality(T) \in Nat
    BY <1>2, <1>3, FS_Subset, FS_CardinalityType
  <1>4. ASSUME NEW T, T \subseteq 1..m, NEW h,
               \A j \in T : h[j] = Cardinality({l \in T : l <= j}) * (scale \div j)
        PROVE  \A j \in T : h[j] \in Nat
    <2> SUFFICES ASSUME NEW j \in T PROVE h[j] \in Nat
      OBVIOUS
    <2> DEFINE c == Cardinality({l \in T : l <= j})
               d == scale \div j
    <2>1. c \in Nat
      <3>1. {l \in T : l <= j} \subseteq 1..m
        BY <1>4
      <3>2. QED
        BY <1>3, <3>1
    <2>2. d \in Nat
      <3>1. j \in Nat /\ j > 0
        BY <1>4
      <3>2. QED
        BY <3>1
    <2>3. h[j] = c * d
      BY <1>4
    <2> HIDE DEF c, d
    <2>4. QED
      BY <2>1, <2>2, <2>3
  <1>5. A \subseteq 1..m /\ B \subseteq 1..m
    OBVIOUS
  <1>6. /\ IsFiniteSet(A) /\ IsFiniteSet(B)
        /\ (\A j \in A : f[j] \in Nat) /\ (\A j \in B : g[j] \in Nat)
    BY <1>3, <1>4, <1>5
  <1>7. Sum(f, A) \in Nat /\ Sum(g, B) \in Nat
    BY <1>6, SumTyped
  <1>8. CASE m < i \/ (r[i] \in R <=> r[i + 1] \in R)
    <2>1. ASSUME NEW j \in 1..m PROVE j \in A <=> j \in B
      <3>1. CASE j = i \/ j = i + 1
        BY <1>1, <1>8, <3>1 DEF Swapped
      <3>2. CASE j # i /\ j # i + 1
        BY <1>1, <3>2 DEF Swapped
      <3>3. QED
        BY <3>1, <3>2
    <2>2. A = B
      BY <1>5, <2>1
    <2>3. ASSUME NEW j \in A PROVE f[j] \in Int /\ f[j] = g[j]
      <3>1. f[j] \in Nat /\ j \in B
        BY <1>6, <2>2
      <3>2. {l \in A : l <= j} = {l \in B : l <= j}
        BY <2>2
      <3>3. f[j] = Cardinality({l \in A : l <= j}) * (scale \div j)
        OBVIOUS
      <3>4. g[j] = Cardinality({l \in B : l <= j}) * (scale \div j)
        BY <3>1
      <3>5. QED
        BY <3>1, <3>2, <3>3, <3>4
    <2>4. Sum(f, A) = Sum(g, A)
      <3>1. \A j \in A : f[j] \in Int /\ f[j] = g[j]
        BY <2>3
      <3>2. QED
        BY <1>6, <3>1, EqualSums
    <2>5. Sum(f, A) = Sum(g, B)
      BY <2>2, <2>4, Zenon
    <2>6. QED
      BY <1>7, <2>5
  <1>9. CASE i <= m /\ r[i] \notin R /\ r[i + 1] \in R
    <2> DEFINE rest == A \ {i + 1}
               below(j) == {l \in rest : l <= j}
    <2>1. i \in B /\ i \notin A /\ i + 1 \notin B /\ (m > i => i + 1 \in A)
          /\ (m = i => i + 1 \notin A)
      BY <1>1, <1>9 DEF Swapped
    <2>2. rest = B \ {i}
      <3>1. ASSUME NEW j \in 1..m, j # i, j # i + 1 PROVE j \in A <=> j \in B
        BY <1>1, <3>1 DEF Swapped
      <3>2. QED
        BY <1>5, <2>1, <3>1
    <2>3. i \notin rest /\ i + 1 \notin rest /\ rest \subseteq 1..m
          /\ A \subseteq rest \cup {i + 1} /\ B = rest \cup {i}
      BY <1>5, <2>1, <2>2
    <2>4. ASSUME NEW j
          PROVE  /\ IsFiniteSet(below(j)) /\ Cardinality(below(j)) \in Nat
                 /\ Cardinality(below(j) \cup {i}) = Cardinality(below(j)) + 1
                 /\ Cardinality(below(j) \cup {i + 1}) = Cardinality(below(j)) + 1
      <3>1. below(j) \subseteq 1..m /\ i \notin below(j) /\ i + 1 \notin below(j)
        BY <2>3
      <3> HIDE DEF below
      <3>2. IsFiniteSet(below(j)) /\ Cardinality(below(j)) \in Nat
        BY <1>3, <3>1
      <3>3. QED
        BY <3>1, <3>2, FS_AddElement
    <2>5. ASSUME NEW j \in rest PROVE f[j] = g[j]
      <3>1. j \in Nat /\ j # i /\ j # i + 1 /\ j \in A /\ j \in B /\ j <= m
        BY <1>5, <2>3
      <3>2. CASE j < i
        <4>1. {l \in A : l <= j} = below(j) /\ {l \in B : l <= j} = below(j)
          BY <1>1, <2>3, <3>1, <3>2
        <4>2. QED
          BY <3>1, <4>1
      <3>3. CASE j > i + 1
        <4>1. {l \in A : l <= j} = below(j) \cup {i + 1}
          BY <1>1, <2>1, <2>3, <3>1, <3>3
        <4>2. {l \in B : l <= j} = below(j) \cup {i}
          BY <1>1, <2>3, <3>1, <3>3
        <4>3. Cardinality({l \in A : l <= j}) = Cardinality({l \in B : l <= j})
          <5> HIDE DEF below
          <5> QED BY <2>4, <4>1, <4>2
        <4>4. QED
          BY <3>1, <4>3
      <3>4. QED
        BY <1>1, <3>1, <3>2, <3>3
    <2>6. Sum(f, rest) = Sum(g, rest) /\ Sum(f, rest) \in Nat
      <3>1. IsFiniteSet(rest) /\ \A j \in rest : f[j] \in Nat /\ f[j] \in Int
        BY <1>3, <1>6, <2>3
      <3> HIDE DEF rest
      <3>2. QED
        BY <2>5, <3>1, EqualSums, SumTyped
    <2>7. Sum(g, B) = g[i] + Sum(g, rest) /\ g[i] \in Nat
      <3>1. \A j \in B : g[j] \in Int
        BY <1>6
      <3>2. QED
        BY <1>6, <2>1, <2>2, <3>1, TakenOut
    <2>8. CASE m = i
      <3>1. i + 1 \notin A
        BY <2>1, <2>8
      <3>2. rest = A
        BY <3>1
      <3> HIDE DEF rest
      <3>3. Sum(f, A) = Sum(g, rest)
        BY <2>6, <3>2, Zenon
      <3>4. QED
        BY <1>7, <2>7, <3>3
    <2>9. CASE m > i
      <3>1. Sum(f, A) = f[i + 1] + Sum(f, rest) /\ f[i + 1] \in Nat
        <4> DEFINE next == i + 1
        <4>1. next \in A /\ \A j \in A : f[j] \in Int /\ f[j] \in Nat
          BY <1>6, <2>1, <2>9
        <4> HIDE DEF next
        <4>2. Sum(f, A) = f[next] + Sum(f, A \ {next}) /\ f[next] \in Nat
          BY <1>6, <4>1, TakenOut
        <4>3. QED
          BY <4>2 DEF next
      <3>2. f[i + 1] <= g[i]
        <4> DEFINE c == Cardinality(below(i)) + 1
                   p == scale \div i
                   q == scale \div (i + 1)
        <4>1. {l \in A : l <= i + 1} = below(i) \cup {i + 1}
          BY <1>1, <1>5, <2>1, <2>3, <2>9
        <4>2. {l \in B : l <= i} = below(i) \cup {i}
          BY <1>1, <2>3
        <4>3. c \in Nat
          <5>1. Cardinality(below(i)) \in Nat
            BY <2>4
          <5> HIDE DEF below
          <5>2. QED
            BY <5>1
        <4>4. f[i + 1] = c * q
          <5>1. Cardinality({l \in A : l <= i + 1}) = c
            <6> HIDE DEF below
            <6> QED BY <2>4, <4>1
          <5>2. i + 1 \in A
            BY <2>1, <2>9
          <5> HIDE DEF c
          <5>3. QED
            BY <5>1, <5>2
        <4>5. g[i] = c * p
          <5>1. Cardinality({l \in B : l <= i}) = c
            <6> HIDE DEF below
            <6> QED BY <2>4, <4>2
          <5> HIDE DEF c
          <5>2. QED
            BY <2>1, <5>1
        <4>6. p \in Nat /\ q \in Nat /\ q <= p
          <5>1. i \in Nat \ {0} /\ i + 1 \in Nat \ {0} /\ i <= i + 1
            BY <1>1
          <5> DEFINE next == i + 1
          <5> HIDE DEF next
          <5>2. scale \div next \in Nat /\ scale \div i \in Nat /\ scale \div next <= scale \div i
            BY <5>1, QuotientsFall DEF next
          <5>3. QED
            BY <5>2 DEF next
        <4> HIDE DEF c, p, q
        <4>7. c * q <= c * p
          BY <4>3, <4>6
        <4>8. QED
          BY <4>4, <4>5, <4>7
      <3>3. QED
        BY <2>6, <2>7, <3>1, <3>2
    <2>10. QED
      BY <1>1, <1>9, <2>8, <2>9
  <1>10. QED
    BY <1>1, <1>8, <1>9

-----------------------------------------------------------------------------
(* The metrics (Metrics).                                                  *)

Positions == 1..Cardinality(Episodes)

\* Every place has an episode of its own, and judged are some of them.
MetricsInv ==
  part = "metrics" =>
    /\ ranked \in [Positions -> Episodes] /\ Distinct(ranked)
    /\ DOMAIN grades \subseteq Episodes /\ \A e \in DOMAIN grades : grades[e] \in Grades

LEMMA SameMetricCounts ==
  /\ \A S : metrics!Cardinality(S) = Cardinality(S)
  /\ \A S : metrics!IsFiniteSet(S) <=> IsFiniteSet(S)
  /\ \A f, S : metrics!SumFunctionOnSet(f, S) = Sum(f, S)
  <1>1. \A S : metrics!Cardinality(S) = Cardinality(S)
    BY Zenon DEF metrics!Cardinality, Cardinality
  <1>2. \A S : metrics!IsFiniteSet(S) <=> IsFiniteSet(S)
    BY Zenon DEF metrics!IsFiniteSet, IsFiniteSet
  <1>3. ASSUME NEW f, NEW S PROVE metrics!SumFunctionOnSet(f, S) = Sum(f, S)
    BY DEF Sum, metrics!SumFunctionOnSet, metrics!FoldFunctionOnSet, metrics!MapThenFoldSet,
           drift!SumFunctionOnSet, drift!FoldFunctionOnSet, drift!MapThenFoldSet
  <1>4. QED
    BY <1>1, <1>2, <1>3, Zenon

LEMMA MetricConstants ==
  /\ IsFiniteSet(Episodes) /\ Cardinality(Episodes) \in Nat
  /\ Grades \subseteq Nat /\ MinGrade \in Nat /\ Ks \subseteq Nat \ {0} /\ Scale \in Nat
  /\ \A i \in Positions : Weight[i] \in Nat /\ \A j \in 1..i : Weight[i] <= Weight[j]
  <1>1. metrics!MetricsAssumption
    BY ModelsAssumption
  <1>2. IsFiniteSet(Episodes)
    BY <1>1, SameMetricCounts DEF metrics!MetricsAssumption
  <1>3. Cardinality(Episodes) \in Nat
    BY <1>2, FS_CardinalityType
  <1>4. /\ Grades \subseteq Nat /\ MinGrade \in Nat /\ Ks \subseteq Nat \ {0} /\ Scale \in Nat
    BY <1>1 DEF metrics!MetricsAssumption
  <1>5. \A i \in Positions : Weight[i] \in Nat /\ \A j \in 1..i : Weight[i] <= Weight[j]
    BY <1>1, SameMetricCounts DEF metrics!MetricsAssumption, Positions
  <1>6. QED
    BY <1>2, <1>3, <1>4, <1>5

LEMMA PowersRise ==
  ASSUME NEW m \in Nat, NEW n \in Nat, m <= n
  PROVE  2 ^ m \in Nat \ {0} /\ 2 ^ m <= 2 ^ n
  <1>1. ASSUME NEW l \in Nat
        PROVE  /\ IsFiniteSet(SUBSET (1..l)) /\ Cardinality(SUBSET (1..l)) = 2 ^ l
               /\ Cardinality(SUBSET (1..l)) \in Nat \ {0}
    <2>1. IsFiniteSet(1..l) /\ Cardinality(1..l) = l
      BY FS_Interval
    <2>2. IsFiniteSet(SUBSET (1..l)) /\ Cardinality(SUBSET (1..l)) = 2 ^ l
      BY <2>1, FS_SUBSET
    <2>3. SUBSET (1..l) # {}
      OBVIOUS
    <2>4. QED
      BY <2>2, <2>3, FS_CardinalityType, FS_EmptySet
  <1>2. SUBSET (1..m) \subseteq SUBSET (1..n)
    <2>1. 1..m \subseteq 1..n
      OBVIOUS
    <2>2. QED
      BY <2>1
  <1>3. Cardinality(SUBSET (1..m)) <= Cardinality(SUBSET (1..n))
    BY <1>1, <1>2, FS_Subset
  <1>4. QED
    BY <1>1, <1>3

\* One lift, at i.
Lifted(i) ==
  /\ part = "metrics" /\ MetricsInv
  /\ ranked' \in [Positions -> Episodes] /\ Swapped(ranked, ranked', Cardinality(Episodes), i)
  /\ metrics!GradeOf(ranked[i]) < metrics!GradeOf(ranked[i + 1])
  /\ grades' = grades

LEMMA LiftIsOfOne ==
  ASSUME MetricsInv, part = "metrics", metrics!Lift
  PROVE  \E i \in Positions : Lifted(i)
  <1> DEFINE n == Cardinality(Episodes)
  <1>1. n \in Nat /\ ranked \in [1..n -> Episodes] /\ Len(ranked) = n
    <2>1. n \in Nat /\ ranked \in [1..n -> Episodes]
      BY MetricConstants DEF MetricsInv, Positions
    <2>2. QED
      BY <2>1, LenProperties, SeqDef
  <1>2. PICK i \in 1..(n - 1) :
             /\ metrics!GradeOf(ranked[i]) < metrics!GradeOf(ranked[i + 1])
             /\ ranked' = [ranked EXCEPT ![i] = ranked[i + 1], ![i + 1] = ranked[i]]
    BY <1>1 DEF metrics!Lift
  <1>3. i \in 1..n /\ i + 1 \in 1..n
    BY <1>1
  <1>4. ranked' \in [1..n -> Episodes]
    BY <1>1, <1>2, <1>3
  <1>5. Swapped(ranked, ranked', n, i)
    BY <1>1, <1>2, <1>3 DEF Swapped
  <1>6. grades' = grades
    BY DEF metrics!Lift
  <1>7. QED
    BY <1>2, <1>3, <1>4, <1>5, <1>6 DEF Lifted, Positions

\* What is relevant stays so, and a lift takes nothing relevant over what is not.
LEMMA RelevantRises ==
  ASSUME NEW i \in Positions, Lifted(i)
  PROVE  /\ metrics!Relevant' = metrics!Relevant /\ IsFiniteSet(metrics!Relevant)
         /\ Cardinality(metrics!Relevant) \in Nat
         /\ ranked[i] \in metrics!Relevant => ranked[i + 1] \in metrics!Relevant
  <1>1. metrics!Relevant' = metrics!Relevant
    BY DEF Lifted, metrics!Relevant
  <1>2. IsFiniteSet(metrics!Relevant) /\ Cardinality(metrics!Relevant) \in Nat
    <2>1. metrics!Relevant \subseteq Episodes
      BY DEF Lifted, MetricsInv, metrics!Relevant
    <2>2. QED
      BY <2>1, MetricConstants, FS_Subset, FS_CardinalityType
  <1>3. ASSUME ranked[i] \in metrics!Relevant PROVE ranked[i + 1] \in metrics!Relevant
    <2>1. /\ ranked[i] \in DOMAIN grades /\ grades[ranked[i]] >= MinGrade
          /\ \A e \in DOMAIN grades : grades[e] \in Nat
      BY <1>3, MetricConstants DEF Lifted, MetricsInv, metrics!Relevant
    <2>2. ranked[i + 1] \in DOMAIN grades /\ grades[ranked[i]] < grades[ranked[i + 1]]
      BY <2>1 DEF Lifted, metrics!GradeOf
    <2>3. QED
      BY <2>1, <2>2, MetricConstants DEF metrics!Relevant
  <1>4. QED
    BY <1>1, <1>2, <1>3

\* The first k of a ranking.
First(k) == metrics!Smaller(k, Cardinality(Episodes))

LEMMA TopIsFirst ==
  ASSUME NEW i \in Positions, Lifted(i), NEW k \in Nat
  PROVE  /\ First(k) \in 0..Cardinality(Episodes)
         /\ DOMAIN metrics!Top(k) = 1..First(k) /\ DOMAIN metrics!Top(k)' = 1..First(k)
         /\ \A j \in 1..First(k) : metrics!Top(k)[j] = ranked[j] /\ metrics!Top(k)'[j] = ranked'[j]
  <1> DEFINE n == Cardinality(Episodes)
  <1>1. n \in Nat /\ First(k) \in 0..n
    BY MetricConstants DEF First, metrics!Smaller
  <1>2. ASSUME NEW r \in [1..n -> Episodes]
        PROVE  LET top == SubSeq(r, 1, metrics!Smaller(k, Len(r)))
               IN  DOMAIN top = 1..First(k) /\ \A j \in 1..First(k) : top[j] = r[j]
    <2>1. Len(r) = n
      BY <1>1, LenProperties, SeqDef
    <2> DEFINE m == First(k)
               top == SubSeq(r, 1, m)
    <2>2. m \in Int /\ \A j \in 1..m : r[j] \in Episodes
      BY <1>1
    <2> HIDE DEF m
    <2>3. /\ top \in Seq(Episodes) /\ Len(top) = IF 1 <= m THEN m ELSE 0
          /\ \A j \in 1..m : top[j] = r[j]
      <3>1. /\ top \in Seq(Episodes) /\ Len(top) = IF 1 <= m THEN m - 1 + 1 ELSE 0
            /\ \A j \in 1..(m - 1 + 1) : top[j] = r[1 + j - 1]
        BY <2>2, SubSeqProperties
      <3>2. m - 1 + 1 = m /\ \A j \in 1..m : 1 + j - 1 = j
        BY <2>2
      <3>3. QED
        BY <3>1, <3>2
    <2>4. DOMAIN top = 1..m
      BY <1>1, <2>3, LenProperties DEF m
    <2>5. QED
      BY <2>1, <2>3, <2>4 DEF m, First
  <1>3. ranked \in [1..n -> Episodes] /\ ranked' \in [1..n -> Episodes]
    BY DEF Lifted, MetricsInv, Positions
  <1>4. QED
    BY <1>1, <1>2, <1>3 DEF metrics!Top

LEMMA HitsRise ==
  ASSUME NEW i \in Positions, Lifted(i), NEW k \in Nat
  PROVE  /\ metrics!Cardinality(metrics!Hits(k)) \in Nat /\ metrics!Cardinality(metrics!Hits(k)') \in Nat
         /\ metrics!Cardinality(metrics!Hits(k)) <= metrics!Cardinality(metrics!Hits(k)')
  <1> DEFINE n == Cardinality(Episodes)
             m == First(k)
             R == metrics!Relevant
  <1>1. metrics!Hits(k) = {ranked[j] : j \in 1..m} \cap R
    BY TopIsFirst DEF metrics!Hits, metrics!RangeOf
  <1>2. metrics!Hits(k)' = {ranked'[j] : j \in 1..m} \cap R
    BY TopIsFirst, RelevantRises DEF metrics!Hits, metrics!RangeOf
  <1>3. m \in 0..n /\ IsFiniteSet(R) /\ (ranked[i] \in R => ranked[i + 1] \in R)
    BY TopIsFirst, RelevantRises
  <1>4. Swapped(ranked, ranked', n, i) /\ Distinct(ranked)
    BY DEF Lifted, MetricsInv
  <1>5. Cardinality(metrics!Hits(k)) <= Cardinality(metrics!Hits(k)')
    <2> HIDE DEF m, n, R
    <2>1. QED
      BY <1>1, <1>2, <1>3, <1>4, FoundBefore
  <1>6. IsFiniteSet(metrics!Hits(k)) /\ IsFiniteSet(metrics!Hits(k)')
    BY <1>1, <1>2, <1>3, FS_Intersection
  <1>7. Cardinality(metrics!Hits(k)) \in Nat /\ Cardinality(metrics!Hits(k)') \in Nat
    BY <1>6, FS_CardinalityType
  <1>8. QED
    BY <1>5, <1>7, SameMetricCounts

LEMMA RecallRises ==
  ASSUME NEW i \in Positions, Lifted(i), NEW k \in Nat
  PROVE  metrics!AtMost(metrics!RecallAt(k), metrics!RecallAt(k)')
  <1> DEFINE c == metrics!Cardinality(metrics!Relevant)
             h == metrics!Cardinality(metrics!Hits(k))
             l == metrics!Cardinality(metrics!Hits(k)')
  <1>1. metrics!RecallAt(k) = <<h, c>> /\ metrics!RecallAt(k)' = <<l, c>>
    BY RelevantRises DEF metrics!RecallAt
  <1>2. c \in Nat /\ h \in Nat /\ l \in Nat /\ h <= l
    BY HitsRise, RelevantRises, SameMetricCounts
  <1> HIDE DEF c, h, l
  <1>3. h * c <= l * c
    BY <1>2
  <1>4. QED
    BY <1>1, <1>3 DEF metrics!AtMost

LEMMA PrecisionRises ==
  ASSUME NEW i \in Positions, Lifted(i), NEW k \in Nat
  PROVE  metrics!AtMost(metrics!PrecisionAt(k), metrics!PrecisionAt(k)')
  <1> DEFINE h == metrics!Cardinality(metrics!Hits(k))
             l == metrics!Cardinality(metrics!Hits(k)')
  <1>1. metrics!PrecisionAt(k) = <<h, k>> /\ metrics!PrecisionAt(k)' = <<l, k>>
    BY DEF metrics!PrecisionAt
  <1>2. h \in Nat /\ l \in Nat /\ h <= l
    BY HitsRise
  <1> HIDE DEF h, l
  <1>3. h * k <= l * k
    BY <1>2
  <1>4. QED
    BY <1>1, <1>3 DEF metrics!AtMost

LEMMA GainsTyped ==
  ASSUME NEW i \in Positions, Lifted(i)
  PROVE  /\ \A e : metrics!Gain(e) \in Nat /\ metrics!Gain(e)' = metrics!Gain(e)
         /\ metrics!Gain(ranked[i]) <= metrics!Gain(ranked[i + 1])
  <1>1. \A e \in DOMAIN grades : grades[e] \in Nat
    BY MetricConstants DEF Lifted, MetricsInv
  <1>2. ASSUME NEW e PROVE metrics!Gain(e) \in Nat
    <2>1. CASE e \in DOMAIN grades
      <3>1. 2 ^ grades[e] \in Nat \ {0} /\ metrics!Gain(e) = 2 ^ grades[e] - 1
        BY <1>1, <2>1, PowersRise DEF metrics!Gain
      <3>2. QED
        BY <3>1
    <2>2. CASE e \notin DOMAIN grades
      BY <2>2 DEF metrics!Gain
    <2>3. QED
      BY <2>1, <2>2
  <1>3. ASSUME NEW e PROVE metrics!Gain(e)' = metrics!Gain(e)
    BY DEF Lifted, metrics!Gain
  <1> DEFINE d == ranked[i]
             e == ranked[i + 1]
  <1>4. metrics!Gain(d) <= metrics!Gain(e)
    <2>1. metrics!GradeOf(d) < metrics!GradeOf(e)
      BY DEF Lifted
    <2> HIDE DEF d, e
    <2>2. e \in DOMAIN grades
      BY <1>1, <2>1 DEF metrics!GradeOf
    <2>3. CASE d \in DOMAIN grades
      <3>1. grades[d] \in Nat /\ grades[e] \in Nat /\ grades[d] <= grades[e]
        BY <1>1, <2>1, <2>2, <2>3 DEF metrics!GradeOf
      <3>2. 2 ^ grades[d] \in Nat /\ 2 ^ grades[e] \in Nat /\ 2 ^ grades[d] <= 2 ^ grades[e]
        BY <3>1, PowersRise
      <3>3. metrics!Gain(d) = 2 ^ grades[d] - 1 /\ metrics!Gain(e) = 2 ^ grades[e] - 1
        BY <2>2, <2>3 DEF metrics!Gain
      <3>4. QED
        BY <3>2, <3>3
    <2>4. CASE d \notin DOMAIN grades
      <3>1. metrics!Gain(d) = 0
        BY <2>4 DEF metrics!Gain
      <3>2. QED
        BY <1>2, <3>1
    <2>5. QED
      BY <2>3, <2>4
  <1>5. QED
    BY <1>2, <1>3, <1>4

\* The best a system could gain is a number that its answer does not change.
LEMMA IdealTyped ==
  ASSUME NEW i \in Positions, Lifted(i), NEW k \in Nat
  PROVE  metrics!IdealDCG(k) \in Nat /\ metrics!IdealDCG(k)' = metrics!IdealDCG(k)
  <1> DEFINE before(e) == {d \in DOMAIN grades : grades[d] > grades[e] \/ (grades[d] = grades[e] /\ d <= e)}
             place(e) == Cardinality(before(e))
             f == [e \in DOMAIN grades |-> metrics!Gain(e) * Weight[place(e)]]
             S == {e \in DOMAIN grades : place(e) <= k}
  <1>1. metrics!IdealDCG(k) = Sum(f, S)
    BY SameMetricCounts DEF metrics!IdealDCG
  <1>2. IsFiniteSet(DOMAIN grades) /\ IsFiniteSet(S) /\ DOMAIN grades \subseteq Episodes
    <2>1. DOMAIN grades \subseteq Episodes
      BY DEF Lifted, MetricsInv
    <2>2. QED
      BY <2>1, MetricConstants, FS_Subset
  <1>3. ASSUME NEW e \in DOMAIN grades PROVE place(e) \in Positions
    <2>1. before(e) \subseteq Episodes /\ e \in before(e)
      <3>1. e \in Nat /\ grades[e] \in Nat
        BY <1>2, MetricConstants, ModelsAssumption
           DEF Lifted, MetricsInv, metrics!MetricsAssumption
      <3>2. QED
        BY <1>2, <3>1
    <2> HIDE DEF before
    <2>2. /\ IsFiniteSet(before(e)) /\ Cardinality(before(e)) \in Nat
          /\ Cardinality(before(e)) <= Cardinality(Episodes)
      BY <2>1, MetricConstants, FS_Subset, FS_CardinalityType
    <2>3. Cardinality(before(e)) # 0
      BY <2>1, <2>2, FS_EmptySet
    <2>4. QED
      BY <2>2, <2>3, MetricConstants DEF Positions
  <1>4. ASSUME NEW e \in S PROVE f[e] \in Nat
    <2>1. e \in DOMAIN grades
      OBVIOUS
    <2>2. f[e] = metrics!Gain(e) * Weight[place(e)] /\ place(e) \in Positions
      BY <1>3, <2>1
    <2> DEFINE p == place(e)
    <2> HIDE DEF p, f
    <2>3. f[e] = metrics!Gain(e) * Weight[p] /\ Weight[p] \in Nat
      BY <2>2, MetricConstants DEF p
    <2>4. metrics!Gain(e) \in Nat
      BY GainsTyped
    <2>5. QED
      BY <2>3, <2>4
  <1>5. Sum(f, S) \in Nat
    <2> HIDE DEF f, S
    <2> QED BY <1>2, <1>4, SumTyped
  <1>6. metrics!IdealDCG(k)' = metrics!IdealDCG(k)
    BY DEF Lifted, metrics!IdealDCG, metrics!Gain
  <1>7. QED
    BY <1>1, <1>5, <1>6

LEMMA GainRises ==
  ASSUME NEW i \in Positions, Lifted(i), NEW k \in Nat
  PROVE  metrics!AtMost(metrics!NDCG(k), metrics!NDCG(k)')
  <1> DEFINE n == Cardinality(Episodes)
             m == First(k)
             f == [j \in 1..m |-> metrics!Gain(metrics!Top(k)[j]) * Weight[j]]
             g == [j \in 1..m |-> metrics!Gain(metrics!Top(k)'[j]) * Weight[j]]
             a == [j \in 1..n |-> metrics!Gain(ranked[j])]
             b == [j \in 1..n |-> metrics!Gain(ranked'[j])]
             ideal == metrics!IdealDCG(k)
  <1>1. metrics!DCG(metrics!Top(k)) = Sum(f, 1..m)
    BY TopIsFirst, SameMetricCounts DEF metrics!DCG
  <1>2. metrics!DCG(metrics!Top(k))' = Sum(g, 1..m)
    <2>1. grades' = grades /\ DOMAIN metrics!Top(k)' = 1..m
      BY TopIsFirst DEF Lifted
    <2>2. metrics!DCG(metrics!Top(k))' = metrics!SumFunctionOnSet(g, 1..m)
      <3> HIDE DEF m
      <3> QED BY <2>1 DEF metrics!DCG, metrics!Gain
    <2>3. QED
      BY <2>2, SameMetricCounts
  <1>3. Swapped(ranked, ranked', n, i) /\ m \in 0..n
    BY TopIsFirst DEF Lifted
  <1>4. n \in Nat /\ i \in 1..n /\ i + 1 \in 1..n /\ m <= n
    BY <1>3, MetricConstants DEF Swapped
  <1>5. Swapped(a, b, n, i)
    BY <1>3, <1>4 DEF Swapped
  <1>6. a[i] <= a[i + 1] /\ \A j \in 1..n : a[j] \in Nat /\ b[j] \in Nat
    BY <1>4, GainsTyped
  <1>7. Weight[i + 1] <= Weight[i] /\ \A j \in 1..n : Weight[j] \in Nat
    BY <1>4, MetricConstants DEF Positions
  <1>8. \A j \in 1..m : f[j] = a[j] * Weight[j] /\ g[j] = b[j] * Weight[j]
    BY <1>4, TopIsFirst
  <1>9. Sum(f, 1..m) \in Nat /\ Sum(g, 1..m) \in Nat /\ Sum(f, 1..m) <= Sum(g, 1..m)
    <2> HIDE DEF a, b, f, g, m, n
    <2>1. Discounted(a, b, n, i, m, Weight, f, g)
      BY <1>3, <1>5, <1>6, <1>7, <1>8 DEF Discounted
    <2>2. QED
      BY <2>1, GainBefore
  <1>10. ideal \in Nat /\ metrics!IdealDCG(k)' = ideal
    BY IdealTyped
  <1> DEFINE c == Sum(f, 1..m)
             d == Sum(g, 1..m)
  <1>11. /\ metrics!NDCG(k) = IF ideal = 0 THEN <<0, 1>> ELSE <<c, ideal>>
         /\ metrics!NDCG(k)' = IF ideal = 0 THEN <<0, 1>> ELSE <<d, ideal>>
    <2> HIDE DEF f, g, m
    <2> QED BY <1>1, <1>2, <1>10 DEF metrics!NDCG
  <1>12. c \in Nat /\ d \in Nat /\ c <= d
    BY <1>9
  <1> HIDE DEF c, d, ideal
  <1>13. c * ideal <= d * ideal
    BY <1>10, <1>12
  <1>14. QED
    BY <1>11, <1>13 DEF metrics!AtMost

LEMMA AveragePrecisionRises ==
  ASSUME NEW i \in Positions, Lifted(i), NEW k \in Nat
  PROVE  metrics!AtMost(metrics!AveragePrecisionAt(k), metrics!AveragePrecisionAt(k)')
  <1> DEFINE n == Cardinality(Episodes)
             m == First(k)
             R == metrics!Relevant
             A == {j \in 1..m : ranked[j] \in R}
             B == {j \in 1..m : ranked'[j] \in R}
             f == [j \in A |-> Cardinality({l \in A : l <= j}) * (Scale \div j)]
             g == [j \in B |-> Cardinality({l \in B : l <= j}) * (Scale \div j)]
             most == Scale * metrics!PossibleHits(k)
  <1>1. Swapped(ranked, ranked', n, i) /\ m \in 0..n /\ Scale \in Nat
        /\ (ranked[i] \in R => ranked[i + 1] \in R)
    BY TopIsFirst, RelevantRises, MetricConstants DEF Lifted
  <1>2. metrics!AveragePrecisionAt(k) = <<Sum(f, A), most>>
    <2>1. DOMAIN metrics!Top(k) = 1..m
      BY TopIsFirst
    <2> HIDE DEF m
    <2>2. metrics!AveragePrecisionAt(k) =
            <<metrics!SumFunctionOnSet([j \in A |-> metrics!Cardinality({l \in A : l <= j}) * (Scale \div j)], A), most>>
      BY <2>1 DEF metrics!AveragePrecisionAt
    <2>3. QED
      BY <2>2, SameMetricCounts
  <1>3. metrics!AveragePrecisionAt(k)' = <<Sum(g, B), most>>
    <2>1. DOMAIN metrics!Top(k)' = 1..m /\ R' = R
      BY TopIsFirst, RelevantRises
    <2>2. metrics!PossibleHits(k)' = metrics!PossibleHits(k)
      BY RelevantRises DEF metrics!PossibleHits
    <2> HIDE DEF m, R
    <2>3. metrics!AveragePrecisionAt(k)' =
            <<metrics!SumFunctionOnSet([j \in B |-> metrics!Cardinality({l \in B : l <= j}) * (Scale \div j)], B), most>>
      BY <2>1, <2>2 DEF metrics!AveragePrecisionAt, R
    <2>4. QED
      BY <2>3, SameMetricCounts
  <1> DEFINE c == Sum(f, A)
             d == Sum(g, B)
  <1>4. c \in Nat /\ d \in Nat /\ c <= d
    <2>1. /\ \A j \in A : f[j] = Cardinality({l \in A : l <= j}) * (Scale \div j)
          /\ \A j \in B : g[j] = Cardinality({l \in B : l <= j}) * (Scale \div j)
      OBVIOUS
    <2>2. Precisions(ranked, ranked', n, i, m, R, Scale, A, B, f, g)
      <3> HIDE DEF f, g, m, n, R
      <3> QED BY <1>1, <2>1 DEF Precisions
    <2> HIDE DEF f, g, m, n, R, A, B
    <2>3. QED
      BY <2>2, PrecisionBefore
  <1>5. most \in Nat
    <2>1. metrics!PossibleHits(k) \in Nat
      BY RelevantRises, SameMetricCounts DEF metrics!PossibleHits, metrics!Smaller
    <2> DEFINE p == metrics!PossibleHits(k)
    <2> HIDE DEF p
    <2>2. Scale * p \in Nat
      BY <1>1, <2>1 DEF p
    <2>3. QED
      BY <2>2 DEF p
  <1> HIDE DEF c, d, most
  <1>6. c * most <= d * most
    BY <1>4, <1>5
  <1>7. QED
    BY <1>2, <1>3, <1>6 DEF metrics!AtMost, c, d

\* The least of a set of numbers.
LEMMA LeastIs ==
  ASSUME NEW S \in SUBSET Nat, S # {}
  PROVE  metrics!Min(S) \in S /\ \A y \in S : metrics!Min(S) <= y
  <1>1. \E x \in S : \A y \in S : x <= y
    BY LeastOf
  <1>2. QED
    BY <1>1 DEF metrics!Min

LEMMA ReciprocalRankRises ==
  ASSUME NEW i \in Positions, Lifted(i)
  PROVE  metrics!AtMost(metrics!ReciprocalRank, metrics!ReciprocalRank')
  <1> DEFINE n == Cardinality(Episodes)
             R == metrics!Relevant
             A == {j \in 1..n : ranked[j] \in R}
             B == {j \in 1..n : ranked'[j] \in R}
             c == IF A = {} THEN 0 ELSE Scale \div metrics!Min(A)
             d == IF B = {} THEN 0 ELSE Scale \div metrics!Min(B)
  <1>1. Swapped(ranked, ranked', n, i) /\ Scale \in Nat /\ n \in Nat
        /\ (ranked[i] \in R => ranked[i + 1] \in R)
    BY RelevantRises, MetricConstants DEF Lifted
  <1>2. metrics!ReciprocalRank = <<c, Scale>>
    <2>1. DOMAIN ranked = 1..n
      BY <1>1 DEF Swapped
    <2> HIDE DEF n
    <2>2. QED
      BY <2>1 DEF metrics!ReciprocalRank
  <1>3. metrics!ReciprocalRank' = <<d, Scale>>
    <2>1. DOMAIN ranked' = 1..n /\ R' = R
      BY <1>1, RelevantRises DEF Swapped
    <2> HIDE DEF n, R
    <2>2. QED
      BY <2>1 DEF metrics!ReciprocalRank, R
  <1>4. c \in Nat /\ d \in Nat /\ c <= d
    <2>1. A \subseteq Nat \ {0} /\ B \subseteq Nat \ {0}
      BY <1>1
    <2>2. ASSUME NEW T \in SUBSET (Nat \ {0}), T # {}
          PROVE  metrics!Min(T) \in T /\ metrics!Min(T) \in Nat \ {0} /\ Scale \div metrics!Min(T) \in Nat
      <3>1. metrics!Min(T) \in T
        BY <2>2, LeastIs
      <3>2. metrics!Min(T) \in Nat \ {0}
        BY <3>1
      <3>3. QED
        BY <1>1, <3>1, <3>2, QuotientsFall
    <2>3. c \in Nat /\ d \in Nat
      <3> HIDE DEF A, B
      <3> QED BY <2>1, <2>2
    <2>4. CASE A = {}
      BY <2>3, <2>4
    <2>5. CASE A # {}
      <3> DEFINE first == metrics!Min(A)
      <3>1. first \in A
        <4> HIDE DEF A
        <4> QED BY <2>1, <2>2, <2>5
      <3>2. first \in 1..n /\ ranked[first] \in R
        BY <3>1
      <3> HIDE DEF first, R, n
      <3>3. PICK b \in 1..n : ranked'[b] \in R /\ b <= first
        BY <1>1, <3>2, FirstBefore
      <3>4. b \in B
        BY <3>3
      <3> HIDE DEF A, B
      <3>5. metrics!Min(B) <= b /\ metrics!Min(B) \in Nat \ {0}
        BY <2>1, <2>2, <3>4, LeastIs
      <3>6. b \in Nat /\ first \in Nat \ {0}
        BY <1>1, <3>2, <3>3
      <3>7. metrics!Min(B) <= first
        BY <3>3, <3>5, <3>6
      <3>8. Scale \div first <= Scale \div metrics!Min(B)
        BY <1>1, <3>5, <3>6, <3>7, QuotientsFall
      <3>9. QED
        BY <2>3, <2>5, <3>4, <3>8 DEF first
    <2>6. QED
      BY <2>4, <2>5
  <1> HIDE DEF c, d
  <1>5. c * Scale <= d * Scale
    BY <1>1, <1>4
  <1>6. QED
    BY <1>2, <1>3, <1>5 DEF metrics!AtMost

LEMMA PairwiseRises ==
  ASSUME NEW i \in Positions, Lifted(i)
  PROVE  metrics!AtMost(metrics!PairwiseAccuracy, metrics!PairwiseAccuracy')
  <1> DEFINE n == Cardinality(Episodes)
             a == Cardinality(Ordered(ranked, n, grades))
             b == Cardinality(Pairs(ranked, n, grades))
             c == Cardinality(Ordered(ranked', n, grades))
             d == Cardinality(Pairs(ranked', n, grades))
  <1>1. Swapped(ranked, ranked', n, i) /\ Swapped(ranked', ranked, n, i) /\ n \in Nat /\ i + 1 \in 1..n
    BY MetricConstants DEF Lifted, Swapped
  <1>2. metrics!PairwiseAccuracy = <<a, b>>
    <2>1. DOMAIN ranked = 1..n
      BY <1>1 DEF Swapped
    <2>2. metrics!PairwiseAccuracy =
            <<metrics!Cardinality(Ordered(ranked, n, grades)), metrics!Cardinality(Pairs(ranked, n, grades))>>
      <3> HIDE DEF n
      <3> QED BY <2>1 DEF metrics!PairwiseAccuracy, Ordered, Pairs
    <2>3. QED
      BY <2>2, SameMetricCounts
  <1>3. metrics!PairwiseAccuracy' = <<c, d>>
    <2>1. DOMAIN ranked' = 1..n /\ grades' = grades
      BY <1>1 DEF Swapped, Lifted
    <2>2. metrics!PairwiseAccuracy' =
            <<metrics!Cardinality(Ordered(ranked', n, grades)), metrics!Cardinality(Pairs(ranked', n, grades))>>
      <3> HIDE DEF n
      <3> QED BY <2>1 DEF metrics!PairwiseAccuracy, Ordered, Pairs
    <2>3. QED
      BY <2>2, SameMetricCounts
  <1>4. <<i, i + 1>> \notin Ordered(ranked, n, grades)
    <2>1. \A e \in DOMAIN grades : grades[e] \in Nat
      BY MetricConstants DEF Lifted, MetricsInv
    <2>2. SUFFICES ASSUME ranked[i] \in DOMAIN grades, ranked[i + 1] \in DOMAIN grades,
                          grades[ranked[i]] > grades[ranked[i + 1]]
                   PROVE  FALSE
      BY DEF Ordered, Pairs
    <2>3. QED
      BY <2>1, <2>2 DEF Lifted, metrics!GradeOf
  <1>5. a <= c /\ b <= d /\ d <= b /\ a \in Nat /\ b \in Nat /\ c \in Nat /\ d \in Nat
    <2> HIDE DEF n
    <2>1. a <= c /\ b <= d /\ a \in Nat /\ b \in Nat
      BY <1>1, <1>4, PairsKept
    <2>2. d <= b /\ d \in Nat /\ c \in Nat
      BY <1>1, PairsKept
    <2>3. QED
      BY <2>1, <2>2
  <1> HIDE DEF a, b, c, d
  <1>6. a * d <= c * b
    <2>1. b = d
      BY <1>5
    <2>2. a * b <= c * b
      BY <1>5
    <2>3. QED
      BY <2>1, <2>2
  <1>7. QED
    BY <1>2, <1>3, <1>6 DEF metrics!AtMost

LEMMA MetricsStep ==
  ASSUME MetricsInv, [Next]_vars
  PROVE  /\ MetricsInv'
         /\ <<ranked, grades>>' # <<ranked, grades>> => \E i \in Positions : Lifted(i)
  <1>1. CASE part = "metrics" /\ metrics!Lift /\ part' = part
    <2>1. PICK i \in Positions : Lifted(i)
      BY <1>1, LiftIsOfOne
    <2>2. Distinct(ranked')
      <3> DEFINE n == Cardinality(Episodes)
      <3>1. Swapped(ranked, ranked', n, i) /\ Distinct(ranked) /\ i + 1 \in 1..n /\ i \in 1..n
        BY <2>1 DEF Lifted, MetricsInv, Swapped
      <3> DEFINE from(j) == IF j = i THEN i + 1 ELSE IF j = i + 1 THEN i ELSE j
      <3>2. ASSUME NEW j \in 1..n PROVE from(j) \in 1..n /\ ranked'[j] = ranked[from(j)]
        BY <3>1 DEF Swapped
      <3>3. \A j, l \in 1..n : j # l => from(j) # from(l)
        BY <3>1
      <3> HIDE DEF n, from
      <3>4. QED
        BY <3>1, <3>2, <3>3 DEF Distinct, Swapped
    <2>3. QED
      BY <2>1, <2>2 DEF Lifted, MetricsInv
  <1>2. CASE part' = part /\ UNCHANGED <<ranked, grades>>
    BY <1>2 DEF MetricsInv
  <1>3. QED
    BY <1>1, <1>2 DEF Next, vars, metricVars, metrics!Next

\* The action of BetterIsNotLower.
NotLower ==
  ranked' # ranked =>
    /\ metrics!AtMost(metrics!ReciprocalRank, metrics!ReciprocalRank')
    /\ metrics!AtMost(metrics!PairwiseAccuracy, metrics!PairwiseAccuracy')
    /\ \A k \in Ks :
         /\ metrics!AtMost(metrics!RecallAt(k), metrics!RecallAt(k)')
         /\ metrics!AtMost(metrics!PrecisionAt(k), metrics!PrecisionAt(k)')
         /\ metrics!AtMost(metrics!NDCG(k), metrics!NDCG(k)')
         /\ metrics!AtMost(metrics!AveragePrecisionAt(k), metrics!AveragePrecisionAt(k)')

\* A system that ranks two episodes better is scored no lower, by recall,
\* precision, the reciprocal rank, NDCG, average precision and pairwise accuracy,
\* for any catalogue, judgements, grades, cuts and falling discounts.
THEOREM BetterScoresNoLower == Spec => BetterIsNotLower
  <1>1. Init => MetricsInv
    <2>1. ASSUME Init, part = "metrics" PROVE MetricsInv
      <3>1. metrics!Init
        BY <2>1 DEF Init
      <3>2. /\ ranked \in [Positions -> Episodes] /\ Distinct(ranked)
            /\ grades \in UNION {[judged -> Grades] : judged \in SUBSET Episodes}
        BY <3>1, SameMetricCounts DEF metrics!Init, Distinct, Positions
      <3>3. PICK judged \in SUBSET Episodes : grades \in [judged -> Grades]
        BY <3>2
      <3>4. QED
        BY <3>2, <3>3 DEF MetricsInv
    <2>2. QED
      BY <2>1 DEF MetricsInv
  <1>2. MetricsInv /\ [Next]_vars => MetricsInv'
    BY MetricsStep
  <1>3. MetricsInv /\ [Next]_vars => [NotLower]_(metrics!vars)
    <2> SUFFICES ASSUME MetricsInv, [Next]_vars, metrics!vars' # metrics!vars PROVE NotLower
      OBVIOUS
    <2>1. PICK i \in Positions : Lifted(i)
      BY MetricsStep DEF metrics!vars
    <2>2. /\ metrics!AtMost(metrics!ReciprocalRank, metrics!ReciprocalRank')
          /\ metrics!AtMost(metrics!PairwiseAccuracy, metrics!PairwiseAccuracy')
      BY <2>1, ReciprocalRankRises, PairwiseRises
    <2>3. ASSUME NEW k \in Ks
          PROVE  /\ metrics!AtMost(metrics!RecallAt(k), metrics!RecallAt(k)')
                 /\ metrics!AtMost(metrics!PrecisionAt(k), metrics!PrecisionAt(k)')
                 /\ metrics!AtMost(metrics!NDCG(k), metrics!NDCG(k)')
                 /\ metrics!AtMost(metrics!AveragePrecisionAt(k), metrics!AveragePrecisionAt(k)')
      <3>1. k \in Nat
        BY MetricConstants
      <3>2. QED
        BY <2>1, <3>1, RecallRises, PrecisionRises, GainRises, AveragePrecisionRises
    <2>4. QED
      BY <2>2, <2>3 DEF NotLower
  <1>4. QED
    BY <1>1, <1>2, <1>3, PTL DEF Spec, BetterIsNotLower, metrics!BetterIsNotLower, NotLower

=============================================================================
