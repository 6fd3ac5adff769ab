---------------------------- MODULE SearchProofs ----------------------------
(***************************************************************************)
(* Proofs about Search: for every set of requests, episodes and bundles,   *)
(* whatever the legs return, however often the model server changes its    *)
(* bundle and however many calls fail.                                     *)
(***************************************************************************)
EXTENDS Search, FiniteSetTheorems, SequenceTheorems, TLAPS

Fields == {"phase", "legs", "ranks", "vectors", "recorded", "cands", "ordering",
           "by", "scores", "results"}

\* Requests are records with these fields, and a leg map in each.
Shape ==
    /\ DOMAIN search = Searches
    /\ \A s \in Searches : /\ DOMAIN search[s] = Fields
                           /\ DOMAIN search[s].legs = Legs
                           /\ DOMAIN search[s].ranks = Legs

BundlesAreKnown == {served, info} \subseteq Bundles

\* No candidates before the evidence is read.
EmptyBefore ==
    \A s \in Searches :
       search[s].phase \in {"encoding", "giving up", "legs", "evidence"}
          => search[s].cands = {}

\* From the reranking to the answer, a ranked search has the scores of the
\* bundle the API knows: the API cannot change bundle and keep the request.
RankedByInfo ==
    \A s \in Searches :
       search[s].phase = "ordered" /\ search[s].ordering = "ranker" /\ search[s].cands # {}
          => search[s].by = info

Inv ==
    /\ BundlesAreKnown
    /\ Shape
    /\ NoLateLeg
    /\ EmptyBefore
    /\ RankedByInfo
    /\ ScoredAsRecorded

LEMMA InvInit == Init => Inv
  <1> SUFFICES ASSUME Init PROVE Inv
    OBVIOUS
  <1> USE DEF Init, Waiting
  <1>1. BundlesAreKnown
    BY DEF BundlesAreKnown
  <1>2. Shape
    BY DEF Shape, Fields
  <1>3. NoLateLeg
    BY DEF NoLateLeg, Running
  <1>4. EmptyBefore /\ RankedByInfo /\ ScoredAsRecorded
    BY DEF EmptyBefore, RankedByInfo, ScoredAsRecorded, At
  <1>5. QED
    BY <1>1, <1>2, <1>3, <1>4 DEF Inv

\* Scores that count are of the bundle the API knows.
LEMMA RerankOrders ==
    ASSUME NEW s, Rerank(s)
    PROVE  \E b \in {info, None} : \E f : OrderedBy(s, b, f)
  <1>1. CASE served = info
    <2>1. PICK f \in [search[s].cands -> Scores] : OrderedBy(s, served, f)
      BY <1>1 DEF Rerank
    <2>2. OrderedBy(s, info, f)
      BY <2>1, <1>1
    <2>3. QED BY <2>2
  <1>2. CASE served # info
    BY <1>2 DEF Rerank
  <1>3. QED BY <1>1, <1>2

\* The model server and the API run bundles.
LEMMA BundleStep == BundlesAreKnown /\ [Next]_vars => BundlesAreKnown'
  <1> SUFFICES ASSUME BundlesAreKnown, [Next]_vars PROVE BundlesAreKnown'
    OBVIOUS
  <1> USE DEF BundlesAreKnown, world
  <1>1. ASSUME NEW s \in Searches, Begin(s) PROVE BundlesAreKnown'
    <2>1. PICK x \in {"running", "skipped"} :
             search' = [search EXCEPT ![s] = [Waiting EXCEPT !.phase = "encoding",
                                                             !.legs["lexical"] = x]]
      BY <1>1 DEF Begin
    <2>2. UNCHANGED <<catalog, served, info>>
      BY <1>1 DEF Begin
    <2>3. QED BY <2>1, <2>2
  <1>2. ASSUME NEW s \in Searches, Encode(s) PROVE BundlesAreKnown'
    BY <1>2 DEF Encode, At, VectorLegs
  <1>3. ASSUME NEW s \in Searches, EncodeFails(s) PROVE BundlesAreKnown'
    BY <1>3 DEF EncodeFails, At
  <1>4. ASSUME NEW s \in Searches, GiveUp(s) PROVE BundlesAreKnown'
    BY <1>4 DEF GiveUp, At, Failed
  <1>5. ASSUME NEW s \in Searches, Join(s) PROVE BundlesAreKnown'
    BY <1>5 DEF Join, At
  <1>6. ASSUME NEW s \in Searches, NEW l \in Legs, LegReturns(s, l) PROVE BundlesAreKnown'
    <2>1. PICK r \in Rankings :
             search' = [search EXCEPT ![s].legs[l] = "ok", ![s].ranks[l] = r]
      BY <1>6 DEF LegReturns
    <2>2. UNCHANGED <<catalog, served, info>> /\ search[s].legs[l] = "running"
      BY <1>6 DEF LegReturns, Running
    <2>3. QED BY <2>1, <2>2
  <1>7. ASSUME NEW s \in Searches, NEW l \in Legs, LegBreaks(s, l) PROVE BundlesAreKnown'
    BY <1>7 DEF LegBreaks, Running
  <1>8. ASSUME NEW s \in Searches, ReadEvidence(s) PROVE BundlesAreKnown'
    BY <1>8 DEF ReadEvidence, At
  <1>9. ASSUME NEW s \in Searches, EvidenceFails(s) PROVE BundlesAreKnown'
    BY <1>9 DEF EvidenceFails, Failed
  <1>10. ASSUME NEW s \in Searches, CountShows(s) PROVE BundlesAreKnown'
    BY <1>10 DEF CountShows, At
  <1>11. ASSUME NEW s \in Searches, CountingBreaks(s) PROVE BundlesAreKnown'
    BY <1>11 DEF CountingBreaks, At, Failed
  <1>12. ASSUME NEW s \in Searches, Rerank(s) PROVE BundlesAreKnown'
    <2>1. PICK b \in {info, None} : \E f : OrderedBy(s, b, f)
      BY <1>12, RerankOrders
    <2>2. PICK f : OrderedBy(s, b, f)
      BY <2>1
    <2>3. UNCHANGED <<catalog, served, info>> /\ search[s].phase = "rerank"
      BY <1>12 DEF Rerank, At
    <2>4. QED BY <2>2, <2>3 DEF OrderedBy
  <1>13. ASSUME NEW s \in Searches, RerankFails(s) PROVE BundlesAreKnown'
    BY <1>13 DEF RerankFails, At, OrderedBy
  <1>14. ASSUME NEW s \in Searches, Serve(s) PROVE BundlesAreKnown'
    BY <1>14 DEF Serve, At
  <1>15. ASSUME NEW s \in Searches, ServeFails(s) PROVE BundlesAreKnown'
    BY <1>15 DEF ServeFails, At, Failed
  <1>16. ASSUME NEW e \in Episodes, DeleteEpisode(e) PROVE BundlesAreKnown'
    BY <1>16 DEF DeleteEpisode
  <1>17. ASSUME NEW b \in Bundles, Swap(b) PROVE BundlesAreKnown'
    BY <1>17 DEF Swap
  <1>18. ASSUME CountsExpire PROVE BundlesAreKnown'
    BY <1>18 DEF CountsExpire
  <1>19. ASSUME RestartApi PROVE BundlesAreKnown'
    BY <1>19 DEF RestartApi, Failed, Open
  <1>20. CASE UNCHANGED vars
    BY <1>20 DEF vars
  <1>21. QED
    BY <1>1, <1>2, <1>3, <1>4, <1>5, <1>6, <1>7, <1>8, <1>9, <1>10,
       <1>11, <1>12, <1>13, <1>14, <1>15, <1>16, <1>17, <1>18, <1>19,
       <1>20
    DEF Next, Step

\* Every step keeps the fields of the records.
LEMMA ShapeStep == Shape /\ [Next]_vars => Shape'
  <1> SUFFICES ASSUME Shape, [Next]_vars PROVE Shape'
    OBVIOUS
  <1> USE DEF Shape, Fields, Waiting, world
  <1>1. ASSUME NEW s \in Searches, Begin(s) PROVE Shape'
    <2>1. PICK x \in {"running", "skipped"} :
             search' = [search EXCEPT ![s] = [Waiting EXCEPT !.phase = "encoding",
                                                             !.legs["lexical"] = x]]
      BY <1>1 DEF Begin
    <2>2. UNCHANGED <<catalog, served, info>>
      BY <1>1 DEF Begin
    <2>3. QED BY <2>1, <2>2
  <1>2. ASSUME NEW s \in Searches, Encode(s) PROVE Shape'
    BY <1>2 DEF Encode, At, VectorLegs
  <1>3. ASSUME NEW s \in Searches, EncodeFails(s) PROVE Shape'
    BY <1>3 DEF EncodeFails, At
  <1>4. ASSUME NEW s \in Searches, GiveUp(s) PROVE Shape'
    BY <1>4 DEF GiveUp, At, Failed
  <1>5. ASSUME NEW s \in Searches, Join(s) PROVE Shape'
    BY <1>5 DEF Join, At
  <1>6. ASSUME NEW s \in Searches, NEW l \in Legs, LegReturns(s, l) PROVE Shape'
    <2>1. PICK r \in Rankings :
             search' = [search EXCEPT ![s].legs[l] = "ok", ![s].ranks[l] = r]
      BY <1>6 DEF LegReturns
    <2>2. UNCHANGED <<catalog, served, info>> /\ search[s].legs[l] = "running"
      BY <1>6 DEF LegReturns, Running
    <2>3. QED BY <2>1, <2>2
  <1>7. ASSUME NEW s \in Searches, NEW l \in Legs, LegBreaks(s, l) PROVE Shape'
    BY <1>7 DEF LegBreaks, Running
  <1>8. ASSUME NEW s \in Searches, ReadEvidence(s) PROVE Shape'
    BY <1>8 DEF ReadEvidence, At
  <1>9. ASSUME NEW s \in Searches, EvidenceFails(s) PROVE Shape'
    BY <1>9 DEF EvidenceFails, Failed
  <1>10. ASSUME NEW s \in Searches, CountShows(s) PROVE Shape'
    BY <1>10 DEF CountShows, At
  <1>11. ASSUME NEW s \in Searches, CountingBreaks(s) PROVE Shape'
    BY <1>11 DEF CountingBreaks, At, Failed
  <1>12. ASSUME NEW s \in Searches, Rerank(s) PROVE Shape'
    <2>1. PICK b \in {info, None} : \E f : OrderedBy(s, b, f)
      BY <1>12, RerankOrders
    <2>2. PICK f : OrderedBy(s, b, f)
      BY <2>1
    <2>3. UNCHANGED <<catalog, served, info>> /\ search[s].phase = "rerank"
      BY <1>12 DEF Rerank, At
    <2>4. QED BY <2>2, <2>3 DEF OrderedBy
  <1>13. ASSUME NEW s \in Searches, RerankFails(s) PROVE Shape'
    BY <1>13 DEF RerankFails, At, OrderedBy
  <1>14. ASSUME NEW s \in Searches, Serve(s) PROVE Shape'
    BY <1>14 DEF Serve, At
  <1>15. ASSUME NEW s \in Searches, ServeFails(s) PROVE Shape'
    BY <1>15 DEF ServeFails, At, Failed
  <1>16. ASSUME NEW e \in Episodes, DeleteEpisode(e) PROVE Shape'
    BY <1>16 DEF DeleteEpisode
  <1>17. ASSUME NEW b \in Bundles, Swap(b) PROVE Shape'
    BY <1>17 DEF Swap
  <1>18. ASSUME CountsExpire PROVE Shape'
    BY <1>18 DEF CountsExpire
  <1>19. ASSUME RestartApi PROVE Shape'
    BY <1>19 DEF RestartApi, Failed, Open
  <1>20. CASE UNCHANGED vars
    BY <1>20 DEF vars
  <1>21. QED
    BY <1>1, <1>2, <1>3, <1>4, <1>5, <1>6, <1>7, <1>8, <1>9, <1>10,
       <1>11, <1>12, <1>13, <1>14, <1>15, <1>16, <1>17, <1>18, <1>19,
       <1>20
    DEF Next, Step

\* No leg starts after Retrieve returned, and it returns when none runs.
LEMMA LegStep == Shape /\ NoLateLeg /\ [Next]_vars => NoLateLeg'
  <1> SUFFICES ASSUME Shape, NoLateLeg, [Next]_vars PROVE NoLateLeg'
    OBVIOUS
  <1> USE DEF Shape, Fields, Waiting, world, NoLateLeg, Running
  <1>1. ASSUME NEW s \in Searches, Begin(s) PROVE NoLateLeg'
    <2>1. PICK x \in {"running", "skipped"} :
             search' = [search EXCEPT ![s] = [Waiting EXCEPT !.phase = "encoding",
                                                             !.legs["lexical"] = x]]
      BY <1>1 DEF Begin
    <2>2. UNCHANGED <<catalog, served, info>>
      BY <1>1 DEF Begin
    <2>3. QED BY <2>1, <2>2
  <1>2. ASSUME NEW s \in Searches, Encode(s) PROVE NoLateLeg'
    BY <1>2 DEF Encode, At, VectorLegs
  <1>3. ASSUME NEW s \in Searches, EncodeFails(s) PROVE NoLateLeg'
    BY <1>3 DEF EncodeFails, At
  <1>4. ASSUME NEW s \in Searches, GiveUp(s) PROVE NoLateLeg'
    BY <1>4 DEF GiveUp, At, Failed
  <1>5. ASSUME NEW s \in Searches, Join(s) PROVE NoLateLeg'
    BY <1>5 DEF Join, At
  <1>6. ASSUME NEW s \in Searches, NEW l \in Legs, LegReturns(s, l) PROVE NoLateLeg'
    <2>1. PICK r \in Rankings :
             search' = [search EXCEPT ![s].legs[l] = "ok", ![s].ranks[l] = r]
      BY <1>6 DEF LegReturns
    <2>2. UNCHANGED <<catalog, served, info>> /\ search[s].legs[l] = "running"
      BY <1>6 DEF LegReturns, Running
    <2>3. QED BY <2>1, <2>2
  <1>7. ASSUME NEW s \in Searches, NEW l \in Legs, LegBreaks(s, l) PROVE NoLateLeg'
    BY <1>7 DEF LegBreaks, Running
  <1>8. ASSUME NEW s \in Searches, ReadEvidence(s) PROVE NoLateLeg'
    BY <1>8 DEF ReadEvidence, At
  <1>9. ASSUME NEW s \in Searches, EvidenceFails(s) PROVE NoLateLeg'
    BY <1>9 DEF EvidenceFails, Failed
  <1>10. ASSUME NEW s \in Searches, CountShows(s) PROVE NoLateLeg'
    BY <1>10 DEF CountShows, At
  <1>11. ASSUME NEW s \in Searches, CountingBreaks(s) PROVE NoLateLeg'
    BY <1>11 DEF CountingBreaks, At, Failed
  <1>12. ASSUME NEW s \in Searches, Rerank(s) PROVE NoLateLeg'
    <2>1. PICK b \in {info, None} : \E f : OrderedBy(s, b, f)
      BY <1>12, RerankOrders
    <2>2. PICK f : OrderedBy(s, b, f)
      BY <2>1
    <2>3. UNCHANGED <<catalog, served, info>> /\ search[s].phase = "rerank"
      BY <1>12 DEF Rerank, At
    <2>4. QED BY <2>2, <2>3 DEF OrderedBy
  <1>13. ASSUME NEW s \in Searches, RerankFails(s) PROVE NoLateLeg'
    BY <1>13 DEF RerankFails, At, OrderedBy
  <1>14. ASSUME NEW s \in Searches, Serve(s) PROVE NoLateLeg'
    BY <1>14 DEF Serve, At
  <1>15. ASSUME NEW s \in Searches, ServeFails(s) PROVE NoLateLeg'
    BY <1>15 DEF ServeFails, At, Failed
  <1>16. ASSUME NEW e \in Episodes, DeleteEpisode(e) PROVE NoLateLeg'
    BY <1>16 DEF DeleteEpisode
  <1>17. ASSUME NEW b \in Bundles, Swap(b) PROVE NoLateLeg'
    BY <1>17 DEF Swap
  <1>18. ASSUME CountsExpire PROVE NoLateLeg'
    BY <1>18 DEF CountsExpire
  <1>19. ASSUME RestartApi PROVE NoLateLeg'
    BY <1>19 DEF RestartApi, Failed, Open
  <1>20. CASE UNCHANGED vars
    BY <1>20 DEF vars
  <1>21. QED
    BY <1>1, <1>2, <1>3, <1>4, <1>5, <1>6, <1>7, <1>8, <1>9, <1>10,
       <1>11, <1>12, <1>13, <1>14, <1>15, <1>16, <1>17, <1>18, <1>19,
       <1>20
    DEF Next, Step

\* Candidates come with the evidence.
LEMMA EmptyStep == Shape /\ EmptyBefore /\ [Next]_vars => EmptyBefore'
  <1> SUFFICES ASSUME Shape, EmptyBefore, [Next]_vars PROVE EmptyBefore'
    OBVIOUS
  <1> USE DEF Shape, Fields, Waiting, world, EmptyBefore
  <1>1. ASSUME NEW s \in Searches, Begin(s) PROVE EmptyBefore'
    <2>1. PICK x \in {"running", "skipped"} :
             search' = [search EXCEPT ![s] = [Waiting EXCEPT !.phase = "encoding",
                                                             !.legs["lexical"] = x]]
      BY <1>1 DEF Begin
    <2>2. UNCHANGED <<catalog, served, info>>
      BY <1>1 DEF Begin
    <2>3. QED BY <2>1, <2>2
  <1>2. ASSUME NEW s \in Searches, Encode(s) PROVE EmptyBefore'
    BY <1>2 DEF Encode, At, VectorLegs
  <1>3. ASSUME NEW s \in Searches, EncodeFails(s) PROVE EmptyBefore'
    BY <1>3 DEF EncodeFails, At
  <1>4. ASSUME NEW s \in Searches, GiveUp(s) PROVE EmptyBefore'
    BY <1>4 DEF GiveUp, At, Failed
  <1>5. ASSUME NEW s \in Searches, Join(s) PROVE EmptyBefore'
    BY <1>5 DEF Join, At
  <1>6. ASSUME NEW s \in Searches, NEW l \in Legs, LegReturns(s, l) PROVE EmptyBefore'
    <2>1. PICK r \in Rankings :
             search' = [search EXCEPT ![s].legs[l] = "ok", ![s].ranks[l] = r]
      BY <1>6 DEF LegReturns
    <2>2. UNCHANGED <<catalog, served, info>> /\ search[s].legs[l] = "running"
      BY <1>6 DEF LegReturns, Running
    <2>3. QED BY <2>1, <2>2
  <1>7. ASSUME NEW s \in Searches, NEW l \in Legs, LegBreaks(s, l) PROVE EmptyBefore'
    BY <1>7 DEF LegBreaks, Running
  <1>8. ASSUME NEW s \in Searches, ReadEvidence(s) PROVE EmptyBefore'
    BY <1>8 DEF ReadEvidence, At
  <1>9. ASSUME NEW s \in Searches, EvidenceFails(s) PROVE EmptyBefore'
    BY <1>9 DEF EvidenceFails, Failed
  <1>10. ASSUME NEW s \in Searches, CountShows(s) PROVE EmptyBefore'
    BY <1>10 DEF CountShows, At
  <1>11. ASSUME NEW s \in Searches, CountingBreaks(s) PROVE EmptyBefore'
    BY <1>11 DEF CountingBreaks, At, Failed
  <1>12. ASSUME NEW s \in Searches, Rerank(s) PROVE EmptyBefore'
    <2>1. PICK b \in {info, None} : \E f : OrderedBy(s, b, f)
      BY <1>12, RerankOrders
    <2>2. PICK f : OrderedBy(s, b, f)
      BY <2>1
    <2>3. UNCHANGED <<catalog, served, info>> /\ search[s].phase = "rerank"
      BY <1>12 DEF Rerank, At
    <2>4. QED BY <2>2, <2>3 DEF OrderedBy
  <1>13. ASSUME NEW s \in Searches, RerankFails(s) PROVE EmptyBefore'
    BY <1>13 DEF RerankFails, At, OrderedBy
  <1>14. ASSUME NEW s \in Searches, Serve(s) PROVE EmptyBefore'
    BY <1>14 DEF Serve, At
  <1>15. ASSUME NEW s \in Searches, ServeFails(s) PROVE EmptyBefore'
    BY <1>15 DEF ServeFails, At, Failed
  <1>16. ASSUME NEW e \in Episodes, DeleteEpisode(e) PROVE EmptyBefore'
    BY <1>16 DEF DeleteEpisode
  <1>17. ASSUME NEW b \in Bundles, Swap(b) PROVE EmptyBefore'
    BY <1>17 DEF Swap
  <1>18. ASSUME CountsExpire PROVE EmptyBefore'
    BY <1>18 DEF CountsExpire
  <1>19. ASSUME RestartApi PROVE EmptyBefore'
    BY <1>19 DEF RestartApi, Failed, Open
  <1>20. CASE UNCHANGED vars
    BY <1>20 DEF vars
  <1>21. QED
    BY <1>1, <1>2, <1>3, <1>4, <1>5, <1>6, <1>7, <1>8, <1>9, <1>10,
       <1>11, <1>12, <1>13, <1>14, <1>15, <1>16, <1>17, <1>18, <1>19,
       <1>20
    DEF Next, Step

\* A request is ranked by the bundle the API knows, or not ranked.
LEMMA RankedStep == BundlesAreKnown /\ Shape /\ EmptyBefore /\ RankedByInfo /\ [Next]_vars => RankedByInfo'
  <1> SUFFICES ASSUME BundlesAreKnown, Shape, EmptyBefore, RankedByInfo, [Next]_vars PROVE RankedByInfo'
    OBVIOUS
  <1> USE SearchAssumption DEF BundlesAreKnown, Shape, Fields, Waiting, world, EmptyBefore, RankedByInfo
  <1>1. ASSUME NEW s \in Searches, Begin(s) PROVE RankedByInfo'
    <2>1. PICK x \in {"running", "skipped"} :
             search' = [search EXCEPT ![s] = [Waiting EXCEPT !.phase = "encoding",
                                                             !.legs["lexical"] = x]]
      BY <1>1 DEF Begin
    <2>2. UNCHANGED <<catalog, served, info>>
      BY <1>1 DEF Begin
    <2>3. QED BY <2>1, <2>2
  <1>2. ASSUME NEW s \in Searches, Encode(s) PROVE RankedByInfo'
    BY <1>2 DEF Encode, At, VectorLegs
  <1>3. ASSUME NEW s \in Searches, EncodeFails(s) PROVE RankedByInfo'
    BY <1>3 DEF EncodeFails, At
  <1>4. ASSUME NEW s \in Searches, GiveUp(s) PROVE RankedByInfo'
    BY <1>4 DEF GiveUp, At, Failed
  <1>5. ASSUME NEW s \in Searches, Join(s) PROVE RankedByInfo'
    BY <1>5 DEF Join, At
  <1>6. ASSUME NEW s \in Searches, NEW l \in Legs, LegReturns(s, l) PROVE RankedByInfo'
    <2>1. PICK r \in Rankings :
             search' = [search EXCEPT ![s].legs[l] = "ok", ![s].ranks[l] = r]
      BY <1>6 DEF LegReturns
    <2>2. UNCHANGED <<catalog, served, info>> /\ search[s].legs[l] = "running"
      BY <1>6 DEF LegReturns, Running
    <2>3. QED BY <2>1, <2>2
  <1>7. ASSUME NEW s \in Searches, NEW l \in Legs, LegBreaks(s, l) PROVE RankedByInfo'
    BY <1>7 DEF LegBreaks, Running
  <1>8. ASSUME NEW s \in Searches, ReadEvidence(s) PROVE RankedByInfo'
    BY <1>8 DEF ReadEvidence, At
  <1>9. ASSUME NEW s \in Searches, EvidenceFails(s) PROVE RankedByInfo'
    BY <1>9 DEF EvidenceFails, Failed
  <1>10. ASSUME NEW s \in Searches, CountShows(s) PROVE RankedByInfo'
    BY <1>10 DEF CountShows, At
  <1>11. ASSUME NEW s \in Searches, CountingBreaks(s) PROVE RankedByInfo'
    BY <1>11 DEF CountingBreaks, At, Failed
  <1>12. ASSUME NEW s \in Searches, Rerank(s) PROVE RankedByInfo'
    <2>1. PICK b \in {info, None} : \E f : OrderedBy(s, b, f)
      BY <1>12, RerankOrders
    <2>2. PICK f : OrderedBy(s, b, f)
      BY <2>1
    <2>3. UNCHANGED <<catalog, served, info>> /\ search[s].phase = "rerank"
      BY <1>12 DEF Rerank, At
    <2>4. QED BY <2>2, <2>3 DEF OrderedBy
  <1>13. ASSUME NEW s \in Searches, RerankFails(s) PROVE RankedByInfo'
    BY <1>13 DEF RerankFails, At, OrderedBy
  <1>14. ASSUME NEW s \in Searches, Serve(s) PROVE RankedByInfo'
    BY <1>14 DEF Serve, At
  <1>15. ASSUME NEW s \in Searches, ServeFails(s) PROVE RankedByInfo'
    BY <1>15 DEF ServeFails, At, Failed
  <1>16. ASSUME NEW e \in Episodes, DeleteEpisode(e) PROVE RankedByInfo'
    BY <1>16 DEF DeleteEpisode
  <1>17. ASSUME NEW b \in Bundles, Swap(b) PROVE RankedByInfo'
    BY <1>17 DEF Swap
  <1>18. ASSUME CountsExpire PROVE RankedByInfo'
    BY <1>18 DEF CountsExpire
  <1>19. ASSUME RestartApi PROVE RankedByInfo'
    BY <1>19 DEF RestartApi, Failed, Open
  <1>20. CASE UNCHANGED vars
    BY <1>20 DEF vars
  <1>21. QED
    BY <1>1, <1>2, <1>3, <1>4, <1>5, <1>6, <1>7, <1>8, <1>9, <1>10,
       <1>11, <1>12, <1>13, <1>14, <1>15, <1>16, <1>17, <1>18, <1>19,
       <1>20
    DEF Next, Step

\* The bundle recorded is the one the API knows when it serves.
LEMMA RecordedStep == BundlesAreKnown /\ Shape /\ RankedByInfo /\ ScoredAsRecorded /\ [Next]_vars => ScoredAsRecorded'
  <1> SUFFICES ASSUME BundlesAreKnown, Shape, RankedByInfo, ScoredAsRecorded, [Next]_vars PROVE ScoredAsRecorded'
    OBVIOUS
  <1> USE SearchAssumption DEF BundlesAreKnown, Shape, Fields, Waiting, world, RankedByInfo, ScoredAsRecorded, At
  <1>1. ASSUME NEW s \in Searches, Begin(s) PROVE ScoredAsRecorded'
    <2>1. PICK x \in {"running", "skipped"} :
             search' = [search EXCEPT ![s] = [Waiting EXCEPT !.phase = "encoding",
                                                             !.legs["lexical"] = x]]
      BY <1>1 DEF Begin
    <2>2. UNCHANGED <<catalog, served, info>>
      BY <1>1 DEF Begin
    <2>3. QED BY <2>1, <2>2
  <1>2. ASSUME NEW s \in Searches, Encode(s) PROVE ScoredAsRecorded'
    BY <1>2 DEF Encode, At, VectorLegs
  <1>3. ASSUME NEW s \in Searches, EncodeFails(s) PROVE ScoredAsRecorded'
    BY <1>3 DEF EncodeFails, At
  <1>4. ASSUME NEW s \in Searches, GiveUp(s) PROVE ScoredAsRecorded'
    BY <1>4 DEF GiveUp, At, Failed
  <1>5. ASSUME NEW s \in Searches, Join(s) PROVE ScoredAsRecorded'
    BY <1>5 DEF Join, At
  <1>6. ASSUME NEW s \in Searches, NEW l \in Legs, LegReturns(s, l) PROVE ScoredAsRecorded'
    <2>1. PICK r \in Rankings :
             search' = [search EXCEPT ![s].legs[l] = "ok", ![s].ranks[l] = r]
      BY <1>6 DEF LegReturns
    <2>2. UNCHANGED <<catalog, served, info>> /\ search[s].legs[l] = "running"
      BY <1>6 DEF LegReturns, Running
    <2>3. QED BY <2>1, <2>2
  <1>7. ASSUME NEW s \in Searches, NEW l \in Legs, LegBreaks(s, l) PROVE ScoredAsRecorded'
    BY <1>7 DEF LegBreaks, Running
  <1>8. ASSUME NEW s \in Searches, ReadEvidence(s) PROVE ScoredAsRecorded'
    BY <1>8 DEF ReadEvidence, At
  <1>9. ASSUME NEW s \in Searches, EvidenceFails(s) PROVE ScoredAsRecorded'
    BY <1>9 DEF EvidenceFails, Failed
  <1>10. ASSUME NEW s \in Searches, CountShows(s) PROVE ScoredAsRecorded'
    BY <1>10 DEF CountShows, At
  <1>11. ASSUME NEW s \in Searches, CountingBreaks(s) PROVE ScoredAsRecorded'
    BY <1>11 DEF CountingBreaks, At, Failed
  <1>12. ASSUME NEW s \in Searches, Rerank(s) PROVE ScoredAsRecorded'
    <2>1. PICK b \in {info, None} : \E f : OrderedBy(s, b, f)
      BY <1>12, RerankOrders
    <2>2. PICK f : OrderedBy(s, b, f)
      BY <2>1
    <2>3. UNCHANGED <<catalog, served, info>> /\ search[s].phase = "rerank"
      BY <1>12 DEF Rerank, At
    <2>4. QED BY <2>2, <2>3 DEF OrderedBy
  <1>13. ASSUME NEW s \in Searches, RerankFails(s) PROVE ScoredAsRecorded'
    BY <1>13 DEF RerankFails, At, OrderedBy
  <1>14. ASSUME NEW s \in Searches, Serve(s) PROVE ScoredAsRecorded'
    BY <1>14 DEF Serve, At
  <1>15. ASSUME NEW s \in Searches, ServeFails(s) PROVE ScoredAsRecorded'
    BY <1>15 DEF ServeFails, At, Failed
  <1>16. ASSUME NEW e \in Episodes, DeleteEpisode(e) PROVE ScoredAsRecorded'
    BY <1>16 DEF DeleteEpisode
  <1>17. ASSUME NEW b \in Bundles, Swap(b) PROVE ScoredAsRecorded'
    BY <1>17 DEF Swap
  <1>18. ASSUME CountsExpire PROVE ScoredAsRecorded'
    BY <1>18 DEF CountsExpire
  <1>19. ASSUME RestartApi PROVE ScoredAsRecorded'
    BY <1>19 DEF RestartApi, Failed, Open
  <1>20. CASE UNCHANGED vars
    BY <1>20 DEF vars
  <1>21. QED
    BY <1>1, <1>2, <1>3, <1>4, <1>5, <1>6, <1>7, <1>8, <1>9, <1>10,
       <1>11, <1>12, <1>13, <1>14, <1>15, <1>16, <1>17, <1>18, <1>19,
       <1>20
    DEF Next, Step

-----------------------------------------------------------------------------
(* The answer: where its episodes come from, and their order.              *)

\* Scores are numbers, and candidates a finite set of ids.
Scored(s) ==
    /\ search[s].cands \subseteq Nat /\ IsFiniteSet(search[s].cands)
    /\ search[s].scores \in [search[s].cands -> Int]

Ahead(s, e) == {d \in search[s].cands : Before(s, d, e)}

\* Before orders the candidates.
LEMMA BeforeIsOrder ==
    ASSUME NEW s, Scored(s)
    PROVE  /\ \A d \in search[s].cands : ~Before(s, d, d)
           /\ \A c, d, e \in search[s].cands : Before(s, c, d) /\ Before(s, d, e) => Before(s, c, e)
           /\ \A d, e \in search[s].cands : d # e => Before(s, d, e) \/ Before(s, e, d)
  <1> DEFINE C == search[s].cands
             sc == search[s].scores
  <1>1. C \subseteq Nat /\ \A e \in C : sc[e] \in Int
    BY DEF Scored
  <1>2. \A d, e : Before(s, d, e) <=> sc[d] > sc[e] \/ (sc[d] = sc[e] /\ d < e)
    BY DEF Before
  <1> HIDE DEF C, sc
  <1>3. \A d \in C : ~Before(s, d, d)
    BY <1>1, <1>2
  <1>4. \A c, d, e \in C : Before(s, c, d) /\ Before(s, d, e) => Before(s, c, e)
    BY <1>1, <1>2
  <1>5. \A d, e \in C : d # e => Before(s, d, e) \/ Before(s, e, d)
    BY <1>1, <1>2
  <1>6. QED
    BY <1>3, <1>4, <1>5 DEF C

\* The number of candidates ahead tells the candidates apart, in their order.
LEMMA AheadCounts ==
    ASSUME NEW s, Scored(s), NEW e \in search[s].cands
    PROVE  /\ Cardinality(Ahead(s, e)) \in 0 .. Cardinality(search[s].cands) - 1
           /\ \A d \in search[s].cands :
                 Before(s, d, e) <=> Cardinality(Ahead(s, d)) < Cardinality(Ahead(s, e))
           /\ \A d \in search[s].cands :
                 Cardinality(Ahead(s, d)) = Cardinality(Ahead(s, e)) => d = e
  <1> DEFINE C == search[s].cands
  <1>1. IsFiniteSet(C) /\ Cardinality(C) \in Nat
    BY FS_CardinalityType DEF Scored
  <1>2. \A d \in C : /\ Ahead(s, d) \in SUBSET C /\ d \notin Ahead(s, d)
                     /\ IsFiniteSet(Ahead(s, d)) /\ Cardinality(Ahead(s, d)) \in Nat
    <2> TAKE d \in C
    <2>1. Ahead(s, d) \in SUBSET C /\ d \notin Ahead(s, d)
      BY BeforeIsOrder DEF Ahead
    <2>2. QED
      BY <1>1, <2>1, FS_Subset, FS_CardinalityType
  <1>3. ASSUME NEW c \in C, NEW d \in C, Before(s, c, d)
        PROVE  Cardinality(Ahead(s, c)) < Cardinality(Ahead(s, d))
    <2>1. Ahead(s, c) \in SUBSET Ahead(s, d)
      BY <1>3, BeforeIsOrder DEF Ahead
    <2>2. c \in Ahead(s, d) /\ c \notin Ahead(s, c)
      BY <1>2, <1>3 DEF Ahead
    <2>3. /\ Cardinality(Ahead(s, c)) <= Cardinality(Ahead(s, d))
          /\ Cardinality(Ahead(s, c)) # Cardinality(Ahead(s, d))
      BY <2>1, <2>2, <1>2, FS_Subset
    <2>4. QED
      BY <2>3, <1>2
  <1>4. Cardinality(Ahead(s, e)) < Cardinality(C)
    <2>1. /\ Cardinality(Ahead(s, e)) <= Cardinality(C)
          /\ Cardinality(Ahead(s, e)) # Cardinality(C)
      BY <1>1, <1>2, FS_Subset
    <2>2. QED
      BY <2>1, <1>1, <1>2
  <1>5. \A d \in C : d # e => Before(s, d, e) \/ Before(s, e, d)
    BY BeforeIsOrder
  <1>6. ~Before(s, e, e)
    BY BeforeIsOrder
  <1>7. QED
    BY <1>1, <1>2, <1>3, <1>4, <1>5, <1>6

\* Every place of the list is somebody's.
LEMMA SortedPlaces ==
    ASSUME NEW s, Scored(s), NEW k \in 1 .. Cardinality(search[s].cands)
    PROVE  /\ Sorted(s)[k] \in search[s].cands
           /\ Cardinality(Ahead(s, Sorted(s)[k])) = k - 1
  <1> DEFINE C == search[s].cands
             n == Cardinality(C)
             f == [e \in C |-> Cardinality(Ahead(s, e)) + 1]
  <1>1. IsFiniteSet(C) /\ n \in Nat
    BY FS_CardinalityType DEF Scored
  <1>2. IsFiniteSet(1 .. n) /\ Cardinality(1 .. n) = n
    BY <1>1, FS_Interval
  <1>3. f \in Injection(C, 1 .. n)
    <2>1. \A e \in C : Cardinality(Ahead(s, e)) + 1 \in 1 .. n
      BY <1>1, AheadCounts
    <2>2. f \in [C -> 1 .. n]
      BY <2>1
    <2>3. ASSUME NEW d \in C, NEW e \in C, f[d] = f[e] PROVE d = e
      BY <2>3, AheadCounts
    <2>4. QED
      BY <2>2, <2>3 DEF Injection, IsInjective
  <1>4. f \in Surjection(C, 1 .. n)
    BY <1>1, <1>2, <1>3, FS_Injection
  <1>5. PICK e \in C : f[e] = k
    BY <1>4 DEF Surjection
  <1>6. e \in C /\ Cardinality(Ahead(s, e)) = k - 1
    BY <1>5, AheadCounts
  <1>7. Sorted(s)[k] = CHOOSE x \in C : Cardinality(Ahead(s, x)) = k - 1
    BY DEF Sorted, Ahead
  <1>8. QED
    BY <1>6, <1>7

\* The first m elements.
LEMMA Prefix ==
    ASSUME NEW S, NEW p \in Seq(S), NEW m \in 0 .. Len(p)
    PROVE  /\ SubSeq(p, 1, m) \in Seq(S)
           /\ Len(SubSeq(p, 1, m)) = m
           /\ \A k \in 1 .. m : SubSeq(p, 1, m)[k] = p[k]
  <1>1. m \in Int /\ \A i \in 1 .. m : p[i] \in S
    OBVIOUS
  <1>2. /\ SubSeq(p, 1, m) \in Seq(S)
        /\ Len(SubSeq(p, 1, m)) = IF 1 <= m THEN m - 1 + 1 ELSE 0
        /\ \A i \in 1 .. m - 1 + 1 : SubSeq(p, 1, m)[i] = p[1 + i - 1]
    BY <1>1, SubSeqProperties
  <1>3. QED
    BY <1>2

\* What Serve answers.
Best(s, q) ==
    /\ Len(q) = Min({MaxResults, Cardinality(search[s].cands)})
    /\ Range(q) \subseteq search[s].cands
    /\ \A j, k \in DOMAIN q : j < k => Before(s, q[j], q[k])
    /\ \A k \in DOMAIN q, e \in search[s].cands \ Range(q) : Before(s, q[k], e)

LEMMA AnswerIsBest ==
    ASSUME NEW s, Scored(s)
    PROVE  Best(s, Answer(s))
  <1> DEFINE C == search[s].cands
             n == Cardinality(C)
             p == Sorted(s)
             m == Min({Len(p), MaxResults})
             q == Answer(s)
  <1>1. IsFiniteSet(C) /\ n \in Nat
    BY FS_CardinalityType DEF Scored
  <1>2. \A k \in 1 .. n : p[k] \in C /\ Cardinality(Ahead(s, p[k])) = k - 1
    BY SortedPlaces
  <1>3. p \in [1 .. n -> C]
    <2>1. \A k \in 1 .. n : (CHOOSE e \in C : Cardinality({d \in C : Before(s, d, e)}) = k - 1) \in C
      BY <1>2 DEF Sorted
    <2>2. QED
      BY <2>1 DEF Sorted
  <1>4. q = SubSeq(p, 1, m)
    BY DEF Answer, Truncate
  <1>5. \A a, b \in Nat : /\ Min({a, b}) \in Nat /\ Min({a, b}) <= a /\ Min({a, b}) <= b
                          /\ Min({a, b}) = Min({b, a})
    <2> TAKE a, b \in Nat
    <2>1. {a, b} = {b, a} /\ \E x \in {a, b} : \A y \in {a, b} : x <= y
      OBVIOUS
    <2>2. Min({a, b}) \in {a, b} /\ \A y \in {a, b} : Min({a, b}) <= y
      BY <2>1 DEF Min
    <2>3. QED
      BY <2>1, <2>2
  <1>6. \A k \in 1 .. n, e \in C : Before(s, p[k], e) <=> k - 1 < Cardinality(Ahead(s, e))
    BY <1>2, AheadCounts
  <1>7. \A e \in C : \E k \in 1 .. n : p[k] = e
    <2> TAKE e \in C
    <2> DEFINE k == Cardinality(Ahead(s, e)) + 1
    <2>1. k \in 1 .. n /\ k - 1 = Cardinality(Ahead(s, e))
      BY <1>1, AheadCounts
    <2> HIDE DEF k
    <2>2. p[k] \in C /\ Cardinality(Ahead(s, p[k])) = Cardinality(Ahead(s, e))
      BY <1>2, <2>1
    <2>3. p[k] = e
      BY <2>2, AheadCounts
    <2>4. QED
      BY <2>1, <2>3
  <1>8. \A j, k \in 1 .. n : j < k => Before(s, p[j], p[k])
    BY <1>1, <1>2, <1>6
  <1>9. p \in Seq(C) /\ Len(p) = n
    <2> HIDE DEF C, n, p
    <2>1. p \in Seq(C)
      BY <1>1, <1>3, SeqDef
    <2>2. QED
      BY <1>1, <1>3, <2>1, LenProperties
  <1>10. m \in Nat /\ m <= n /\ m = Min({MaxResults, n})
    BY <1>1, <1>5, <1>9, SearchAssumption
  <1> HIDE DEF C, n, p, m, q
  <1>11. \A k \in 1 .. m : p[k] \in C
    BY <1>1, <1>2, <1>10
  <1>12. q \in Seq(C) /\ Len(q) = m /\ \A k \in 1 .. m : q[k] = p[k]
    <2>1. m \in 0 .. Len(p)
      BY <1>1, <1>9, <1>10
    <2>2. /\ SubSeq(p, 1, m) \in Seq(C)
          /\ Len(SubSeq(p, 1, m)) = m
          /\ \A k \in 1 .. m : SubSeq(p, 1, m)[k] = p[k]
      BY <2>1, <1>9, Prefix
    <2>3. QED
      BY <1>4, <2>2
  <1>13. DOMAIN q = 1 .. m
    BY <1>12, LenProperties
  <1>14. Range(q) \subseteq C
    BY <1>11, <1>12, <1>13 DEF Range
  <1>15. \A j, k \in 1 .. m : j < k => Before(s, q[j], q[k])
    <2> TAKE j, k \in 1 .. m
    <2>1. /\ j \in 1 .. n /\ q[j] = p[j]
          /\ k \in 1 .. n /\ q[k] = p[k]
      <3>1. \A i \in 1 .. m : i \in 1 .. n
        BY <1>1, <1>10
      <3>2. QED
        BY <3>1, <1>12, Zenon
    <2>2. j < k => Before(s, p[j], p[k])
      BY <1>8, <2>1
    <2>3. QED
      BY <2>1, <2>2
  <1>16. ASSUME NEW k \in 1 .. m, NEW e \in C \ Range(q) PROVE Before(s, q[k], e)
    <2>1. PICK i \in 1 .. n : p[i] = e
      BY <1>7
    <2>2. i \notin 1 .. m
      BY <2>1, <1>12, <1>13 DEF Range
    <2>3. k \in 1 .. n /\ k < i
      BY <2>2, <1>1, <1>10
    <2>4. Before(s, p[k], p[i]) /\ q[k] = p[k]
      BY <2>3, <1>8, <1>12
    <2>5. QED
      BY <2>1, <2>4
  <1>17. QED
    BY <1>10, <1>12, <1>13, <1>14, <1>15, <1>16 DEF Best, C, n, q

-----------------------------------------------------------------------------

\* Of a request: a leg that has not answered has found nothing and the vector
\* legs wait for the vectors; ...
Sourced(r) ==
    /\ \A l \in Legs : /\ r.ranks[l] \in Rankings
                       /\ r.legs[l] # "ok" => r.ranks[l] = <<>>
    /\ r.phase = "encoding" => \A l \in VectorLegs : r.legs[l] = "none"

\* ... a candidate was found by a leg, and what is ordered has its scores.
Kept(r) ==
    /\ \A e \in r.cands : e \in Episodes /\ \E l \in Legs : e \in Range(r.ranks[l])
    /\ IF r.phase \in {"ordered", "served"}
       THEN r.scores \in [r.cands -> Int]
       ELSE r.scores = [e \in {} |-> 0]

Accounted ==
    /\ catalog \subseteq Episodes
    /\ \A s \in Searches : Sourced(search[s]) /\ Kept(search[s])

BestIsServed == \A s \in Searches : At(s, "served") => Best(s, search[s].results)

\* A request that did not begin, and one that failed, has nothing.
LEMMA NothingYet == Sourced(Failed) /\ Kept(Failed) /\ Sourced(Waiting) /\ Kept(Waiting)
  BY SearchAssumption DEF Sourced, Kept, Failed, Waiting

\* Sums of shares are numbers.
LEMMA RrfScoresAreNumbers ==
    ASSUME Accounted, NEW s \in Searches
    PROVE  RrfScores(s) \in [search[s].cands -> Int]
  <1>1. ASSUME NEW k \in Rankings, NEW e PROVE Share(k, e) \in Int
    <2>1. CASE e \in Range(k)
      <3>1. k \in Seq(Episodes)
        BY SearchAssumption
      <3>2. DOMAIN k \subseteq Nat /\ \E i \in DOMAIN k : k[i] = e
        BY <2>1, <3>1 DEF Range
      <3>3. RankIn(k, e) \in Nat
        BY <3>2 DEF RankIn
      <3>4. QED
        BY <3>3, SearchAssumption DEF Share
    <2>2. CASE e \notin Range(k)
      BY <2>2 DEF Share
    <2>3. QED
      BY <2>1, <2>2
  <1>2. {"lexical", "e5", "two_tower"} \subseteq Legs /\ \A l \in Legs : search[s].ranks[l] \in Rankings
    BY DEF Accounted, Sourced, Legs, VectorLegs
  <1>3. \A e : Rrf(search[s].ranks, e) \in Int
    BY <1>1, <1>2 DEF Rrf
  <1>4. QED
    BY <1>3 DEF RrfScores

\* A step of a request changes no other, and leaves it accounted for.
LEMMA AccountedStep ==
    ASSUME Shape, NoLateLeg, EmptyBefore, Accounted, NEW s \in Searches, Step(s)
    PROVE  Accounted'
  <1> DEFINE r == search[s]
             q == search'[s]
  <1>1. /\ DOMAIN r = Fields /\ DOMAIN r.legs = Legs /\ DOMAIN r.ranks = Legs
        /\ Sourced(r) /\ Kept(r)
        /\ r.phase \notin {"encoding", "giving up", "legs"} => \A l \in Legs : r.legs[l] # "running"
        /\ r.phase \in {"encoding", "giving up", "legs", "evidence"} => r.cands = {}
    BY DEF Shape, Accounted, NoLateLeg, EmptyBefore, Running
  <1>2. SUFFICES /\ UNCHANGED catalog
                 /\ \E x : search' = [search EXCEPT ![s] = x]
                 /\ Sourced(q) /\ Kept(q)
    BY DEF Accounted, Shape
  <1>3. ASSUME NEW x, search' = [search EXCEPT ![s] = x] PROVE q = x
    BY <1>3 DEF Shape
  <1>4. CASE Begin(s)
    <2>1. PICK x \in {"running", "skipped"} :
             search' = [search EXCEPT ![s] = [Waiting EXCEPT !.phase = "encoding",
                                                             !.legs["lexical"] = x]]
      BY <1>4 DEF Begin
    <2>2. q = [Waiting EXCEPT !.phase = "encoding", !.legs["lexical"] = x]
      BY <2>1, <1>3
    <2> HIDE DEF q
    <2>3. Sourced(q) /\ Kept(q)
      BY <2>2, SearchAssumption DEF Sourced, Kept, Waiting, Legs, VectorLegs
    <2>4. QED
      BY <2>1, <2>3, <1>4 DEF Begin, world
  <1>5. CASE Encode(s)
    <2>1. /\ r.phase = "encoding"
          /\ q = [r EXCEPT !.phase = "legs", !.vectors = served,
                    !.legs = [l \in Legs |-> IF l \in VectorLegs THEN "running" ELSE r.legs[l]]]
      BY <1>3, <1>5 DEF Encode, At, Shape
    <2> HIDE DEF q, r
    <2>2. Sourced(q)
      BY <1>1, <2>1 DEF Sourced, Fields
    <2>3. Kept(q)
      BY <1>1, <2>1 DEF Kept, Fields
    <2>4. QED
      BY <2>2, <2>3, <1>5 DEF Encode, world
  <1>6. CASE \E l \in Legs : LegReturns(s, l) \/ LegBreaks(s, l)
    <2>1. PICK l \in Legs : LegReturns(s, l) \/ LegBreaks(s, l)
      BY <1>6
    <2>2. r.legs[l] = "running" /\ r.cands = {} /\ r.ranks[l] = <<>> /\ r.phase \notin {"ordered", "served"}
      BY <1>1, <2>1 DEF LegReturns, LegBreaks, Running, Sourced
    <2>3. CASE LegReturns(s, l)
      <3>1. PICK k \in Rankings : search' = [search EXCEPT ![s].legs[l] = "ok", ![s].ranks[l] = k]
        BY <2>3 DEF LegReturns
      <3>2. /\ q = [r EXCEPT !.legs[l] = "ok", !.ranks[l] = k]
            /\ search' = [search EXCEPT ![s] = q]
            /\ UNCHANGED catalog
        BY <3>1, <2>3 DEF Shape, LegReturns, world
      <3> HIDE DEF q, r
      <3>3. /\ q.legs = [r.legs EXCEPT ![l] = "ok"] /\ q.ranks = [r.ranks EXCEPT ![l] = k]
            /\ q.phase = r.phase /\ q.cands = {} /\ q.scores = [e \in {} |-> 0]
        BY <1>1, <2>2, <3>2 DEF Fields, Kept
      <3>4. Sourced(q)
        BY <1>1, <2>2, <3>3 DEF Sourced, Legs
      <3>5. Kept(q)
        BY <1>1, <2>2, <3>3 DEF Kept
      <3>6. QED
        BY <3>2, <3>4, <3>5
    <2>4. CASE LegBreaks(s, l)
      <3>1. q = [r EXCEPT !.legs[l] = "broken"]
        BY <2>4 DEF LegBreaks, Shape
      <3> HIDE DEF q, r
      <3>2. /\ q.legs = [r.legs EXCEPT ![l] = "broken"] /\ q.ranks = r.ranks
            /\ q.phase = r.phase /\ q.cands = r.cands /\ q.scores = r.scores
        BY <1>1, <3>1 DEF Fields
      <3>3. Sourced(q)
        BY <1>1, <2>2, <3>2 DEF Sourced, Legs
      <3>4. Kept(q)
        BY <1>1, <3>2 DEF Kept
      <3>5. QED
        BY <3>3, <3>4, <2>4 DEF LegBreaks, world
    <2>5. QED
      BY <2>1, <2>3, <2>4
  <1>7. CASE GiveUp(s) \/ EvidenceFails(s) \/ CountingBreaks(s) \/ ServeFails(s)
    <2>1. q = Failed
      BY <1>3, <1>7 DEF GiveUp, EvidenceFails, CountingBreaks, ServeFails
    <2>2. QED
      BY <2>1, <1>7, NothingYet DEF GiveUp, EvidenceFails, CountingBreaks, ServeFails, world
  <1>8. CASE EncodeFails(s) \/ Join(s)
    <2>1. /\ r.phase \in {"encoding", "legs"}
          /\ \E p \in {"giving up", "ordered", "evidence"} : q = [r EXCEPT !.phase = p]
      BY <1>3, <1>8 DEF EncodeFails, Join, At
    <2> HIDE DEF q, r
    <2>2. /\ q.legs = r.legs /\ q.ranks = r.ranks /\ q.cands = {} /\ q.scores = [e \in {} |-> 0]
          /\ q.phase \in {"giving up", "ordered", "evidence"}
      BY <1>1, <2>1 DEF Fields, Kept
    <2>3. Sourced(q)
      BY <1>1, <2>2 DEF Sourced
    <2>4. Kept(q)
      BY <1>1, <2>2 DEF Kept
    <2>5. QED
      BY <2>3, <2>4, <1>8 DEF EncodeFails, Join, world
  <1>9. CASE ReadEvidence(s)
    <2>1. r.phase = "evidence" /\ q = [r EXCEPT !.phase = "counts", !.cands = Found(s) \cap catalog]
      BY <1>9 DEF ReadEvidence, At, Shape
    <2>2. \A e \in Found(s) \cap catalog : e \in Episodes /\ \E l \in Legs : e \in Range(r.ranks[l])
      BY DEF Found, Accounted
    <2> HIDE DEF q, r
    <2>3. Sourced(q)
      BY <1>1, <2>1 DEF Sourced, Fields
    <2>4. Kept(q)
      BY <1>1, <2>1, <2>2 DEF Kept, Fields
    <2>5. QED
      BY <2>3, <2>4, <1>9 DEF ReadEvidence, world
  <1>10. CASE CountShows(s)
    <2>1. r.phase = "counts" /\ q = [r EXCEPT !.phase = IF r.cands = {} THEN "ordered" ELSE "rerank"]
      BY <1>3, <1>10 DEF CountShows, At
    <2> HIDE DEF q, r
    <2>2. Sourced(q)
      BY <1>1, <2>1 DEF Sourced, Fields
    <2>3. Kept(q)
      BY <1>1, <2>1 DEF Kept, Fields
    <2>4. QED
      BY <2>2, <2>3, <1>10 DEF CountShows, world
  <1>11. CASE Rerank(s) \/ RerankFails(s)
    <2>1. PICK b, f : OrderedBy(s, b, f) /\ f \in [r.cands -> Int]
      BY <1>11, RrfScoresAreNumbers, SearchAssumption DEF Rerank, RerankFails
    <2>2. q = [r EXCEPT !.phase = "ordered", !.scores = f,
                 !.ordering = IF b = None THEN "rrf" ELSE "ranker", !.by = b]
      BY <2>1 DEF OrderedBy, Shape
    <2>3. UNCHANGED catalog /\ \E x : search' = [search EXCEPT ![s] = x]
      <3>1. UNCHANGED catalog
        BY <1>11 DEF Rerank, RerankFails, world
      <3>2. search' = [search EXCEPT ![s] = q]
        BY <2>1 DEF OrderedBy, Shape
      <3>3. QED
        BY <3>1, <3>2
    <2> HIDE DEF q, r
    <2>4. Sourced(q)
      BY <1>1, <2>2 DEF Sourced, Fields
    <2>5. Kept(q)
      BY <1>1, <2>1, <2>2 DEF Kept, Fields
    <2>6. QED
      BY <2>3, <2>4, <2>5
  <1>12. CASE Serve(s)
    <2>1. r.phase = "ordered" /\ \E a : q = [r EXCEPT !.phase = "served", !.recorded = info, !.results = a]
      BY <1>12 DEF Serve, At, Shape
    <2> HIDE DEF q, r
    <2>2. Sourced(q)
      BY <1>1, <2>1 DEF Sourced, Fields
    <2>3. Kept(q)
      BY <1>1, <2>1 DEF Kept, Fields
    <2>4. QED
      BY <2>2, <2>3, <1>12 DEF Serve, world
  <1>13. QED
    BY <1>4, <1>5, <1>6, <1>7, <1>8, <1>9, <1>10, <1>11, <1>12 DEF Step

\* What happens around the requests keeps them, or lets them fail.
LEMMA WorldStep ==
    ASSUME Shape, [Next]_vars, ~\E s \in Searches : Step(s)
    PROVE  /\ catalog' \subseteq catalog
           /\ DOMAIN search' = Searches
           /\ \A s \in Searches : search'[s] = search[s] \/ search'[s] = Failed
  <1>1. CASE \E e \in Episodes : DeleteEpisode(e)
    BY <1>1 DEF DeleteEpisode, Shape
  <1>2. CASE \E b \in Bundles : Swap(b)
    BY <1>2 DEF Swap, Shape
  <1>3. CASE CountsExpire \/ UNCHANGED vars
    BY <1>3 DEF CountsExpire, vars, world, Shape
  <1>4. CASE RestartApi
    BY <1>4 DEF RestartApi, Shape
  <1>5. QED
    BY <1>1, <1>2, <1>3, <1>4 DEF Next

LEMMA AccountedNext ==
    ASSUME Shape, NoLateLeg, EmptyBefore, Accounted, [Next]_vars
    PROVE  Accounted'
  <1>1. CASE \E s \in Searches : Step(s)
    BY <1>1, AccountedStep
  <1>2. CASE ~\E s \in Searches : Step(s)
    BY <1>2, WorldStep, NothingYet DEF Accounted
  <1>3. QED
    BY <1>1, <1>2

\* What is served stays the best of its candidates until the next request.
LEMMA BestStep ==
    ASSUME Shape, NoLateLeg, Accounted, BestIsServed, [Next]_vars
    PROVE  BestIsServed'
  <1>1. SUFFICES ASSUME NEW t \in Searches, search'[t].phase = "served"
                 PROVE  Best(t, search[t].results)'
    BY DEF BestIsServed, At
  <1>2. ASSUME NEW x, search'[t].cands = search[t].cands, search'[t].scores = search[t].scores,
               search'[t].results = x, Best(t, x)
        PROVE  Best(t, search[t].results)'
    <2>1. \A d, e : Before(t, d, e) => Before(t, d, e)'
      BY <1>2 DEF Before
    <2>2. /\ Len(x) = Min({MaxResults, Cardinality(search'[t].cands)})
          /\ Range(x) \subseteq search'[t].cands
      BY <1>2 DEF Best
    <2>3. \A j, k \in DOMAIN x : j < k => Before(t, x[j], x[k])'
      BY <1>2, <2>1 DEF Best
    <2>4. \A k \in DOMAIN x, e \in search'[t].cands \ Range(x) : Before(t, x[k], e)'
      BY <1>2, <2>1 DEF Best
    <2>5. QED
      BY <1>2, <2>2, <2>3, <2>4 DEF Best
  <1>3. CASE search'[t] = search[t]
    BY <1>1, <1>2, <1>3 DEF BestIsServed, At
  <1>4. CASE Serve(t)
    <2>1. /\ search[t].phase = "ordered"
          /\ search'[t] = [search[t] EXCEPT !.phase = "served", !.recorded = info,
                                            !.results = Answer(t)]
      BY <1>4 DEF Serve, At, Shape
    <2>2. Scored(t)
      BY <2>1, SearchAssumption, FS_Subset DEF Scored, Accounted, Kept
    <2>3. Best(t, Answer(t))
      BY <2>2, AnswerIsBest
    <2>4. /\ search'[t].cands = search[t].cands /\ search'[t].scores = search[t].scores
          /\ search'[t].results = Answer(t)
      BY <2>1 DEF Shape, Fields
    <2>5. QED
      BY <2>3, <2>4, <1>2
  <1>5. ASSUME NEW s \in Searches, Step(s), s # t PROVE search'[t] = search[t]
    BY <1>5 DEF Step, Begin, Encode, EncodeFails, GiveUp, Join, LegReturns, LegBreaks,
                ReadEvidence, EvidenceFails, CountShows, CountingBreaks, Rerank, RerankFails,
                Serve, ServeFails, OrderedBy, Shape
  <1>6. CASE Step(t) /\ ~Serve(t)
    <2> USE DEF Shape, Fields, Waiting, Failed, At
    <2>1. search'[t].phase # "served"
      <3>1. CASE Begin(t)
        BY <3>1 DEF Begin
      <3>2. CASE Encode(t) \/ EncodeFails(t) \/ GiveUp(t) \/ Join(t)
        BY <3>2 DEF Encode, EncodeFails, GiveUp, Join
      <3>3. CASE \E l \in Legs : LegReturns(t, l) \/ LegBreaks(t, l)
        <4>1. PICK l \in Legs : LegReturns(t, l) \/ LegBreaks(t, l)
          BY <3>3
        <4>2. search[t].phase \in {"encoding", "giving up", "legs"}
          BY <4>1 DEF LegReturns, LegBreaks, NoLateLeg, Running
        <4>3. search'[t].phase = search[t].phase
          BY <4>1 DEF LegReturns, LegBreaks
        <4>4. QED
          BY <4>2, <4>3
      <3>4. CASE ReadEvidence(t) \/ EvidenceFails(t) \/ CountShows(t) \/ CountingBreaks(t)
        BY <3>4 DEF ReadEvidence, EvidenceFails, CountShows, CountingBreaks
      <3>5. CASE Rerank(t) \/ RerankFails(t)
        <4>1. PICK y, f : OrderedBy(t, y, f)
          BY <3>5 DEF Rerank, RerankFails
        <4>2. QED
          BY <4>1 DEF OrderedBy
      <3>6. CASE ServeFails(t)
        BY <3>6 DEF ServeFails
      <3>7. QED
        BY <1>6, <3>1, <3>2, <3>3, <3>4, <3>5, <3>6 DEF Step
    <2>2. QED
      BY <2>1, <1>1
  <1>7. CASE ~\E s \in Searches : Step(s)
    BY <1>1, <1>3, <1>7, WorldStep DEF Failed, Waiting
  <1>8. QED
    BY <1>3, <1>4, <1>5, <1>6, <1>7

-----------------------------------------------------------------------------

THEOREM Invariance == Spec => []Inv
  <1>1. Inv /\ [Next]_vars => Inv'
    BY BundleStep, ShapeStep, LegStep, EmptyStep, RankedStep, RecordedStep DEF Inv
  <1>2. QED
    BY InvInit, <1>1, PTL DEF Spec

\* However the calls of a search fail, no leg is left running behind it: nothing
\* writes to an answer that was returned (Retrieve's wg.Wait on every path).
THEOREM NoLateLegs == Spec => []NoLateLeg
  BY Invariance, PTL DEF Inv

\* An answer that says it was ranked has the scores of the bundle it names, for
\* any number of restarts of the model server under a running API.
THEOREM RankedAnswers == Spec => []ScoredAsRecorded
  BY Invariance, PTL DEF Inv

\* Where answers come from (Accounted) and what they are (BestIsServed), on top
\* of Inv.
THEOREM Provenance == Spec => [](Accounted /\ BestIsServed)
  <1>1. Init => Accounted /\ BestIsServed
    BY NothingYet DEF Init, Accounted, BestIsServed, At, Waiting
  <1>2. Inv /\ Accounted /\ BestIsServed /\ [Next]_vars => Accounted' /\ BestIsServed'
    BY AccountedNext, BestStep DEF Inv
  <1>3. QED
    BY <1>1, <1>2, Invariance, PTL DEF Spec

\* Retriever.Retrieve: whatever is in a served answer was found by a leg the
\* response reports as ok, and by none that broke half-way, however many legs,
\* calls and statements fail and whichever episodes are deleted meanwhile.
THEOREM CleanAnswers == Spec => []FoundByAnswer
  <1>1. ASSUME Accounted, BestIsServed PROVE FoundByAnswer
    <2> SUFFICES ASSUME NEW s \in Searches, At(s, "served"),
                        NEW e \in Range(search[s].results)
                 PROVE  /\ \E l \in Legs : e \in Range(search[s].ranks[l])
                        /\ \A l \in Legs :
                              e \in Range(search[s].ranks[l]) => search[s].legs[l] = "ok"
      BY DEF FoundByAnswer
    <2>1. e \in search[s].cands
      BY <1>1 DEF BestIsServed, Best
    <2>2. \E l \in Legs : e \in Range(search[s].ranks[l])
      BY <1>1, <2>1 DEF Accounted, Kept
    <2>3. ASSUME NEW l \in Legs, e \in Range(search[s].ranks[l]) PROVE search[s].legs[l] = "ok"
      <3>1. search[s].ranks[l] # <<>>
        BY <2>3 DEF Range
      <3>2. QED
        BY <1>1, <3>1 DEF Accounted, Sourced
    <2>4. QED
      BY <2>2, <2>3
  <1>2. QED
    BY <1>1, Provenance, PTL

\* Service.Search: the answer is the best of the candidates under the scores of
\* the ranker or of the reciprocal ranks, ties by id: as many as asked for or as
\* there are, in order, and nothing left out comes before a result.
THEOREM BestAnswers == Spec => []BestServed
  <1>1. BestIsServed => BestServed
    BY DEF BestIsServed, Best, BestServed
  <1>2. QED
    BY <1>1, Provenance, PTL
=============================================================================
