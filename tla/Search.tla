------------------------------- MODULE Search -------------------------------
(***************************************************************************)
(* A text search from the request to its stored answer (Service.Search and *)
(* Retriever.Retrieve of internal/search), several at a time, while the    *)
(* catalogue loses episodes, the model server is restarted on another      *)
(* bundle and the API, which read the bundle's manifest when it started,   *)
(* is restarted after it.                                                  *)
(*                                                                         *)
(* What a leg finds and how the ranker scores are left open: a leg returns *)
(* any list of Rankings, the ranker any function into Scores.              *)
(***************************************************************************)
EXTENDS Integers, Sequences, FiniteSets, FiniteSetsExt, Functions

CONSTANTS
    Episodes,      \* ids
    Searches,
    Bundles,
    Rankings,      \* lists of episodes a leg may return, best first
    Scores,        \* what the ranker may give a candidate
    Depth,         \* candidate_depth of the manifests
    Scale,         \* what sums of 1 / (60 + rank) are counted in
    MaxResults,    \* the limit of a request
    None,
    MaxFaults,     \* bound: failed statements and calls
    MaxSwaps,      \* bound: restarts of the model server on another bundle
    MaxDeletions   \* bound: episodes deleted

VectorLegs == {"e5", "two_tower"}
Legs == {"lexical"} \cup VectorLegs

ASSUME SearchAssumption ==
    /\ Episodes \subseteq Nat /\ IsFiniteSet(Episodes)
    /\ Scores \subseteq Int /\ Scores # {}
    /\ Depth \in Nat \ {0} /\ MaxResults \in Nat \ {0}
    /\ Scale \in Nat /\ \A k \in 1 .. Depth : Scale % (60 + k) = 0
    /\ \A r \in Rankings : /\ r \in Seq(Episodes) /\ Len(r) <= Depth
                           /\ IsInjective(r)
    /\ <<>> \in Rankings
    /\ None \notin Bundles
    /\ {MaxFaults, MaxSwaps, MaxDeletions} \subseteq Nat

VARIABLES
    catalog,   \* episodes the database has
    served,    \* the bundle the model server runs
    info,      \* Retriever.Info: the bundle the API read when it started
    search,    \* the requests
    counts,    \* Retriever.showEpisodes: "none", "complete" or "partial"
    faults, swaps, deletions

world == <<catalog, served, info>>
bounds == <<faults, swaps, deletions>>
vars == <<world, search, counts, bounds>>

Waiting == [phase |-> "waiting", legs |-> [l \in Legs |-> "none"],
            ranks |-> [l \in Legs |-> <<>>], vectors |-> None, recorded |-> None,
            cands |-> {}, ordering |-> "ranker", by |-> None,
            scores |-> [e \in {} |-> 0], results |-> <<>>]

Init ==
    /\ catalog = Episodes
    /\ served \in Bundles
    /\ info = served
    /\ search = [s \in Searches |-> Waiting]
    /\ counts = "none"
    /\ faults = 0 /\ swaps = 0 /\ deletions = 0

Fault == faults < MaxFaults /\ faults' = faults + 1
At(s, phase) == search[s].phase = phase
Running(s) == {l \in Legs : search[s].legs[l] = "running"}
Open(s) == search[s].phase \notin {"waiting", "served", "failed"}

\* A failed request answers with an error only.
Failed == [Waiting EXCEPT !.phase = "failed"]

-----------------------------------------------------------------------------
(* Retrieve.                                                               *)

\* A new request.  The lexical leg starts before the query is encoded; a
\* query that is all filters has no text for it.
Begin(s) ==
    /\ ~Open(s)
    /\ \E lexical \in {"running", "skipped"} :
          search' = [search EXCEPT ![s] = [Waiting EXCEPT !.phase = "encoding",
                                                          !.legs["lexical"] = lexical]]
    /\ UNCHANGED <<world, counts, bounds>>

LegReturns(s, l) ==
    /\ l \in Running(s)
    /\ \E r \in {q \in Rankings : Range(q) \subseteq catalog} :
          search' = [search EXCEPT ![s].legs[l] = "ok", ![s].ranks[l] = r]
    /\ UNCHANGED <<world, counts, bounds>>

\* Faulty variant: the rows read before the leg broke are used.
LegBreaksWithRows(s, l) ==
    /\ l \in Running(s)
    /\ \E r \in {q \in Rankings : Range(q) \subseteq catalog} :
          search' = [search EXCEPT ![s].legs[l] = "broken", ![s].ranks[l] = r]
    /\ Fault
    /\ UNCHANGED <<world, counts, swaps, deletions>>

\* A timeout or an error: rows already read are dropped.
LegBreaks(s, l) ==
    /\ l \in Running(s)
    /\ search' = [search EXCEPT ![s].legs[l] = "broken"]
    /\ Fault
    /\ UNCHANGED <<world, counts, swaps, deletions>>

\* The reply names the bundle it comes from, which nothing compares.
Encode(s) ==
    /\ At(s, "encoding")
    /\ search' = [search EXCEPT ![s].phase = "legs", ![s].vectors = served,
                       ![s].legs = [l \in Legs |-> IF l \in VectorLegs
                                                   THEN "running" ELSE @[l]]]
    /\ UNCHANGED <<world, counts, bounds>>

\* Faulty variant: returns while the lexical leg still runs.
EncodeFailsAtOnce(s) ==
    /\ At(s, "encoding")
    /\ search' = [search EXCEPT ![s].phase = "failed"]
    /\ Fault
    /\ UNCHANGED <<world, counts, swaps, deletions>>

\* wg.Wait: a failed search first waits for the leg that writes to its answer.
EncodeFails(s) ==
    /\ At(s, "encoding")
    /\ search' = [search EXCEPT ![s].phase = "giving up"]
    /\ Fault
    /\ UNCHANGED <<world, counts, swaps, deletions>>

GiveUp(s) ==
    /\ At(s, "giving up")
    /\ Running(s) = {}
    /\ search' = [search EXCEPT ![s] = Failed]
    /\ UNCHANGED <<world, counts, bounds>>

Found(s) == UNION {Range(search[s].ranks[l]) : l \in Legs}

\* Faulty variant: waits for three answers.
JoinAnswers(s) ==
    /\ At(s, "legs")
    /\ \A l \in Legs : search[s].legs[l] \in {"ok", "skipped"}
    /\ search' = [search EXCEPT ![s].phase = IF Found(s) = {} THEN "ordered"
                                             ELSE "evidence"]
    /\ UNCHANGED <<world, counts, bounds>>

\* Nothing found: no evidence to read.
Join(s) ==
    /\ At(s, "legs")
    /\ Running(s) = {}
    /\ search' = [search EXCEPT ![s].phase = IF Found(s) = {} THEN "ordered"
                                             ELSE "evidence"]
    /\ UNCHANGED <<world, counts, bounds>>

\* The statements for the evidence and the vectors: a candidate whose row is
\* gone by now is dropped.
ReadEvidence(s) ==
    /\ At(s, "evidence")
    /\ search' = [search EXCEPT ![s].phase = "counts",
                                ![s].cands = Found(s) \cap catalog]
    /\ UNCHANGED <<world, counts, bounds>>

EvidenceFails(s) ==
    /\ search[s].phase \in {"evidence", "counts"}
    /\ search' = [search EXCEPT ![s] = Failed]
    /\ Fault
    /\ UNCHANGED <<world, counts, swaps, deletions>>

\* showCounts, from the cache or from the database.
CountShows(s) ==
    /\ At(s, "counts")
    /\ counts' = IF counts = "none" THEN "complete" ELSE counts
    /\ search' = [search EXCEPT ![s].phase = IF search[s].cands = {} THEN "ordered"
                                             ELSE "rerank"]
    /\ UNCHANGED <<world, bounds>>

\* The read breaks after some rows: they are cached before rows.Err is looked at.
CountingBreaks(s) ==
    /\ At(s, "counts")
    /\ counts = "none"
    /\ counts' = "partial"
    /\ search' = [search EXCEPT ![s] = Failed]
    /\ Fault
    /\ UNCHANGED <<world, swaps, deletions>>

\* Ten minutes later.
CountsExpire ==
    /\ counts # "none"
    /\ counts' = "none"
    /\ UNCHANGED <<world, search, bounds>>

-----------------------------------------------------------------------------
(* Search.                                                                 *)

RankIn(q, e) == CHOOSE k \in DOMAIN q : q[k] = e

\* 1 / (60 + rank) of a leg that found e.
Share(q, e) == IF e \in Range(q) THEN Scale \div (60 + RankIn(q, e)) ELSE 0

Rrf(ranks, e) ==
    Share(ranks["lexical"], e) + Share(ranks["e5"], e) + Share(ranks["two_tower"], e)

RrfScores(s) == [e \in search[s].cands |-> Rrf(search[s].ranks, e)]

OrderedBy(s, bundle, scores) ==
    search' = [search EXCEPT ![s].phase = "ordered", ![s].scores = scores,
                 ![s].ordering = IF bundle = None THEN "rrf" ELSE "ranker",
                 ![s].by = bundle]

\* Faulty variant: scores of another bundle are taken.
RerankBy(s) ==
    /\ At(s, "rerank")
    /\ \E f \in [search[s].cands -> Scores] : OrderedBy(s, served, f)
    /\ UNCHANGED <<world, counts, bounds>>

\* Scores count if they are of the bundle the API knows.
Rerank(s) ==
    /\ At(s, "rerank")
    /\ IF served = info
       THEN \E f \in [search[s].cands -> Scores] : OrderedBy(s, served, f)
       ELSE OrderedBy(s, None, RrfScores(s))
    /\ UNCHANGED <<world, counts, bounds>>

\* No answer, or one of the wrong length.
RerankFails(s) ==
    /\ At(s, "rerank")
    /\ OrderedBy(s, None, RrfScores(s))
    /\ Fault
    /\ UNCHANGED <<world, counts, swaps, deletions>>

Before(s, d, e) ==
    LET sc == search[s].scores
    IN  sc[d] > sc[e] \/ (sc[d] = sc[e] /\ d < e)

Truncate(q) == SubSeq(q, 1, Min({Len(q), MaxResults}))

\* Each candidate stands behind those that come before it.
Sorted(s) ==
    [k \in 1 .. Cardinality(search[s].cands) |->
       CHOOSE e \in search[s].cands :
          Cardinality({d \in search[s].cands : Before(s, d, e)}) = k - 1]

Answer(s) == Truncate(Sorted(s))

\* The answer is displayed, stored and returned (SessionData follows the row).
Serve(s) ==
    /\ At(s, "ordered")
    /\ search' = [search EXCEPT ![s].phase = "served", ![s].recorded = info,
                             ![s].results = Answer(s)]
    /\ UNCHANGED <<world, counts, bounds>>

ServeFails(s) ==
    /\ At(s, "ordered")
    /\ search' = [search EXCEPT ![s] = Failed]
    /\ Fault
    /\ UNCHANGED <<world, counts, swaps, deletions>>

-----------------------------------------------------------------------------
(* What happens around a search.                                           *)

DeleteEpisode(e) ==
    /\ deletions < MaxDeletions /\ deletions' = deletions + 1
    /\ e \in catalog
    /\ catalog' = catalog \ {e}
    /\ UNCHANGED <<served, info, search, counts, faults, swaps>>

\* BUNDLE_ID changes: the model server restarts, the API does not.
Swap(b) ==
    /\ swaps < MaxSwaps /\ swaps' = swaps + 1
    /\ b # served
    /\ served' = b
    /\ UNCHANGED <<catalog, info, search, counts, faults, deletions>>

\* The health check fails on another bundle and the API is redeployed; what
\* it was serving is lost.
RestartApi ==
    /\ info # served
    /\ info' = served
    /\ counts' = "none"
    /\ search' = [s \in Searches |-> IF Open(s) THEN Failed ELSE search[s]]
    /\ UNCHANGED <<catalog, served, bounds>>

Step(s) ==
    \/ Begin(s) \/ Encode(s) \/ EncodeFails(s) \/ GiveUp(s) \/ Join(s)
    \/ \E l \in Legs : LegReturns(s, l) \/ LegBreaks(s, l)
    \/ ReadEvidence(s) \/ EvidenceFails(s) \/ CountShows(s) \/ CountingBreaks(s)
    \/ Rerank(s) \/ RerankFails(s) \/ Serve(s) \/ ServeFails(s)

Next ==
    \/ \E s \in Searches : Step(s)
    \/ \E e \in Episodes : DeleteEpisode(e)
    \/ \E b \in Bundles : Swap(b)
    \/ CountsExpire \/ RestartApi

Spec == Init /\ [][Next]_vars

\* Every call and statement has a timeout or answers; nothing promises that a
\* request is made.
FairSpec == Spec /\ \A s \in Searches : WF_vars(Open(s) /\ Step(s))

-----------------------------------------------------------------------------
(* Properties.                                                             *)

Phases == {"waiting", "encoding", "giving up", "legs", "evidence", "counts",
           "rerank", "ordered", "served", "failed"}

\* Every variable has its type (the Retriever, the response being built and
\* what the API remembers between requests).
TypeOK ==
    /\ catalog \subseteq Episodes
    /\ {served, info} \subseteq Bundles
    /\ counts \in {"none", "complete", "partial"}
    /\ \A s \in Searches :
          /\ search[s].phase \in Phases
          /\ search[s].legs \in [Legs -> {"none", "skipped", "running", "ok", "broken"}]
          /\ \A l \in Legs : LET r == search[s].ranks[l]
                            IN  r \in Seq(Episodes) /\ Len(r) <= Depth /\ IsInjective(r)
          /\ search[s].cands \subseteq Episodes
          /\ search[s].ordering \in {"ranker", "rrf"}
          /\ {search[s].vectors, search[s].by} \subseteq Bundles \cup {None}

\* Once Retrieve has returned no leg is left to write to its Legs and ranks,
\* whatever failed first and in whichever order the legs end.
NoLateLeg ==
    \A s \in Searches :
       search[s].phase \notin {"encoding", "giving up", "legs"} => Running(s) = {}

\* A degraded search is degraded cleanly: whatever is in a served answer comes
\* from legs the response reports as ok, never from one that broke half-way.
FoundByAnswer ==
    \A s \in Searches : At(s, "served") =>
       \A e \in Range(search[s].results) :
          /\ \E l \in Legs : e \in Range(search[s].ranks[l])
          /\ \A l \in Legs : e \in Range(search[s].ranks[l]) => search[s].legs[l] = "ok"

\* An answer that says "ranker" was scored by the bundle it names, across
\* restarts of the model server under a running API.
ScoredAsRecorded ==
    \A s \in Searches :
       At(s, "served") /\ search[s].ordering = "ranker" /\ search[s].cands # {}
          => search[s].by \in Bundles /\ search[s].by = search[s].recorded

\* The answer is the best of the candidates under what ordered it: nothing
\* left out comes before a result, and no place is left empty.
BestServed ==
    \A s \in Searches : At(s, "served") =>
       LET q == search[s].results
           left == search[s].cands \ Range(q)
       IN  /\ Len(q) = Min({MaxResults, Cardinality(search[s].cands)})
           /\ \A j, k \in DOMAIN q : j < k => Before(s, q[j], q[k])
           /\ \A k \in DOMAIN q, e \in left : Before(s, q[k], e)

\* A search ends, answered or refused: no leg, no restart and no failure
\* leaves a request waiting.
EverySearchEnds == \A s \in Searches : Open(s) ~> ~Open(s)

\* What the response says of itself: "Versions identifies what produced a
\* search" (service.go).  A result a vector leg found was found with vectors of
\* the bundle the answer names.
VersionsAreTrue ==
    \A s \in Searches : At(s, "served") =>
       \A e \in Range(search[s].results) :
          (\E l \in VectorLegs : e \in Range(search[s].ranks[l]))
             => search[s].vectors = search[s].recorded
=============================================================================
