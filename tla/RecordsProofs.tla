----------------------------- MODULE RecordsProofs -----------------------------
(***************************************************************************)
(* Proofs about the four ways in which rows come and go (MCRecords): for   *)
(* any feeds and any series of polls and edits, any number of queries,     *)
(* deletions, links, versions, shows, periods, starts and faults.          *)
(***************************************************************************)
EXTENDS MCRecords, Integers, Sequences, TLAPS

-----------------------------------------------------------------------------
(* A behaviour of the composition is one of each part.                     *)

LEMMA IngestBehaviour == Spec => ingest!Spec
  <1>1. Init => ingest!Init
    BY DEF Init
  <1>2. [Next]_vars => [ingest!Next]_(ingest!vars)
    BY DEF Next, vars, ingestVars, ingest!vars,
           ingest!publisherVars, ingest!txVars
  <1>3. QED
    BY <1>1, <1>2, PTL DEF Spec, ingest!Spec

LEMMA SessionBehaviour == Spec => session!Spec
  <1>1. Init => session!Init
    BY DEF Init
  <1>2. [Next]_vars => [session!Next]_(session!vars)
    BY DEF Next, vars, sessionVars, session!vars,
           session!dbVars, session!requestVars, session!deleteVars, session!history
  <1>3. QED
    BY <1>1, <1>2, PTL DEF Spec, session!Spec

LEMMA TranscriptBehaviour == Spec => transcripts!Spec
  <1>1. Init => transcripts!Init
    BY DEF Init
  <1>2. [Next]_vars => [transcripts!Next]_(transcripts!vars)
    BY DEF Next, vars, transcriptVars, transcripts!vars
  <1>3. QED
    BY <1>1, <1>2, PTL DEF Spec, transcripts!Spec

LEMMA CatalogBehaviour == Spec => catalog!Spec
  <1>1. Init => catalog!Init
    BY DEF Init
  <1>2. [Next]_vars => [catalog!Next]_(catalog!vars)
    BY DEF Next, vars, catalogVars, catalog!vars
  <1>3. QED
    BY <1>1, <1>2, PTL DEF Spec, catalog!Spec

-----------------------------------------------------------------------------
(* Sessions and their deletion (SessionData).                              *)

\* Only a request that is over has a recording.
RecordedIsDone == \A q \in recordings : req[q] = "done"

\* What ran beside a deletion is known to have.
InFlightRaced == session!Deleting => \A q \in Queries : session!InFlight(q) => q \in raced

\* Objects with rows are on the deletion's list, or its listing left them out, or
\* it need not answer for them.
KeysCover ==
    /\ session!Deleting => recordings \cap store \subseteq keys \cup raced \cup leaked \cup missed
    /\ del # "objects" => keys = {}

\* Rows a deletion must remove are those its transaction has deleted so far.
DoomedCover ==
    \A q \in Queries \ raced :
        /\ del \in {"recordings", "events", "searches"} /\ q \in recordings => q \in doomed.recordings
        /\ del \in {"events", "searches"} =>
             \A type \in {"search", "impression"} : <<q, type>> \in events => <<q, type>> \in doomed.events
        /\ del = "searches" /\ q \in searches => q \in doomed.searches

\* Recordings go with their searches.
Cascades ==
    /\ del # "searches" => doomed.searches = {}
    /\ recordings \cap doomed.searches \subseteq doomed.recordings

\* What was erased is over for good.
ErasedIsOver == \A q \in erased : req[q] = "done" /\ imp[q] # "read"

SessionInv ==
    /\ session!TypeOK
    /\ RecordedIsDone
    /\ InFlightRaced
    /\ KeysCover
    /\ DoomedCover
    /\ Cascades
    /\ ErasedIsOver
    /\ session!DeletionOrphansNothing
    /\ session!DeletedMeansGone

LEMMA SessionInit == ASSUME session!SessionAssumption PROVE session!Init => SessionInv
  <1> SUFFICES ASSUME session!Init PROVE SessionInv
    OBVIOUS
  <1> USE DEF session!Init
  <1>1. session!TypeOK
    BY DEF session!TypeOK, session!SessionAssumption, session!Nothing
  <1>2. QED
    BY <1>1 DEF SessionInv, RecordedIsDone, InFlightRaced, KeysCover, DoomedCover, Cascades,
                ErasedIsOver, session!DeletionOrphansNothing, session!DeletedMeansGone,
                session!Deleting, session!Nothing

LEMMA SessionStep ==
  ASSUME session!SessionAssumption
  PROVE  SessionInv /\ [session!Next]_(session!vars) => SessionInv'
  <1> SUFFICES ASSUME SessionInv, [session!Next]_(session!vars) PROVE SessionInv'
    OBVIOUS
  <1> USE DEF SessionInv, session!TypeOK, RecordedIsDone, InFlightRaced, KeysCover, DoomedCover,
                Cascades, ErasedIsOver, session!DeletionOrphansNothing, session!DeletedMeansGone,
                session!Deleting, session!Nothing,
                session!SessionAssumption, session!dbVars, session!requestVars, session!deleteVars,
                session!history, session!Goto, session!Touch, session!Fault, session!InFlight
  <1>1. ASSUME NEW q \in Queries, session!Ask(q) PROVE SessionInv'
    BY <1>1 DEF session!Ask
  <1>2. ASSUME NEW q \in Queries, session!Leave(q) PROVE SessionInv'
    BY <1>2 DEF session!Leave
  <1>3. ASSUME NEW q \in Queries, session!Save(q) PROVE SessionInv'
    BY <1>3 DEF session!Save
  <1>4. ASSUME NEW q \in Queries, session!End(q) PROVE SessionInv'
    BY <1>4 DEF session!End
  <1>5. ASSUME NEW q \in Queries, session!Put(q) PROVE SessionInv'
    BY <1>5 DEF session!Put
  <1>6. ASSUME NEW q \in Queries, session!PutFails(q) PROVE SessionInv'
    BY <1>6 DEF session!PutFails
  <1>7. ASSUME NEW q \in Queries, session!Insert(q) PROVE SessionInv'
    BY <1>7 DEF session!Insert
  <1>8. ASSUME NEW q \in Queries, session!InsertFails(q) PROVE SessionInv'
    BY <1>8 DEF session!InsertFails
  <1>9. ASSUME NEW q \in Queries, session!Undo(q) PROVE SessionInv'
    BY <1>9 DEF session!Undo
  <1>10. ASSUME NEW q \in Queries, session!ReadSearch(q) PROVE SessionInv'
    BY <1>10 DEF session!ReadSearch
  <1>11. ASSUME NEW q \in Queries, session!WriteImpressions(q) PROVE SessionInv'
    BY <1>11 DEF session!WriteImpressions
  <1>12. CASE session!ListKeys
    BY <1>12 DEF session!ListKeys
  <1>13. ASSUME NEW q \in Queries, session!DeleteObject(q) PROVE SessionInv'
    BY <1>13 DEF session!DeleteObject
  <1>14. CASE session!DeleteRecordings
    BY <1>14 DEF session!DeleteRecordings
  <1>15. CASE session!DeleteEvents
    BY <1>15 DEF session!DeleteEvents
  <1>16. CASE session!DeleteSearches
    BY <1>16 DEF session!DeleteSearches
  <1>17. CASE session!Commit
    BY <1>17 DEF session!Commit
  <1>18. CASE session!DeleteFails
    BY <1>18 DEF session!DeleteFails
  <1>19. CASE UNCHANGED session!vars
    BY <1>19 DEF session!vars
  <1>20. QED
    BY <1>1, <1>2, <1>3, <1>4, <1>5, <1>6, <1>7, <1>8, <1>9, <1>10, <1>11, <1>12, <1>13,
       <1>14, <1>15, <1>16, <1>17, <1>18, <1>19
       DEF session!Next, session!Request, session!Deletion, session!Over

LEMMA SessionInvariance == Spec => []SessionInv
  BY SessionBehaviour, SessionInit, SessionStep, RecordsAssumption, PTL DEF session!Spec

\* The variables keep their types, and a recording its search (SessionData's
\* tables and the requests and deletions over them).
THEOREM SessionTyped == Spec => []session!TypeOK
  <1>1. SessionInv => session!TypeOK
    BY DEF SessionInv
  <1>2. QED
    BY SessionInvariance, <1>1, PTL

\* What was over when a successful deletion began has no rows any more, and no
\* objects but those of failed retentions and those its listing left out: so it
\* stays, whatever requests run beside it and whatever fails.
THEOREM DeletionIsFinal == Spec => []DeletedMeansGone
  <1>1. SessionInv => session!DeletedMeansGone
    BY DEF SessionInv
  <1>2. QED
    BY SessionInvariance, <1>1, PTL DEF DeletedMeansGone

\* At whatever object or statement deletions fail, and whatever is retained beside
\* them, an object has its row, a request under way, a retention that failed or
\* raced, or was left out by the last listing of its row.
THEOREM NoOrphans == Spec => []DeletionOrphansNothing
  <1>1. SessionInv => session!DeletionOrphansNothing
    BY DEF SessionInv
  <1>2. QED
    BY SessionInvariance, <1>1, PTL DEF DeletionOrphansNothing

-----------------------------------------------------------------------------
(* The ingestion of a feed (FeedIngest).                                   *)

\* x is an item that e has had: the GUID and the enclosure of e, or none.
Of(x, e) ==
    /\ x.guid \in {None, GuidOf[e]}
    /\ x.enc \in hosted[e] \cup {None}
    /\ e \in steady => x.guid = GuidOf[e]

\* Both name the same episode: a GUID or an enclosure that is there.
Same(x, y) ==
    \/ x.guid = y.guid /\ y.guid # None
    \/ x.enc = y.enc /\ y.enc # None

ItemsOwned == \A e \in ingest!Listed : Of(item[e], e)

\* Every row is an item that some episode has had.
Owned(R) == \A id \in DOMAIN R : \E e \in Episodes : Of(R[id], e)

\* episodes_guid_key and episodes_enclosure_key.
Unique(R) ==
    \A k, id \in DOMAIN R :
        /\ R[k].guid = R[id].guid /\ R[id].guid # None => k = id
        /\ R[k].enc = R[id].enc /\ R[id].enc # None => k = id

\* The publisher waits for the poll: the feed is of current items.
FeedIsCurrent == \A k \in DOMAIN feed : \E e \in ingest!Listed : feed[k] = item[e]

\* What the loop has seen are the GUIDs and enclosures it has passed.
SeenIsPassed == error = "none" =>
    /\ \A v \in seenGUIDs : \E j \in DOMAIN feed : j < pos /\ feed[j].guid = v
    /\ \A v \in seenEnclosures : \E j \in DOMAIN feed : j < pos /\ feed[j].enc = v

\* EveryItemStored, by a row that names the item's episode: its enclosure is no
\* other episode's.
ItemsKept ==
    \A k \in DOMAIN feed :
        (k < pos /\ ~ingest!Blank(feed[k]) /\ ingest!Identified(feed[k]) /\ ~ingest!Shared(feed[k].enc)) =>
        \E id \in DOMAIN work : Same(work[id], feed[k]) /\ ingest!contentHash(work[id]) = ingest!contentHash(feed[k])

\* A row that the transaction has written is an item of the feed.
ChangesAreFed == \A c \in DOMAIN changes : \E k \in DOMAIN feed : work[changes[c]] = feed[k]

Idling ==
    pos = 0 => feed = <<>> /\ work = <<>> /\ changes = <<>> /\ error = "none"

Growing == pos > 0 => Len(rows) <= Len(work)

Tables == Owned(rows) /\ Unique(rows) /\ Owned(work) /\ Unique(work)
Transaction == FeedIsCurrent /\ SeenIsPassed /\ ItemsKept /\ ChangesAreFed /\ Idling /\ Growing

IngestInv == ingest!TypeOK /\ ItemsOwned /\ Tables /\ Transaction /\ ingest!ChangesAreExact

-----------------------------------------------------------------------------
(* The statements.                                                         *)

\* GUIDs tell episodes apart, and enclosures that only one of them has had.
LEMMA SameEpisode ==
  ASSUME ingest!FeedIngestAssumption, NEW d \in Episodes, NEW e \in Episodes,
         NEW x, NEW y, Of(x, d), Of(y, e), Same(x, y),
         (x.guid = y.guid /\ y.guid # None) \/ ~ingest!Shared(x.enc)
  PROVE  d = e
  BY DEF ingest!FeedIngestAssumption, Of, Same, ingest!Shared

\* Row id of R is i, and the other rows are as they were.
Written(R, id, i) ==
  [k \in 1 .. (IF id \in DOMAIN R THEN Len(R) ELSE id) |-> IF k = id THEN i ELSE R[k]]

\* What a statement on R for item i may have done.
Outcome(R, i, r) ==
  \/ /\ r.outcome = "unchanged" /\ r.rows = R
     /\ ingest!Identified(i) => \E id \in DOMAIN R : Same(R[id], i) /\ ingest!contentHash(R[id]) = ingest!contentHash(i)
  \/ /\ r.outcome = "inserted" /\ r.id = Len(R) + 1 /\ r.rows = Written(R, r.id, i)
     /\ ~ingest!Taken(R, r.id, "guid", i.guid) /\ ~ingest!Taken(R, r.id, "enc", i.enc)
  \/ /\ r.outcome = "updated" /\ r.id \in DOMAIN R /\ r.rows = Written(R, r.id, i)
     /\ ~ingest!Taken(R, r.id, "guid", i.guid) /\ ~ingest!Taken(R, r.id, "enc", i.enc)
     /\ Same(R[r.id], i) /\ ingest!contentHash(R[r.id]) # ingest!contentHash(i)
  \/ r.outcome \in {"episodes_guid_key", "episodes_enclosure_key"}

LEMMA WriteOutcome ==
  ASSUME NEW R \in Seq(ingest!Item), NEW i \in ingest!Item, NEW id \in 1 .. Len(R) + 1, NEW outcome
  PROVE  LET r == ingest!Write(R, id, i, outcome)
         IN  \/ /\ r.outcome = outcome /\ r.id = id /\ r.rows = Written(R, id, i)
                /\ ~ingest!Taken(R, id, "guid", i.guid) /\ ~ingest!Taken(R, id, "enc", i.enc)
             \/ r.outcome \in {"episodes_guid_key", "episodes_enclosure_key"}
  <1>1. [k \in DOMAIN R \cup {id} |-> IF k = id THEN i ELSE R[k]] = Written(R, id, i)
    <2>1. DOMAIN R = 1 .. Len(R) /\ Len(R) \in Nat
      OBVIOUS
    <2>2. DOMAIN R \cup {id} = 1 .. (IF id \in DOMAIN R THEN Len(R) ELSE id)
      BY <2>1
    <2>3. QED
      BY <2>2 DEF Written
  <1>2. QED
    BY <1>1 DEF ingest!Write, ingest!Result

LEMMA UpsertOutcome ==
  ASSUME NEW R \in Seq(ingest!Item), NEW i \in ingest!Item, NEW col \in {"guid", "enc"}, i[col] # None
  PROVE  Outcome(R, i, ingest!Upsert(R, i, col))
  <1> DEFINE hit == {id \in DOMAIN R : R[id][col] = i[col]}
  <1>0. DOMAIN R = 1 .. Len(R) /\ Len(R) \in Nat
    OBVIOUS
  <1>1. CASE hit = {}
    <2>1. ingest!Upsert(R, i, col) = ingest!Write(R, Len(R) + 1, i, "inserted")
      BY <1>1 DEF ingest!Upsert
    <2>2. QED
      BY <1>0, <2>1, WriteOutcome DEF Outcome
  <1>2. CASE hit # {}
    <2> DEFINE id == CHOOSE h \in hit : TRUE
    <2>1. id \in DOMAIN R /\ R[id][col] = i[col]
      BY <1>2
    <2>2. Same(R[id], i)
      BY <2>1 DEF Same
    <2>3. CASE ingest!contentHash(R[id]) = ingest!contentHash(i)
      <3>1. ingest!Upsert(R, i, col) = ingest!Result(R, id, "unchanged")
        BY <1>2, <2>3 DEF ingest!Upsert
      <3>2. QED
        BY <2>1, <2>2, <2>3, <3>1 DEF Outcome, ingest!Result
    <2>4. CASE ingest!contentHash(R[id]) # ingest!contentHash(i)
      <3>1. ingest!Upsert(R, i, col) = ingest!Write(R, id, i, "updated")
        BY <1>2, <2>4 DEF ingest!Upsert
      <3>2. QED
        BY <1>0, <2>1, <2>2, <2>4, <3>1, WriteOutcome DEF Outcome
    <2>5. QED
      BY <2>3, <2>4
  <1>3. QED
    BY <1>1, <1>2

\* IngestFeed's trust order: whatever identity decides, the row written is one
\* of the item's episode or a new one, and both unique indexes allow it.
LEMMA StoreOutcome ==
  ASSUME NEW R \in Seq(ingest!Item), NEW i \in ingest!Item
  PROVE  Outcome(R, i, ingest!Store(R, i))
  <1>1. CASE i.guid # None
    <2>1. Outcome(R, i, ingest!Upsert(R, i, "guid"))
      BY <1>1, UpsertOutcome
    <2>2. i.enc # None => Outcome(R, i, ingest!Upsert(R, i, "enc"))
      BY UpsertOutcome
    <2>3. QED
      BY <1>1, <2>1, <2>2 DEF ingest!Store, ingest!upsertByGUIDWithFallback
  <1>2. CASE i.guid = None /\ i.enc # None
    BY <1>2, UpsertOutcome DEF ingest!Store
  <1>3. CASE i.guid = None /\ i.enc = None
    <2>1. ~ingest!Identified(i)
      BY <1>3 DEF ingest!Identified
    <2>2. ingest!Store(R, i) = ingest!upsertByHash(R, i)
      BY <1>3 DEF ingest!Store
    <2>3. CASE \E id \in DOMAIN R : ingest!contentHash(R[id]) = ingest!contentHash(i)
      BY <2>1, <2>2, <2>3 DEF ingest!upsertByHash, ingest!Result, Outcome
    <2>4. CASE ~\E id \in DOMAIN R : ingest!contentHash(R[id]) = ingest!contentHash(i)
      BY <2>2, <2>4, WriteOutcome DEF ingest!upsertByHash, Outcome
    <2>5. QED
      BY <2>3, <2>4
  <1>4. QED
    BY <1>1, <1>2, <1>3

LEMMA WrittenRows ==
  ASSUME NEW R \in Seq(ingest!Item), NEW i \in ingest!Item, NEW id \in 1 .. Len(R) + 1
  PROVE  /\ Written(R, id, i) \in Seq(ingest!Item)
         /\ DOMAIN R \cup {id} = DOMAIN Written(R, id, i)
         /\ Len(R) <= Len(Written(R, id, i))
         /\ Written(R, id, i)[id] = i
         /\ \A k \in DOMAIN R : k # id => Written(R, id, i)[k] = R[k]
  <1>1. DOMAIN R = 1 .. Len(R) /\ Len(R) \in Nat /\ \A k \in 1 .. Len(R) : R[k] \in ingest!Item
    OBVIOUS
  <1> DEFINE n == IF id \in DOMAIN R THEN Len(R) ELSE id
  <1>2. n \in Nat /\ Len(R) <= n /\ 1 .. n = DOMAIN R \cup {id}
    BY <1>1
  <1>3. \A k \in 1 .. n : (IF k = id THEN i ELSE R[k]) \in ingest!Item
    BY <1>1, <1>2
  <1>4. Written(R, id, i) = [k \in 1 .. n |-> IF k = id THEN i ELSE R[k]]
    BY DEF Written
  <1> HIDE DEF n
  <1>5. Written(R, id, i) \in Seq(ingest!Item) /\ Len(Written(R, id, i)) = n
    BY <1>2, <1>3, <1>4
  <1>6. QED
    BY <1>1, <1>2, <1>4, <1>5

-----------------------------------------------------------------------------
(* The publisher and the ends of a poll.                                   *)

LEMMA IngestInit == ingest!Init => IngestInv
  <1> SUFFICES ASSUME ingest!Init PROVE IngestInv
    OBVIOUS
  <1> USE DEF ingest!Init
  <1>1. ingest!TypeOK
    BY DEF ingest!TypeOK, ingest!Item, ingest!Unlisted
  <1>2. ItemsOwned /\ Tables
    BY DEF Tables, ItemsOwned, ingest!Listed, Owned, Unique
  <1>3. Transaction /\ ingest!ChangesAreExact
    BY DEF Transaction, FeedIsCurrent, SeenIsPassed, ItemsKept, ChangesAreFed, Idling, Growing,
           ingest!ChangesAreExact
  <1>4. QED
    BY <1>1, <1>2, <1>3 DEF IngestInv

LEMMA PublishStep ==
  ASSUME ingest!FeedIngestAssumption, IngestInv, NEW e \in Episodes, NEW i \in ingest!Item, ingest!Publish(e, i)
  PROVE  IngestInv'
  <1> USE DEF ingest!Publish, ingest!publisherVars, ingest!txVars
  <1>1. ingest!TypeOK'
    BY DEF IngestInv, ingest!TypeOK, ingest!Item
  <1>3. \A x : \A d \in Episodes : Of(x, d) => Of(x, d)'
    BY DEF Of, IngestInv, ingest!TypeOK
  <1>4. ItemsOwned'
    <2> SUFFICES ASSUME NEW d \in Episodes, NEW y, y = item'[d], y # ingest!Unlisted PROVE Of(y, d)'
      BY DEF ItemsOwned, ingest!Listed, ingest!Unlisted
    <2>1. CASE d = e
      <3>1. y = i
        BY <2>1 DEF IngestInv, ingest!TypeOK
      <3>2. d \notin steady' \/ y.guid = GuidOf[d]
        BY <2>1, <3>1
      <3>3. y.enc \in hosted'[d] \cup {None}
        BY <2>1, <3>1 DEF IngestInv, ingest!TypeOK
      <3>4. QED
        BY <2>1, <3>1, <3>2, <3>3 DEF Of
    <2>2. CASE d # e
      BY <1>3, <2>2 DEF IngestInv, ingest!TypeOK, ItemsOwned, ingest!Listed
    <2>3. QED
      BY <2>1, <2>2
  <1>5. Tables'
    BY <1>3 DEF IngestInv, Tables, Owned, Unique
  <1>6. Transaction' /\ ingest!ChangesAreExact'
    BY DEF IngestInv, Transaction, FeedIsCurrent, SeenIsPassed, ItemsKept, ChangesAreFed, Idling,
       Growing,
           ingest!ChangesAreExact, ingest!TypeOK
  <1>7. QED
    BY <1>1, <1>4, <1>5, <1>6 DEF IngestInv

\* Nothing but the poll moves: what is said of the publisher stays.
LEMMA PublisherStays ==
  ASSUME IngestInv, UNCHANGED ingest!publisherVars
  PROVE  /\ ItemsOwned'
         /\ \A x : \A d \in Episodes : Of(x, d) => Of(x, d)'
         /\ \A v : ingest!Shared(v)' = ingest!Shared(v)
  BY DEF IngestInv, ItemsOwned, ingest!Listed, Of, ingest!publisherVars, ingest!Shared

LEMMA BeginStep ==
  ASSUME ingest!FeedIngestAssumption, IngestInv, NEW f \in ingest!Feeds, ingest!Begin(f)
  PROVE  IngestInv'
  <1> USE DEF ingest!Begin
  <1>1. PICK n \in 1 .. MaxItems : f \in [1 .. n -> {item[e] : e \in ingest!Listed}]
    BY DEF ingest!Feeds
  <1>2. n \in Nat /\ DOMAIN f = 1 .. n /\ \A k \in 1 .. n : \E e \in ingest!Listed : f[k] = item[e]
    BY <1>1 DEF ingest!FeedIngestAssumption
  <1>3. f \in Seq(ingest!Item)
    <2>1. \A k \in 1 .. n : f[k] \in ingest!Item
      BY <1>2 DEF IngestInv, ingest!TypeOK, ingest!Listed
    <2>2. QED
      BY <1>1, <1>2, <2>1
  <1>4. ingest!TypeOK'
    BY <1>3 DEF IngestInv, ingest!TypeOK, ingest!publisherVars
  <1>5. ItemsOwned'
    BY PublisherStays
  <1>6. Tables'
    <2>1. Owned(rows)' /\ Owned(work)'
      BY PublisherStays DEF IngestInv, Tables, Owned
    <2>2. QED
      BY <2>1 DEF IngestInv, Tables, Unique
  <1>7. Transaction'
    BY <1>2 DEF Transaction, FeedIsCurrent, ingest!Listed, SeenIsPassed, ItemsKept, ChangesAreFed,
       Idling,
                Growing, ingest!publisherVars, IngestInv, ingest!TypeOK
  <1>8. ingest!ChangesAreExact'
    BY DEF ingest!ChangesAreExact, ingest!Differs, ingest!Changes
  <1>9. QED
    BY <1>4, <1>5, <1>6, <1>7, <1>8 DEF IngestInv

LEMMA IngestEndStep ==
  ASSUME IngestInv, ingest!Commit \/ ingest!Rollback
  PROVE  IngestInv'
  <1>1. ingest!Idle /\ UNCHANGED ingest!publisherVars /\ rows' \in {rows, work}
    BY DEF ingest!Commit, ingest!Rollback
  <1> USE DEF ingest!Idle
  <1>2. ingest!TypeOK'
    BY <1>1 DEF IngestInv, ingest!TypeOK, ingest!publisherVars
  <1>3. ItemsOwned'
    BY <1>1, PublisherStays
  <1>4. Tables'
    <2>1. Owned(rows)'
      BY <1>1, PublisherStays DEF IngestInv, Tables, Owned
    <2>2. Unique(rows)'
      BY <1>1 DEF IngestInv, Tables, Unique
    <2>3. Owned(work)' /\ Unique(work)'
      BY <1>1 DEF Owned, Unique
    <2>4. QED
      BY <2>1, <2>2, <2>3 DEF Tables
  <1>5. Transaction' /\ ingest!ChangesAreExact'
    BY <1>1 DEF Transaction, FeedIsCurrent, SeenIsPassed, ItemsKept, ChangesAreFed, Idling, Growing,
           ingest!ChangesAreExact
  <1>6. QED
    BY <1>2, <1>3, <1>4, <1>5 DEF IngestInv

LEMMA StutterStep ==
  ASSUME IngestInv, UNCHANGED ingest!vars
  PROVE  IngestInv'
  <1> USE DEF ingest!vars, ingest!publisherVars, ingest!txVars
  <1>1. ingest!TypeOK' /\ ItemsOwned'
    BY PublisherStays DEF IngestInv, ingest!TypeOK
  <1>2. Tables'
    BY PublisherStays DEF IngestInv, Tables, Owned, Unique
  <1>3. Transaction' /\ ingest!ChangesAreExact'
    BY PublisherStays DEF IngestInv, Transaction, FeedIsCurrent, ingest!Listed, SeenIsPassed, ItemsKept,
       ChangesAreFed, Idling, Growing, ingest!ChangesAreExact, ingest!Differs, ingest!Changes,
       ingest!Contested, ingest!contentHash
  <1>4. QED
    BY <1>1, <1>2, <1>3 DEF IngestInv

-----------------------------------------------------------------------------
(* One round of the loop.                                                  *)

\* The item at hand and what it is to the rest of the feed and to the table:
\* all that names its episode is that episode's, whose item is the same one,
\* unless another has had its enclosure.
LEMMA ItemAtHand ==
  ASSUME ingest!FeedIngestAssumption, IngestInv, pos \in DOMAIN feed
  PROVE  /\ feed[pos] \in ingest!Item
         /\ \E e \in Episodes : Of(feed[pos], e)
         /\ \A k \in DOMAIN feed :
              feed[k].guid = feed[pos].guid /\ feed[pos].guid # None => feed[k] = feed[pos]
         /\ \A k \in DOMAIN feed :
              Same(feed[k], feed[pos]) /\ ~ingest!Shared(feed[pos].enc) => feed[k] = feed[pos]
         /\ \A id \in DOMAIN work, k \in DOMAIN feed :
              Same(work[id], feed[pos]) /\ Same(work[id], feed[k]) /\ ~ingest!Shared(work[id].enc)
                => feed[k] = feed[pos]
  <1>1. \A k \in DOMAIN feed : \E e \in Episodes : feed[k] = item[e] /\ Of(feed[k], e)
    BY DEF IngestInv, Transaction, FeedIsCurrent, ItemsOwned, ingest!Listed
  <1>2. \A id \in DOMAIN work : \E e \in Episodes : Of(work[id], e)
    BY DEF IngestInv, Tables, Owned
  <1>3. \A d, e \in Episodes : \A x, y :
          /\ Of(x, d) /\ Of(y, e) /\ Same(x, y)
          /\ (x.guid = y.guid /\ y.guid # None) \/ ~ingest!Shared(x.enc)
          => d = e
    BY SameEpisode
  <1>4. feed[pos] \in ingest!Item
    BY DEF IngestInv, ingest!TypeOK
  <1>5. ASSUME NEW k \in DOMAIN feed,
               \/ feed[k].guid = feed[pos].guid /\ feed[pos].guid # None
               \/ Same(feed[k], feed[pos]) /\ ~ingest!Shared(feed[pos].enc)
        PROVE  feed[k] = feed[pos]
    <2>1. /\ Same(feed[pos], feed[k])
          /\ \/ feed[pos].guid = feed[k].guid /\ feed[k].guid # None
             \/ ~ingest!Shared(feed[pos].enc)
      BY <1>5 DEF Same
    <2>2. QED
      BY <1>1, <1>3, <2>1
  <1>6. ASSUME NEW id \in DOMAIN work, NEW k \in DOMAIN feed,
               Same(work[id], feed[pos]), Same(work[id], feed[k]), ~ingest!Shared(work[id].enc)
        PROVE  feed[k] = feed[pos]
    <2>1. PICK e \in Episodes : Of(work[id], e)
      BY <1>2
    <2>2. PICK d \in Episodes : feed[pos] = item[d] /\ Of(feed[pos], d)
      BY <1>1
    <2>3. PICK c \in Episodes : feed[k] = item[c] /\ Of(feed[k], c)
      BY <1>1
    <2>4. d = e
      BY <1>3, <1>6, <2>1, <2>2
    <2>5. c = e
      BY <1>3, <1>6, <2>1, <2>3
    <2>6. QED
      BY <2>2, <2>3, <2>4, <2>5
  <1>7. QED
    BY <1>1, <1>4, <1>5, <1>6

\* An item that is passed over is there already.
LEMMA RepeatIsKept ==
  ASSUME ingest!FeedIngestAssumption, IngestInv, pos \in DOMAIN feed, error = "none",
         ingest!Repeats(feed[pos]), ~ingest!Blank(feed[pos]), ~ingest!Shared(feed[pos].enc)
  PROVE  \E id \in DOMAIN work :
           Same(work[id], feed[pos]) /\ ingest!contentHash(work[id]) = ingest!contentHash(feed[pos])
  <1>1. PICK j \in DOMAIN feed : j < pos /\ Same(feed[j], feed[pos])
    BY DEF IngestInv, Transaction, SeenIsPassed, ingest!Repeats, Same
  <1>2. feed[j] = feed[pos]
    BY <1>1, ItemAtHand
  <1>3. ingest!Identified(feed[j])
    BY <1>1, <1>2 DEF Same, ingest!Identified
  <1>4. QED
    BY <1>1, <1>2, <1>3 DEF IngestInv, Transaction, ItemsKept

LEMMA ItemStep ==
  ASSUME ingest!FeedIngestAssumption, IngestInv, ingest!IngestItem
  PROVE  IngestInv'
  <1> DEFINE i == feed[pos]
             r == ingest!Store(work, i)
  <1>0. pos \in DOMAIN feed /\ error = "none" /\ pos \in Nat /\ pos > 0
    BY DEF ingest!IngestItem, IngestInv, ingest!TypeOK
  <1>1. UNCHANGED <<ingest!publisherVars, rows, feed>>
    BY DEF ingest!IngestItem
  <1>2. i \in ingest!Item
    BY <1>0, ItemAtHand
  <1>3. /\ ItemsOwned'
        /\ \A x : \A d \in Episodes : Of(x, d) => Of(x, d)'
        /\ \A v : ingest!Shared(v)' = ingest!Shared(v)
    BY <1>1, PublisherStays
  <1>4. /\ seenGUIDs' \subseteq ingest!Guids /\ seenEnclosures' \subseteq Encs
        /\ \A v \in seenGUIDs' : v \in seenGUIDs \/ v = i.guid
        /\ \A v \in seenEnclosures' : v \in seenEnclosures \/ v = i.enc
    <2>1. seenGUIDs' \in {seenGUIDs, seenGUIDs \cup ({i.guid} \ {None})}
      BY DEF ingest!IngestItem, ingest!Remember
    <2>2. seenEnclosures' \in {seenEnclosures, seenEnclosures \cup ({i.enc} \ {None})}
      BY DEF ingest!IngestItem, ingest!Remember
    <2>3. QED
      BY <1>2, <2>1, <2>2 DEF IngestInv, ingest!TypeOK, ingest!Item
  <1>5. CASE UNCHANGED <<work, changes>> /\ pos' = pos + 1 /\ error' = error
    <2> SUFFICES ASSUME ~ingest!Blank(i) /\ ingest!Identified(i) /\ ~ingest!Shared(i.enc) =>
                          \E id \in DOMAIN work : Same(work[id], i) /\ ingest!contentHash(work[id]) = ingest!contentHash(i)
                 PROVE  IngestInv'
      <3>1. CASE ingest!Skipped(i)
        BY <1>0, <3>1, RepeatIsKept DEF ingest!Skipped
      <3>2. CASE ~ingest!Skipped(i)
        <4>1. r.outcome \in {"inserted", "updated", "unchanged"} /\ (r.outcome # "unchanged" => changes' = Append(changes, r.id))
          BY <1>5, <1>0, <3>2 DEF ingest!IngestItem
        <4>2. changes \in Seq(Nat)
          BY DEF IngestInv, ingest!TypeOK
        <4>3. changes # Append(changes, r.id)
          BY <4>2
        <4>4. r.outcome = "unchanged"
          BY <1>5, <4>1, <4>3
        <4>5. Outcome(work, i, r)
          BY <1>2, StoreOutcome DEF IngestInv, ingest!TypeOK
        <4>6. QED
          BY <4>4, <4>5 DEF Outcome
      <3>3. QED
        BY <3>1, <3>2
    <2>1. ingest!TypeOK'
      BY <1>0, <1>1, <1>4, <1>5 DEF IngestInv, ingest!TypeOK, ingest!publisherVars
    <2>2. Tables'
      <3>1. Owned(rows)' /\ Owned(work)'
        BY <1>1, <1>3, <1>5 DEF IngestInv, Tables, Owned
      <3>2. QED
        BY <1>1, <1>5, <3>1 DEF IngestInv, Tables, Unique
    <2>3. SeenIsPassed'
      <3>1. pos < pos' /\ \A j \in DOMAIN feed : j < pos => j < pos'
        BY <1>0, <1>5 DEF IngestInv, ingest!TypeOK
      <3>2. \A v \in seenGUIDs' : \E j \in DOMAIN feed : j < pos' /\ feed[j].guid = v
        BY <1>0, <1>4, <3>1 DEF IngestInv, Transaction, SeenIsPassed
      <3>3. \A v \in seenEnclosures' : \E j \in DOMAIN feed : j < pos' /\ feed[j].enc = v
        BY <1>0, <1>4, <3>1 DEF IngestInv, Transaction, SeenIsPassed
      <3>4. QED
        BY <1>1, <3>2, <3>3 DEF SeenIsPassed
    <2>4. ItemsKept'
      <3> SUFFICES ASSUME NEW k \in DOMAIN feed, k < pos', ~ingest!Blank(feed[k]), ingest!Identified(feed[k]),
                          ~ingest!Shared(feed[k].enc)
                   PROVE  \E id \in DOMAIN work :
                            Same(work[id], feed[k]) /\ ingest!contentHash(work[id]) = ingest!contentHash(feed[k])
        BY <1>1, <1>3, <1>5 DEF ItemsKept, Same, ingest!Blank, ingest!Identified, ingest!contentHash
      <3>1. CASE k = pos
        BY <3>1
      <3>2. CASE k < pos
        BY <3>2 DEF IngestInv, Transaction, ItemsKept
      <3>3. QED
        BY <1>0, <1>5, <3>1, <3>2 DEF IngestInv, ingest!TypeOK
    <2>5. Transaction'
      BY <1>0, <1>1, <1>5, <2>3, <2>4
         DEF IngestInv, ingest!TypeOK, Transaction, FeedIsCurrent, ingest!Listed, ChangesAreFed,
            Idling, Growing, ingest!publisherVars
    <2>6. ingest!ChangesAreExact'
      BY <1>0, <1>1, <1>5 DEF IngestInv, ingest!ChangesAreExact, ingest!Differs, ingest!Changes,
         ingest!Contested, ingest!contentHash
    <2>7. QED
      BY <1>3, <2>1, <2>2, <2>5, <2>6 DEF IngestInv
  <1>6. CASE /\ r.outcome \in {"inserted", "updated"} /\ work' = r.rows
             /\ changes' = Append(changes, r.id) /\ pos' = pos + 1 /\ error' = error
    <2> DEFINE new == r.id
    <2>1. /\ new \in 1 .. Len(work) + 1 /\ work' = Written(work, new, i)
          /\ ~ingest!Taken(work, new, "guid", i.guid) /\ ~ingest!Taken(work, new, "enc", i.enc)
          /\ new \in DOMAIN work => Same(work[new], i) /\ ingest!contentHash(work[new]) # ingest!contentHash(i)
      <3>1. Outcome(work, i, r)
        BY <1>2, StoreOutcome DEF IngestInv, ingest!TypeOK
      <3>2. work \in Seq(ingest!Item)
        BY DEF IngestInv, ingest!TypeOK
      <3>3. DOMAIN work = 1 .. Len(work) /\ Len(work) \in Nat
        BY <3>2
      <3>4. CASE r.outcome = "inserted"
        BY <1>6, <3>1, <3>3, <3>4 DEF Outcome
      <3>5. CASE r.outcome = "updated"
        BY <1>6, <3>1, <3>3, <3>5 DEF Outcome
      <3>6. QED
        BY <1>6, <3>4, <3>5
    <2> HIDE DEF new, r
    <2>2. /\ work' \in Seq(ingest!Item) /\ DOMAIN work' = DOMAIN work \cup {new}
          /\ Len(work) <= Len(work') /\ work'[new] = i
          /\ \A k \in DOMAIN work : k # new => work'[k] = work[k]
      <3>1. work \in Seq(ingest!Item)
        BY DEF IngestInv, ingest!TypeOK
      <3>2. /\ Written(work, new, i) \in Seq(ingest!Item)
            /\ DOMAIN work \cup {new} = DOMAIN Written(work, new, i)
            /\ Len(work) <= Len(Written(work, new, i))
            /\ Written(work, new, i)[new] = i
            /\ \A k \in DOMAIN work : k # new => Written(work, new, i)[k] = work[k]
        BY <1>2, <2>1, <3>1, WrittenRows
      <3>3. work' = Written(work, new, i)
        BY <2>1
      <3>4. QED
        BY <3>2, <3>3
    <2>3. changes' = Append(changes, new)
      BY <1>6 DEF new
    <2>4. /\ changes' \in Seq(Nat) /\ DOMAIN changes' = DOMAIN changes \cup {Len(changes) + 1}
          /\ Len(changes) + 1 \notin DOMAIN changes /\ changes'[Len(changes) + 1] = new
          /\ \A c \in DOMAIN changes : changes'[c] = changes[c]
      <3>1. changes \in Seq(Nat) /\ new \in Nat /\ Len(changes) \in Nat
        BY <2>1 DEF IngestInv, ingest!TypeOK
      <3>2. QED
        BY <2>3, <3>1
    <2>5. ingest!TypeOK'
      BY <1>0, <1>1, <1>4, <1>6, <2>2, <2>4 DEF IngestInv, ingest!TypeOK, ingest!publisherVars
    <2>6. Owned(work)'
      <3> SUFFICES ASSUME NEW k \in DOMAIN work', NEW x, x = work'[k]
                   PROVE  \E e \in Episodes : Of(x, e)'
        BY DEF Owned
      <3>1. \E e \in Episodes : Of(x, e)
        BY <1>0, <2>2, ItemAtHand DEF IngestInv, Tables, Owned
      <3>2. QED
        BY <1>3, <3>1
    <2>7. Unique(work)'
      <3>1. \A k \in DOMAIN work : k # new =>
              /\ work[k].guid = i.guid => i.guid = None
              /\ work[k].enc = i.enc => i.enc = None
        BY <2>1 DEF ingest!Taken
      <3> SUFFICES ASSUME NEW j \in DOMAIN work', NEW k \in DOMAIN work'
                   PROVE  /\ work'[j].guid = work'[k].guid /\ work'[k].guid # None => j = k
                          /\ work'[j].enc = work'[k].enc /\ work'[k].enc # None => j = k
        BY DEF Unique
      <3>2. CASE j # new /\ k # new
        BY <2>2, <3>2 DEF IngestInv, Tables, Unique
      <3>3. \A h \in DOMAIN work' : h # new =>
              /\ work'[h].guid = work'[new].guid => work'[h].guid = None
              /\ work'[h].enc = work'[new].enc => work'[h].enc = None
        BY <2>2, <3>1
      <3>4. new \in DOMAIN work'
        BY <2>2
      <3>5. QED
        BY <3>2, <3>3, <3>4
    <2>8. Tables'
      <3>1. Owned(rows)'
        BY <1>1, <1>3 DEF IngestInv, Tables, Owned
      <3>2. Unique(rows)'
        BY <1>1 DEF IngestInv, Tables, Unique
      <3>3. QED
        BY <2>6, <2>7, <3>1, <3>2 DEF Tables
    <2>9. SeenIsPassed'
      <3>1. pos < pos' /\ \A j \in DOMAIN feed : j < pos => j < pos'
        BY <1>0, <1>6 DEF IngestInv, ingest!TypeOK
      <3>2. \A v \in seenGUIDs' : \E j \in DOMAIN feed : j < pos' /\ feed[j].guid = v
        BY <1>0, <1>4, <3>1 DEF IngestInv, Transaction, SeenIsPassed
      <3>3. \A v \in seenEnclosures' : \E j \in DOMAIN feed : j < pos' /\ feed[j].enc = v
        BY <1>0, <1>4, <3>1 DEF IngestInv, Transaction, SeenIsPassed
      <3>4. QED
        BY <1>1, <3>2, <3>3 DEF SeenIsPassed
    <2>10. ItemsKept'
      <3> SUFFICES ASSUME NEW k \in DOMAIN feed, k < pos + 1, ~ingest!Blank(feed[k]), ingest!Identified(feed[k]),
                          ~ingest!Shared(feed[k].enc)
                   PROVE  \E id \in DOMAIN work' :
                            Same(work'[id], feed[k]) /\ ingest!contentHash(work'[id]) = ingest!contentHash(feed[k])
        BY <1>1, <1>3, <1>6 DEF ItemsKept, Same, ingest!contentHash, ingest!Blank, ingest!Identified
      <3>1. CASE k = pos
        BY <2>2, <3>1 DEF Same, ingest!Identified
      <3>2. CASE k < pos
        <4>1. PICK id \in DOMAIN work : Same(work[id], feed[k]) /\ ingest!contentHash(work[id]) = ingest!contentHash(feed[k])
          BY <3>2 DEF IngestInv, Transaction, ItemsKept
        <4>2. id # new
          <5> SUFFICES ASSUME id = new PROVE FALSE
            OBVIOUS
          <5>1. ~ingest!Shared(work[id].enc)
            BY <4>1 DEF ingest!contentHash
          <5>2. feed[k] = i
            BY <1>0, <2>1, <4>1, <5>1, ItemAtHand
          <5>3. QED
            BY <2>1, <4>1, <5>2
        <4>3. QED
          BY <2>2, <4>1, <4>2
      <3>3. QED
        BY <1>0, <3>1, <3>2 DEF IngestInv, ingest!TypeOK
    <2>11. \A c \in DOMAIN changes : changes[c] \in DOMAIN work
      BY <1>0 DEF IngestInv, ingest!ChangesAreExact
    <2>12. \A c \in DOMAIN changes : changes[c] = new => ingest!Contested(i.enc)
      <3> SUFFICES ASSUME NEW c \in DOMAIN changes, changes[c] = new PROVE ingest!Contested(i.enc)
        OBVIOUS
      <3>1. PICK k \in DOMAIN feed : work[new] = feed[k]
        BY DEF IngestInv, Transaction, ChangesAreFed
      <3>2. Same(feed[k], i) /\ ingest!contentHash(feed[k]) # ingest!contentHash(i)
        BY <2>1, <2>11, <3>1
      <3>3. feed[k] # i
        BY <3>2
      <3>4. ~(feed[k].guid = i.guid /\ i.guid # None)
        BY <1>0, <3>3, ItemAtHand
      <3>5. feed[k].enc = i.enc /\ i.enc # None
        BY <3>2, <3>4 DEF Same
      <3>6. QED
        BY <1>0, <3>3, <3>5 DEF ingest!Contested
    <2>13. ChangesAreFed'
      <3> SUFFICES ASSUME NEW c \in DOMAIN changes' PROVE \E k \in DOMAIN feed : work'[changes'[c]] = feed[k]
        BY <1>1 DEF ChangesAreFed
      <3>1. CASE c \in DOMAIN changes
        BY <1>0, <2>2, <2>4, <2>11, <3>1 DEF IngestInv, Transaction, ChangesAreFed
      <3>2. CASE c = Len(changes) + 1
        BY <1>0, <2>2, <2>4, <3>2
      <3>3. QED
        BY <2>4, <3>1, <3>2
    <2>14. Transaction'
      BY <1>0, <1>1, <1>6, <2>2, <2>9, <2>10, <2>13
         DEF IngestInv, ingest!TypeOK, Transaction, FeedIsCurrent, ingest!Listed, Idling, Growing,
            ingest!publisherVars
    <2>15. ingest!ChangesAreExact'
      <3>1. \A id \in DOMAIN work :
              /\ ingest!Differs(id) => ingest!Changes(id) # {}
              /\ ~ingest!Contested(work[id].enc) =>
                   /\ ingest!Changes(id) # {} => ingest!Differs(id)
                   /\ \A c, d \in ingest!Changes(id) : c = d
        BY <1>0 DEF IngestInv, ingest!ChangesAreExact
      <3>2. \A c \in DOMAIN changes' : changes'[c] \in DOMAIN work'
        BY <2>2, <2>4, <2>11
      <3> SUFFICES ASSUME NEW id \in DOMAIN work'
                   PROVE  (/\ ingest!Differs(id) => ingest!Changes(id) # {}
                           /\ ~ingest!Contested(work[id].enc) =>
                                /\ ingest!Changes(id) # {} => ingest!Differs(id)
                                /\ \A c, d \in ingest!Changes(id) : c = d)'
        BY <3>2 DEF ingest!ChangesAreExact
      <3>3. ingest!Contested(work[id].enc)' = ingest!Contested(work'[id].enc)
        BY <1>1 DEF ingest!Contested
      <3>4. CASE id # new
        <4>1. id \in DOMAIN work /\ work'[id] = work[id]
          BY <2>2, <3>4
        <4>2. ingest!Differs(id)' = ingest!Differs(id)
          BY <1>1, <4>1 DEF ingest!Differs, ingest!contentHash
        <4>3. ingest!Changes(id)' = ingest!Changes(id)
          BY <2>4, <3>4 DEF ingest!Changes
        <4>4. QED
          BY <3>1, <3>3, <4>1, <4>2, <4>3
      <3>5. CASE id = new
        <4>1. Len(changes) + 1 \in ingest!Changes(id)'
          BY <2>4, <3>5 DEF ingest!Changes
        <4>2. ASSUME ~ingest!Contested(i.enc)
              PROVE  ingest!Differs(id)' /\ \A c, d \in ingest!Changes(id)' : c = d
          <5>1. \A c \in DOMAIN changes : changes[c] # id
            BY <2>12, <3>5, <4>2
          <5>2. \A c \in ingest!Changes(id)' : c = Len(changes) + 1
            BY <2>4, <5>1 DEF ingest!Changes
          <5>3. CASE id \in DOMAIN work
            <6>1. ~ingest!Differs(id)
              <7>1. ingest!Changes(id) = {}
                BY <5>1 DEF ingest!Changes
              <7>2. QED
                BY <3>1, <5>3, <7>1
            <6>2. id \in DOMAIN rows /\ ingest!contentHash(rows[id]) # ingest!contentHash(i)
              BY <2>1, <3>5, <5>3, <6>1 DEF ingest!Differs
            <6>3. QED
              BY <1>1, <2>2, <3>5, <5>2, <6>2 DEF ingest!Differs, ingest!contentHash
          <5>4. CASE id \notin DOMAIN work
            <6>1. id \notin DOMAIN rows
              BY <1>0, <2>1, <3>5, <5>4 DEF IngestInv, ingest!TypeOK, Transaction, Growing
            <6>2. QED
              BY <1>1, <5>2, <6>1 DEF ingest!Differs
          <5>5. QED
            BY <5>3, <5>4
        <4>3. QED
          BY <2>2, <3>3, <3>5, <4>1, <4>2
      <3>6. QED
        BY <3>4, <3>5
    <2>16. QED
      BY <1>3, <2>5, <2>8, <2>14, <2>15 DEF IngestInv
  <1>7. CASE UNCHANGED <<work, changes, pos>> /\ error' \in {"episodes_guid_key", "episodes_enclosure_key"}
    <2>1. ingest!TypeOK'
      BY <1>1, <1>4, <1>7 DEF IngestInv, ingest!TypeOK, ingest!publisherVars
    <2>2. Tables'
      <3>1. Owned(rows)' /\ Owned(work)'
        BY <1>1, <1>3, <1>7 DEF IngestInv, Tables, Owned
      <3>2. QED
        BY <1>1, <1>7, <3>1 DEF IngestInv, Tables, Unique
    <2>3. Transaction'
      <3>1. ItemsKept'
        BY <1>1, <1>3, <1>7 DEF IngestInv, Transaction, ItemsKept
      <3>2. QED
        BY <1>0, <1>1, <1>7, <3>1
           DEF IngestInv, Transaction, FeedIsCurrent, ingest!Listed, SeenIsPassed, ChangesAreFed,
               Idling, Growing, ingest!publisherVars
    <2>4. ingest!ChangesAreExact'
      BY <1>0, <1>1, <1>7 DEF IngestInv, ingest!ChangesAreExact, ingest!Differs, ingest!Changes,
         ingest!Contested, ingest!contentHash
    <2>5. QED
      BY <1>3, <2>1, <2>2, <2>3, <2>4 DEF IngestInv
  <1>8. QED
    <2>1. Outcome(work, i, r)
      BY <1>2, StoreOutcome DEF IngestInv, ingest!TypeOK
    <2>2. r.outcome \in {"inserted", "updated", "unchanged", "episodes_guid_key", "episodes_enclosure_key"}
      BY <2>1 DEF Outcome
    <2>3. CASE ingest!Skipped(i)
      BY <1>5, <2>3 DEF ingest!IngestItem
    <2>4. CASE ~ingest!Skipped(i) /\ r.outcome = "unchanged"
      <3>1. r.rows = work
        BY <2>1, <2>4 DEF Outcome
      <3>2. QED
        BY <1>5, <2>4, <3>1 DEF ingest!IngestItem
    <2>5. CASE ~ingest!Skipped(i) /\ r.outcome \in {"inserted", "updated"}
      BY <1>6, <2>5 DEF ingest!IngestItem
    <2>6. CASE ~ingest!Skipped(i) /\ r.outcome \in {"episodes_guid_key", "episodes_enclosure_key"}
      BY <1>7, <2>6 DEF ingest!IngestItem
    <2>7. QED
      BY <2>2, <2>3, <2>4, <2>5, <2>6

-----------------------------------------------------------------------------
LEMMA IngestStep ==
  ASSUME ingest!FeedIngestAssumption
  PROVE  IngestInv /\ [ingest!Next]_(ingest!vars) => IngestInv'
  BY PublishStep, BeginStep, ItemStep, IngestEndStep, StutterStep DEF ingest!Next

\* IngestFeed: the inductive invariant, in any series of polls and edits.
THEOREM IngestInvariance == Spec => []IngestInv
  BY IngestBehaviour, IngestInit, IngestStep, RecordsAssumption, PTL DEF ingest!Spec

\* A row is always an item that some episode has had, and a steady episode's
\* items have its GUID: one row has it, or an enclosure that no other
\* episode had, however often it is rehosted and whatever others share with it.
THEOREM OneRow == Spec => []OneRowPerEpisode
  <1>1. IngestInv => ingest!OneRowPerEpisode
    <2> SUFFICES ASSUME IngestInv, NEW e \in steady
                 PROVE  LET Tells(id) == \/ rows[id].guid = GuidOf[e]
                                         \/ rows[id].enc \in hosted[e] /\ ~ingest!Shared(rows[id].enc)
                        IN  \A k, id \in DOMAIN rows : Tells(k) /\ Tells(id) => k = id
      BY DEF ingest!OneRowPerEpisode
    <2>1. e \in Episodes /\ GuidOf[e] # None /\ None \notin hosted[e]
      BY RecordsAssumption DEF IngestInv, ingest!TypeOK, ingest!FeedIngestAssumption
    <2>2. \A k \in DOMAIN rows :
            rows[k].enc \in hosted[e] /\ ~ingest!Shared(rows[k].enc) => rows[k].guid = GuidOf[e]
      <3> SUFFICES ASSUME NEW k \in DOMAIN rows, rows[k].enc \in hosted[e], ~ingest!Shared(rows[k].enc)
                   PROVE  rows[k].guid = GuidOf[e]
        OBVIOUS
      <3>1. PICK d \in Episodes : Of(rows[k], d)
        BY DEF IngestInv, Tables, Owned
      <3>2. d = e
        BY <2>1, <3>1 DEF Of, ingest!Shared
      <3>3. QED
        BY <3>1, <3>2 DEF Of
    <2>3. QED
      BY <2>1, <2>2 DEF IngestInv, Tables, Unique
  <1>2. QED
    BY IngestInvariance, <1>1, PTL DEF OneRowPerEpisode

\* What the loop has passed is in the table with its content, in any order, with
\* any repeats and whatever other items share, if it has a GUID or an enclosure
\* and no other episode had that enclosure.
THEOREM ItemsStored == Spec => []EveryItemStored
  <1>1. IngestInv => ingest!EveryItemStored
    BY DEF IngestInv, Transaction, ItemsKept, ingest!EveryItemStored
  <1>2. QED
    BY IngestInvariance, <1>1, PTL DEF EveryItemStored

\* The changes IngestFeed returns: in any feed, no row whose content its
\* transaction changed is left out; and but for the rows that two items of the
\* feed contend for by one enclosure, none is told twice or without a difference.
THEOREM ExactChanges == Spec => []ChangesAreExact
  <1>1. IngestInv => ingest!ChangesAreExact
    BY DEF IngestInv
  <1>2. QED
    BY IngestInvariance, <1>1, PTL DEF ChangesAreExact

-----------------------------------------------------------------------------
(* The transcripts of an episode (TranscriptFetch).                        *)

Files == [link : Links, version : Nat]
Formats == {FormatOf[l] : l \in Links}
Places == {"none", "pending", "start", "fetched", "put", "begun", "stored", "done", "dead"}

TranscriptTyped ==
  /\ version \in [Links -> Nat] /\ body \in [Links -> Nat]
  /\ episode \in BOOLEAN /\ job \in [Links -> Places]
  /\ objects \in [Formats -> Files \cup {None}]
  /\ row \in Files \cup {None}

\* A handler holds nothing newer than what the publisher serves.
HeldIsServed == \A l \in Links : body[l] <= version[l]

\* The object of a link with a format of its own is that link's, ...
OwnObject ==
  \A l \in Links : transcripts!Alone(l) /\ objects[FormatOf[l]] # None => objects[FormatOf[l]].link = l

\* ... no newer than what the publisher serves, ...
Upstream ==
  \A l \in Links :
    transcripts!Alone(l) /\ objects[FormatOf[l]] # None => objects[FormatOf[l]].version <= version[l]

\* ... no newer than what a handler has just fetched, ...
FetchedIsNewest ==
  \A l \in Links :
    transcripts!Alone(l) /\ job[l] = "fetched" /\ objects[FormatOf[l]] # None
      => objects[FormatOf[l]].version <= body[l]

\* ... and, once put, the file of the handler until its transaction ends.
PutIsThere ==
  \A l \in Links : transcripts!Alone(l) /\ job[l] \in {"put", "begun"} => objects[FormatOf[l]] = transcripts!File(l)

TranscriptInv ==
  /\ TranscriptTyped /\ HeldIsServed /\ OwnObject /\ Upstream /\ FetchedIsNewest /\ PutIsThere
  /\ transcripts!RowIsBacked

LEMMA TranscriptInit == transcripts!Init => TranscriptInv
  <1> SUFFICES ASSUME transcripts!Init PROVE TranscriptInv
    OBVIOUS
  <1> USE DEF transcripts!Init
  <1>1. TranscriptTyped
    BY DEF TranscriptTyped, Formats, Places
  <1>2. \A l \in Links : objects[FormatOf[l]] = None /\ job[l] = "none"
    OBVIOUS
  <1>3. HeldIsServed
    BY DEF HeldIsServed
  <1>4. OwnObject /\ Upstream /\ FetchedIsNewest /\ PutIsThere
    BY <1>2 DEF OwnObject, Upstream, FetchedIsNewest, PutIsThere
  <1>5. transcripts!RowIsBacked
    BY DEF transcripts!RowIsBacked
  <1>6. QED
    BY <1>1, <1>3, <1>4, <1>5 DEF TranscriptInv

\* What a handler holds is a file.
LEMMA FilesAreTyped ==
  ASSUME transcripts!TranscriptAssumption, TranscriptTyped, NEW l \in Links
  PROVE  transcripts!File(l) \in Files /\ transcripts!File(l) # None /\ FormatOf[l] \in Formats
  BY DEF Formats, TranscriptTyped, transcripts!File, Files, transcripts!TranscriptAssumption

LEMMA TranscriptStep ==
  ASSUME transcripts!TranscriptAssumption
  PROVE  TranscriptInv /\ [transcripts!Next]_(transcripts!vars) => TranscriptInv'
  <1> SUFFICES ASSUME TranscriptInv, [transcripts!Next]_(transcripts!vars) PROVE TranscriptInv'
    OBVIOUS
  <1> USE DEF TranscriptInv, TranscriptTyped, HeldIsServed, OwnObject, Upstream, FetchedIsNewest,
     PutIsThere, transcripts!RowIsBacked,
              transcripts!Alone, Formats, Places, transcripts!File
  <1>1. CASE transcripts!EnqueueTranscripts
    BY <1>1 DEF transcripts!EnqueueTranscripts
  <1>2. CASE transcripts!DeletePodcast
    BY <1>2 DEF transcripts!DeletePodcast
  <1>3. ASSUME NEW l \in Links, transcripts!Replace(l) PROVE TranscriptInv'
    BY <1>3 DEF transcripts!Replace, Files
  <1>4. ASSUME NEW l \in Links, transcripts!Fail(l) PROVE TranscriptInv'
    BY <1>4 DEF transcripts!Fail, transcripts!Goto, transcripts!Retried
  <1>5. ASSUME NEW l \in Links, transcripts!Claim(l) PROVE TranscriptInv'
    BY <1>5 DEF transcripts!Claim, transcripts!Goto
  <1>6. ASSUME NEW l \in Links, transcripts!Fetch(l) PROVE TranscriptInv'
    BY <1>6 DEF transcripts!Fetch, transcripts!Goto
  <1>7. ASSUME NEW l \in Links, transcripts!Put(l) PROVE TranscriptInv'
    <2>1. /\ job[l] = "fetched" /\ job' = [job EXCEPT ![l] = "put"]
          /\ objects' = [objects EXCEPT ![FormatOf[l]] = transcripts!File(l)]
          /\ UNCHANGED <<version, episode, attempts, body, row, announced, lost>>
      BY <1>7 DEF transcripts!Put, transcripts!Goto, transcripts!Uploaded
    <2>2. transcripts!File(l) \in Files /\ transcripts!File(l) # None /\ FormatOf[l] \in Formats
      BY FilesAreTyped
    <2>3. transcripts!File(l).link = l /\ transcripts!File(l).version = body[l] /\ body[l] \in Nat
      OBVIOUS
    <2>4. objects'[FormatOf[l]] = transcripts!File(l) /\ \A f \in Formats : f # FormatOf[l] => objects'[f] = objects[f]
      BY <2>1, <2>2
    <2>5. TranscriptTyped'
      BY <2>1, <2>2
    <2>6. \A k \in Links : transcripts!Alone(k) /\ k # l => objects'[FormatOf[k]] = objects[FormatOf[k]] /\ job'[k] = job[k]
      BY <2>1, <2>4
    <2>7. HeldIsServed' /\ OwnObject' /\ Upstream' /\ FetchedIsNewest' /\ PutIsThere'
      BY <2>1, <2>3, <2>4, <2>6
    <2>8. transcripts!RowIsBacked'
      BY <2>1, <2>2, <2>3, <2>4, <2>6 DEF Files
    <2>9. QED
      BY <2>5, <2>7, <2>8
  <1>8. ASSUME NEW l \in Links, transcripts!Begin(l) PROVE TranscriptInv'
    BY <1>8 DEF transcripts!Begin, transcripts!Goto
  <1>9. ASSUME NEW l \in Links, transcripts!Commit(l) PROVE TranscriptInv'
    <2>1. CASE ~episode
      BY <1>9, <2>1 DEF transcripts!Commit, transcripts!Goto, transcripts!Retried
    <2>2. CASE episode
      <3>1. /\ job[l] = "begun" /\ job' = [job EXCEPT ![l] = "stored"]
            /\ row' = transcripts!File(l) /\ announced' = transcripts!File(l)
            /\ UNCHANGED <<version, episode, attempts, body, objects, lost>>
        BY <1>9, <2>2 DEF transcripts!Commit, transcripts!Goto
      <3>2. transcripts!File(l) \in Files /\ transcripts!File(l) # None
        BY FilesAreTyped
      <3>3. transcripts!File(l).link = l /\ body[l] \in Nat
        OBVIOUS
      <3>4. TranscriptTyped' /\ HeldIsServed' /\ OwnObject' /\ Upstream' /\ FetchedIsNewest' /\ PutIsThere'
        BY <3>1, <3>2
      <3>5. transcripts!RowIsBacked'
        BY <3>1, <3>2, <3>3
      <3>6. QED
        BY <3>4, <3>5
    <2>3. QED
      BY <2>1, <2>2
  <1>10. ASSUME NEW l \in Links, transcripts!Complete(l) PROVE TranscriptInv'
    BY <1>10 DEF transcripts!Complete, transcripts!Goto
  <1>11. CASE UNCHANGED transcripts!vars
    BY <1>11 DEF transcripts!vars
  <1>12. QED
    BY <1>1, <1>2, <1>3, <1>4, <1>5, <1>6, <1>7, <1>8, <1>9, <1>10, <1>11 DEF transcripts!Next,
       transcripts!Handle

\* The transcripts row names the last announced transcript and, where its format
\* has one link, an object of that link that is no older than the text, for any
\* interleaving of jobs, replacements, failures and the podcast's deletion.
THEOREM BackedRow == Spec => []RowIsBacked
  <1>1. TranscriptInv => transcripts!RowIsBacked
    BY DEF TranscriptInv
  <1>2. QED
    BY TranscriptBehaviour, TranscriptInit, TranscriptStep, <1>1, RecordsAssumption, PTL
       DEF transcripts!Spec, RowIsBacked

-----------------------------------------------------------------------------
(* The chains of recurring jobs (CatalogJobs).                             *)

JobRows ==
  [state : {"pending", "running", "done", "dead"}, attempts : Nat, runAt : Nat,
   at : Shows \cup {"start", "each", "returned"}, todo : SUBSET Shows, clock : Nat]

\* One of the latest jobs of a type, if there are any.
HasLast(D, type) ==
  (\E j \in D : j[1] = type) =>
    \E latest \in D : latest[1] = type /\ \A k \in D : k[1] = type => k[2] <= latest[2]

\* A row of job j of table q at time t: a recurring job runs in its period or
\* later and tells the time then, ...
OnTime(j, r, t) ==
  /\ r \in JobRows
  /\ j[1] \in catalog!Recurring =>
       /\ j[2] = catalog!Bucket(j[1], r.runAt)
       /\ r.state = "running" => r.runAt <= t
       /\ r.at # "start" => r.runAt <= r.clock

\* ... and its successor is there, of a later period, before it is done.
Succeeded(q, j, r) ==
  j[1] \in catalog!Recurring /\ (r.state = "done" \/ r.at = "returned") =>
    \E k \in DOMAIN q : k[1] = j[1] /\ k[2] > j[2]

TableOK(q, t) ==
  /\ \A j \in DOMAIN q : OnTime(j, q[j], t) /\ Succeeded(q, j, q[j])
  /\ \A type \in catalog!Recurring : HasLast(DOMAIN q, type)

ChainInv ==
  /\ now \in Nat /\ podcasts \subseteq Shows /\ starts \in Nat
  /\ TableOK(jobs, now)
  /\ starts > 0 => \A type \in catalog!Recurring : \E j \in DOMAIN jobs : j[1] = type

\* The bucket of a successor is later than that of any job that has run.
LEMMA LaterBucket ==
  ASSUME catalog!CatalogAssumption, NEW type \in catalog!Recurring, NEW a \in Nat, NEW b \in Nat, a <= b
  PROVE  /\ catalog!Period(type) + b \in Nat
         /\ catalog!Bucket(type, a) \in Nat
         /\ catalog!Bucket(type, catalog!Period(type) + b) > catalog!Bucket(type, a)
  <1>1. Day \in Nat \ {0}
    BY DEF catalog!CatalogAssumption
  <1>2. a \div Day \in Nat /\ (Day + b) \div Day > a \div Day
    BY <1>1
  <1>3. QED
    BY <1>1, <1>2 DEF catalog!Bucket, catalog!Period

LEMMA LastOfMore ==
  ASSUME NEW D, NEW x, NEW type, HasLast(D, type), \A k \in D \cup {x} : k[1] = type => k[2] \in Nat
  PROVE  HasLast(D \cup {x}, type)
  <1>1. CASE x[1] = type /\ \E j \in D : j[1] = type
    <2>1. PICK latest \in D : latest[1] = type /\ \A k \in D : k[1] = type => k[2] <= latest[2]
      BY <1>1 DEF HasLast
    <2>2. CASE x[2] <= latest[2]
      BY <2>1, <2>2 DEF HasLast
    <2>3. CASE ~(x[2] <= latest[2])
      <3>1. x[2] \in Nat /\ latest[2] \in Nat /\ latest[2] <= x[2]
        BY <1>1, <2>1, <2>3
      <3>2. \A k \in D \cup {x} : k[1] = type => k[2] <= x[2]
        BY <2>1, <3>1
      <3>3. QED
        BY <1>1, <3>2 DEF HasLast
    <2>4. QED
      BY <2>2, <2>3
  <1>2. CASE x[1] = type /\ ~\E j \in D : j[1] = type
    <2>1. \A k \in D \cup {x} : k[1] = type => k = x
      BY <1>2
    <2>2. x[2] \in Nat /\ x[2] <= x[2]
      BY <1>2
    <2>3. QED
      BY <1>2, <2>1, <2>2 DEF HasLast
  <1>3. CASE x[1] # type
    BY <1>3 DEF HasLast
  <1>4. QED
    BY <1>1, <1>2, <1>3

LEMMA BucketsAreNumbers ==
  ASSUME catalog!CatalogAssumption, NEW j, NEW r, NEW t, OnTime(j, r, t), j[1] \in catalog!Recurring
  PROVE  j[2] \in Nat
  <1>1. r.runAt \in Nat /\ j[2] = catalog!Bucket(j[1], r.runAt)
    BY DEF OnTime, JobRows
  <1>2. QED
    BY <1>1, LaterBucket

\* Queue.EnqueueIn keeps the table in order.
LEMMA EnqueueOne ==
  ASSUME catalog!CatalogAssumption, NEW q, NEW t, TableOK(q, t), NEW x, NEW at \in Nat,
         x[1] \in catalog!Recurring => x[2] = catalog!Bucket(x[1], at)
  PROVE  LET e == catalog!Enqueued(q, catalog!NewJob(x, at))
         IN  /\ TableOK(e, t) /\ DOMAIN e = DOMAIN q \cup {x}
             /\ \A j \in DOMAIN q : e[j] = q[j]
  <1> DEFINE e == catalog!Enqueued(q, catalog!NewJob(x, at))
             new == [state |-> "pending", attempts |-> 0, runAt |-> at, at |-> "start", todo |-> {}, clock |-> 0]
  <1>1. /\ DOMAIN e = DOMAIN q \cup {x} /\ \A j \in DOMAIN q : e[j] = q[j]
        /\ x \notin DOMAIN q => e[x] = new
    BY DEF catalog!Enqueued, catalog!NewJob
  <1>2. OnTime(x, new, t) /\ Succeeded(e, x, new)
    BY DEF OnTime, Succeeded, JobRows
  <1> HIDE DEF e, new
  <1>3. \A j \in DOMAIN e : OnTime(j, e[j], t) /\ Succeeded(e, j, e[j])
    BY <1>1, <1>2 DEF TableOK, Succeeded
  <1>4. \A k \in DOMAIN e : k[1] \in catalog!Recurring => k[2] \in Nat
    BY <1>3, BucketsAreNumbers
  <1>5. \A type \in catalog!Recurring : HasLast(DOMAIN e, type)
    BY <1>1, <1>4, LastOfMore DEF TableOK
  <1>6. QED
    BY <1>1, <1>3, <1>5 DEF TableOK, e

\* A row's update keeps the table in order.
LEMMA UpdateOne ==
  ASSUME NEW q, NEW t, TableOK(q, t), NEW j \in DOMAIN q, NEW r, OnTime(j, r, t), Succeeded(q, j, r)
  PROVE  TableOK([q EXCEPT ![j] = r], t)
  BY DEF TableOK, Succeeded

LEMMA ChainInit == ASSUME catalog!CatalogAssumption PROVE catalog!Init => ChainInv
  BY DEF catalog!Init, ChainInv, TableOK, HasLast

\* A step of a job that enqueues nothing.
LEMMA RowStep ==
  ASSUME ChainInv, NEW j \in DOMAIN jobs, NEW r, jobs' = [jobs EXCEPT ![j] = r],
         OnTime(j, r, now), Succeeded(jobs, j, r), UNCHANGED <<now, starts>>, podcasts' \subseteq Shows
  PROVE  ChainInv'
  <1>1. TableOK([jobs EXCEPT ![j] = r], now)
    BY UpdateOne DEF ChainInv
  <1>2. TableOK(jobs, now)'
    BY <1>1 DEF TableOK, OnTime, Succeeded, HasLast
  <1>3. QED
    BY <1>2 DEF ChainInv

\* ... and of one that enqueues a job before or in the same statement.
LEMMA EnqueueStep ==
  ASSUME catalog!CatalogAssumption, ChainInv, NEW j \in DOMAIN jobs, NEW r, NEW x, NEW at \in Nat,
         x[1] \in catalog!Recurring => x[2] = catalog!Bucket(x[1], at),
         jobs' = catalog!Enqueued([jobs EXCEPT ![j] = r], catalog!NewJob(x, at)),
         OnTime(j, r, now), UNCHANGED <<now, podcasts, starts>>,
         Succeeded(jobs, j, r) \/ (x[1] = j[1] /\ x[2] > j[2])
  PROVE  ChainInv'
  <1> DEFINE q == catalog!Enqueued(jobs, catalog!NewJob(x, at))
  <1>1. TableOK(q, now) /\ DOMAIN q = DOMAIN jobs \cup {x}
    BY EnqueueOne DEF ChainInv
  <1>2. jobs' = [q EXCEPT ![j] = r]
    BY DEF catalog!Enqueued, catalog!NewJob
  <1> HIDE DEF q
  <1>3. Succeeded(q, j, r)
    BY <1>1 DEF Succeeded
  <1>4. TableOK([q EXCEPT ![j] = r], now)
    BY <1>1, <1>3, UpdateOne
  <1>5. TableOK(jobs', now')
    BY <1>2, <1>4
  <1>6. QED
    <2>1. TableOK(jobs, now)'
      BY <1>5 DEF TableOK, OnTime, Succeeded, HasLast
    <2>2. DOMAIN jobs' = DOMAIN jobs \cup {x}
      BY <1>1, <1>2
    <2>3. QED
      BY <2>1, <2>2 DEF ChainInv

LEMMA TimeStep ==
  ASSUME ChainInv, catalog!TimePasses
  PROVE  ChainInv'
  <1>1. TableOK(jobs, now)'
    <2>1. \A j \in DOMAIN jobs : OnTime(j, jobs[j], now)'
      BY DEF catalog!TimePasses, ChainInv, TableOK, OnTime, JobRows
    <2>2. QED
      BY <2>1 DEF catalog!TimePasses, ChainInv, TableOK, Succeeded, HasLast
  <1>2. QED
    BY <1>1 DEF catalog!TimePasses, ChainInv

LEMMA StartStep ==
  ASSUME catalog!CatalogAssumption, ChainInv, catalog!StartWorker
  PROVE  ChainInv'
  <1> DEFINE seeded == catalog!Enqueued(jobs, catalog!Tick("schedule", now))
             both == catalog!Enqueued(seeded, catalog!Tick("discover", now))
             x == <<"schedule", catalog!Bucket("schedule", now)>>
             y == <<"discover", catalog!Bucket("discover", now)>>
  <1>1. TableOK(seeded, now) /\ DOMAIN seeded = DOMAIN jobs \cup {x}
    BY EnqueueOne DEF ChainInv, catalog!Tick
  <1> HIDE DEF seeded
  <1>2. TableOK(both, now) /\ DOMAIN both = DOMAIN seeded \cup {y}
    BY <1>1, EnqueueOne DEF ChainInv, catalog!Tick
  <1>3. jobs' = both
    BY DEF catalog!StartWorker, seeded
  <1> HIDE DEF both
  <1>4. x[1] = "schedule" /\ y[1] = "discover"
    OBVIOUS
  <1> HIDE DEF x, y
  <1>5. TableOK(jobs, now)'
    BY <1>2, <1>3 DEF TableOK, OnTime, Succeeded, HasLast, catalog!StartWorker
  <1>6. \A type \in catalog!Recurring : \E j \in DOMAIN jobs' : j[1] = type
    BY <1>1, <1>2, <1>3, <1>4 DEF catalog!Recurring
  <1>7. QED
    BY <1>5, <1>6 DEF ChainInv, catalog!StartWorker

LEMMA ClaimStep ==
  ASSUME ChainInv, NEW j \in DOMAIN jobs, catalog!Claim(j)
  PROVE  ChainInv'
  <1> DEFINE r == [jobs[j] EXCEPT !.state = "running", !.attempts = @ + 1]
  <1>1. OnTime(j, jobs[j], now) /\ Succeeded(jobs, j, jobs[j])
    BY DEF ChainInv, TableOK
  <1>2. OnTime(j, r, now) /\ Succeeded(jobs, j, r)
    BY <1>1 DEF catalog!Claim, OnTime, Succeeded, JobRows
  <1>3. jobs' = [jobs EXCEPT ![j] = r] /\ UNCHANGED <<now, podcasts, starts>>
    BY DEF catalog!Claim
  <1> HIDE DEF r
  <1>4. QED
    BY <1>2, <1>3, RowStep DEF ChainInv

\* A run that is over is of no job that is done, unless it has returned.
LEMMA ChainEndStep ==
  ASSUME ChainInv, NEW j \in DOMAIN jobs, catalog!Fail(j) \/ catalog!Complete(j)
  PROVE  ChainInv'
  <1>1. OnTime(j, jobs[j], now) /\ Succeeded(jobs, j, jobs[j])
    BY DEF ChainInv, TableOK
  <1>2. PICK state \in {"pending", "dead", "done"} :
          /\ jobs' = [jobs EXCEPT ![j] = catalog!Ended(j, state)]
          /\ state = "done" => jobs[j].at = "returned"
    BY DEF catalog!Fail, catalog!Complete, catalog!Running
  <1> DEFINE r == catalog!Ended(j, state)
  <1>3. r \in JobRows /\ r.state = state /\ r.at = "start" /\ r.runAt = jobs[j].runAt
    BY <1>1 DEF catalog!Ended, OnTime, JobRows
  <1> HIDE DEF r
  <1>4. OnTime(j, r, now) /\ Succeeded(jobs, j, r)
    BY <1>1, <1>2, <1>3 DEF OnTime, Succeeded
  <1>5. UNCHANGED <<now, podcasts, starts>>
    BY DEF catalog!Fail, catalog!Complete
  <1>6. jobs' = [jobs EXCEPT ![j] = r]
    BY <1>2 DEF r
  <1>7. QED
    BY <1>4, <1>5, <1>6, RowStep DEF ChainInv

\* The handlers' lists are read, and the clock after them.
LEMMA ListStep ==
  ASSUME ChainInv, NEW j \in DOMAIN jobs, catalog!ListDue(j) \/ catalog!Discover(j)
  PROVE  ChainInv'
  <1>1. OnTime(j, jobs[j], now) /\ now \in Nat /\ podcasts \subseteq Shows
    BY DEF ChainInv, TableOK
  <1>2. PICK list \in SUBSET Shows : jobs' = [jobs EXCEPT ![j] = catalog!Goto(j, "each", list)]
    BY <1>1 DEF catalog!ListDue, catalog!Discover
  <1> DEFINE r == catalog!Goto(j, "each", list)
  <1>3. /\ r \in JobRows /\ r.state = jobs[j].state /\ r.at = "each"
        /\ r.runAt = jobs[j].runAt /\ r.clock = now
    BY <1>1 DEF catalog!Goto, OnTime, JobRows
  <1>4. jobs[j].state = "running"
    BY DEF catalog!ListDue, catalog!Discover, catalog!Running
  <1> HIDE DEF r
  <1>5. OnTime(j, r, now) /\ Succeeded(jobs, j, r)
    BY <1>1, <1>3, <1>4 DEF OnTime, Succeeded
  <1>6. UNCHANGED <<now, podcasts, starts>>
    BY DEF catalog!ListDue, catalog!Discover
  <1>7. jobs' = [jobs EXCEPT ![j] = r]
    BY <1>2 DEF r
  <1>8. QED
    BY <1>5, <1>6, <1>7, RowStep DEF ChainInv

\* A row whose handler has moved within its list.
LEMMA MovedRow ==
  ASSUME ChainInv, NEW j \in DOMAIN jobs, jobs[j].state = "running", jobs[j].at # "start",
         NEW r \in JobRows, r.state = "running", r.at # "returned",
         r.runAt = jobs[j].runAt, r.clock = jobs[j].clock
  PROVE  OnTime(j, r, now) /\ Succeeded(jobs, j, r)
  BY DEF ChainInv, TableOK, OnTime, Succeeded

LEMMA RefreshStep ==
  ASSUME catalog!CatalogAssumption, ChainInv, NEW j \in DOMAIN jobs, catalog!EnqueueRefresh(j)
  PROVE  ChainInv'
  <1>1. PICK p \in jobs[j].todo :
          jobs' = catalog!Enqueued([jobs EXCEPT ![j].todo = @ \ {p}],
                                  catalog!NewJob(<<"refresh", p, 1 + jobs[j].clock \div Window>>, 0))
    BY DEF catalog!EnqueueRefresh
  <1> DEFINE r == [jobs[j] EXCEPT !.todo = @ \ {p}]
             x == <<"refresh", p, 1 + jobs[j].clock \div Window>>
  <1>2. jobs[j].state = "running" /\ jobs[j].at = "each" /\ jobs[j] \in JobRows
    BY DEF catalog!EnqueueRefresh, catalog!Running, ChainInv, TableOK, OnTime
  <1>3. r \in JobRows /\ r.state = "running" /\ r.at = "each" /\ r.runAt = jobs[j].runAt /\ r.clock = jobs[j].clock
    BY <1>2 DEF JobRows
  <1>4. jobs' = catalog!Enqueued([jobs EXCEPT ![j] = r], catalog!NewJob(x, 0))
    BY <1>1
  <1>5. x[1] \notin catalog!Recurring
    BY DEF catalog!Recurring
  <1> HIDE DEF r, x
  <1>6. OnTime(j, r, now) /\ Succeeded(jobs, j, r)
    BY <1>2, <1>3, MovedRow
  <1>7. UNCHANGED <<now, podcasts, starts>>
    BY DEF catalog!EnqueueRefresh
  <1>8. QED
    BY <1>4, <1>5, <1>6, <1>7, EnqueueStep

LEMMA RegisterStep ==
  ASSUME catalog!CatalogAssumption, ChainInv, NEW j \in DOMAIN jobs, catalog!Register(j)
  PROVE  ChainInv'
  <1>1. jobs[j].state = "running" /\ jobs[j].at = "each" /\ jobs[j] \in JobRows
    BY DEF catalog!Register, catalog!Running, ChainInv, TableOK, OnTime
  <1>2. PICK p \in jobs[j].todo :
          /\ podcasts' \subseteq podcasts \cup {p}
          /\ \/ jobs' = [jobs EXCEPT ![j].todo = @ \ {p}]
             \/ jobs' = [jobs EXCEPT ![j].todo = @ \ {p}, ![j].at = p]
    BY DEF catalog!Register
  <1>3. p \in Shows /\ p \notin {"start", "returned"}
    BY <1>1 DEF JobRows, catalog!CatalogAssumption
  <1>4. PICK at \in {"each", p} : jobs' = [jobs EXCEPT ![j] = [jobs[j] EXCEPT !.todo = @ \ {p}, !.at = at]]
    <2>1. CASE jobs' = [jobs EXCEPT ![j].todo = @ \ {p}]
      <3>1. [jobs[j] EXCEPT !.todo = @ \ {p}] = [jobs[j] EXCEPT !.todo = @ \ {p}, !.at = "each"]
        BY <1>1 DEF JobRows
      <3>2. QED
        BY <2>1, <3>1
    <2>2. CASE jobs' = [jobs EXCEPT ![j].todo = @ \ {p}, ![j].at = p]
      BY <2>2
    <2>3. QED
      BY <1>2, <2>1, <2>2
  <1> DEFINE r == [jobs[j] EXCEPT !.todo = @ \ {p}, !.at = at]
  <1>5. r \in JobRows /\ r.state = "running" /\ r.at = at /\ r.runAt = jobs[j].runAt /\ r.clock = jobs[j].clock
    BY <1>1, <1>3 DEF JobRows
  <1>6. jobs' = [jobs EXCEPT ![j] = r]
    BY <1>4
  <1> HIDE DEF r
  <1>7. OnTime(j, r, now) /\ Succeeded(jobs, j, r)
    BY <1>1, <1>3, <1>5, MovedRow
  <1>8. UNCHANGED <<now, starts>> /\ podcasts' \subseteq Shows
    BY <1>2, <1>3 DEF catalog!Register, ChainInv
  <1>9. QED
    BY <1>6, <1>7, <1>8, RowStep

LEMMA InitialStep ==
  ASSUME catalog!CatalogAssumption, ChainInv, NEW j \in DOMAIN jobs, catalog!EnqueueInitial(j)
  PROVE  ChainInv'
  <1>1. PICK p \in podcasts :
          /\ catalog!Running(j, p)
          /\ \/ jobs' = catalog!Enqueued([jobs EXCEPT ![j].at = "each"], catalog!NewJob(<<"refresh", p, 0>>, 0))
             \/ jobs' = catalog!Enqueued([jobs EXCEPT ![j].at = "each"], <<>>)
    BY DEF catalog!EnqueueInitial
  <1>2. p \in Shows /\ p \notin {"start", "returned"}
    BY DEF ChainInv, catalog!CatalogAssumption
  <1>3. jobs[j].state = "running" /\ jobs[j].at # "start" /\ jobs[j] \in JobRows
    BY <1>1, <1>2 DEF catalog!Running, ChainInv, TableOK, OnTime
  <1> DEFINE r == [jobs[j] EXCEPT !.at = "each"]
             x == <<"refresh", p, 0>>
  <1>4. r \in JobRows /\ r.state = "running" /\ r.at = "each" /\ r.runAt = jobs[j].runAt /\ r.clock = jobs[j].clock
    BY <1>3 DEF JobRows
  <1>5. \/ jobs' = catalog!Enqueued([jobs EXCEPT ![j] = r], catalog!NewJob(x, 0))
        \/ jobs' = [jobs EXCEPT ![j] = r]
    BY <1>1 DEF catalog!Enqueued
  <1>6. x[1] \notin catalog!Recurring
    BY DEF catalog!Recurring
  <1> HIDE DEF r, x
  <1>7. OnTime(j, r, now) /\ Succeeded(jobs, j, r)
    BY <1>3, <1>4, MovedRow
  <1>8. UNCHANGED <<now, podcasts, starts>>
    BY DEF catalog!EnqueueInitial
  <1>9. CASE jobs' = [jobs EXCEPT ![j] = r]
    BY <1>7, <1>8, <1>9, RowStep DEF ChainInv
  <1>10. CASE jobs' = catalog!Enqueued([jobs EXCEPT ![j] = r], catalog!NewJob(x, 0))
    BY <1>6, <1>7, <1>8, <1>10, EnqueueStep
  <1>11. QED
    BY <1>5, <1>9, <1>10

\* The successor's key is of a later period, so that it is not taken by the job
\* itself: whatever holds it is a job further on.
LEMMA SuccessorStep ==
  ASSUME catalog!CatalogAssumption, ChainInv, NEW j \in DOMAIN jobs, catalog!EnqueueNext(j)
  PROVE  ChainInv'
  <1>1. /\ j[1] \in catalog!Recurring /\ jobs[j].state = "running" /\ jobs[j].at = "each"
        /\ OnTime(j, jobs[j], now) /\ now \in Nat
    BY DEF catalog!EnqueueNext, catalog!Running, ChainInv, TableOK
  <1> DEFINE time == IF j[1] = "schedule" THEN jobs[j].clock ELSE now
             at == catalog!Period(j[1]) + time
             x == <<j[1], catalog!Bucket(j[1], at)>>
             r == [jobs[j] EXCEPT !.at = "returned"]
  <1>2. /\ time \in Nat /\ jobs[j].runAt \in Nat /\ jobs[j].runAt <= time
        /\ j[2] = catalog!Bucket(j[1], jobs[j].runAt)
    BY <1>1 DEF OnTime, JobRows
  <1> HIDE DEF time
  <1>3. at \in Nat /\ x[1] = j[1] /\ x[2] = catalog!Bucket(x[1], at) /\ x[2] > j[2]
    BY <1>1, <1>2, LaterBucket
  <1>4. OnTime(j, r, now)
    BY <1>1 DEF OnTime, JobRows
  <1>5. jobs' = catalog!Enqueued([jobs EXCEPT ![j] = r], catalog!NewJob(x, at))
    BY DEF catalog!EnqueueNext, catalog!Successor, catalog!Tick, time
  <1>6. UNCHANGED <<now, podcasts, starts>>
    BY DEF catalog!EnqueueNext
  <1> HIDE DEF at, x, r
  <1>7. QED
    BY <1>3, <1>4, <1>5, <1>6, EnqueueStep

LEMMA ChainStep ==
  ASSUME catalog!CatalogAssumption
  PROVE  ChainInv /\ [catalog!Next]_(catalog!vars) => ChainInv'
  <1> SUFFICES ASSUME ChainInv, [catalog!Next]_(catalog!vars) PROVE ChainInv'
    OBVIOUS
  <1>1. CASE UNCHANGED catalog!vars
    BY <1>1 DEF catalog!vars, ChainInv, TableOK, OnTime, Succeeded, HasLast
  <1>2. QED
    BY <1>1, TimeStep, StartStep, ClaimStep, ChainEndStep, ListStep, RefreshStep, RegisterStep,
       InitialStep, SuccessorStep DEF catalog!Next, catalog!Handle

\* worker.go, handleSchedule and handleDiscover: a chain that was started goes on
\* until one of its jobs is dead-lettered, whatever fails, however late its jobs
\* run and whatever starts collapse with it under one key: its latest job is live.
THEOREM ChainsGoOn == Spec => []ChainUnbroken
  <1>1. ChainInv => catalog!ChainUnbroken
    <2> SUFFICES ASSUME ChainInv, starts > 0, NEW type \in catalog!Recurring
                 PROVE  catalog!Died(type) \/ catalog!Goes(type)
      BY DEF catalog!ChainUnbroken
    <2>1. PICK latest \in DOMAIN jobs : latest[1] = type /\ \A k \in DOMAIN jobs : k[1] = type => k[2] <= latest[2]
      BY DEF ChainInv, TableOK, HasLast
    <2>2. \A k \in DOMAIN jobs : k[1] \in catalog!Recurring => k[2] \in Nat
      BY BucketsAreNumbers, RecordsAssumption DEF ChainInv, TableOK
    <2>3. jobs[latest].state # "done"
      <3>1. ~\E k \in DOMAIN jobs : k[1] = latest[1] /\ k[2] > latest[2]
        BY <2>1, <2>2
      <3>2. QED
        BY <2>1, <3>1 DEF ChainInv, TableOK, Succeeded
    <2>4. jobs[latest].state \in {"pending", "running", "dead"}
      BY <2>3 DEF ChainInv, TableOK, OnTime, JobRows
    <2>5. QED
      BY <2>1, <2>4 DEF catalog!Died, catalog!Goes, catalog!Live
  <1>2. QED
    BY CatalogBehaviour, ChainInit, ChainStep, <1>1, RecordsAssumption, PTL
       DEF catalog!Spec, ChainUnbroken
=============================================================================
