----------------------------- MODULE FeedIngest -----------------------------
(***************************************************************************)
(* Ingestion of one podcast's feed (internal/catalog/ingest.go): how the   *)
(* items of a feed find the rows of the episodes table                     *)
(* (migrations/0002_catalog.sql) over a long series of polls, while the    *)
(* publisher edits, rehosts, repeats and withdraws episodes and may list   *)
(* one enclosure under several of them.                                    *)
(*                                                                         *)
(* One poll is one transaction; UpsertPodcastMetadata locks the podcast's  *)
(* row first, so polls of one podcast are serial.  Each item is one step   *)
(* inside it.  An item or a row is [guid, enc, text]: text stands for every *)
(* other field contentHash covers, None for an empty string or NULL.       *)
(***************************************************************************)
EXTENDS Integers, Sequences

CONSTANTS
    Episodes,  \* what the publisher releases
    GuidOf,    \* the RSS GUID of each episode, once it has one
    Encs,      \* enclosure URLs
    Texts,     \* the searchable text of an item
    None,      \* the empty string, NULL
    MaxItems,  \* bound: items in a feed
    MaxRows    \* bound: rows of the table that a poll finds

FeedIngestAssumption ==
    /\ \A d, e \in Episodes : GuidOf[d] = GuidOf[e] => d = e
    /\ \A e \in Episodes : GuidOf[e] # None
    /\ None \notin Encs
    /\ MaxItems \in Nat /\ MaxRows \in Nat

VARIABLES
    item,     \* publisher: the item of each listed episode, Unlisted otherwise
    hosted,   \* publisher: the enclosures each episode has had
    steady,   \* history: episodes that carried their GUID from the start
    rows,     \* episodes, as committed; the index is the id
    feed,     \* the items being ingested
    pos,      \* the next of them, 0 outside a transaction
    work,     \* episodes, as the transaction sees them
    seenGUIDs,
    seenEnclosures,
    changes,  \* ids of the EpisodeChanges, in order
    error     \* the constraint a statement violated

publisherVars == <<item, hosted, steady>>
txVars == <<feed, pos, work, seenGUIDs, seenEnclosures, changes, error>>
vars == <<publisherVars, rows, txVars>>

Guids == {GuidOf[e] : e \in Episodes}
Item == [guid : Guids \cup {None}, enc : Encs \cup {None}, text : Texts \cup {None}]
Unlisted == [guid |-> None, enc |-> None, text |-> None]
Listed == {e \in Episodes : item[e] # Unlisted}

-----------------------------------------------------------------------------
(* The statements.                                                         *)

\* contentHash: every searchable field and the enclosure, but not the GUID.
contentHash(i) == <<i.text, i.enc>>

\* A unique index on column col of (podcast_id, col) WHERE col IS NOT NULL.
Taken(R, id, col, v) ==
    v # None /\ \E k \in DOMAIN R : k # id /\ R[k][col] = v

Result(R, id, outcome) == [rows |-> R, id |-> id, outcome |-> outcome]

\* Write the whole row, unless a unique index refuses it.
Write(R, id, i, outcome) ==
    IF Taken(R, id, "guid", i.guid) THEN Result(R, id, "episodes_guid_key")
    ELSE IF Taken(R, id, "enc", i.enc) THEN Result(R, id, "episodes_enclosure_key")
    ELSE Result([k \in DOMAIN R \cup {id} |-> IF k = id THEN i ELSE R[k]], id, outcome)

\* Faulty variant: DO NOTHING where the row exists.
UpsertDoNothing(R, i, col) ==
    IF \E id \in DOMAIN R : R[id][col] = i[col]
    THEN Result(R, 0, "unchanged")
    ELSE Write(R, Len(R) + 1, i, "inserted")

\* Faulty variant: DO UPDATE without the WHERE on the hash.
UpsertAlways(R, i, col) ==
    IF \E id \in DOMAIN R : R[id][col] = i[col]
    THEN Write(R, CHOOSE id \in DOMAIN R : R[id][col] = i[col], i, "updated")
    ELSE Write(R, Len(R) + 1, i, "inserted")

\* Faulty variant: the update sets rss_guid to NULL.
UpsertForgets(R, i, col) ==
    LET hit == {id \in DOMAIN R : R[id][col] = i[col]}
    IN  IF hit = {} THEN Write(R, Len(R) + 1, i, "inserted")
        ELSE LET id == CHOOSE h \in hit : TRUE
             IN  IF contentHash(R[id]) = contentHash(i)
                 THEN Result(R, id, "unchanged")
                 ELSE Write(R, id, [i EXCEPT !.guid = None], "updated")

\* INSERT ... ON CONFLICT (podcast_id, col) DO UPDATE SET ... WHERE the
\* hashes differ, as scanOutcome reads its result.
Upsert(R, i, col) ==
    LET hit == {id \in DOMAIN R : R[id][col] = i[col]}
    IN  IF hit = {} THEN Write(R, Len(R) + 1, i, "inserted")
        ELSE LET id == CHOOSE h \in hit : TRUE
             IN  IF contentHash(R[id]) = contentHash(i)
                 THEN Result(R, id, "unchanged")
                 ELSE Write(R, id, i, "updated")

upsertByHash(R, i) ==
    IF \E id \in DOMAIN R : contentHash(R[id]) = contentHash(i)
    THEN Result(R, 0, "unchanged")
    ELSE Write(R, Len(R) + 1, i, "inserted")

\* The GUID first; when the enclosure index refuses, the savepoint is rolled
\* back and the enclosure decides.
upsertByGUIDWithFallback(R, i) ==
    LET r == Upsert(R, i, "guid")
    IN  IF r.outcome = "episodes_enclosure_key" /\ i.enc # None
        THEN Upsert(R, i, "enc") ELSE r

\* The identities in order of trust.
Store(R, i) ==
    IF i.guid # None THEN upsertByGUIDWithFallback(R, i)
    ELSE IF i.enc # None THEN Upsert(R, i, "enc")
    ELSE upsertByHash(R, i)

\* Repeats within the feed, and items with nothing in them.
Repeats(i) ==
    \/ i.guid # None /\ i.guid \in seenGUIDs
    \/ i.guid = None /\ i.enc # None /\ i.enc \in seenEnclosures

\* seenGUIDs[v] = true, seenEnclosures[v] = true, unless v is empty.
Remember(S, v) == S \cup ({v} \ {None})

Blank(i) == i.text = None /\ i.enc = None
Skipped(i) == Repeats(i) \/ Blank(i)

-----------------------------------------------------------------------------
Init ==
    /\ item = [e \in Episodes |-> Unlisted]
    /\ hosted = [e \in Episodes |-> {}]
    /\ steady = Episodes
    /\ rows = <<>>
    /\ feed = <<>>
    /\ pos = 0
    /\ work = <<>>
    /\ seenGUIDs = {}
    /\ seenEnclosures = {}
    /\ changes = <<>>
    /\ error = "none"

(* The publisher: GUIDs of different episodes differ, enclosures need not. *)

\* Release, edit, rehost or give a GUID to an episode; a GUID once given stays.
Publish(e, i) ==
    /\ pos = 0
    /\ i.guid \in {None, GuidOf[e]}
    /\ item[e].guid # None => i.guid = GuidOf[e]
    /\ i.enc \in Encs \cup {None}
    /\ i # Unlisted
    /\ i # item[e]
    /\ item' = [item EXCEPT ![e] = i]
    /\ hosted' = [hosted EXCEPT ![e] = @ \cup ({i.enc} \ {None})]
    /\ steady' = IF i.guid = None THEN steady \ {e} ELSE steady
    /\ UNCHANGED <<rows, txVars>>

\* A feed lists current items, in any order; it may leave old episodes out and
\* repeat others.
Feeds == UNION {[1 .. n -> {item[e] : e \in Listed}] : n \in 1 .. MaxItems}

(* One poll.                                                               *)

Begin(f) ==
    /\ pos = 0
    /\ Len(rows) <= MaxRows
    /\ f \in Feeds
    /\ feed' = f
    /\ pos' = 1
    /\ work' = rows
    /\ seenGUIDs' = {}
    /\ seenEnclosures' = {}
    /\ changes' = <<>>
    /\ UNCHANGED <<publisherVars, rows, error>>

\* One round of IngestFeed's loop.
IngestItem ==
    /\ pos \in DOMAIN feed
    /\ error = "none"
    /\ LET i == feed[pos]
           r == Store(work, i)
       IN  /\ seenGUIDs' = IF Repeats(i) THEN seenGUIDs
                           ELSE Remember(seenGUIDs, i.guid)
           /\ seenEnclosures' = IF Repeats(i) THEN seenEnclosures
                                ELSE Remember(seenEnclosures, i.enc)
           /\ IF Skipped(i)
              THEN /\ pos' = pos + 1
                   /\ UNCHANGED <<work, changes, error>>
              ELSE IF r.outcome \in {"inserted", "updated", "unchanged"}
              THEN /\ work' = r.rows
                   /\ changes' = IF r.outcome = "unchanged" THEN changes
                                 ELSE Append(changes, r.id)
                   /\ pos' = pos + 1
                   /\ error' = error
              ELSE /\ error' = r.outcome
                   /\ UNCHANGED <<work, changes, pos>>
    /\ UNCHANGED <<publisherVars, rows, feed>>

Idle ==
    /\ pos' = 0
    /\ feed' = <<>>
    /\ work' = <<>>
    /\ seenGUIDs' = {}
    /\ seenEnclosures' = {}
    /\ changes' = <<>>
    /\ error' = "none"

Commit ==
    /\ pos = Len(feed) + 1
    /\ pos > 1
    /\ rows' = work
    /\ Idle
    /\ UNCHANGED publisherVars

\* The deferred Rollback: a statement failed, the connection broke or the
\* worker died.
Rollback ==
    /\ pos > 0
    /\ Idle
    /\ UNCHANGED <<publisherVars, rows>>

Next ==
    \/ \E e \in Episodes, i \in Item : Publish(e, i)
    \/ \E f \in Feeds : Begin(f)
    \/ IngestItem
    \/ Commit
    \/ Rollback

Spec == Init /\ [][Next]_vars

-----------------------------------------------------------------------------
(* Properties.                                                             *)

\* The types of the variables.
TypeOK ==
    /\ item \in [Episodes -> Item]
    /\ hosted \in [Episodes -> SUBSET Encs]
    /\ steady \subseteq Episodes
    /\ rows \in Seq(Item)
    /\ feed \in Seq(Item)
    /\ pos \in Nat
    /\ work \in Seq(Item)
    /\ seenGUIDs \subseteq Guids
    /\ seenEnclosures \subseteq Encs
    /\ changes \in Seq(Nat)
    /\ error \in {"none", "episodes_guid_key", "episodes_enclosure_key"}

\* Different episodes have had it as their enclosure.
Shared(v) == \E d, e \in Episodes : d # e /\ v \in hosted[d] \cap hosted[e]

\* Different items of the feed have it.
Contested(v) ==
    v # None /\ \E j, k \in DOMAIN feed :
                  feed[j] # feed[k] /\ feed[j].enc = v /\ feed[k].enc = v

Identified(i) == i.guid # None \/ i.enc # None

\* However often it is edited, rehosted, repeated or withdrawn, an episode
\* published under one GUID is one row, whatever others share with it: the trust
\* order of IngestFeed never leaves a second row with its GUID or with an
\* enclosure only it has had.
OneRowPerEpisode ==
    \A e \in steady :
        LET Tells(id) == \/ rows[id].guid = GuidOf[e]
                         \/ rows[id].enc \in hosted[e] /\ ~Shared(rows[id].enc)
        IN  \A k, id \in DOMAIN rows : Tells(k) /\ Tells(id) => k = id

\* What other items of a feed share among them costs no episode its content: an
\* item that the loop has passed is in the table until the end, if it has a
\* GUID or an enclosure and no other episode ever had that enclosure.  (Of
\* items with one enclosure the later is stored over the earlier; one with
\* neither may be taken for a row with a GUID and the same text.)
EveryItemStored ==
    \A k \in DOMAIN feed :
        (k < pos /\ ~Blank(feed[k]) /\ Identified(feed[k]) /\ ~Shared(feed[k].enc)) =>
        \E id \in DOMAIN work : contentHash(work[id]) = contentHash(feed[k])

Differs(id) == id \notin DOMAIN rows \/ contentHash(work[id]) # contentHash(rows[id])
Changes(id) == {c \in DOMAIN changes : changes[c] = id}

\* The changes returned (an outbox event and transcript jobs each) leave out no
\* row whose searchable content the transaction changed, whatever the feed;
\* and only a row over which two items of the feed contend is among them more
\* than once, or without a difference.
ChangesAreExact ==
    pos > 0 =>
        /\ \A c \in DOMAIN changes : changes[c] \in DOMAIN work
        /\ \A id \in DOMAIN work :
             /\ Differs(id) => Changes(id) # {}
             /\ ~Contested(work[id].enc) =>
                  /\ Changes(id) # {} => Differs(id)
                  /\ \A c, d \in Changes(id) : c = d

\* What ingest.go says, that episodes whose searchable content is unchanged are
\* left untouched: a feed of items with GUIDs that has just been ingested would
\* change and announce nothing if it were polled again.
RepollIsNoop ==
    (pos = Len(feed) + 1 /\ pos > 1 /\ \A k \in DOMAIN feed : feed[k].guid # None) =>
        \A k \in DOMAIN feed :
            Blank(feed[k]) \/ Store(work, feed[k]).outcome = "unchanged"

\* What ingest.go says of a known enclosure under another GUID, that its row is
\* trusted instead: no feed is refused for what its items are.
FeedsAreAccepted == error = "none"

\* ingest_test.go says that a GUID appearing later for a known enclosure adopts
\* the row: once a feed with such an item is committed, the row of the
\* enclosure carries the GUID.
GuidsAreAdopted ==
    [][Commit =>
         \A k \in DOMAIN feed :
            (feed[k].guid # None /\ feed[k].enc # None) =>
                \E id \in DOMAIN rows' : rows'[id].guid = feed[k].guid]_vars
=============================================================================
