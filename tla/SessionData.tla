---------------------------- MODULE SessionData -----------------------------
(***************************************************************************)
(* What the search service keeps of one session: searches and their events *)
(* (service.go, events.go), voice recordings kept on request (voice.go),   *)
(* and the deletion of all of it (privacy.go).  Two stores are written, the *)
(* database and the object store, with no transaction over both; requests  *)
(* and deletions run side by side, and every step of a request runs under  *)
(* the request's context, which ends when its client leaves.               *)
(*                                                                         *)
(* A query is its query_id; its recording's object key is made from it.    *)
(***************************************************************************)
EXTENDS Integers, FiniteSets

CONSTANTS
    Queries,
    Faults,        \* what may go wrong: a client leaves, a put, an insert or a
                   \* deletion fails, a listing breaks off
    MaxFaults,     \* bound: how often
    MaxDeletions   \* bound: calls of DeleteSession

SessionAssumption ==
    /\ Faults \subseteq {"leave", "put", "insert", "delete", "list"}
    /\ MaxFaults \in Nat /\ MaxDeletions \in Nat

VARIABLES
    searches, recordings,  \* rows of the database, as committed, by query;
    events,                \* events are <<query, type>>
    store,                 \* objects
    req,                   \* where each search request is,
    left,                  \* and those whose context has ended
    told,                  \* queries whose response said retained
    imp,                   \* where each impressions request is
    del,                   \* where DeleteSession is,
    keys,                  \* the objects it has yet to delete
    doomed,                \* and the rows its transaction has deleted
    faults, deletions,
    raced,   \* history: queries in flight during the last deletion,
    leaked,  \* that raced with one that committed, or whose retention failed
             \* half-way,
    missed,  \* whose recording the last listing left out,
    erased   \* and those the last that committed should have removed

dbVars == <<searches, recordings, events>>
requestVars == <<req, left, told, imp>>
deleteVars == <<del, keys, doomed, deletions>>
history == <<raced, leaked, missed, erased>>
vars == <<dbVars, store, requestVars, deleteVars, faults, history>>

Fault(f) == f \in Faults /\ faults < MaxFaults /\ faults' = faults + 1
Nothing == [recordings |-> {}, events |-> {}, searches |-> {}]

InFlight(q) == req[q] \in {"searching", "saved", "put", "undo"} \/ imp[q] = "read"
Deleting == del # "idle"

Init ==
    /\ searches = {}
    /\ recordings = {}
    /\ events = {}
    /\ store = {}
    /\ req = [q \in Queries |-> "none"]
    /\ left = {}
    /\ told = {}
    /\ imp = [q \in Queries |-> "none"]
    /\ del = "idle"
    /\ keys = {}
    /\ doomed = Nothing
    /\ faults = 0
    /\ deletions = 0
    /\ raced = {}
    /\ leaked = {}
    /\ missed = {}
    /\ erased = {}

Goto(q, l) == req' = [req EXCEPT ![q] = l]

\* A request that runs beside a deletion: what it leaves is not the deletion's.
Touch(q) == raced' = IF Deleting THEN raced \cup {q} ELSE raced

-----------------------------------------------------------------------------
(* SearchVoice.                                                            *)

Ask(q) ==
    /\ req[q] = "none"
    /\ Goto(q, "searching")
    /\ Touch(q)
    /\ UNCHANGED <<dbVars, store, left, told, imp, deleteVars, faults, leaked, missed, erased>>

\* The client leaves, or its request times out.
Leave(q) ==
    /\ req[q] \in {"searching", "saved", "put", "undo"}
    /\ q \notin left
    /\ Fault("leave")
    /\ left' = left \cup {q}
    /\ UNCHANGED <<dbVars, store, req, told, imp, deleteVars, history>>

\* Service.save: the search and its event in one transaction.
Save(q) ==
    /\ req[q] = "searching"
    /\ q \notin left
    /\ searches' = searches \cup {q}
    /\ events' = events \cup {<<q, "search">>}
    /\ Goto(q, "saved")
    /\ UNCHANGED <<recordings, store, left, told, imp, deleteVars, faults, history>>

\* Nothing to retain, or an error before anything was stored.
End(q) ==
    /\ req[q] = "saved" \/ (req[q] = "searching" /\ q \in left)
    /\ Goto(q, "done")
    /\ UNCHANGED <<dbVars, store, left, told, imp, deleteVars, faults, history>>

\* retain: the object first.
Put(q) ==
    /\ req[q] = "saved"
    /\ q \notin left
    /\ store' = store \cup {q}
    /\ Goto(q, "put")
    /\ UNCHANGED <<dbVars, left, told, imp, deleteVars, faults, history>>

\* Put answers with an error although the object may have arrived.
PutFails(q) ==
    /\ req[q] = "saved"
    /\ Fault("put")
    /\ \/ store' = store \cup {q} /\ leaked' = leaked \cup {q}
       \/ UNCHANGED <<store, leaked>>
    /\ Goto(q, "done")
    /\ UNCHANGED <<dbVars, left, told, imp, deleteVars, raced, missed, erased>>

\* The row of the recording refers to the search: the insert waits for a
\* transaction that has deleted the search, and fails when it is gone.
Insert(q) ==
    /\ req[q] = "put"
    /\ q \notin left
    /\ q \notin doomed.searches
    /\ IF q \in searches
       THEN /\ recordings' = recordings \cup {q}
            /\ told' = told \cup {q}
            /\ Goto(q, "done")
       ELSE /\ Goto(q, "undo")
            /\ UNCHANGED <<recordings, told>>
    /\ UNCHANGED <<searches, events, store, left, imp, deleteVars, faults, history>>

\* The insert fails, or its context has ended.
InsertFails(q) ==
    /\ req[q] = "put"
    /\ IF q \in left THEN UNCHANGED faults ELSE Fault("insert")
    /\ Goto(q, "undo")
    /\ UNCHANGED <<dbVars, store, left, told, imp, deleteVars, history>>

\* The object is deleted again under the same context; an error is ignored.
Undo(q) ==
    /\ req[q] = "undo"
    /\ IF q \in left
       THEN UNCHANGED store /\ leaked' = leaked \cup {q}
       ELSE store' = store \ {q} /\ UNCHANGED leaked
    /\ Goto(q, "done")
    /\ UNCHANGED <<dbVars, left, told, imp, deleteVars, faults, raced, missed, erased>>

-----------------------------------------------------------------------------
(* RecordImpressions: the search is read, then the events are written.     *)

ReadSearch(q) ==
    /\ imp[q] = "none"
    /\ q \in searches
    /\ imp' = [imp EXCEPT ![q] = "read"]
    /\ Touch(q)
    /\ UNCHANGED <<dbVars, store, req, left, told, deleteVars, faults, leaked, missed, erased>>

WriteImpressions(q) ==
    /\ imp[q] = "read"
    /\ imp' = [imp EXCEPT ![q] = "done"]
    /\ events' = events \cup {<<q, "impression">>}
    /\ UNCHANGED <<searches, recordings, store, req, left, told, deleteVars, faults, history>>

-----------------------------------------------------------------------------
(* DeleteSession.                                                          *)

\* The keys of the recordings, before and outside the transaction.  A stream of
\* rows that breaks off ends the loop as its end does: the error is not read.
ListKeys ==
    /\ del = "idle"
    /\ deletions < MaxDeletions
    /\ deletions' = deletions + 1
    /\ \/ keys' = recordings /\ UNCHANGED faults
       \/ keys' \in SUBSET recordings \ {recordings} /\ Fault("list")
    /\ missed' = (missed \cup recordings) \ keys'
    /\ del' = "objects"
    /\ raced' = {q \in Queries : InFlight(q)}
    /\ UNCHANGED <<dbVars, store, requestVars, doomed, leaked, erased>>

DeleteObject(q) ==
    /\ del = "objects"
    /\ q \in keys
    /\ keys' = keys \ {q}
    /\ store' = store \ {q}
    /\ UNCHANGED <<dbVars, requestVars, del, doomed, deletions, faults, history>>

\* Faulty variant: the rows do not wait for the objects.
DeleteRecordingsEarly ==
    /\ del = "objects"
    /\ doomed' = [doomed EXCEPT !.recordings = recordings]
    /\ del' = "recordings"
    /\ UNCHANGED <<dbVars, store, requestVars, keys, deletions, faults, history>>

\* Three statements of one transaction, each over what is committed by then.
DeleteRecordings ==
    /\ del = "objects"
    /\ keys = {}
    /\ doomed' = [doomed EXCEPT !.recordings = recordings]
    /\ del' = "recordings"
    /\ UNCHANGED <<dbVars, store, requestVars, keys, deletions, faults, history>>

\* Faulty variant: events that came from clients are forgotten.
DeleteSearchEvents ==
    /\ del = "recordings"
    /\ doomed' = [doomed EXCEPT !.events = events \cap (Queries \X {"search"})]
    /\ del' = "events"
    /\ UNCHANGED <<dbVars, store, requestVars, keys, deletions, faults, history>>

DeleteEvents ==
    /\ del = "recordings"
    /\ doomed' = [doomed EXCEPT !.events = events]
    /\ del' = "events"
    /\ UNCHANGED <<dbVars, store, requestVars, keys, deletions, faults, history>>

\* Recordings inserted since go with their searches (ON DELETE CASCADE).
DeleteSearches ==
    /\ del = "events"
    /\ doomed' = [doomed EXCEPT !.searches = searches,
                                !.recordings = @ \cup (recordings \cap searches)]
    /\ del' = "searches"
    /\ UNCHANGED <<dbVars, store, requestVars, keys, deletions, faults, history>>

Commit ==
    /\ del = "searches"
    /\ recordings' = recordings \ doomed.recordings
    /\ events' = events \ doomed.events
    /\ searches' = searches \ doomed.searches
    /\ doomed' = Nothing
    /\ del' = "idle"
    /\ keys' = {}
    /\ erased' = {q \in Queries : req[q] = "done"} \ raced
    /\ leaked' = leaked \cup raced
    /\ UNCHANGED <<store, requestVars, deletions, faults, raced, missed>>

\* An object or a statement fails: the rows stay, and the caller tries again.
DeleteFails ==
    /\ Deleting
    /\ Fault("delete")
    /\ doomed' = Nothing
    /\ del' = "idle"
    /\ keys' = {}
    /\ UNCHANGED <<dbVars, store, requestVars, deletions, history>>

Request(q) ==
    \/ Ask(q) \/ Leave(q) \/ Save(q) \/ End(q) \/ Put(q) \/ PutFails(q)
    \/ Insert(q) \/ InsertFails(q) \/ Undo(q)
    \/ ReadSearch(q) \/ WriteImpressions(q)

Deletion ==
    \/ ListKeys
    \/ \E q \in Queries : DeleteObject(q)
    \/ DeleteRecordings
    \/ DeleteEvents
    \/ DeleteSearches
    \/ Commit
    \/ DeleteFails

\* Bound: every query was asked and every deletion made.
Over ==
    /\ \A q \in Queries : req[q] = "done" /\ imp[q] # "read"
    /\ ~Deleting /\ deletions = MaxDeletions
    /\ UNCHANGED vars

Next == (\E q \in Queries : Request(q)) \/ Deletion \/ Over

Spec == Init /\ [][Next]_vars

-----------------------------------------------------------------------------
(* Properties.                                                             *)

\* The types of the variables; rows refer to rows that exist.
TypeOK ==
    /\ searches \subseteq Queries
    /\ recordings \subseteq searches
    /\ events \subseteq Queries \X {"search", "impression"}
    /\ store \subseteq Queries
    /\ req \in [Queries -> {"none", "searching", "saved", "put", "undo", "done"}]
    /\ left \subseteq Queries
    /\ told \subseteq Queries
    /\ imp \in [Queries -> {"none", "read", "done"}]
    /\ del \in {"idle", "objects", "recordings", "events", "searches"}
    /\ keys \subseteq Queries
    /\ doomed \in [recordings : SUBSET Queries, searches : SUBSET Queries,
                   events : SUBSET (Queries \X {"search", "impression"})]
    /\ faults \in 0 .. MaxFaults
    /\ deletions \in 0 .. MaxDeletions
    /\ raced \cup leaked \cup missed \cup erased \subseteq Queries

\* A deletion that reported success has removed all rows of the requests that
\* were over when it began, and nothing brings them back; and their objects, but
\* for those of a retention that had failed half-way and those its listing left
\* out.
DeletedMeansGone ==
    \A q \in erased :
        /\ q \notin searches \cup recordings
        /\ \A type \in {"search", "impression"} : <<q, type>> \notin events
        /\ q \in store => q \in leaked \cup missed

\* Objects are deleted first, so a deletion that fails at any object or statement,
\* and is tried again, leaves rows without objects and never an object without
\* its row; a listing that breaks off is the exception.
DeletionOrphansNothing ==
    \A q \in store \ recordings :
        req[q] \in {"put", "undo"} \/ q \in leaked \cup missed

\* What privacy.go says of DeleteSession: a failure leaves the rows and a retry
\* rather than an orphaned recording.
FailuresLeaveRows ==
    \A q \in store \ recordings :
        req[q] \in {"put", "undo"} \/ q \in leaked

\* migrations/0012_voice_search.sql says that a kept recording is an object
\* referenced by a row, and otherwise discarded: with no request or deletion
\* under way, every object has its row.
RecordingsAreReferenced ==
    (~Deleting /\ \A q \in Queries : ~InFlight(q)) => store \subseteq recordings
=============================================================================
