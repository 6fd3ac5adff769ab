-------------------------- MODULE FeedRefreshProofs --------------------------
(***************************************************************************)
(* Proofs about FeedRefresh: for any number of workers, jobs, versions and *)
(* faults.                                                                 *)
(***************************************************************************)
EXTENDS FeedRefresh, TLAPS

\* The variables the two invariants speak of.
Typed ==
    /\ origin \in Nat /\ etag \in Nat /\ content \in Nat /\ announced \in Nat /\ txEvent \in Nat
    /\ exists \in BOOLEAN /\ overlapped \in BOOLEAN
    /\ lock \in Workers \cup {Nobody}
    /\ pc \in [Workers -> {"idle", "loaded", "fetched", "ingested", "record", "park",
                           "defer", "returned"}]
    /\ seen \in [Workers -> Nat]
    /\ body \in [Workers -> Nat]

\* The lock is held from the ingestion to the end of the transaction, and the
\* row stays.
LockIsHeld == \A w \in Workers : pc[w] = "ingested" <=> lock = w

RowStays == lock # Nobody => exists

\* What is stored was fetched, and is at least version 1.
FetchedIsSomething == \A w \in Workers : pc[w] \in {"fetched", "ingested"} => body[w] # 0

\* The event of an open transaction is its body's, if that is a change.
EventIsPending ==
    \A w \in Workers :
        pc[w] = "ingested" => txEvent = IF content # body[w] THEN body[w] ELSE 0

Announcing ==
    /\ Typed /\ origin # 0
    /\ LockIsHeld /\ RowStays
    /\ FetchedIsSomething
    /\ EventIsPending
    /\ AnnouncedIsStored

\* Nothing is newer than the feed.
NothingAhead ==
    /\ etag <= origin /\ content <= origin
    /\ \A w \in Workers : body[w] <= origin

\* As long as no two refreshes overlapped, there is one at most, ...
Alone == ~overlapped => \A v, w \in Busy : v = w

\* ... which knows the row's validators, fetches nothing older than what is
\* stored, and records what is stored.
KnowsTheRow ==
    ~overlapped /\ exists =>
        \A w \in Workers :
            /\ pc[w] = "loaded" => seen[w] = etag
            /\ pc[w] \in {"fetched", "ingested"} => content <= body[w] /\ etag <= body[w]
            /\ pc[w] = "record" => body[w] <= content

Inv ==
    /\ Announcing
    /\ NothingAhead
    /\ Alone
    /\ KnowsTheRow
    /\ ValidatorNeverAhead

LEMMA InvInit == Init => Inv
  <1> SUFFICES ASSUME Init PROVE Inv
    OBVIOUS
  <1> USE DEF Init
  <1>1. Announcing
    <2>1. Typed
      BY DEF Typed
    <2>2. LockIsHeld /\ RowStays
      BY FeedRefreshAssumption DEF LockIsHeld, RowStays
    <2>3. FetchedIsSomething /\ EventIsPending /\ AnnouncedIsStored
      BY DEF FetchedIsSomething, EventIsPending, AnnouncedIsStored
    <2>4. QED
      BY <2>1, <2>2, <2>3 DEF Announcing
  <1>2. NothingAhead /\ Alone /\ KnowsTheRow /\ ValidatorNeverAhead
    BY DEF NothingAhead, Alone, Busy, KnowsTheRow, ValidatorNeverAhead
  <1>3. QED
    BY <1>1, <1>2 DEF Inv

LEMMA InvStep == Inv /\ [Next]_vars => Inv'
  <1> SUFFICES ASSUME Inv, [Next]_vars PROVE Inv'
    OBVIOUS
  <1> USE FeedRefreshAssumption
  <1> USE DEF Inv, Announcing, Typed, LockIsHeld, RowStays, FetchedIsSomething, EventIsPending,
              AnnouncedIsStored, NothingAhead, Alone, Busy, KnowsTheRow, ValidatorNeverAhead,
              rowVars, contentVars, queueVars, workerVars, Goto, Return, Fault, Reset
  <1>1. CASE Publish
    BY <1>1 DEF Publish
  <1>2. CASE NextWindow
    BY <1>2 DEF NextWindow
  <1>3. ASSUME NEW j \in Jobs, Schedule(j) PROVE Inv'
    BY <1>3 DEF Schedule
  <1>4. CASE Delete
    <2>1. /\ lock = Nobody /\ exists' = FALSE /\ content' = 0
          /\ UNCHANGED <<origin, etag, lock, announced, txEvent, workerVars, overlapped>>
      BY <1>4 DEF Delete
    <2>2. \A w \in Workers : pc[w] # "ingested"
      BY <2>1
    <2>3. Announcing'
      <3>1. Typed' /\ (origin # 0)'
        BY <2>1
      <3>2. LockIsHeld' /\ RowStays'
        BY <2>1
      <3>3. FetchedIsSomething' /\ EventIsPending' /\ AnnouncedIsStored'
        BY <2>1, <2>2
      <3>4. QED
        BY <3>1, <3>2, <3>3
    <2>4. NothingAhead' /\ Alone' /\ KnowsTheRow' /\ ValidatorNeverAhead'
      BY <2>1
    <2>5. QED
      BY <2>3, <2>4
  <1>5. ASSUME NEW w \in Workers, NEW j \in Jobs, Load(w, j) PROVE Inv'
    <2>1. /\ pc[w] = "idle"
          /\ UNCHANGED <<origin, exists, etag, nextFetch, lock, content, announced, txEvent, body>>
          /\ overlapped' = (overlapped \/ Busy # {})
      BY <1>5 DEF Load
    <2>2. \/ pc' = [pc EXCEPT ![w] = "loaded"] /\ seen' = [seen EXCEPT ![w] = etag]
          \/ pc' = [pc EXCEPT ![w] = "returned"] /\ ~exists /\ seen' = seen
      BY <1>5 DEF Load
    <2>3. Announcing' /\ NothingAhead' /\ ValidatorNeverAhead'
      BY <2>1, <2>2
    <2>4. ~overlapped' => Busy = {} /\ \A v \in Workers : v # w => pc[v] = "idle" /\ pc'[v] = "idle"
      BY <2>1, <2>2
    <2>5. Alone'
      BY <2>2, <2>4
    <2>6. KnowsTheRow'
      BY <2>1, <2>2, <2>4
    <2>7. QED
      BY <2>3, <2>5, <2>6
  <1>6. ASSUME NEW w \in Workers, Fetch(w) PROVE Inv'
    <2>1. /\ pc[w] = "loaded"
          /\ body' = [body EXCEPT ![w] = origin]
          /\ UNCHANGED <<origin, exists, etag, nextFetch, lock, content, announced, txEvent, seen,
                         overlapped>>
      BY <1>6 DEF Fetch
    <2>2. \/ pc' = [pc EXCEPT ![w] = "record"] /\ origin = seen[w]
          \/ pc' = [pc EXCEPT ![w] = "park"]
          \/ pc' = [pc EXCEPT ![w] = "fetched"]
      BY <1>6 DEF Fetch
    <2>3. Announcing' /\ NothingAhead' /\ ValidatorNeverAhead'
      BY <2>1, <2>2
    <2>4. Alone'
      BY <2>1, <2>2
    <2>5. KnowsTheRow'
      BY <2>1, <2>2
    <2>6. QED
      BY <2>3, <2>4, <2>5
  <1>7. ASSUME NEW w \in Workers, Ingest(w) PROVE Inv'
    BY <1>7 DEF Ingest
  <1>8. ASSUME NEW w \in Workers, IngestGone(w) PROVE Inv'
    BY <1>8 DEF IngestGone
  <1>9. ASSUME NEW w \in Workers, Commit(w) PROVE Inv'
    BY <1>9 DEF Commit
  <1>10. ASSUME NEW w \in Workers, Record(w) PROVE Inv'
    BY <1>10 DEF Record, UpdateRow
  <1>11. ASSUME NEW w \in Workers, Park(w) PROVE Inv'
    BY <1>11 DEF Park, UpdateRow
  <1>12. ASSUME NEW w \in Workers, Defer(w) PROVE Inv'
    BY <1>12 DEF Defer, UpdateRow
  <1>13. ASSUME NEW w \in Workers, Finish(w) PROVE Inv'
    BY <1>13 DEF Finish
  <1>14. ASSUME NEW w \in Workers, FetchFails(w) PROVE Inv'
    BY <1>14 DEF FetchFails
  <1>15. ASSUME NEW w \in Workers, StatementFails(w) PROVE Inv'
    BY <1>15 DEF StatementFails, Unlock
  <1>16. ASSUME NEW w \in Workers, Crash(w) PROVE Inv'
    BY <1>16 DEF Crash, Unlock
  <1>17. CASE UNCHANGED vars
    BY <1>17 DEF vars
  <1>18. QED
    BY <1>1, <1>2, <1>3, <1>4, <1>5, <1>6, <1>7, <1>8, <1>9, <1>10, <1>11, <1>12, <1>13,
       <1>14, <1>15, <1>16, <1>17 DEF Next, Scheduler, Claim, Work

THEOREM Invariant == Spec => []Inv
  BY InvInit, InvStep, PTL DEF Spec

\* Worker.handleFeedRefresh: the last event of the outbox announces the content
\* that is committed, in every state, for any number of refreshes that overlap,
\* fail and die: the event commits with the episodes or not at all.
THEOREM EventsMatchContent == Spec => []AnnouncedIsStored
  <1>1. Inv => AnnouncedIsStored
    BY DEF Inv, Announcing
  <1>2. QED
    BY Invariant, <1>1, PTL

\* Worker.recordFetch: as long as no two refreshes of the podcast ran at a time,
\* the stored validators never name a version newer than the stored items, so
\* that a refresh that stopped anywhere is made good by the next.
THEOREM ValidatorsLag == Spec => []ValidatorNeverAhead
  <1>1. Inv => ValidatorNeverAhead
    BY DEF Inv
  <1>2. QED
    BY Invariant, <1>1, PTL

=============================================================================
