---------------------------- MODULE OutboxDrain -----------------------------
(***************************************************************************)
(* The outbox (internal/outbox): transactions append events, workers of    *)
(* several replicas (Worker.Run) list the unprocessed ones in batches and  *)
(* hand them to handlers, with no lock between them.                       *)
(*                                                                         *)
(* An event is its id.  Ids are given when the row is inserted, and the    *)
(* row shows when its transaction commits: ids appear out of order.        *)
(***************************************************************************)
EXTENDS Integers, Sequences, FiniteSets

CONSTANTS
    MaxEvent,    \* bound: events ever appended
    Unknown,     \* events whose type has no handler
    Workers,
    BatchSize,
    MaxAttempts,
    MaxFaults    \* bound: crashes and failed updates

Events == 1 .. MaxEvent

ASSUME OutboxAssumption ==
    /\ MaxEvent \in Nat /\ MaxFaults \in Nat
    /\ BatchSize \in Nat \ {0} /\ MaxAttempts \in Nat \ {0}
    /\ Unknown \subseteq Events
    /\ IsFiniteSet(Workers)

VARIABLES
    row,       \* "none", "open" (appended, not committed), "gone" (rolled
               \* back), "pending" or "processed"
    attempts,  \* outbox.attempts
    batch,     \* what is left of each worker's batch: rows as it read them
    verdict,   \* what it will write for the first of them, "none" before
    tried,     \* history: events a handler was called with,
    handled,   \* and those it handled without an error
    overtaken, \* history: events committed after a later id was listed
    faults

rowVars == <<row, attempts>>
history == <<tried, handled, overtaken>>
vars == <<rowVars, batch, verdict, history, faults>>

Pending == {e \in Events : row[e] = "pending"}
Fault == faults < MaxFaults /\ faults' = faults + 1

Init ==
    /\ row = [e \in Events |-> "none"]
    /\ attempts = [e \in Events |-> 0]
    /\ batch = [w \in Workers |-> <<>>]
    /\ verdict = [w \in Workers |-> "none"]
    /\ tried = {}
    /\ handled = {}
    /\ overtaken = {}
    /\ faults = 0

Listed == UNION {{batch[w][k].id : k \in DOMAIN batch[w]} : w \in Workers}

-----------------------------------------------------------------------------
(* Transactions.                                                           *)

AppendEvent(e) ==
    /\ row[e] = "none"
    /\ \A d \in 1 .. e - 1 : row[d] # "none"
    /\ row' = [row EXCEPT ![e] = "open"]
    /\ UNCHANGED <<attempts, batch, verdict, history, faults>>

End(e) ==
    /\ row[e] = "open"
    /\ \E s \in {"pending", "gone"} : row' = [row EXCEPT ![e] = s]
    /\ overtaken' = IF \E d \in tried \cup Listed : d > e
                    THEN overtaken \cup {e} ELSE overtaken
    /\ UNCHANGED <<attempts, batch, verdict, tried, handled, faults>>

-----------------------------------------------------------------------------
(* Worker.Run.                                                             *)

\* Faulty variant: no ORDER BY: the newest events first.
FirstNewest(n) == {e \in Pending : Cardinality({d \in Pending : d > e}) < n}

\* ORDER BY id LIMIT n.
First(n) == {e \in Pending : Cardinality({d \in Pending : d < e}) < n}

\* Unprocessed: the first ids in their order (there is one such list), and
\* the rows as they are.
Unprocessed ==
    LET S == First(BatchSize)
    IN  {ids \in [1 .. Cardinality(S) -> S] :
           /\ \A e \in S : \E k \in DOMAIN ids : ids[k] = e
           /\ \A j, k \in DOMAIN ids : j < k => ids[j] < ids[k]}

RowOf(e) == [id |-> e, attempts |-> attempts[e]]

\* An empty list is followed by a pause and another list.
List(w) ==
    /\ batch[w] = <<>>
    /\ Pending # {}
    /\ \E ids \in Unprocessed :
          batch' = [batch EXCEPT ![w] = [k \in DOMAIN ids |-> RowOf(ids[k])]]
    /\ UNCHANGED <<rowVars, verdict, history, faults>>

Exhausted(r) == r.attempts >= MaxAttempts

\* The two lines of the loop that choose what is written for the event.
Decide(w, v) ==
    /\ verdict[w] = "none"
    /\ batch[w] # <<>>
    /\ verdict' = [verdict EXCEPT ![w] = v]
    /\ UNCHANGED <<rowVars, batch, overtaken, faults>>

\* Faulty variant: an event without attempts left is passed over, not consumed.
PassOver(w) ==
    /\ verdict[w] = "none"
    /\ batch[w] # <<>>
    /\ Head(batch[w]).id \in Unknown \/ Exhausted(Head(batch[w]))
    /\ batch' = [batch EXCEPT ![w] = Tail(@)]
    /\ UNCHANGED <<rowVars, verdict, history, faults>>

\* No handler, or no attempts left: the event is consumed.
Skip(w) ==
    /\ Decide(w, "processed")
    /\ Head(batch[w]).id \in Unknown \/ Exhausted(Head(batch[w]))
    /\ UNCHANGED <<tried, handled>>

\* Faulty variant: the event is consumed although its handler failed.
HandleOnce(w, ok) ==
    /\ Decide(w, "processed")
    /\ Head(batch[w]).id \notin Unknown /\ ~Exhausted(Head(batch[w]))
    /\ tried' = tried \cup {Head(batch[w]).id}
    /\ handled' = IF ok THEN handled \cup {Head(batch[w]).id} ELSE handled

\* The handler is called.
Handle(w, ok) ==
    /\ Decide(w, IF ok THEN "processed" ELSE "failed")
    /\ Head(batch[w]).id \notin Unknown /\ ~Exhausted(Head(batch[w]))
    /\ tried' = tried \cup {Head(batch[w]).id}
    /\ handled' = IF ok THEN handled \cup {Head(batch[w]).id} ELSE handled

Forward(w) ==
    /\ batch' = [batch EXCEPT ![w] = Tail(@)]
    /\ verdict' = [verdict EXCEPT ![w] = "none"]
    /\ UNCHANGED history

\* MarkProcessed or MarkFailed: an UPDATE by id, whatever the row has become.
Mark(w) ==
    /\ verdict[w] # "none"
    /\ LET e == Head(batch[w]).id
       IN  IF verdict[w] = "processed"
           THEN row' = [row EXCEPT ![e] = "processed"] /\ UNCHANGED attempts
           ELSE attempts' = [attempts EXCEPT ![e] = @ + 1] /\ UNCHANGED row
    /\ Forward(w)
    /\ UNCHANGED faults

\* The UPDATE fails and is logged.
MarkFails(w) ==
    /\ verdict[w] # "none"
    /\ Fault
    /\ Forward(w)
    /\ UNCHANGED rowVars

\* The replica dies; it starts again with a new list.
Crash(w) ==
    /\ batch[w] # <<>>
    /\ Fault
    /\ batch' = [batch EXCEPT ![w] = <<>>]
    /\ verdict' = [verdict EXCEPT ![w] = "none"]
    /\ UNCHANGED <<rowVars, history>>

Dispatch(w) == Skip(w) \/ \E ok \in BOOLEAN : Handle(w, ok)

\* Bound: all events are appended, ended and processed.
Quiet ==
    /\ \A e \in Events : row[e] \in {"processed", "gone"}
    /\ \A w \in Workers : batch[w] = <<>>
    /\ UNCHANGED vars

Next ==
    \/ \E e \in Events : AppendEvent(e) \/ End(e)
    \/ \E w \in Workers : List(w) \/ Dispatch(w) \/ Mark(w) \/ MarkFails(w) \/ Crash(w)
    \/ Quiet

Spec == Init /\ [][Next]_vars

\* The loop of Run never stops by itself.
FairSpec ==
    /\ Spec
    /\ \A w \in Workers : WF_vars(List(w)) /\ WF_vars(Dispatch(w)) /\ WF_vars(Mark(w))

-----------------------------------------------------------------------------
(* Properties.                                                             *)

Read == [id : Events, attempts : 0 .. MaxAttempts + Cardinality(Workers)]

\* The types of the variables.  Several workers that read a row before its last
\* attempt each add one to it: no more than that.
TypeOK ==
    /\ row \in [Events -> {"none", "open", "gone", "pending", "processed"}]
    /\ attempts \in [Events -> 0 .. MaxAttempts + Cardinality(Workers) - 1]
    /\ \A w \in Workers : batch[w] \in Seq(Read) /\ Len(batch[w]) <= BatchSize
    /\ verdict \in [Workers -> {"none", "processed", "failed"}]
    /\ tried \subseteq Events
    /\ handled \subseteq tried
    /\ overtaken \subseteq Events
    /\ faults \in 0 .. MaxFaults

\* At least once: an event is only ever consumed after its handler succeeded,
\* after it used up its attempts, or when nothing handles its type.
ConsumedForCause ==
    \A e \in Events : row[e] = "processed" =>
        e \in handled \/ e \in Unknown \/ attempts[e] >= MaxAttempts

\* The outbox implements OutboxContract: seen without its replicas and their
\* batches, every behaviour with its deaths, stale rows and lost updates keeps
\* the order, never shows a handler what was not committed, and consumes an
\* event once and for a cause.  An event that was rolled back is not late.
Contract ==
    INSTANCE OutboxContract WITH
        state <- row, failures <- attempts,
        late <- {e \in overtaken : row[e] # "gone"}

KeepsPromises == Contract!Spec

\* In insertion order: no event reaches a handler before an earlier one that
\* was committed in time, however many replicas drain, fail and restart.
InsertionOrder ==
    \A e \in tried : \A d \in Pending \ (overtaken \cup Unknown) :
        d < e => d \in tried

\* Neither failing events at the head of every batch, nor crashes, nor lost
\* updates keep a committed event in the outbox for ever: once no more are
\* appended, the outbox is drained.
EveryEventSettles == <>[](Pending = {})
=============================================================================
