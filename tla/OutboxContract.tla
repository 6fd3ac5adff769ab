--------------------------- MODULE OutboxContract ---------------------------
(***************************************************************************)
(* What the outbox promises of every event, whoever drains it and whatever *)
(* dies meanwhile: it shows with its transaction or never; handlers see    *)
(* only what was committed, and of what was committed in time the earlier  *)
(* before the later; failures are counted only of events that were tried;  *)
(* and an event is consumed once, for good and for a cause.                *)
(***************************************************************************)
EXTENDS Naturals

CONSTANTS Events, Unknown, MaxAttempts

VARIABLES
    state,    \* "none", "open", "gone", "pending" or "processed"
    failures, \* those that are counted
    tried, handled,
    late      \* events that showed after a later one did

contract == <<state, failures, tried, handled, late>>

Shown(e) == state[e] \in {"pending", "processed"}

Init ==
    /\ state = [e \in Events |-> "none"]
    /\ failures = [e \in Events |-> 0]
    /\ tried = {} /\ handled = {} /\ late = {}

Begin(e) ==
    /\ state[e] = "none"
    /\ \A d \in Events : d < e => state[d] # "none"
    /\ state' = [state EXCEPT ![e] = "open"]
    /\ UNCHANGED <<failures, tried, handled, late>>

Commit(e) ==
    /\ state[e] = "open"
    /\ state' = [state EXCEPT ![e] = "pending"]
    /\ \/ UNCHANGED late
       \/ (\E d \in Events : d > e /\ Shown(d)) /\ late' = late \cup {e}
    /\ UNCHANGED <<failures, tried, handled>>

Abandon(e) ==
    /\ state[e] = "open"
    /\ state' = [state EXCEPT ![e] = "gone"]
    /\ UNCHANGED <<failures, tried, handled, late>>

\* More than once, and by replicas that do not know it is consumed.
Try(e, ok) ==
    /\ Shown(e) /\ e \notin Unknown
    /\ \A d \in Events \ (late \cup Unknown) : d < e /\ state[d] = "pending" => d \in tried
    /\ tried' = tried \cup {e}
    /\ handled' = IF ok THEN handled \cup {e} ELSE handled
    /\ UNCHANGED <<state, failures, late>>

CountFailure(e) ==
    /\ e \in tried
    /\ failures' = [failures EXCEPT ![e] = failures[e] + 1]
    /\ UNCHANGED <<state, tried, handled, late>>

Consume(e) ==
    /\ state[e] = "pending"
    /\ e \in handled \/ e \in Unknown \/ failures[e] >= MaxAttempts
    /\ state' = [state EXCEPT ![e] = "processed"]
    /\ UNCHANGED <<failures, tried, handled, late>>

Next ==
    \E e \in Events :
        \/ Begin(e) \/ Commit(e) \/ Abandon(e)
        \/ \E ok \in BOOLEAN : Try(e, ok)
        \/ CountFailure(e) \/ Consume(e)

Spec == Init /\ [][Next]_contract
=============================================================================
