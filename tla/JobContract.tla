----------------------------- MODULE JobContract -----------------------------
(***************************************************************************)
(* What the job queue promises of every job whose workers are punctual: an *)
(* exclusive owner, at most MaxAttempts owners one after another, and      *)
(* final terminal states.  A job one of whose owners missed a renewal or   *)
(* a record is void: the queue promises nothing of this kind about it.     *)
(***************************************************************************)
EXTENDS Naturals

CONSTANTS Jobs, Workers, MaxAttempts, NoOwner

VARIABLES state, owner, tries

contract == <<state, owner, tries>>

Init ==
    /\ state = [j \in Jobs |-> "absent"]
    /\ owner = [j \in Jobs |-> NoOwner]
    /\ tries = [j \in Jobs |-> 0]

Create(j) ==
    /\ state[j] = "absent"
    /\ state' = [state EXCEPT ![j] = "pending"]
    /\ UNCHANGED <<owner, tries>>

Take(j, w) ==
    /\ state[j] = "pending"
    /\ tries[j] < MaxAttempts[j]
    /\ state' = [state EXCEPT ![j] = "running"]
    /\ owner' = [owner EXCEPT ![j] = w]
    /\ tries' = [tries EXCEPT ![j] = tries[j] + 1]

\* The owner reports success, a failure that may be retried, or the last one.
Report(j, result) ==
    /\ state[j] = "running"
    /\ owner[j] # NoOwner
    /\ \/ result \in {"completed", "dead"}
       \/ result = "pending" /\ tries[j] < MaxAttempts[j]
    /\ state' = [state EXCEPT ![j] = result]
    /\ owner' = [owner EXCEPT ![j] = NoOwner]
    /\ UNCHANGED tries

\* The owner disappears without a report.
Vanish(j) ==
    /\ state[j] = "running"
    /\ owner[j] # NoOwner
    /\ owner' = [owner EXCEPT ![j] = NoOwner]
    /\ UNCHANGED <<state, tries>>

\* Only a job whose owner is gone is taken away from its owner.
Recover(S) ==
    /\ \A j \in S : state[j] = "running" /\ owner[j] = NoOwner
    /\ state' = [j \in Jobs |->
                   IF j \notin S THEN state[j]
                   ELSE IF tries[j] < MaxAttempts[j] THEN "pending" ELSE "dead"]
    /\ UNCHANGED <<owner, tries>>

Void(S) ==
    /\ state' = [j \in Jobs |-> IF j \in S THEN "void" ELSE state[j]]
    /\ owner' = [j \in Jobs |-> IF j \in S THEN NoOwner ELSE owner[j]]
    /\ tries' = [j \in Jobs |-> IF j \in S THEN 0 ELSE tries[j]]

Next ==
    \/ \E j \in Jobs :
          \/ Create(j)
          \/ \E w \in Workers : Take(j, w)
          \/ \E result \in {"pending", "completed", "dead"} : Report(j, result)
          \/ Vanish(j)
    \/ \E S \in SUBSET Jobs : Recover(S) \/ Void(S)

Spec == Init /\ [][Next]_contract
=============================================================================
