------------------------------ MODULE JobQueue ------------------------------
(***************************************************************************)
(* The PostgreSQL job queue (internal/jobs/jobs.go) and the runner         *)
(* goroutines that drain it (internal/jobs/runner.go), over the rows of    *)
(* the jobs table (migrations/0003_jobs.sql).                              *)
(*                                                                         *)
(* Every SQL statement of the queue is one action: PostgreSQL makes it     *)
(* atomic.  Everything a runner does between two statements (running the   *)
(* handler, deciding between Fail and Complete) happens in steps of its    *)
(* own, so leases expire and other runners act in between.                 *)
(*                                                                         *)
(* Clock times are modelled by what is left of them: wait[j] is run_at     *)
(* minus now (negative when overdue), lease[j] is lease_expires_at minus   *)
(* now, renewIn[w] is the time to the next tick of w's renewal goroutine.  *)
(* A tick is longer than a database round trip.                            *)
(***************************************************************************)
EXTENDS Integers, FiniteSets

CONSTANTS
    Jobs,         \* identities of rows: one per (job_type, idempotency_key)
    Workers,      \* runner goroutines, of every replica
    MaxAttempts,  \* max_attempts of each job
    Lease,        \* ticks a claim or a renewal holds a job for
    BackoffBase,  \* delay before the second attempt
    BackoffCap,   \* longest delay between attempts
    WordBits,     \* width of the time.Duration the delay is shifted in
    Delays,       \* run_at minus now of an enqueue
    MaxAge,       \* bound: jobs overdue longer than this count as equally old
    NoJob         \* the job of an idle worker

ASSUME JobQueueAssumption ==
    /\ IsFiniteSet(Workers)
    /\ MaxAttempts \in [Jobs -> Nat \ {0}]
    /\ Lease \in Nat \ {0, 1}
    /\ BackoffBase \in Nat
    /\ BackoffCap \in Nat
    /\ Delays \subseteq Nat
    /\ MaxAge \in Nat
    /\ NoJob \notin Jobs \cup Workers

VARIABLES
    status,    \* jobs.status, "absent" before the row is inserted
    attempts,  \* jobs.attempts
    wait,      \* jobs.run_at - now()
    lease,     \* jobs.lease_expires_at - now(), NoLease when NULL
    phase,     \* where each worker is in runWorker and process
    held,      \* the job a worker has claimed
    snap,      \* job.Attempts as the claim returned it
    outcome,   \* what the handler returned
    renewIn,   \* time to the next renewal, Stopped when nobody renews
    late       \* history: jobs whose renewal or record was ever missed

rowVars == <<status, attempts, wait, lease>>
runnerVars == <<phase, held, snap, outcome, renewIn>>
vars == <<status, attempts, wait, lease, phase, held, snap, outcome, renewIn, late>>

NoLease == -2
Expired == -1
Stopped == -1
Terminal == {"completed", "dead"}
Status == {"absent", "pending", "running"} \cup Terminal
Half == Lease \div 2

-----------------------------------------------------------------------------
(* The queue's statements and helpers.                                     *)

Larger(x, y) == IF x > y THEN x ELSE y

\* The delay after the n-th attempt: base << (n-1) in a machine word, and the
\* cap once that is larger, zero or wrapped to a negative number.
Backoff(n) ==
    LET shifted == (BackoffBase * 2 ^ (n - 1)) % 2 ^ WordBits
    IN  IF BackoffBase = 0 THEN 0
        ELSE IF shifted \in 1 .. BackoffCap THEN shifted ELSE BackoffCap

\* Pending jobs that are due, and the ones of them ORDER BY run_at puts first.
Due == {j \in Jobs : status[j] = "pending" /\ wait[j] <= 0}
Oldest == {j \in Due : \A k \in Due : wait[j] <= wait[k]}

\* Faulty variant: the reaper takes every running row.
AbandonedAny == {j \in Jobs : status[j] = "running"}

Abandoned == {j \in Jobs : status[j] = "running" /\ lease[j] = Expired}

\* Faulty variant: an attempt is counted too early.
ExhaustedEarly(j, n) == n + 1 >= MaxAttempts[j]

Exhausted(j, n) == n >= MaxAttempts[j]

Holders(j) == {w \in Workers : held[w] = j}

Init ==
    /\ status = [j \in Jobs |-> "absent"]
    /\ attempts = [j \in Jobs |-> 0]
    /\ wait = [j \in Jobs |-> 0]
    /\ lease = [j \in Jobs |-> NoLease]
    /\ phase = [w \in Workers |-> "reap"]
    /\ held = [w \in Workers |-> NoJob]
    /\ snap = [w \in Workers |-> 0]
    /\ outcome = [w \in Workers |-> "none"]
    /\ renewIn = [w \in Workers |-> Stopped]
    /\ late = {}

\* Faulty variant: ON CONFLICT puts a completed row back to pending.
EnqueueAgain(j, d) ==
    /\ status[j] \in {"absent", "completed"}
    /\ status' = [status EXCEPT ![j] = "pending"]
    /\ wait' = [wait EXCEPT ![j] = d]
    /\ UNCHANGED <<attempts, lease, runnerVars, late>>

\* Enqueue inserts a pending row; when the key exists, whatever the status of
\* its row, ON CONFLICT DO NOTHING leaves the table as it is.
Enqueue(j, d) ==
    /\ status[j] = "absent"
    /\ status' = [status EXCEPT ![j] = "pending"]
    /\ wait' = [wait EXCEPT ![j] = d]
    /\ UNCHANGED <<attempts, lease, runnerVars, late>>

-----------------------------------------------------------------------------
(* One iteration of runWorker: reap, claim, process.                       *)

\* Faulty variant: rows without attempts left are not reaped.
ReapRetryable(w) ==
    /\ phase[w] = "reap"
    /\ LET S == {j \in Abandoned : ~Exhausted(j, attempts[j])}
       IN  /\ status' = [j \in Jobs |-> IF j \in S THEN "pending" ELSE status[j]]
           /\ lease' = [j \in Jobs |-> IF j \in S THEN NoLease ELSE lease[j]]
    /\ phase' = [phase EXCEPT ![w] = "claim"]
    /\ UNCHANGED <<attempts, wait, held, snap, outcome, renewIn, late>>

\* ReapExpiredLeases: one UPDATE over every running row whose lease is over.
Reap(w) ==
    /\ phase[w] = "reap"
    /\ status' = [j \in Jobs |->
                    IF j \notin Abandoned THEN status[j]
                    ELSE IF Exhausted(j, attempts[j]) THEN "dead" ELSE "pending"]
    /\ lease' = [j \in Jobs |-> IF j \in Abandoned THEN NoLease ELSE lease[j]]
    /\ phase' = [phase EXCEPT ![w] = "claim"]
    /\ UNCHANGED <<attempts, wait, held, snap, outcome, renewIn, late>>

\* Faulty variant: a reclaimed job gets the attempt number it had.
ClaimUncounted(w, j) ==
    /\ phase[w] = "claim"
    /\ j \in Oldest
    /\ LET n == Larger(attempts[j], 1)
       IN  /\ attempts' = [attempts EXCEPT ![j] = n]
           /\ snap' = [snap EXCEPT ![w] = n]
    /\ status' = [status EXCEPT ![j] = "running"]
    /\ lease' = [lease EXCEPT ![j] = Lease]
    /\ phase' = [phase EXCEPT ![w] = "handle"]
    /\ held' = [held EXCEPT ![w] = j]
    /\ renewIn' = [renewIn EXCEPT ![w] = Half]
    /\ UNCHANGED <<wait, outcome, late>>

Claim(w, j) ==
    /\ phase[w] = "claim"
    /\ j \in Oldest
    /\ status' = [status EXCEPT ![j] = "running"]
    /\ attempts' = [attempts EXCEPT ![j] = attempts[j] + 1]
    /\ lease' = [lease EXCEPT ![j] = Lease]
    /\ phase' = [phase EXCEPT ![w] = "handle"]
    /\ held' = [held EXCEPT ![w] = j]
    /\ snap' = [snap EXCEPT ![w] = attempts[j] + 1]
    /\ renewIn' = [renewIn EXCEPT ![w] = Half]
    /\ UNCHANGED <<wait, outcome, late>>

\* Nothing is due (or the statement failed): wait for the poll interval.
ClaimNothing(w) ==
    /\ phase[w] = "claim"
    /\ Due = {}
    /\ phase' = [phase EXCEPT ![w] = "reap"]
    /\ UNCHANGED <<rowVars, held, snap, outcome, renewIn, late>>

\* The renewal goroutine's ticker fires.  RenewLease touches the row of this
\* job if it is running, whoever runs it, and is an error otherwise; the
\* goroutine returns on the first error and is not restarted.
Renew(w) ==
    /\ renewIn[w] = 0
    /\ IF status[held[w]] = "running"
       THEN /\ lease' = [lease EXCEPT ![held[w]] = Lease]
            /\ renewIn' = [renewIn EXCEPT ![w] = Half]
       ELSE /\ renewIn' = [renewIn EXCEPT ![w] = Stopped]
            /\ UNCHANGED lease
    /\ UNCHANGED <<status, attempts, wait, phase, held, snap, outcome, late>>

\* The renewal's statement fails; the handler goes on without a renewer.
RenewError(w) ==
    /\ renewIn[w] = 0
    /\ renewIn' = [renewIn EXCEPT ![w] = Stopped]
    /\ late' = late \cup {held[w]}
    /\ UNCHANGED <<rowVars, phase, held, snap, outcome>>

\* The handler returns nil, an error or a permanent error, or panics (an
\* error too), and the renewal is stopped.
HandlerReturns(w, o) ==
    /\ phase[w] = "handle"
    /\ phase' = [phase EXCEPT ![w] = "record"]
    /\ outcome' = [outcome EXCEPT ![w] = o]
    /\ renewIn' = [renewIn EXCEPT ![w] = Stopped]
    /\ UNCHANGED <<rowVars, held, snap, late>>

\* The worker is back at the top of its loop, with no job.
Released(w) ==
    /\ phase' = [phase EXCEPT ![w] = "reap"]
    /\ held' = [held EXCEPT ![w] = NoJob]
    /\ snap' = [snap EXCEPT ![w] = 0]
    /\ outcome' = [outcome EXCEPT ![w] = "none"]
    /\ renewIn' = [renewIn EXCEPT ![w] = Stopped]
    /\ UNCHANGED late

\* Complete: only a running row, whoever claimed it last.
Complete(w) ==
    /\ phase[w] = "record"
    /\ outcome[w] = "ok"
    /\ IF status[held[w]] = "running"
       THEN /\ status' = [status EXCEPT ![held[w]] = "completed"]
            /\ lease' = [lease EXCEPT ![held[w]] = NoLease]
       ELSE UNCHANGED <<status, lease>>
    /\ Released(w)
    /\ UNCHANGED <<attempts, wait>>

\* Fail, last attempt or permanent error: dead-letter the row, whatever its
\* status.
FailDead(w) ==
    /\ phase[w] = "record"
    /\ outcome[w] \in {"error", "permanent"}
    /\ outcome[w] = "permanent" \/ Exhausted(held[w], snap[w])
    /\ status' = [status EXCEPT ![held[w]] = "dead"]
    /\ lease' = [lease EXCEPT ![held[w]] = NoLease]
    /\ Released(w)
    /\ UNCHANGED <<attempts, wait>>

\* Fail otherwise: back to pending after a backoff, whatever the status.
FailRetry(w) ==
    /\ phase[w] = "record"
    /\ outcome[w] = "error"
    /\ ~Exhausted(held[w], snap[w])
    /\ status' = [status EXCEPT ![held[w]] = "pending"]
    /\ lease' = [lease EXCEPT ![held[w]] = NoLease]
    /\ wait' = [wait EXCEPT ![held[w]] = Backoff(snap[w])]
    /\ Released(w)
    /\ UNCHANGED attempts

\* The worker drops its job and the row keeps what it has: its process ends
\* (a crash or a shutdown, whose cancelled context fails Fail and Complete
\* too), or the statement that should record the outcome fails.
Drop(w) ==
    /\ held[w] # NoJob
    /\ Released(w)
    /\ UNCHANGED rowVars

-----------------------------------------------------------------------------

\* Workers that have a statement to send before time goes on: a renewal is
\* due, or the handler has returned.
Overdue == {w \in Workers : phase[w] = "record" \/ renewIn[w] = 0}

\* One tick of every clock.  When it passes an overdue worker by, that worker
\* is stalled, and its job is late from then on.
Tick ==
    /\ wait' = [j \in Jobs |->
                  IF status[j] \in {"pending", "running"}
                  THEN Larger(wait[j] - 1, -MaxAge) ELSE wait[j]]
    /\ lease' = [j \in Jobs |->
                   IF lease[j] >= 0 THEN lease[j] - 1 ELSE lease[j]]
    /\ renewIn' = [w \in Workers |->
                     IF renewIn[w] > 0 THEN renewIn[w] - 1 ELSE renewIn[w]]
    /\ late' = late \cup {held[w] : w \in Overdue}
    /\ UNCHANGED <<status, attempts, phase, held, snap, outcome>>

Record(w) == Complete(w) \/ FailDead(w) \/ FailRetry(w)

Poll(w) == Reap(w) \/ ClaimNothing(w) \/ \E j \in Jobs : Claim(w, j)

Return(w) == \E o \in {"ok", "error", "permanent"} : HandlerReturns(w, o)

Next ==
    \/ \E j \in Jobs, d \in Delays : Enqueue(j, d)
    \/ \E w \in Workers :
          Poll(w) \/ Renew(w) \/ RenewError(w) \/ Return(w) \/ Record(w) \/ Drop(w)
    \/ Tick

\* Workers keep running and handlers return (their calls have timeouts), so
\* every runner step that stays possible is taken, and time goes on.  Nothing
\* is assumed of enqueues, failures, crashes, or of when a step is taken: a
\* worker may stall for any time before each.
Fairness ==
    /\ \A w \in Workers :
          /\ WF_vars(Poll(w))
          /\ WF_vars(Renew(w))
          /\ WF_vars(Return(w))
          /\ WF_vars(Record(w))
    /\ WF_vars(Tick)

Spec == Init /\ [][Next]_vars

FairSpec == Spec /\ Fairness
-----------------------------------------------------------------------------
(* Properties.                                                             *)

TypeOK ==
    /\ status \in [Jobs -> Status]
    /\ attempts \in [Jobs -> Nat]
    /\ wait \in [Jobs -> Int]
    /\ lease \in [Jobs -> {NoLease, Expired} \cup 0 .. Lease]
    /\ phase \in [Workers -> {"reap", "claim", "handle", "record"}]
    /\ held \in [Workers -> Jobs \cup {NoJob}]
    /\ snap \in [Workers -> Nat]
    /\ outcome \in [Workers -> {"none", "ok", "error", "permanent"}]
    /\ renewIn \in [Workers -> {Stopped} \cup 0 .. Half]
    /\ late \subseteq Jobs

\* The reaper finds a job by its lease: a running row has one, so that a job
\* whose workers are all gone can be recovered, and no other row has one.
LeaseIffRunning == \A j \in Jobs : status[j] = "running" <=> lease[j] # NoLease

\* Every attempt number is given to one worker: two workers holding the same
\* job, which stale leases make possible, hold different attempts of it, and
\* no attempt is ahead of the row's counter.
AttemptsAreDistinct ==
    \A w \in Workers :
        held[w] # NoJob =>
            /\ snap[w] \in 1 .. attempts[held[w]]
            /\ \A v \in Workers : v # w /\ held[v] = held[w] => snap[v] # snap[w]

\* max_attempts is exceeded by stale failures (Fail does not look at the
\* row's status), but never doubled: each claim beyond it needs a worker that
\* still holds one of the MaxAttempts - 1 retryable attempts.
AttemptsBounded == \A j \in Jobs : attempts[j] <= 2 * MaxAttempts[j] - 1

\* A row becomes dead only after its last attempt or a permanent error: no
\* retry is lost, whichever worker or reaper writes it.
DeadHasCause ==
    \A j \in Jobs :
        status[j] # "dead" /\ status'[j] = "dead" =>
            \/ attempts[j] >= MaxAttempts[j]
            \/ \E w \in Holders(j) : outcome[w] = "permanent"

DeadIsJustified == [][DeadHasCause]_vars

\* The history of a job none of whose workers was late follows the contract:
\* one owner at a time, at most MaxAttempts of them, taken away only when the
\* owner is gone, and terminal states that last.
OwnerOf(j) ==
    IF j \notin late /\ Holders(j) # {} THEN CHOOSE w \in Holders(j) : TRUE ELSE NoJob

Contract ==
    INSTANCE JobContract WITH
        NoOwner <- NoJob,
        state <- [j \in Jobs |-> IF j \in late THEN "void" ELSE status[j]],
        owner <- [j \in Jobs |-> OwnerOf(j)],
        tries <- [j \in Jobs |-> IF j \in late THEN 0 ELSE attempts[j]]

KeepsContract == Contract!Spec

\* Two workers hold a job at the same time only after one of them was late.
ExclusiveWhenPunctual ==
    \A j \in Jobs \ late : \A w, v \in Holders(j) : w = v

\* Whatever crashes, stalls and lost statements happen, every job ends up
\* completed or dead and stays so.
EveryJobSettles ==
    \A j \in Jobs : status[j] # "absent" ~> [](status[j] \in Terminal)
=============================================================================
