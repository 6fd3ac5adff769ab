----------------------------- MODULE CatalogJobs -----------------------------
(***************************************************************************)
(* The catalogue worker's recurring jobs (internal/catalog/worker.go): the *)
(* scheduler, which lists the podcasts that are due and enqueues their     *)
(* refreshes, and the daily discovery, which registers new podcasts.  Each *)
(* run enqueues its successor, so that a chain is only as alive as its     *)
(* last job; every start of the worker enqueues both anew.                 *)
(*                                                                         *)
(* Time is counted in scheduler periods, Day of them in a day.  A job is   *)
(* known by its type and idempotency key and is kept when it is done: a    *)
(* key enqueues once.  Of the queue there are the claim, the failure of a  *)
(* handler's call and the loss of a worker, retried up to MaxAttempts      *)
(* (JobQueue has the rest); of a refresh, that it is enqueued (FeedRefresh *)
(* has the rest).                                                          *)
(***************************************************************************)
EXTENDS Naturals, FiniteSets

CONSTANTS
  Shows,        \* what the provider knows, by discovery id
  Day, Window,  \* scheduler periods of a day and of a poll window
  MaxAttempts,  \* of a job
  Concurrency,  \* jobs a worker runs at a time
  MaxTime,      \* bound on the time
  MaxStarts,    \* bound on the worker's starts
  MaxFaults     \* bound on the calls that fail and the workers that are lost

CatalogAssumption ==
  /\ {Day, Window, MaxAttempts, Concurrency} \subseteq Nat \ {0}
  /\ {MaxTime, MaxStarts, MaxFaults} \subseteq Nat
  /\ Shows \cap {"start", "each", "returned"} = {}

VARIABLES
  now,
  jobs,      \* job -> its state, attempts, run_at, and its handler: place, list and clock
  podcasts,  \* the shows that have a row
  starts, faults

vars == <<now, jobs, podcasts, starts, faults>>

Recurring == {"schedule", "discover"}
Live(j) == j \in DOMAIN jobs /\ jobs[j].state \in {"pending", "running"}
Running(j, place) == j \in DOMAIN jobs /\ jobs[j].state = "running" /\ jobs[j].at = place

\* Queue.EnqueueIn: a key that is there, whatever became of its job, is left alone.
Enqueued(q, new) ==
  [j \in DOMAIN q \cup DOMAIN new |-> IF j \in DOMAIN q THEN q[j] ELSE new[j]]

NewJob(j, at) == [k \in {j} |-> [state |-> "pending", attempts |-> 0, runAt |-> at,
                                 at |-> "start", todo |-> {}, clock |-> 0]]

\* The bucketed keys of EnqueueSchedulerTick and EnqueueDailyDiscovery.
Bucket(type, at) == IF type = "schedule" THEN at ELSE at \div Day
Period(type) == IF type = "schedule" THEN 1 ELSE Day
Tick(type, at) == NewJob(<<type, Bucket(type, at)>>, at)

Init ==
  /\ now = 0 /\ jobs = <<>>
  /\ podcasts = {} /\ starts = 0 /\ faults = 0

----------------------------------------------------------------------------
TimePasses ==
  /\ now < MaxTime /\ now' = now + 1
  /\ UNCHANGED <<jobs, podcasts, starts, faults>>

\* main seeds both chains.
StartWorker ==
  /\ starts < MaxStarts /\ starts' = starts + 1
  /\ jobs' = Enqueued(Enqueued(jobs, Tick("schedule", now)), Tick("discover", now))
  /\ UNCHANGED <<now, podcasts, faults>>

\* A run is over: the handler's place, list and clock are no more.
Ended(j, state) ==
  [jobs[j] EXCEPT !.state = state, !.at = "start", !.todo = {}, !.clock = 0,
                  !.attempts = IF state = "pending" THEN @ ELSE 0]

Claim(j) ==
  /\ j[1] \in Recurring /\ starts > 0
  /\ Cardinality({k \in DOMAIN jobs : jobs[k].state = "running"}) < Concurrency
  /\ jobs[j].state = "pending" /\ jobs[j].runAt <= now
  /\ jobs' = [jobs EXCEPT ![j].state = "running", ![j].attempts = @ + 1]
  /\ UNCHANGED <<now, podcasts, starts, faults>>

\* A call of the handler fails or the worker is lost, after the handler too.
Fail(j) ==
  /\ jobs[j].state = "running" /\ faults < MaxFaults /\ faults' = faults + 1
  /\ jobs' = [jobs EXCEPT ![j] = Ended(j, IF jobs[j].attempts >= MaxAttempts THEN "dead" ELSE "pending")]
  /\ UNCHANGED <<now, podcasts, starts>>

Goto(j, place, todo) == [jobs[j] EXCEPT !.at = place, !.todo = todo, !.clock = now]

----------------------------------------------------------------------------
\* handleSchedule lists what is due (any podcast: next_fetch_at is FeedRefresh's)
\* and then reads the clock, ...
ListDue(j) ==
  /\ j[1] = "schedule" /\ Running(j, "start")
  /\ \E due \in SUBSET podcasts : jobs' = [jobs EXCEPT ![j] = Goto(j, "each", due)]
  /\ UNCHANGED <<now, podcasts, starts, faults>>

\* ... enqueues one refresh per podcast and window, ...
EnqueueRefresh(j) ==
  /\ j[1] = "schedule" /\ Running(j, "each")
  /\ \E p \in jobs[j].todo :
       jobs' = Enqueued([jobs EXCEPT ![j].todo = @ \ {p}], NewJob(<<"refresh", p, 1 + jobs[j].clock \div Window>>, 0))
  /\ UNCHANGED <<now, podcasts, starts, faults>>

\* handleDiscover asks the provider, ...
Discover(j) ==
  /\ j[1] = "discover" /\ Running(j, "start")
  /\ \E found \in SUBSET Shows : jobs' = [jobs EXCEPT ![j] = Goto(j, "each", found)]
  /\ UNCHANGED <<now, podcasts, starts, faults>>

\* ... and registers what it does not know.  A show is passed over when it is
\* known (its popularity is kept up), when podcasts_discovery_key refuses it
\* because it has moved to another URL, and when the statement fails.
Register(j) ==
  /\ j[1] = "discover" /\ Running(j, "each")
  /\ \E p \in jobs[j].todo :
       \/ jobs' = [jobs EXCEPT ![j].todo = @ \ {p}] /\ UNCHANGED podcasts
       \/ /\ p \notin podcasts /\ podcasts' = podcasts \cup {p}
          /\ jobs' = [jobs EXCEPT ![j].todo = @ \ {p}, ![j].at = p]
  /\ UNCHANGED <<now, starts, faults>>

\* The first refresh is enqueued in a statement of its own, which may fail.
EnqueueInitial(j) ==
  /\ \E p \in podcasts :
       /\ Running(j, p)
       /\ jobs' \in {Enqueued([jobs EXCEPT ![j].at = "each"], refresh) :
                     refresh \in {NewJob(<<"refresh", p, 0>>, 0), <<>>}}
  /\ UNCHANGED <<now, podcasts, starts, faults>>

\* Faulty variant: the successor's key is of the time the handler runs at.
SuccessorNow(j) == Tick(j[1], IF j[1] = "schedule" THEN jobs[j].clock ELSE now)

\* One period on: from the scheduler's clock, from the end of the discovery.
Successor(j) == Tick(j[1], Period(j[1]) + IF j[1] = "schedule" THEN jobs[j].clock ELSE now)

\* Both enqueue their successor last, ...
EnqueueNext(j) ==
  /\ j[1] \in Recurring /\ Running(j, "each") /\ jobs[j].todo = {}
  /\ jobs' = Enqueued([jobs EXCEPT ![j].at = "returned"], Successor(j))
  /\ UNCHANGED <<now, podcasts, starts, faults>>

\* ... and the runner completes the job.
Complete(j) ==
  /\ Running(j, "returned")
  /\ jobs' = [jobs EXCEPT ![j] = Ended(j, "done")]
  /\ UNCHANGED <<now, podcasts, starts, faults>>

Handle(j) ==
  \/ ListDue(j) \/ EnqueueRefresh(j) \/ Discover(j) \/ Register(j) \/ EnqueueInitial(j)
  \/ EnqueueNext(j) \/ Complete(j)

Next == TimePasses \/ StartWorker \/ \E j \in DOMAIN jobs : Claim(j) \/ Fail(j) \/ Handle(j)

Spec == Init /\ [][Next]_vars

----------------------------------------------------------------------------
Died(type) == \E j \in DOMAIN jobs : j[1] = type /\ jobs[j].state = "dead"
Goes(type) == \E j \in DOMAIN jobs : j[1] = type /\ Live(j)

\* A chain that was started never ends by itself: however late its jobs run,
\* whichever call fails and however starts and successors collapse under one
\* key, there is a next job, unless one was dead-lettered.
ChainUnbroken == starts > 0 => \A type \in Recurring : Died(type) \/ Goes(type)

\* "calling this on every worker startup both seeds the chain and heals it after
\* a dead-lettered run" (EnqueueDailyDiscovery).
ChainHealed == [][starts' # starts => Goes("discover")']_vars

=============================================================================
