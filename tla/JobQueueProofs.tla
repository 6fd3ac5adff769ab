--------------------------- MODULE JobQueueProofs ---------------------------
(***************************************************************************)
(* Proofs about JobQueue: for every set of jobs, every finite set of       *)
(* workers and every value of the limits.                                  *)
(***************************************************************************)
EXTENDS JobQueue, FiniteSetTheorems, TLAPS

-----------------------------------------------------------------------------
(* The inductive invariant, in named parts.                                *)

\* A worker has a job exactly between a claim and the end of process, and only
\* such a worker renews.
Shape ==
    \A w \in Workers :
        /\ held[w] = NoJob <=> phase[w] \in {"reap", "claim"}
        /\ held[w] = NoJob => renewIn[w] = Stopped

AbsentIsFresh == \A j \in Jobs : status[j] = "absent" => attempts[j] = 0

\* Workers holding an attempt of j that a failure would put back to pending.
Retryable(j) == {w \in Workers : held[w] = j /\ snap[w] < MaxAttempts[j]}

Pendings(j) == IF status[j] = "pending" THEN 1 ELSE 0

\* What may still be claimed once max_attempts is reached: the row if it is
\* pending now, and once more for every stale failure still to come.
Budget ==
    \A j \in Jobs :
        attempts[j] >= MaxAttempts[j] =>
            attempts[j] + Pendings(j) + Cardinality(Retryable(j)) <= 2 * MaxAttempts[j] - 1

\* A punctual holder is alone, runs the row's last attempt and renews in time.
Punctual ==
    \A w \in Workers :
        held[w] \in Jobs \ late =>
            /\ \A v \in Holders(held[w]) : v = w
            /\ status[held[w]] = "running"
            /\ snap[w] = attempts[held[w]]
            /\ phase[w] = "handle" => renewIn[w] >= 0 /\ lease[held[w]] >= renewIn[w]
            /\ lease[held[w]] >= 0

Inv ==
    /\ TypeOK
    /\ Shape
    /\ AbsentIsFresh
    /\ LeaseIffRunning
    /\ AttemptsAreDistinct
    /\ Budget
    /\ Punctual

-----------------------------------------------------------------------------

\* The delay of a retry is a natural number whatever the shift made of it.
LEMMA BackoffType == ASSUME NEW n PROVE Backoff(n) \in Nat
  BY JobQueueAssumption DEF Backoff

LEMMA HalfType == Half \in Nat \ {0} /\ Half <= Lease /\ Lease \in Nat
  BY JobQueueAssumption DEF Half

LEMMA TypeInit == Init => TypeOK
  BY HalfType, JobQueueAssumption
  DEF Init, TypeOK, Status, Terminal, NoLease, Expired, Stopped

\* Every step keeps the variables in their types.
LEMMA TypeStep == TypeOK /\ Shape /\ [Next]_vars => TypeOK'
  <1> SUFFICES ASSUME TypeOK, Shape, [Next]_vars PROVE TypeOK'
    OBVIOUS
  <1> USE HalfType, JobQueueAssumption
  <1> USE DEF TypeOK, Status, Terminal, NoLease, Expired, Stopped
  <1>1. ASSUME NEW j \in Jobs, NEW d \in Delays, Enqueue(j, d) PROVE TypeOK'
    BY <1>1 DEF Enqueue, runnerVars
  <1>2. ASSUME NEW w \in Workers, Reap(w) PROVE TypeOK'
    BY <1>2 DEF Reap, Abandoned
  <1>3. ASSUME NEW w \in Workers, ClaimNothing(w) PROVE TypeOK'
    BY <1>3 DEF ClaimNothing, rowVars
  <1>4. ASSUME NEW w \in Workers, NEW j \in Jobs, Claim(w, j) PROVE TypeOK'
    BY <1>4 DEF Claim
  <1>5. ASSUME NEW w \in Workers, Renew(w) PROVE TypeOK'
    BY <1>5 DEF Renew
  <1>6. ASSUME NEW w \in Workers, RenewError(w) PROVE TypeOK'
    BY <1>6 DEF RenewError, rowVars, Shape
  <1>7. ASSUME NEW w \in Workers, NEW o \in {"ok", "error", "permanent"}, HandlerReturns(w, o)
        PROVE TypeOK'
    BY <1>7 DEF HandlerReturns, rowVars
  <1>8. ASSUME NEW w \in Workers, Complete(w) PROVE TypeOK'
    BY <1>8 DEF Complete, Released
  <1>9. ASSUME NEW w \in Workers, FailDead(w) PROVE TypeOK'
    BY <1>9 DEF FailDead, Released
  <1>10. ASSUME NEW w \in Workers, FailRetry(w) PROVE TypeOK'
    <2>1. Backoff(snap[w]) \in Int
      BY BackoffType
    <2>2. QED BY <1>10, <2>1 DEF FailRetry, Released
  <1>11. ASSUME NEW w \in Workers, Drop(w) PROVE TypeOK'
    BY <1>11 DEF Drop, Released, rowVars
  <1>12. ASSUME Tick PROVE TypeOK'
    <2>1. \A j \in Jobs : Larger(wait[j] - 1, -MaxAge) \in Int
      BY DEF Larger
    <2>2. late' \subseteq Jobs
      BY <1>12 DEF Tick, Overdue, Shape
    <2>3. QED BY <1>12, <2>1, <2>2 DEF Tick
  <1>13. CASE UNCHANGED vars
    BY <1>13 DEF vars
  <1>14. QED
    BY <1>1, <1>2, <1>3, <1>4, <1>5, <1>6, <1>7, <1>8, <1>9, <1>10, <1>11, <1>12, <1>13
    DEF Next, Poll, Record, Return

LEMMA ShapeStep == TypeOK /\ Shape /\ [Next]_vars => Shape'
  <1> SUFFICES ASSUME TypeOK, Shape, [Next]_vars PROVE Shape'
    OBVIOUS
  <1> USE HalfType, JobQueueAssumption DEF TypeOK, Shape, Stopped
  <1>1. ASSUME NEW j \in Jobs, NEW d \in Delays, Enqueue(j, d) PROVE Shape'
    BY <1>1 DEF Enqueue, runnerVars
  <1>2. ASSUME NEW w \in Workers, Reap(w) PROVE Shape'
    BY <1>2 DEF Reap, Abandoned
  <1>3. ASSUME NEW w \in Workers, ClaimNothing(w) PROVE Shape'
    BY <1>3 DEF ClaimNothing, rowVars
  <1>4. ASSUME NEW w \in Workers, NEW j \in Jobs, Claim(w, j) PROVE Shape'
    BY <1>4 DEF Claim, Oldest, Due
  <1>5. ASSUME NEW w \in Workers, Renew(w) PROVE Shape'
    BY <1>5 DEF Renew
  <1>6. ASSUME NEW w \in Workers, RenewError(w) PROVE Shape'
    BY <1>6 DEF RenewError, rowVars
  <1>7. ASSUME NEW w \in Workers, NEW o \in {"ok", "error", "permanent"}, HandlerReturns(w, o)
        PROVE Shape'
    BY <1>7 DEF HandlerReturns, rowVars
  <1>8. ASSUME NEW w \in Workers, Complete(w) PROVE Shape'
    BY <1>8 DEF Complete, Released
  <1>9. ASSUME NEW w \in Workers, FailDead(w) PROVE Shape'
    BY <1>9 DEF FailDead, Released
  <1>10. ASSUME NEW w \in Workers, FailRetry(w) PROVE Shape'
    BY <1>10 DEF FailRetry, Released
  <1>11. ASSUME NEW w \in Workers, Drop(w) PROVE Shape'
    BY <1>11 DEF Drop, Released, rowVars
  <1>12. ASSUME Tick PROVE Shape'
    BY <1>12 DEF Tick
  <1>13. CASE UNCHANGED vars
    BY <1>13 DEF vars
  <1>14. QED
    BY <1>1, <1>2, <1>3, <1>4, <1>5, <1>6, <1>7, <1>8, <1>9, <1>10, <1>11, <1>12, <1>13
    DEF Next, Poll, Record, Return

LEMMA AbsentStep == TypeOK /\ Shape /\ AbsentIsFresh /\ [Next]_vars => AbsentIsFresh'
  <1> SUFFICES ASSUME TypeOK, Shape, AbsentIsFresh, [Next]_vars PROVE AbsentIsFresh'
    OBVIOUS
  <1> USE DEF TypeOK, Shape, AbsentIsFresh
  <1>1. ASSUME NEW j \in Jobs, NEW d \in Delays, Enqueue(j, d) PROVE AbsentIsFresh'
    BY <1>1 DEF Enqueue, runnerVars
  <1>2. ASSUME NEW w \in Workers, Reap(w) PROVE AbsentIsFresh'
    BY <1>2 DEF Reap, Abandoned
  <1>3. ASSUME NEW w \in Workers, ClaimNothing(w) PROVE AbsentIsFresh'
    BY <1>3 DEF ClaimNothing, rowVars
  <1>4. ASSUME NEW w \in Workers, NEW j \in Jobs, Claim(w, j) PROVE AbsentIsFresh'
    BY <1>4 DEF Claim, Oldest, Due
  <1>5. ASSUME NEW w \in Workers, Renew(w) PROVE AbsentIsFresh'
    BY <1>5 DEF Renew
  <1>6. ASSUME NEW w \in Workers, RenewError(w) PROVE AbsentIsFresh'
    BY <1>6 DEF RenewError, rowVars
  <1>7. ASSUME NEW w \in Workers, NEW o \in {"ok", "error", "permanent"}, HandlerReturns(w, o)
        PROVE AbsentIsFresh'
    BY <1>7 DEF HandlerReturns, rowVars
  <1>8. ASSUME NEW w \in Workers, Complete(w) PROVE AbsentIsFresh'
    BY <1>8 DEF Complete, Released
  <1>9. ASSUME NEW w \in Workers, FailDead(w) PROVE AbsentIsFresh'
    BY <1>9 DEF FailDead, Released
  <1>10. ASSUME NEW w \in Workers, FailRetry(w) PROVE AbsentIsFresh'
    BY <1>10 DEF FailRetry, Released
  <1>11. ASSUME NEW w \in Workers, Drop(w) PROVE AbsentIsFresh'
    BY <1>11 DEF Drop, Released, rowVars
  <1>12. ASSUME Tick PROVE AbsentIsFresh'
    BY <1>12 DEF Tick
  <1>13. CASE UNCHANGED vars
    BY <1>13 DEF vars
  <1>14. QED
    BY <1>1, <1>2, <1>3, <1>4, <1>5, <1>6, <1>7, <1>8, <1>9, <1>10, <1>11, <1>12, <1>13
    DEF Next, Poll, Record, Return

LEMMA LeaseStep == TypeOK /\ Shape /\ LeaseIffRunning /\ [Next]_vars => LeaseIffRunning'
  <1> SUFFICES ASSUME TypeOK, Shape, LeaseIffRunning, [Next]_vars PROVE LeaseIffRunning'
    OBVIOUS
  <1> USE HalfType DEF TypeOK, Shape, LeaseIffRunning, NoLease, Expired
  <1>1. ASSUME NEW j \in Jobs, NEW d \in Delays, Enqueue(j, d) PROVE LeaseIffRunning'
    BY <1>1 DEF Enqueue, runnerVars
  <1>2. ASSUME NEW w \in Workers, Reap(w) PROVE LeaseIffRunning'
    BY <1>2 DEF Reap, Abandoned
  <1>3. ASSUME NEW w \in Workers, ClaimNothing(w) PROVE LeaseIffRunning'
    BY <1>3 DEF ClaimNothing, rowVars
  <1>4. ASSUME NEW w \in Workers, NEW j \in Jobs, Claim(w, j) PROVE LeaseIffRunning'
    BY <1>4 DEF Claim, Oldest, Due
  <1>5. ASSUME NEW w \in Workers, Renew(w) PROVE LeaseIffRunning'
    BY <1>5 DEF Renew
  <1>6. ASSUME NEW w \in Workers, RenewError(w) PROVE LeaseIffRunning'
    BY <1>6 DEF RenewError, rowVars
  <1>7. ASSUME NEW w \in Workers, NEW o \in {"ok", "error", "permanent"}, HandlerReturns(w, o)
        PROVE LeaseIffRunning'
    BY <1>7 DEF HandlerReturns, rowVars
  <1>8. ASSUME NEW w \in Workers, Complete(w) PROVE LeaseIffRunning'
    BY <1>8 DEF Complete, Released
  <1>9. ASSUME NEW w \in Workers, FailDead(w) PROVE LeaseIffRunning'
    BY <1>9 DEF FailDead, Released
  <1>10. ASSUME NEW w \in Workers, FailRetry(w) PROVE LeaseIffRunning'
    BY <1>10 DEF FailRetry, Released
  <1>11. ASSUME NEW w \in Workers, Drop(w) PROVE LeaseIffRunning'
    BY <1>11 DEF Drop, Released, rowVars
  <1>12. ASSUME Tick PROVE LeaseIffRunning'
    BY <1>12 DEF Tick
  <1>13. CASE UNCHANGED vars
    BY <1>13 DEF vars
  <1>14. QED
    BY <1>1, <1>2, <1>3, <1>4, <1>5, <1>6, <1>7, <1>8, <1>9, <1>10, <1>11, <1>12, <1>13
    DEF Next, Poll, Record, Return

LEMMA DistinctStep == TypeOK /\ Shape /\ AttemptsAreDistinct /\ [Next]_vars => AttemptsAreDistinct'
  <1> SUFFICES ASSUME TypeOK, Shape, AttemptsAreDistinct, [Next]_vars PROVE AttemptsAreDistinct'
    OBVIOUS
  <1> USE JobQueueAssumption DEF TypeOK, Shape, AttemptsAreDistinct
  <1>1. ASSUME NEW j \in Jobs, NEW d \in Delays, Enqueue(j, d) PROVE AttemptsAreDistinct'
    BY <1>1 DEF Enqueue, runnerVars
  <1>2. ASSUME NEW w \in Workers, Reap(w) PROVE AttemptsAreDistinct'
    BY <1>2 DEF Reap, Abandoned
  <1>3. ASSUME NEW w \in Workers, ClaimNothing(w) PROVE AttemptsAreDistinct'
    BY <1>3 DEF ClaimNothing, rowVars
  <1>4. ASSUME NEW w \in Workers, NEW j \in Jobs, Claim(w, j) PROVE AttemptsAreDistinct'
    BY <1>4 DEF Claim, Oldest, Due
  <1>5. ASSUME NEW w \in Workers, Renew(w) PROVE AttemptsAreDistinct'
    BY <1>5 DEF Renew
  <1>6. ASSUME NEW w \in Workers, RenewError(w) PROVE AttemptsAreDistinct'
    BY <1>6 DEF RenewError, rowVars
  <1>7. ASSUME NEW w \in Workers, NEW o \in {"ok", "error", "permanent"}, HandlerReturns(w, o)
        PROVE AttemptsAreDistinct'
    BY <1>7 DEF HandlerReturns, rowVars
  <1>8. ASSUME NEW w \in Workers, Complete(w) PROVE AttemptsAreDistinct'
    BY <1>8 DEF Complete, Released
  <1>9. ASSUME NEW w \in Workers, FailDead(w) PROVE AttemptsAreDistinct'
    BY <1>9 DEF FailDead, Released
  <1>10. ASSUME NEW w \in Workers, FailRetry(w) PROVE AttemptsAreDistinct'
    BY <1>10 DEF FailRetry, Released
  <1>11. ASSUME NEW w \in Workers, Drop(w) PROVE AttemptsAreDistinct'
    BY <1>11 DEF Drop, Released, rowVars
  <1>12. ASSUME Tick PROVE AttemptsAreDistinct'
    BY <1>12 DEF Tick
  <1>13. CASE UNCHANGED vars
    BY <1>13 DEF vars
  <1>14. QED
    BY <1>1, <1>2, <1>3, <1>4, <1>5, <1>6, <1>7, <1>8, <1>9, <1>10, <1>11, <1>12, <1>13
    DEF Next, Poll, Record, Return

LEMMA PunctualStep == TypeOK /\ Shape /\ LeaseIffRunning /\ AttemptsAreDistinct /\ Punctual /\ [Next]_vars => Punctual'
  <1> SUFFICES ASSUME TypeOK, Shape, LeaseIffRunning, AttemptsAreDistinct, Punctual, [Next]_vars PROVE Punctual'
    OBVIOUS
  <1> USE HalfType, JobQueueAssumption
  <1> USE DEF TypeOK, Shape, LeaseIffRunning, AttemptsAreDistinct, Punctual, Holders,
             NoLease, Expired, Stopped
  <1>1. ASSUME NEW j \in Jobs, NEW d \in Delays, Enqueue(j, d) PROVE Punctual'
    BY <1>1 DEF Enqueue, runnerVars
  <1>2. ASSUME NEW w \in Workers, Reap(w) PROVE Punctual'
    BY <1>2 DEF Reap, Abandoned
  <1>3. ASSUME NEW w \in Workers, ClaimNothing(w) PROVE Punctual'
    BY <1>3 DEF ClaimNothing, rowVars
  <1>4. ASSUME NEW w \in Workers, NEW j \in Jobs, Claim(w, j) PROVE Punctual'
    BY <1>4 DEF Claim, Oldest, Due
  <1>5. ASSUME NEW w \in Workers, Renew(w) PROVE Punctual'
    BY <1>5 DEF Renew
  <1>6. ASSUME NEW w \in Workers, RenewError(w) PROVE Punctual'
    BY <1>6 DEF RenewError, rowVars
  <1>7. ASSUME NEW w \in Workers, NEW o \in {"ok", "error", "permanent"}, HandlerReturns(w, o)
        PROVE Punctual'
    BY <1>7 DEF HandlerReturns, rowVars
  <1>8. ASSUME NEW w \in Workers, Complete(w) PROVE Punctual'
    BY <1>8 DEF Complete, Released
  <1>9. ASSUME NEW w \in Workers, FailDead(w) PROVE Punctual'
    BY <1>9 DEF FailDead, Released
  <1>10. ASSUME NEW w \in Workers, FailRetry(w) PROVE Punctual'
    BY <1>10 DEF FailRetry, Released
  <1>11. ASSUME NEW w \in Workers, Drop(w) PROVE Punctual'
    BY <1>11 DEF Drop, Released, rowVars
  <1>12. ASSUME Tick PROVE Punctual'
    BY <1>12 DEF Tick, Overdue
  <1>13. CASE UNCHANGED vars
    BY <1>13 DEF vars
  <1>14. QED
    BY <1>1, <1>2, <1>3, <1>4, <1>5, <1>6, <1>7, <1>8, <1>9, <1>10, <1>11, <1>12, <1>13
    DEF Next, Poll, Record, Return

-----------------------------------------------------------------------------
(* The budget of claims beyond max_attempts.                               *)

LEMMA RetryableFinite ==
    ASSUME NEW j
    PROVE  /\ IsFiniteSet(Retryable(j))
           /\ Cardinality(Retryable(j)) \in Nat
  <1>1. IsFiniteSet(Workers) /\ Retryable(j) \in SUBSET Workers
    BY JobQueueAssumption DEF Retryable
  <1>2. IsFiniteSet(Retryable(j))
    BY <1>1, FS_Subset
  <1>3. QED BY <1>2, FS_CardinalityType

\* Before the last attempt is claimed, the holders of a job have distinct
\* attempt numbers below max_attempts: there are fewer than that many.
LEMMA RetryableBound ==
    ASSUME TypeOK, AttemptsAreDistinct, NEW j \in Jobs
    PROVE  Cardinality(Retryable(j)) <= MaxAttempts[j] - 1
  <1> DEFINE n == MaxAttempts[j] - 1
             f == [w \in Retryable(j) |-> snap[w]]
  <1>1. n \in Nat
    BY JobQueueAssumption
  <1>2. IsFiniteSet(1 .. n) /\ Cardinality(1 .. n) = n
    <2> HIDE DEF n
    <2>1. 1 \in Int /\ n \in Int
      BY <1>1
    <2>2. /\ IsFiniteSet(1 .. n)
          /\ Cardinality(1 .. n) = IF 1 > n THEN 0 ELSE n - 1 + 1
      BY <2>1, FS_Interval
    <2>3. QED BY <1>1, <2>2
  <1>3. f \in [Retryable(j) -> 1 .. n]
    BY <1>1, JobQueueAssumption DEF Retryable, TypeOK, AttemptsAreDistinct
  <1>4. \A v, w \in Retryable(j) : f[v] = f[w] => v = w
    BY JobQueueAssumption DEF Retryable, AttemptsAreDistinct
  <1>5. f \in Injection(Retryable(j), 1 .. n)
    BY <1>3, <1>4 DEF Injection, IsInjective
  <1>6. QED BY <1>2, <1>5, FS_Injection

\* A worker that lets its job go is no longer a retryable holder of anything,
\* and nobody else is affected.
LEMMA RetryableReleased ==
    ASSUME TypeOK, NEW w \in Workers, Released(w), NEW j \in Jobs
    PROVE  /\ Retryable(j)' = Retryable(j) \ {w}
           /\ Cardinality(Retryable(j)') =
                IF w \in Retryable(j) THEN Cardinality(Retryable(j)) - 1
                ELSE Cardinality(Retryable(j))
  <1>1. Retryable(j)' = Retryable(j) \ {w}
    BY JobQueueAssumption DEF Retryable, Released, TypeOK
  <1>2. QED BY <1>1, RetryableFinite, FS_RemoveElement

LEMMA BudgetStep ==
    /\ TypeOK /\ Shape /\ AbsentIsFresh /\ AttemptsAreDistinct /\ Budget
    /\ [Next]_vars
    => Budget'
  <1> SUFFICES ASSUME TypeOK, Shape, AbsentIsFresh, AttemptsAreDistinct, Budget, [Next]_vars,
                      NEW k \in Jobs, attempts'[k] >= MaxAttempts[k]
               PROVE  attempts'[k] + Pendings(k)' + Cardinality(Retryable(k)') <= 2 * MaxAttempts[k] - 1
    BY DEF Budget
  <1> DEFINE Goal ==
        attempts'[k] + Pendings(k)' + Cardinality(Retryable(k)') <= 2 * MaxAttempts[k] - 1
  <1>a. /\ MaxAttempts[k] \in Nat \ {0}
        /\ attempts[k] \in Nat
        /\ Cardinality(Retryable(k)) \in Nat
        /\ Pendings(k) \in {0, 1}
    BY JobQueueAssumption, RetryableFinite DEF TypeOK, Pendings
  <1>b. attempts[k] >= MaxAttempts[k] =>
            attempts[k] + Pendings(k) + Cardinality(Retryable(k)) <= 2 * MaxAttempts[k] - 1
    BY DEF Budget
  <1>c. ASSUME Retryable(k)' = Retryable(k), attempts'[k] = attempts[k],
               Pendings(k)' = Pendings(k) \/ Pendings(k)' = 0
        PROVE  Goal
    BY <1>a, <1>b, <1>c
  <1>1. ASSUME NEW j \in Jobs, NEW d \in Delays, Enqueue(j, d) PROVE Goal
    <2>1. j # k
      BY <1>1, <1>a DEF Enqueue, AbsentIsFresh, TypeOK
    <2>2. QED BY <1>1, <1>c, <2>1 DEF Enqueue, runnerVars, Retryable, Pendings, TypeOK
  <1>2. ASSUME NEW w \in Workers, Reap(w) PROVE Goal
    <2>1. Pendings(k)' = Pendings(k) \/ Pendings(k)' = 0
      BY <1>2, <1>a DEF Reap, Exhausted, Pendings, TypeOK
    <2>2. QED BY <1>2, <1>c, <2>1 DEF Reap, Retryable
  <1>3. ASSUME NEW w \in Workers, ClaimNothing(w) PROVE Goal
    BY <1>3, <1>c DEF ClaimNothing, rowVars, Retryable, Pendings
  <1>4. ASSUME NEW w \in Workers, NEW j \in Jobs, Claim(w, j) PROVE Goal
    <2>1. held[w] = NoJob /\ status[j] = "pending"
      BY <1>4 DEF Claim, Shape, Oldest, Due
    <2>2. CASE j # k
      <3>1. Retryable(k)' = Retryable(k)
        BY <1>4, <2>1, <2>2, JobQueueAssumption DEF Claim, Retryable, TypeOK
      <3>2. QED BY <1>4, <1>c, <2>2, <3>1 DEF Claim, Pendings, TypeOK
    <2>3. CASE j = k
      <3>1. /\ attempts'[k] = attempts[k] + 1
            /\ Pendings(k) = 1 /\ Pendings(k)' = 0
            /\ snap'[w] = attempts[k] + 1
        BY <1>4, <2>1, <2>3 DEF Claim, Pendings, TypeOK
      <3>2. Retryable(k)' = Retryable(k)
        BY <1>4, <1>a, <2>1, <2>3, <3>1, JobQueueAssumption DEF Claim, Retryable, TypeOK
      <3>3. CASE attempts[k] >= MaxAttempts[k]
        BY <1>a, <1>b, <3>1, <3>2, <3>3
      <3>4. CASE attempts[k] < MaxAttempts[k]
        BY <1>a, <3>1, <3>2, <3>4, RetryableBound
      <3>5. QED BY <1>a, <3>3, <3>4
    <2>4. QED BY <2>2, <2>3
  <1>5. ASSUME NEW w \in Workers, Renew(w) PROVE Goal
    BY <1>5, <1>c DEF Renew, Retryable, Pendings
  <1>6. ASSUME NEW w \in Workers, RenewError(w) PROVE Goal
    BY <1>6, <1>c DEF RenewError, rowVars, Retryable, Pendings
  <1>7. ASSUME NEW w \in Workers, NEW o \in {"ok", "error", "permanent"}, HandlerReturns(w, o)
        PROVE Goal
    BY <1>7, <1>c DEF HandlerReturns, rowVars, Retryable, Pendings
  <1>d. ASSUME NEW w \in Workers, Released(w), attempts' = attempts,
               Pendings(k)' = Pendings(k) \/ Pendings(k)' = 0
        PROVE  Goal
    <2>1. Cardinality(Retryable(k)') \in Nat /\ Cardinality(Retryable(k)') <= Cardinality(Retryable(k))
      <3>1. w \in Retryable(k) => Cardinality(Retryable(k)) # 0
        BY RetryableFinite, FS_EmptySet
      <3>2. QED BY <1>a, <1>d, <3>1, RetryableReleased
    <2>2. QED BY <1>a, <1>b, <1>d, <2>1
  <1>8. ASSUME NEW w \in Workers, Complete(w) PROVE Goal
    <2>1. Pendings(k)' = Pendings(k) \/ Pendings(k)' = 0
      BY <1>8 DEF Complete, Pendings, TypeOK
    <2>2. QED BY <1>8, <1>d, <2>1 DEF Complete
  <1>9. ASSUME NEW w \in Workers, FailDead(w) PROVE Goal
    <2>1. Pendings(k)' = Pendings(k) \/ Pendings(k)' = 0
      BY <1>9 DEF FailDead, Pendings, TypeOK
    <2>2. QED BY <1>9, <1>d, <2>1 DEF FailDead
  <1>10. ASSUME NEW w \in Workers, FailRetry(w) PROVE Goal
    <2>1. CASE held[w] # k
      <3>1. Pendings(k)' = Pendings(k)
        BY <1>10, <2>1 DEF FailRetry, Pendings, TypeOK
      <3>2. QED BY <1>10, <1>d, <3>1 DEF FailRetry
    <2>2. CASE held[w] = k
      <3>1. w \in Retryable(k)
        <4>1. ~(snap[w] >= MaxAttempts[k])
          BY <1>10, <2>2 DEF FailRetry, Exhausted
        <4>2. snap[w] \in Nat
          BY DEF TypeOK
        <4>3. QED BY <1>a, <2>2, <4>1, <4>2 DEF Retryable
      <3>2. Cardinality(Retryable(k)') = Cardinality(Retryable(k)) - 1
        BY <1>10, <3>1, RetryableReleased DEF FailRetry
      <3>3. attempts'[k] = attempts[k] /\ Pendings(k)' \in {0, 1}
        BY <1>10 DEF FailRetry, Pendings
      <3>4. QED BY <1>a, <1>b, <3>2, <3>3
    <2>3. QED BY <2>1, <2>2
  <1>11. ASSUME NEW w \in Workers, Drop(w) PROVE Goal
    <2>1. Pendings(k)' = Pendings(k)
      BY <1>11 DEF Drop, rowVars, Pendings
    <2>2. QED BY <1>11, <1>d, <2>1 DEF Drop, rowVars
  <1>12. ASSUME Tick PROVE Goal
    BY <1>12, <1>c DEF Tick, Retryable, Pendings
  <1>13. CASE UNCHANGED vars
    BY <1>13, <1>c DEF vars, Retryable, Pendings
  <1>14. QED
    BY <1>1, <1>2, <1>3, <1>4, <1>5, <1>6, <1>7, <1>8, <1>9, <1>10, <1>11, <1>12, <1>13
    DEF Next, Poll, Record, Return

-----------------------------------------------------------------------------
(* The theorems.                                                           *)

LEMMA InvInit == Init => Inv
  <1> SUFFICES ASSUME Init PROVE Inv
    OBVIOUS
  <1> USE JobQueueAssumption
  <1>1. TypeOK
    BY TypeInit
  <1>2. Shape /\ AbsentIsFresh /\ LeaseIffRunning /\ AttemptsAreDistinct /\ Punctual
    BY DEF Init, Shape, AbsentIsFresh, LeaseIffRunning, AttemptsAreDistinct, Punctual, NoLease,
           Stopped
  <1>3. Budget
    BY DEF Init, Budget
  <1>4. QED BY <1>1, <1>2, <1>3 DEF Inv

LEMMA InvStep == Inv /\ [Next]_vars => Inv'
  BY TypeStep, ShapeStep, AbsentStep, LeaseStep, DistinctStep, BudgetStep, PunctualStep DEF Inv

\* Every reachable state satisfies the inductive invariant.
THEOREM Invariance == Spec => []Inv
  BY InvInit, InvStep, PTL DEF Spec

\* Rows and workers only ever hold the values the schema and the code allow.
THEOREM TypeCorrect == Spec => []TypeOK
  <1>1. Inv => TypeOK
    BY DEF Inv
  <1>2. QED BY <1>1, Invariance, PTL

\* A row has a lease exactly while it is running.
THEOREM LeaseMarksRunning == Spec => []LeaseIffRunning
  <1>1. Inv => LeaseIffRunning
    BY DEF Inv
  <1>2. QED BY <1>1, Invariance, PTL

\* Workers holding the same job hold different attempts of it.
THEOREM DistinctAttempts == Spec => []AttemptsAreDistinct
  <1>1. Inv => AttemptsAreDistinct
    BY DEF Inv
  <1>2. QED BY <1>1, Invariance, PTL

\* However many workers stall and fail late, a job is claimed fewer than
\* 2 * max_attempts times.
THEOREM BoundedAttempts == Spec => []AttemptsBounded
  <1>1. Inv => AttemptsBounded
    <2> SUFFICES ASSUME Inv, NEW j \in Jobs PROVE attempts[j] <= 2 * MaxAttempts[j] - 1
      BY DEF AttemptsBounded
    <2>1. /\ MaxAttempts[j] \in Nat \ {0} /\ attempts[j] \in Nat
          /\ Cardinality(Retryable(j)) \in Nat /\ Pendings(j) \in {0, 1}
      BY JobQueueAssumption, RetryableFinite DEF Inv, TypeOK, Pendings
    <2>2. QED BY <2>1 DEF Inv, Budget
  <1>2. QED BY <1>1, Invariance, PTL

\* Nobody else holds the job of workers that were never late.
THEOREM PunctualExclusion == Spec => []ExclusiveWhenPunctual
  <1>1. Inv => ExclusiveWhenPunctual
    BY DEF Inv, Punctual, ExclusiveWhenPunctual, Holders
  <1>2. QED BY <1>1, Invariance, PTL

LEMMA DeadStep == Inv /\ [Next]_vars => DeadHasCause
  <1> SUFFICES ASSUME Inv, [Next]_vars PROVE DeadHasCause
    OBVIOUS
  <1> USE JobQueueAssumption
  <1> USE DEF Inv, TypeOK, Shape, AttemptsAreDistinct, DeadHasCause, Holders, Exhausted
  <1>1. ASSUME NEW j \in Jobs, NEW d \in Delays, Enqueue(j, d) PROVE DeadHasCause
    BY <1>1 DEF Enqueue, runnerVars
  <1>2. ASSUME NEW w \in Workers, Reap(w) PROVE DeadHasCause
    BY <1>2 DEF Reap, Abandoned
  <1>3. ASSUME NEW w \in Workers, ClaimNothing(w) PROVE DeadHasCause
    BY <1>3 DEF ClaimNothing, rowVars
  <1>4. ASSUME NEW w \in Workers, NEW j \in Jobs, Claim(w, j) PROVE DeadHasCause
    BY <1>4 DEF Claim, Oldest, Due
  <1>5. ASSUME NEW w \in Workers, Renew(w) PROVE DeadHasCause
    BY <1>5 DEF Renew
  <1>6. ASSUME NEW w \in Workers, RenewError(w) PROVE DeadHasCause
    BY <1>6 DEF RenewError, rowVars
  <1>7. ASSUME NEW w \in Workers, NEW o \in {"ok", "error", "permanent"}, HandlerReturns(w, o)
        PROVE DeadHasCause
    BY <1>7 DEF HandlerReturns, rowVars
  <1>8. ASSUME NEW w \in Workers, Complete(w) PROVE DeadHasCause
    BY <1>8 DEF Complete, Released
  <1>9. ASSUME NEW w \in Workers, FailDead(w) PROVE DeadHasCause
    BY <1>9 DEF FailDead, Released
  <1>10. ASSUME NEW w \in Workers, FailRetry(w) PROVE DeadHasCause
    BY <1>10 DEF FailRetry, Released
  <1>11. ASSUME NEW w \in Workers, Drop(w) PROVE DeadHasCause
    BY <1>11 DEF Drop, Released, rowVars
  <1>12. ASSUME Tick PROVE DeadHasCause
    BY <1>12 DEF Tick
  <1>13. CASE UNCHANGED vars
    BY <1>13 DEF vars
  <1>14. QED
    BY <1>1, <1>2, <1>3, <1>4, <1>5, <1>6, <1>7, <1>8, <1>9, <1>10, <1>11, <1>12, <1>13
    DEF Next, Poll, Record, Return

\* A job is dead-lettered only after its last attempt or a permanent error.
THEOREM DeadNeedsCause == Spec => DeadIsJustified
  <1>1. Inv /\ [Next]_vars => [DeadHasCause]_vars
    BY DeadStep
  <1>2. QED BY <1>1, Invariance, PTL DEF Spec, DeadIsJustified

-----------------------------------------------------------------------------
(* The queue keeps the contract.                                           *)

\* A pending job nobody was late for has attempts left.
PendingHasTries ==
    \A j \in Jobs \ late : status[j] = "pending" => attempts[j] < MaxAttempts[j]

LEMMA PendingStep ==
    ASSUME Inv, PendingHasTries, [Next]_vars
    PROVE  PendingHasTries'
  <1> USE JobQueueAssumption
  <1> USE DEF Inv, TypeOK, PendingHasTries, Exhausted
  <1>1. ASSUME NEW j \in Jobs, NEW d \in Delays, Enqueue(j, d) PROVE PendingHasTries'
    BY <1>1 DEF Enqueue, runnerVars, AbsentIsFresh
  <1>2. ASSUME NEW w \in Workers, Reap(w) PROVE PendingHasTries'
    BY <1>2 DEF Reap
  <1>3. ASSUME NEW w \in Workers, ClaimNothing(w) PROVE PendingHasTries'
    BY <1>3 DEF ClaimNothing, rowVars
  <1>4. ASSUME NEW w \in Workers, NEW j \in Jobs, Claim(w, j) PROVE PendingHasTries'
    BY <1>4 DEF Claim
  <1>5. ASSUME NEW w \in Workers, Renew(w) PROVE PendingHasTries'
    BY <1>5 DEF Renew
  <1>6. ASSUME NEW w \in Workers, RenewError(w) PROVE PendingHasTries'
    BY <1>6 DEF RenewError, rowVars
  <1>7. ASSUME NEW w \in Workers, NEW o \in {"ok", "error", "permanent"}, HandlerReturns(w, o)
        PROVE PendingHasTries'
    BY <1>7 DEF HandlerReturns, rowVars
  <1>8. ASSUME NEW w \in Workers, Complete(w) PROVE PendingHasTries'
    BY <1>8 DEF Complete, Released
  <1>9. ASSUME NEW w \in Workers, FailDead(w) PROVE PendingHasTries'
    BY <1>9 DEF FailDead, Released
  <1>10. ASSUME NEW w \in Workers, FailRetry(w) PROVE PendingHasTries'
    BY <1>10 DEF FailRetry, Released, Shape, Punctual
  <1>11. ASSUME NEW w \in Workers, Drop(w) PROVE PendingHasTries'
    BY <1>11 DEF Drop, Released, rowVars
  <1>12. ASSUME Tick PROVE PendingHasTries'
    BY <1>12 DEF Tick
  <1>13. CASE UNCHANGED vars
    BY <1>13 DEF vars
  <1>14. QED
    BY <1>1, <1>2, <1>3, <1>4, <1>5, <1>6, <1>7, <1>8, <1>9, <1>10, <1>11, <1>12, <1>13
    DEF Next, Poll, Record, Return

\* What the contract sees of the queue.
State == [j \in Jobs |-> IF j \in late THEN "void" ELSE status[j]]
Owner == [j \in Jobs |-> OwnerOf(j)]
Tries == [j \in Jobs |-> IF j \in late THEN 0 ELSE attempts[j]]

\* A job with no holder has no owner, and a punctual one is owned by its only
\* holder.
LEMMA OwnerIsHolder ==
    ASSUME TypeOK, Punctual
    PROVE  /\ \A j \in Jobs : Holders(j) = {} \/ j \in late => OwnerOf(j) = NoJob
           /\ \A w \in Workers : held[w] \in Jobs \ late => OwnerOf(held[w]) = w
  <1>1. \A j \in Jobs : Holders(j) = {} \/ j \in late => OwnerOf(j) = NoJob
    BY DEF OwnerOf
  <1>2. ASSUME NEW w \in Workers, held[w] \in Jobs \ late PROVE OwnerOf(held[w]) = w
    <2>1. w \in Holders(held[w]) /\ \A v \in Holders(held[w]) : v = w
      BY <1>2 DEF Holders, Punctual
    <2>2. QED
      BY <1>2, <2>1 DEF OwnerOf
  <1>3. QED
    BY <1>1, <1>2

\* Owners change with the holders and with late only.
LEMMA SameOwners ==
    ASSUME held' = held, late' = late
    PROVE  Owner' = Owner
  BY DEF Owner, OwnerOf, Holders

\* A worker that lets its job go is its owner no more, and no other owner
\* changes.
LEMMA OwnerReleased ==
    ASSUME TypeOK, Punctual, NEW w \in Workers, NEW k \in Jobs, held[w] = k, Released(w)
    PROVE  Owner' = [Owner EXCEPT ![k] = NoJob]
  <1> USE JobQueueAssumption DEF TypeOK
  <1>1. held' = [held EXCEPT ![w] = NoJob] /\ late' = late
    BY DEF Released
  <1>2. ASSUME NEW j \in Jobs, j # k PROVE OwnerOf(j)' = OwnerOf(j)
    <2>1. Holders(j)' = Holders(j)
      BY <1>1, <1>2 DEF Holders
    <2>2. QED
      BY <1>1, <2>1 DEF OwnerOf
  <1>3. k \notin late => Holders(k)' = {}
    BY <1>1 DEF Holders, Punctual
  <1>4. OwnerOf(k)' = NoJob
    BY <1>1, <1>3 DEF OwnerOf
  <1>5. QED
    BY <1>2, <1>4 DEF Owner

LEMMA OwnerClaimed ==
    ASSUME TypeOK, Shape, Punctual, NEW w \in Workers, NEW k \in Jobs, Claim(w, k)
    PROVE  Owner' = IF k \in late THEN Owner ELSE [Owner EXCEPT ![k] = w]
  <1> USE JobQueueAssumption DEF TypeOK
  <1>1. /\ held[w] = NoJob /\ held' = [held EXCEPT ![w] = k] /\ late' = late
        /\ status[k] = "pending"
    BY DEF Claim, Shape, Oldest, Due
  <1>2. ASSUME NEW j \in Jobs, j # k PROVE OwnerOf(j)' = OwnerOf(j)
    <2>1. Holders(j)' = Holders(j)
      BY <1>1, <1>2 DEF Holders
    <2>2. QED
      BY <1>1, <2>1 DEF OwnerOf
  <1>3. CASE k \in late
    <2>1. OwnerOf(k)' = NoJob /\ OwnerOf(k) = NoJob
      BY <1>1, <1>3 DEF OwnerOf
    <2>2. QED
      BY <1>2, <1>3, <2>1 DEF Owner
  <1>4. CASE k \notin late
    <2>1. Holders(k) = {}
      BY <1>1, <1>4 DEF Holders, Punctual
    <2>2. Holders(k)' = {w}
      BY <1>1, <2>1 DEF Holders
    <2>3. OwnerOf(k)' = w
      BY <1>1, <1>4, <2>2 DEF OwnerOf
    <2>4. QED
      BY <1>2, <1>4, <2>3 DEF Owner
  <1>5. QED
    BY <1>3, <1>4

\* Jobs that become late are voided.
LEMMA Voided ==
    ASSUME NEW S \in SUBSET Jobs, late' = late \cup S,
           UNCHANGED <<status, attempts, held>>
    PROVE  Contract!Void(S)
  <1>1. State' = [j \in Jobs |-> IF j \in S THEN "void" ELSE State[j]]
    BY DEF State
  <1>2. Tries' = [j \in Jobs |-> IF j \in S THEN 0 ELSE Tries[j]]
    BY DEF Tries
  <1>3. Owner' = [j \in Jobs |-> IF j \in S THEN NoJob ELSE Owner[j]]
    <2>1. ASSUME NEW j \in Jobs PROVE OwnerOf(j)' = IF j \in S THEN NoJob ELSE OwnerOf(j)
      <3>1. Holders(j)' = Holders(j)
        BY DEF Holders
      <3>2. QED
        BY <3>1 DEF OwnerOf
    <2>2. QED
      BY <2>1 DEF Owner
  <1>4. QED
    BY <1>1, <1>2, <1>3 DEF Contract!Void, State, Tries, Owner

LEMMA ContractInit == Init => Contract!Init
  <1> SUFFICES ASSUME Init PROVE Contract!Init
    OBVIOUS
  <1>1. \A j \in Jobs : Holders(j) = {}
    BY JobQueueAssumption DEF Init, Holders
  <1>2. State = [j \in Jobs |-> "absent"] /\ Tries = [j \in Jobs |-> 0]
    BY DEF Init, State, Tries
  <1>3. Owner = [j \in Jobs |-> NoJob]
    BY <1>1 DEF Owner, OwnerOf
  <1>4. QED
    BY <1>2, <1>3 DEF Contract!Init, State, Owner, Tries

\* A new status of a punctual job shows, and changes nothing else.
LEMMA StateChanges ==
    ASSUME TypeOK, NEW j \in Jobs \ late, NEW x, status' = [status EXCEPT ![j] = x], late' = late
    PROVE  State[j] = status[j] /\ State' = [State EXCEPT ![j] = x]
  BY DEF TypeOK, State

\* Every step of the queue is one of the contract, or none.
LEMMA ContractStep ==
    ASSUME Inv, PendingHasTries, [Next]_vars
    PROVE  Contract!Next \/ UNCHANGED <<State, Owner, Tries>>
  <1> USE JobQueueAssumption
  <1>1. TypeOK /\ Shape /\ Punctual /\ LeaseIffRunning
    BY DEF Inv
  <1>2. ASSUME NEW j \in Jobs, NEW d \in Delays, Enqueue(j, d)
        PROVE  Contract!Next \/ UNCHANGED <<State, Owner, Tries>>
    <2>1. Owner' = Owner /\ Tries' = Tries
      BY <1>2, SameOwners DEF Enqueue, runnerVars, Tries
    <2>2. CASE j \in late
      <3>1. State' = State
        BY <1>1, <1>2, <2>2 DEF Enqueue, State, TypeOK
      <3>2. QED
        BY <2>1, <3>1
    <2>3. CASE j \notin late
      <3>1. State[j] = "absent" /\ State' = [State EXCEPT ![j] = "pending"]
        BY <1>1, <1>2, <2>3, StateChanges DEF Enqueue
      <3>2. Contract!Create(j)
        BY <2>1, <3>1 DEF Contract!Create, State, Owner, Tries
      <3>3. QED
        BY <3>2 DEF Contract!Next
    <2>4. QED
      BY <2>2, <2>3
  <1>3. ASSUME NEW w \in Workers, Reap(w)
        PROVE  Contract!Next \/ UNCHANGED <<State, Owner, Tries>>
    <2> PICK S \in SUBSET Jobs : S = Abandoned \ late
      BY DEF Abandoned
    <2>1. Owner' = Owner /\ Tries' = Tries
      BY <1>3, SameOwners DEF Reap, Tries
    <2>2. \A j \in S : State[j] = "running" /\ Holders(j) = {}
      BY <1>1 DEF Abandoned, State, Punctual, Holders, Expired, TypeOK
    <2>3. \A j \in S : State[j] = "running" /\ Owner[j] = NoJob
      BY <1>1, <2>2, OwnerIsHolder DEF Owner, Abandoned
    <2>4. State' = [j \in Jobs |-> IF j \notin S THEN State[j]
                                   ELSE IF Tries[j] < MaxAttempts[j] THEN "pending" ELSE "dead"]
      BY <1>1, <1>3 DEF Reap, Exhausted, State, Tries, Abandoned, TypeOK
    <2>5. Contract!Recover(S)
      BY <2>1, <2>3, <2>4 DEF Contract!Recover, State, Owner, Tries
    <2>6. QED
      BY <2>5 DEF Contract!Next
  <1>4. ASSUME NEW w \in Workers, NEW j \in Jobs, Claim(w, j)
        PROVE  Contract!Next \/ UNCHANGED <<State, Owner, Tries>>
    <2>1. status[j] = "pending" /\ late' = late
      BY <1>4 DEF Claim, Oldest, Due
    <2>2. CASE j \in late
      <3>1. Owner' = Owner
        BY <1>1, <1>4, <2>2, OwnerClaimed
      <3>2. State' = State /\ Tries' = Tries
        BY <1>1, <1>4, <2>2 DEF Claim, State, Tries, TypeOK
      <3>3. QED
        BY <3>1, <3>2
    <2>3. CASE j \notin late
      <3>1. Owner' = [Owner EXCEPT ![j] = w]
        BY <1>1, <1>4, <2>3, OwnerClaimed
      <3>2. State[j] = "pending" /\ State' = [State EXCEPT ![j] = "running"]
        BY <1>1, <1>4, <2>1, <2>3, StateChanges DEF Claim
      <3>3. Tries[j] < MaxAttempts[j] /\ Tries' = [Tries EXCEPT ![j] = Tries[j] + 1]
        <4>1. Tries[j] = attempts[j] /\ attempts[j] < MaxAttempts[j]
          BY <2>1, <2>3 DEF Tries, PendingHasTries
        <4>2. attempts' = [attempts EXCEPT ![j] = attempts[j] + 1]
          BY <1>4 DEF Claim
        <4>3. Tries' = [Tries EXCEPT ![j] = attempts[j] + 1]
          BY <1>1, <2>1, <2>3, <4>2 DEF Tries, TypeOK
        <4>4. QED
          BY <4>1, <4>3
      <3>4. Contract!Take(j, w)
        BY <3>1, <3>2, <3>3 DEF Contract!Take, State, Owner, Tries
      <3>5. QED
        BY <3>4 DEF Contract!Next
    <2>4. QED
      BY <2>2, <2>3
  <1>5. ASSUME NEW w \in Workers, RenewError(w)
        PROVE  Contract!Next \/ UNCHANGED <<State, Owner, Tries>>
    <2>1. PICK S \in SUBSET Jobs : S = {held[w]}
      <3>1. held[w] \in Jobs
        BY <1>1, <1>5 DEF RenewError, Shape, TypeOK, Stopped
      <3>2. QED
        BY <3>1
    <2>2. Contract!Void(S)
      BY <1>5, <2>1, Voided DEF RenewError, rowVars
    <2>3. QED
      BY <2>2 DEF Contract!Next
  <1>6. ASSUME Tick
        PROVE  Contract!Next \/ UNCHANGED <<State, Owner, Tries>>
    <2>1. PICK S \in SUBSET Jobs : S = {held[w] : w \in Overdue}
      <3>1. \A w \in Overdue : held[w] \in Jobs
        BY <1>1 DEF Overdue, Shape, TypeOK, Stopped
      <3>2. {held[w] : w \in Overdue} \in SUBSET Jobs
        BY <3>1
      <3>3. QED
        BY <3>2
    <2>2. Contract!Void(S)
      BY <1>6, <2>1, Voided DEF Tick
    <2>3. QED
      BY <2>2 DEF Contract!Next
  <1>7. ASSUME NEW w \in Workers, Record(w) \/ Drop(w)
        PROVE  Contract!Next \/ UNCHANGED <<State, Owner, Tries>>
    <2>1. PICK k \in Jobs : held[w] = k
      BY <1>1, <1>7 DEF Record, Complete, FailDead, FailRetry, Drop, Shape, TypeOK
    <2>2. Released(w) /\ late' = late /\ attempts' = attempts
      BY <1>7 DEF Record, Complete, FailDead, FailRetry, Drop, Released, rowVars
    <2>3. Owner' = [Owner EXCEPT ![k] = NoJob] /\ Tries' = Tries
      BY <1>1, <2>1, <2>2, OwnerReleased DEF Tries
    <2>4. CASE k \in late
      <3>1. Owner[k] = NoJob /\ DOMAIN Owner = Jobs
        BY <2>4 DEF Owner, OwnerOf
      <3>2. Owner' = Owner
        BY <2>3, <3>1 DEF Owner
      <3>3. State' = State
        BY <1>1, <1>7, <2>1, <2>2, <2>4
        DEF Record, Complete, FailDead, FailRetry, Drop, rowVars, State, TypeOK
      <3>4. QED
        BY <2>3, <3>2, <3>3
    <2>5. CASE k \notin late
      <3>1. /\ status[k] = "running" /\ State[k] = "running"
            /\ snap[w] = attempts[k] /\ Tries[k] = attempts[k]
        BY <1>1, <2>1, <2>5 DEF Punctual, State, Tries
      <3>2. Owner[k] = w /\ w # NoJob
        BY <1>1, <2>1, <2>5, OwnerIsHolder DEF Owner
      <3>3. CASE Complete(w)
        <4>1. State' = [State EXCEPT ![k] = "completed"]
          BY <1>1, <2>1, <2>2, <2>5, <3>1, <3>3 DEF Complete, State, TypeOK
        <4>2. Contract!Report(k, "completed")
          BY <2>3, <3>1, <3>2, <4>1 DEF Contract!Report, State, Owner, Tries
        <4>3. QED
          BY <4>2 DEF Contract!Next
      <3>4. CASE FailDead(w)
        <4>1. State' = [State EXCEPT ![k] = "dead"]
          BY <1>1, <2>1, <2>2, <2>5, <3>4 DEF FailDead, State, TypeOK
        <4>2. Contract!Report(k, "dead")
          BY <2>3, <3>1, <3>2, <4>1 DEF Contract!Report, State, Owner, Tries
        <4>3. QED
          BY <4>2 DEF Contract!Next
      <3>5. CASE FailRetry(w)
        <4>1. State' = [State EXCEPT ![k] = "pending"]
          BY <1>1, <2>1, <2>2, <2>5, <3>5 DEF FailRetry, State, TypeOK
        <4>2. Tries[k] < MaxAttempts[k]
          BY <1>1, <2>1, <3>1, <3>5 DEF FailRetry, Exhausted, TypeOK
        <4>3. Contract!Report(k, "pending")
          BY <2>3, <3>1, <3>2, <4>1, <4>2 DEF Contract!Report, State, Owner, Tries
        <4>4. QED
          BY <4>3 DEF Contract!Next
      <3>6. CASE Drop(w)
        <4>1. State' = State
          BY <2>2, <3>6 DEF Drop, rowVars, State
        <4>2. Contract!Vanish(k)
          BY <2>3, <3>1, <3>2, <4>1 DEF Contract!Vanish, State, Owner, Tries
        <4>3. QED
          BY <4>2 DEF Contract!Next
      <3>7. QED
        BY <1>7, <3>3, <3>4, <3>5, <3>6 DEF Record
    <2>6. QED
      BY <2>4, <2>5
  <1>8. ASSUME NEW w \in Workers, ClaimNothing(w) \/ Renew(w) \/ Return(w)
        PROVE  Contract!Next \/ UNCHANGED <<State, Owner, Tries>>
    <2>1. UNCHANGED <<status, attempts, held, late>>
      BY <1>8 DEF ClaimNothing, Renew, Return, HandlerReturns, rowVars
    <2>2. QED
      BY <2>1, SameOwners DEF State, Tries
  <1>9. CASE UNCHANGED vars
    BY <1>9, SameOwners DEF vars, State, Tries
  <1>10. QED
    BY <1>2, <1>3, <1>4, <1>5, <1>6, <1>7, <1>8, <1>9 DEF Next, Poll

\* The queue implements JobContract: seen through the jobs nobody was late for,
\* every behaviour of the runners, with their crashes, lost statements and
\* stalls, is one of a queue with exclusive owners, at most MaxAttempts owners one
\* after another, no owner robbed and final terminal states.
THEOREM ContractKept == Spec => KeepsContract
  <1>1. Init => PendingHasTries
    BY DEF Init, PendingHasTries
  <1>2. Inv /\ PendingHasTries /\ [Next]_vars =>
          PendingHasTries' /\ [Contract!Next]_(Contract!contract)
    <2>1. ASSUME Inv, PendingHasTries, [Next]_vars PROVE [Contract!Next]_(Contract!contract)
      BY <2>1, ContractStep DEF State, Owner, Tries, Contract!contract
    <2>2. QED
      BY <2>1, PendingStep
  <1>3. QED
    BY <1>1, <1>2, ContractInit, Invariance, PTL DEF Spec, KeepsContract, Contract!Spec

=============================================================================
