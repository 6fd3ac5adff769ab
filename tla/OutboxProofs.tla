---------------------------- MODULE OutboxProofs ----------------------------
(***************************************************************************)
(* Proofs about OutboxDrain: for any number of replicas and events, any    *)
(* batch size and any max_attempts, however often replicas die, updates    *)
(* fail and transactions commit out of the order of their ids.             *)
(***************************************************************************)
EXTENDS OutboxDrain, FiniteSetTheorems, SequenceTheorems, TLAPS

Copy == [id : Events, attempts : Nat]

Shape ==
    /\ row \in [Events -> {"none", "open", "gone", "pending", "processed"}]
    /\ attempts \in [Events -> Nat]
    /\ batch \in [Workers -> Seq(Copy)]
    /\ verdict \in [Workers -> {"none", "processed", "failed"}]
    /\ tried \subseteq Events

\* A worker's copy of a row has no more attempts than the row.
CopiesLag ==
    \A w \in Workers : \A k \in DOMAIN batch[w] :
        batch[w][k].attempts <= attempts[batch[w][k].id]

\* Attempts are counted for events a handler was called with.
AttemptsAreTries == \A e \in Events : attempts[e] > 0 => e \in tried

Cause(e, done, tries) == e \in done \/ e \in Unknown \/ tries[e] >= MaxAttempts

\* What a worker is about to write has its reason.
VerdictHasCause ==
    \A w \in Workers : verdict[w] # "none" =>
        /\ batch[w] # <<>>
        /\ Head(batch[w]).id \in tried \cup Unknown
        /\ verdict[w] = "processed" => Cause(Head(batch[w]).id, handled, attempts)
        /\ verdict[w] = "failed" => Head(batch[w]).id \in tried

\* The events that keep their place: committed in time, with a handler.
InTime == Pending \ (overtaken \cup Unknown)

\* A batch leaves out no such event before one of its own, unless it was tried.
BatchesAreGapless ==
    \A w \in Workers : \A k \in DOMAIN batch[w] : \A d \in InTime :
        d < batch[w][k].id =>
            d \in tried \/ \E j \in DOMAIN batch[w] : j < k /\ batch[w][j].id = d

Inv ==
    /\ Shape
    /\ CopiesLag
    /\ AttemptsAreTries
    /\ VerdictHasCause
    /\ ConsumedForCause
    /\ BatchesAreGapless
    /\ InsertionOrder

LEMMA InvInit == Init => Inv
  <1> SUFFICES ASSUME Init PROVE Inv
    OBVIOUS
  <1> USE DEF Init
  <1>1. Shape
    BY DEF Shape
  <1>2. CopiesLag /\ BatchesAreGapless
    BY DEF CopiesLag, BatchesAreGapless
  <1>3. AttemptsAreTries /\ VerdictHasCause
    BY DEF AttemptsAreTries, VerdictHasCause
  <1>4. ConsumedForCause /\ InsertionOrder
    BY DEF ConsumedForCause, InsertionOrder
  <1>5. QED
    BY <1>1, <1>2, <1>3, <1>4 DEF Inv

-----------------------------------------------------------------------------
(* Lists and batches.                                                      *)

LEMMA FirstType ==
    /\ IsFiniteSet(Pending) /\ IsFiniteSet(First(BatchSize))
    /\ First(BatchSize) \subseteq Pending
    /\ Cardinality(First(BatchSize)) \in Nat
  <1>1. IsFiniteSet(Events)
    BY FS_Interval, OutboxAssumption DEF Events
  <1>2. Pending \in SUBSET Events /\ First(BatchSize) \in SUBSET Pending
    BY DEF Pending, First
  <1>3. IsFiniteSet(Pending)
    BY <1>1, <1>2, FS_Subset
  <1>4. IsFiniteSet(First(BatchSize))
    BY <1>2, <1>3, FS_Subset
  <1>5. QED
    BY <1>2, <1>3, <1>4, FS_CardinalityType

\* The first pending events leave out none that comes before one of them.
LEMMA FirstIsInitial ==
    ASSUME NEW e \in First(BatchSize), NEW d \in Pending, d < e
    PROVE  d \in First(BatchSize)
  <1> DEFINE A == {c \in Pending : c < d}
             B == {c \in Pending : c < e}
  <1>1. \A c \in Pending : c \in Int
    BY DEF Pending, Events
  <1>2. e \in Pending /\ Cardinality(B) < BatchSize
    BY DEF First
  <1>3. A \in SUBSET B /\ B \in SUBSET Pending
    <2>1. ASSUME NEW c \in Pending, c < d PROVE c < e
      BY <1>1, <1>2, <2>1
    <2>2. QED BY <2>1
  <1>4. IsFiniteSet(B)
    BY <1>3, FirstType, FS_Subset
  <1>5. Cardinality(A) <= Cardinality(B) /\ IsFiniteSet(A)
    BY <1>3, <1>4, FS_Subset
  <1>6. Cardinality(A) \in Nat /\ Cardinality(B) \in Nat
    BY <1>4, <1>5, FS_CardinalityType
  <1>7. Cardinality(A) < BatchSize
    BY <1>2, <1>5, <1>6, OutboxAssumption
  <1>8. QED
    BY <1>7 DEF First

\* What List puts in a batch: copies of pending rows, in the order of their
\* ids, with every pending event that comes before one of them.
LEMMA ListedRows ==
    ASSUME Shape, NEW w \in Workers, List(w)
    PROVE  \E q \in Seq(Copy) :
              /\ batch' = [batch EXCEPT ![w] = q]
              /\ \A k \in DOMAIN q : /\ q[k].id \in Pending
                                     /\ q[k].attempts = attempts[q[k].id]
              /\ \A k \in DOMAIN q : \A d \in Pending :
                    d < q[k].id => \E j \in DOMAIN q : j < k /\ q[j].id = d
  <1> DEFINE S == First(BatchSize)
             n == Cardinality(S)
  <1>1. PICK ids \in [1 .. n -> S] :
           /\ \A e \in S : \E k \in DOMAIN ids : ids[k] = e
           /\ \A j, k \in DOMAIN ids : j < k => ids[j] < ids[k]
           /\ batch' = [batch EXCEPT ![w] = [k \in DOMAIN ids |-> RowOf(ids[k])]]
    BY DEF List, Unprocessed
  <1> DEFINE q == [k \in 1 .. n |-> RowOf(ids[k])]
  <1>2. n \in Nat /\ S \subseteq Pending /\ Pending \subseteq Events
    BY FirstType DEF Pending
  <1>3. \A k \in 1 .. n : /\ q[k] \in Copy /\ q[k].id = ids[k] /\ ids[k] \in Pending
                          /\ q[k].attempts = attempts[ids[k]]
    BY <1>2 DEF RowOf, Copy, Shape
  <1>4. q \in Seq(Copy) /\ DOMAIN q = 1 .. n
    BY <1>2, <1>3
  <1>5. ASSUME NEW k \in 1 .. n, NEW d \in Pending, d < q[k].id
        PROVE  \E j \in 1 .. n : j < k /\ q[j].id = d
    <2>1. d \in S
      BY <1>3, <1>5, FirstIsInitial
    <2>2. PICK j \in 1 .. n : ids[j] = d
      BY <1>1, <2>1
    <2>3. \A c \in Pending : c \in Int
      BY <1>2 DEF Events
    <2>4. ids[j] < ids[k] /\ ids[j] \in Int /\ ids[k] \in Int
      <3>1. q[k].id = ids[k] /\ ids[k] \in Pending
        BY <1>3
      <3>2. QED BY <1>5, <2>2, <2>3, <3>1
    <2>5. ~ (k < j) /\ k # j
      BY <1>1, <2>4
    <2>6. QED
      BY <1>2, <1>3, <2>2, <2>5
  <1>6. batch' = [batch EXCEPT ![w] = q]
    BY <1>1
  <1>7. \A k \in DOMAIN q : q[k].id \in Pending /\ q[k].attempts = attempts[q[k].id]
    BY <1>3, <1>4
  <1>8. \A k \in DOMAIN q : \A d \in Pending :
           d < q[k].id => \E j \in DOMAIN q : j < k /\ q[j].id = d
    BY <1>4, <1>5
  <1> HIDE DEF q
  <1>9. QED
    BY <1>4, <1>6, <1>7, <1>8

\* A batch without its head: the rest, one place ahead.
LEMMA TailOfBatch ==
    ASSUME NEW q \in Seq(Copy), q # <<>>
    PROVE  /\ Tail(q) \in Seq(Copy) /\ DOMAIN Tail(q) = 1 .. Len(q) - 1
           /\ Head(q) = q[1] /\ Head(q) \in Copy /\ DOMAIN q = 1 .. Len(q)
           /\ Len(q) \in Nat \ {0}
           /\ \A k \in DOMAIN Tail(q) : k + 1 \in DOMAIN q /\ Tail(q)[k] = q[k + 1]
  <1>1. Len(q) \in Nat \ {0} /\ DOMAIN q = 1 .. Len(q) /\ Head(q) = q[1]
    BY EmptySeq
  <1>2. QED
    BY <1>1, HeadTailProperties

-----------------------------------------------------------------------------
(* The steps.                                                              *)

LEMMA ShapeStep == Shape /\ VerdictHasCause /\ [Next]_vars => Shape'
  <1> SUFFICES ASSUME Shape, VerdictHasCause, [Next]_vars
               PROVE  Shape'
    OBVIOUS
  <1> USE DEF Shape
  <1>1. CASE \E e \in Events : AppendEvent(e) \/ End(e)
    BY <1>1 DEF AppendEvent, End, history
  <1>2. ASSUME NEW w \in Workers, List(w) PROVE Shape'
    BY <1>2, ListedRows DEF List, rowVars, history
  <1>3. ASSUME NEW w \in Workers, Dispatch(w) PROVE Shape'
    <2>1. batch[w] \in Seq(Copy) /\ batch[w] # <<>>
      BY <1>3 DEF Dispatch, Skip, Handle, Decide
    <2>2. Head(batch[w]).id \in Events
      BY <2>1, TailOfBatch DEF Copy
    <2>3. QED
      BY <1>3, <2>2 DEF Dispatch, Skip, Handle, Decide, rowVars
  <1>4. ASSUME NEW w \in Workers, Mark(w) \/ MarkFails(w) PROVE Shape'
    <2>1. batch[w] \in Seq(Copy) /\ batch[w] # <<>>
      BY <1>4 DEF Mark, MarkFails, VerdictHasCause
    <2>2. Head(batch[w]).id \in Events /\ Tail(batch[w]) \in Seq(Copy)
      BY <2>1, TailOfBatch DEF Copy
    <2>3. batch' \in [Workers -> Seq(Copy)] /\ tried' = tried
          /\ verdict' \in [Workers -> {"none", "processed", "failed"}]
      BY <1>4, <2>2 DEF Mark, MarkFails, Forward, history
    <2>4. CASE Mark(w)
      <3>1. row' \in [Events -> {"none", "open", "gone", "pending", "processed"}]
        BY <2>4, <2>2 DEF Mark
      <3>2. attempts' \in [Events -> Nat]
        BY <2>4, <2>2 DEF Mark
      <3>3. QED BY <2>3, <3>1, <3>2
    <2>5. CASE MarkFails(w)
      BY <2>3, <2>5 DEF MarkFails, rowVars
    <2>6. QED BY <1>4, <2>4, <2>5
  <1>5. ASSUME NEW w \in Workers, Crash(w) PROVE Shape'
    BY <1>5 DEF Crash, rowVars, history
  <1>6. CASE UNCHANGED vars
    BY <1>6 DEF vars, rowVars, history
  <1>7. QED
    BY <1>1, <1>2, <1>3, <1>4, <1>5, <1>6 DEF Next, Quiet

LEMMA LagStep == Shape /\ CopiesLag /\ VerdictHasCause /\ [Next]_vars => CopiesLag'
  <1> SUFFICES ASSUME Shape, CopiesLag, VerdictHasCause, [Next]_vars
               PROVE  CopiesLag'
    OBVIOUS
  <1> USE DEF CopiesLag
  <1>1. CASE \E e \in Events : AppendEvent(e) \/ End(e)
    BY <1>1 DEF AppendEvent, End
  <1>2. ASSUME NEW w \in Workers, List(w) PROVE CopiesLag'
    <2>1. PICK q \in Seq(Copy) :
             /\ batch' = [batch EXCEPT ![w] = q]
             /\ \A k \in DOMAIN q : /\ q[k].id \in Pending
                                    /\ q[k].attempts = attempts[q[k].id]
      BY <1>2, ListedRows
    <2>2. \A k \in DOMAIN q : q[k].attempts <= attempts[q[k].id]
      <3>1. \A e \in Pending : attempts[e] \in Nat
        BY DEF Pending, Shape
      <3>2. QED BY <2>1, <3>1
    <2>3. attempts' = attempts
      BY <1>2 DEF List, rowVars
    <2>4. QED
      BY <2>1, <2>2, <2>3 DEF Shape
  <1>3. ASSUME NEW w \in Workers, Dispatch(w) PROVE CopiesLag'
    BY <1>3 DEF Dispatch, Skip, Handle, Decide, rowVars
  <1>4. ASSUME NEW w \in Workers, Mark(w) \/ MarkFails(w) PROVE CopiesLag'
    <2>1. batch[w] \in Seq(Copy) /\ batch[w] # <<>>
      BY <1>4 DEF Mark, MarkFails, VerdictHasCause, Shape
    <2>2. batch' = [batch EXCEPT ![w] = Tail(@)]
      BY <1>4 DEF Mark, MarkFails, Forward
    <2>3. \A e \in Events : attempts[e] \in Nat /\ attempts'[e] \in Nat
                            /\ attempts[e] <= attempts'[e]
      BY <1>4, <2>1, TailOfBatch DEF Mark, MarkFails, rowVars, Shape, Copy
    <2>4. ASSUME NEW v \in Workers, NEW k \in DOMAIN batch'[v]
          PROVE  \E i \in DOMAIN batch[v] : batch'[v][k] = batch[v][i]
      BY <2>1, <2>2, TailOfBatch DEF Shape
    <2>5. ASSUME NEW v \in Workers, NEW i \in DOMAIN batch[v]
          PROVE  batch[v][i] \in Copy
      BY DEF Shape
    <2>6. ASSUME NEW v \in Workers, NEW k \in DOMAIN batch'[v]
          PROVE  batch'[v][k].attempts <= attempts'[batch'[v][k].id]
      <3>1. PICK i \in DOMAIN batch[v] : batch'[v][k] = batch[v][i]
        BY <2>4
      <3>2. batch[v][i].id \in Events /\ batch[v][i].attempts \in Nat
            /\ batch[v][i].attempts <= attempts[batch[v][i].id]
        BY <2>5 DEF Copy
      <3>3. QED BY <2>3, <3>1, <3>2
    <2>7. QED BY <2>6
  <1>5. ASSUME NEW w \in Workers, Crash(w) PROVE CopiesLag'
    BY <1>5 DEF Crash, rowVars, Shape
  <1>6. CASE UNCHANGED vars
    BY <1>6 DEF vars, rowVars
  <1>7. QED
    BY <1>1, <1>2, <1>3, <1>4, <1>5, <1>6 DEF Next, Quiet

LEMMA TriesStep ==
    Shape /\ AttemptsAreTries /\ VerdictHasCause /\ [Next]_vars => AttemptsAreTries'
  <1> SUFFICES ASSUME Shape, AttemptsAreTries, VerdictHasCause, [Next]_vars
               PROVE  AttemptsAreTries'
    OBVIOUS
  <1> USE DEF AttemptsAreTries
  <1>1. CASE \E e \in Events : AppendEvent(e) \/ End(e)
    BY <1>1 DEF AppendEvent, End, history
  <1>2. CASE \E w \in Workers : List(w) \/ Crash(w)
    BY <1>2 DEF List, Crash, rowVars, history
  <1>3. ASSUME NEW w \in Workers, Dispatch(w) PROVE AttemptsAreTries'
    BY <1>3 DEF Dispatch, Skip, Handle, Decide, rowVars
  <1>4. ASSUME NEW w \in Workers, Mark(w) PROVE AttemptsAreTries'
    BY <1>4 DEF Mark, Forward, history, VerdictHasCause, Shape
  <1>5. CASE \E w \in Workers : MarkFails(w)
    BY <1>5 DEF MarkFails, Forward, rowVars, history
  <1>6. CASE UNCHANGED vars
    BY <1>6 DEF vars, rowVars, history
  <1>7. QED
    BY <1>1, <1>2, <1>3, <1>4, <1>5, <1>6 DEF Next, Quiet

\* A cause stays one.
LEMMA CauseStays ==
    ASSUME Shape, NEW e \in Events, Cause(e, handled, attempts), handled \subseteq handled',
           attempts' = attempts \/ \E d \in Events :
                                      attempts' = [attempts EXCEPT ![d] = @ + 1]
    PROVE  Cause(e, handled', attempts')
  <1>1. attempts[e] \in Nat /\ attempts'[e] \in Nat /\ attempts[e] <= attempts'[e]
    BY DEF Shape
  <1>2. QED
    BY <1>1, OutboxAssumption DEF Cause

\* The first row of a batch, as the worker reads it and as it is.
LEMMA HeadOfBatch ==
    ASSUME Shape, CopiesLag, NEW w \in Workers, batch[w] # <<>>
    PROVE  /\ Head(batch[w]) = batch[w][1] /\ 1 \in DOMAIN batch[w]
           /\ Head(batch[w]).id \in Events
           /\ Exhausted(Head(batch[w])) => attempts[Head(batch[w]).id] >= MaxAttempts
  <1>1. batch[w] \in Seq(Copy)
    BY DEF Shape
  <1>2. Head(batch[w]) = batch[w][1] /\ 1 \in DOMAIN batch[w] /\ Head(batch[w]) \in Copy
    BY <1>1, TailOfBatch
  <1>3. batch[w][1].attempts <= attempts[batch[w][1].id]
    BY <1>2 DEF CopiesLag
  <1>4. Head(batch[w]).id \in Events /\ Head(batch[w]).attempts \in Nat
    BY <1>2 DEF Copy
  <1>5. attempts[Head(batch[w]).id] \in Nat
    BY <1>4 DEF Shape
  <1>6. QED
    BY <1>2, <1>3, <1>4, <1>5, OutboxAssumption DEF Exhausted

LEMMA VerdictStep ==
    Shape /\ CopiesLag /\ AttemptsAreTries /\ VerdictHasCause /\ [Next]_vars
      => VerdictHasCause'
  <1> SUFFICES ASSUME Shape, CopiesLag, AttemptsAreTries, VerdictHasCause, [Next]_vars,
                      NEW v \in Workers, verdict'[v] # "none"
               PROVE  /\ batch'[v] # <<>>
                      /\ Head(batch'[v]).id \in tried' \cup Unknown
                      /\ verdict'[v] = "processed"
                            => Cause(Head(batch'[v]).id, handled', attempts')
                      /\ verdict'[v] = "failed" => Head(batch'[v]).id \in tried'
    BY DEF VerdictHasCause
  <1> DEFINE e == Head(batch[v]).id
  <1>1. ASSUME batch'[v] = batch[v], verdict'[v] = verdict[v],
               tried \subseteq tried', handled \subseteq handled',
               attempts' = attempts \/ \E d \in Events :
                                          attempts' = [attempts EXCEPT ![d] = @ + 1]
        PROVE  /\ batch'[v] # <<>>
               /\ Head(batch'[v]).id \in tried' \cup Unknown
               /\ verdict'[v] = "processed" => Cause(Head(batch'[v]).id, handled', attempts')
               /\ verdict'[v] = "failed" => Head(batch'[v]).id \in tried'
    <2>1. /\ batch[v] # <<>> /\ e \in tried \cup Unknown
          /\ verdict[v] = "processed" => Cause(e, handled, attempts)
          /\ verdict[v] = "failed" => e \in tried
      BY <1>1 DEF VerdictHasCause
    <2>2. e \in Events
      BY <2>1, HeadOfBatch
    <2>3. verdict[v] = "processed" => Cause(e, handled', attempts')
      BY <1>1, <2>1, <2>2, CauseStays DEF Cause
    <2>4. Head(batch'[v]).id = e
      BY <1>1
    <2>5. QED
      BY <1>1, <2>1, <2>3, <2>4 DEF Cause
  <1>2. CASE \E d \in Events : AppendEvent(d) \/ End(d)
    BY <1>1, <1>2 DEF AppendEvent, End, history
  <1>3. ASSUME NEW w \in Workers, List(w) PROVE v # w
    BY <1>3 DEF List, VerdictHasCause
  <1>4. ASSUME NEW w \in Workers, List(w)
        PROVE  batch'[v] = batch[v] /\ UNCHANGED <<rowVars, verdict, history>>
    BY <1>3, <1>4 DEF List, Shape
  <1>5. ASSUME NEW w \in Workers, v # w, Dispatch(w) \/ Mark(w) \/ MarkFails(w) \/ Crash(w)
        PROVE  /\ batch'[v] = batch[v] /\ verdict'[v] = verdict[v]
               /\ tried \subseteq tried' /\ handled \subseteq handled'
               /\ attempts' = attempts \/ \E d \in Events :
                                             attempts' = [attempts EXCEPT ![d] = @ + 1]
    <2>1. CASE Dispatch(w)
      BY <1>5, <2>1 DEF Dispatch, Skip, Handle, Decide, Shape, rowVars
    <2>2. CASE Mark(w)
      <3>1. Head(batch[w]).id \in Events
        BY <2>2, HeadOfBatch DEF Mark, VerdictHasCause
      <3>2. QED
        BY <1>5, <2>2, <3>1 DEF Mark, Forward, Shape, history
    <2>3. CASE MarkFails(w) \/ Crash(w)
      BY <1>5, <2>3 DEF MarkFails, Crash, Forward, Shape, rowVars, history
    <2>4. QED
      BY <1>5, <2>1, <2>2, <2>3
  <1>6. CASE Skip(v)
    <2>1. batch[v] # <<>> /\ UNCHANGED <<batch, tried, handled, attempts>>
          /\ verdict'[v] = "processed" /\ (e \in Unknown \/ Exhausted(Head(batch[v])))
      BY <1>6 DEF Skip, Decide, rowVars, Shape
    <2>2. e \in Events /\ (e \in Unknown \/ attempts[e] >= MaxAttempts)
      BY <2>1, HeadOfBatch
    <2>3. attempts[e] \in Nat
      BY <2>2 DEF Shape
    <2>4. e \in tried \cup Unknown
      BY <2>2, <2>3, OutboxAssumption DEF AttemptsAreTries
    <2>5. QED
      BY <2>1, <2>2, <2>4 DEF Cause
  <1>7. ASSUME NEW ok \in BOOLEAN, Handle(v, ok)
        PROVE  /\ batch' = batch /\ batch[v] # <<>> /\ e \in tried'
               /\ verdict'[v] = "processed" => e \in handled'
    BY <1>7 DEF Handle, Decide, Shape
  <1>8. CASE Mark(v) \/ MarkFails(v) \/ Crash(v)
    BY <1>8 DEF Mark, MarkFails, Crash, Forward, Shape
  <1>9. CASE UNCHANGED vars
    BY <1>1, <1>9 DEF vars, rowVars, history
  <1>10. CASE \E w \in Workers : List(w)
    BY <1>1, <1>4, <1>10 DEF rowVars, history
  <1>11. CASE \E w \in Workers :
                 v # w /\ (Dispatch(w) \/ Mark(w) \/ MarkFails(w) \/ Crash(w))
    BY <1>1, <1>5, <1>11
  <1>12. CASE \E ok \in BOOLEAN : Handle(v, ok)
    BY <1>7, <1>12 DEF Cause
  <1>13. QED
    BY <1>2, <1>6, <1>8, <1>9, <1>10, <1>11, <1>12 DEF Next, Quiet, Dispatch

LEMMA CauseStep ==
    Shape /\ CopiesLag /\ VerdictHasCause /\ ConsumedForCause /\ [Next]_vars
      => ConsumedForCause'
  <1> SUFFICES ASSUME Shape, CopiesLag, VerdictHasCause, ConsumedForCause, [Next]_vars,
                      NEW e \in Events, row'[e] = "processed"
               PROVE  Cause(e, handled', attempts')
    BY DEF ConsumedForCause, Cause
  <1>1. ASSUME row[e] = "processed", handled \subseteq handled',
               attempts' = attempts \/ \E d \in Events :
                                          attempts' = [attempts EXCEPT ![d] = @ + 1]
        PROVE  Cause(e, handled', attempts')
    BY <1>1, CauseStays DEF ConsumedForCause, Cause
  <1>2. CASE \E d \in Events : AppendEvent(d) \/ End(d)
    BY <1>1, <1>2 DEF AppendEvent, End, Shape, history
  <1>3. CASE \E w \in Workers : List(w) \/ Dispatch(w) \/ MarkFails(w) \/ Crash(w)
    BY <1>1, <1>3 DEF List, Dispatch, Skip, Handle, Decide, MarkFails, Crash, Forward,
                      rowVars, history
  <1>4. ASSUME NEW w \in Workers, Mark(w) PROVE Cause(e, handled', attempts')
    <2> DEFINE h == Head(batch[w]).id
    <2>1. h \in Events /\ (verdict[w] = "processed" => Cause(h, handled, attempts))
      BY <1>4, HeadOfBatch DEF Mark, VerdictHasCause
    <2>2. handled' = handled
      BY <1>4 DEF Mark, Forward, history
    <2>3. CASE verdict[w] = "processed"
      <3>1. attempts' = attempts /\ (row[e] = "processed" \/ e = h)
        BY <1>4, <2>1, <2>3 DEF Mark, Shape
      <3>2. QED
        BY <1>1, <2>1, <2>2, <2>3, <3>1, CauseStays
    <2>4. CASE verdict[w] # "processed"
      <3>1. row' = row /\ attempts' = [attempts EXCEPT ![h] = @ + 1]
        BY <1>4, <2>4 DEF Mark
      <3>2. QED
        BY <1>1, <2>1, <2>2, <3>1
    <2>5. QED
      BY <2>3, <2>4
  <1>5. CASE UNCHANGED vars
    BY <1>1, <1>5 DEF vars, rowVars, history
  <1>6. QED
    BY <1>2, <1>3, <1>4, <1>5 DEF Next, Quiet

\* An event that keeps its place was in time before, unless its transaction
\* ends with this step before any later event is listed or tried.
LEMMA InTimeStep ==
    ASSUME Shape, [Next]_vars, NEW d \in InTime'
    PROVE  \/ d \in InTime
           \/ /\ \A x \in tried \cup Listed : ~ (x > d)
              /\ batch' = batch /\ tried' = tried
  <1> USE DEF InTime, Pending
  <1>1. CASE \E e \in Events : AppendEvent(e)
    BY <1>1 DEF AppendEvent, Shape, history
  <1>2. ASSUME NEW e \in Events, End(e)
        PROVE  d \in InTime \/ /\ \A x \in tried \cup Listed : ~ (x > d)
                               /\ batch' = batch /\ tried' = tried
    <2>1. CASE d = e
      BY <1>2, <2>1 DEF End
    <2>2. CASE d # e
      BY <1>2, <2>2 DEF End, Shape
    <2>3. QED BY <2>1, <2>2
  <1>3. ASSUME NEW w \in Workers, Mark(w) PROVE d \in InTime
    <2>1. row' = row \/ \E h : row' = [row EXCEPT ![h] = "processed"]
      BY <1>3 DEF Mark
    <2>2. row[d] = "pending" /\ overtaken' = overtaken
      BY <1>3, <2>1 DEF Mark, Forward, Shape, history
    <2>3. QED BY <2>2
  <1>4. CASE \E w \in Workers : List(w) \/ Dispatch(w) \/ MarkFails(w) \/ Crash(w)
    BY <1>4 DEF List, Dispatch, Skip, Handle, Decide, MarkFails, Crash, Forward, rowVars, history
  <1>5. CASE UNCHANGED vars
    BY <1>5 DEF vars, rowVars, history
  <1>6. QED
    BY <1>1, <1>2, <1>3, <1>4, <1>5 DEF Next, Quiet

LEMMA BatchStep ==
    Shape /\ VerdictHasCause /\ BatchesAreGapless /\ [Next]_vars => BatchesAreGapless'
  <1> SUFFICES ASSUME Shape, VerdictHasCause, BatchesAreGapless, [Next]_vars,
                      NEW v \in Workers, NEW k \in DOMAIN batch'[v], NEW d \in InTime',
                      d < batch'[v][k].id
               PROVE  d \in tried' \/ \E j \in DOMAIN batch'[v] :
                                          j < k /\ batch'[v][j].id = d
    BY DEF BatchesAreGapless
  <1>1. CASE d \notin InTime
    <2>1. batch' = batch /\ \A x \in tried \cup Listed : ~ (x > d)
      BY <1>1, InTimeStep
    <2>2. batch[v][k].id \in Listed
      BY <2>1 DEF Listed
    <2>3. batch[v][k].id \in Events /\ d \in Events
      <3>1. batch[v][k] \in Copy
        BY <2>1 DEF Shape
      <3>2. QED BY <3>1 DEF Copy, InTime, Pending
    <2>4. QED
      BY <2>1, <2>2, <2>3 DEF Events
  <1>2. ASSUME d \in InTime, batch'[v] = batch[v], tried \subseteq tried'
        PROVE  d \in tried' \/ \E j \in DOMAIN batch'[v] :
                                   j < k /\ batch'[v][j].id = d
    BY <1>2 DEF BatchesAreGapless
  <1>3. CASE d \in InTime /\ \E e \in Events : AppendEvent(e) \/ End(e)
    BY <1>2, <1>3 DEF AppendEvent, End, history
  <1>4. CASE d \in InTime /\ List(v)
    <2>1. PICK q \in Seq(Copy) :
             /\ batch' = [batch EXCEPT ![v] = q]
             /\ \A i \in DOMAIN q : \A x \in Pending :
                   x < q[i].id => \E j \in DOMAIN q : j < i /\ q[j].id = x
      BY <1>4, ListedRows
    <2>2. d \in Pending /\ batch'[v] = q
      BY <1>4, <2>1 DEF InTime, Shape
    <2>3. QED BY <2>1, <2>2
  <1>5. CASE d \in InTime /\ Crash(v)
    BY <1>5 DEF Crash, Shape
  <1>6. CASE d \in InTime /\ (Mark(v) \/ MarkFails(v))
    <2>1. batch[v] \in Seq(Copy) /\ batch[v] # <<>> /\ tried' = tried
          /\ Head(batch[v]).id \in tried \cup Unknown /\ batch'[v] = Tail(batch[v])
      BY <1>6 DEF Mark, MarkFails, Forward, VerdictHasCause, Shape, history
    <2>2. /\ k \in 1 .. Len(batch[v]) - 1 /\ DOMAIN batch[v] = 1 .. Len(batch[v])
          /\ Len(batch[v]) \in Nat /\ k + 1 \in DOMAIN batch[v]
          /\ batch'[v][k] = batch[v][k + 1]
      BY <2>1, TailOfBatch
    <2>3. CASE d \in tried
      BY <2>1, <2>3
    <2>4. CASE d \notin tried
      <3>1. PICK j \in DOMAIN batch[v] : j < k + 1 /\ batch[v][j].id = d
        BY <1>6, <2>2, <2>4 DEF BatchesAreGapless
      <3>2. j # 1
        BY <1>6, <2>1, <2>4, <3>1, TailOfBatch DEF InTime
      <3>3. j - 1 \in DOMAIN Tail(batch[v]) /\ j - 1 < k /\ (j - 1) + 1 = j
        BY <2>1, <2>2, <3>1, <3>2, TailOfBatch
      <3>4. Tail(batch[v])[j - 1] = batch[v][(j - 1) + 1]
        BY <2>1, <3>3, TailOfBatch
      <3>5. QED
        BY <2>1, <3>1, <3>3, <3>4
    <2>5. QED BY <2>3, <2>4
  <1>7. CASE d \in InTime /\ \E w \in Workers :
                                \/ v # w /\ (List(w) \/ Mark(w) \/ MarkFails(w) \/ Crash(w))
                                \/ Dispatch(w)
    BY <1>2, <1>7 DEF List, Dispatch, Skip, Handle, Decide, Mark, MarkFails, Crash, Forward,
                      Shape, history
  <1>8. CASE d \in InTime /\ UNCHANGED vars
    BY <1>2, <1>8 DEF vars, history
  <1>9. QED
    BY <1>1, <1>3, <1>4, <1>5, <1>6, <1>7, <1>8 DEF Next, Quiet

LEMMA OrderStep ==
    Shape /\ CopiesLag /\ BatchesAreGapless /\ InsertionOrder /\ [Next]_vars
      => InsertionOrder'
  <1> SUFFICES ASSUME Shape, CopiesLag, BatchesAreGapless, InsertionOrder, [Next]_vars,
                      NEW e \in tried', NEW d \in InTime', d < e
               PROVE  d \in tried'
    BY DEF InsertionOrder, InTime
  <1>1. tried \subseteq tried'
    BY DEF Next, AppendEvent, End, List, Dispatch, Skip, Handle, Mark, MarkFails, Crash,
           Forward, Quiet, vars, history
  <1>2. CASE d \notin InTime
    <2>1. tried' = tried /\ \A x \in tried : ~ (x > d)
      BY <1>2, InTimeStep
    <2>2. e \in Events /\ d \in Events
      BY <2>1 DEF Shape, InTime, Pending
    <2>3. QED
      BY <2>1, <2>2 DEF Events
  <1>3. CASE d \in InTime /\ e \in tried
    BY <1>1, <1>3 DEF InsertionOrder, InTime
  <1>4. CASE d \in InTime /\ e \notin tried
    <2>1. PICK w \in Workers : \E ok \in BOOLEAN : Handle(w, ok)
      BY <1>4 DEF Next, AppendEvent, End, List, Dispatch, Skip, Handle, Mark, MarkFails, Crash,
                  Forward, Quiet, vars, history
    <2>2. e = Head(batch[w]).id /\ batch[w] # <<>>
      BY <1>4, <2>1 DEF Handle, Decide
    <2>3. e = batch[w][1].id /\ 1 \in DOMAIN batch[w]
      BY <2>2, HeadOfBatch
    <2>4. d \in tried \/ \E j \in DOMAIN batch[w] : j < 1
      BY <1>4, <2>3 DEF BatchesAreGapless
    <2>5. DOMAIN batch[w] = 1 .. Len(batch[w]) /\ Len(batch[w]) \in Nat
      BY <2>2, TailOfBatch DEF Shape
    <2>6. QED
      BY <1>1, <2>4, <2>5
  <1>5. QED
    BY <1>2, <1>3, <1>4

-----------------------------------------------------------------------------
(* The contract.                                                           *)

Shown(e) == row[e] \in {"pending", "processed"}

\* What is listed or was tried is committed, and what was overtaken has ended.
ListedAreShown ==
    /\ \A w \in Workers : \A k \in DOMAIN batch[w] : Shown(batch[w][k].id)
    /\ \A e \in tried : Shown(e)
    /\ overtaken \subseteq {e \in Events : row[e] \notin {"none", "open"}}

LEMMA CopyOfAnEvent ==
    ASSUME Shape, NEW w \in Workers, NEW k \in DOMAIN batch[w]
    PROVE  batch[w][k].id \in Events
  <1>1. batch[w][k] \in Copy
    <2>1. batch[w] \in Seq(Copy)
      BY DEF Shape
    <2> HIDE DEF Copy
    <2>2. QED
      BY <2>1
  <1>2. QED
    BY <1>1 DEF Copy

LEMMA ShownStep ==
    Shape /\ VerdictHasCause /\ ListedAreShown /\ [Next]_vars => ListedAreShown'
  <1> SUFFICES ASSUME Shape, VerdictHasCause, ListedAreShown, [Next]_vars
               PROVE  ListedAreShown'
    OBVIOUS
  <1>1. ASSUME NEW v \in Workers, NEW k \in DOMAIN batch[v] PROVE batch[v][k].id \in Events
    BY CopyOfAnEvent
  <1>2. ASSUME \A e \in Events : Shown(e) => row'[e] \in {"pending", "processed"},
               \A v \in Workers : \A k \in DOMAIN batch'[v] :
                  \E i \in DOMAIN batch[v] : batch'[v][k] = batch[v][i],
               tried' = tried
        PROVE  /\ \A v \in Workers : \A k \in DOMAIN batch'[v] :
                     row'[batch'[v][k].id] \in {"pending", "processed"}
               /\ \A e \in tried' : row'[e] \in {"pending", "processed"}
    BY <1>1, <1>2 DEF ListedAreShown, Shape
  <1>3. ASSUME row' = row, overtaken' = overtaken,
               \A v \in Workers : \A k \in DOMAIN batch'[v] :
                  \E i \in DOMAIN batch[v] : batch'[v][k] = batch[v][i],
               tried' = tried
        PROVE  ListedAreShown'
    BY <1>2, <1>3 DEF ListedAreShown, Shown
  <1>4. ASSUME NEW e \in Events, AppendEvent(e) PROVE ListedAreShown'
    <2>1. row[e] = "none" /\ row' = [row EXCEPT ![e] = "open"] /\ UNCHANGED <<batch, history>>
      BY <1>4 DEF AppendEvent
    <2>2. \A d \in Events : row[d] # "none" => row'[d] = row[d]
      BY <2>1 DEF Shape
    <2>3. QED
      BY <1>2, <2>1, <2>2 DEF ListedAreShown, Shown, history
  <1>5. ASSUME NEW e \in Events, End(e) PROVE ListedAreShown'
    <2>1. PICK s \in {"pending", "gone"} : row' = [row EXCEPT ![e] = s]
      BY <1>5 DEF End
    <2>2. /\ row[e] = "open" /\ row'[e] = s /\ \A d \in Events : d # e => row'[d] = row[d]
          /\ batch' = batch /\ tried' = tried /\ overtaken' \subseteq overtaken \cup {e}
      BY <1>5, <2>1 DEF End, Shape
    <2>3. QED
      BY <1>2, <2>2 DEF ListedAreShown, Shown
  <1>6. ASSUME NEW w \in Workers, List(w) PROVE ListedAreShown'
    <2>1. PICK q \in Seq(Copy) :
             /\ batch' = [batch EXCEPT ![w] = q]
             /\ \A k \in DOMAIN q : q[k].id \in Pending
      BY <1>6, ListedRows
    <2>2. row' = row /\ tried' = tried /\ overtaken' = overtaken
      BY <1>6 DEF List, rowVars, history
    <2>3. ASSUME NEW v \in Workers, NEW k \in DOMAIN batch'[v] PROVE Shown(batch'[v][k].id)
      BY <2>1 DEF Shape, Shown, ListedAreShown, Pending
    <2>4. QED
      BY <2>2, <2>3 DEF ListedAreShown, Shown
  <1>7. ASSUME NEW w \in Workers, Skip(w) PROVE ListedAreShown'
    BY <1>3, <1>7 DEF Skip, Decide, rowVars
  <1>8. ASSUME NEW w \in Workers, NEW ok \in BOOLEAN, Handle(w, ok) PROVE ListedAreShown'
    <2>1. batch[w] \in Seq(Copy) /\ batch[w] # <<>>
      BY <1>8 DEF Handle, Decide, Shape
    <2>2. Head(batch[w]) = batch[w][1] /\ 1 \in DOMAIN batch[w]
      BY <2>1, TailOfBatch
    <2>3. /\ row' = row /\ batch' = batch /\ overtaken' = overtaken
          /\ tried' = tried \cup {batch[w][1].id}
      BY <1>8, <2>2 DEF Handle, Decide, rowVars
    <2>4. QED
      BY <2>2, <2>3 DEF ListedAreShown, Shown
  <1>9. ASSUME NEW w \in Workers, Mark(w) \/ MarkFails(w) PROVE ListedAreShown'
    <2>1. batch[w] \in Seq(Copy) /\ batch[w] # <<>>
      BY <1>9 DEF Mark, MarkFails, VerdictHasCause, Shape
    <2>2. batch' = [batch EXCEPT ![w] = Tail(@)] /\ tried' = tried /\ overtaken' = overtaken
      BY <1>9 DEF Mark, MarkFails, Forward, history
    <2>3. ASSUME NEW v \in Workers, NEW k \in DOMAIN batch'[v]
          PROVE  \E i \in DOMAIN batch[v] : batch'[v][k] = batch[v][i]
      BY <2>1, <2>2, TailOfBatch DEF Shape
    <2>4. row' = row \/ \E h : row' = [row EXCEPT ![h] = "processed"]
      BY <1>9 DEF Mark, MarkFails, rowVars
    <2>5. \A d \in Events : row'[d] = row[d] \/ row'[d] = "processed"
      BY <2>4 DEF Shape
    <2>6. QED
      BY <1>2, <2>2, <2>3, <2>5 DEF ListedAreShown, Shown
  <1>10. ASSUME NEW w \in Workers, Crash(w) PROVE ListedAreShown'
    <2>1. batch' = [batch EXCEPT ![w] = <<>>] /\ UNCHANGED <<row, tried, overtaken>>
      BY <1>10 DEF Crash, rowVars, history
    <2>2. ASSUME NEW v \in Workers, NEW k \in DOMAIN batch'[v]
          PROVE  \E i \in DOMAIN batch[v] : batch'[v][k] = batch[v][i]
      BY <2>1 DEF Shape
    <2>3. QED
      BY <1>3, <2>1, <2>2
  <1>11. CASE UNCHANGED vars
    BY <1>3, <1>11 DEF vars, rowVars, history
  <1>12. QED
    BY <1>4, <1>5, <1>6, <1>7, <1>8, <1>9, <1>10, <1>11 DEF Next, Quiet, Dispatch

\* The events that are late in the contract.
Late == {e \in overtaken : row[e] # "gone"}

\* A step of the outbox is one of the contract, or changes nothing it speaks of.
LEMMA ContractStep ==
    ASSUME Shape, CopiesLag, VerdictHasCause, ListedAreShown, InsertionOrder', [Next]_vars
    PROVE  \/ Contract!Next
           \/ UNCHANGED <<row, attempts, tried, handled, Late>>
  <1>1. ASSUME NEW e \in Events, AppendEvent(e) PROVE Contract!Begin(e)
    <2>1. /\ row[e] = "none" /\ row' = [row EXCEPT ![e] = "open"] /\ attempts' = attempts
          /\ UNCHANGED history /\ \A d \in 1 .. e - 1 : row[d] # "none"
      BY <1>1 DEF AppendEvent
    <2>2. \A d \in Events : d < e => row[d] # "none"
      BY <2>1 DEF Events
    <2>3. Late' = Late
      BY <2>1 DEF Late, ListedAreShown, Shape, history
    <2>4. QED
      BY <2>1, <2>2, <2>3 DEF Contract!Begin, Late, history
  <1>2. ASSUME NEW e \in Events, End(e) PROVE Contract!Commit(e) \/ Contract!Abandon(e)
    <2>1. PICK s \in {"pending", "gone"} : row' = [row EXCEPT ![e] = s]
      BY <1>2 DEF End
    <2>2. /\ row[e] = "open" /\ row'[e] = s /\ \A d \in Events : d # e => row'[d] = row[d]
          /\ attempts' = attempts /\ tried' = tried /\ handled' = handled /\ e \notin overtaken
      BY <1>2, <2>1 DEF End, Shape, ListedAreShown
    <2>3. overtaken \subseteq Events
      BY DEF ListedAreShown
    <2>4. CASE s = "gone"
      <3>1. Late' = Late
        BY <1>2, <2>2, <2>3, <2>4 DEF Late, End
      <3>2. QED
        BY <2>1, <2>2, <2>4, <3>1 DEF Contract!Abandon, Late
    <2>5. CASE s = "pending" /\ \E d \in tried \cup Listed : d > e
      <3>1. PICK d \in tried \cup Listed : d > e
        BY <2>5
      <3>2. d \in Events /\ Shown(d)
        <4>1. CASE d \in tried
          BY <4>1 DEF Shape, ListedAreShown
        <4>2. CASE d \in Listed
          <5>1. PICK w \in Workers : \E k \in DOMAIN batch[w] : d = batch[w][k].id
            BY <4>2 DEF Listed
          <5>2. PICK k \in DOMAIN batch[w] : d = batch[w][k].id
            BY <5>1
          <5>3. QED
            BY <5>2, CopyOfAnEvent DEF ListedAreShown
        <4>3. QED
          BY <4>1, <4>2
      <3>3. Late' = Late \cup {e}
        <4>1. overtaken' = overtaken \cup {e}
          BY <1>2, <2>5 DEF End
        <4>2. QED
          BY <2>2, <2>3, <2>5, <4>1 DEF Late
      <3>4. QED
        BY <2>1, <2>2, <2>5, <3>1, <3>2, <3>3 DEF Contract!Commit, Contract!Shown, Shown, Late
    <2>6. CASE s = "pending" /\ ~ \E d \in tried \cup Listed : d > e
      <3>1. Late' = Late
        <4>1. overtaken' = overtaken
          BY <1>2, <2>6 DEF End
        <4>2. QED
          BY <2>2, <2>3, <2>6, <4>1 DEF Late
      <3>2. QED
        BY <2>1, <2>2, <2>6, <3>1 DEF Contract!Commit, Late
    <2>7. QED
      BY <2>4, <2>5, <2>6
  <1>3. ASSUME NEW w \in Workers, List(w) \/ Skip(w) \/ MarkFails(w) \/ Crash(w)
        PROVE  UNCHANGED <<row, attempts, tried, handled, Late>>
    BY <1>3 DEF List, Skip, Decide, MarkFails, Crash, Forward, rowVars, history, Late
  <1>4. ASSUME NEW w \in Workers, NEW ok \in BOOLEAN, Handle(w, ok)
        PROVE  Contract!Try(Head(batch[w]).id, ok) /\ Head(batch[w]).id \in Events
    <2> DEFINE e == Head(batch[w]).id
    <2>1. /\ batch[w] # <<>> /\ e \notin Unknown /\ tried' = tried \cup {e}
          /\ handled' = IF ok THEN handled \cup {e} ELSE handled
          /\ row' = row /\ attempts' = attempts /\ overtaken' = overtaken
      BY <1>4 DEF Handle, Decide, rowVars
    <2>2. e \in Events /\ Shown(e)
      BY <2>1, HeadOfBatch DEF ListedAreShown
    <2> HIDE DEF e
    <2>3. ASSUME NEW d \in Events \ (Late \cup Unknown), d < e, row[d] = "pending"
          PROVE  d \in tried
      <3>1. d \in Pending' \ (overtaken' \cup Unknown)
        BY <2>1, <2>3 DEF Late, Pending
      <3>2. d \in tried' /\ d # e
        BY <2>1, <2>2, <2>3, <3>1 DEF InsertionOrder, Events
      <3>3. QED
        BY <2>1, <3>2
    <2>4. Late' = Late
      BY <2>1 DEF Late
    <2>5. Contract!Try(e, ok)
      BY <2>1, <2>2, <2>3, <2>4 DEF Contract!Try, Contract!Shown, Shown, Late
    <2>6. QED
      BY <2>2, <2>5 DEF e
  <1>5. ASSUME NEW w \in Workers, Mark(w)
        PROVE  \/ \E e \in Events : Contract!CountFailure(e) \/ Contract!Consume(e)
               \/ UNCHANGED <<row, attempts, tried, handled, Late>>
    <2> DEFINE e == Head(batch[w]).id
    <2>1. /\ batch[w] # <<>> /\ verdict[w] # "none" /\ UNCHANGED history
          /\ verdict[w] = "processed" => Cause(e, handled, attempts)
          /\ verdict[w] = "failed" => e \in tried
          /\ IF verdict[w] = "processed"
             THEN row' = [row EXCEPT ![e] = "processed"] /\ attempts' = attempts
             ELSE attempts' = [attempts EXCEPT ![e] = @ + 1] /\ row' = row
      BY <1>5 DEF Mark, Forward, VerdictHasCause
    <2>2. e \in Events /\ Shown(e) /\ verdict[w] \in {"none", "processed", "failed"}
      BY <2>1, HeadOfBatch DEF ListedAreShown, Shape
    <2> HIDE DEF e
    <2>3. CASE verdict[w] = "processed" /\ row[e] = "pending"
      <3>1. Late' = Late
        BY <2>1, <2>2, <2>3 DEF Late, history, ListedAreShown, Shape
      <3>2. Contract!Consume(e)
        BY <2>1, <2>3, <3>1 DEF Contract!Consume, Cause, Late, history
      <3>3. QED
        BY <2>2, <3>2
    <2>4. CASE verdict[w] = "processed" /\ row[e] = "processed"
      <3>1. row' = row
        BY <2>1, <2>2, <2>4 DEF Shape
      <3>2. QED
        BY <2>1, <2>4, <3>1 DEF Late, history
    <2>5. CASE verdict[w] = "failed"
      <3>1. Late' = Late
        BY <2>1, <2>5 DEF Late, history
      <3>2. Contract!CountFailure(e)
        BY <2>1, <2>5, <3>1 DEF Contract!CountFailure, Late, history
      <3>3. QED
        BY <2>2, <3>2
    <2>6. QED
      BY <2>1, <2>2, <2>3, <2>4, <2>5 DEF Shown
  <1>6. CASE UNCHANGED vars
    BY <1>6 DEF vars, rowVars, history, Late
  <1>7. QED
    BY <1>1, <1>2, <1>3, <1>4, <1>5, <1>6 DEF Next, Quiet, Dispatch, Contract!Next

-----------------------------------------------------------------------------
(* The theorems.                                                           *)

\* Every reachable state satisfies the inductive invariant.
THEOREM Invariance == Spec => []Inv
  <1>1. Inv /\ [Next]_vars => Inv'
    BY ShapeStep, LagStep, TriesStep, VerdictStep, CauseStep, BatchStep, OrderStep DEF Inv
  <1>2. QED
    BY InvInit, <1>1, PTL DEF Spec

\* At least once, for any number of replicas that die, read stale rows and lose
\* updates: an event is consumed only after its handler succeeded, after its
\* attempts, or when it has no handler (Worker.Run).
THEOREM AtLeastOnce == Spec => []ConsumedForCause
  <1>1. Inv => ConsumedForCause
    BY DEF Inv
  <1>2. QED
    BY <1>1, Invariance, PTL

\* The outbox implements OutboxContract, for any number of replicas, any batch
\* size and however often they die: without their batches, every behaviour is one
\* in which handlers see only what was committed, the earlier before the later,
\* and an event is consumed once, for good and for a cause.
THEOREM PromisesKept == Spec => KeepsPromises
  <1>1. Init => ListedAreShown /\ Contract!Init
    BY DEF Init, ListedAreShown, Contract!Init
  <1>2. Inv /\ ListedAreShown /\ Inv' /\ [Next]_vars =>
          ListedAreShown' /\ [Contract!Next]_(Contract!contract)
    <2>1. ASSUME Inv, ListedAreShown, Inv', [Next]_vars
          PROVE  [Contract!Next]_(Contract!contract)
      BY <2>1, ContractStep DEF Inv, Contract!contract, Late
    <2>2. QED
      BY <2>1, ShownStep DEF Inv
  <1>3. QED
    BY <1>1, <1>2, Invariance, PTL DEF Spec, KeepsPromises, Contract!Spec

\* In insertion order, for any batch size: no event reaches a handler before an
\* earlier one that was committed in time (Unprocessed and Worker.Run).
THEOREM TriedInOrder == Spec => []InsertionOrder
  <1>1. Inv => InsertionOrder
    BY DEF Inv
  <1>2. QED
    BY <1>1, Invariance, PTL
=============================================================================
