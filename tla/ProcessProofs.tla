--------------------------- MODULE ProcessProofs ---------------------------
(***************************************************************************)
(* What runs the program: the in-process queue of BackgroundWorker, for    *)
(* any number of tasks and every value of max_concurrent, and the start    *)
(* and stop of the processes in Startup, for any number of API and worker  *)
(* processes, fields and faults.                                           *)
(***************************************************************************)
EXTENDS BackgroundWorker, Startup, FiniteSetTheorems, TLAPS

\* The tasks that wait for the semaphore, and behind them the ones in the
\* queue, stand in the order of their numbers.
LineInv ==
    /\ \A j, k \in DOMAIN waiting : j < k => waiting[j] < waiting[k]
    /\ \A j, k \in DOMAIN queue : j < k => queue[j] < queue[k]
    /\ \A j \in DOMAIN waiting, k \in DOMAIN queue : waiting[j] < queue[k]

\* A task has a status once it is enqueued, and is PENDING while it stands in
\* the line.
StatusInv ==
    /\ \A t \in Tasks : status[t] = "none" <=> t > enqueued
    /\ \A t \in Tasks : status[t] = "pending" <=> InSeq(t, queue) \/ InSeq(t, waiting)

IndInv == BWTypeOK /\ LineInv /\ StatusInv /\ ConcurrencyBound /\ StartsInOrder

-----------------------------------------------------------------------------
\* The head and the tail of a sequence.
LEMMA TailFacts ==
    ASSUME NEW S, NEW s \in Seq(S), s # <<>>
    PROVE  /\ Len(s) \in Nat \ {0} /\ Head(s) = s[1] /\ s[1] \in S
           /\ Tail(s) \in Seq(S) /\ Len(Tail(s)) = Len(s) - 1
           /\ DOMAIN s = 1 .. Len(s) /\ DOMAIN Tail(s) = 1 .. Len(s) - 1
           /\ \A j \in 1 .. Len(s) - 1 : Tail(s)[j] = s[j + 1]
  OBVIOUS

\* A sequence and one element more.
LEMMA AppendFacts ==
    ASSUME NEW S, NEW s \in Seq(S), NEW e \in S
    PROVE  /\ Append(s, e) \in Seq(S) /\ Len(s) \in Nat
           /\ DOMAIN s = 1 .. Len(s) /\ DOMAIN Append(s, e) = 1 .. Len(s) + 1
           /\ Append(s, e)[Len(s) + 1] = e
           /\ \A j \in 1 .. Len(s) : Append(s, e)[j] = s[j]
  OBVIOUS

\* What stands in a sequence after its head is taken or an element is added.
LEMMA InSeqFacts ==
    ASSUME NEW S, NEW s \in Seq(S), NEW t
    PROVE  /\ s # <<>> => (InSeq(t, s) <=> t = Head(s) \/ InSeq(t, Tail(s)))
           /\ \A e \in S : InSeq(t, Append(s, e)) <=> t = e \/ InSeq(t, s)
           /\ ~InSeq(t, <<>>)
<1>1. ASSUME s # <<>> PROVE InSeq(t, s) <=> t = Head(s) \/ InSeq(t, Tail(s))
  <2>1. /\ Len(s) \in Nat \ {0} /\ Head(s) = s[1] /\ DOMAIN s = 1 .. Len(s)
        /\ DOMAIN Tail(s) = 1 .. Len(s) - 1 /\ \A j \in 1 .. Len(s) - 1 : Tail(s)[j] = s[j + 1]
    BY <1>1, TailFacts
  <2>2. ASSUME NEW k \in DOMAIN s, s[k] = t PROVE t = Head(s) \/ InSeq(t, Tail(s))
    <3>1. CASE k = 1
      BY <2>1, <2>2, <3>1
    <3>2. CASE k # 1
      <4>1. k - 1 \in DOMAIN Tail(s) /\ Tail(s)[k - 1] = t
        BY <2>1, <2>2, <3>2
      <4> QED
        BY <4>1 DEF InSeq
    <3> QED
      BY <3>1, <3>2
  <2>3. ASSUME NEW k \in DOMAIN Tail(s), Tail(s)[k] = t PROVE InSeq(t, s)
    <3>1. k + 1 \in DOMAIN s /\ s[k + 1] = t
      BY <2>1, <2>3
    <3> QED
      BY <3>1 DEF InSeq
  <2>4. 1 \in DOMAIN s
    BY <2>1
  <2> QED
    BY <2>1, <2>2, <2>3, <2>4 DEF InSeq
<1>2. ASSUME NEW e \in S PROVE InSeq(t, Append(s, e)) <=> t = e \/ InSeq(t, s)
  <2>1. /\ Len(s) \in Nat /\ DOMAIN s = 1 .. Len(s) /\ DOMAIN Append(s, e) = 1 .. Len(s) + 1
        /\ Append(s, e)[Len(s) + 1] = e /\ \A j \in 1 .. Len(s) : Append(s, e)[j] = s[j]
    BY AppendFacts
  <2>2. ASSUME NEW k \in 1 .. Len(s) + 1 PROVE k = Len(s) + 1 \/ k \in 1 .. Len(s)
    BY <2>1
  <2>3. Len(s) + 1 \in 1 .. Len(s) + 1 /\ 1 .. Len(s) \subseteq 1 .. Len(s) + 1
    BY <2>1
  <2> QED
    BY <2>1, <2>2, <2>3 DEF InSeq
<1>3. ~InSeq(t, <<>>)
  BY DEF InSeq
<1> QED
  BY <1>1, <1>2, <1>3

\* There are finitely many tasks, so any set of them can be counted.
LEMMA HoldersFinite ==
    ASSUME BWTypeOK
    PROVE  IsFiniteSet(holders) /\ Cardinality(holders) \in Nat
<1>1. IsFiniteSet(Tasks)
  BY FS_Interval, WorkerAssumption DEF Tasks
<1> QED
  BY <1>1, FS_Subset, FS_CardinalityType DEF BWTypeOK

\* Nothing is enqueued and the worker is not started.
LEMMA InitInv == BWInit => IndInv
<1> SUFFICES ASSUME BWInit PROVE IndInv
  OBVIOUS
<1>1. BWTypeOK
  <2>1. enqueued \in 0 .. MaxTasks /\ queue \in Seq(Tasks) /\ waiting \in Seq(Tasks)
    BY WorkerAssumption DEF BWInit
  <2>2. status \in [Tasks -> TaskStatus \cup {"none"}] /\ holders \in SUBSET Tasks
    BY DEF BWInit
  <2>3. hasError \in [Tasks -> BOOLEAN] /\ running \in BOOLEAN
    BY DEF BWInit
  <2> QED
    BY <2>1, <2>2, <2>3 DEF BWTypeOK
<1>2. LineInv /\ StatusInv /\ StartsInOrder
  BY WorkerAssumption DEF BWInit, LineInv, StatusInv, StartsInOrder, InSeq, Tasks
<1>3. ConcurrencyBound
  BY FS_EmptySet, WorkerAssumption DEF BWInit, ConcurrencyBound
<1> QED
  BY <1>1, <1>2, <1>3 DEF IndInv

-----------------------------------------------------------------------------
\* A new task joins the end of the line.
LEMMA EnqueueStep == ASSUME IndInv, Enqueue PROVE IndInv'
<1> DEFINE n == enqueued + 1
<1>1. /\ enqueued < MaxTasks /\ enqueued' = n /\ status' = [status EXCEPT ![n] = "pending"]
      /\ queue' = Append(queue, n) /\ UNCHANGED <<hasError, waiting, holders, running>>
  BY DEF Enqueue, SetStatus
<1>2. enqueued \in Nat /\ n \in Tasks /\ n \in 0 .. MaxTasks /\ \A t \in Tasks : t \in Nat
  BY <1>1, WorkerAssumption DEF IndInv, BWTypeOK, Tasks
<1>3. status \in [Tasks -> TaskStatus \cup {"none"}] /\ queue \in Seq(Tasks) /\ waiting \in Seq(Tasks)
  BY DEF IndInv, BWTypeOK
<1>4. status[n] = "none" /\ status'[n] = "pending" /\ \A t \in Tasks \ {n} : status'[t] = status[t]
  BY <1>1, <1>2, <1>3 DEF IndInv, StatusInv
<1>5. \A t \in Tasks : InSeq(t, queue) \/ InSeq(t, waiting) => t < n
  BY <1>2 DEF IndInv, StatusInv
<1> HIDE DEF n
<1>6. BWTypeOK'
  BY <1>1, <1>2, <1>3, AppendFacts DEF IndInv, BWTypeOK, TaskStatus
<1>7. LineInv'
  <2>1. /\ Len(queue) \in Nat /\ DOMAIN queue = 1 .. Len(queue) /\ DOMAIN queue' = 1 .. Len(queue) + 1
        /\ queue'[Len(queue) + 1] = n /\ \A j \in 1 .. Len(queue) : queue'[j] = queue[j] /\ queue[j] \in Tasks
    BY <1>1, <1>2, <1>3, AppendFacts
  <2>2. \A j \in DOMAIN queue : queue[j] < n
    BY <1>5, <2>1 DEF InSeq
  <2>3. \A j \in DOMAIN waiting : waiting[j] < n
    <3>1. \A j \in DOMAIN waiting : waiting[j] \in Tasks
      BY <1>3
    <3> QED
      BY <1>5, <3>1 DEF InSeq
  <2> QED
    BY <1>1, <2>1, <2>2, <2>3 DEF IndInv, LineInv
<1>8. StatusInv'
  <2>1. \A t \in Tasks : InSeq(t, queue)' <=> t = n \/ InSeq(t, queue)
    BY <1>1, <1>2, <1>3, InSeqFacts DEF InSeq
  <2>2. \A t \in Tasks : InSeq(t, waiting)' <=> InSeq(t, waiting)
    BY <1>1 DEF InSeq
  <2>3. \A t \in Tasks : t > enqueued' <=> t > enqueued /\ t # n
    BY <1>1, <1>2 DEF n
  <2> QED
    BY <1>2, <1>4, <2>1, <2>2, <2>3 DEF IndInv, StatusInv
<1>9. ConcurrencyBound'
  BY <1>1, <1>4 DEF IndInv, BWTypeOK, ConcurrencyBound
<1>10. StartsInOrder'
  <2>1. \A u \in Tasks : status[u] # "none" => u < n
    BY <1>2 DEF IndInv, StatusInv, n
  <2> QED
    BY <1>2, <1>4, <2>1 DEF IndInv, StartsInOrder
<1> QED
  BY <1>6, <1>7, <1>8, <1>9, <1>10 DEF IndInv

\* Nobody stands both in the queue and before the semaphore.
LEMMA InOneLine ==
    ASSUME IndInv, NEW t \in Tasks, InSeq(t, queue)
    PROVE  ~InSeq(t, waiting)
<1>1. t \in Nat
  BY WorkerAssumption DEF Tasks
<1> QED
  BY <1>1 DEF InSeq, IndInv, LineInv

\* stop() cancels what is still in the queue and nothing else.
LEMMA StopInv == ASSUME IndInv, Stop PROVE IndInv'
<1>1. /\ status' = [t \in Tasks |-> IF InSeq(t, queue) THEN "cancelled" ELSE status[t]]
      /\ queue' = <<>> /\ running' = FALSE /\ UNCHANGED <<enqueued, hasError, waiting, holders>>
  BY DEF Stop, Drain
<1>2. BWTypeOK'
  <2>1. status' \in [Tasks -> TaskStatus \cup {"none"}]
    BY <1>1 DEF IndInv, BWTypeOK, TaskStatus, Final
  <2>2. queue' \in Seq(Tasks)
    BY <1>1
  <2>3. running' \in BOOLEAN
    BY <1>1
  <2> QED
    BY <1>1, <2>1, <2>2, <2>3 DEF IndInv, BWTypeOK
<1>3. LineInv'
  BY <1>1 DEF IndInv, LineInv
<1>4. StatusInv'
  <2>1. \A t \in Tasks : (InSeq(t, waiting)' <=> InSeq(t, waiting)) /\ ~InSeq(t, queue)'
    BY <1>1 DEF InSeq
  <2> QED
    BY <1>1, <2>1, InOneLine DEF IndInv, StatusInv
<1>5. \A t \in Tasks : status[t] \in {"running", "completed", "failed"} <=> status'[t] \in {"running", "completed", "failed"}
  BY <1>1 DEF IndInv, StatusInv
<1>6. ConcurrencyBound' /\ StartsInOrder'
  BY <1>1, <1>5 DEF IndInv, BWTypeOK, ConcurrencyBound, StartsInOrder
<1> QED
  BY <1>2, <1>3, <1>4, <1>6 DEF IndInv

\* The loop hands the first task of the queue to the semaphore.
LEMMA TakeStep == ASSUME IndInv, Take PROVE IndInv'
<1>1. /\ queue # <<>> /\ queue' = Tail(queue) /\ waiting' = Append(waiting, Head(queue))
      /\ UNCHANGED <<enqueued, status, hasError, holders, running>>
  BY DEF Take, taskVars
<1>2. queue \in Seq(Tasks) /\ waiting \in Seq(Tasks) /\ \A t \in Tasks : t \in Nat
  BY WorkerAssumption DEF IndInv, BWTypeOK, Tasks
<1>3. /\ Len(queue) \in Nat \ {0} /\ Head(queue) = queue[1] /\ queue[1] \in Tasks /\ Tail(queue) \in Seq(Tasks)
      /\ DOMAIN queue = 1 .. Len(queue) /\ DOMAIN Tail(queue) = 1 .. Len(queue) - 1
      /\ \A j \in 1 .. Len(queue) - 1 : Tail(queue)[j] = queue[j + 1]
  BY <1>1, <1>2, TailFacts
<1>4. /\ waiting' \in Seq(Tasks) /\ Len(waiting) \in Nat
      /\ DOMAIN waiting = 1 .. Len(waiting) /\ DOMAIN waiting' = 1 .. Len(waiting) + 1
      /\ waiting'[Len(waiting) + 1] = queue[1] /\ \A j \in 1 .. Len(waiting) : waiting'[j] = waiting[j]
  BY <1>1, <1>2, <1>3, AppendFacts
<1>5. BWTypeOK'
  BY <1>1, <1>3, <1>4 DEF IndInv, BWTypeOK
<1>6. LineInv'
  <2>1. \A j, k \in DOMAIN waiting' : j < k => waiting'[j] < waiting'[k]
    BY <1>3, <1>4 DEF IndInv, LineInv
  <2>2. \A j, k \in DOMAIN queue' : j < k => queue'[j] < queue'[k]
    BY <1>1, <1>3 DEF IndInv, LineInv
  <2>3. \A j \in DOMAIN waiting', k \in DOMAIN queue' : waiting'[j] < queue'[k]
    <3> SUFFICES ASSUME NEW j \in DOMAIN waiting', NEW k \in DOMAIN queue'
                 PROVE  waiting'[j] < queue'[k]
      OBVIOUS
    <3>1. k + 1 \in DOMAIN queue /\ 1 \in DOMAIN queue /\ 1 < k + 1 /\ queue'[k] = queue[k + 1]
      BY <1>1, <1>3
    <3>2. CASE j = Len(waiting) + 1
      BY <1>4, <3>1, <3>2 DEF IndInv, LineInv
    <3>3. CASE j \in DOMAIN waiting
      BY <1>4, <3>1, <3>3 DEF IndInv, LineInv
    <3> QED
      BY <1>4, <3>2, <3>3
  <2> QED
    BY <2>1, <2>2, <2>3 DEF LineInv
<1>7. StatusInv'
  <2>1. \A t \in Tasks : InSeq(t, queue)' \/ InSeq(t, waiting)' <=> InSeq(t, queue) \/ InSeq(t, waiting)
    <3> TAKE t \in Tasks
    <3>1. InSeq(t, queue) <=> t = Head(queue) \/ InSeq(t, Tail(queue))
      BY <1>1, <1>2, InSeqFacts
    <3>2. InSeq(t, Append(waiting, Head(queue))) <=> t = Head(queue) \/ InSeq(t, waiting)
      BY <1>2, <1>3, InSeqFacts
    <3>3. InSeq(t, queue)' = InSeq(t, Tail(queue)) /\ InSeq(t, waiting)' = InSeq(t, Append(waiting, Head(queue)))
      BY <1>1 DEF InSeq
    <3> QED
      BY <3>1, <3>2, <3>3
  <2> QED
    BY <1>1, <2>1 DEF IndInv, StatusInv
<1>8. ConcurrencyBound' /\ StartsInOrder'
  BY <1>1 DEF IndInv, ConcurrencyBound, StartsInOrder
<1> QED
  BY <1>5, <1>6, <1>7, <1>8 DEF IndInv

\* The first of the line gets a place that is free.
LEMMA AcquireStep == ASSUME IndInv, Acquire PROVE IndInv'
<1> DEFINE h == Head(waiting)
<1>1. /\ waiting # <<>> /\ Cardinality(holders) < MaxConcurrent /\ waiting' = Tail(waiting)
      /\ holders' = holders \cup {h} /\ status' = [status EXCEPT ![h] = "running"]
      /\ UNCHANGED <<enqueued, hasError, queue, running>>
  BY DEF Acquire, Free, SetStatus
<1>2. queue \in Seq(Tasks) /\ waiting \in Seq(Tasks) /\ \A t \in Tasks : t \in Nat
  BY WorkerAssumption DEF IndInv, BWTypeOK, Tasks
<1>3. /\ Len(waiting) \in Nat \ {0} /\ h = waiting[1] /\ h \in Tasks /\ Tail(waiting) \in Seq(Tasks)
      /\ DOMAIN waiting = 1 .. Len(waiting) /\ DOMAIN Tail(waiting) = 1 .. Len(waiting) - 1
      /\ \A j \in 1 .. Len(waiting) - 1 : Tail(waiting)[j] = waiting[j + 1]
  BY <1>1, <1>2, TailFacts
<1>4. InSeq(h, waiting)
  BY <1>3 DEF InSeq
<1>5. status[h] = "pending" /\ status'[h] = "running" /\ \A t \in Tasks \ {h} : status'[t] = status[t]
  BY <1>1, <1>3, <1>4 DEF IndInv, BWTypeOK, StatusInv
<1>6. \A t \in Tasks : InSeq(t, waiting) => t = h \/ h < t
  BY <1>3 DEF InSeq, IndInv, LineInv
<1>7. \A t \in Tasks : InSeq(t, queue) => h < t
  <2>1. 1 \in DOMAIN waiting
    BY <1>3
  <2> QED
    BY <1>3, <2>1 DEF InSeq, IndInv, LineInv
<1>8. ~InSeq(h, Tail(waiting)) /\ ~InSeq(h, queue)
  <2>1. ASSUME NEW k \in DOMAIN Tail(waiting) PROVE h # Tail(waiting)[k]
    <3>1. 1 \in DOMAIN waiting /\ k + 1 \in DOMAIN waiting /\ 1 < k + 1 /\ Tail(waiting)[k] = waiting[k + 1]
      BY <1>3
    <3>2. h < waiting[k + 1]
      BY <1>3, <3>1 DEF IndInv, LineInv
    <3> QED
      BY <1>2, <1>3, <3>1, <3>2
  <2> QED
    BY <1>2, <1>3, <1>7, <2>1 DEF InSeq
<1>9. h \notin holders
  BY <1>5 DEF IndInv, ConcurrencyBound
<1> HIDE DEF h
<1>10. BWTypeOK'
  BY <1>1, <1>3 DEF IndInv, BWTypeOK, TaskStatus
<1>11. LineInv'
  <2>1. \A j, k \in DOMAIN waiting' : j < k => waiting'[j] < waiting'[k]
    BY <1>1, <1>3 DEF IndInv, LineInv
  <2>2. \A j \in DOMAIN waiting', k \in DOMAIN queue' : waiting'[j] < queue'[k]
    BY <1>1, <1>3 DEF IndInv, LineInv
  <2> QED
    BY <1>1, <2>1, <2>2 DEF IndInv, LineInv
<1>12. StatusInv'
  <2>1. \A t \in Tasks : InSeq(t, waiting) <=> t = h \/ InSeq(t, Tail(waiting))
    BY <1>1, <1>2, InSeqFacts DEF h
  <2>2. \A t \in Tasks : InSeq(t, queue)' = InSeq(t, queue) /\ InSeq(t, waiting)' = InSeq(t, Tail(waiting))
    BY <1>1 DEF InSeq
  <2>3. \A t \in Tasks : status'[t] = "pending" <=> status[t] = "pending" /\ t # h
    BY <1>3, <1>5
  <2>4. \A t \in Tasks : status'[t] = "pending" <=> InSeq(t, queue)' \/ InSeq(t, waiting)'
    BY <1>8, <2>1, <2>2, <2>3 DEF IndInv, StatusInv
  <2>5. \A t \in Tasks : status'[t] = "none" <=> status[t] = "none"
    BY <1>3, <1>5
  <2> QED
    BY <1>1, <2>4, <2>5 DEF IndInv, StatusInv
<1>13. ConcurrencyBound'
  <2>1. Cardinality(holders') = Cardinality(holders) + 1 /\ Cardinality(holders) \in Nat
    BY <1>1, <1>9, HoldersFinite, FS_AddElement DEF IndInv
  <2>2. Cardinality(holders') <= MaxConcurrent
    BY <1>1, <2>1, WorkerAssumption
  <2>3. \A t \in holders' : status'[t] \in {"running", "completed", "failed"}
    BY <1>1, <1>5 DEF IndInv, BWTypeOK, ConcurrencyBound
  <2> QED
    BY <2>2, <2>3 DEF ConcurrencyBound
<1>14. StartsInOrder'
  <2>1. \A t \in Tasks : status[t] = "pending" => t = h \/ h < t
    BY <1>6, <1>7 DEF IndInv, StatusInv
  <2> QED
    BY <1>2, <1>3, <1>5, <2>1 DEF IndInv, StartsInOrder
<1> QED
  BY <1>10, <1>11, <1>12, <1>13, <1>14 DEF IndInv

\* A task that runs ends, or gives its place back; the line stays as it is.
LEMMA ExecuteStep ==
    ASSUME IndInv, NEW t \in Tasks, Execute(t)
    PROVE  IndInv'
<1>1. /\ t \in holders /\ UNCHANGED <<enqueued, queue, waiting, running>>
      /\ \/ /\ status[t] = "running" /\ holders' = holders
            /\ \E s \in {"completed", "failed"} : status' = [status EXCEPT ![t] = s]
         \/ status' = status /\ holders' = holders \ {t}
  BY DEF Execute, Completes, Raises, Aborts, Release, SetStatus, taskVars
<1>2. \/ hasError' = hasError
      \/ hasError' = [hasError EXCEPT ![t] = TRUE]
  BY DEF Execute, Completes, Raises, Aborts, Release, taskVars
<1>3. \A u \in Tasks : \/ status'[u] = status[u]
                       \/ status[u] = "running" /\ status'[u] \in {"completed", "failed"}
  BY <1>1 DEF IndInv, BWTypeOK
<1>4. BWTypeOK'
  <2>1. hasError' \in [Tasks -> BOOLEAN]
    BY <1>2 DEF IndInv, BWTypeOK
  <2>2. status' \in [Tasks -> TaskStatus \cup {"none"}]
    BY <1>1 DEF IndInv, BWTypeOK, TaskStatus, Final
  <2> QED
    BY <1>1, <2>1, <2>2 DEF IndInv, BWTypeOK
<1>5. LineInv'
  BY <1>1 DEF IndInv, LineInv
<1>6. StatusInv'
  BY <1>1, <1>3 DEF IndInv, StatusInv, InSeq
<1>7. ConcurrencyBound'
  <2>1. holders' \subseteq holders
    BY <1>1
  <2>2. Cardinality(holders') <= Cardinality(holders) /\ Cardinality(holders') \in Nat
    BY <2>1, HoldersFinite, FS_Subset, FS_CardinalityType DEF IndInv
  <2>3. \A u \in holders' : status'[u] \in {"running", "completed", "failed"}
    BY <1>3, <2>1 DEF IndInv, BWTypeOK, ConcurrencyBound
  <2>4. Cardinality(holders') <= MaxConcurrent
    BY <2>2, HoldersFinite, WorkerAssumption DEF IndInv, ConcurrencyBound
  <2> QED
    BY <2>3, <2>4 DEF ConcurrencyBound
<1>8. StartsInOrder'
  BY <1>3 DEF IndInv, StartsInOrder
<1> QED
  BY <1>4, <1>5, <1>6, <1>7, <1>8 DEF IndInv

\* Every step of the worker, its tasks and its callers keeps the invariant.
LEMMA NextInv == IndInv /\ [BWNext]_bwVars => IndInv'
<1> SUFFICES ASSUME IndInv, [BWNext]_bwVars PROVE IndInv'
  OBVIOUS
<1>1. CASE UNCHANGED bwVars
  BY <1>1 DEF bwVars, taskVars, IndInv, BWTypeOK, LineInv, StatusInv, ConcurrencyBound, StartsInOrder, InSeq
<1>2. CASE Start
  <2>1. running' = TRUE /\ UNCHANGED <<enqueued, status, hasError, queue, waiting, holders>>
    BY <1>2 DEF Start, taskVars
  <2>2. BWTypeOK'
    BY <2>1 DEF IndInv, BWTypeOK
  <2> QED
    BY <2>1, <2>2 DEF IndInv, LineInv, StatusInv, ConcurrencyBound, StartsInOrder, InSeq
<1> QED
  BY <1>1, <1>2, EnqueueStep, StopInv, TakeStep, AcquireStep, ExecuteStep DEF BWNext

\* IndInv is an invariant of the background worker.
THEOREM Invariant == BWSpec => []IndInv
  BY InitInv, NextInv, PTL DEF BWSpec

-----------------------------------------------------------------------------
\* Every variable keeps its type.
THEOREM TypeCorrect == BWSpec => []BWTypeOK
<1>1. IndInv => BWTypeOK
  BY DEF IndInv
<1> QED
  BY <1>1, Invariant, PTL

\* No more than max_concurrent tasks run at a time, whatever the order of
\* enqueue(), start() and stop(), for any number of tasks.
THEOREM ConcurrencyIsBounded == BWSpec => []ConcurrencyBound
<1>1. IndInv => ConcurrencyBound
  BY DEF IndInv
<1> QED
  BY <1>1, Invariant, PTL

\* A PENDING task stands in exactly one place of the queue or before the
\* semaphore, and no other task does: none is lost, run twice, or both run and
\* cancelled.
THEOREM TasksRunOnce == BWSpec => []EachTaskOnce
<1>1. IndInv => EachTaskOnce
  <2> SUFFICES ASSUME IndInv PROVE EachTaskOnce
    OBVIOUS
  <2> DEFINE s == queue \o waiting
  <2>1. /\ queue \in Seq(Tasks) /\ waiting \in Seq(Tasks)
        /\ Len(queue) \in Nat /\ Len(waiting) \in Nat
        /\ DOMAIN queue = 1 .. Len(queue) /\ DOMAIN waiting = 1 .. Len(waiting)
    BY DEF IndInv, BWTypeOK
  <2>2. /\ DOMAIN s = 1 .. Len(queue) + Len(waiting)
        /\ \A j \in 1 .. Len(queue) : s[j] = queue[j]
        /\ \A j \in Len(queue) + 1 .. Len(queue) + Len(waiting) : s[j] = waiting[j - Len(queue)]
    BY <2>1
  <2>3. /\ \A j \in DOMAIN queue : queue[j] \in Nat
        /\ \A j \in DOMAIN waiting : waiting[j] \in Nat
    BY <2>1, WorkerAssumption DEF Tasks
  <2> HIDE DEF s
  <2>4. ASSUME NEW j \in DOMAIN s, NEW k \in DOMAIN s, j < k PROVE s[j] # s[k]
    <3>1. CASE k \in DOMAIN queue
      BY <2>1, <2>2, <2>3, <2>4, <3>1 DEF IndInv, LineInv
    <3>2. CASE j \in DOMAIN queue /\ k \notin DOMAIN queue
      <4>1. k - Len(queue) \in DOMAIN waiting /\ s[k] = waiting[k - Len(queue)] /\ s[j] = queue[j]
        BY <2>1, <2>2, <3>2
      <4> QED
        BY <2>3, <3>2, <4>1 DEF IndInv, LineInv
    <3>3. CASE j \notin DOMAIN queue
      <4>1. /\ j - Len(queue) \in DOMAIN waiting /\ s[j] = waiting[j - Len(queue)]
            /\ k - Len(queue) \in DOMAIN waiting /\ s[k] = waiting[k - Len(queue)]
            /\ j - Len(queue) < k - Len(queue)
        BY <2>1, <2>2, <2>4, <3>3
      <4> QED
        BY <2>3, <4>1 DEF IndInv, LineInv
    <3> QED
      BY <2>1, <2>2, <2>4, <3>1, <3>2, <3>3
  <2>5. \A j, k \in DOMAIN s : j # k => s[j] # s[k]
    BY <2>1, <2>2, <2>4
  <2> QED
    BY <2>5 DEF EachTaskOnce, IndInv, StatusInv, s
<1> QED
  BY <1>1, Invariant, PTL

\* Tasks start in the order in which they were enqueued.
THEOREM TasksStartInOrder == BWSpec => []StartsInOrder
<1>1. IndInv => StartsInOrder
  BY DEF IndInv
<1> QED
  BY <1>1, Invariant, PTL

-----------------------------------------------------------------------------
(* Startup                                                                 *)

\* Only an API process looks for the collection, and it has come past
\* ensure_collection only when there is one.
ApiInv ==
    /\ \A p \in Procs : pc[p] \in {"exists", "create", "index", "closeArq"} => p \in Apis
    /\ \A p \in Procs : pc[p] = "index" => collection
    /\ ReadyHasCollection

\* The loop over the fields starts with the first one, and runs in one process.
IndexInv ==
    /\ \A p \in Procs : pc[p] \in {"connect", "exists", "create"} => field[p] = 1
    /\ \A p \in Procs : pc[p] = "index" => field[p] \in Fields /\ indexes = 1 .. field[p] - 1
    /\ \A p, q \in Procs : pc[p] = "index" /\ pc[q] = "index" => p = q
    /\ ~collection => indexes = {} /\ ~interrupted
    /\ collection /\ ~interrupted /\ (\A p \in Procs : pc[p] # "index") => indexes = Fields

\* Which clients a process may still hold while it shuts down.
OpenInv ==
    \A p \in Procs :
        /\ pc[p] \in {"closeRedis", "closeQdrant"} => "db" \notin open[p]
        /\ pc[p] = "closeQdrant" => "redis" \notin open[p]
        /\ pc[p] \in {"closeArq", "stopped"} => open[p] \subseteq {"unclosed"}

StartupInv == TypeOK /\ ApiInv /\ IndexInv /\ OpenInv

-----------------------------------------------------------------------------
\* No process is up and Qdrant is empty.
LEMMA StartupInit == Init => StartupInv
<1> SUFFICES ASSUME Init PROVE StartupInv
  OBVIOUS
<1>1. /\ collection = FALSE /\ indexes = {} /\ pc = [p \in Procs |-> "down"]
      /\ field = [p \in Procs |-> 1] /\ open = [p \in Procs |-> {}] /\ interrupted = FALSE /\ faults = 0
  BY DEF Init
<1>2. TypeOK
  <2>1. field \in [Procs -> 1 .. NumFields + 1] /\ faults \in 0 .. MaxFaults
    BY <1>1, StartupAssumption
  <2>2. pc \in [Procs -> Pcs] /\ open \in [Procs -> SUBSET Clients] /\ indexes \in SUBSET Fields
    BY <1>1 DEF Pcs
  <2>3. collection \in BOOLEAN /\ interrupted \in BOOLEAN
    BY <1>1
  <2> QED
    BY <2>1, <2>2, <2>3 DEF TypeOK
<1>3. ApiInv
  BY <1>1 DEF ApiInv, ReadyHasCollection, Procs
<1>4. IndexInv /\ OpenInv
  BY <1>1 DEF IndexInv, OpenInv
<1> QED
  BY <1>2, <1>3, <1>4 DEF StartupInv

\* A process p goes on to l and neither comes to nor leaves the loop over the
\* fields; the collection stays as it is.
LEMMA Moves ==
    ASSUME StartupInv, NEW p \in Procs, NEW l \in Pcs, NEW os \in SUBSET Clients,
           pc[p] # "index", l # "index",
           pc' = [pc EXCEPT ![p] = l], open' = [open EXCEPT ![p] = os],
           field' = field \/ field' = [field EXCEPT ![p] = 1],
           UNCHANGED <<collection, indexes, interrupted>>, faults' \in 0 .. MaxFaults,
           l \in {"exists", "create", "closeArq"} => p \in Apis,
           l \in {"connect", "exists", "create"} => field'[p] = 1,
           p \in Apis /\ l \in {"ready", "closeDb", "closeRedis", "closeQdrant"} => collection,
           l \in {"closeRedis", "closeQdrant"} => "db" \notin os,
           l = "closeQdrant" => "redis" \notin os,
           l \in {"closeArq", "stopped"} => os \subseteq {"unclosed"}
    PROVE  StartupInv'
<1>1. NumFields \in Nat \ {0}
  BY StartupAssumption
<1>2. pc \in [Procs -> Pcs] /\ open \in [Procs -> SUBSET Clients] /\ field \in [Procs -> 1 .. NumFields + 1]
  BY DEF StartupInv, TypeOK
<1>3. \A q \in Procs : \/ q # p /\ pc'[q] = pc[q] /\ open'[q] = open[q] /\ field'[q] = field[q]
                       \/ q = p /\ pc'[q] = l /\ open'[q] = os
  BY <1>2
<1>4. TypeOK'
  <2>1. field' \in [Procs -> 1 .. NumFields + 1]
    BY <1>1, <1>2
  <2> QED
    BY <1>2, <2>1 DEF StartupInv, TypeOK
<1>5. ApiInv'
  BY <1>3 DEF StartupInv, ApiInv, ReadyHasCollection, Procs
<1>6. IndexInv'
  <2>1. \A q \in Procs : pc'[q] = "index" <=> pc[q] = "index"
    BY <1>3
  <2>2. \A q \in Procs : pc'[q] = "index" => field'[q] = field[q]
    BY <1>3
  <2>3. \A q \in Procs : pc'[q] \in {"connect", "exists", "create"} => field'[q] = 1
    BY <1>3 DEF StartupInv, IndexInv
  <2> QED
    BY <2>1, <2>2, <2>3 DEF StartupInv, IndexInv, Fields
<1>7. OpenInv'
  BY <1>3 DEF StartupInv, OpenInv
<1> QED
  BY <1>4, <1>5, <1>6, <1>7 DEF StartupInv

\* The steps of a start that do not touch the collection, and of serving and
\* stopping.
LEMMA MoveSteps ==
    ASSUME StartupInv, NEW p \in Procs,
           \/ Boot(p) \/ Connect(p) \/ CollectionExists(p) \/ Shutdown(p)
           \/ CloseDb(p) \/ CloseRedis(p) \/ CloseQdrant(p)
           \/ \E cs \in SUBSET Lazy : Serve(p, cs)
    PROVE  StartupInv'
<1> DEFINE o == open[p]
<1>1. /\ pc \in [Procs -> Pcs] /\ open \in [Procs -> SUBSET Clients] /\ o \in SUBSET Clients
      /\ field \in [Procs -> 1 .. NumFields + 1] /\ faults \in 0 .. MaxFaults
      /\ pc[p] \in {"connect", "exists", "create"} => field[p] = 1
      /\ p \in Apis /\ pc[p] \in {"ready", "closeDb", "closeRedis", "closeQdrant"} => collection
      /\ open = [open EXCEPT ![p] = o] /\ pc = [pc EXCEPT ![p] = pc[p]]
      /\ field = [field EXCEPT ![p] = field[p]]
  BY DEF StartupInv, TypeOK, ApiInv, IndexInv, ReadyHasCollection
<1>2. /\ pc[p] \in {"closeRedis", "closeQdrant"} => "db" \notin o
      /\ pc[p] = "closeQdrant" => "redis" \notin o
  BY DEF StartupInv, OpenInv
<1> USE DEF Goto, qdrantVars
<1>3. CASE Boot(p)
  <2>1. /\ pc[p] = "down" /\ pc' = [pc EXCEPT ![p] = "connect"] /\ open' = [open EXCEPT ![p] = o]
        /\ field' = [field EXCEPT ![p] = 1] /\ field'[p] = 1 /\ faults' = faults
        /\ UNCHANGED <<collection, indexes, interrupted>> /\ "connect" \in Pcs
    BY <1>1, <1>3 DEF Boot, Pcs
  <2> HIDE DEF o
  <2> QED
    BY <1>1, <2>1, Moves
<1>4. CASE Connect(p)
  <2> DEFINE os == o \cup {"db"}
             l == IF p \in Apis THEN "exists" ELSE "ready"
  <2>1. /\ pc[p] = "connect" /\ pc' = [pc EXCEPT ![p] = l] /\ open' = [open EXCEPT ![p] = os]
        /\ UNCHANGED <<collection, indexes, interrupted, field, faults>>
        /\ l \in Pcs /\ os \in SUBSET Clients
    BY <1>1, <1>4 DEF Connect, Opens, Pcs, Clients
  <2>2. l \in {"exists", "ready"} /\ (l = "exists" <=> p \in Apis)
    OBVIOUS
  <2> HIDE DEF o, os, l
  <2> QED
    BY <1>1, <2>1, <2>2, Moves
<1>5. CASE CollectionExists(p)
  <2> DEFINE os == o \cup {"qdrant"}
             l == IF collection THEN "ready" ELSE "create"
  <2>1. /\ pc[p] = "exists" /\ pc' = [pc EXCEPT ![p] = l] /\ open' = [open EXCEPT ![p] = os]
        /\ UNCHANGED <<collection, indexes, interrupted, field, faults>>
        /\ l \in Pcs /\ os \in SUBSET Clients /\ p \in Apis
    BY <1>1, <1>5 DEF CollectionExists, Opens, Pcs, Clients, StartupInv, ApiInv
  <2>2. l \in {"create", "ready"} /\ (l = "ready" => collection)
    OBVIOUS
  <2> HIDE DEF o, os, l
  <2> QED
    BY <1>1, <2>1, <2>2, Moves
<1>6. CASE Shutdown(p)
  <2>1. /\ pc[p] = "ready" /\ pc' = [pc EXCEPT ![p] = "closeDb"] /\ open' = [open EXCEPT ![p] = o]
        /\ UNCHANGED <<collection, indexes, interrupted, field, faults>> /\ "closeDb" \in Pcs
    BY <1>1, <1>6 DEF Shutdown, Pcs
  <2> HIDE DEF o
  <2> QED
    BY <1>1, <2>1, Moves
<1>7. CASE CloseDb(p)
  <2> DEFINE os == o \ {"db"}
  <2>1. /\ pc[p] = "closeDb" /\ pc' = [pc EXCEPT ![p] = "closeRedis"] /\ open' = [open EXCEPT ![p] = os]
        /\ UNCHANGED <<collection, indexes, interrupted, field, faults>> /\ "closeRedis" \in Pcs
        /\ os \in SUBSET Clients /\ "db" \notin os
    BY <1>1, <1>7 DEF CloseDb, Closes, Pcs
  <2> HIDE DEF o, os
  <2> QED
    BY <1>1, <2>1, Moves
<1>8. CASE CloseRedis(p)
  <2> DEFINE os == o \ {"redis"}
  <2>1. /\ pc[p] = "closeRedis" /\ pc' = [pc EXCEPT ![p] = "closeQdrant"] /\ open' = [open EXCEPT ![p] = os]
        /\ UNCHANGED <<collection, indexes, interrupted, field, faults>> /\ "closeQdrant" \in Pcs
        /\ os \in SUBSET Clients /\ "db" \notin os /\ "redis" \notin os
    BY <1>1, <1>2, <1>8 DEF CloseRedis, Closes, Pcs
  <2> HIDE DEF o, os
  <2> QED
    BY <1>1, <2>1, Moves
<1>9. CASE CloseQdrant(p)
  <2> DEFINE os == o \ {"qdrant"}
             l == IF p \in Apis THEN "closeArq" ELSE "stopped"
  <2>1. /\ pc[p] = "closeQdrant" /\ pc' = [pc EXCEPT ![p] = l] /\ open' = [open EXCEPT ![p] = os]
        /\ UNCHANGED <<collection, indexes, interrupted, field, faults>> /\ l \in Pcs
    BY <1>1, <1>9 DEF CloseQdrant, Closes, Pcs
  <2>2. l \in {"closeArq", "stopped"} /\ (l = "closeArq" => p \in Apis)
    OBVIOUS
  <2>3. os \subseteq {"unclosed"} /\ os \in SUBSET Clients
    BY <1>1, <1>2, <2>1 DEF Clients
  <2> HIDE DEF o, os, l
  <2> QED
    BY <1>1, <2>1, <2>2, <2>3, Moves
<1>10. ASSUME NEW cs \in SUBSET Lazy, Serve(p, cs) PROVE StartupInv'
  <2> DEFINE os == o \cup cs
  <2>1. /\ pc[p] = "ready" /\ pc' = [pc EXCEPT ![p] = "ready"] /\ open' = [open EXCEPT ![p] = os]
        /\ UNCHANGED <<collection, indexes, interrupted, field, faults>> /\ "ready" \in Pcs
        /\ os \in SUBSET Clients
    BY <1>1, <1>10 DEF Serve, Opens, Pcs, Clients, Lazy
  <2> HIDE DEF o, os
  <2> QED
    BY <1>1, <2>1, Moves
<1> QED
  BY <1>3, <1>4, <1>5, <1>6, <1>7, <1>8, <1>9, <1>10

\* A process ends: of the loop over the fields only interrupted keeps a trace.
LEMMA EndsInv ==
    ASSUME StartupInv, NEW p \in Procs, Ends(p), UNCHANGED <<qdrantVars, field>>,
           faults' \in 0 .. MaxFaults
    PROVE  StartupInv'
<1>1. pc \in [Procs -> Pcs] /\ open \in [Procs -> SUBSET Clients]
  BY DEF StartupInv, TypeOK
<1>2. /\ pc' = [pc EXCEPT ![p] = "down"] /\ open' = [open EXCEPT ![p] = {}]
      /\ collection' = collection /\ indexes' = indexes /\ field' = field
      /\ interrupted' = (interrupted \/ pc[p] = "index")
  BY DEF Ends, Goto, qdrantVars
<1>3. \A q \in Procs : \/ q # p /\ pc'[q] = pc[q] /\ open'[q] = open[q]
                       \/ q = p /\ pc'[q] = "down" /\ open'[q] = {}
  BY <1>1, <1>2
<1>4. TypeOK'
  <2>1. pc' \in [Procs -> Pcs] /\ open' \in [Procs -> SUBSET Clients]
    BY <1>1, <1>2 DEF Pcs
  <2>2. interrupted' \in BOOLEAN
    BY <1>2
  <2> QED
    BY <1>2, <2>1, <2>2 DEF StartupInv, TypeOK
<1>5. ApiInv'
  BY <1>2, <1>3 DEF StartupInv, ApiInv, ReadyHasCollection, Procs
<1>6. IndexInv'
  <2>1. \A q \in Procs : pc'[q] # "down" => pc'[q] = pc[q] /\ field'[q] = field[q]
    BY <1>2, <1>3
  <2>2. ~collection /\ ~interrupted => ~interrupted'
    BY <1>2 DEF StartupInv, ApiInv
  <2>3. ~interrupted' /\ (\A q \in Procs : pc'[q] # "index") =>
            ~interrupted /\ \A q \in Procs : pc[q] # "index"
    BY <1>2, <1>3
  <2> QED
    BY <1>2, <2>1, <2>2, <2>3 DEF StartupInv, IndexInv, Fields
<1>7. OpenInv'
  BY <1>3 DEF StartupInv, OpenInv
<1> QED
  BY <1>4, <1>5, <1>6, <1>7 DEF StartupInv

\* The process that creates the collection is then alone in the loop, at its
\* first field: nobody can have been in it without a collection.
LEMMA CreateCollectionInv ==
    ASSUME StartupInv, NEW p \in Procs, CreateCollection(p)
    PROVE  StartupInv'
<1>1. NumFields \in Nat \ {0}
  BY StartupAssumption
<1>2. /\ pc \in [Procs -> Pcs] /\ pc[p] = "create" /\ collection = FALSE /\ collection' = TRUE
      /\ pc' = [pc EXCEPT ![p] = "index"]
      /\ UNCHANGED <<indexes, field, open, interrupted, faults>>
  BY DEF CreateCollection, Goto, StartupInv, TypeOK
<1>3. /\ \A q \in Procs : q # p => pc'[q] = pc[q]
      /\ pc'[p] = "index"
  BY <1>2
<1>4. p \in Apis /\ field[p] = 1 /\ indexes = {} /\ interrupted = FALSE
      /\ \A q \in Procs : pc[q] # "index"
  BY <1>2 DEF StartupInv, TypeOK, ApiInv, IndexInv
<1>5. TypeOK'
  <2>1. pc' \in [Procs -> Pcs]
    BY <1>2 DEF Pcs
  <2>2. collection' \in BOOLEAN
    BY <1>2
  <2> QED
    BY <1>2, <2>1, <2>2 DEF StartupInv, TypeOK
<1>6. ApiInv'
  BY <1>2, <1>3, <1>4 DEF StartupInv, ApiInv, ReadyHasCollection, Procs
<1>7. IndexInv'
  <2>1. \A q \in Procs : pc'[q] = "index" <=> q = p
    BY <1>3, <1>4
  <2>2. field'[p] \in Fields /\ indexes' = 1 .. field'[p] - 1
    BY <1>1, <1>2, <1>4 DEF Fields
  <2>3. \A q \in Procs : pc'[q] \in {"connect", "exists", "create"} => field'[q] = 1
    BY <1>2, <1>3 DEF StartupInv, IndexInv
  <2> QED
    BY <1>2, <2>1, <2>2, <2>3 DEF IndexInv
<1>8. OpenInv'
  BY <1>2, <1>3 DEF StartupInv, OpenInv
<1> QED
  BY <1>5, <1>6, <1>7, <1>8 DEF StartupInv

\* One pass of the loop: the fields up to this one are indexed; after the last
\* pass they are all the fields.
LEMMA CreateIndexInv ==
    ASSUME StartupInv, NEW p \in Procs, CreateIndex(p)
    PROVE  StartupInv'
<1> DEFINE l == IF field[p] < NumFields THEN "index" ELSE "ready"
           f == field[p]
<1>1. NumFields \in Nat \ {0}
  BY StartupAssumption
<1>2. /\ pc \in [Procs -> Pcs] /\ field \in [Procs -> 1 .. NumFields + 1]
      /\ pc[p] = "index" /\ pc' = [pc EXCEPT ![p] = l]
      /\ indexes' = indexes \cup {f} /\ field' = [field EXCEPT ![p] = f + 1]
      /\ UNCHANGED <<collection, open, interrupted, faults>>
  BY DEF CreateIndex, Goto, StartupInv, TypeOK
<1>3. f \in 1 .. NumFields /\ indexes = 1 .. f - 1 /\ collection /\ p \in Apis
  BY <1>2 DEF StartupInv, IndexInv, ApiInv, Fields
<1>4. /\ \A q \in Procs : q # p => pc'[q] = pc[q] /\ field'[q] = field[q] /\ pc[q] # "index"
      /\ pc'[p] = l /\ field'[p] = f + 1
  BY <1>2 DEF StartupInv, IndexInv
<1>5. indexes' = 1 .. f /\ 1 .. f = 1 .. (f + 1) - 1
  BY <1>1, <1>2, <1>3
<1>6. /\ l = "index" => f + 1 \in Fields
      /\ l = "ready" => 1 .. f = Fields
      /\ f + 1 \in 1 .. NumFields + 1
      /\ 1 .. f \subseteq Fields
      /\ l \in {"index", "ready"}
  BY <1>1, <1>3 DEF Fields
<1> HIDE DEF l, f
<1>7. TypeOK'
  <2>1. pc' \in [Procs -> Pcs]
    BY <1>2, <1>6 DEF Pcs
  <2>2. field' \in [Procs -> 1 .. NumFields + 1]
    BY <1>2, <1>6
  <2>3. indexes' \in SUBSET Fields
    BY <1>5, <1>6
  <2> QED
    BY <1>2, <2>1, <2>2, <2>3 DEF StartupInv, TypeOK
<1>8. ApiInv'
  BY <1>2, <1>3, <1>4, <1>6 DEF StartupInv, ApiInv, ReadyHasCollection, Procs
<1>9. IndexInv'
  <2>1. \A q \in Procs : pc'[q] = "index" => q = p /\ l = "index"
    BY <1>4
  <2>2. l = "index" => field'[p] \in Fields /\ indexes' = 1 .. field'[p] - 1
    BY <1>4, <1>5, <1>6
  <2>3. \A q \in Procs : pc'[q] \in {"connect", "exists", "create"} => field'[q] = 1
    BY <1>4, <1>6 DEF StartupInv, IndexInv
  <2>4. (\A q \in Procs : pc'[q] # "index") => indexes' = Fields
    BY <1>4, <1>5, <1>6
  <2>5. collection'
    BY <1>2, <1>3
  <2> QED
    BY <2>1, <2>2, <2>3, <2>4, <2>5 DEF IndexInv, Fields
<1>10. OpenInv'
  BY <1>2, <1>4, <1>6 DEF StartupInv, OpenInv
<1> QED
  BY <1>7, <1>8, <1>9, <1>10 DEF StartupInv

\* Every step preserves the invariant.
LEMMA StartupNext == StartupInv /\ [Next]_vars => StartupInv'
<1> SUFFICES ASSUME StartupInv, [Next]_vars PROVE StartupInv'
  OBVIOUS
<1>1. CASE UNCHANGED vars
  BY <1>1 DEF vars, qdrantVars, StartupInv, TypeOK, ApiInv, ReadyHasCollection, IndexInv, OpenInv
<1>2. ASSUME NEW p \in Procs,
             \/ StartStep(p) \/ StopStep(p) \/ Shutdown(p) \/ Crash(p)
             \/ \E cs \in SUBSET Lazy : Serve(p, cs)
      PROVE  StartupInv'
  <2>1. faults \in 0 .. MaxFaults /\ MaxFaults \in Nat
    BY StartupAssumption DEF StartupInv, TypeOK
  <2>2. CASE CreateConflict(p) \/ CloseArq(p) \/ Exit(p)
    BY <2>1, <2>2, EndsInv DEF CreateConflict, CloseArq, Exit, qdrantVars
  <2>3. CASE Crash(p)
    <3>1. faults' \in 0 .. MaxFaults
      BY <2>1, <2>3 DEF Crash
    <3> QED
      BY <2>3, <3>1, EndsInv DEF Crash
  <2>4. CASE CreateCollection(p)
    BY <2>4, CreateCollectionInv
  <2>5. CASE CreateIndex(p)
    BY <2>5, CreateIndexInv
  <2> QED
    BY <1>2, <2>2, <2>3, <2>4, <2>5, MoveSteps DEF StartStep, StopStep
<1> QED
  BY <1>1, <1>2 DEF Next

\* The inductive invariant holds throughout the life of the processes.
LEMMA StartupInvariant == Spec => []StartupInv
BY StartupInit, StartupNext, PTL DEF Spec

\* Whatever starts, stops and crashes, every variable keeps its type.
THEOREM StartupTypeCorrect == Spec => []TypeOK
<1>1. StartupInv => TypeOK
  BY DEF StartupInv
<1> QED
  BY <1>1, StartupInvariant, PTL

\* An API process serves only with a collection.
THEOREM ServesWithCollection == Spec => []ReadyHasCollection
<1>1. StartupInv => ReadyHasCollection
  BY DEF StartupInv, ApiInv
<1> QED
  BY <1>1, StartupInvariant, PTL

\* One process creates the indexes, and all of them unless it is interrupted.
THEOREM IndexesComplete == Spec => []IndexedUnlessInterrupted
<1>1. StartupInv => IndexedUnlessInterrupted
  <2> SUFFICES ASSUME StartupInv PROVE IndexedUnlessInterrupted
    OBVIOUS
  <2>1. \A p, q \in Indexing : p = q
    BY DEF StartupInv, IndexInv, Indexing
  <2>2. \A p \in Indexing : indexes = 1 .. field[p] - 1
    BY DEF StartupInv, IndexInv, Indexing
  <2>3. collection /\ Indexing = {} /\ ~interrupted => indexes = Fields
    BY DEF StartupInv, IndexInv, Indexing
  <2> QED
    BY <2>1, <2>2, <2>3 DEF IndexedUnlessInterrupted
<1> QED
  BY <1>1, StartupInvariant, PTL

\* At its last step a shutdown has closed all but the OpenAI clients and the
\* ARQ pools.
THEOREM ShutdownCloses == Spec => []OnlyUnclosedLeft
<1>1. StartupInv => OnlyUnclosedLeft
  BY DEF StartupInv, OpenInv, OnlyUnclosedLeft
<1> QED
  BY <1>1, StartupInvariant, PTL
=============================================================================
