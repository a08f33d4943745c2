-------------------------- MODULE BackgroundWorker --------------------------
(***************************************************************************)
(* The in-process task queue: enqueue, start, stop, the worker loop and    *)
(* _execute, which runs each task under a semaphore.  All of it shares one *)
(* event loop; a step ends where the code may be suspended.                *)
(*                                                                         *)
(* enqueue draws a fresh id, so tasks are numbered in the order in which   *)
(* they are enqueued.                                                      *)
(***************************************************************************)
EXTENDS Naturals, Sequences, FiniteSets

CONSTANTS
    MaxTasks,       \* bound on the tasks enqueued, for model checking
    MaxConcurrent   \* max_concurrent

ASSUME WorkerAssumption ==
    /\ MaxTasks \in Nat
    /\ MaxConcurrent \in Nat \ {0}

Tasks == 1 .. MaxTasks

VARIABLES
    enqueued,   \* how many tasks have been enqueued
    status,     \* _tasks[id]["status"]; "none" before enqueue
    hasError,   \*   and whether ["error"] is set
    queue,      \* _queue
    waiting,    \* tasks whose _execute waits for the semaphore, in its order
    holders,    \* tasks inside `async with self._semaphore'
    running     \* _running

taskVars == <<status, hasError>>
bwVars == <<enqueued, taskVars, queue, waiting, holders, running>>

Final == {"completed", "failed", "cancelled"}
TaskStatus == {"pending", "running"} \cup Final

InSeq(t, s) == \E k \in DOMAIN s : s[k] = t

BWInit ==
    /\ enqueued = 0
    /\ status = [t \in Tasks |-> "none"]
    /\ hasError = [t \in Tasks |-> FALSE]
    /\ queue = <<>>
    /\ waiting = <<>>
    /\ holders = {}
    /\ running = FALSE

-----------------------------------------------------------------------------
SetStatus(t, s) == status' = [status EXCEPT ![t] = s]

\* The queue is unbounded, so put() does not wait; nothing asks whether the
\* worker runs.
Enqueue ==
    /\ enqueued < MaxTasks
    /\ enqueued' = enqueued + 1
    /\ SetStatus(enqueued + 1, "pending")
    /\ queue' = Append(queue, enqueued + 1)
    /\ UNCHANGED <<hasError, waiting, holders, running>>

\* start() does nothing while _running is set; otherwise it makes a loop.
Start ==
    /\ ~running
    /\ running' = TRUE
    /\ UNCHANGED <<enqueued, taskVars, queue, waiting, holders>>

\* Mutant of Drain: the queue is left as it is.
DrainKeepsQueue ==
    /\ status' = [t \in Tasks |-> IF InSeq(t, queue) THEN "cancelled" ELSE status[t]]
    /\ UNCHANGED queue

\* The tasks in the queue are marked CANCELLED and their coroutines closed.
Drain ==
    /\ status' = [t \in Tasks |-> IF InSeq(t, queue) THEN "cancelled" ELSE status[t]]
    /\ queue' = <<>>

\* stop() empties the queue and cancels the loop, all before its first await.
\* The loop is suspended at its get(), where the CancelledError ends it, so
\* there is a loop that takes tasks exactly while _running is set.  What
\* follows the await counts and logs; a task that was taken goes on.
Stop ==
    /\ running \/ queue # <<>>
    /\ running' = FALSE
    /\ Drain
    /\ UNCHANGED <<enqueued, hasError, waiting, holders>>

\* Mutant of Take: the newest task first.
TakeNewest ==
    /\ running /\ queue # <<>>
    /\ waiting' = Append(waiting, queue[Len(queue)])
    /\ queue' = SubSeq(queue, 1, Len(queue) - 1)
    /\ UNCHANGED <<enqueued, taskVars, holders, running>>

\* The loop gets a task and creates the asyncio task that executes it; a
\* time-out of the get only repeats the loop.
Take ==
    /\ running
    /\ queue # <<>>
    /\ queue' = Tail(queue)
    /\ waiting' = Append(waiting, Head(queue))
    /\ UNCHANGED <<enqueued, taskVars, holders, running>>

-----------------------------------------------------------------------------
(* _execute                                                                *)

\* Mutant of Free: one task too many.
FreeOneMore == Cardinality(holders) <= MaxConcurrent

Free == Cardinality(holders) < MaxConcurrent

\* The semaphore wakes its waiters in order.
Acquire ==
    /\ waiting # <<>>
    /\ Free
    /\ waiting' = Tail(waiting)
    /\ holders' = holders \cup {Head(waiting)}
    /\ SetStatus(Head(waiting), "running")
    /\ UNCHANGED <<enqueued, hasError, queue, running>>

\* The coroutine returns.
Completes(t) ==
    /\ t \in holders /\ status[t] = "running"
    /\ SetStatus(t, "completed")
    /\ UNCHANGED <<enqueued, hasError, queue, waiting, holders, running>>

\* Mutant of Raises: the status is not one of TaskStatus.
RaisesError(t) ==
    /\ t \in holders /\ status[t] = "running"
    /\ SetStatus(t, "error")
    /\ hasError' = [hasError EXCEPT ![t] = TRUE]
    /\ UNCHANGED <<enqueued, queue, waiting, holders, running>>

\* The coroutine raises an Exception.
Raises(t) ==
    /\ t \in holders /\ status[t] = "running"
    /\ SetStatus(t, "failed")
    /\ hasError' = [hasError EXCEPT ![t] = TRUE]
    /\ UNCHANGED <<enqueued, queue, waiting, holders, running>>

\* The coroutine ends with a CancelledError, which `except Exception' lets pass.
Aborts(t) ==
    /\ t \in holders /\ status[t] = "running"
    /\ holders' = holders \ {t}
    /\ UNCHANGED <<enqueued, taskVars, queue, waiting, running>>

\* Mutant of Release: only a task that completed gives its place back.
ReleaseCompleted(t) ==
    /\ t \in holders /\ status[t] = "completed"
    /\ holders' = holders \ {t}
    /\ UNCHANGED <<enqueued, taskVars, queue, waiting, running>>

\* The outcome is logged and the semaphore released.
Release(t) ==
    /\ t \in holders
    /\ status[t] \in Final
    /\ holders' = holders \ {t}
    /\ UNCHANGED <<enqueued, taskVars, queue, waiting, running>>

Execute(t) == Completes(t) \/ Raises(t) \/ Aborts(t) \/ Release(t)

BWNext ==
    \/ Enqueue \/ Start \/ Stop \/ Take \/ Acquire
    \/ \E t \in Tasks : Execute(t)

BWSpec == BWInit /\ [][BWNext]_bwVars

\* The event loop resumes what is ready, and a task's coroutine comes to an end.
BWFairSpec ==
    /\ BWSpec
    /\ WF_bwVars(Take) /\ WF_bwVars(Acquire)
    /\ \A t \in Tasks : WF_bwVars(Execute(t))

-----------------------------------------------------------------------------
\* Every variable has its type.
BWTypeOK ==
    /\ enqueued \in 0 .. MaxTasks
    /\ status \in [Tasks -> TaskStatus \cup {"none"}]
    /\ hasError \in [Tasks -> BOOLEAN]
    /\ queue \in Seq(Tasks)
    /\ waiting \in Seq(Tasks)
    /\ holders \in SUBSET Tasks
    /\ running \in BOOLEAN

\* No more than max_concurrent coroutines run at a time, across stops and
\* restarts: a stopped worker's tasks keep their places in the semaphore.
ConcurrencyBound ==
    /\ Cardinality(holders) <= MaxConcurrent
    /\ \A t \in holders : status[t] \in {"running", "completed", "failed"}

\* A coroutine is awaited or closed, never both and never twice: a task that is
\* PENDING is in exactly one place from which it can go on, and one that was
\* cancelled or has started is in none, so stop() marks no task it does not close.
EachTaskOnce ==
    /\ \A t \in Tasks : status[t] = "pending" <=> InSeq(t, queue) \/ InSeq(t, waiting)
    /\ \A j, k \in DOMAIN (queue \o waiting) :
        j # k => (queue \o waiting)[j] # (queue \o waiting)[k]

\* Tasks start in the order in which they were enqueued; a task can only be
\* overtaken by being cancelled.
StartsInOrder ==
    \A t, u \in Tasks :
        t < u /\ status[u] \in {"running", "completed", "failed"} => status[t] # "pending"

Ended(t) == status[t] \notin {"none", "pending"} /\ t \notin holders

\* While the worker runs, a task comes to an end and gives its place back; one
\* that was taken from the queue does so even when the worker is stopped.
TasksSettle ==
    \A t \in Tasks :
        /\ status[t] = "pending" ~> Ended(t) \/ ~running
        /\ InSeq(t, waiting) ~> Ended(t)
=============================================================================
