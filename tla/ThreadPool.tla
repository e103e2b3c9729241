----------------------------- MODULE ThreadPool ------------------------------
(***************************************************************************)
(* The thread pool of tools/threadpool.c: a list of tasks, a lock and a    *)
(* condition, worker threads that wait for tasks, and a thread that wakes  *)
(* one of them from time to time.                                          *)
(*                                                                         *)
(* Whoever uses the list holds pool_lock, so that a critical section is    *)
(* one step.  A worker that waits has given the lock back; it locks again  *)
(* and tests again when it is woken, as if it had just come ("check").     *)
(***************************************************************************)
EXTENDS Integers, Sequences

CONSTANTS
  Threads,    \* the threads of the pool
  Tasks,      \* the tasks that may be added
  NULL

ASSUME NullAssumption == NULL \notin Tasks

VARIABLES
  header_next, \* task_header.next: the first task, if there is one
  tail,        \* task_tail_p
  next,        \* the field next of each task
  isshuttingdown,
  thread, task, \* where each thread is, and the task it runs
  adjust,       \* where the thread threadpool_adjust() is
  destroy,      \* where the call of threadpool_destroy() is
  aborted,      \* has the assertion failed?
  added, taken  \* history: the tasks in the order of their adding and taking

vars == <<header_next, tail, next, isshuttingdown, thread, task, adjust,
          destroy, aborted, added, taken>>
list == <<header_next, tail, next>>

\* The fields that malloc() has returned hold any address, or none.
Init ==
  /\ tail = NULL
  /\ header_next \in Tasks \cup {NULL}
  /\ next \in [Tasks -> Tasks \cup {NULL}]
  /\ isshuttingdown = FALSE
  /\ thread = [w \in Threads |-> "check"] /\ task = [w \in Threads |-> NULL]
  /\ adjust = "test" /\ destroy = "none" /\ aborted = FALSE
  /\ added = <<>> /\ taken = <<>>

-----------------------------------------------------------------------------
(* threadpool_handle().                                                    *)

\* Mutation: pthread_cond_wait() comes before the test.
WaitUntested(w) ==
  /\ thread[w] = "check" /\ ~isshuttingdown
  /\ thread' = [thread EXCEPT ![w] = "waiting"]
  /\ UNCHANGED <<list, isshuttingdown, task, adjust, destroy, aborted, added, taken>>

Wait(w) ==
  /\ thread[w] = "check" /\ tail = NULL /\ ~isshuttingdown
  /\ thread' = [thread EXCEPT ![w] = "waiting"]
  /\ UNCHANGED <<list, isshuttingdown, task, adjust, destroy, aborted, added, taken>>

\* pthread_cond_wait() may return without a signal.
WakeUp(w) ==
  /\ thread[w] = "waiting"
  /\ thread' = [thread EXCEPT ![w] = "check"]
  /\ UNCHANGED <<list, isshuttingdown, task, adjust, destroy, aborted, added, taken>>

\* The tasks that are still in the list are left there.
Exit(w) ==
  /\ thread[w] = "check" /\ isshuttingdown
  /\ thread' = [thread EXCEPT ![w] = "exited"]
  /\ UNCHANGED <<list, isshuttingdown, task, adjust, destroy, aborted, added, taken>>

\* Mutation: task_tail_p is not reset with the last task.
TakeKeepsTail(w) ==
  /\ thread[w] = "check" /\ tail # NULL /\ ~isshuttingdown
  /\ header_next # NULL
  /\ header_next' = next[header_next]
  /\ thread' = [thread EXCEPT ![w] = "running"]
  /\ task' = [task EXCEPT ![w] = header_next]
  /\ taken' = Append(taken, header_next)
  /\ UNCHANGED <<tail, next, isshuttingdown, adjust, destroy, aborted, added>>

Take(w) ==
  /\ thread[w] = "check" /\ tail # NULL /\ ~isshuttingdown
  /\ IF header_next = NULL
     THEN /\ aborted' = TRUE
          /\ UNCHANGED <<header_next, tail, thread, task, taken>>
     ELSE /\ header_next' = next[header_next]
          /\ tail' = IF header_next = tail THEN NULL ELSE tail
          /\ thread' = [thread EXCEPT ![w] = "running"]
          /\ task' = [task EXCEPT ![w] = header_next]
          /\ taken' = Append(taken, header_next)
          /\ UNCHANGED aborted
  /\ UNCHANGED <<next, isshuttingdown, adjust, destroy, added>>

\* The task's function returns and the task is freed.
Finish(w) ==
  /\ thread[w] = "running"
  /\ thread' = [thread EXCEPT ![w] = "check"]
  /\ task' = [task EXCEPT ![w] = NULL]
  /\ UNCHANGED <<list, isshuttingdown, adjust, destroy, aborted, added, taken>>

-----------------------------------------------------------------------------
\* pthread_cond_signal(): somebody who waits, if anybody does, is woken.
Signal ==
  \/ \E w \in Threads : thread[w] = "waiting" /\ thread' = [thread EXCEPT ![w] = "check"]
  \/ (\A w \in Threads : thread[w] # "waiting") /\ UNCHANGED thread

WasAdded(t) == \E n \in DOMAIN added : added[n] = t

\* threadpool_add(): nobody adds once the pool has been destroyed, but while
\* it is somebody may.
Add(t) ==
  /\ destroy # "done" /\ ~WasAdded(t)
  /\ tail' = t
  /\ IF tail = NULL
     THEN header_next' = t /\ UNCHANGED next
     ELSE next' = [next EXCEPT ![tail] = t] /\ UNCHANGED header_next
  /\ added' = Append(added, t)
  /\ Signal
  /\ UNCHANGED <<isshuttingdown, task, adjust, destroy, aborted, taken>>

\* threadpool_adjust(): the flag is read without the lock, then it sleeps.
AdjustTest ==
  /\ adjust = "test"
  /\ adjust' = IF isshuttingdown THEN "exited" ELSE "sleep"
  /\ UNCHANGED <<list, isshuttingdown, thread, task, destroy, aborted, added, taken>>

AdjustSignal ==
  /\ adjust = "sleep"
  /\ adjust' = "test"
  /\ IF tail # NULL THEN Signal ELSE UNCHANGED thread
  /\ UNCHANGED <<list, isshuttingdown, task, destroy, aborted, added, taken>>

-----------------------------------------------------------------------------
(* threadpool_destroy().                                                   *)

ShutDown ==
  /\ destroy = "none"
  /\ isshuttingdown' = TRUE
  /\ destroy' = "broadcast"
  /\ UNCHANGED <<list, thread, task, adjust, aborted, added, taken>>

\* Mutation: only one thread is woken.
BroadcastOne ==
  /\ destroy = "broadcast" /\ destroy' = "join"
  /\ Signal
  /\ UNCHANGED <<list, isshuttingdown, task, adjust, aborted, added, taken>>

Broadcast ==
  /\ destroy = "broadcast" /\ destroy' = "join"
  /\ thread' = [w \in Threads |-> IF thread[w] = "waiting" THEN "check" ELSE thread[w]]
  /\ UNCHANGED <<list, isshuttingdown, task, adjust, aborted, added, taken>>

\* The workers are joined, then the adjusting thread; the pool is freed, the
\* tasks in its list are not.
Join ==
  /\ destroy = "join" /\ destroy' = "done"
  /\ \A w \in Threads : thread[w] = "exited"
  /\ adjust = "exited"
  /\ UNCHANGED <<list, isshuttingdown, thread, task, adjust, aborted, added, taken>>

-----------------------------------------------------------------------------
Handle(w) == Wait(w) \/ Exit(w) \/ Take(w)
Adjust    == AdjustTest \/ AdjustSignal
Destroy   == Broadcast \/ Join

Next ==
  /\ ~aborted
  /\ \/ \E w \in Threads : Handle(w) \/ Finish(w) \/ WakeUp(w)
     \/ \E t \in Tasks : Add(t)
     \/ Adjust \/ ShutDown \/ Destroy

Spec == Init /\ [][Next]_vars

\* Threads run, and the functions of the tasks return.  Nobody has to add a
\* task or to destroy the pool, no thread wakes up by itself, and the sleep of
\* the adjusting thread has to end only when the pool is shut down.
Fairness ==
  /\ \A w \in Threads : WF_vars(~aborted /\ Handle(w)) /\ WF_vars(~aborted /\ Finish(w))
  /\ WF_vars(~aborted /\ isshuttingdown /\ Adjust)
  /\ WF_vars(~aborted /\ Destroy)

FairSpec == Spec /\ Fairness

-----------------------------------------------------------------------------
Waiting == SubSeq(added, Len(taken) + 1, Len(added))

\* From task_header.next to task_tail_p the list holds the tasks that were
\* added and not yet taken, in this order, whatever the fields next of a new
\* or of a taken task hold: tasks are run in the order of their adding, each
\* once, and the assertion of threadpool_handle() holds.
TasksInOrder ==
  /\ aborted = FALSE
  /\ Len(taken) <= Len(added)
  /\ \A n \in 1 .. Len(taken) : taken[n] = added[n]
  /\ tail = NULL <=> Len(taken) = Len(added)
  /\ tail # NULL =>
       /\ header_next = added[Len(taken) + 1]
       /\ tail = added[Len(added)]
       /\ \A n \in Len(taken) + 1 .. Len(added) - 1 : next[added[n]] = added[n + 1]

WasTaken(t) == \E n \in DOMAIN taken : taken[n] = t

\* A task that was added is run, unless the pool is shut down, without any
\* help of the adjusting thread: no task is stuck in the list because nobody
\* received its signal.
TasksRun == \A t \in Tasks : WasAdded(t) ~> (WasTaken(t) \/ isshuttingdown)

\* threadpool_destroy() returns, whatever its threads were doing and whoever
\* still adds tasks.
DestroyReturns == (destroy = "broadcast") ~> (destroy = "done")
=============================================================================
