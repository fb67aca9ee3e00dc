----------------------------- MODULE ThreadPool -----------------------------
(***************************************************************************)
(* src/utils/thread_pool.h: worker threads that share one task queue under *)
(* a mutex and one condition variable, together with the way the callers   *)
(* in src/file_management/carrier_files_manager.cc use it: enqueue one     *)
(* task per carrier, then take the futures in the same order and let the   *)
(* first exception out (LoadVirtualStorage, SaveAllFiles).                 *)
(*                                                                         *)
(* A critical section of queue_mutex is one step.  notify_one and          *)
(* notify_all happen after the mutex is released, so they are steps of     *)
(* their own.  A waiting worker that is notified, or woken spuriously,     *)
(* evaluates the predicate again: it is back in "check".                   *)
(***************************************************************************)
EXTENDS Naturals, Sequences, FiniteSets

CONSTANTS Workers, \* the threads of the pool
          Callers, \* threads that call enqueue
          Tasks,   \* the callables
          Batch,   \* the tasks each caller enqueues, in order
          NoTask

BatchTasks(c) == {Batch[c][i] : i \in DOMAIN Batch[c]}

ASSUME PoolAssumption ==
    /\ Workers # {}
    /\ NoTask \notin Tasks
    /\ Batch \in [Callers -> Seq(Tasks)]
    /\ \A c \in Callers : \A i, j \in DOMAIN Batch[c] :
           Batch[c][i] = Batch[c][j] => i = j
    /\ \A c, d \in Callers : c # d => BatchTasks(c) \cap BatchTasks(d) = {}

VARIABLES tasks,   \* the queue
          stop,
          worker,  \* worker[w]: "check", "waiting", "running", "exited"
          holds,   \* the task a running worker executes
          future,  \* future[t]: "empty", "value", "exception"
          caller,  \* "enqueue", "notify", "get", "returned", "threw", "refused"
          next,    \* the index in the batch of the caller's current task
          dtor     \* "alive", "stopped", "joining", "joined"

poolVars == <<tasks, stop, worker, holds, future>>
callerVars == <<caller, next>>
vars == <<tasks, stop, worker, holds, future, caller, next, dtor>>

WorkerState == {"check", "waiting", "running", "exited"}
CallerState == {"enqueue", "notify", "get", "returned", "threw", "refused"}

\* Types; a worker that runs holds exactly one task, any other holds none.
TypeOK ==
    /\ tasks \in Seq(Tasks)
    /\ stop \in BOOLEAN
    /\ worker \in [Workers -> WorkerState]
    /\ holds \in [Workers -> Tasks \cup {NoTask}]
    /\ \A w \in Workers : holds[w] = NoTask <=> worker[w] # "running"
    /\ future \in [Tasks -> {"empty", "value", "exception"}]
    /\ caller \in [Callers -> CallerState]
    /\ next \in [Callers -> Nat \ {0}]
    /\ dtor \in {"alive", "stopped", "joining", "joined"}

Init ==
    /\ tasks = <<>>
    /\ stop = FALSE
    /\ worker = [w \in Workers |-> "check"]
    /\ holds = [w \in Workers |-> NoTask]
    /\ future = [t \in Tasks |-> "empty"]
    /\ caller = [c \in Callers |-> "enqueue"]
    /\ next = [c \in Callers |-> 1]
    /\ dtor = "alive"

-----------------------------------------------------------------------------
(* The worker loop.                                                        *)

\* Mutant of WorkerWait: blocks without looking at the queue.
WaitUnconditionally(w) ==
    /\ worker[w] = "check"
    /\ ~stop
    /\ worker' = [worker EXCEPT ![w] = "waiting"]
    /\ UNCHANGED <<tasks, stop, holds, future, callerVars, dtor>>

\* The predicate of the wait is false: release the mutex and block.
WorkerWait(w) ==
    /\ worker[w] = "check"
    /\ ~stop /\ tasks = <<>>
    /\ worker' = [worker EXCEPT ![w] = "waiting"]
    /\ UNCHANGED <<tasks, stop, holds, future, callerVars, dtor>>

\* Mutant of WorkerExit: leaves the loop on stop although tasks are queued.
ExitWithoutDraining(w) ==
    /\ worker[w] = "check"
    /\ stop
    /\ worker' = [worker EXCEPT ![w] = "exited"]
    /\ UNCHANGED <<tasks, stop, holds, future, callerVars, dtor>>

WorkerExit(w) ==
    /\ worker[w] = "check"
    /\ stop /\ tasks = <<>>
    /\ worker' = [worker EXCEPT ![w] = "exited"]
    /\ UNCHANGED <<tasks, stop, holds, future, callerVars, dtor>>

\* Mutant of WorkerTake: takes the newest task.
TakeNewest(w) ==
    /\ worker[w] = "check"
    /\ tasks # <<>>
    /\ worker' = [worker EXCEPT ![w] = "running"]
    /\ holds' = [holds EXCEPT ![w] = tasks[Len(tasks)]]
    /\ tasks' = SubSeq(tasks, 1, Len(tasks) - 1)
    /\ UNCHANGED <<stop, future, callerVars, dtor>>

WorkerTake(w) ==
    /\ worker[w] = "check"
    /\ tasks # <<>>
    /\ worker' = [worker EXCEPT ![w] = "running"]
    /\ holds' = [holds EXCEPT ![w] = Head(tasks)]
    /\ tasks' = Tail(tasks)
    /\ UNCHANGED <<stop, future, callerVars, dtor>>

\* The packaged task stores its value, or the exception it threw.
WorkerFinish(w) ==
    /\ worker[w] = "running"
    /\ \E result \in {"value", "exception"} :
           future' = [future EXCEPT ![holds[w]] = result]
    /\ worker' = [worker EXCEPT ![w] = "check"]
    /\ holds' = [holds EXCEPT ![w] = NoTask]
    /\ UNCHANGED <<tasks, stop, callerVars, dtor>>

SpuriousWakeup(w) ==
    /\ worker[w] = "waiting"
    /\ worker' = [worker EXCEPT ![w] = "check"]
    /\ UNCHANGED <<tasks, stop, holds, future, callerVars, dtor>>

-----------------------------------------------------------------------------
(* enqueue, and the two loops of the carrier files manager around it.      *)

Current(c) == Batch[c][next[c]]

Enqueue(c) ==
    /\ caller[c] = "enqueue"
    /\ next[c] <= Len(Batch[c])
    /\ dtor # "joined"
    /\ ~stop
    /\ tasks' = Append(tasks, Current(c))
    /\ caller' = [caller EXCEPT ![c] = "notify"]
    /\ UNCHANGED <<stop, worker, holds, future, next, dtor>>

\* enqueue on a stopped pool throws InvalidState.
EnqueueRefused(c) ==
    /\ caller[c] = "enqueue"
    /\ next[c] <= Len(Batch[c])
    /\ dtor # "joined"
    /\ stop
    /\ caller' = [caller EXCEPT ![c] = "refused"]
    /\ UNCHANGED <<poolVars, next, dtor>>

Waiting == {w \in Workers : worker[w] = "waiting"}

\* Mutant of NotifyOne: the notification is dropped.
NotifyNobody == UNCHANGED worker

\* notify_one wakes one of the waiting workers, if there is one.
NotifyOne ==
    \/ /\ Waiting = {}
       /\ UNCHANGED worker
    \/ \E w \in Waiting : worker' = [worker EXCEPT ![w] = "check"]

Notify(c) ==
    /\ caller[c] = "notify"
    /\ NotifyOne
    /\ caller' = [caller EXCEPT ![c] = "enqueue"]
    /\ next' = [next EXCEPT ![c] = @ + 1]
    /\ UNCHANGED <<tasks, stop, holds, future, dtor>>

BatchComplete(c) ==
    /\ caller[c] = "enqueue"
    /\ next[c] > Len(Batch[c])
    /\ caller' = [caller EXCEPT ![c] = "get"]
    /\ next' = [next EXCEPT ![c] = 1]
    /\ UNCHANGED <<poolVars, dtor>>

GetValue(c) ==
    /\ caller[c] = "get"
    /\ next[c] <= Len(Batch[c])
    /\ future[Current(c)] = "value"
    /\ next' = [next EXCEPT ![c] = @ + 1]
    /\ UNCHANGED <<poolVars, caller, dtor>>

\* get() rethrows: the caller leaves while later tasks may still be queued.
GetException(c) ==
    /\ caller[c] = "get"
    /\ next[c] <= Len(Batch[c])
    /\ future[Current(c)] = "exception"
    /\ caller' = [caller EXCEPT ![c] = "threw"]
    /\ UNCHANGED <<poolVars, next, dtor>>

GetDone(c) ==
    /\ caller[c] = "get"
    /\ next[c] > Len(Batch[c])
    /\ caller' = [caller EXCEPT ![c] = "returned"]
    /\ UNCHANGED <<poolVars, next, dtor>>

-----------------------------------------------------------------------------
(* The destructor.  C++ lets it start only when no other thread is inside  *)
(* a member function; a thread between two calls of enqueue may still call *)
(* it again and meet stop.                                                 *)

DtorStop ==
    /\ dtor = "alive"
    /\ \A c \in Callers : caller[c] # "notify"
    /\ stop' = TRUE
    /\ dtor' = "stopped"
    /\ UNCHANGED <<tasks, worker, holds, future, callerVars>>

\* Mutant of NotifyAll: wakes one worker.
NotifyOneAtDtor ==
    IF Waiting = {} THEN worker
    ELSE [worker EXCEPT ![CHOOSE w \in Waiting : TRUE] = "check"]

NotifyAll == [w \in Workers |-> IF w \in Waiting THEN "check" ELSE worker[w]]

DtorNotifyAll ==
    /\ dtor = "stopped"
    /\ worker' = NotifyAll
    /\ dtor' = "joining"
    /\ UNCHANGED <<tasks, stop, holds, future, callerVars>>

DtorJoin ==
    /\ dtor = "joining"
    /\ \A w \in Workers : worker[w] = "exited"
    /\ dtor' = "joined"
    /\ UNCHANGED <<poolVars, callerVars>>

\* The end: the pool is gone.
Terminated == dtor = "joined" /\ UNCHANGED vars

-----------------------------------------------------------------------------
WorkerStep(w) ==
    WorkerWait(w) \/ WorkerExit(w) \/ WorkerTake(w) \/ WorkerFinish(w)

CallerStep(c) ==
    \/ Enqueue(c) \/ EnqueueRefused(c) \/ Notify(c)
    \/ BatchComplete(c) \/ GetValue(c) \/ GetException(c) \/ GetDone(c)

DtorFinish == DtorNotifyAll \/ DtorJoin

Next ==
    \/ \E w \in Workers : WorkerStep(w) \/ SpuriousWakeup(w)
    \/ \E c \in Callers : CallerStep(c)
    \/ DtorStop \/ DtorFinish
    \/ Terminated

Spec == Init /\ [][Next]_vars

\* The operating system runs every thread that can run; no thread waits for
\* the mutex for ever because no critical section blocks.  Spurious wakeups
\* and the decision to destroy the pool are nobody's obligation.
Fairness ==
    /\ \A w \in Workers : WF_vars(WorkerStep(w))
    /\ \A c \in Callers : WF_vars(CallerStep(c))
    /\ WF_vars(DtorFinish)

FairSpec == Spec /\ Fairness

-----------------------------------------------------------------------------
Accepted(c) ==
    {Batch[c][i] : i \in {j \in DOMAIN Batch[c] :
        \/ caller[c] \in {"get", "returned", "threw"}
        \/ j < next[c]
        \/ caller[c] = "notify" /\ j = next[c]}}

\* A queued task never waits for a wakeup that will not come: either some
\* worker will look at the queue again by itself, or the notification for a
\* queued task is still on its way.  This is what the order "push under the
\* mutex, notify after it" and the re-evaluated predicate are for.
NoLostWakeup ==
    tasks # <<>> =>
        \/ \E w \in Workers : worker[w] \in {"check", "running"}
        \/ \E c \in Callers : caller[c] = "notify"

\* When the destructor returns, every task that enqueue accepted has run, also
\* those whose caller gave up after an earlier exception: the futures of a
\* batch are never broken promises.
DrainedAtJoin ==
    dtor = "joined" =>
        \A c \in Callers : \A t \in Accepted(c) : future[t] # "empty"

\* Every accepted task is executed eventually, with or without a shutdown.
EveryTaskRuns ==
    \A c \in Callers : \A t \in BatchTasks(c) :
        (t \in Accepted(c)) ~> (future[t] # "empty")

\* The destructor returns: notify_all reaches every sleeping worker and each
\* of them leaves its loop once the queue is empty.
DtorReturns == (dtor = "stopped") ~> (dtor = "joined")

-----------------------------------------------------------------------------
(* Why it works: the inductive invariant behind the properties above.      *)

\* A worker leaves only when nothing is queued and nothing will be.
ExitedMeansDrained ==
    \A w \in Workers : worker[w] = "exited" => stop /\ tasks = <<>>

JoinedMeansExited == dtor = "joined" => \A w \in Workers : worker[w] = "exited"

Kept(t) ==
    \/ \E k \in DOMAIN tasks : tasks[k] = t
    \/ \E w \in Workers : holds[w] = t
    \/ future[t] # "empty"

\* An accepted task is queued, being executed, or done: it is never dropped.
AcceptedIsKept == \A c \in Callers : \A t \in Accepted(c) : Kept(t)

\* No task gets lost between the queue and a worker, no worker leaves too early
\* and none sleeps through a notification.
PoolInv ==
    TypeOK /\ ExitedMeansDrained /\ JoinedMeansExited /\ AcceptedIsKept /\ NoLostWakeup

-----------------------------------------------------------------------------
Executing == {holds[w] : w \in {v \in Workers : worker[v] = "running"}}

Executor == INSTANCE TaskExecutor WITH
    queue <- tasks,
    running <- Executing,
    finished <- {t \in Tasks : future[t] # "empty"},
    phase <- CASE dtor = "joined" -> "ended"
               [] dtor # "joined" /\ stop -> "closed"
               [] OTHER -> "open"

\* The pool implements the executor: tasks start in order of acceptance, run
\* exactly once, none is accepted after stop, and shutdown drains the queue.
ImplementsExecutor == Executor!FairSpec

=============================================================================
