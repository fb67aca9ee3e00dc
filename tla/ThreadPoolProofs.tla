-------------------------- MODULE ThreadPoolProofs --------------------------
(***************************************************************************)
(* For any number of workers, callers and tasks: the pool of               *)
(* ThreadPool.tla neither loses a wakeup nor an accepted task, and, apart  *)
(* from its fairness, it implements the executor of TaskExecutor.tla:      *)
(* every step of a thread is a step of the executor or none.               *)
(***************************************************************************)
EXTENDS ThreadPool, TLAPS

\* The tasks of a batch are tasks.
LEMMA BatchTypes ==
    ASSUME NEW c \in Callers, NEW k \in 1..Len(Batch[c])
    PROVE  Batch[c] \in Seq(Tasks) /\ Batch[c][k] \in Tasks /\ NoTask \notin Tasks
BY PoolAssumption

-----------------------------------------------------------------------------
(* The worker loop.                                                        *)

\* The worker loop keeps the invariant.
LEMMA WorkerKeepsPool ==
    ASSUME PoolInv, NEW w \in Workers, WorkerStep(w) \/ SpuriousWakeup(w)
    PROVE  PoolInv'
<1>1. /\ TypeOK /\ ExitedMeansDrained /\ JoinedMeansExited /\ AcceptedIsKept /\ NoLostWakeup
      /\ UNCHANGED <<stop, callerVars, dtor>>
  BY DEF PoolInv, WorkerStep, WorkerWait, WorkerExit, WorkerTake, WorkerFinish, SpuriousWakeup
<1>2. \A c \in Callers : Accepted(c)' = Accepted(c)
  BY <1>1 DEF Accepted, callerVars
<1>3. /\ worker \in [Workers -> WorkerState] /\ holds \in [Workers -> Tasks \cup {NoTask}]
      /\ future \in [Tasks -> {"empty", "value", "exception"}] /\ tasks \in Seq(Tasks)
      /\ NoTask \notin Tasks
  BY <1>1, PoolAssumption DEF TypeOK
<1>4. CASE WorkerWait(w) \/ WorkerExit(w) \/ SpuriousWakeup(w)
  <2>1. /\ worker[w] \in {"check", "waiting"} /\ UNCHANGED <<tasks, holds, future>>
        /\ \E st \in {"waiting", "exited", "check"} :
               /\ worker' = [worker EXCEPT ![w] = st]
               /\ st = "exited" => stop
               /\ st # "check" => tasks = <<>>
    BY <1>4 DEF WorkerWait, WorkerExit, SpuriousWakeup
  <2>2. TypeOK'
    BY <1>1, <1>3, <2>1 DEF TypeOK, WorkerState, callerVars
  <2>3. ExitedMeansDrained' /\ JoinedMeansExited'
    BY <1>1, <1>3, <2>1 DEF ExitedMeansDrained, JoinedMeansExited
  <2>4. AcceptedIsKept'
    BY <1>1, <1>2, <2>1 DEF AcceptedIsKept, Kept
  <2>5. NoLostWakeup'
    BY <1>1, <1>3, <2>1 DEF NoLostWakeup, callerVars
  <2>. QED
    BY <2>2, <2>3, <2>4, <2>5 DEF PoolInv
<1>5. CASE WorkerTake(w)
  <2>1. /\ worker[w] = "check" /\ tasks # <<>> /\ UNCHANGED future
        /\ worker' = [worker EXCEPT ![w] = "running"]
        /\ holds' = [holds EXCEPT ![w] = Head(tasks)]
        /\ tasks' = Tail(tasks)
    BY <1>5 DEF WorkerTake
  <2>2. Head(tasks) \in Tasks /\ Tail(tasks) \in Seq(Tasks) /\ Head(tasks) = tasks[1]
    BY <1>3, <2>1
  <2>3. TypeOK'
    BY <1>1, <1>3, <2>1, <2>2 DEF TypeOK, WorkerState, callerVars
  <2>4. ExitedMeansDrained' /\ JoinedMeansExited'
    BY <1>1, <1>3, <2>1 DEF ExitedMeansDrained, JoinedMeansExited
  <2>5. holds[w] = NoTask
    BY <1>1, <2>1 DEF TypeOK
  <2>6. AcceptedIsKept'
    <3>1. ASSUME NEW c \in Callers, NEW t \in Accepted(c) PROVE Kept(t)'
      <4>1. Kept(t) /\ t \in Tasks
        BY <1>1, <3>1, BatchTypes DEF AcceptedIsKept, Accepted
      <4>2. CASE \E k \in DOMAIN tasks : tasks[k] = t
        <5>1. PICK k \in 1..Len(tasks) : tasks[k] = t
          BY <1>3, <4>2
        <5>2. CASE k = 1
          <6>1. holds'[w] = t
            BY <1>3, <2>1, <2>2, <5>1, <5>2
          <6>. QED
            BY <6>1 DEF Kept
        <5>3. CASE k # 1
          <6>1. k - 1 \in DOMAIN Tail(tasks) /\ Tail(tasks)[k - 1] = t
            BY <1>3, <2>1, <5>1, <5>3
          <6>. QED
            BY <2>1, <6>1 DEF Kept
        <5>. QED
          BY <5>2, <5>3
      <4>3. CASE \E v \in Workers : holds[v] = t
        <5>1. PICK v \in Workers : holds[v] = t
          BY <4>3
        <5>2. v # w /\ holds'[v] = t
          BY <1>3, <2>1, <2>5, <4>1, <5>1
        <5>. QED
          BY <5>2 DEF Kept
      <4>4. CASE future[t] # "empty"
        BY <2>1, <4>4 DEF Kept
      <4>. QED
        BY <4>1, <4>2, <4>3, <4>4 DEF Kept
    <3>. QED
      BY <1>2, <3>1 DEF AcceptedIsKept
  <2>7. NoLostWakeup'
    BY <1>3, <2>1 DEF NoLostWakeup
  <2>. QED
    BY <2>3, <2>4, <2>6, <2>7 DEF PoolInv
<1>6. CASE WorkerFinish(w)
  <2>1. /\ worker[w] = "running" /\ UNCHANGED tasks
        /\ worker' = [worker EXCEPT ![w] = "check"]
        /\ holds' = [holds EXCEPT ![w] = NoTask]
        /\ \E result \in {"value", "exception"} : future' = [future EXCEPT ![holds[w]] = result]
    BY <1>6 DEF WorkerFinish
  <2>2. holds[w] \in Tasks
    BY <1>1, <1>3, <2>1 DEF TypeOK
  <2>3. TypeOK'
    BY <1>1, <1>3, <2>1, <2>2 DEF TypeOK, WorkerState, callerVars
  <2>4. ExitedMeansDrained' /\ JoinedMeansExited'
    BY <1>1, <1>3, <2>1 DEF ExitedMeansDrained, JoinedMeansExited
  <2>5. AcceptedIsKept'
    <3>1. ASSUME NEW c \in Callers, NEW t \in Accepted(c) PROVE Kept(t)'
      <4>1. Kept(t) /\ t \in Tasks
        BY <1>1, <3>1, BatchTypes DEF AcceptedIsKept, Accepted
      <4>2. CASE holds[w] = t
        BY <1>3, <2>1, <4>1, <4>2 DEF Kept
      <4>3. CASE holds[w] # t
        BY <1>3, <2>1, <2>2, <4>1, <4>3 DEF Kept
      <4>. QED
        BY <4>2, <4>3
    <3>. QED
      BY <1>2, <3>1 DEF AcceptedIsKept
  <2>6. NoLostWakeup'
    BY <1>3, <2>1 DEF NoLostWakeup
  <2>. QED
    BY <2>3, <2>4, <2>5, <2>6 DEF PoolInv
<1>. QED
  BY <1>4, <1>5, <1>6 DEF WorkerStep

-----------------------------------------------------------------------------
(* The callers.                                                            *)

\* enqueue and get keep the types ...
LEMMA CallerKeepsTypes ==
    ASSUME PoolInv, NEW c \in Callers, CallerStep(c)
    PROVE  TypeOK'
<1>1. TypeOK /\ holds' = holds /\ future' = future /\ stop' = stop /\ dtor' = dtor
  BY DEF PoolInv, CallerStep, Enqueue, EnqueueRefused, Notify, BatchComplete,
         GetValue, GetException, GetDone, poolVars
<1>2. tasks' \in Seq(Tasks)
  <2>1. CASE Enqueue(c)
    <3>1. next[c] \in 1..Len(Batch[c]) /\ tasks' = Append(tasks, Current(c))
      BY <1>1, <2>1, PoolAssumption DEF TypeOK, Enqueue
    <3>. QED
      BY <1>1, <3>1, BatchTypes DEF TypeOK, Current
  <2>2. CASE ~Enqueue(c)
    BY <1>1, <2>2 DEF TypeOK, CallerStep, EnqueueRefused, Notify, BatchComplete,
       GetValue, GetException, GetDone, poolVars
  <2>. QED
    BY <2>1, <2>2
<1>3. /\ worker' \in [Workers -> WorkerState]
      /\ \A w \in Workers : \/ worker'[w] = worker[w]
                            \/ worker[w] = "waiting" /\ worker'[w] = "check"
  BY <1>1 DEF TypeOK, WorkerState, CallerStep, Enqueue, EnqueueRefused, Notify, NotifyOne,
     Waiting, BatchComplete, GetValue, GetException, GetDone, poolVars
<1>4. caller' \in [Callers -> CallerState] /\ next' \in [Callers -> Nat \ {0}]
  <2>1. /\ caller \in [Callers -> CallerState] /\ next \in [Callers -> Nat \ {0}]
        /\ next[c] + 1 \in Nat \ {0}
    BY <1>1 DEF TypeOK
  <2>2. \/ UNCHANGED caller
        \/ \E st \in CallerState : caller' = [caller EXCEPT ![c] = st]
    BY DEF CallerState, CallerStep, Enqueue, EnqueueRefused, Notify, BatchComplete,
           GetValue, GetException, GetDone
  <2>3. \/ UNCHANGED next
        \/ \E n \in Nat \ {0} : next' = [next EXCEPT ![c] = n]
    <3>1. CASE Notify(c) \/ GetValue(c)
      <4>1. next' = [next EXCEPT ![c] = next[c] + 1]
        BY <3>1 DEF Notify, GetValue
      <4>. QED
        BY <2>1, <4>1
    <3>2. CASE BatchComplete(c)
      <4>1. next' = [next EXCEPT ![c] = 1] /\ 1 \in Nat \ {0}
        BY <3>2 DEF BatchComplete
      <4>. QED
        BY <4>1
    <3>3. CASE Enqueue(c) \/ EnqueueRefused(c) \/ GetException(c) \/ GetDone(c)
      BY <3>3 DEF Enqueue, EnqueueRefused, GetException, GetDone
    <3>. QED
      BY <3>1, <3>2, <3>3 DEF CallerStep
  <2>. QED
    BY <2>1, <2>2, <2>3
<1>. QED
  BY <1>1, <1>2, <1>3, <1>4 DEF TypeOK

\* ... and what was accepted is queued, running or finished.
LEMMA CallerKeepsAccepted ==
    ASSUME PoolInv, NEW c \in Callers, CallerStep(c)
    PROVE  AcceptedIsKept'
<1>1. /\ caller \in [Callers -> CallerState] /\ next \in [Callers -> Nat \ {0}]
      /\ tasks \in Seq(Tasks) /\ AcceptedIsKept
      /\ holds' = holds /\ future' = future
  BY DEF PoolInv, TypeOK, CallerStep, Enqueue, EnqueueRefused, Notify, BatchComplete,
         GetValue, GetException, GetDone, poolVars
<1>2. CASE Enqueue(c)
  <2>1. /\ next[c] \in 1..Len(Batch[c]) /\ tasks' = Append(tasks, Current(c)) /\ next' = next
        /\ caller[c] = "enqueue" /\ caller' = [caller EXCEPT ![c] = "notify"]
    BY <1>1, <1>2, PoolAssumption DEF Enqueue
  <2>2. Current(c) \in Tasks
    BY <2>1, BatchTypes DEF Current
  <2>3. ASSUME NEW t, Kept(t) PROVE Kept(t)'
    <3>1. CASE \E k \in DOMAIN tasks : tasks[k] = t
      <4>1. PICK k \in 1..Len(tasks) : tasks[k] = t
        BY <1>1, <3>1
      <4>2. k \in DOMAIN tasks' /\ tasks'[k] = t
        BY <1>1, <2>1, <2>2, <4>1
      <4>. QED
        BY <4>2 DEF Kept
    <3>. QED
      BY <1>1, <2>3, <3>1 DEF Kept
  <2>4. Kept(Current(c))'
    <3>1. /\ Len(tasks) + 1 \in DOMAIN tasks' /\ tasks'[Len(tasks) + 1] = Current(c)
          /\ Current(c)' = Current(c)
      BY <1>1, <2>1, <2>2 DEF Current
    <3>. QED
      BY <3>1 DEF Kept
  <2>5. ASSUME NEW d \in Callers, NEW t \in Accepted(d)' PROVE t \in Accepted(d) \/ t = Current(c)
    <3>1. CASE d = c
      BY <1>1, <2>1, <2>5, <3>1 DEF Accepted, Current
    <3>2. CASE d # c
      BY <1>1, <2>1, <2>5, <3>2 DEF Accepted
    <3>. QED
      BY <3>1, <3>2
  <2>6. Current(c)' = Current(c)
    BY <2>1 DEF Current
  <2>. QED
    BY <1>1, <2>3, <2>4, <2>5, <2>6 DEF AcceptedIsKept
<1>3. CASE ~Enqueue(c)
  <2>1. tasks' = tasks
    BY <1>3 DEF CallerStep, EnqueueRefused, Notify, BatchComplete, GetValue,
       GetException, GetDone, poolVars
  <2>2. ASSUME NEW d \in Callers, d # c PROVE caller'[d] = caller[d] /\ next'[d] = next[d]
    BY <1>1, <1>3, <2>2 DEF CallerStep, EnqueueRefused, Notify, BatchComplete, GetValue,
       GetException, GetDone
  <2>3. ASSUME NEW d \in Callers, NEW t \in Accepted(d)' PROVE t \in Accepted(d)
    <3>1. CASE d # c
      BY <2>2, <2>3, <3>1 DEF Accepted
    <3>2. CASE d = c
      <4>1. PICK i \in DOMAIN Batch[c] :
                t = Batch[c][i] /\ (\/ caller'[c] \in {"get", "returned", "threw"}
                                    \/ i < next'[c]
                                    \/ caller'[c] = "notify" /\ i = next'[c])
        BY <2>3, <3>2 DEF Accepted
      <4>2. i \in 1..Len(Batch[c])
        BY PoolAssumption
      <4>3. \/ caller[c] \in {"get", "returned", "threw"}
            \/ i < next[c]
            \/ caller[c] = "notify" /\ i = next[c]
        <5>1. CASE Notify(c)
          BY <1>1, <4>1, <4>2, <5>1 DEF Notify
        <5>2. CASE BatchComplete(c)
          BY <1>1, <4>1, <4>2, <5>2, PoolAssumption DEF BatchComplete
        <5>3. CASE GetValue(c) \/ GetException(c) \/ GetDone(c)
          BY <5>3 DEF GetValue, GetException, GetDone
        <5>4. CASE EnqueueRefused(c)
          BY <1>1, <4>1, <5>4 DEF EnqueueRefused
        <5>. QED
          BY <1>3, <5>1, <5>2, <5>3, <5>4 DEF CallerStep
      <4>. QED
        BY <3>2, <4>1, <4>3 DEF Accepted
    <3>. QED
      BY <3>1, <3>2
  <2>. QED
    BY <1>1, <2>1, <2>3 DEF AcceptedIsKept, Kept
<1>. QED
  BY <1>2, <1>3

\* enqueue and get keep the invariant.
LEMMA CallerKeepsPool ==
    ASSUME PoolInv, NEW c \in Callers, CallerStep(c)
    PROVE  PoolInv'
<1>1. TypeOK' /\ AcceptedIsKept'
  BY CallerKeepsTypes, CallerKeepsAccepted
<1>2. /\ TypeOK /\ ExitedMeansDrained /\ JoinedMeansExited /\ NoLostWakeup
      /\ stop' = stop /\ dtor' = dtor
  BY DEF PoolInv, CallerStep, Enqueue, EnqueueRefused, Notify, BatchComplete,
         GetValue, GetException, GetDone, poolVars
<1>3. CASE Enqueue(c)
  <2>1. /\ ~stop /\ dtor # "joined" /\ worker' = worker
        /\ caller' = [caller EXCEPT ![c] = "notify"]
    BY <1>3 DEF Enqueue
  <2>2. ExitedMeansDrained' /\ JoinedMeansExited'
    BY <1>2, <2>1 DEF ExitedMeansDrained, JoinedMeansExited
  <2>3. NoLostWakeup'
    BY <1>2, <2>1 DEF NoLostWakeup, TypeOK
  <2>. QED
    BY <1>1, <2>2, <2>3 DEF PoolInv
<1>4. CASE Notify(c)
  <2>1. tasks' = tasks /\ NotifyOne
    BY <1>4 DEF Notify
  <2>2. \A w \in Workers : \/ worker'[w] = worker[w]
                           \/ worker[w] = "waiting" /\ worker'[w] = "check"
    BY <1>2, <2>1 DEF NotifyOne, Waiting, TypeOK
  <2>3. ExitedMeansDrained' /\ JoinedMeansExited'
    BY <1>2, <2>1, <2>2 DEF ExitedMeansDrained, JoinedMeansExited
  <2>4. NoLostWakeup'
    <3>1. CASE Waiting = {} /\ UNCHANGED worker
      BY <1>2, <2>1, <3>1, PoolAssumption
         DEF NoLostWakeup, Waiting, ExitedMeansDrained, TypeOK, WorkerState
    <3>2. CASE \E w \in Waiting : worker' = [worker EXCEPT ![w] = "check"]
      BY <1>2, <3>2 DEF NoLostWakeup, Waiting, TypeOK
    <3>. QED
      BY <2>1, <3>1, <3>2 DEF NotifyOne
  <2>. QED
    BY <1>1, <2>3, <2>4 DEF PoolInv
<1>5. CASE ~Enqueue(c) /\ ~Notify(c)
  <2>1. /\ UNCHANGED <<tasks, worker>> /\ caller[c] # "notify"
        /\ \A d \in Callers : d # c => caller'[d] = caller[d]
    BY <1>2, <1>5 DEF TypeOK, CallerStep, EnqueueRefused, BatchComplete, GetValue,
       GetException, GetDone, poolVars
  <2>. QED
    BY <1>1, <1>2, <2>1 DEF PoolInv, ExitedMeansDrained, JoinedMeansExited, NoLostWakeup
<1>. QED
  BY <1>3, <1>4, <1>5

-----------------------------------------------------------------------------
(* The destructor.                                                         *)

\* So does the destructor.
LEMMA DtorKeepsPool ==
    ASSUME PoolInv, DtorStop \/ DtorFinish
    PROVE  PoolInv'
<1>1. /\ TypeOK /\ ExitedMeansDrained /\ JoinedMeansExited /\ AcceptedIsKept /\ NoLostWakeup
      /\ UNCHANGED <<tasks, holds, future, callerVars>>
  BY DEF PoolInv, DtorStop, DtorFinish, DtorNotifyAll, DtorJoin, poolVars
<1>2. AcceptedIsKept'
  BY <1>1 DEF AcceptedIsKept, Accepted, Kept, callerVars
<1>3. CASE DtorStop
  BY <1>1, <1>2, <1>3 DEF PoolInv, TypeOK, DtorStop, ExitedMeansDrained, JoinedMeansExited,
     NoLostWakeup, callerVars
<1>4. CASE DtorNotifyAll
  <2>1. /\ worker' = [w \in Workers |-> IF worker[w] = "waiting" THEN "check" ELSE worker[w]]
        /\ stop' = stop /\ dtor' = "joining"
    BY <1>4 DEF DtorNotifyAll, NotifyAll, Waiting
  <2>2. TypeOK'
    BY <1>1, <2>1 DEF TypeOK, WorkerState, callerVars
  <2>3. ExitedMeansDrained' /\ JoinedMeansExited'
    BY <1>1, <2>1 DEF ExitedMeansDrained, JoinedMeansExited
  <2>4. NoLostWakeup'
    BY <1>1, <2>1, PoolAssumption
       DEF NoLostWakeup, ExitedMeansDrained, TypeOK, WorkerState, callerVars
  <2>. QED
    BY <1>2, <2>2, <2>3, <2>4 DEF PoolInv
<1>5. CASE DtorJoin
  BY <1>1, <1>2, <1>5 DEF PoolInv, TypeOK, DtorJoin, ExitedMeansDrained, JoinedMeansExited,
     NoLostWakeup, poolVars, callerVars
<1>. QED
  BY <1>3, <1>4, <1>5 DEF DtorFinish

-----------------------------------------------------------------------------
\* The constructor establishes it.
LEMMA InitPool == Init => PoolInv
<1>1. SUFFICES ASSUME Init PROVE PoolInv
  OBVIOUS
<1>2. TypeOK
  <2>1. <<>> \in Seq(Tasks)
    OBVIOUS
  <2>2. /\ worker \in [Workers -> WorkerState]
        /\ holds \in [Workers -> Tasks \cup {NoTask}]
        /\ \A w \in Workers : holds[w] = NoTask /\ worker[w] = "check"
    BY <1>1 DEF Init, WorkerState
  <2>3. /\ future \in [Tasks -> {"empty", "value", "exception"}]
        /\ caller \in [Callers -> CallerState]
        /\ next \in [Callers -> Nat \ {0}]
    BY <1>1 DEF Init, CallerState
  <2>. QED
    BY <1>1, <2>1, <2>2, <2>3 DEF Init, TypeOK
<1>3. ASSUME NEW c \in Callers PROVE Accepted(c) = {}
  <2>1. \A j \in DOMAIN Batch[c] : j \in Nat /\ j >= 1
    BY PoolAssumption
  <2>. QED
    BY <1>1, <2>1 DEF Init, Accepted
<1>. QED
  BY <1>1, <1>2, <1>3 DEF Init, PoolInv, ExitedMeansDrained, JoinedMeansExited,
     AcceptedIsKept, NoLostWakeup

\* Every step.
LEMMA StepPool == PoolInv /\ [Next]_vars => PoolInv'
<1>1. SUFFICES ASSUME PoolInv, [Next]_vars PROVE PoolInv'
  OBVIOUS
<1>2. CASE UNCHANGED vars
  BY <1>1, <1>2 DEF PoolInv, TypeOK, ExitedMeansDrained, JoinedMeansExited, AcceptedIsKept,
     Accepted, Kept, NoLostWakeup, vars
<1>3. CASE Next
  BY <1>1, <1>2, <1>3, WorkerKeepsPool, CallerKeepsPool, DtorKeepsPool DEF Next, Terminated
<1>. QED
  BY <1>1, <1>2, <1>3

\* The invariant of the pool: whatever the numbers of threads and tasks and
\* however the critical sections of enqueue, of the workers and of the
\* destructor interleave, an accepted task is queued, executing or done.
THEOREM PoolInvariant == Spec => []PoolInv
BY InitPool, StepPool, PTL DEF Spec

\* A running worker holds exactly one task and every other worker none, in
\* every reachable state of the pool.
THEOREM TypeCorrect == Spec => []TypeOK
<1>1. PoolInv => TypeOK
  BY DEF PoolInv
<1>. QED
  BY <1>1, PoolInvariant, PTL

\* No wakeup is lost: while a task is queued some worker will look at the
\* queue again, or the notify_one of an enqueue is still to come.
THEOREM WakeupsAreNotLost == Spec => []NoLostWakeup
<1>1. PoolInv => NoLostWakeup
  BY DEF PoolInv
<1>. QED
  BY <1>1, PoolInvariant, PTL

\* The destructor of the pool returns only when every accepted task has run:
\* the workers it has joined left their loops on an empty queue.
THEOREM ShutdownDrains == Spec => []DrainedAtJoin
<1>1. PoolInv => DrainedAtJoin
  <2>1. SUFFICES ASSUME PoolInv, dtor = "joined",
                        NEW c \in Callers, NEW t \in Accepted(c)
                 PROVE  future[t] # "empty"
    BY DEF DrainedAtJoin
  <2>2. \A w \in Workers : worker[w] = "exited" /\ holds[w] = NoTask
    BY <2>1 DEF PoolInv, JoinedMeansExited, TypeOK
  <2>3. tasks = <<>>
    BY <2>1, <2>2, PoolAssumption DEF PoolInv, ExitedMeansDrained
  <2>4. t \in Tasks
    BY BatchTypes, PoolAssumption DEF Accepted
  <2>. QED
    BY <2>1, <2>2, <2>3, <2>4, PoolAssumption DEF PoolInv, AcceptedIsKept, Kept
<1>. QED
  BY <1>1, PoolInvariant, PTL

-----------------------------------------------------------------------------
(***************************************************************************)
(* The refinement.                                                         *)
(*                                                                         *)
(* The executor takes a task only once and runs it only once.  PoolInv     *)
(* says that an accepted task is kept; OnceInv adds that it is kept in one *)
(* place only, and that no task is kept before a caller enqueued it.       *)
(***************************************************************************)

Unfinished(t) == future[t] = "empty"

QueuedOnce ==
    \A k \in DOMAIN tasks :
        /\ Unfinished(tasks[k])
        /\ \A w \in Workers : holds[w] # tasks[k]
        /\ \A l \in DOMAIN tasks : tasks[l] = tasks[k] => l = k

HeldOnce ==
    \A w \in Workers : holds[w] # NoTask =>
        /\ Unfinished(holds[w])
        /\ \A v \in Workers : holds[v] = holds[w] => v = w

KeptMeansAccepted ==
    \A c \in Callers : \A t \in BatchTasks(c) : Kept(t) => t \in Accepted(c)

OnceInv == QueuedOnce /\ HeldOnce /\ KeptMeansAccepted

\* The task an enqueue adds is nowhere yet.
LEMMA CurrentIsNew ==
    ASSUME PoolInv, OnceInv, NEW c \in Callers, Enqueue(c)
    PROVE  /\ Current(c) \in Tasks /\ Current(c) \in BatchTasks(c)
           /\ ~Kept(Current(c))
<1>1. next[c] \in DOMAIN Batch[c] /\ next[c] \in Nat /\ caller[c] = "enqueue"
  BY PoolAssumption DEF PoolInv, TypeOK, Enqueue
<1>2. Current(c) \in BatchTasks(c) /\ Current(c) \in Tasks
  BY <1>1, BatchTypes, PoolAssumption DEF Current, BatchTasks
<1>3. Current(c) \notin Accepted(c)
  <2>1. SUFFICES ASSUME NEW j \in DOMAIN Batch[c], Batch[c][j] = Current(c), j < next[c]
                 PROVE  FALSE
    BY <1>1 DEF Accepted
  <2>2. j = next[c]
    BY <1>1, <2>1, PoolAssumption DEF Current
  <2>. QED
    BY <1>1, <2>1, <2>2
<1>. QED
  BY <1>2, <1>3 DEF OnceInv, KeptMeansAccepted

\* No step takes an acceptance back.
LEMMA AcceptedGrows ==
    ASSUME PoolInv, NEW c \in Callers, NEW d \in Callers, CallerStep(d)
    PROVE  Accepted(c) \subseteq Accepted(c)'
<1>1. /\ caller \in [Callers -> CallerState] /\ next \in [Callers -> Nat \ {0}]
      /\ Batch[c] \in Seq(Tasks) /\ \A j \in DOMAIN Batch[c] : j \in Nat
  BY PoolAssumption DEF PoolInv, TypeOK
<1>2. CASE c # d
  <2>1. caller'[c] = caller[c] /\ next'[c] = next[c]
    BY <1>1, <1>2 DEF CallerStep, Enqueue, EnqueueRefused, Notify, BatchComplete, GetValue,
                      GetException, GetDone
  <2>. QED
    BY <2>1 DEF Accepted
<1>3. CASE c = d
  <2>1. \/ caller'[c] \in {"get", "returned", "threw"}
        \/ caller[c] = "enqueue" /\ caller'[c] \in {"notify", "refused"} /\ next'[c] = next[c]
        \/ caller[c] = "notify" /\ caller'[c] = "enqueue" /\ next'[c] = next[c] + 1
    BY <1>1, <1>3 DEF CallerStep, Enqueue, EnqueueRefused, Notify, BatchComplete, GetValue,
                      GetException, GetDone, CallerState
  <2>2. next[c] \in Nat
    BY <1>1
  <2>3. ASSUME NEW j \in DOMAIN Batch[c],
               \/ caller[c] \in {"get", "returned", "threw"}
               \/ j < next[c]
               \/ caller[c] = "notify" /\ j = next[c]
        PROVE  \/ caller'[c] \in {"get", "returned", "threw"}
               \/ j < next'[c]
               \/ caller'[c] = "notify" /\ j = next'[c]
    <3>1. j \in Nat
      BY <1>1
    <3>. QED
      BY <2>1, <2>2, <2>3, <3>1
  <2>. QED
    BY <2>3 DEF Accepted
<1>. QED
  BY <1>2, <1>3

\* The empty pool keeps nothing.
LEMMA OnceInit == Init => OnceInv
<1> SUFFICES ASSUME Init PROVE OnceInv
  OBVIOUS
<1>1. /\ tasks = <<>> /\ holds = [w \in Workers |-> NoTask]
      /\ future = [t \in Tasks |-> "empty"] /\ NoTask \notin Tasks
  BY PoolAssumption DEF Init
<1>2. QueuedOnce /\ HeldOnce
  BY <1>1 DEF QueuedOnce, HeldOnce
<1>3. \A c \in Callers : \A t \in BatchTasks(c) : t \in Tasks
  BY BatchTypes, PoolAssumption DEF BatchTasks
<1>4. KeptMeansAccepted
  BY <1>1, <1>3 DEF KeptMeansAccepted, Kept
<1>. QED
  BY <1>2, <1>4 DEF OnceInv

\* A worker moves a task from the queue to its hands, and to the finished ones.
LEMMA OnceWorker ==
    ASSUME PoolInv, OnceInv, NEW w \in Workers, WorkerStep(w) \/ SpuriousWakeup(w)
    PROVE  OnceInv'
<1>1. /\ TypeOK /\ NoTask \notin Tasks
      /\ holds \in [Workers -> Tasks \cup {NoTask}] /\ tasks \in Seq(Tasks)
      /\ future \in [Tasks -> {"empty", "value", "exception"}]
  BY PoolAssumption DEF PoolInv, TypeOK
<1>2. \A c \in Callers : Accepted(c)' = Accepted(c)
  BY DEF WorkerStep, WorkerWait, WorkerExit, WorkerTake, WorkerFinish, SpuriousWakeup,
         callerVars, Accepted
<1>3. ASSUME \A t \in Tasks : Kept(t)' => Kept(t)
      PROVE  KeptMeansAccepted'
  <2>1. \A c \in Callers : \A t \in BatchTasks(c) : t \in Tasks
    BY BatchTypes, PoolAssumption DEF BatchTasks
  <2>. QED
    BY <1>2, <1>3, <2>1 DEF OnceInv, KeptMeansAccepted
<1>4. CASE WorkerWait(w) \/ WorkerExit(w) \/ SpuriousWakeup(w)
  <2>1. UNCHANGED <<tasks, holds, future>>
    BY <1>4 DEF WorkerWait, WorkerExit, SpuriousWakeup
  <2>. QED
    BY <1>3, <2>1 DEF OnceInv, QueuedOnce, HeldOnce, Unfinished, Kept
<1>5. CASE WorkerTake(w)
  <2>1. /\ tasks # <<>> /\ future' = future /\ tasks' = Tail(tasks)
        /\ holds' = [holds EXCEPT ![w] = tasks[1]]
        /\ holds[w] = NoTask
    BY <1>1, <1>5 DEF WorkerTake, TypeOK
  <2>2. /\ tasks[1] \in Tasks
        /\ \A k \in DOMAIN tasks' :
              k + 1 \in DOMAIN tasks /\ k + 1 # 1 /\ tasks'[k] = tasks[k + 1] /\ k \in Nat
        /\ 1 \in DOMAIN tasks
    BY <1>1, <2>1
  <2>3. /\ holds'[w] = tasks[1]
        /\ \A v \in Workers \ {w} : holds'[v] = holds[v]
    BY <1>1, <2>1
  <2>4. QueuedOnce'
    <3>1. ASSUME NEW k \in DOMAIN tasks'
          PROVE  /\ future[tasks'[k]] = "empty"
                 /\ \A v \in Workers : holds'[v] # tasks'[k]
                 /\ \A l \in DOMAIN tasks' : tasks'[l] = tasks'[k] => l = k
      <4>1. /\ future[tasks[k + 1]] = "empty"
            /\ \A v \in Workers : holds[v] # tasks[k + 1]
            /\ \A l \in DOMAIN tasks : tasks[l] = tasks[k + 1] => l = k + 1
        BY <2>2 DEF OnceInv, QueuedOnce, Unfinished
      <4>2. tasks[1] # tasks[k + 1]
        BY <2>2, <4>1
      <4>3. ASSUME NEW l \in DOMAIN tasks', tasks'[l] = tasks'[k] PROVE l = k
        <5>1. l + 1 = k + 1 /\ l \in Nat /\ k \in Nat
          BY <2>2, <4>1, <4>3
        <5>. QED
          BY <5>1
      <4>. QED
        BY <2>2, <2>3, <4>1, <4>2, <4>3
    <3>. QED
      BY <2>1, <3>1 DEF QueuedOnce, Unfinished
  <2>5. HeldOnce'
    <3>1. /\ future[tasks[1]] = "empty"
          /\ \A v \in Workers : holds[v] # tasks[1]
      BY <2>2 DEF OnceInv, QueuedOnce, Unfinished
    <3>. QED
      BY <2>1, <2>3, <3>1 DEF OnceInv, HeldOnce, Unfinished
  <2>6. \A t \in Tasks : Kept(t)' => Kept(t)
    BY <2>1, <2>2, <2>3 DEF Kept
  <2>. QED
    BY <1>3, <2>4, <2>5, <2>6 DEF OnceInv
<1>6. CASE WorkerFinish(w)
  <2>1. /\ tasks' = tasks /\ holds[w] \in Tasks
        /\ holds' = [holds EXCEPT ![w] = NoTask]
        /\ \E result \in {"value", "exception"} : future' = [future EXCEPT ![holds[w]] = result]
    BY <1>1, <1>6 DEF WorkerFinish, TypeOK
  <2>2. /\ holds'[w] = NoTask
        /\ \A v \in Workers \ {w} : holds'[v] = holds[v]
        /\ \A t \in Tasks \ {holds[w]} : future'[t] = future[t]
    BY <1>1, <2>1
  <2>3. \A k \in DOMAIN tasks : tasks[k] \in Tasks
    BY <1>1
  <2>4. QueuedOnce'
    BY <1>1, <2>1, <2>2, <2>3 DEF OnceInv, QueuedOnce, Unfinished
  <2>5. HeldOnce'
    BY <1>1, <2>1, <2>2 DEF OnceInv, HeldOnce, Unfinished
  <2>6. \A t \in Tasks : Kept(t)' => Kept(t)
    BY <1>1, <2>1, <2>2 DEF Kept
  <2>. QED
    BY <1>3, <2>4, <2>5, <2>6 DEF OnceInv
<1>. QED
  BY <1>4, <1>5, <1>6 DEF WorkerStep

\* A caller adds a task that is nowhere else.
LEMMA OnceCaller ==
    ASSUME PoolInv, OnceInv, NEW c \in Callers, CallerStep(c)
    PROVE  OnceInv'
<1>1. tasks \in Seq(Tasks) /\ NoTask \notin Tasks
  BY PoolAssumption DEF PoolInv, TypeOK
<1>2. UNCHANGED <<holds, future>>
  BY DEF CallerStep, Enqueue, EnqueueRefused, Notify, BatchComplete, GetValue, GetException,
         GetDone, poolVars
<1>3. \A d \in Callers : Accepted(d) \subseteq Accepted(d)'
  BY AcceptedGrows
<1>4. CASE tasks' = tasks
  BY <1>2, <1>3, <1>4 DEF OnceInv, QueuedOnce, HeldOnce, KeptMeansAccepted, Kept, Unfinished
<1>5. CASE Enqueue(c)
  <2> DEFINE t == Current(c)
  <2>1. t \in Tasks /\ t \in BatchTasks(c) /\ ~Kept(t)
    BY <1>5, CurrentIsNew
  <2>2. tasks' = Append(tasks, t)
    BY <1>5 DEF Enqueue
  <2>3. t \in Accepted(c)'
    <3>1. /\ caller'[c] = "notify" /\ next'[c] = next[c] /\ next[c] \in DOMAIN Batch[c]
      BY <1>5, PoolAssumption DEF PoolInv, TypeOK, Enqueue
    <3>. QED
      BY <3>1 DEF Accepted, Current
  <2> HIDE DEF t
  <2>4. /\ DOMAIN tasks' = DOMAIN tasks \cup {Len(tasks) + 1}
        /\ \A k \in DOMAIN tasks : tasks'[k] = tasks[k]
        /\ tasks'[Len(tasks) + 1] = t
    BY <1>1, <2>1, <2>2
  <2>5. /\ future[t] = "empty" /\ \A w \in Workers : holds[w] # t
        /\ \A k \in DOMAIN tasks : tasks[k] # t
    BY <2>1 DEF Kept
  <2>6. QueuedOnce' /\ HeldOnce'
    BY <1>2, <2>4, <2>5 DEF OnceInv, QueuedOnce, HeldOnce, Unfinished
  <2>7. KeptMeansAccepted'
    <3>1. ASSUME NEW d \in Callers, NEW u \in BatchTasks(d), Kept(u)'
          PROVE  u \in Accepted(d)'
      <4>1. Kept(u) \/ u = t
        BY <1>2, <2>4, <3>1 DEF Kept
      <4>2. CASE Kept(u)
        BY <1>3, <4>2 DEF OnceInv, KeptMeansAccepted
      <4>3. CASE u = t
        <5>1. d = c
          BY <2>1, <4>3, PoolAssumption
        <5>. QED
          BY <2>3, <4>3, <5>1
      <4>. QED
        BY <4>1, <4>2, <4>3
    <3>. QED
      BY <3>1 DEF KeptMeansAccepted
  <2>. QED
    BY <2>6, <2>7 DEF OnceInv
<1>6. tasks' = tasks \/ Enqueue(c)
  BY DEF CallerStep, EnqueueRefused, Notify, BatchComplete, GetValue, GetException, GetDone,
         poolVars
<1>. QED
  BY <1>4, <1>5, <1>6

\* Every step keeps it.
LEMMA OnceStep == PoolInv /\ OnceInv /\ [Next]_vars => OnceInv'
<1> SUFFICES ASSUME PoolInv, OnceInv, [Next]_vars PROVE OnceInv'
  OBVIOUS
<1>1. CASE DtorStop \/ DtorFinish \/ Terminated \/ UNCHANGED vars
  <2>1. UNCHANGED <<tasks, holds, future, caller, next>>
    BY <1>1 DEF DtorStop, DtorFinish, DtorNotifyAll, DtorJoin, Terminated, vars, poolVars,
                callerVars
  <2>. QED
    BY <2>1 DEF OnceInv, QueuedOnce, HeldOnce, KeptMeansAccepted, Kept, Unfinished, Accepted
<1>. QED
  BY <1>1, OnceWorker, OnceCaller DEF Next

-----------------------------------------------------------------------------
(* The refinement, step by step.                                           *)

Phase == CASE dtor = "joined" -> "ended"
           [] dtor # "joined" /\ stop -> "closed"
           [] OTHER -> "open"
Finished == {t \in Tasks : future[t] # "empty"}

\* A worker starts a task, or finishes it, or does nothing the executor knows.
LEMMA WorkerRefines ==
    ASSUME PoolInv, OnceInv, NEW w \in Workers, WorkerStep(w) \/ SpuriousWakeup(w)
    PROVE  [Executor!Next]_(Executor!vars)
<1>1. /\ worker \in [Workers -> WorkerState] /\ holds \in [Workers -> Tasks \cup {NoTask}]
      /\ \A v \in Workers : holds[v] = NoTask <=> worker[v] # "running"
      /\ future \in [Tasks -> {"empty", "value", "exception"}] /\ NoTask \notin Tasks
      /\ UNCHANGED <<stop, dtor>>
  BY PoolAssumption DEF PoolInv, TypeOK, WorkerStep, WorkerWait, WorkerExit, WorkerTake,
     WorkerFinish, SpuriousWakeup
<1>2. Phase' = Phase
  BY <1>1 DEF Phase
<1>3. CASE WorkerWait(w) \/ WorkerExit(w) \/ SpuriousWakeup(w)
  <2>1. /\ UNCHANGED <<tasks, holds, future>> /\ worker[w] # "running"
        /\ \E st \in {"waiting", "exited", "check"} : worker' = [worker EXCEPT ![w] = st]
    BY <1>3 DEF WorkerWait, WorkerExit, SpuriousWakeup
  <2>2. Executing' = Executing
    BY <1>1, <2>1 DEF Executing
  <2>. QED
    BY <1>2, <2>1, <2>2 DEF Executor!vars, Phase, Finished
<1>4. CASE WorkerTake(w)
  <2>1. /\ tasks # <<>> /\ tasks' = Tail(tasks) /\ UNCHANGED future
        /\ worker[w] = "check" /\ worker' = [worker EXCEPT ![w] = "running"]
        /\ holds' = [holds EXCEPT ![w] = Head(tasks)]
    BY <1>4 DEF WorkerTake
  <2>2. Executing' = Executing \cup {Head(tasks)}
    BY <1>1, <2>1 DEF Executing
  <2>3. Executor!Start
    BY <1>2, <2>1, <2>2 DEF Executor!Start, Phase
  <2>. QED
    BY <2>3 DEF Executor!Next
<1>5. CASE WorkerFinish(w)
  <2>1. /\ worker[w] = "running" /\ UNCHANGED tasks
        /\ worker' = [worker EXCEPT ![w] = "check"]
        /\ holds' = [holds EXCEPT ![w] = NoTask]
        /\ \E result \in {"value", "exception"} : future' = [future EXCEPT ![holds[w]] = result]
    BY <1>5 DEF WorkerFinish
  <2>2. holds[w] \in Tasks /\ holds[w] \in Executing
    BY <1>1, <2>1 DEF Executing
  <2>3. \A v \in Workers : holds[v] = holds[w] => v = w
    BY <1>1, <2>1, <2>2 DEF OnceInv, HeldOnce
  <2>4. Executing' = Executing \ {holds[w]}
    BY <1>1, <2>1, <2>3 DEF Executing
  <2>5. Finished' = Finished \cup {holds[w]}
    BY <1>1, <2>1, <2>2 DEF Finished
  <2>6. PICK t \in Tasks : t = holds[w]
    BY <2>2
  <2>7. Executor!Finish(t)
    BY <1>2, <2>1, <2>2, <2>4, <2>5, <2>6 DEF Executor!Finish, Phase, Finished
  <2>. QED
    BY <2>7 DEF Executor!Next
<1>. QED
  BY <1>3, <1>4, <1>5 DEF WorkerStep

\* An enqueue submits; the rest of a caller is its own affair.
LEMMA CallerRefines ==
    ASSUME PoolInv, OnceInv, NEW c \in Callers, CallerStep(c)
    PROVE  [Executor!Next]_(Executor!vars)
<1>1. UNCHANGED <<stop, dtor, holds, future>>
  BY DEF CallerStep, Enqueue, EnqueueRefused, Notify, BatchComplete, GetValue, GetException,
         GetDone, poolVars
<1>2. Executing' = Executing
  <2>1. worker \in [Workers -> WorkerState]
    BY DEF PoolInv, TypeOK
  <2>2. \/ UNCHANGED worker
        \/ \E w \in Waiting : worker' = [worker EXCEPT ![w] = "check"]
    BY DEF CallerStep, Enqueue, EnqueueRefused, Notify, NotifyOne, BatchComplete, GetValue,
           GetException, GetDone, poolVars
  <2>. QED
    BY <1>1, <2>1, <2>2 DEF Executing, Waiting
<1>3. Phase' = Phase /\ Finished' = Finished
  BY <1>1 DEF Phase, Finished
<1>4. CASE tasks' = tasks
  BY <1>2, <1>3, <1>4 DEF Executor!vars, Phase, Finished
<1>5. CASE Enqueue(c)
  <2>1. Current(c) \in Tasks /\ ~Kept(Current(c))
    BY <1>5, CurrentIsNew
  <2>2. Current(c) \notin Executor!Queued \cup Executing \cup Finished
    BY <2>1 DEF Kept, Executor!Queued, Executing, Finished
  <2>3. tasks' = Append(tasks, Current(c)) /\ Phase = "open"
    BY <1>5 DEF Enqueue, Phase
  <2>4. Executor!Submit(Current(c))
    BY <1>2, <1>3, <2>2, <2>3 DEF Executor!Submit, Phase, Finished
  <2>. QED
    BY <2>1, <2>4 DEF Executor!Next
<1>6. tasks' = tasks \/ Enqueue(c)
  BY DEF CallerStep, EnqueueRefused, Notify, BatchComplete, GetValue, GetException, GetDone,
         poolVars
<1>. QED
  BY <1>4, <1>5, <1>6

\* The destructor closes, and ends once the workers have left.
LEMMA DtorRefines ==
    ASSUME PoolInv, DtorStop \/ DtorFinish
    PROVE  [Executor!Next]_(Executor!vars)
<1>1. /\ worker \in [Workers -> WorkerState]
      /\ UNCHANGED <<tasks, holds, future>>
  BY DEF PoolInv, TypeOK, DtorStop, DtorFinish, DtorNotifyAll, DtorJoin, poolVars
<1>2. Executing' = Executing
  BY <1>1 DEF DtorStop, DtorFinish, DtorNotifyAll, NotifyAll, Waiting, DtorJoin, Executing,
              poolVars
<1>3. Finished' = Finished
  BY <1>1 DEF Finished
<1>4. CASE DtorStop
  <2>1. /\ dtor = "alive" /\ dtor' = "stopped" /\ stop'
    BY <1>4 DEF DtorStop
  <2>2. CASE stop
    <3>1. Phase' = Phase
      BY <2>1, <2>2 DEF Phase
    <3>. QED
      BY <1>1, <1>2, <1>3, <3>1 DEF Executor!vars, Phase, Finished
  <2>3. CASE ~stop
    <3>1. Phase = "open" /\ Phase' = "closed"
      BY <2>1, <2>3 DEF Phase
    <3>2. Executor!Close
      BY <1>1, <1>2, <1>3, <3>1 DEF Executor!Close, Phase, Finished
    <3>. QED
      BY <3>2 DEF Executor!Next
  <2>. QED
    BY <2>2, <2>3
<1>5. CASE DtorNotifyAll
  <2>1. Phase' = Phase
    BY <1>5 DEF DtorNotifyAll, Phase
  <2>. QED
    BY <1>1, <1>2, <1>3, <2>1 DEF Executor!vars, Phase, Finished
<1>6. CASE DtorJoin
  <2>1. /\ dtor = "joining" /\ dtor' = "joined" /\ \A w \in Workers : worker[w] = "exited"
    BY <1>6 DEF DtorJoin
  <2>2. stop /\ tasks = <<>> /\ Executing = {}
    BY <2>1, PoolAssumption DEF PoolInv, ExitedMeansDrained, Executing
  <2>3. Phase = "closed" /\ Phase' = "ended"
    BY <2>1, <2>2 DEF Phase
  <2>4. Executor!End
    BY <1>1, <1>2, <1>3, <2>2, <2>3 DEF Executor!End, Phase, Finished
  <2>. QED
    BY <2>4 DEF Executor!Next
<1>. QED
  BY <1>4, <1>5, <1>6 DEF DtorFinish

\* ThreadPool implements TaskExecutor: tasks start in the order in which enqueue
\* accepted them, each runs once, enqueue accepts none after stop, and the
\* destructor returns only when all have run.
THEOREM PoolImplementsExecutor == Spec => Executor!Spec
<1>1. Init => Executor!Init
  <2>1. SUFFICES ASSUME Init PROVE Executor!Init
    OBVIOUS
  <2>2. Executing = {} /\ Finished = {} /\ Phase = "open" /\ tasks = <<>>
    BY <2>1 DEF Init, Executing, Finished, Phase
  <2>. QED
    BY <2>2 DEF Executor!Init, Finished, Phase
<1>2. PoolInv /\ OnceInv /\ [Next]_vars => [Executor!Next]_(Executor!vars)
  <2>1. SUFFICES ASSUME PoolInv, OnceInv, [Next]_vars
                 PROVE  [Executor!Next]_(Executor!vars)
    OBVIOUS
  <2>2. CASE UNCHANGED vars
    BY <2>2 DEF vars, Executor!vars, Executing
  <2>3. CASE Next
    BY <2>1, <2>2, <2>3, WorkerRefines, CallerRefines, DtorRefines DEF Next, Terminated
  <2>. QED
    BY <2>1, <2>2, <2>3
<1>. QED
  BY <1>1, <1>2, PoolInvariant, OnceInit, OnceStep, PTL DEF Spec, Executor!Spec

=============================================================================
