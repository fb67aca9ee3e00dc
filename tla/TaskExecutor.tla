---------------------------- MODULE TaskExecutor ----------------------------
(***************************************************************************)
(* What a user of ThreadPool (src/utils/thread_pool.h) may rely on: a task *)
(* accepted before the shutdown runs exactly once, tasks start in the      *)
(* order in which they were accepted, and the shutdown ends only when      *)
(* every accepted task has run.  Threads, the mutex and the condition      *)
(* variable do not appear here; ThreadPool.tla shows that they implement   *)
(* this.                                                                   *)
(***************************************************************************)
EXTENDS Sequences

CONSTANT Tasks

VARIABLES queue,    \* accepted tasks that have not started, oldest first
          running,  \* tasks being executed
          finished, \* tasks whose future is ready
          phase     \* "open", "closed" (no task is accepted), "ended"

vars == <<queue, running, finished, phase>>

Queued == {queue[i] : i \in DOMAIN queue}

Init == /\ queue = <<>>
        /\ running = {}
        /\ finished = {}
        /\ phase = "open"

Submit(t) == /\ phase = "open"
             /\ t \notin Queued \cup running \cup finished
             /\ queue' = Append(queue, t)
             /\ UNCHANGED <<running, finished, phase>>

Start == /\ queue # <<>>
         /\ running' = running \cup {Head(queue)}
         /\ queue' = Tail(queue)
         /\ UNCHANGED <<finished, phase>>

Finish(t) == /\ t \in running
             /\ running' = running \ {t}
             /\ finished' = finished \cup {t}
             /\ UNCHANGED <<queue, phase>>

Close == /\ phase = "open"
         /\ phase' = "closed"
         /\ UNCHANGED <<queue, running, finished>>

End == /\ phase = "closed"
       /\ queue = <<>>
       /\ running = {}
       /\ phase' = "ended"
       /\ UNCHANGED <<queue, running, finished>>

Next == \/ Start \/ Close \/ End
        \/ \E t \in Tasks : Submit(t) \/ Finish(t)

\* An accepted task is eventually started and finished, and a closed executor
\* ends; nobody is obliged to submit a task or to close the executor.
Fairness == /\ WF_vars(Start)
            /\ WF_vars(End)
            /\ \A t \in Tasks : WF_vars(Finish(t))

Spec == Init /\ [][Next]_vars

FairSpec == Spec /\ Fairness

=============================================================================
