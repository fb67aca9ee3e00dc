---------------------------- MODULE MCThreadPool ----------------------------
EXTENDS ThreadPool

CONSTANTS w1, w2, w3, c1, c2, t1, t2, t3

MCWorkers == {w1, w2, w3}
MCCallers == {c1, c2}
MCTasks == {t1, t2, t3}

\* One caller enqueues two tasks, the other one: queue lengths up to three,
\* an abandoned batch, and three workers racing for two or three tasks.
MCBatch == [c \in MCCallers |-> IF c = c1 THEN <<t1, t2>> ELSE <<t3>>]

=============================================================================
