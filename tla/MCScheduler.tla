---------------------------- MODULE MCScheduler ----------------------------
(* Instances of Scheduler for TLC. *)
EXTENDS Scheduler, TLC

CONSTANTS w1, w2

\* A large worker, where all the executions fit, and a small one, where the second
\* execution does not. The second one goes before those that would still fit.
Capacities   == w1 :> 2 @@ w2 :> 1
Requirements == [a \in Actions |-> IF a = 2 THEN 2 ELSE 1]
Priorities   == [a \in Actions |-> CASE a = 2 -> 1 [] a = 3 -> 2 [] OTHER -> 0]

\* All the executions may depend on the first, and the last one on all of them.
FirstAndLast == [a \in Actions |-> IF a = NumActions THEN 1 .. a - 1 ELSE {1} \ {a}]
OnFirst      == [a \in Actions |-> {1} \ {a}]

\* Executions of the same requirement and priority.
Ones  == [a \in Actions |-> 1]
Zeros == [a \in Actions |-> 0]
=============================================================================
