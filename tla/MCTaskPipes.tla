---------------------------- MODULE MCTaskPipes ----------------------------
(* Instances of TaskPipes for TLC. *)
EXTENDS TaskPipes, TLC

CONSTANTS e1, e2

TimelyEnvironment == {"slow_jobs", "prompt_reader"}

\* Any timing with one job, and a timely environment with two.
TimelyOrNot    == {{}, TimelyEnvironment}
MoreWhenTimely == [env \in TimelyOrNot |-> IF env = {} THEN 1 ELSE 2]

TimelyOnly == {TimelyEnvironment}
OneJob     == [env \in TimelyOnly |-> 1]
=============================================================================
