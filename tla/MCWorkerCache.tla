--------------------------- MODULE MCWorkerCache ---------------------------
(* Instances of WorkerCache for TLC. *)
EXTENDS WorkerCache, TLC

\* All the programs of three tasks, and longer ones in which a version is read here and in
\* another node while a task changes it.
ThreeOrMoreTasks ==
    [1 .. 3 -> Directions]
        \cup {<<"inout", "in", "remote", "inout">>, <<"in", "in", "inout", "inout", "remote">>,
              <<"out", "remote", "inout", "in", "out">>}

PacedOrNot == {{"exclusive_rewrite"}, AllAssumptions}
=============================================================================
