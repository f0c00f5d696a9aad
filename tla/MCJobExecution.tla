--------------------------- MODULE MCJobExecution ---------------------------
(* Instances of JobExecution for TLC. *)
EXTENDS JobExecution, TLC

CONSTANTS a1, a2, d, e

\* Two executions read d; one reads d and updates e; one needs nothing.
SharedOrMixed ==
    {[a \in {a1, a2} |-> d :> "R" @@ e :> "none"],
     [a \in {a1} |-> d :> "R" @@ e :> "RW"],
     [a \in {a1} |-> d :> "none" @@ e :> "none"]}
=============================================================================
