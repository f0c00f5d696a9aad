----------------------- MODULE TaskAnalyserRefinement -----------------------
(***************************************************************************)
(* TaskAnalyser, with its two queues, its three copies of the dependencies *)
(* and its counted semaphores, implements Dataflow. The mapping reads the  *)
(* phase of a task from the queue of the Access Processor and from the     *)
(* state of its execution. It is meant for tasks with one execution: those *)
(* that are replicated do not refine Dataflow.                             *)
(***************************************************************************)
EXTENDS TaskAnalyser

Phase(t) ==
    IF owner[t] = None THEN "none"
    ELSE IF InQueue(apQueue, Request("analyse", t, owner[t])) THEN "created"
    ELSE IF Finished(t) THEN "finished"
    ELSE IF Done(t) THEN "failed"
    ELSE IF running[t] > 0 THEN "running" ELSE "ordered"

CallOf(h) ==
    IF pc[h] = "running" THEN "none"
    ELSE IF pc[h] = "register" THEN "access"
    ELSE IF pc[h] \in {"registered", "wait"} THEN "ordered" ELSE pc[h]

Flow == INSTANCE Dataflow WITH
    phase   <- [t \in Tasks |-> Phase(t)],
    inputs  <- needs,
    call    <- [h \in Threads |-> CallOf(h)],
    awaited <- mainNeeds

\* The runtime keeps the promise of Dataflow: every step of the threads, of the Access
\* Processor and of the Task Dispatcher is a step of Dataflow or changes nothing that an
\* application sees. A task is ordered, and started, and a thread returns from a barrier
\* or gets a datum, only when Dataflow lets it, whatever the order of the requests.
ImplementsDataflow == Flow!Spec
=============================================================================
